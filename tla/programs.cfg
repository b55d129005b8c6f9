SPECIFICATION Spec
CONSTANTS
  Programs = {"sed", "regexp", "run-parts", "entity", "disks", "rules", "pools", "processes", "ttys"}
  Newline = "nl"
  Scripts <- AllScripts
  Streams <- AllStreams
  Failures = {0, 1, 2}
  SED_ABUFSIZE = 3
  MaxFlush = 1
  Directories <- TwoDirectories
  Modes <- SomeModes
  PIPE_BUF = 1
  MaxWrites = 2
  MaxIndex = 3
  LargeTable = 1
  Wanted = {0, 1, 3}
  Order <- DiskOrder
  Prefixed <- Prefixes
  DiskReadings <- TwoReadings
  MaxEvents = 2
  Thresholds <- SomeThresholds
  RuleReadings <- LevelReadings
  Guids = {"g1", "g2", "g3"}
  PoolNames <- Configured
  Root <- SystemPool
  PoolFaults = {"configs"}
  Sweeps = {1}
  MaxGen = 5
  Pids = {0, 1, 2}
  Nameless = {3}
  Signals = {0, 9}
  cache_lifetime = 0
  MaxClock = 2
  MaxBorn = 3
  Devices = {"console", "tty1"}
  UDQ = 1
  MaxTime = 3
  MaxCalls = 5
  Nil = Nil
INVARIANTS TypeOK SplitAlike PassedAlike BranchesResolved MatchesFound PartsReported
INVARIANTS EntityTables HealthTold PoolsRight HostTables
PROPERTIES OnlyRemovedLeave ChangeTold
CHECK_DEADLOCK FALSE
