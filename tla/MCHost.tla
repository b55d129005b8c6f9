------------------------------- MODULE MCHost --------------------------------
(***************************************************************************)
(* The SNMP agent's modules and run-parts, side by side.  A behaviour is   *)
(* one of one of the modules below, which share no state; the others stay  *)
(* in an initial state.  MCPrograms gives the constants their values.      *)
(***************************************************************************)
EXTENDS Integers, Sequences, FiniteSets

CONSTANTS
  Programs,                                          \* which of them
  Directories, Modes, PIPE_BUF, MaxWrites,           \* RunParts
  MaxIndex, LargeTable, Wanted, MaxCalls,            \* EntityMib
  Order, Prefixed, DiskReadings, MaxEvents,          \* HealthDisks
  Thresholds, RuleReadings,                          \* HealthRules
  Guids, PoolNames, Root, PoolFaults, Sweeps, MaxGen,            \* PoolCache
  Pids, Nameless, Signals, cache_lifetime, MaxClock, MaxBorn,    \* ProcTable
  Devices, UDQ, MaxTime,                             \* TtyDevices
  Nil

VARIABLES
  program,
  mode, namelist, i, partAt, part, holders, pipe, open, printflag, shown, started, failed, exitstatus,
  phys, physTail, logical, logicalTail, lp, alias, contains, pending, quiet, due, ruined, calls,
  kernel, list, detail, srv, detailAgain, srvAgain, table, pass, off, broken, told, last, events,
  rule, state, new, prev, first, ruleTold, closed,
  pools, gen, ph_cfg, ph_gen, ph_first, fresh, reads, crashed,
  clock, proc, born, cache_now, ps_cache_time, pstable, walk, set, sent,
  now, dev, dev_time, psfile, devl, room, maxdev, found, at

partsVars == <<mode, namelist, i, partAt, part, holders, pipe, open, printflag, shown, started, failed, exitstatus>>
entityVars == <<phys, physTail, logical, logicalTail, lp, alias, contains, pending, quiet, due, ruined, calls>>
diskVars == <<kernel, list, detail, srv, detailAgain, srvAgain, table, pass, off, broken, told, last, events>>
ruleVars == <<rule, state, new, prev, first, ruleTold, closed>>
poolVars == <<pools, gen, ph_cfg, ph_gen, ph_first, fresh, reads, crashed>>
procVars == <<clock, proc, born, cache_now, ps_cache_time, pstable, walk, set, sent>>
ttyVars == <<now, dev, dev_time, psfile, devl, room, maxdev, found, at>>
hostVars == <<program, partsVars, entityVars, diskVars, ruleVars, poolVars, procVars, ttyVars>>

P == INSTANCE RunParts WITH at <- partAt
E == INSTANCE EntityMib WITH broken <- ruined
D == INSTANCE HealthDisks WITH Readings <- DiskReadings
H == INSTANCE HealthRules WITH T <- Thresholds, Readings <- RuleReadings, told <- ruleTold
Z == INSTANCE PoolCache
C == INSTANCE ProcTable
Y == INSTANCE TtyDevices

ASSUME HostAssumption ==
  /\ P!PartsAssumption /\ E!EntityAssumption /\ D!DiskAssumption
  /\ Z!PoolAssumption /\ C!ProcAssumption

-----------------------------------------------------------------------------
(* Where a program that does not run stays.                                  *)
NoParts == mode = {} /\ namelist = CHOOSE d \in Directories : TRUE
NoDisks == kernel = D!Disks
NoRules == rule = "SWAP"
NoPools == pools = [g \in Guids |-> IF g \in DOMAIN Root THEN Root[g] ELSE Nil]
NoProcs == proc = CHOOSE f \in C!FirstProcs : TRUE
NoTtys == dev = {}

HostInit ==
  /\ program \in Programs
  /\ (program = "run-parts" \/ NoParts) /\ P!PartsInit
  /\ E!Init
  /\ (program = "disks" \/ NoDisks) /\ D!Init
  /\ (program = "rules" \/ NoRules) /\ H!Init
  /\ (program = "pools" \/ NoPools) /\ Z!PoolInit
  /\ (program = "processes" \/ NoProcs) /\ C!ProcInit
  /\ (program = "ttys" \/ NoTtys) /\ Y!TtyInit

HostNext ==
  \/ program = "run-parts" /\ P!PartsNext
       /\ UNCHANGED <<program, entityVars, diskVars, ruleVars, poolVars, procVars, ttyVars>>
  \/ program = "entity" /\ E!Next
       /\ UNCHANGED <<program, partsVars, diskVars, ruleVars, poolVars, procVars, ttyVars>>
  \/ program = "disks" /\ D!Next
       /\ UNCHANGED <<program, partsVars, entityVars, ruleVars, poolVars, procVars, ttyVars>>
  \/ program = "rules" /\ H!Next
       /\ UNCHANGED <<program, partsVars, entityVars, diskVars, poolVars, procVars, ttyVars>>
  \/ program = "pools" /\ Z!PoolNext
       /\ UNCHANGED <<program, partsVars, entityVars, diskVars, ruleVars, procVars, ttyVars>>
  \/ program = "processes" /\ C!ProcNext
       /\ UNCHANGED <<program, partsVars, entityVars, diskVars, ruleVars, poolVars, ttyVars>>
  \/ program = "ttys" /\ Y!TtyNext
       /\ UNCHANGED <<program, partsVars, entityVars, diskVars, ruleVars, poolVars, procVars>>

HostSpec == HostInit /\ [][HostNext]_hostVars

-----------------------------------------------------------------------------
\* run-parts --report shows all that a part wrote, under its name, and never
\* waits for a part that waits for it (run_part).
PartsReported == program = "run-parts" => P!Reported /\ P!NoWaitForWriter

\* No row of the entity tables names an entry that is gone, a child's parent
\* is the lowest of its parents, and the lists are sorted (entityMib).
EntityTables == program = "entity" => E!TablesAgree /\ E!LowestParent /\ E!ListsSorted

\* A refresh has a row for every disk, or one of a name that the disk's begins,
\* and none twice. The manager knows the level of each row, and of each alarm of
\* a rule unless it opened again and is no worse than an earlier one was
\* (refresh_DISK_table, check_state_DISK, hm_handle_rule).
HealthTold ==
  /\ program = "disks" => D!TableComplete /\ D!DiskStateTold
  /\ program = "rules" => H!AlarmKnown

\* Only disks that were removed leave the table in a refresh, and those for
\* which a row of a longer name stands (refresh_DISK_table).
OnlyRemovedLeave == [][D!RemovedLeave]_diskVars

\* The pool list is that of the configurations last read, its lock is given
\* back, and a pool that is gone is pruned (refresh_pool_cache, check_cache).
PoolsRight == program = "pools" => Z!CacheMatches /\ Z!LockBalanced /\ Z!NoCrash

\* A walk lists every process that lived all the while, in order and once; the
\* terminals are those a search of /dev found, whatever was written of the
\* file before the agent stopped (get_ps_data, readata, wrdata).
HostTables ==
  /\ program = "processes" => C!WalkComplete
  /\ program = "ttys" => Y!ListWhole
=============================================================================
