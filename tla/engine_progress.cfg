SPECIFICATION ProgressSpec
CONSTANTS
  Parts = {"locks", "rsa"}
  Threads = {t1, t2, t3}
  FindTypes <- Asymmetric
  SessionTypes <- AllTypes
  Calls = {"session", "key", "destroyall", "uri", "login", "fork", "caching", "forked", "askpass"}
  MaxCalls = 1
  RsaThreads = {t1, t2}
  Sessions = {s1, s2}
  Rsas = {r1}
  Pairs = {k1}
  TokenPairs = {}
  SHandles = {h1, h2}
  Ops = {"privop"}
  Faults = {"malloc", "init", "find", "final", "create", "dup", "destroy"}
  Nil = Nil
INVARIANTS NoWaitCycle ForksAlone
PROPERTIES CallsEnd LockReleased
