SPECIFICATION ProgressSpec
CONSTANTS
  Parts = {"locks"}
  Threads = {t1}
  FindTypes <- Asymmetric
  SessionTypes <- AllTypes
  Calls = {"caching"}
  MaxCalls = 1
  RsaThreads = {t1, t2}
  Sessions = {s1, s2}
  Rsas = {r1}
  Pairs = {k1}
  TokenPairs = {}
  SHandles = {h1, h2}
  Ops = {"pubop"}
  Faults = {"malloc", "init", "find", "final", "create", "dup", "destroy"}
  Nil = Nil
INVARIANT NoCircle
