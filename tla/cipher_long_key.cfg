SPECIFICATION OpsSpec
CONSTANTS
  Parts = {"cipher"}
  Nil = Nil
  Ctxs = {a1, a2}
  Sessions = {b1, b2}
  Handles = {c1, c2}
  Requests <- LongRequests
  KeyLenMax = 2
  FaultSets = {{}}
  InitAgain = FALSE
  DigestCtxs = {x1, x2, x3}
  DigestSessions = {y1, y2, y3}
  Chunks = {u, v}
  MaxLen = 2
  DigestFaults = {"get", "init", "update", "size", "copy"}
  Threads = {a1, a2}
  KeyStructs = {k1}
  Numbers = {n1, n2}
  KeyOps = {"sign", "verify", "compute", "generate", "rand"}
  KeyFaults = {"search", "create", "dup", "malloc", "use", "read"}
  NSlots = 2
  Ciphers <- CipherTable
  Digests <- DigestTable
  SlotOffers <- SomeOffers
  CpuNids = {"aes256"}
  MaxInits = 2
  Engines = {b1, b2}
  MaxId = 2
  NIDs = {"des", "aes"}
  Providers <- TwoProviders
  Secrets = {c1, c2}
  Garbage = {Nil}
  MaxLoads = 2
INVARIANT StreamIntact
