SPECIFICATION Spec
CONSTANTS
  Threads = {t1, t2}
  Sessions = {s1, s2}
  Rsas = {r1, r2}
  Pairs = {k1, k2}
  TokenPairs = {}
  SHandles = {h1, h2}
  Ops = {"pubop", "privop"}
  Faults = {"malloc", "create", "dup"}
  Nil = Nil
SYMMETRY Symmetry
INVARIANTS TypeOK RefsExact UsesRightKey NoDuplicateObjects NoOrphan
PROPERTY StoreSpec
