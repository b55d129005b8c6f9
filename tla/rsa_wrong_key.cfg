SPECIFICATION Spec
CONSTANTS
  Threads = {t1}
  Sessions = {s1}
  Rsas = {r1, r2}
  Pairs = {k1, k2}
  TokenPairs = {k2}
  SHandles = {h1, h2}
  Ops = {"pubop", "refpriv"}
  Faults = {}
  Nil = Nil
SYMMETRY Symmetry
INVARIANT UsesRightKey
