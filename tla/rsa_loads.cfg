SPECIFICATION Spec
CONSTANTS
  Threads = {t1, t2}
  Sessions = {s1, s2}
  Rsas = {r1, r2}
  Pairs = {k1}
  TokenPairs = {k1}
  SHandles = {h1, h2}
  Ops = {"pubop", "filepriv", "refpub", "filepub", "refpriv"}
  Faults = {"load"}
  Nil = Nil
SYMMETRY Symmetry
INVARIANT NoDanglingHandle
CHECK_DEADLOCK FALSE
