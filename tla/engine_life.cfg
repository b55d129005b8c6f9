SPECIFICATION LifeSpec
CONSTANTS
  Parts = {"login", "sessions", "onetype"}
  Threads = {d1, d2, d3}
  Types = {"RSA", "RAND"}
  RSA = "RSA"
  SlotOf <- OneSlot
  Policies = {"none", "wrong"}
  FaultSets <- LoginFaultSets
  MaxPid = 2
  Users = {u1, u2}
  OpTypes = {ta, tb}
  Sessions = {d1, d2, d3}
  Engines = {e1, e2}
  SessionFaults <- SessionFaultSets
  Nil = Nil
SYMMETRY Symmetry
INVARIANTS LifeTypeOK LoginOnce KeyAccess PinErased SessionsSafe SessionsOnce
PROPERTY OneTypeHandsOutOwn
