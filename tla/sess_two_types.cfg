SPECIFICATION LifeSpec
CONSTANTS
  Parts = {"sessions"}
  Threads = {d1, d2, d3}
  Types = {"RSA", "RAND"}
  RSA = "RSA"
  SlotOf <- OneSlot
  Policies = {"none", "wrong"}
  FaultSets <- LoginFaultSets
  MaxPid = 2
  Users = {u1}
  OpTypes = {ta, tb}
  Sessions = {d1, d2}
  Engines = {e1}
  SessionFaults = {{}}
  Nil = Nil
PROPERTY HandsOutOwn
