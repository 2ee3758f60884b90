SPECIFICATION FairSpec
CONSTANTS
  c1 = c1  c2 = c2  Server = Server  NoOne = NoOne
  Clients = {c1, c2}
  Mortal = {c1, Server}
  Signalled = {c2}
  Modes = {"async", "spin"}
  MaxCalls = 1
INVARIANTS LockInv AtMostOnce
PROPERTIES CallReturns
CHECK_DEADLOCK FALSE
