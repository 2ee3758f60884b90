SPECIFICATION Spec
CONSTANTS
  c1 = c1  c2 = c2  Server = Server  NoOne = NoOne
  Clients = {c1, c2}
  Mortal = {}
  Signalled = {}
  Modes = {"async"}
  MaxCalls = 1
SYMMETRY Symmetry
INVARIANTS OwnAnswer
CHECK_DEADLOCK FALSE
