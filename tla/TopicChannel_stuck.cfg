SPECIFICATION Spec
CONSTANTS
  p1 = p1  s1 = s1  small = small  NoOne = NoOne  NoPayload = NoPayload
  Pubs = {p1}
  Subs = {s1}
  Mortal = {p1}
  Signalled = {}
  BUFFER_SIZE = 3
  SeqMod = 5
  StopAt = 5
  Payloads = {small}
  Oversized = {}
  Forms = {"loaned"}
  Waits = {"timed"}
SYMMETRY Symmetry
INVARIANTS NeverStuck
CHECK_DEADLOCK FALSE
