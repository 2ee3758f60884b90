SPECIFICATION Spec
CONSTANTS
  p1 = p1  p2 = p2  s1 = s1  small = small  NoOne = NoOne  NoPayload = NoPayload
  Pubs = {p1, p2}
  Subs = {s1}
  Mortal = {p1, p2, s1}
  Signalled = {p1, p2, s1}
  BUFFER_SIZE = 3
  SeqMod = 5
  StopAt = 5
  Payloads = {small}
  Oversized = {}
  Forms = {"raw"}
  Waits = {"poll", "timed", "block"}
SYMMETRY Symmetry
INVARIANTS LockInv NewestHeader SubscribersCounted
CHECK_DEADLOCK FALSE
