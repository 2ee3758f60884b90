SPECIFICATION FairSpec
CONSTANTS
  p1 = p1  s1 = s1  s2 = s2  small = small  NoOne = NoOne  NoPayload = NoPayload
  Pubs = {p1}
  Subs = {s1, s2}
  Mortal = {}
  Signalled = {s1}
  BUFFER_SIZE = 2
  SeqMod = 4
  StopAt = 2
  Payloads = {small}
  Oversized = {}
  Forms = {"loaned"}
  Waits = {"timed", "block"}
INVARIANT DeliveryIsNew
PROPERTIES ImplementsLatest NoLostWakeup TimedReceiveReturns CatchesUp
CHECK_DEADLOCK FALSE
