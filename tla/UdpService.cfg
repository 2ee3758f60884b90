SPECIFICATION FairSpec
CONSTANTS
  c1 = c1  c2 = c2  Nothing = Nothing
  Clients = {c1, c2}
  PortOf <- OnePort
  Strays <- SomeStrays
  IdMod = 2
  MaxCalls = 2
  MaxInAll = 2
  MaxCopies = 2
  MaxCrashes = 1
INVARIANT OwnReply
PROPERTY ReplyFound
CHECK_DEADLOCK FALSE
