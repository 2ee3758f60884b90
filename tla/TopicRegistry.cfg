SPECIFICATION FairSpec
CONSTANTS
  p1 = p1  p2 = p2  s1 = s1
  ab = ab  a_b = a_b  c = c  long = long  cut = cut
  NoOne = NoOne  Unnamed = Unnamed
  Pubs = {p1, p2}
  Subs = {s1}
  Mortal = {p1}
  Names = {ab, c}
  FileOf <- MCFileOf
  Stored <- MCStored
  MAX_TOPICS = 3
  MaxSegments = 3

INVARIANTS LockInv RegisteredOnce OneSegmentPerTopic
PROPERTY SubscriberAttaches
CHECK_DEADLOCK FALSE
