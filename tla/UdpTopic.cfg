SPECIFICATION TopicSpec
CONSTANTS
  Pubs = {p1, p2}
  Subs = {s1, s2}
  SeqMod = 8
  MaxSent = 4
  MaxRestarts = 1
SYMMETRY Symmetry
INVARIANTS InOrderNoDuplicates OnlyStaleDropped
CHECK_DEADLOCK FALSE
