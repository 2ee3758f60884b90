SPECIFICATION CopySpec
CONSTANTS
  m1 = m1  m2 = m2  m3 = m3  m4 = m4  m5 = m5  p1 = p1  p2 = p2  s1 = s1
  NoLoan = NoLoan  NoMessage = NoMessage
  Holders = {m1, m2, m3, m4, m5}
  Small = {m1, m2}
  Big = {m3, m4, m5}
  SizeOf <- Sizes
  POOL_SIZE = 32
  Requests = {5, 16}
  Largest = 16
  SeqMod = 8
  Pubs = {p1, p2}
  Subs = {s1}
SYMMETRY Symmetry
INVARIANTS PayloadIntact SafeWindow
CHECK_DEADLOCK FALSE
