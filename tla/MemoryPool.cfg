SPECIFICATION FairSpec
CONSTANTS
  t1 = t1  t2 = t2
  NoOne = NoOne  NoLoan = NoLoan
  Procs = {t1, t2}
  Mortal = {t1}
  POOL_SIZE = 32
  Requests = {0, 3, 8, 16, 33}
  Base = 4096
INVARIANTS LockInv LoansDisjoint LoansInPool RefusedOnlyEmpty
PROPERTIES Implements AllocateReturns
CHECK_DEADLOCK FALSE
