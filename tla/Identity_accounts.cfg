SPECIFICATION FairSpec
CONSTANTS
  a1 = a1  a2 = a2  t1 = t1  t2 = t2  w1 = w1  w2 = w2  c1 = c1  c2 = c2
  Accounts = {a1, a2}
  Tokens = {t1, t2}
  Words = {w1, w2}
  Clients = {c1, c2}
  MaxTx = 3
  None = None
INVARIANTS EnrolledOnce
PROPERTIES ProofsStillHold EveryTransactionEnds
CHECK_DEADLOCK FALSE
