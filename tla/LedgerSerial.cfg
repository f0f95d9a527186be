SPECIFICATION SerialSpec
CONSTANTS
  t1 = t1
  t2 = t2
  Calls = {c1, c2, c3}
  Tokens = {t1, t2}
  RequestIds = {q1, q2}
  None = None
  Unlimited = Unlimited
  Limit <- SmallLimit
INVARIANT TypeOK
PROPERTY ImplementsStore
CHECK_DEADLOCK FALSE
