SPECIFICATION Spec
CONSTANTS
  t1 = t1
  t2 = t2
  Calls = {c1, c2}
  Tokens = {t1, t2}
  RequestIds = {q1}
  None = None
  Unlimited = Unlimited
  Limit <- SmallLimit
SYMMETRY Symmetry
INVARIANT QuotaSafe
CHECK_DEADLOCK FALSE
