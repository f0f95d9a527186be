SPECIFICATION Spec
CONSTANTS
  t1 = t1
  Calls = {c1, c2, c3}
  Tokens = {t1}
  RequestIds = {q1}
  None = None
  Unlimited = Unlimited
  Limit <- TwoLimit
  Lifetime = 2
  Tolerance = 1
  Latency = 1
  Ttl = 5
  Horizon = 6
INVARIANT TypeOK
PROPERTY ImplementsStore
CHECK_DEADLOCK FALSE
