SPECIFICATION FleetSpec
CONSTANTS
  t1 = t1
  Calls = {c1, c2, c3}
  Tokens = {t1}
  RequestIds = {q1}
  Gateways = {g1, g2}
  None = None
  Unlimited = Unlimited
  Limit <- TwoSlots
  Lifetime = 1
  Tolerance = 1
  Latency = 1
  Ttl = 4
  Horizon = 3
SYMMETRY Symmetry
INVARIANTS
  FleetTypeOK
  QuotaSafe
  StateIsHolders
  OneHolderPerRequestId
  RevokedStaysOut
  ToldIsKept
CHECK_DEADLOCK FALSE
