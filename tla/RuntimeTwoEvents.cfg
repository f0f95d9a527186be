SPECIFICATION Spec
CONSTANTS
  t1 = t1
  t2 = t2
  t3 = t3
  p1 = p1
  p2 = p2
  p3 = p3
  p4 = p4
  q1 = q1
  a1 = a1
  a2 = a2
  s1 = s1
  r1 = r1
  r2 = r2
  r3 = r3
  None = None
  Unlimited = Unlimited
  Requests = {r1, r2}
  Tokens = {t1}
  Payloads = {p1}
  RequestIds = {q1}
  ApprovalIds = {}
  Sessions = {}
  Inputs <- QuotaInputs
  Limit <- OneAction
  Verdicts <- AllowAll
  Perishing = {t1}
  Malformed = {}
  Unresolvable = {}
  Sandboxed = TRUE
  Blocked = {}
  Faulty = {r1}
  MayCrash = FALSE
INVARIANT OneEventPerReturn
CHECK_DEADLOCK FALSE
