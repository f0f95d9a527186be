SPECIFICATION FairSpec
CONSTANTS
  t1 = t1
  t2 = t2
  t3 = t3
  p1 = p1
  p2 = p2
  p3 = p3
  p4 = p4
  q1 = q1
  a1 = a1
  a2 = a2
  s1 = s1
  r1 = r1
  r2 = r2
  r3 = r3
  None = None
  Unlimited = Unlimited
  Requests = {r1, r2}
  Tokens = {t1, t2, t3}
  Payloads = {p1, p2, p3, p4}
  RequestIds = {q1}
  ApprovalIds = {a1, a2}
  Sessions = {s1}
  Inputs <- AllInputs
  Limit <- OneAction
  Verdicts <- Policies
  Perishing = {t1}
  Malformed = {}
  Unresolvable = {t3}
  Sandboxed = TRUE
  Blocked = {p4}
  Faulty = {r2}
  MayCrash = TRUE
INVARIANTS
  TypeOK
  QuotaSafe
  RunsOnceUnlessRefunded
  ReplayHasOriginal
  RevokedNeverRuns
  AuditTellsOutcome
  ApprovalGate
  DryRunInert
  SessionCounts
PROPERTIES
  ApprovalsFinal
  ImplementsStore
  Settles
  Refunds
CHECK_DEADLOCK FALSE
