SPECIFICATION GuardSpec
CONSTANTS
  read_file = read_file
  write_file = write_file
  delete_file = delete_file
  unknown = unknown
  http = http
  Callers = {c1, c2}
  Tokens = {t1, t2}
  RequestIds = {q1}
  Approvals = {a1}
  Payloads = {small, large}
  Gated = {large}
  Limits <- SmallLimits
  None = None
  AuditPath = TRUE
  Unlimited = Unlimited
  MaxLives = 2
  MaxCalls = 3
  MaxApprovals = 2
  MaxTears = 1
  Tools = {read_file, delete_file, unknown}
  Listed = {read_file}
  Forbidden = {delete_file}
  MaxActions <- TwoLimits
  AcrTool <- OneAcrTool
  Deployments <- SmallSetups
SYMMETRY Symmetry
INVARIANTS
  GuardTypeOK
  RunsWithinLimit
  ApprovalSpent
  RunsOnFile
CHECK_DEADLOCK FALSE
