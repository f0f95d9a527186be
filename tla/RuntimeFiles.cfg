SPECIFICATION Spec
CONSTANTS
  a1 = a1
  a2 = a2
  ApprovalIds = {a1, a2}
  Absent = Absent
  Broken = Broken
  MaxEvents = 3
  MaxTime = 1
  MaxRestarts = 2
SYMMETRY ApprovalSymmetry
INVARIANTS
  TypeOK
  ChainVerifies
  SequenceOrder
  BoundedLoss
  ValidMeansFull
  ResolutionKept
  ApprovalsAudited
CHECK_DEADLOCK FALSE
