CONSTANTS
  Requests = {q1, q2, q3}
  MaxAudits = 2
SPECIFICATION FairSpec
INVARIANTS
  ChainVerifies
  ChainInv
  ChangeIffRecord
PROPERTIES
  AppendOnly
  ImplementsAuditLog
  RequestsFinish
CHECK_DEADLOCK FALSE
