CONSTANTS
  Events = {b, x}
  Poison = {x}
  Alerting = {b}
  Workers = {w1, w2}
  AttemptLimits = {1, 3}
  MaxRecords = 1
  MaxSubmits = 2
SPECIFICATION FairSpec
INVARIANTS
  MessagesSound
PROPERTIES
  SubmissionsEnd
CHECK_DEADLOCK FALSE
