CONSTANTS
  Events = {b, x}
  Poison = {x}
  Alerting = {b}
  Workers = {w1}
  AttemptLimits = {3}
  MaxRecords = 2
  MaxSubmits = 1
SPECIFICATION FairSpec
PROPERTY PoisonDeadLettered
CHECK_DEADLOCK FALSE
