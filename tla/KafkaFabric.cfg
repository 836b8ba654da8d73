CONSTANTS
  Events = {b, x}
  Poison = {x}
  Processes = {p1, p2}
  MaxAttempts = 2
  MaxRecords = 2
  NoProcess = none
  MaxLog = 2
  MaxFaults = 2
SPECIFICATION FairSpec
INVARIANTS
  OffsetsAccounted
  HandlingSound
PROPERTIES
  ImplementsDelivery
  OffsetsAdvance
CHECK_DEADLOCK FALSE
