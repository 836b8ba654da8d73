SPECIFICATION Spec
CONSTANTS
  Requests = {r1, r2}
  Events = {"a", "b", "c", "y"}
  Bad = {"x"}
  Foreign = {"y"}
  Watched = {"a", "c"}
  MaxRequests = 3
  Batches <- MCBatches
  EntitiesOf <- MCEntitiesOf
  FindingDef <- MCFindingDef
  StoryDefs <- MCStoryDefs
INVARIANTS
  PayloadsKept
  ClaimsHaveEvidence
  
  SerialComplete
CHECK_DEADLOCK FALSE
