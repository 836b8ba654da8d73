SPECIFICATION Spec
CONSTANTS
  Requests = {r1}
  Events = {"a", "b", "c", "y"}
  Bad = {"x"}
  Foreign = {"y"}
  Watched = {"a", "c"}
  MaxRequests = 4
  Batches <- MCBatches
  EntitiesOf <- MCEntitiesOf
  FindingDef <- MCFindingDef
  StoryDefs <- MCStoryDefs
INVARIANTS OneStoryline
CHECK_DEADLOCK FALSE
