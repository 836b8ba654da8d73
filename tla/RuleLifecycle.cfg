SPECIFICATION Spec
CONSTANTS
  Sessions = {s1, s2}
  Rules = {p}
  Datasets = {{p}}
  MaxVersion = 2
  MaxRevisions = 3
  MaxJobs = 2
INVARIANTS
  PromotionReplayed
  HistoryFollowsTransitions
  GateTellsTheJobs
