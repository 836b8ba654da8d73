SPECIFICATION FairSpec
CONSTANTS
  Threads = {t1, t2}
  Playbooks = {"contain", "gate", "loop"}
  Keys = {"k"}
  MaxRuns = 2
  StepsOf <- MCStepsOf
  StepDef <- MCStepDef
  ApproveIds <- MCApproveIds
INVARIANTS
  GatedOnlyAfterApproval
  OneRunPerKeyInSequence
  
PROPERTIES
  RunsEnd
