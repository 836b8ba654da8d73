SPECIFICATION Spec
CONSTANTS
  Requests = {r1, r2}
  Grouped = {g}
  Alerts = {a}
  Evidence = {e}
  StatusInputs = {"grouped", "closed", "bogus"}
  Blank = blank
  Text = text
  None = none
  MaxRequests = 3
  StoryEvidence <- MCStoryEvidence
INVARIANTS
  OneIncidentPerAlert
  AnswersStand
  TimelineReconstructs
CHECK_DEADLOCK FALSE
