\* One line, which raises an alert; the stages finish within the sleep.
CONSTANTS
  MaxLines = 1
  Alerting <- MCAlerting
  StageCap = 1
  ForwardCap = 1
  BatchMax = 2
  Prompt = TRUE

SPECIFICATION FairSpec

INVARIANTS
  NothingMissed
