\* Three lines, room for one everywhere, batches of two; the stages may need
\* longer than the sleep.
CONSTANTS
  MaxLines = 3
  Alerting <- MCAlerting
  StageCap = 1
  ForwardCap = 1
  BatchMax = 2
  Prompt = FALSE

SPECIFICATION FairSpec

INVARIANTS
  TypeOK
  ForwardedInOrder
  FlushedWhenDone

PROPERTIES
  Ends
