\* A line and a half, two rotations by rename, one truncation, one refused call.
CONSTANTS
  MaxUnits = 3
  MaxFiles = 3
  MaxTruncations = 1
  MaxFaults = 1

SPECIFICATION FairSpec

INVARIANTS
  TypeOK
  ForwardedOnce
  ReadsWithoutGaps
  LinesNotGlued

PROPERTIES
  FollowsFile
