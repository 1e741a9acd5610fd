\* One line, one rotation by rename, no truncation.
CONSTANTS
  MaxUnits = 2
  MaxFiles = 2
  MaxTruncations = 0
  MaxFaults = 0

SPECIFICATION FairSpec

PROPERTIES
  RenameLosesNothing
