CONSTANTS
  both = both
  low = low
  Text = {both, low}
  NumRules = 3
  Valid = {1, 3}
  LevelOf <- MCLevelOf
  Hits <- MCHits
  MinLevel <- MCMinLevel
  Cooldown <- MCCooldown
  Actions <- MCActions
  RawCap = 1
  EntCap = 1
  AlertCap = 1
  MaxLines = 2
  MaxTime = 2
  MaxPushes = 1

SPECIFICATION FairSpec

INVARIANTS
  TypeOK
  NothingLost
  LogOneBehind
  CooldownRespected
  DispatchInOrder
  OutputsIndependent

PROPERTIES
  IsEngine
  EveryLineDecided
  EveryAlertDispatched
