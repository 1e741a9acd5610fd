\* One reader of each kind, the dispatcher alone, two events, room for one.
CONSTANTS
  TailSub = {t1}
  SseSub = {e1}
  FwdSub = {f1}
  Pub = {dispatch}
  Cap = 1
  MaxEvents = 2
  None = None

SPECIFICATION FairSpec

PROPERTIES
  PublishCompletes
  DeadClientReaped
