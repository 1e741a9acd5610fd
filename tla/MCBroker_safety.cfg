\* Two publishers whose broadcasts overlap, two events each, one SSE stream
\* and one forwarder, each with room for one event.
CONSTANTS
  TailSub = {}
  SseSub = {e1}
  FwdSub = {f1}
  Pub = {dispatch, push}
  Cap = 1
  MaxEvents = 2
  None = None

SPECIFICATION Spec

INVARIANTS
  TypeOK
  NoPanic
  FeedOrdered

PROPERTIES
  IsFanOut
