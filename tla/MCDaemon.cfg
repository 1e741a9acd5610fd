\* Two starts, a run, two stops, one crash.
CONSTANTS
  d1 = d1
  d2 = d2
  r1 = r1
  s1 = s1
  s2 = s2
  q1 = q1
  None = None
  Daemons = {d1, d2}
  Runs = {r1}
  StopClients = {s1, s2}
  QueryClients = {}
  MaxKills = 1

SPECIFICATION Spec

SYMMETRY Alike

INVARIANTS
  TypeOK
  OneDaemon
  Findable
