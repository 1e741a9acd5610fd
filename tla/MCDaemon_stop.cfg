\* One daemon, two clients that stop it, no crash.
CONSTANTS
  d1 = d1
  d2 = d2
  r1 = r1
  s1 = s1
  s2 = s2
  q1 = q1
  None = None
  Daemons = {d1}
  Runs = {}
  StopClients = {s1, s2}
  QueryClients = {}
  MaxKills = 0

SPECIFICATION FairSpec

INVARIANTS
  GracefulStop
