\* One daemon and a run in the foreground, a status, no crash.
CONSTANTS
  d1 = d1
  d2 = d2
  r1 = r1
  s1 = s1
  s2 = s2
  q1 = q1
  None = None
  Daemons = {d1}
  Runs = {r1}
  StopClients = {}
  QueryClients = {q1}
  MaxKills = 0

SPECIFICATION FairSpec

PROPERTIES
  StatusHonest
