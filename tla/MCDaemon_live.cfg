\* Two starts, a stop, a status, one crash.
CONSTANTS
  d1 = d1
  d2 = d2
  r1 = r1
  s1 = s1
  s2 = s2
  q1 = q1
  None = None
  Daemons = {d1, d2}
  Runs = {}
  StopClients = {s1}
  QueryClients = {q1}
  MaxKills = 1

SPECIFICATION FairSpec

PROPERTIES
  GetsSocket
  StopIsObeyed
  RequestsEnd
