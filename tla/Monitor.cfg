\* One host with two generations of its bundle and one host beyond the limit; a
\* handler and a doubled push; one failure of any kind.
CONSTANTS
  None = None
  h1 = h1  h2 = h2  k1 = k1  k2 = k2  r1 = r1  r2 = r2  a = a  b = b  c = c
  Hosts = {h1, h2}
  Keys = {k1, k2}
  Proofs = {"p"}
  Archives <- MCArchives
  Cadences = {TRUE}
  Requests = {r1, r2}
  MaxHosts = 1
  MaxAlerts = 1
  Grace = 0
  GiveUp = 1
  Fallible = {"crash", "list", "db", "latest", "previous", "save", "raise", "mark", "prune"}
  MaxFaults = 1
  MaxIds = 3
  MaxQueue = 0
  MaxWait = 0
  MaxPass = 0
SPECIFICATION Spec
INVARIANTS StoreIsSound
PROPERTIES NewestIsKept AlertsAreTrue SilenceIsReported QueueDrains
CHECK_DEADLOCK FALSE
