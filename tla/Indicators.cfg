CONSTANTS
  Clients = {s1, s2}
  Folded = {"domain"}
  Exact = {"hash"}
  Ttls = {0, 9}
  MaxTtl = 2
  MaxTime = 2
  MaxRequests = 3
SPECIFICATION IntelSpec
INVARIANTS
  MatchedWereAlive
  AsIfAlone
  SightingsSound
CHECK_DEADLOCK FALSE
