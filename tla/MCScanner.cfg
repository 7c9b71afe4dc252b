SPECIFICATION FairSpec
CONSTANTS
  a1 = a1
  a2 = a2
  http = http
  socks5 = socks5
  s1 = s1
  s2 = s2
  s3 = s3
  Sources <- MCSources
  Serves <- MCServes
  Addr = {a1, a2}
  Protocol = {http, socks5}
  TTL = 2
  MaxFetch = 2
  Cap = 1
  MaxCycles = 2
CHECK_DEADLOCK FALSE
INVARIANTS TypeOK FetchBound Accounted NoDuplicates
PROPERTIES NotWithinTTL NothingLost CycleEnds Returns
