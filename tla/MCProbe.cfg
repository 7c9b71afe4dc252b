SPECIFICATION FairSpec
CONSTANTS
  Validating = {w1}
  Handling = {h1}
  Conn = {c1, c2}
  NoConn = NoConn
  MaxProbes = 2
CHECK_DEADLOCK FALSE
INVARIANTS TypeOK DeadlineScoped VerdictsAddUp ReportClose
PROPERTIES ProbeEnds ConnCloses
