SPECIFICATION Spec
CONSTANTS
  a1 = a1
  a2 = a2
  http = http
  mixed = mixed
  o1 = o1
  o2 = o2
  o3 = o3
  Addr = {a1, a2}
  Protocol = {http, mixed}
  Supported = {http}
  Given <- GivenHttp
  Obj = {o1, o2}
  NoObj = NoObj
  MaxStreak = 1
  MaxFails = 2
  MaxDeadTimes = 1
  Worker = {w1}
  KaWorker = {}
  Coord = Coord
  NoThread = NoThread
  UseMainChannel = FALSE
  MainCap = 1
  KaCap = 1
  RetryValidating = 1
  RetryDead = 1
  Stored <- StoredAny
  MaxTicks = 0
  CountTicks = FALSE
  CanCancel = FALSE
CHECK_DEADLOCK FALSE
INVARIANT RotationFollows
