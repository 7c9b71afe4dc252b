SPECIFICATION MCPoolSpec
CONSTANTS
  a1 = a1
  a2 = a2
  http = http
  socks5 = socks5
  Addr = {a1, a2}
  Protocol = {http, socks5}
  Given <- TwoNames
  Obj = {o1, o2, o3}
  NoObj = NoObj
  MaxStreak = 1
  MaxFails = 1
  MaxDeadTimes = 0
SYMMETRY ObjSymmetry
INVARIANT ProtoCountsExact
