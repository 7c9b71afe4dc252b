SPECIFICATION Spec
CONSTANTS
  p1 = p1
  p2 = p2
  p3 = p3
  c1 = c1
  c2 = c2
  Asks <- MCAsks
  Id = {p1, p2, p3}
  ProtoOf <- MCProtoOf
  Reading <- MCReading
  Client = {c1, c2}
  Filter <- MCFilter
  LimitParam = {0, 5}
  DefaultLimit = 1
  MaxLimit = 2
  RrMod = 4
SYMMETRY SymId
INVARIANTS TypeOK RotateEven Proportional ListLawful
