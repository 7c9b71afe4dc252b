SPECIFICATION FairStoreSpec
CONSTANTS
  a1 = a1
  o1 = o1
  Addr = {a1}
  Obj = {o1}
  NoObj = NoObj
  NoRow = NoRow
  MaxOK = 1
  MaxFails = 2
  MaxProbers = 2
  Signalled = {"sequential"}
  Slot <- MCSlot
CHECK_DEADLOCK FALSE
INVARIANTS StoreTypeOK CleanIsSaved RowsEarned
PROPERTIES CatchesUp ProcessEnds
