CONSTANTS
  a1 = a1
  b1 = b1
  me = me
  you = you
  Sessions = {a1, b1}
  Owners = {me, you}
  NoOwner = NoOwner
  OwnerOf <- MCOwnerOf
  Unreadable = {a1}
  Bound = 1
  Floor = 1
  MaxSeq = 4
SPECIFICATION RingSpec
INVARIANTS DecisionsKept FloorKept RingBounded NoLostWakeup
CHECK_DEADLOCK FALSE
