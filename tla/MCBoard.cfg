CONSTANTS
  a1 = a1
  a2 = a2
  me = me
  you = you
  Sessions = {a1, a2}
  Owners = {me, you}
  NoOwner = NoOwner
  OwnerOf <- MCOwnerOf
  Unreadable = {}
  Me = me
  Bound = 0
  Floor = 1
  MaxSeq = 2
  MaxEpochs = 2
  MaxFaults = 1
  MaxResults = 1
SPECIFICATION BoardSpec
INVARIANTS NoSilentGap EndIsBacked
PROPERTY Informed
CHECK_DEADLOCK FALSE
