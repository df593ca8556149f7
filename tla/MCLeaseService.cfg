CONSTANTS
  e1 = e1
  e2 = e2
  s1 = s1
  Epochs = {e1, e2}
  Sids = {s1}
  Acts = {0, 1}
  MaxToken = 3
  Limit <- OneSlot
  MaxRid = 2
  NoRid = NoRid
SYMMETRY Symmetry
SPECIFICATION Spec
INVARIANTS Bounded CountsMatch IInv
CHECK_DEADLOCK FALSE
