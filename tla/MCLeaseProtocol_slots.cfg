CONSTANTS
  e1 = e1
  e2 = e2
  s1 = s1
  s2 = s2
  c1 = c1
  c2 = c2
  Epochs = {e1}
  Sids = {s1, s2}
  MaxToken = 5
  Limit <- One
  MaxRid = 1
  NoRid = NoRid
  MaxAct = 1
  Callers = {c1, c2}
  EpochOf <- OneDaemon
  NoSid = NoSid
  NoToken = NoToken
  Faults = {"input", "store", "lost grant"}
  ClientNamesEpoch = TRUE
SYMMETRY Symmetry
SPECIFICATION Spec
INVARIANT PtyBound
PROPERTY ReleaseFrees
CHECK_DEADLOCK FALSE
