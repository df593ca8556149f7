CONSTANTS
  e1 = e1
  e2 = e2
  s1 = s1
  s2 = s2
  c1 = c1
  c2 = c2
  Epochs = {e1}
  Sids = {s1, s2}
  MaxToken = 5
  Limit <- Two
  MaxRid = 1
  NoRid = NoRid
  MaxAct = 1
  Callers = {c1}
  EpochOf <- OneDaemon
  NoSid = NoSid
  NoToken = NoToken
  Faults = {"input"}
  ClientNamesEpoch = TRUE
SPECIFICATION FairSpec
PROPERTY SlotsComeBack
CHECK_DEADLOCK FALSE
