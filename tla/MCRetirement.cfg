CONSTANTS
  g1 = g1
  g2 = g2
  e1 = e1
  e2 = e2
  e3 = e3
  s1 = s1
  s2 = s2
  Gens = {g1, g2}
  Epochs = {e1, e2}
  Threads = {t1}
  Starters = {}
  Sessions = {s1, s2}
  NoGen = NoGen
  NoEpoch = NoEpoch
  NoThread = NoThread
  t1 = t1
  Faults = {"daemon", "router", "reads", "writes"}
SYMMETRY Symmetry
SPECIFICATION RetSpec
INVARIANTS CertifiedIsFinal RetiredIsSettled 
PROPERTIES LostIsDead LeftToTheirDaemon
CHECK_DEADLOCK FALSE
