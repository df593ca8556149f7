CONSTANTS
  g1 = g1
  g2 = g2
  g3 = g3
  e1 = e1
  e2 = e2
  e3 = e3
  t1 = t1
  t2 = t2
  Gens = {g1, g2, g3}
  Epochs = {e1, e2, e3}
  Threads = {t1, t2}
  Starters = {t1}
  NoGen = NoGen
  NoEpoch = NoEpoch
  NoThread = NoThread
  Faults = {"daemon", "router", "health"}
SYMMETRY Symmetry
SPECIFICATION GenSpec
INVARIANTS OneActive PointersAgree RoutedIsServing
PROPERTY OnlyAdvances
CHECK_DEADLOCK FALSE
