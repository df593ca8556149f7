SPECIFICATION Spec
CONSTANTS
  k1 = k1
  k2 = k2
  q1 = q1
  q2 = q2
  s1 = s1
  s2 = s2
  e1 = e1
  e2 = e2
  g1 = g1
  g2 = g2
  h1 = h1
  h2 = h2
  NoKey = NoKey
  NoEpoch = NoEpoch
  NoRow = NoRow
  Keys = {k1}
  Requests = {q1, q2}
  Sids = {s1, s2}
  Epochs = {e1, e2}
  Gens = {g1, g2}
  GenOf <- TwoGenerations
  Handlers = {h1, h2}
SYMMETRY Symmetry
INVARIANTS
  OneWorkerPerKey
  FailedAnswerHasNoWorker
  StartedAnswerIsBacked
  AnswersAgree
  IInv
PROPERTIES
  RowsOnlyAdvance
  ImplementsStartOnce
