CONSTANTS
  c1 = c1
  c2 = c2
  m1 = m1
  m2 = m2
  None = None
  Monitor = Monitor
  Callers = {c1, c2}
  Modals = {m1, m2}
  Bodyless = {}
  MaxDec = 2
  MaxAsked = 2
  MaxHooks = 2
SYMMETRY Symmetry
SPECIFICATION Spec
INVARIANTS TypeOK AnsweredOnce HonestReply NoStranded BlockedOnlyBefore QueuedIsKept
PROPERTY NeverResurrected
CHECK_DEADLOCK FALSE
