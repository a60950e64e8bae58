CONSTANTS
  Callers = {c1, c2}
  Paths = {p1, p2}
  Workers = {w1, w2}
  MaxPending = 2
  None = None

SPECIFICATION FairSpec
INVARIANTS TypeOK PendingExact CapHolds
PROPERTIES ImplementsGuard CallReturns LeaksDrain
