SPECIFICATION Spec
CONSTANTS
  Threads = {t1, t2}
  MaxMocks = 3
  None = None
  JoinedThreads = TRUE
SYMMETRY Symmetry
INVARIANTS TypeOK InnermostInForce NoCallOnDestroyed
