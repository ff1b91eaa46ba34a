SPECIFICATION Spec
CONSTANTS
  Nodes = {n1, n2}
  Bases = {b1}
  Types = {t1}
  Kinds <- AllKinds
  Addrs = {a1, a2}
  MaxEntities = 2
  MaxMocks = 2
  None = None
  ScopedMocks = FALSE
  QuietReset = FALSE
  UniqueKeys = FALSE
SYMMETRY Symmetry
INVARIANTS LookupIsolation PendingLive SuiteIsolation
PROPERTY FirstWins
