SPECIFICATION Spec
CONSTANTS
  Nodes = {n1}
  Bases = {b1}
  Types = {t1, t2}
  Kinds <- OneOfEach
  Addrs = {a1, a2}
  MaxEntities = 3
  MaxMocks = 2
  None = None
  ScopedMocks = TRUE
  QuietReset = TRUE
  UniqueKeys = TRUE
SYMMETRY Symmetry
INVARIANTS TypeOK Retrievable RoutedToOwnMock CastSafe NoOrphanMock
PROPERTY ImplementsRouting
