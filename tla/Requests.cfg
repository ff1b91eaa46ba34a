SPECIFICATION Spec
CONSTANTS
  MaxRequests = 3
  MayDropMock = TRUE
INVARIANTS TypeOK NoRequestRetained SuccessIsReal
PROPERTY CallEnds
