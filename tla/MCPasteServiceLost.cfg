\* No failure, no disconnection: the request timeout is enough.
CONSTANTS
  Second = 2
  Clients = {c1, c2}
  Ids = {i}
  Drafts <- OneShotsOnly
  Never = Never
  NoId = NoId
  MaxCacheTtl = 1
  RequestTimeout = 1
  Attempts = 2
  SignBit = 16
  CacheMayFail = FALSE
  RepoMayFail = FALSE
  MayCancel = FALSE
  MaxPastes = 2
  Horizon = 2
SYMMETRY Symmetric
SPECIFICATION Spec
INVARIANTS
  BurnedIsServed
CHECK_DEADLOCK FALSE
