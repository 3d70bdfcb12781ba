\* Two requests at once, one id bound to two pastes in turn, one-shot or not.
CONSTANTS
  Second = 1
  Clients = {c1, c2}
  Ids = {i}
  Drafts <- Mixed
  Never = Never
  NoId = NoId
  MaxCacheTtl = 1
  RequestTimeout = 1
  Attempts = 2
  SignBit = 16
  CacheMayFail = TRUE
  RepoMayFail = TRUE
  MayCancel = TRUE
  MaxPastes = 2
  Horizon = 3
SYMMETRY Symmetric
SPECIFICATION Spec
INVARIANTS
  TypeOK
  BoundedStaleness
  OneShotNotCached
  RemovedForAReason
  ServedInTime
PROPERTIES
  BurnsAfterRead
CHECK_DEADLOCK FALSE
