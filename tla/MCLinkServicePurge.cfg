\* No failure, no disconnection.
CONSTANTS
  Second = 2
  Clients = {c1, c2}
  Codes = {a}
  Ttls = {Never, 1, 31}
  Never = Never
  NoCode = NoCode
  MaxCacheTtl = 2
  RequestTimeout = 2
  Attempts = 2
  SignBit = 16
  CacheMayFail = FALSE
  RepoMayFail = FALSE
  MayCancel = FALSE
  MaxLinks = 2
  Horizon = 6
SPECIFICATION Spec
PROPERTIES
  PurgeOnlyExpired
CHECK_DEADLOCK FALSE
