\* No failure, no disconnection: two requests that interleave are enough.
CONSTANTS
  Second = 2
  Clients = {c1, c2}
  Codes = {a}
  Ttls = {Never}
  Never = Never
  NoCode = NoCode
  MaxCacheTtl = 2
  RequestTimeout = 2
  Attempts = 2
  SignBit = 16
  CacheMayFail = FALSE
  RepoMayFail = FALSE
  MayCancel = FALSE
  MaxLinks = 2
  Horizon = 6
SYMMETRY Symmetric
SPECIFICATION Spec
INVARIANTS
  CachedIsLive
CHECK_DEADLOCK FALSE
