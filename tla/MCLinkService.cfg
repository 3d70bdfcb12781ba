\* Two requests at once, one code bound to two links in turn.  Ttl 31 is a u64
\* of the upper half: as an i64 it is -1, so the link expires before it is made.
CONSTANTS
  Second = 2
  Clients = {c1, c2}
  Codes = {a}
  Ttls = {Never, 1, 31}
  Never = Never
  NoCode = NoCode
  MaxCacheTtl = 2
  RequestTimeout = 1
  Attempts = 2
  SignBit = 16
  CacheMayFail = TRUE
  RepoMayFail = TRUE
  MayCancel = TRUE
  MaxLinks = 2
  Horizon = 6
SYMMETRY Symmetric
SPECIFICATION Spec
INVARIANTS
  TypeOK
  TableIsTheStoredLinks
  BoundedStaleness
  BoundedOverrun
  PurgedAfterAnExpiry
CHECK_DEADLOCK FALSE
