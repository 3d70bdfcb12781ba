\* A channel of two slots and two callers of flush make every full-channel case happen.
\* Two links: of two codes, or of one code in turn; the second has a target that no header
\* takes.  Three redirects overfill the channel.
CONSTANTS
  Codes = {a, b}
  Main = main
  Flushers = {main, other}
  Capacity = 2
  MaxPending = 2
  MaxHits = 2
  MaxLinks = 2
  Refused = {2}
  MaxRedirects = 3
SPECIFICATION SpecAll
INVARIANTS
  TypeOK
  Bounded
  FlushCovers
  NothingStranded
  EveryRedirectAccounted
  HitsWithinRedirects
PROPERTIES
  CountsHits
  EveryHitSettles
  EveryFlushReturns
CHECK_DEADLOCK FALSE
