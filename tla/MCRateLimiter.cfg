\* A token takes three ticks and a full bucket is two tokens, one unit more than the five
\* ticks between two sweeps refill.  Two checks at once, of two clients.
CONSTANTS
  Ips = {x, y}
  Checkers = {k1, k2}
  Nobody = Nobody
  Rps = 1
  Burst = 2
  Scale = 3
  IdleEvict = 5
  MaxChecks = 4
  Horizon = 11
SYMMETRY Symmetric
SPECIFICATION Spec
INVARIANTS
  Budget
  OnlyRecentClients
CHECK_DEADLOCK FALSE
