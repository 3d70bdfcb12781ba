\* Two checks at once, of one client.
CONSTANTS
  Ips = {x}
  Checkers = {k1, k2}
  Nobody = Nobody
  Rps = 1
  Burst = 2
  Scale = 2
  IdleEvict = 9
  MaxChecks = 6
  Horizon = 9
SYMMETRY Symmetric
SPECIFICATION Spec
INVARIANTS
  ExactBudget
CHECK_DEADLOCK FALSE
