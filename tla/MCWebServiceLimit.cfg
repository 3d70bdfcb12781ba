\* Two endpoints, each with a permit of its own.
CONSTANTS
  Keys = {a}
  Requests = {r1, r2}
  Callers = {r0, r1, r2}
  Earlier = {r0}
  Kinds = {"plain", "unfit", "oneShot"}
  Nobody = Nobody
  Endpoints = {"create", "get", "redirect", "fetch", "raw", "delete", "ready"}
  MaxExpired = 1
  Limit = 1
  Attempts = 2
SPECIFICATION Spec
INVARIANTS
  InFlightCapped
CHECK_DEADLOCK FALSE
