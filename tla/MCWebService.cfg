\* Two requests, at an empty repository or at one that holds the row of an earlier caller;
\* one permit for each endpoint, and the repository may stop.
CONSTANTS
  Keys = {a}
  Requests = {r1, r2}
  Callers = {r0, r1, r2}
  Earlier = {r0}
  Kinds = {"plain", "unfit", "oneShot"}
  Nobody = Nobody
  Endpoints = {"create", "get", "redirect", "fetch", "raw", "delete", "ready"}
  MaxExpired = 1
  Limit = 1
  Attempts = 2
SPECIFICATION FairSpec
INVARIANTS
  TruthfulStatus
  ExactCounts
  NoLateHarm
PROPERTIES
  EveryRequestEnds
CHECK_DEADLOCK FALSE
