----------------------------- MODULE MCLinkService -----------------------------
(* LinkService on a small instance: clients and codes are interchangeable.  *)
EXTENDS LinkService, TLC

Symmetric == Permutations(Clients) \cup Permutations(Codes)
==============================================================================
