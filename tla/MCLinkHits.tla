------------------------------ MODULE MCLinkHits -------------------------------
(* LinkHits on a small instance. *)
EXTENDS LinkHits
==============================================================================
