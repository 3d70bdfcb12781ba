---------------------------- MODULE MCPasteService ----------------------------
(* PasteService on a small instance: clients and ids are interchangeable.   *)
EXTENDS PasteService, TLC

\* A one-shot that never expires is left to the run that is about them: one that does can be
\* burned in every order too.
Draft(ttl, oneShot) == [ttl |-> ttl, oneShot |-> oneShot]
Mixed == {Draft(Never, FALSE), Draft(1, FALSE), Draft(1, TRUE)}
OneShotsOnly == {Draft(Never, TRUE)}

Symmetric == Permutations(Clients) \cup Permutations(Ids)
==============================================================================
