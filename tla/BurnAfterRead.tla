---------------------------- MODULE BurnAfterRead ----------------------------
(****************************************************************************)
(* What pastebin-service promises of its one-shot pastes, each on its own:  *)
(* a paste is claimed by at most one reader, who either gets it or loses    *)
(* it; nobody else does, and a paste that was removed is never read.        *)
(****************************************************************************)
CONSTANT Pastes

VARIABLE phase

Phases == {"absent", "stored", "claimed", "served", "lost", "removed"}

Init == phase = [n \in Pastes |-> "absent"]

\* A paste is stored, then removed or claimed by a reader; the reader gets it, or is cut
\* off before that.
Moves ==
  {<<"absent", "stored">>, <<"stored", "removed">>, <<"stored", "claimed">>,
   <<"claimed", "served">>, <<"claimed", "lost">>}

\* One event may move several pastes: a crash cuts off all readers.
Next ==
  /\ phase' \in [Pastes -> Phases]
  /\ \A n \in Pastes : phase'[n] = phase[n] \/ <<phase[n], phase'[n]>> \in Moves

Spec == Init /\ [][Next]_phase
==============================================================================
