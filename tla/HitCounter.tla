------------------------------ MODULE HitCounter -------------------------------
(****************************************************************************)
(* What a hit recorder promises: a hit that was accepted is settled once,   *)
(* by being added to the count of its code or by being given up; hits of a  *)
(* code may be settled together.  The count never runs ahead of the hits.   *)
(****************************************************************************)
EXTENDS Naturals

CONSTANT Codes

VARIABLES
  open,     \* hits accepted and not settled, per code
  counted,  \* hits the store was told about
  lost      \* hits given up: the code had no row, or the write failed

vars == <<open, counted, lost>>

Init ==
  /\ open = [c \in Codes |-> 0]
  /\ counted = [c \in Codes |-> 0]
  /\ lost = [c \in Codes |-> 0]

Accept(c) ==
  /\ open' = [open EXCEPT ![c] = @ + 1]
  /\ UNCHANGED <<counted, lost>>

Settle(c) ==
  \E n \in 1..open[c] :
    /\ open' = [open EXCEPT ![c] = @ - n]
    /\ \/ counted' = [counted EXCEPT ![c] = @ + n] /\ UNCHANGED lost
       \/ lost' = [lost EXCEPT ![c] = @ + n] /\ UNCHANGED counted

Next == \E c \in Codes : Accept(c) \/ Settle(c)

Spec == Init /\ [][Next]_vars
==============================================================================
