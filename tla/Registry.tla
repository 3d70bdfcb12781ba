------------------------------- MODULE Registry --------------------------------
(****************************************************************************)
(* The connection registry of tcp-actor-server (src/registry.rs): an actor  *)
(* that owns the set of live connections and handles, in order, the         *)
(* commands that the connection tasks put into its unbounded channel.       *)
(****************************************************************************)
EXTENDS Integers, Sequences, FiniteSets

CONSTANT Ids  \* connection ids

VARIABLES
  cmds,   \* the channel, oldest command first
  conns,  \* the map of the actor, by its keys
  reply   \* the oneshot a connection waits on for its count, or Waiting

Waiting == -1

Init ==
  /\ cmds = <<>>
  /\ conns = {}
  /\ reply = [i \in Ids |-> Waiting]

Send(op, i) == cmds' = Append(cmds, [op |-> op, id |-> i])

\* Mutant: the newest command goes first.
HandleNewest ==
  /\ cmds # <<>>
  /\ cmds' = SubSeq(cmds, 1, Len(cmds) - 1)
  /\ LET cmd == cmds[Len(cmds)] IN
     \/ /\ cmd.op = "register"
        /\ conns' = conns \cup {cmd.id} /\ UNCHANGED reply
     \/ /\ cmd.op = "deregister"
        /\ conns' = conns \ {cmd.id} /\ UNCHANGED reply
     \/ /\ cmd.op = "activeCount"
        /\ reply' = [reply EXCEPT ![cmd.id] = Cardinality(conns)] /\ UNCHANGED conns

\* Mutant: the count is not sent back.
HandleSilently ==
  /\ cmds # <<>>
  /\ cmds' = Tail(cmds)
  /\ LET cmd == Head(cmds) IN
     \/ /\ cmd.op = "register"
        /\ conns' = conns \cup {cmd.id} /\ UNCHANGED reply
     \/ /\ cmd.op = "deregister"
        /\ conns' = conns \ {cmd.id} /\ UNCHANGED reply
     \/ /\ cmd.op = "activeCount"
        /\ UNCHANGED <<conns, reply>>

\* The actor takes the next command.
Handle ==
  /\ cmds # <<>>
  /\ cmds' = Tail(cmds)
  /\ LET cmd == Head(cmds) IN
     \/ /\ cmd.op = "register"
        /\ conns' = conns \cup {cmd.id} /\ UNCHANGED reply
     \/ /\ cmd.op = "deregister"
        /\ conns' = conns \ {cmd.id} /\ UNCHANGED reply
     \/ /\ cmd.op = "activeCount"
        /\ reply' = [reply EXCEPT ![cmd.id] = Cardinality(conns)] /\ UNCHANGED conns

\* A connection receives the count it asked for.
Receive(i) ==
  /\ reply[i] # Waiting
  /\ reply' = [reply EXCEPT ![i] = Waiting]
  /\ UNCHANGED <<cmds, conns>>

TypeOK ==
  /\ cmds \in Seq([op : {"register", "deregister", "activeCount"}, id : Ids])
  /\ conns \subseteq Ids
  /\ reply \in [Ids -> Nat \cup {Waiting}]
==============================================================================
