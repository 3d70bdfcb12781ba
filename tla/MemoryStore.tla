----------------------------- MODULE MemoryStore -----------------------------
(****************************************************************************)
(* The in-memory repositories of both services (infrastructure/memory.rs):  *)
(* one task owns a map and executes commands from an unbounded FIFO mail    *)
(* box, one at a time; a caller sends a command and awaits its reply.       *)
(*                                                                          *)
(* A caller that is dropped while it awaits takes only its end of the reply *)
(* away: the command is executed all the same, later.                       *)
(*                                                                          *)
(* A row is named by the caller that inserted it; nobody inserts twice.     *)
(****************************************************************************)
EXTENDS Naturals, Sequences, FiniteSets

CONSTANTS
  Keys,     \* short codes, or paste ids
  Callers,
  Earlier,  \* callers that are gone: they only have inserted a row
  Kinds,    \* what distinguishes the rows for those who read them
  MaxExpired,  \* bound of the model: rows whose lifetime ends
  Nobody    \* no row, and the remover of a row that is stored

ASSUME MemoryStoreAssumption ==
  /\ Nobody \notin Callers /\ "none" \notin Keys
  /\ {"none", "waiting", "stopped"} \cap (Callers \cup {Nobody}) = {}
  /\ Earlier \subseteq Callers /\ MaxExpired \in Nat

VARIABLES
  table,    \* the map: the row a key is bound to, or Nobody
  rows,     \* every row ever inserted, and who removed it
  mail,     \* commands sent and not executed, oldest first
  running,  \* the task runs
  reply     \* per caller: none, what it is waiting for, the row the map had before its
            \* command (or Nobody), or that the task has stopped

storeVars == <<table, rows, mail, running, reply>>

CommandTypes == {"insert", "get", "take", "count", "delete", "ping"}
NewRow(key, kind) == [key |-> key, kind |-> kind, expired |-> FALSE, hits |-> 0, by |-> Nobody]
NoRow == NewRow("none", "none")

\* The task starts with an empty map; what is checked begins there, or when the map has
\* one row, of a caller that is gone.
StoreInit(kinds) ==
  /\ \/ /\ table = [k \in Keys |-> Nobody]
        /\ rows = [r \in Callers |-> NoRow]
     \/ \E old \in Earlier, k \in Keys, kind \in kinds :
          /\ table = [j \in Keys |-> IF j = k THEN old ELSE Nobody]
          /\ rows = [r \in Callers |-> IF r = old THEN NewRow(k, kind) ELSE NoRow]
  /\ mail = <<>> /\ running = TRUE
  /\ reply = [r \in Callers |-> "none"]

\* Mutant: count does not wait for its reply.
SendCountBlindly(r, type, key, kind) ==
  /\ mail' = IF running
             THEN Append(mail, [type |-> type, from |-> r, key |-> key, kind |-> kind])
             ELSE mail
  /\ reply' = [reply EXCEPT ![r] = IF ~running THEN "stopped"
                                   ELSE IF type = "count" THEN Nobody ELSE "waiting"]
  /\ UNCHANGED <<table, rows, running>>

\* dispatch, up to the await of the reply: the send fails when the task is gone.
Send(r, type, key, kind) ==
  /\ \/ /\ running
        /\ mail' = Append(mail, [type |-> type, from |-> r, key |-> key, kind |-> kind])
        /\ reply' = [reply EXCEPT ![r] = "waiting"]
     \/ /\ ~running
        /\ reply' = [reply EXCEPT ![r] = "stopped"]
        /\ UNCHANGED mail
  /\ UNCHANGED <<table, rows, running>>

\* The caller is dropped: nobody receives its reply.
Forget(r) ==
  /\ reply' = [reply EXCEPT ![r] = "none"]
  /\ UNCHANGED <<table, rows, mail, running>>

------------------------------------------------------------------------------
\* What a command does to the map and to its rows; m.from names the row it inserts.
Insert(m) ==
  IF table[m.key] = Nobody
  THEN /\ table' = [table EXCEPT ![m.key] = m.from]
       /\ rows' = [rows EXCEPT ![m.from] = NewRow(m.key, m.kind)]
  ELSE UNCHANGED <<table, rows>>

Remove(m) ==
  /\ table' = [table EXCEPT ![m.key] = Nobody]
  /\ rows' = IF table[m.key] = Nobody THEN rows
             ELSE [rows EXCEPT ![table[m.key]].by = m.from]

IncrementBy(m) ==
  /\ rows' = IF table[m.key] = Nobody THEN rows
             ELSE [rows EXCEPT ![table[m.key]].hits = @ + 1]
  /\ UNCHANGED table

Execute(m) ==
  \/ m.type = "insert" /\ Insert(m)
  \/ m.type \in {"take", "delete"} /\ Remove(m)
  \/ m.type = "count" /\ IncrementBy(m)
  \/ m.type \in {"get", "ping"} /\ UNCHANGED <<table, rows>>

\* Mutant: the mail box is a stack.
HandleNewest ==
  /\ running /\ mail # <<>>
  /\ LET m == mail[Len(mail)] IN
       /\ Execute(m)
       /\ reply' = [reply EXCEPT ![m.from] = IF @ = "waiting" THEN table[m.key] ELSE @]
  /\ mail' = SubSeq(mail, 1, Len(mail) - 1)
  /\ UNCHANGED running

\* The loop: the oldest command is executed and its caller, if still there, is told what
\* the map had under the key.
Handle ==
  /\ running /\ mail # <<>>
  /\ LET m == Head(mail) IN
       /\ Execute(m)
       /\ reply' = [reply EXCEPT ![m.from] = IF @ = "waiting" THEN table[m.key] ELSE @]
  /\ mail' = Tail(mail)
  /\ UNCHANGED running

\* The runtime, shutting down, drops the task: the mail and the map are gone, and so are
\* the senders of the replies.
StopTask ==
  /\ running
  /\ running' = FALSE /\ mail' = <<>>
  /\ reply' = [r \in Callers |-> IF reply[r] = "waiting" THEN "stopped" ELSE reply[r]]
  /\ UNCHANGED <<table, rows>>

------------------------------------------------------------------------------
\* A row's lifetime ends; the map does not notice.
Expire(n) ==
  /\ rows[n].key # "none" /\ ~rows[n].expired
  /\ Cardinality({m \in Callers : rows[m].expired}) < MaxExpired
  /\ rows' = [rows EXCEPT ![n].expired = TRUE]
  /\ UNCHANGED <<table, mail, running, reply>>

------------------------------------------------------------------------------
Command == [type : CommandTypes, from : Callers, key : Keys, kind : Kinds]
Row == [key : Keys \cup {"none"}, kind : Kinds \cup {"none"}, expired : BOOLEAN,
        hits : Nat, by : Callers \cup {Nobody}]

StoreTypeOK ==
  /\ table \in [Keys -> Callers \cup {Nobody}]
  /\ rows \in [Callers -> Row]
  /\ mail \in Seq(Command)
  /\ running \in BOOLEAN
  /\ reply \in [Callers -> Callers \cup {Nobody, "none", "waiting", "stopped"}]
==============================================================================
