--------------------------- MODULE WebServiceProofs ----------------------------
(****************************************************************************)
(* Theorems about WebService, for any number of requests, keys and permits. *)
(*   - What a request that was cut off still has in the mail box never      *)
(*     harms the row of a request that came after its end: the argument is  *)
(*     the order of the mail box.                                           *)
(*   - What a response says is so, and the immediate recorder is exact: the *)
(*     argument is what a handler knows of the command it waits for.        *)
(****************************************************************************)
EXTENDS WebService, SequenceTheorems, FiniteSetTheorems, TLAPS

\* The types the argument needs.
Types ==
  /\ StoreTypeOK
  /\ stage \in [Requests -> {"new", "queued", "running", "ended"}]
  /\ before \in [Requests -> SUBSET Requests]
  /\ ask \in [Requests -> Ask]
  /\ doing \in [Requests -> CommandTypes \cup {"none", "body"}]

\* Only a request that was not refused has a key and a kind to send.
Sendable(r) == ask[r].key \in Keys /\ ask[r].kind \in Kinds
AsksOK ==
  \A r \in Requests : /\ stage[r] # "new" /\ ~Refused(r) => Sendable(r)
                      /\ doing[r] \in CommandTypes => Sendable(r)

Idleness == \A r \in Requests : stage[r] = "new" => doing[r] = "none"

\* A bound row was inserted.
BoundOK == \A k \in Keys : table[k] # Nobody => rows[table[k]].key # "none"

\* A request that has not come has sent and inserted nothing.
FreshOK ==
  \A r \in Requests : stage[r] = "new" =>
    /\ rows[r].key = "none" /\ rows[r].by = Nobody
    /\ \A i \in 1..Len(mail) : mail[i].from # r

\* Those that had ended when a request came are ended, their commands are ahead of its
\* own, and executed once it has inserted its row.
PastEnded == \A r \in Requests : \A p \in before[r] : Ended(p)
PastAhead ==
  \A i, j \in 1..Len(mail) :
    mail[j].from \in Requests /\ mail[i].from \in before[mail[j].from] => i < j
PastDone ==
  \A r \in Requests : rows[r].key # "none" =>
    \A i \in 1..Len(mail) : mail[i].from \notin before[r]

\* The inductive invariant.
IInv ==
  /\ Types /\ Idleness /\ AsksOK /\ BoundOK /\ FreshOK
  /\ PastEnded /\ PastAhead /\ PastDone
  /\ NoLateHarm

------------------------------------------------------------------------------
\* What sending does to the store: at most one command of the sender joins the mail box.
LEMMA Sends ==
  ASSUME StoreTypeOK, NEW r \in Requests, NEW type \in CommandTypes, NEW key \in Keys,
         NEW kind \in Kinds, Send(r, type, key, kind)
  PROVE  /\ StoreTypeOK' /\ UNCHANGED <<table, rows>>
         /\ \/ UNCHANGED mail
            \/ \E m \in Command : m.from = r /\ mail' = Append(mail, m)
<1> DEFINE m == [type |-> type, from |-> r, key |-> key, kind |-> kind]
<1>1. r \in Callers  BY WebServiceAssumption
<1>2. m \in Command /\ m.from = r  BY <1>1 DEF Command
<1>3. UNCHANGED mail \/ mail' = Append(mail, m)  BY DEF Send
<1>4. mail' \in Seq(Command)
  <2> HIDE DEF m
  <2>1. QED  BY <1>2, <1>3, AppendProperties DEF StoreTypeOK
<1>5. reply' \in [Callers -> Callers \cup {Nobody, "none", "waiting", "stopped"}]
  BY <1>1 DEF Send, StoreTypeOK
<1>6. UNCHANGED <<table, rows, running>>  BY DEF Send
<1>7. StoreTypeOK'  BY <1>4, <1>5, <1>6 DEF StoreTypeOK
<1> HIDE DEF m
<1>8. QED  BY <1>2, <1>3, <1>6, <1>7

\* A caller that is dropped takes nothing but its reply.
LEMMA Forgets ==
  ASSUME StoreTypeOK, NEW r \in Requests, Forget(r)
  PROVE  StoreTypeOK' /\ UNCHANGED <<table, rows, mail>>
<1>1. r \in Callers  BY WebServiceAssumption
<1>2. reply' \in [Callers -> Callers \cup {Nobody, "none", "waiting", "stopped"}]
  BY <1>1 DEF Forget, StoreTypeOK
<1>3. QED  BY <1>2 DEF Forget, StoreTypeOK

\* Where a command that is sent is put.
LEMMA Appended ==
  ASSUME StoreTypeOK, NEW m \in Command, mail' = Append(mail, m)
  PROVE  /\ Len(mail) \in Nat /\ Len(mail') = Len(mail) + 1
         /\ \A i \in 1..Len(mail') : i \in 1..Len(mail) \/ i = Len(mail) + 1
         /\ \A i \in 1..Len(mail) : mail'[i] = mail[i]
         /\ mail'[Len(mail) + 1] = m
<1>1. mail \in Seq(Command)  BY DEF StoreTypeOK
<1>2. QED  BY <1>1, LenProperties, AppendProperties

------------------------------------------------------------------------------
\* A step of a request that has come and not ended.  It may send, and that is at the end
\* of the mail box, when nobody came after its end: it has not ended.
LEMMA Moves ==
  ASSUME IInv, NEW r \in Requests, stage[r] \in {"queued", "running"},
         stage' \in {stage, [stage EXCEPT ![r] = "running"], [stage EXCEPT ![r] = "ended"]},
         UNCHANGED <<before, table, rows>>, StoreTypeOK',
         UNCHANGED mail \/ \E m \in Command : m.from = r /\ mail' = Append(mail, m),
         ask' \in [Requests -> Ask],
         doing' \in [Requests -> CommandTypes \cup {"none", "body"}],
         \A q \in Requests \ {r} : ask'[q] = ask[q] /\ doing'[q] = doing[q],
         Sendable(r)' \/ (ask'[r].key = "refused" /\ doing'[r] \notin CommandTypes)
  PROVE  IInv'
<1>1. /\ stage' \in [Requests -> {"new", "queued", "running", "ended"}]
      /\ \A q \in Requests \ {r} : stage'[q] = stage[q]
      /\ stage'[r] # "new"
  BY DEF IInv, Types
<1>2. \A q \in Requests : Ended(q) => Ended(q)'
  BY <1>1 DEF Ended
<1>3. \A q \in Requests : r \notin before[q]
  BY DEF IInv, PastEnded, Ended
<1>4. Types'  BY <1>1 DEF IInv, Types
<1>5. AsksOK'
  <2> SUFFICES ASSUME NEW q \in Requests
               PROVE  /\ stage'[q] # "new" /\ ask'[q].key # "refused" => Sendable(q)'
                      /\ doing'[q] \in CommandTypes => Sendable(q)'
    BY DEF AsksOK, Refused
  <2>1. CASE q = r  BY <2>1
  <2>2. CASE q # r  BY <1>1, <2>2 DEF IInv, AsksOK, Refused, Sendable
  <2>3. QED  BY <2>1, <2>2
<1>6. BoundOK' /\ Idleness'  BY <1>1 DEF IInv, BoundOK, Idleness
<1>7. PastEnded'  BY <1>2 DEF IInv, PastEnded, Types
<1>8. NoLateHarm'  BY DEF IInv, NoLateHarm
<1>9. CASE UNCHANGED mail
  <2>1. FreshOK' /\ PastAhead' /\ PastDone'
    BY <1>1, <1>9 DEF IInv, FreshOK, PastAhead, PastDone
  <2>2. QED  BY <1>4, <1>5, <1>6, <1>7, <1>8, <2>1 DEF IInv
<1>10. ASSUME NEW m \in Command, m.from = r, mail' = Append(mail, m)
       PROVE  IInv'
  <2>1. /\ Len(mail) \in Nat /\ Len(mail') = Len(mail) + 1
        /\ \A i \in 1..Len(mail') : i \in 1..Len(mail) \/ i = Len(mail) + 1
        /\ \A i \in 1..Len(mail) : mail'[i] = mail[i]
        /\ mail'[Len(mail) + 1] = m
    BY <1>10, Appended DEF IInv, Types
  <2>2. FreshOK'
    <3> SUFFICES ASSUME NEW q \in Requests, stage'[q] = "new", NEW i \in 1..Len(mail')
                 PROVE  rows[q].key = "none" /\ rows[q].by = Nobody /\ mail'[i].from # q
      BY <1>4, <2>1 DEF FreshOK, IInv, Types
    <3>1. q # r /\ stage[q] = "new"  BY <1>1
    <3>2. QED  BY <1>10, <2>1, <3>1 DEF IInv, FreshOK
  <2>3. PastAhead'
    <3> SUFFICES ASSUME NEW i \in 1..Len(mail'), NEW j \in 1..Len(mail'),
                        mail'[j].from \in Requests,
                        mail'[i].from \in before[mail'[j].from]
                 PROVE  i < j
      BY DEF PastAhead
    <3>1. i \in 1..Len(mail) /\ mail'[i] = mail[i]  BY <1>3, <1>10, <2>1
    <3>2. CASE j \in 1..Len(mail)  BY <2>1, <3>1, <3>2 DEF IInv, PastAhead
    <3>3. CASE j = Len(mail) + 1  BY <2>1, <3>1, <3>3
    <3>4. QED  BY <2>1, <3>2, <3>3
  <2>4. PastDone'
    <3> SUFFICES ASSUME NEW q \in Requests, rows[q].key # "none", NEW i \in 1..Len(mail')
                 PROVE  mail'[i].from \notin before[q]
      BY DEF PastDone
    <3>1. CASE i \in 1..Len(mail)  BY <2>1, <3>1 DEF IInv, PastDone
    <3>2. CASE i = Len(mail) + 1  BY <1>3, <1>10, <2>1, <3>2
    <3>3. QED  BY <2>1, <3>1, <3>2
  <2>5. QED  BY <1>4, <1>5, <1>6, <1>7, <1>8, <2>2, <2>3, <2>4 DEF IInv
<1>11. QED  BY <1>9, <1>10

\* A request that comes has sent nothing yet: whoever has ended is ahead of it.
LEMMA Comes == ASSUME IInv, NEW r \in Requests, Come(r) PROVE IInv'
<1>1. PICK e : Arrive(r, e)  BY DEF Come
<1>2. /\ stage[r] = "new" /\ UNCHANGED <<storeVars, service, doing, found>>
      /\ before' = [before EXCEPT ![r] = {p \in Requests : Ended(p)}]
      /\ stage' \in {[stage EXCEPT ![r] = "queued"], [stage EXCEPT ![r] = "ended"]}
  BY <1>1 DEF Come, Arrive
<1>3. /\ ask' \in [Requests -> Ask]
      /\ \A q \in Requests \ {r} : ask'[q] = ask[q]
      /\ ask'[r].key = "refused" \/ Sendable(r)'
  <2>1. PICK e2 \in EndpointsOf(service) :
          \/ \E why \in Refusals(e2) :
               ask' = [ask EXCEPT ![r] = [key |-> "refused", kind |-> why, tries |-> 0]]
          \/ \E k \in Keys,
                kind \in IF e2 = "create" THEN KindsOf(service) ELSE {"plain"},
                tries \in IF e2 = "create" /\ service = Links THEN {1, Attempts} ELSE {Attempts} :
               ask' = [ask EXCEPT ![r] = [key |-> k, kind |-> kind, tries |-> tries]]
    BY DEF Come
  <2>2. ASSUME NEW a \in Ask, ask' = [ask EXCEPT ![r] = a]
        PROVE  /\ ask' \in [Requests -> Ask] /\ ask'[r] = a
               /\ \A q \in Requests \ {r} : ask'[q] = ask[q]
    BY <2>2 DEF IInv, Types
  <2>3. Refusals(e2) \subseteq {"Validation", "Blocked", "NotFound"}  BY DEF Refusals
  <2>4. ASSUME NEW k \in Keys,
               NEW kind \in IF e2 = "create" THEN KindsOf(service) ELSE {"plain"},
               NEW tries \in IF e2 = "create" /\ service = Links THEN {1, Attempts} ELSE {Attempts}
        PROVE  kind \in Kinds /\ tries \in Nat
    BY WebServiceAssumption DEF KindsOf
  <2>5. \/ \E why \in {"Validation", "Blocked", "NotFound"} :
             ask' = [ask EXCEPT ![r] = [key |-> "refused", kind |-> why, tries |-> 0]]
        \/ \E k \in Keys, kind \in Kinds, tries \in Nat :
             ask' = [ask EXCEPT ![r] = [key |-> k, kind |-> kind, tries |-> tries]]
    BY <2>1, <2>3, <2>4
  <2>6. CASE \E why \in {"Validation", "Blocked", "NotFound"} :
               ask' = [ask EXCEPT ![r] = [key |-> "refused", kind |-> why, tries |-> 0]]
    <3>1. PICK why \in {"Validation", "Blocked", "NotFound"} :
            ask' = [ask EXCEPT ![r] = [key |-> "refused", kind |-> why, tries |-> 0]]
      BY <2>6
    <3>2. [key |-> "refused", kind |-> why, tries |-> 0] \in Ask  BY DEF Ask
    <3>3. QED  BY <2>2, <3>1, <3>2
  <2>7. CASE \E k \in Keys, kind \in Kinds, tries \in Nat :
               ask' = [ask EXCEPT ![r] = [key |-> k, kind |-> kind, tries |-> tries]]
    <3>1. PICK k \in Keys, kind \in Kinds, tries \in Nat :
            ask' = [ask EXCEPT ![r] = [key |-> k, kind |-> kind, tries |-> tries]]
      BY <2>7
    <3>2. [key |-> k, kind |-> kind, tries |-> tries] \in Ask  BY DEF Ask
    <3>3. QED  BY <2>2, <3>1, <3>2 DEF Sendable
  <2>8. QED  BY <2>5, <2>6, <2>7
<1>4. /\ stage' \in [Requests -> {"new", "queued", "running", "ended"}]
      /\ \A q \in Requests \ {r} : stage'[q] = stage[q] /\ before'[q] = before[q]
      /\ before' \in [Requests -> SUBSET Requests] /\ before'[r] = {p \in Requests : Ended(p)}
      /\ stage'[r] # "new"
  BY <1>2 DEF IInv, Types
<1>5. UNCHANGED <<table, rows, mail, doing>>  BY <1>2 DEF storeVars
<1>6. Types'
  <2>1. StoreTypeOK'  BY <1>2 DEF storeVars, StoreTypeOK, IInv, Types
  <2>2. QED  BY <1>3, <1>4, <1>5, <2>1 DEF IInv, Types
<1>7. \A i \in 1..Len(mail) : mail[i].from # r
  BY <1>2 DEF IInv, FreshOK
<1>8. rows[r].key = "none" /\ rows[r].by = Nobody  BY <1>2 DEF IInv, FreshOK
<1>9. AsksOK'
  <2> SUFFICES ASSUME NEW q \in Requests
               PROVE  /\ stage'[q] # "new" /\ ask'[q].key # "refused" => Sendable(q)'
                      /\ doing[q] \in CommandTypes => Sendable(q)'
    BY <1>5 DEF AsksOK, Refused
  <2>1. CASE q = r
    <3>1. doing[r] \notin CommandTypes  BY <1>2 DEF IInv, Idleness, CommandTypes
    <3>2. QED  BY <1>3, <2>1, <3>1
  <2>2. CASE q # r  BY <1>3, <1>4, <2>2 DEF IInv, AsksOK, Refused, Sendable
  <2>3. QED  BY <2>1, <2>2
<1>10. BoundOK' /\ FreshOK'  BY <1>4, <1>5 DEF IInv, BoundOK, FreshOK
<1>11. Idleness'  BY <1>4, <1>5 DEF IInv, Idleness
<1>12. PastEnded'
  <2>1. \A q \in Requests : Ended(q) => Ended(q)'  BY <1>2, <1>4 DEF Ended
  <2>2. QED  BY <1>4, <2>1 DEF IInv, PastEnded, Types
<1>13. PastAhead' /\ PastDone'
  BY <1>4, <1>5, <1>7, <1>8 DEF IInv, PastAhead, PastDone
<1>14. NoLateHarm'
  <2>1. Nobody \notin Requests  BY MemoryStoreAssumption, WebServiceAssumption
  <2>2. QED  BY <1>4, <1>5, <1>8, <2>1 DEF IInv, NoLateHarm
<1>15. QED  BY <1>6, <1>9, <1>10, <1>11, <1>12, <1>13, <1>14 DEF IInv

------------------------------------------------------------------------------
\* The steps of a request after it has come.

\* A handler that answers, at whatever it waits for.
LEMMA Ends ==
  ASSUME IInv, NEW r \in Requests, stage[r] \in {"queued", "running"},
         stage' = [stage EXCEPT ![r] = "ended"], UNCHANGED <<before, ask, doing>>,
         Forget(r) \/ UNCHANGED storeVars
  PROVE  IInv'
<1>1. StoreTypeOK' /\ UNCHANGED <<table, rows, mail>>
  <2>1. CASE Forget(r)  BY <2>1, Forgets DEF IInv, Types
  <2>2. CASE UNCHANGED storeVars  BY <2>2 DEF storeVars, IInv, Types, StoreTypeOK
  <2>3. QED  BY <2>1, <2>2
<1>2. Sendable(r) \/ (ask[r].key = "refused" /\ doing[r] \notin CommandTypes)
  BY DEF IInv, AsksOK, Refused
<1>3. ask \in [Requests -> Ask] /\ doing \in [Requests -> CommandTypes \cup {"none", "body"}]
  BY DEF IInv, Types
<1>4. Sendable(r)' \/ (ask'[r].key = "refused" /\ doing'[r] \notin CommandTypes)
  BY <1>2 DEF Sendable
<1>5. QED  BY <1>1, <1>3, <1>4, Moves

\* A handler that sends a command for a key it may ask for.
LEMMA Calls ==
  ASSUME IInv, NEW r \in Requests, stage[r] \in {"queued", "running"},
         stage' \in {stage, [stage EXCEPT ![r] = "running"]}, UNCHANGED before,
         NEW type \in CommandTypes, Call(r, type, ask'[r].key),
         ask' \in [Requests -> Ask], \A q \in Requests \ {r} : ask'[q] = ask[q],
         ask[r].kind \in Kinds, Sendable(r)'
  PROVE  IInv'
<1>1. Send(r, type, ask'[r].key, ask[r].kind) /\ doing' = [doing EXCEPT ![r] = type]
  BY DEF Call
<1>2. ask'[r].key \in Keys  BY DEF Sendable
<1>3. /\ StoreTypeOK' /\ UNCHANGED <<table, rows>>
      /\ \/ UNCHANGED mail
         \/ \E m \in Command : m.from = r /\ mail' = Append(mail, m)
  BY <1>1, <1>2, Sends DEF IInv, Types
<1>4. /\ doing' \in [Requests -> CommandTypes \cup {"none", "body"}]
      /\ \A q \in Requests \ {r} : doing'[q] = doing[q]
  BY <1>1 DEF IInv, Types
<1>5. QED  BY <1>3, <1>4, Moves

\* The same when it keeps asking for what it came for.
LEMMA CallsOn ==
  ASSUME IInv, NEW r \in Requests, stage[r] \in {"queued", "running"},
         stage' \in {stage, [stage EXCEPT ![r] = "running"]}, UNCHANGED <<before, ask>>,
         NEW type \in CommandTypes, Call(r, type, ask[r].key), Sendable(r)
  PROVE  IInv'
<1>1. ask \in [Requests -> Ask]  BY DEF IInv, Types
<1>2. Sendable(r)' /\ ask[r].kind \in Kinds  BY DEF Sendable
<1>3. QED  BY <1>1, <1>2, Calls

\* The handler is called: it waits for its body, sends, or answers.
LEMMA Begins == ASSUME IInv, NEW r \in Requests, Begin(r) PROVE IInv'
<1>1. stage[r] = "queued" /\ UNCHANGED ask  BY DEF Begin
<1>2. Sendable(r) \/ (ask[r].key = "refused" /\ doing[r] \notin CommandTypes)
  BY <1>1 DEF IInv, AsksOK, Refused
<1>3. CASE /\ Admit(at[r], r) /\ doing' = [doing EXCEPT ![r] = "body"]
           /\ UNCHANGED storeVars
  <2>1. stage' = [stage EXCEPT ![r] = "running"] /\ UNCHANGED before  BY <1>3 DEF Admit
  <2>2. StoreTypeOK' /\ UNCHANGED <<table, rows, mail>>
    BY <1>3 DEF storeVars, IInv, Types, StoreTypeOK
  <2>3. /\ doing' \in [Requests -> CommandTypes \cup {"none", "body"}]
        /\ \A q \in Requests \ {r} : doing'[q] = doing[q]
        /\ doing'[r] \notin CommandTypes
    BY <1>3 DEF IInv, Types, CommandTypes
  <2>4. ask \in [Requests -> Ask]  BY DEF IInv, Types
  <2>5. Sendable(r)' \/ (ask'[r].key = "refused" /\ doing'[r] \notin CommandTypes)
    BY <1>1, <1>2, <2>3 DEF Sendable
  <2>6. QED  BY <1>1, <2>1, <2>2, <2>3, <2>4, <2>5, Moves
<1>4. CASE ~Refused(r) /\ Admit(at[r], r) /\ Call(r, FirstOf(at[r]), ask[r].key)
  <2>1. stage' = [stage EXCEPT ![r] = "running"] /\ UNCHANGED before  BY <1>4 DEF Admit
  <2>2. FirstOf(at[r]) \in CommandTypes  BY DEF FirstOf, CommandTypes
  <2>3. Sendable(r)  BY <1>2, <1>4 DEF Refused
  <2>4. QED  BY <1>1, <1>4, <2>1, <2>2, <2>3, CallsOn
<1>5. CASE /\ AdmitAnswered(at[r], r, ErrorStatus(ask[r].kind))
           /\ UNCHANGED <<storeVars, doing>>
  <2>1. stage' = [stage EXCEPT ![r] = "ended"] /\ UNCHANGED before
    BY <1>5 DEF AdmitAnswered
  <2>2. QED  BY <1>1, <1>5, <2>1, Ends
<1>6. QED  BY <1>3, <1>4, <1>5 DEF Begin

\* A handler that answers or is cut off.
LEMMA Responds ==
  ASSUME IInv, NEW r \in Requests, NEW s, Respond(r, s), UNCHANGED <<ask, doing>>
  PROVE  IInv'
<1>1. /\ stage[r] = "running" /\ stage' = [stage EXCEPT ![r] = "ended"]
      /\ UNCHANGED before /\ Forget(r)
  BY DEF Respond, Finish
<1>2. QED  BY <1>1, Ends

\* The handlers.
LEMMA HandlerGoesOn ==
  ASSUME IInv, NEW r \in Requests,
         \/ BodyArrives(r) \/ CreateGoesOn(r) \/ ReadGoesOn(r) \/ PurgeGoesOn(r)
         \/ TakeGoesOn(r) \/ CountGoesOn(r) \/ DeleteGoesOn(r) \/ ReadyGoesOn(r)
  PROVE  IInv'
<1>1. stage[r] = "running"
  BY DEF BodyArrives, CreateGoesOn, ReadGoesOn, PurgeGoesOn, TakeGoesOn, CountGoesOn,
         DeleteGoesOn, ReadyGoesOn, Replied
<1>2. CASE \E s : Respond(r, s) /\ UNCHANGED <<ask, doing>>  BY <1>2, Responds
<1>3. CASE BodyArrives(r)
  <2>1. CASE ~Refused(r) /\ Call(r, "insert", ask[r].key) /\ UNCHANGED httpVars
    <3>1. Sendable(r)  BY <1>1, <2>1 DEF IInv, AsksOK
    <3>2. UNCHANGED <<ask, stage, before>>  BY <1>3, <2>1 DEF BodyArrives, httpVars
    <3>3. QED  BY <1>1, <2>1, <3>1, <3>2, CallsOn DEF CommandTypes
  <2>2. QED  BY <1>2, <1>3, <2>1 DEF BodyArrives, Fail
<1>4. CASE CreateGoesOn(r)
  <2>1. Sendable(r)
    BY <1>4 DEF CreateGoesOn, Replied, IInv, AsksOK, CommandTypes
  <2>2. ASSUME NEW k \in Keys,
               ask' = [ask EXCEPT ![r] = [key |-> k, kind |-> ask[r].kind,
                                          tries |-> ask[r].tries - 1]],
               ask[r].tries > 1, Call(r, "insert", k), UNCHANGED httpVars
        PROVE  IInv'
    <3> DEFINE a == [key |-> k, kind |-> ask[r].kind, tries |-> ask[r].tries - 1]
    <3>1. ask[r].kind \in Kinds /\ ask[r].tries - 1 \in Nat
      <4>1. ask[r] \in Ask  BY DEF IInv, Types
      <4>2. ask[r].kind \in Kinds /\ ask[r].tries \in Nat  BY <2>1, <4>1 DEF Ask, Sendable
      <4>3. QED  BY <2>2, <4>2
    <3>2. a \in Ask /\ a.key = k /\ a.kind = ask[r].kind  BY <3>1 DEF Ask
    <3>3. ask' = [ask EXCEPT ![r] = a]  BY <2>2
    <3> HIDE DEF a
    <3>4. /\ ask' \in [Requests -> Ask] /\ ask'[r] = a
          /\ \A q \in Requests \ {r} : ask'[q] = ask[q]
      BY <3>2, <3>3 DEF IInv, Types
    <3>5. Sendable(r)' /\ ask[r].kind \in Kinds  BY <2>1, <3>2, <3>4 DEF Sendable
    <3>6. UNCHANGED <<stage, before>>  BY <2>2 DEF httpVars
    <3>7. QED  BY <1>1, <2>2, <3>2, <3>4, <3>5, <3>6, Calls DEF CommandTypes
  <2>3. QED  BY <1>2, <1>4, <2>2 DEF CreateGoesOn, Fail
<1>5. CASE ReadGoesOn(r)
  <2>1. Sendable(r) /\ UNCHANGED ask
    BY <1>5 DEF ReadGoesOn, Replied, IInv, AsksOK, CommandTypes
  <2>2. CASE \E type \in {"delete", "take", "count"} :
               Call(r, type, ask[r].key) /\ UNCHANGED httpVars
    <3>1. UNCHANGED <<stage, before>>  BY <2>2 DEF httpVars
    <3>2. QED  BY <1>1, <2>1, <2>2, <3>1, CallsOn DEF CommandTypes
  <2>3. QED  BY <1>2, <1>5, <2>1, <2>2 DEF ReadGoesOn, Fail
<1>6. CASE PurgeGoesOn(r) \/ TakeGoesOn(r) \/ CountGoesOn(r) \/ DeleteGoesOn(r) \/ ReadyGoesOn(r)
  BY <1>2, <1>6 DEF PurgeGoesOn, TakeGoesOn, CountGoesOn, DeleteGoesOn, ReadyGoesOn, Fail,
                    handlers
<1>7. QED  BY <1>3, <1>4, <1>5, <1>6

\* The timeout and the client end a request wherever it waits.
LEMMA CutsOff == ASSUME IInv, NEW r \in Requests, TimeOut(r) \/ Disconnect(r) PROVE IInv'
<1>1. /\ stage[r] \in {"queued", "running"} /\ stage' = [stage EXCEPT ![r] = "ended"]
      /\ UNCHANGED <<before, ask, doing>> /\ Forget(r)
  BY DEF TimeOut, TimeoutElapses, Finish, Disconnect, Leave, handlers
<1>2. QED  BY <1>1, Ends
------------------------------------------------------------------------------
\* The steps of the repository's task.

\* Executing the oldest command moves the others up by one place.
LEMMA Taken ==
  ASSUME StoreTypeOK, mail # <<>>, mail' = Tail(mail)
  PROVE  /\ mail' \in Seq(Command) /\ Len(mail) \in Nat /\ 1 \in 1..Len(mail)
         /\ Head(mail) = mail[1] /\ Head(mail) \in Command
         /\ \A i \in 1..Len(mail') : /\ i \in Nat /\ i + 1 \in 1..Len(mail)
                                     /\ mail'[i] = mail[i + 1]
<1>1. mail \in Seq(Command)  BY DEF StoreTypeOK
<1>2. /\ Head(mail) \in Command /\ Tail(mail) \in Seq(Command)
      /\ Len(Tail(mail)) = Len(mail) - 1
      /\ \A i \in 1..Len(Tail(mail)) : Tail(mail)[i] = mail[i + 1]
  BY <1>1, HeadTailProperties
<1>3. Len(mail) \in Nat /\ Len(mail) # 0  BY <1>1, LenProperties, EmptySeq
<1>4. 1 \in 1..Len(mail)  BY <1>3
<1>5. Head(mail) = mail[1]  BY <1>1
<1>6. \A i \in 1..Len(mail') : i \in Nat /\ i + 1 \in 1..Len(mail)
  BY <1>2, <1>3
<1>7. QED  BY <1>2, <1>3, <1>4, <1>5, <1>6

\* What a command does to the rows: the one it inserts is its sender's, the one it removes
\* names its sender.
LEMMA Executes ==
  ASSUME StoreTypeOK, BoundOK, NEW m \in Command, Execute(m)
  PROVE  /\ table' \in [Keys -> Callers \cup {Nobody}] /\ rows' \in [Callers -> Row]
         /\ BoundOK'
         /\ \A n \in Callers :
              \/ rows'[n].key = rows[n].key /\ rows'[n].by = rows[n].by
              \/ n = m.from /\ rows'[n].by = Nobody
              \/ rows[n].key # "none" /\ rows'[n].key = rows[n].key /\ rows'[n].by = m.from
<1>1. /\ m.from \in Callers /\ m.key \in Keys /\ m.kind \in Kinds
      /\ table \in [Keys -> Callers \cup {Nobody}] /\ rows \in [Callers -> Row]
  BY DEF Command, StoreTypeOK
<1>2. Nobody \notin Callers /\ "none" \notin Keys  BY MemoryStoreAssumption
<1>3. CASE UNCHANGED <<table, rows>>  BY <1>1, <1>3 DEF BoundOK
<1>4. CASE table[m.key] = Nobody /\ Insert(m)
  <2> DEFINE row == NewRow(m.key, m.kind)
  <2>1. row \in Row /\ row.key = m.key /\ row.by = Nobody  BY <1>1 DEF Row, NewRow
  <2>2. table' = [table EXCEPT ![m.key] = m.from] /\ rows' = [rows EXCEPT ![m.from] = row]
    BY <1>4 DEF Insert
  <2> HIDE DEF row
  <2>3. table' \in [Keys -> Callers \cup {Nobody}] /\ rows' \in [Callers -> Row]
    BY <1>1, <2>1, <2>2
  <2>4. \A n \in Callers : n # m.from => rows'[n] = rows[n]  BY <1>1, <2>2
  <2>5. rows'[m.from] = row  BY <1>1, <2>2
  <2>6. BoundOK'
    <3> SUFFICES ASSUME NEW k \in Keys, table'[k] # Nobody PROVE rows'[table'[k]].key # "none"
      BY DEF BoundOK
    <3>1. CASE table'[k] = m.from  BY <1>1, <1>2, <2>1, <2>5, <3>1
    <3>2. CASE table'[k] # m.from
      <4>1. table'[k] = table[k]  BY <1>1, <2>2, <3>2
      <4>2. table[k] \in Callers  BY <1>1, <4>1
      <4>3. QED  BY <2>4, <3>2, <4>1, <4>2 DEF BoundOK
    <3>3. QED  BY <3>1, <3>2
  <2>7. QED  BY <2>1, <2>3, <2>4, <2>5, <2>6
<1>5. CASE Remove(m) /\ table[m.key] = Nobody
  <2>1. rows' = rows /\ table' = [table EXCEPT ![m.key] = Nobody]  BY <1>5 DEF Remove
  <2>2. table' = table  BY <1>1, <1>5, <2>1
  <2>3. QED  BY <1>3, <2>1, <2>2
<1>6. ASSUME NEW old \in Callers, rows[old].key # "none",
             table' \in [Keys -> Callers \cup {Nobody}],
             \A k \in Keys : table'[k] \in {table[k], Nobody},
             \/ rows' = [rows EXCEPT ![old].by = m.from]
             \/ rows' = [rows EXCEPT ![old].hits = @ + 1]
      PROVE  /\ rows' \in [Callers -> Row] /\ BoundOK'
             /\ \A n \in Callers :
                  \/ rows'[n].key = rows[n].key /\ rows'[n].by = rows[n].by
                  \/ rows[n].key # "none" /\ rows'[n].key = rows[n].key /\ rows'[n].by = m.from
  <2>1. rows[old] \in Row  BY <1>1
  <2>2. rows' \in [Callers -> Row]  BY <1>1, <1>6, <2>1 DEF Row
  <2>3. \A n \in Callers :
           /\ rows'[n].key = rows[n].key
           /\ rows'[n].by = rows[n].by \/ (n = old /\ rows'[n].by = m.from)
    BY <1>1, <1>6, <2>1 DEF Row
  <2>4. BoundOK'  BY <1>1, <1>6, <2>3 DEF BoundOK
  <2>5. QED  BY <1>6, <2>2, <2>3, <2>4
<1>7. CASE Remove(m) /\ table[m.key] # Nobody
  <2>1. table[m.key] \in Callers /\ rows[table[m.key]].key # "none"
    BY <1>1, <1>7 DEF BoundOK
  <2>2. /\ rows' = [rows EXCEPT ![table[m.key]].by = m.from]
        /\ table' = [table EXCEPT ![m.key] = Nobody]
    BY <1>7 DEF Remove
  <2>3. table' \in [Keys -> Callers \cup {Nobody}]
        /\ \A k \in Keys : table'[k] \in {table[k], Nobody}
    BY <1>1, <2>2
  <2>4. QED  BY <1>6, <2>1, <2>2, <2>3
<1>8. CASE IncrementBy(m) /\ table[m.key] # Nobody
  <2>1. table[m.key] \in Callers /\ rows[table[m.key]].key # "none"
    BY <1>1, <1>8 DEF BoundOK
  <2>2. rows' = [rows EXCEPT ![table[m.key]].hits = @ + 1] /\ table' = table
    BY <1>8 DEF IncrementBy
  <2>3. QED  BY <1>1, <1>6, <2>1, <2>2
<1>9. QED  BY <1>3, <1>4, <1>5, <1>7, <1>8 DEF Execute, Insert, IncrementBy

\* The task executes the oldest command.  If it inserts a row, what the requests that had
\* ended before its sender came left in the mail box is executed; if it removes one, its
\* sender had not ended when the row's request came.
LEMMA Handles ==
  ASSUME IInv, Handle, UNCHANGED <<httpVars, handlers>>
  PROVE  IInv'
<1> DEFINE m == Head(mail)
<1>1. StoreTypeOK /\ BoundOK /\ mail # <<>> /\ mail' = Tail(mail)
  BY DEF IInv, Types, Handle
<1>2. /\ mail' \in Seq(Command) /\ Len(mail) \in Nat /\ 1 \in 1..Len(mail)
      /\ m = mail[1] /\ m \in Command
      /\ \A i \in 1..Len(mail') : /\ i \in Nat /\ i + 1 \in 1..Len(mail)
                                  /\ mail'[i] = mail[i + 1]
  BY <1>1, Taken
<1>3. /\ Execute(m) /\ running' = running
      /\ reply' = [reply EXCEPT ![m.from] = IF @ = "waiting" THEN table[m.key] ELSE @]
  BY DEF Handle
<1>4. UNCHANGED <<stage, before, ask, doing>>  BY DEF httpVars, handlers
<1> HIDE DEF m
<1>5. /\ table' \in [Keys -> Callers \cup {Nobody}] /\ rows' \in [Callers -> Row]
      /\ BoundOK'
      /\ \A n \in Callers :
           \/ rows'[n].key = rows[n].key /\ rows'[n].by = rows[n].by
           \/ n = m.from /\ rows'[n].by = Nobody
           \/ rows[n].key # "none" /\ rows'[n].key = rows[n].key /\ rows'[n].by = m.from
  BY <1>1, <1>2, <1>3, Executes
<1>6. Requests \subseteq Callers /\ Nobody \notin Requests
  BY WebServiceAssumption, MemoryStoreAssumption
<1>7. Types'
  <2>1. m.from \in Callers /\ m.key \in Keys  BY <1>2 DEF Command
  <2>2. reply' \in [Callers -> Callers \cup {Nobody, "none", "waiting", "stopped"}]
    BY <1>1, <1>3, <2>1 DEF StoreTypeOK
  <2>3. StoreTypeOK'  BY <1>1, <1>2, <1>3, <1>5, <2>2 DEF StoreTypeOK
  <2>4. QED  BY <1>4, <2>3 DEF IInv, Types
<1>8. Idleness' /\ AsksOK' /\ PastEnded'
  BY <1>4 DEF IInv, Idleness, AsksOK, PastEnded, Sendable, Refused, Ended
<1>9. FreshOK'
  <2> SUFFICES ASSUME NEW r \in Requests, stage[r] = "new"
               PROVE  /\ rows'[r].key = "none" /\ rows'[r].by = Nobody
                      /\ \A i \in 1..Len(mail') : mail'[i].from # r
    BY <1>4 DEF FreshOK
  <2>1. /\ rows[r].key = "none" /\ rows[r].by = Nobody
        /\ \A i \in 1..Len(mail) : mail[i].from # r
    BY DEF IInv, FreshOK
  <2>2. m.from # r  BY <1>2, <2>1
  <2>3. QED  BY <1>2, <1>5, <1>6, <2>1, <2>2
<1>10. PastAhead'
  <2> SUFFICES ASSUME NEW i \in 1..Len(mail'), NEW j \in 1..Len(mail'),
                      mail'[j].from \in Requests, mail'[i].from \in before[mail'[j].from]
               PROVE  i < j
    BY <1>4 DEF PastAhead
  <2>1. i + 1 < j + 1  BY <1>2 DEF IInv, PastAhead
  <2>2. i \in Nat /\ j \in Nat  BY <1>2
  <2>3. QED  BY <2>1, <2>2
<1>11. PastDone'
  <2> SUFFICES ASSUME NEW r \in Requests, rows'[r].key # "none", NEW i \in 1..Len(mail')
               PROVE  mail'[i].from \notin before[r]
    BY <1>4 DEF PastDone
  <2>1. i \in Nat /\ i + 1 \in 1..Len(mail) /\ mail'[i] = mail[i + 1]  BY <1>2
  <2>2. CASE rows[r].key # "none"  BY <2>1, <2>2 DEF IInv, PastDone
  <2>3. CASE m.from = r
    <3>1. mail[i + 1].from \in before[mail[1].from] => i + 1 < 1
      BY <1>2, <2>1, <2>3 DEF IInv, PastAhead
    <3>2. QED  BY <1>2, <2>1, <2>3, <3>1
  <2>4. QED  BY <1>5, <1>6, <2>2, <2>3
<1>12. NoLateHarm'
  <2> SUFFICES ASSUME NEW n \in Requests PROVE rows'[n].by \notin before[n]
    BY <1>4 DEF NoLateHarm
  <2>1. CASE rows'[n].by = rows[n].by  BY <2>1 DEF IInv, NoLateHarm
  <2>2. CASE rows'[n].by = Nobody  BY <1>6, <2>2 DEF IInv, Types
  <2>3. CASE rows[n].key # "none" /\ rows'[n].by = m.from
    BY <1>2, <2>3 DEF IInv, PastDone
  <2>4. QED  BY <1>5, <1>6, <2>1, <2>2, <2>3
<1>13. QED  BY <1>5, <1>7, <1>8, <1>9, <1>10, <1>11, <1>12 DEF IInv

\* A task that is dropped takes the mail box along.
LEMMA Stops ==
  ASSUME IInv, StopTask, UNCHANGED <<httpVars, handlers>>
  PROVE  IInv'
<1>1. mail' = <<>> /\ UNCHANGED <<table, rows, stage, before, ask, doing>>
  BY DEF StopTask, httpVars, handlers
<1>2. 1..Len(mail') = {}  BY <1>1
<1>3. StoreTypeOK'
  <2>1. reply' \in [Callers -> Callers \cup {Nobody, "none", "waiting", "stopped"}]
    BY DEF StopTask, IInv, Types, StoreTypeOK
  <2>2. mail' \in Seq(Command)  BY <1>1
  <2>3. running' \in BOOLEAN  BY DEF StopTask
  <2>4. QED  BY <1>1, <2>1, <2>2, <2>3 DEF IInv, Types, StoreTypeOK
<1>4. Types'  BY <1>1, <1>3 DEF IInv, Types
<1>5. Idleness' /\ AsksOK' /\ BoundOK' /\ PastEnded' /\ NoLateHarm'
  BY <1>1 DEF IInv, Idleness, AsksOK, BoundOK, PastEnded, NoLateHarm, Sendable, Refused, Ended
<1>6. FreshOK' /\ PastAhead' /\ PastDone'
  BY <1>1, <1>2 DEF IInv, FreshOK, PastAhead, PastDone
<1>7. QED  BY <1>4, <1>5, <1>6 DEF IInv

\* A row that expires stays where it is.
LEMMA Expires ==
  ASSUME IInv, NEW n \in Callers, Expire(n), UNCHANGED <<httpVars, handlers>>
  PROVE  IInv'
<1>1. UNCHANGED <<table, mail, running, reply, stage, before, ask, doing>>
  BY DEF Expire, httpVars, handlers
<1>2. /\ rows' \in [Callers -> Row]
      /\ \A p \in Callers : rows'[p].key = rows[p].key /\ rows'[p].by = rows[p].by
  <2>1. rows \in [Callers -> Row]  BY DEF IInv, Types, StoreTypeOK
  <2>2. rows' = [rows EXCEPT ![n].expired = TRUE]  BY DEF Expire
  <2>3. QED  BY <2>1, <2>2 DEF Row
<1>3. Requests \subseteq Callers  BY WebServiceAssumption
<1>4. StoreTypeOK'  BY <1>1, <1>2 DEF IInv, Types, StoreTypeOK
<1>5. Types'  BY <1>1, <1>4 DEF IInv, Types
<1>6. Idleness' /\ AsksOK' /\ PastEnded' /\ PastAhead'
  BY <1>1 DEF IInv, Idleness, AsksOK, PastEnded, PastAhead, Sendable, Refused, Ended
<1>7. BoundOK'
  <2>1. table \in [Keys -> Callers \cup {Nobody}]  BY DEF IInv, Types, StoreTypeOK
  <2>2. QED  BY <1>1, <1>2, <2>1 DEF IInv, BoundOK
<1>8. FreshOK' /\ PastDone' /\ NoLateHarm'
  BY <1>1, <1>2, <1>3 DEF IInv, FreshOK, PastDone, NoLateHarm
<1>9. QED  BY <1>5, <1>6, <1>7, <1>8 DEF IInv

------------------------------------------------------------------------------
LEMMA InitIInv == Init => IInv
<1> SUFFICES ASSUME Init PROVE IInv
  OBVIOUS
<1>1. StoreInit(KindsOf(service)) /\ HttpInit  BY DEF Init
<1>2. KindsOf(service) \subseteq Kinds  BY WebServiceAssumption DEF KindsOf
<1>3. Nobody \notin Callers /\ "none" \notin Keys /\ Requests = Callers \ Earlier
  BY MemoryStoreAssumption, WebServiceAssumption
<1>4. NoRow \in Row /\ NoRow.key = "none" /\ NoRow.by = Nobody  BY DEF NoRow, NewRow, Row
<1>5. mail = <<>> /\ running = TRUE /\ reply = [r \in Callers |-> "none"]
  BY <1>1 DEF StoreInit
<1>6. /\ table \in [Keys -> Callers \cup {Nobody}] /\ rows \in [Callers -> Row]
      /\ BoundOK /\ \A r \in Requests : rows[r] = NoRow
  <2>1. CASE table = [k \in Keys |-> Nobody] /\ rows = [r \in Callers |-> NoRow]
    BY <1>3, <1>4, <2>1 DEF BoundOK
  <2>2. ASSUME NEW old \in Earlier, NEW key \in Keys, NEW kind \in Kinds,
               table = [j \in Keys |-> IF j = key THEN old ELSE Nobody],
               rows = [r \in Callers |-> IF r = old THEN NewRow(key, kind) ELSE NoRow]
        PROVE  /\ table \in [Keys -> Callers \cup {Nobody}] /\ rows \in [Callers -> Row]
               /\ BoundOK /\ \A r \in Requests : rows[r] = NoRow
    <3> DEFINE row == NewRow(key, kind)
    <3>1. row \in Row /\ row.key = key  BY DEF Row, NewRow
    <3>2. rows = [r \in Callers |-> IF r = old THEN row ELSE NoRow]  BY <2>2
    <3> HIDE DEF row
    <3>3. old \in Callers /\ old \notin Requests  BY <1>3, MemoryStoreAssumption
    <3>4. rows \in [Callers -> Row] /\ rows[old] = row /\ \A r \in Requests : rows[r] = NoRow
      BY <1>3, <1>4, <3>1, <3>2, <3>3
    <3>5. table \in [Keys -> Callers \cup {Nobody}]
          /\ \A k \in Keys : table[k] # Nobody => table[k] = old
      BY <2>2, <3>3
    <3>6. BoundOK  BY <1>3, <3>1, <3>4, <3>5 DEF BoundOK
    <3>7. QED  BY <3>4, <3>5, <3>6
  <2>3. QED  BY <1>1, <1>2, <2>1, <2>2 DEF StoreInit
<1>7. /\ stage = [r \in Requests |-> "new"] /\ before = [r \in Requests |-> {}]
      /\ ask = [r \in Requests |-> NoAsk] /\ doing = [r \in Requests |-> "none"]
  BY <1>1 DEF Init, HttpInit
<1>8. 1..Len(mail) = {}  BY <1>5
<1>9. StoreTypeOK
  <2>1. mail \in Seq(Command)  BY <1>5
  <2>2. QED  BY <1>5, <1>6, <2>1 DEF StoreTypeOK
<1>10. Types
  <2>1. NoAsk \in Ask  BY DEF NoAsk, Ask
  <2>2. QED  BY <1>7, <1>9, <2>1 DEF Types
<1>11. Idleness /\ AsksOK /\ PastEnded
  BY <1>7 DEF Idleness, AsksOK, PastEnded, CommandTypes
<1>12. FreshOK /\ PastAhead /\ PastDone /\ NoLateHarm
  BY <1>4, <1>6, <1>7, <1>8 DEF FreshOK, PastAhead, PastDone, NoLateHarm
<1>13. QED  BY <1>6, <1>10, <1>11, <1>12 DEF IInv

LEMMA Stutters == ASSUME IInv, UNCHANGED webVars PROVE IInv'
<1>1. UNCHANGED <<table, rows, mail, running, reply, stage, before, ask, doing>>
  BY DEF webVars, storeVars, httpVars, handlers
<1>2. StoreTypeOK'  BY <1>1 DEF IInv, Types, StoreTypeOK
<1>3. Types'  BY <1>1, <1>2 DEF IInv, Types
<1>4. QED  BY <1>1, <1>3 DEF IInv, Idleness, AsksOK, BoundOK, FreshOK, PastEnded, PastAhead,
                             PastDone, NoLateHarm, Sendable, Refused, Ended

\* Every step keeps the invariant.
LEMMA IInvStep == IInv /\ [Next]_webVars => IInv'
<1> SUFFICES ASSUME IInv, [Next]_webVars PROVE IInv'
  OBVIOUS
<1>1. ASSUME NEW r \in Requests, RequestStep(r) PROVE IInv'
  BY <1>1, Comes, Begins, HandlerGoesOn, CutsOff DEF RequestStep
<1>2. CASE StoreStep
  BY <1>2, Handles, Stops, Expires DEF StoreStep
<1>3. QED  BY <1>1, <1>2, Stutters DEF Next

\* The order of the mail box, the requests that had ended when another came, and what is
\* executed once a row is inserted: the invariant every step keeps.
THEOREM Inductive == Spec => []IInv
BY InitIInv, IInvStep, PTL DEF Spec

\* What a request that was cut off left in the mail box is executed, but never on a row of
\* a request that came after its end (dispatch and the loop of infrastructure/memory.rs).
THEOREM LateCommandsHarmNobody == Spec => []NoLateHarm
<1>1. IInv => NoLateHarm  BY DEF IInv
<1>2. QED  BY Inductive, <1>1, PTL

------------------------------------------------------------------------------
\* Type correctness: what is left is the layers' variables and the row that is served.

\* A request that is refused on its own is refused for a reason with a status.
RefusedOK == \A r \in Requests : Refused(r) => ask[r].kind \in {"Validation", "Blocked", "NotFound"}

Rest == /\ HttpTypeOK /\ RefusedOK
        /\ service \in {Links, Pastes}
        /\ found \in [Requests -> Callers \cup {Nobody}]

\* Every service error has a status.
LEMMA ErrorStatuses ==
  \A e \in {"Validation", "Blocked", "NotFound", "Conflict", "Backend"} : ErrorStatus(e) \in Nat
BY DEF ErrorStatus, StatusOf, AppErrorOf

\* What the layers do to a request keeps their types.
LEMMA Layers ==
  ASSUME HttpTypeOK, NEW r \in Requests, NEW e, NEW s \in Nat,
         \/ e \in Endpoints /\ Arrive(r, e)
         \/ Admit(e, r) \/ AdmitAnswered(e, r, s) \/ Finish(r, s) \/ Leave(r)
         \/ UNCHANGED httpVars
  PROVE  HttpTypeOK'
<1> USE DEF HttpTypeOK
<1>1. CASE e \in Endpoints /\ Arrive(r, e)
  <2>1. /\ at' = [at EXCEPT ![r] = e]
        /\ before' = [before EXCEPT ![r] = {p \in Requests : Ended(p)}]
        /\ stage' \in {[stage EXCEPT ![r] = "queued"], [stage EXCEPT ![r] = "ended"]}
        /\ queue' \in {queue, [queue EXCEPT ![e] = Append(@, r)]}
        /\ status' \in {status, [status EXCEPT ![r] = 429]}
    BY <1>1 DEF Arrive
  <2>2. Append(queue[e], r) \in Seq(Requests)  BY <1>1
  <2>3. queue' \in [Endpoints -> Seq(Requests)]
    <3>1. CASE queue' = queue  BY <3>1
    <3>2. CASE queue' = [queue EXCEPT ![e] = Append(@, r)]
      BY <2>2, <3>2, Zenon
    <3>3. QED  BY <2>1, <3>1, <3>2
  <2>4. status' \in [Requests -> Nat]  BY <2>1
  <2>5. at' \in [Requests -> Endpoints \cup {"none"}]  BY <1>1, <2>1
  <2>6. before' \in [Requests -> SUBSET Requests]  BY <2>1
  <2>7. stage' \in [Requests -> {"new", "queued", "running", "ended"}]  BY <2>1
  <2>8. QED  BY <2>3, <2>4, <2>5, <2>6, <2>7
<1>2. CASE Admit(e, r) \/ AdmitAnswered(e, r, s)
  <2>1. /\ queue[e] # <<>> /\ queue' = [queue EXCEPT ![e] = Tail(@)]
        /\ stage' \in {[stage EXCEPT ![r] = "running"], [stage EXCEPT ![r] = "ended"]}
        /\ status' \in {status, [status EXCEPT ![r] = s]}
        /\ UNCHANGED <<at, before>>
    BY <1>2 DEF Admit, AdmitAnswered
  <2>2. e \in Endpoints => Tail(queue[e]) \in Seq(Requests)  BY <2>1
  <2>3. queue' \in [Endpoints -> Seq(Requests)]  BY <2>1, <2>2
  <2>4. stage' \in [Requests -> {"new", "queued", "running", "ended"}]  BY <2>1
  <2>5. status' \in [Requests -> Nat]  BY <2>1
  <2>6. QED  BY <2>1, <2>3, <2>4, <2>5
<1>3. CASE Finish(r, s)  BY <1>3 DEF Finish
<1>4. CASE Leave(r)
  <2>1. /\ stage' = [stage EXCEPT ![r] = "ended"] /\ status' = [status EXCEPT ![r] = Gone]
        /\ UNCHANGED <<at, before>>
    BY <1>4 DEF Leave
  <2>2. queue' \in [Endpoints -> Seq(Requests)]
    <3>1. CASE UNCHANGED queue  BY <3>1
    <3>2. ASSUME NEW i \in 1..Len(queue[at[r]]),
                 queue' = [queue EXCEPT ![at[r]] = SubSeq(@, 1, i - 1) \o SubSeq(@, i + 1, Len(@))]
          PROVE  queue' \in [Endpoints -> Seq(Requests)]
      <4> DEFINE q == queue[at[r]]
                 left == SubSeq(q, 1, i - 1) \o SubSeq(q, i + 1, Len(q))
      <4>1. CASE at[r] \in Endpoints
        <5>1. q \in Seq(Requests) /\ Len(q) \in Nat /\ i \in 1..Len(q)  BY <3>2, <4>1
        <5> HIDE DEF q
        <5>2. \A k \in 1..(i - 1) : q[k] \in Requests  BY <5>1
        <5>3. \A k \in (i + 1)..Len(q) : q[k] \in Requests  BY <5>1
        <5>4. SubSeq(q, 1, i - 1) \in Seq(Requests)  BY <5>1, <5>2, SubSeqProperties
        <5>5. SubSeq(q, i + 1, Len(q)) \in Seq(Requests)  BY <5>1, <5>3, SubSeqProperties
        <5>6. left \in Seq(Requests)  BY <5>4, <5>5, ConcatProperties
        <5>7. queue' = [queue EXCEPT ![at[r]] = left]  BY <3>2 DEF q
        <5> HIDE DEF left
        <5>8. QED  BY <5>6, <5>7
      <4>2. CASE at[r] \notin Endpoints
        <5>1. queue' = queue  BY <3>2, <4>2
        <5>2. QED  BY <5>1
      <4>3. QED  BY <4>1, <4>2
    <3>3. QED  BY <1>4, <3>1, <3>2 DEF Leave
  <2>3. QED  BY <2>1, <2>2 DEF Gone
<1>5. CASE UNCHANGED httpVars  BY <1>5 DEF httpVars
<1>6. QED  BY <1>1, <1>2, <1>3, <1>4, <1>5

\* A request comes in.
LEMMA RestComes == ASSUME IInv, Rest, NEW r \in Requests, Come(r) PROVE Rest'
<1>1. PICK e \in EndpointsOf(service) : Arrive(r, e)  BY DEF Come
<1>2. e \in Endpoints  BY <1>1, WebServiceAssumption DEF EndpointsOf
<1>3. HttpTypeOK'  BY <1>1, <1>2, Layers DEF Rest
<1>4. UNCHANGED <<service, found>>  BY DEF Come
<1>5. RefusedOK'
  <2>1. ask \in [Requests -> Ask] /\ "refused" \notin Keys
    BY WebServiceAssumption DEF IInv, Types
  <2>2. CASE \E why \in {"Validation", "Blocked", "NotFound"} :
               ask' = [ask EXCEPT ![r] = [key |-> "refused", kind |-> why, tries |-> 0]]
    <3>1. PICK why \in {"Validation", "Blocked", "NotFound"} :
            ask' = [ask EXCEPT ![r] = [key |-> "refused", kind |-> why, tries |-> 0]]
      BY <2>2
    <3>2. ask'[r].kind = why /\ \A q \in Requests \ {r} : ask'[q] = ask[q]  BY <2>1, <3>1
    <3>3. QED  BY <3>1, <3>2 DEF Rest, RefusedOK, Refused
  <2>3. CASE \E k \in Keys : \E kind, tries :
               ask' = [ask EXCEPT ![r] = [key |-> k, kind |-> kind, tries |-> tries]]
    <3>0. PICK k \in Keys : \E kind, tries :
            ask' = [ask EXCEPT ![r] = [key |-> k, kind |-> kind, tries |-> tries]]
      BY <2>3
    <3>1. PICK kind, tries : ask' = [ask EXCEPT ![r] = [key |-> k, kind |-> kind, tries |-> tries]]
      BY <3>0
    <3>2. ask'[r].key = k /\ \A q \in Requests \ {r} : ask'[q] = ask[q]  BY <2>1, <3>1
    <3>3. QED  BY <2>1, <3>2 DEF Rest, RefusedOK, Refused
  <2>4. \A x : Refusals(x) \subseteq {"Validation", "Blocked", "NotFound"}  BY DEF Refusals
  <2>5. QED  BY <2>2, <2>3, <2>4 DEF Come
<1>6. QED  BY <1>3, <1>4, <1>5 DEF Rest

\* A permit is there.
LEMMA RestBegins == ASSUME IInv, Rest, NEW r \in Requests, Begin(r) PROVE Rest'
<1>1. UNCHANGED <<service, ask, found>>  BY DEF Begin
<1>2. RefusedOK'  BY <1>1 DEF Rest, RefusedOK, Refused
<1>3. HttpTypeOK'
  <2>1. CASE Admit(at[r], r)
    <3>1. 0 \in Nat  OBVIOUS
    <3>2. QED  BY <2>1, <3>1, Layers DEF Rest
  <2>2. CASE Refused(r) /\ AdmitAnswered(at[r], r, ErrorStatus(ask[r].kind))
    <3>1. ErrorStatus(ask[r].kind) \in Nat  BY <2>2, ErrorStatuses DEF Rest, RefusedOK
    <3>2. QED  BY <2>2, <3>1, Layers DEF Rest
  <2>3. QED  BY <2>1, <2>2 DEF Begin
<1>4. QED  BY <1>1, <1>2, <1>3 DEF Rest

\* An answer has a status.
LEMMA RestResponds ==
  ASSUME Rest, NEW r \in Requests, NEW s \in Nat, Respond(r, s) \/ Finish(r, s) \/ UNCHANGED httpVars
  PROVE  HttpTypeOK'
BY Layers DEF Rest, Respond

\* A handler goes on.
LEMMA RestGoesOn ==
  ASSUME IInv, Rest, NEW r \in Requests,
         \/ BodyArrives(r) \/ CreateGoesOn(r) \/ ReadGoesOn(r) \/ PurgeGoesOn(r)
         \/ TakeGoesOn(r) \/ CountGoesOn(r) \/ DeleteGoesOn(r) \/ ReadyGoesOn(r)
  PROVE  Rest'
<1>1. HttpTypeOK'
  <2> SUFFICES ASSUME ~UNCHANGED httpVars PROVE \E s \in Nat : Respond(r, s)
    BY RestResponds, Layers DEF Rest
  <2>1. CASE BodyArrives(r)
    <3>1. Rejections \subseteq Nat  BY DEF Rejections
    <3>2. QED  BY <2>1, <3>1, ErrorStatuses DEF BodyArrives, Fail, Rest, RefusedOK
  <2>2. CASE CreateGoesOn(r)  BY <2>2, ErrorStatuses DEF CreateGoesOn, Fail
  <2>3. CASE ReadGoesOn(r)  BY <2>3, ErrorStatuses DEF ReadGoesOn, Fail
  <2>4. CASE PurgeGoesOn(r)  BY <2>4, ErrorStatuses DEF PurgeGoesOn, Fail
  <2>5. CASE TakeGoesOn(r)  BY <2>5, ErrorStatuses DEF TakeGoesOn, Fail
  <2>6. CASE CountGoesOn(r)
    <3>1. StatusOf.Internal \in Nat  BY DEF StatusOf
    <3>2. (CASE rows[found[r]].kind = "unfit" -> StatusOf.Internal
             [] at[r] = "redirect" /\ rows[found[r]].kind # "unfit" -> 302
             [] OTHER -> 200) \in Nat
      BY <3>1
    <3>3. QED  BY <2>6, <3>2 DEF CountGoesOn
  <2>7. CASE DeleteGoesOn(r)
    <3>1. (CASE Stopped(r) -> ErrorStatus("Backend")
             [] Missing(r) -> ErrorStatus("NotFound")
             [] OTHER -> 204) \in Nat
      BY ErrorStatuses
    <3>2. QED  BY <2>7, <3>1 DEF DeleteGoesOn
  <2>8. CASE ReadyGoesOn(r)
    <3>1. (IF Stopped(r) THEN 503 ELSE 200) \in Nat  OBVIOUS
    <3>2. QED  BY <2>8, <3>1 DEF ReadyGoesOn
  <2>9. QED  BY <2>1, <2>2, <2>3, <2>4, <2>5, <2>6, <2>7, <2>8
<1>2. UNCHANGED service
  BY DEF BodyArrives, CreateGoesOn, ReadGoesOn, PurgeGoesOn, TakeGoesOn, CountGoesOn,
         DeleteGoesOn, ReadyGoesOn, handlers
<1>3. RefusedOK'
  <2>1. CASE UNCHANGED ask  BY <2>1 DEF Rest, RefusedOK, Refused
  <2>2. ASSUME NEW k \in Keys, NEW kind, NEW tries,
               ask' = [ask EXCEPT ![r] = [key |-> k, kind |-> kind, tries |-> tries]]
        PROVE  RefusedOK'
    <3>1. ask \in [Requests -> Ask] /\ "refused" \notin Keys
      BY WebServiceAssumption DEF IInv, Types
    <3>2. ask'[r].key = k /\ \A q \in Requests \ {r} : ask'[q] = ask[q]  BY <2>2, <3>1
    <3>3. QED  BY <3>1, <3>2 DEF Rest, RefusedOK, Refused
  <2>3. CASE CreateGoesOn(r)  BY <2>1, <2>2, <2>3 DEF CreateGoesOn
  <2>4. QED
    BY <2>1, <2>3 DEF BodyArrives, ReadGoesOn, PurgeGoesOn, TakeGoesOn, CountGoesOn,
                      DeleteGoesOn, ReadyGoesOn, handlers
<1>4. found' \in [Requests -> Callers \cup {Nobody}]
  <2>1. found \in [Requests -> Callers \cup {Nobody}]  BY DEF Rest
  <2>2. reply[r] \in Callers \cup {Nobody, "none", "waiting", "stopped"}
    BY WebServiceAssumption DEF IInv, Types, StoreTypeOK
  <2>3. ASSUME found' = [found EXCEPT ![r] = Read(r)], ~Missing(r), ~Stopped(r),
               reply[r] \notin {"none", "waiting"}
        PROVE  found' \in [Requests -> Callers \cup {Nobody}]
    <3>1. Read(r) \in Callers  BY <2>2, <2>3 DEF Missing, Stopped, Read
    <3>2. QED  BY <2>1, <2>3, <3>1
  <2>4. CASE ReadGoesOn(r)  BY <2>1, <2>3, <2>4 DEF ReadGoesOn, Replied
  <2>5. CASE TakeGoesOn(r)  BY <2>1, <2>3, <2>5 DEF TakeGoesOn, Replied
  <2>6. QED
    BY <2>1, <2>4, <2>5 DEF BodyArrives, CreateGoesOn, PurgeGoesOn, CountGoesOn,
                            DeleteGoesOn, ReadyGoesOn, handlers
<1>5. QED  BY <1>1, <1>2, <1>3, <1>4 DEF Rest

\* Initially, and after every step.
LEMMA InitRest == Init => Rest
<1> SUFFICES ASSUME Init PROVE Rest  OBVIOUS
<1>1. HttpTypeOK
  <2>1. HttpInit  BY DEF Init
  <2>2. QED  BY <2>1 DEF HttpInit, HttpTypeOK
<1>2. RefusedOK  BY DEF Init, RefusedOK, Refused, NoAsk
<1>3. QED  BY <1>1, <1>2 DEF Init, Rest

LEMMA RestStep == IInv /\ Rest /\ [Next]_webVars => Rest'
<1> SUFFICES ASSUME IInv, Rest, [Next]_webVars PROVE Rest'
  OBVIOUS
<1>1. ASSUME UNCHANGED handlers, HttpTypeOK' PROVE Rest'
  BY <1>1 DEF handlers, Rest, RefusedOK, Refused
<1>2. ASSUME NEW r \in Requests, TimeOut(r) \/ Disconnect(r) PROVE Rest'
  <2>1. Finish(r, 408) \/ Leave(r)  BY <1>2 DEF TimeOut, Disconnect, TimeoutElapses
  <2>2. UNCHANGED handlers  BY <1>2 DEF TimeOut, Disconnect
  <2>3. 408 \in Nat  OBVIOUS
  <2>4. HttpTypeOK'  BY <2>1, <2>3, Layers DEF Rest
  <2>5. QED  BY <1>1, <2>2, <2>4
<1>3. ASSUME NEW r \in Requests, RequestStep(r) PROVE Rest'
  BY <1>2, <1>3, RestComes, RestBegins, RestGoesOn DEF RequestStep
<1>4. CASE StoreStep \/ UNCHANGED webVars
  <2>1. UNCHANGED httpVars /\ UNCHANGED handlers  BY <1>4 DEF StoreStep, webVars, handlers
  <2>2. HttpTypeOK'  BY <2>1 DEF Rest, HttpTypeOK, httpVars
  <2>3. QED  BY <1>1, <2>1, <2>2
<1>5. QED  BY <1>3, <1>4 DEF Next

\* Every variable of handlers, layers and repository keeps its type: a handler serves a row
\* that was inserted, and who waits is in the queue of an endpoint.
THEOREM TypeCorrect == Spec => []TypeOK
<1>1. IInv /\ Rest => TypeOK
  BY DEF IInv, Types, Rest, TypeOK
<1>2. QED  BY <1>1, InitRest, RestStep, Inductive, PTL DEF Spec

------------------------------------------------------------------------------
\* What responses say.  A request is told the truth because its commands are executed one
\* at a time, because each of them has its effect before its reply, and because only
\* requests that were cut off leave one behind.

\* The request r has a command in the mail box; it removed a row; nothing it sent has
\* had an effect on the rows.
InMail(r) == \E i \in 1..Len(mail) : mail[i].from = r
Removes(r) == \E n \in Callers : rows[n].by = r
NoEffect(r) == rows[r].key = "none" /\ ~Removes(r)

\* A row that was not inserted is not removed, and the map binds a key to a row of that
\* key which nobody removed.
RowsOK ==
  /\ \A n \in Callers : rows[n].key = "none" => rows[n].by = Nobody
  /\ \A k \in Keys : table[k] # Nobody => rows[table[k]].key = k /\ rows[table[k]].by = Nobody

\* A command in the mail box is the one its sender waits for, or waited for when it was
\* cut off, and it has not had its effect.
MailOK ==
  \A i \in 1..Len(mail) : LET r == mail[i].from IN
    /\ r \in Requests /\ mail[i].type = doing[r] /\ mail[i].key = ask[r].key
    /\ reply[r] = "waiting" \/ CutOff(r)
    /\ NoEffect(r)
    /\ \A j \in 1..Len(mail) : mail[j].from = r => j = i

\* What a handler may be waiting for.
AwaitsOf(e) ==
  CASE e = "create" -> {"body", "insert"}
    [] e = "delete" -> {"delete"}
    [] e = "ready" -> {"ping"}
    [] OTHER -> {"get", "take", "count", "delete"}

\* A handler that runs: its reply tells what its command has done.
InHandler(r) ==
  /\ doing[r] \in AwaitsOf(at[r])
  /\ reply[r] = "none" <=> doing[r] = "body"
  /\ rows[r].key # "none" <=> doing[r] = "insert" /\ reply[r] = Nobody
  /\ Removes(r) <=> doing[r] \in {"take", "delete"} /\ reply[r] \in Callers
  /\ reply[r] \in Callers =>
       /\ rows[reply[r]].key # "none"
       /\ doing[r] \in {"take", "delete"} => rows[reply[r]].by = r
  /\ doing[r] = "count" => found[r] \in Callers /\ rows[found[r]].kind # "oneShot"

\* A request that was answered: TruthfulStatus, for this one.
Truthful(r) ==
  /\ at[r] = "create" => (status[r] = 201 <=> rows[r].key # "none")
  /\ at[r] = "delete" => (status[r] = 204 <=> Removes(r))
  /\ status[r] = 200 /\ at[r] \in {"fetch", "raw"} =>
       found[r] \in Callers /\ (rows[found[r]].kind = "oneShot" => rows[found[r]].by = r)

Local(r) ==
  /\ stage[r] # "running" => reply[r] = "none"
  /\ stage[r] # "new" => at[r] \in EndpointsOf(service)
  /\ stage[r] \in {"new", "queued"} => doing[r] = "none" /\ NoEffect(r)
  /\ stage[r] = "running" => InHandler(r)
  /\ Answered(r) => Truthful(r)
  /\ found[r] # Nobody => rows[found[r]].key # "none"

\* The requests that counted k and whose command is executed, or was lost when the task
\* stopped.  The row bound to k has counted no others, and none twice, and while the task
\* runs it has counted all of these that had found it.
Counted(k) == {r \in Requests : doing[r] = "count" /\ ask[r].key = k /\ ~InMail(r)}
CountedAt(k) == {r \in Counted(k) : found[r] = table[k]}
HitsOK ==
  \A k \in Keys : table[k] # Nobody =>
    /\ rows[table[k]].hits <= Cardinality(Counted(k))
    /\ running => Cardinality(CountedAt(k)) <= rows[table[k]].hits

\* Only finitely many requests have come.
Came == {r \in Requests : stage[r] # "new"}

Truth ==
  /\ RowsOK /\ MailOK /\ HitsOK /\ IsFiniteSet(Came)
  /\ \A r \in Requests : Local(r)

\* The replies of the repository are told apart.
LEMMA Replies ==
  /\ Nobody \notin Callers /\ "none" \notin Keys
  /\ Nobody \notin {"none", "waiting", "stopped"}
  /\ "none" \notin Callers /\ "waiting" \notin Callers /\ "stopped" \notin Callers
  /\ Requests \subseteq Callers
BY MemoryStoreAssumption, WebServiceAssumption

\* Who counted has come, and they are finitely many.
LEMMA FiniteCounts ==
  ASSUME IInv, IsFiniteSet(Came), NEW k
  PROVE  /\ IsFiniteSet(Counted(k)) /\ Cardinality(Counted(k)) \in Nat
         /\ \A S \in SUBSET Counted(k) :
              Cardinality(S) \in Nat /\ Cardinality(S) <= Cardinality(Counted(k))
<1>1. Counted(k) \subseteq Came
  <2> SUFFICES ASSUME NEW r \in Requests, doing[r] = "count", stage[r] = "new" PROVE FALSE
    BY DEF Counted, Came
  <2>1. QED  BY DEF IInv, Idleness
<1>2. IsFiniteSet(Counted(k))  BY <1>1, FS_Subset
<1>3. QED  BY <1>2, FS_Subset, FS_CardinalityType

\* A request that does not wait, and has not been cut off, has nothing in the mail box.
LEMMA NothingSent ==
  ASSUME MailOK, NEW r \in Requests, reply[r] # "waiting", ~CutOff(r)
  PROVE  ~InMail(r)
BY DEF MailOK, InMail

\* A step of the request r on its own: what the others have is untouched.
Others(r) ==
  \A q \in Requests \ {r} :
    /\ stage'[q] = stage[q] /\ at'[q] = at[q] /\ status'[q] = status[q]
    /\ ask'[q] = ask[q] /\ doing'[q] = doing[q] /\ found'[q] = found[q]
    /\ reply'[q] = reply[q]

\* The rows stay, so what held of the others still does.
LEMMA OthersLocal ==
  ASSUME Truth, NEW r \in Requests, Others(r), UNCHANGED <<rows, service>>,
         NEW q \in Requests \ {r}
  PROVE  Local(q)'
<1>1. Local(q)  BY DEF Truth
<1>2. /\ stage'[q] = stage[q] /\ at'[q] = at[q] /\ status'[q] = status[q]
      /\ doing'[q] = doing[q] /\ found'[q] = found[q] /\ reply'[q] = reply[q]
  BY DEF Others
<1>3. Removes(q)' <=> Removes(q)  BY DEF Removes
<1>4. NoEffect(q)' <=> NoEffect(q)  BY <1>3 DEF NoEffect
<1>5. InHandler(q) => InHandler(q)'  BY <1>2, <1>3 DEF InHandler
<1>6. Truthful(q) => Truthful(q)'  BY <1>2, <1>3 DEF Truthful
<1>7. Answered(q)' => Answered(q)  BY <1>2 DEF Answered, CutOff, Ended
<1>8. EndpointsOf(service)' = EndpointsOf(service)  BY DEF EndpointsOf
<1>9. QED  BY <1>1, <1>2, <1>4, <1>5, <1>6, <1>7, <1>8 DEF Local

\* One more request comes at most.
LEMMA CameFinite ==
  ASSUME NEW r \in Requests, Others(r), IsFiniteSet(Came)
  PROVE  IsFiniteSet(Came')
<1>1. Came' \subseteq Came \cup {r}  BY DEF Came, Others
<1>2. QED  BY <1>1, FS_AddElement, FS_Subset

\* A request moves and sends nothing.
LEMMA MovesQuietly ==
  ASSUME IInv, Truth, IInv', NEW r \in Requests, Others(r),
         UNCHANGED <<table, rows, running, service, mail>>,
         InMail(r) => /\ doing'[r] = doing[r] /\ ask'[r].key = ask[r].key
                      /\ reply'[r] = "waiting" \/ CutOff(r)',
         doing[r] = "count" => /\ doing'[r] = "count" /\ ask'[r].key = ask[r].key
                               /\ found'[r] = found[r],
         doing'[r] = "count" => doing[r] = "count" \/ ~running,
         Local(r)'
  PROVE  Truth'
<1>1. RowsOK'  BY DEF Truth, RowsOK
<1>2. \A q \in Requests : InMail(q)' <=> InMail(q)  BY DEF InMail
<1>3. MailOK'
  <2> SUFFICES ASSUME NEW i \in 1..Len(mail), NEW q, q = mail[i].from
               PROVE  /\ q \in Requests /\ mail[i].type = doing'[q] /\ mail[i].key = ask'[q].key
                      /\ reply'[q] = "waiting" \/ CutOff(q)'
                      /\ NoEffect(q)'
                      /\ \A j \in 1..Len(mail) : mail[j].from = q => j = i
    BY DEF MailOK
  <2>1. /\ q \in Requests /\ mail[i].type = doing[q] /\ mail[i].key = ask[q].key
        /\ reply[q] = "waiting" \/ CutOff(q)
        /\ NoEffect(q)
        /\ \A j \in 1..Len(mail) : mail[j].from = q => j = i
    BY DEF Truth, MailOK
  <2>2. NoEffect(q)'  BY <2>1 DEF NoEffect, Removes
  <2>3. CASE q = r  BY <2>1, <2>2, <2>3 DEF InMail
  <2>4. CASE q # r  BY <2>1, <2>2, <2>4 DEF Others, CutOff, Ended
  <2>5. QED  BY <2>3, <2>4
<1>4. HitsOK'
  <2> SUFFICES ASSUME NEW k \in Keys, table[k] # Nobody
               PROVE  /\ rows[table[k]].hits <= Cardinality(Counted(k)')
                      /\ running => Cardinality(CountedAt(k)') <= rows[table[k]].hits
    BY DEF HitsOK
  <2>1. /\ rows[table[k]].hits <= Cardinality(Counted(k))
        /\ running => Cardinality(CountedAt(k)) <= rows[table[k]].hits
    BY DEF Truth, HitsOK
  <2>2. rows[table[k]].hits \in Nat
    <3>1. table[k] \in Callers  BY DEF IInv, Types, StoreTypeOK
    <3>2. rows[table[k]] \in Row  BY <3>1 DEF IInv, Types, StoreTypeOK
    <3>3. QED  BY <3>2 DEF Row
  <2>3. Counted(k) \subseteq Counted(k)'  BY <1>2 DEF Counted, Others
  <2>4. running => CountedAt(k)' \subseteq CountedAt(k)
    BY <1>2 DEF Counted, CountedAt, Others
  <2>5. IsFiniteSet(Came) /\ IsFiniteSet(Came')  BY CameFinite DEF Truth
  <2>6. IsFiniteSet(Counted(k)) /\ IsFiniteSet(Counted(k)')
    <3>1. IsFiniteSet(Counted(k))  BY <2>5, FiniteCounts
    <3>2. Counted(k)' \subseteq Counted(k) \cup {r}  BY <1>2 DEF Counted, Others
    <3>3. QED  BY <3>1, <3>2, FS_AddElement, FS_Subset
  <2>7. /\ Cardinality(Counted(k)) \in Nat /\ Cardinality(Counted(k)') \in Nat
        /\ Cardinality(Counted(k)) <= Cardinality(Counted(k)')
    BY <2>3, <2>6, FS_Subset, FS_CardinalityType
  <2>8. IsFiniteSet(CountedAt(k))
    <3>1. CountedAt(k) \subseteq Counted(k)  BY DEF CountedAt
    <3>2. QED  BY <2>6, <3>1, FS_Subset
  <2>9. running => /\ Cardinality(CountedAt(k)) \in Nat /\ Cardinality(CountedAt(k)') \in Nat
                   /\ Cardinality(CountedAt(k)') <= Cardinality(CountedAt(k))
    BY <2>4, <2>8, FS_Subset, FS_CardinalityType
  <2>10. QED  BY <2>1, <2>2, <2>7, <2>9
<1>5. \A q \in Requests : Local(q)'  BY OthersLocal
<1>6. IsFiniteSet(Came)'  BY CameFinite DEF Truth
<1>7. QED  BY <1>1, <1>3, <1>4, <1>5, <1>6 DEF Truth

\* A request sends a command, and waits for its reply.
LEMMA MovesSending ==
  ASSUME IInv, Truth, IInv', NEW r \in Requests, Others(r),
         UNCHANGED <<table, rows, running, service>>,
         NEW m \in Command, mail' = Append(mail, m), m.from = r,
         m.type = doing'[r], m.key = ask'[r].key, reply'[r] = "waiting",
         ~InMail(r), NoEffect(r), doing[r] # "count", Local(r)'
  PROVE  Truth'
<1>1. RowsOK'  BY DEF Truth, RowsOK
<1>2. /\ Len(mail) \in Nat /\ Len(mail') = Len(mail) + 1
      /\ \A i \in 1..Len(mail') : i \in 1..Len(mail) \/ i = Len(mail) + 1
      /\ \A i \in 1..Len(mail) : i \in 1..Len(mail') /\ mail'[i] = mail[i]
      /\ mail'[Len(mail) + 1] = m /\ Len(mail) + 1 \in 1..Len(mail')
  BY Appended DEF IInv, Types
<1>3. /\ \A q \in Requests \ {r} : InMail(q)' <=> InMail(q)
      /\ InMail(r)'
  BY <1>2 DEF InMail
<1>4. MailOK'
  <2> SUFFICES ASSUME NEW i \in 1..Len(mail'), NEW q, q = mail'[i].from
               PROVE  /\ q \in Requests /\ mail'[i].type = doing'[q] /\ mail'[i].key = ask'[q].key
                      /\ reply'[q] = "waiting" \/ CutOff(q)'
                      /\ NoEffect(q)'
                      /\ \A j \in 1..Len(mail') : mail'[j].from = q => j = i
    BY DEF MailOK
  <2>1. CASE i \in 1..Len(mail)
    <3>1. /\ q \in Requests /\ mail[i].type = doing[q] /\ mail[i].key = ask[q].key
          /\ reply[q] = "waiting" \/ CutOff(q)
          /\ NoEffect(q)
          /\ \A j \in 1..Len(mail) : mail[j].from = q => j = i
      BY <1>2, <2>1 DEF Truth, MailOK
    <3>2. q # r  BY <1>2, <2>1 DEF InMail
    <3>3. NoEffect(q)'  BY <3>1 DEF NoEffect, Removes
    <3>4. \A j \in 1..Len(mail') : mail'[j].from = q => j = i  BY <1>2, <3>1, <3>2
    <3>5. mail'[i] = mail[i]  BY <1>2, <2>1
    <3>6. reply'[q] = "waiting" \/ CutOff(q)'  BY <3>1, <3>2 DEF Others, CutOff, Ended
    <3>7. QED  BY <3>1, <3>2, <3>3, <3>4, <3>5, <3>6 DEF Others
  <2>2. CASE i = Len(mail) + 1
    <3>1. q = r /\ mail'[i] = m  BY <1>2, <2>2
    <3>2. \A j \in 1..Len(mail) : mail'[j].from # r  BY <1>2 DEF InMail
    <3>3. NoEffect(r)'  BY DEF NoEffect, Removes
    <3>4. \A j \in 1..Len(mail') : mail'[j].from = q => j = i  BY <1>2, <2>2, <3>1, <3>2
    <3>5. QED  BY <3>1, <3>3, <3>4
  <2>3. QED  BY <1>2, <2>1, <2>2
<1>5. HitsOK'
  <2> SUFFICES ASSUME NEW k \in Keys, table[k] # Nobody
               PROVE  /\ rows[table[k]].hits <= Cardinality(Counted(k)')
                      /\ running => Cardinality(CountedAt(k)') <= rows[table[k]].hits
    BY DEF HitsOK
  <2>1. Counted(k)' = Counted(k)  BY <1>3 DEF Counted, Others
  <2>2. CountedAt(k)' = CountedAt(k)
    <3>1. r \notin Counted(k)  BY DEF Counted
    <3>2. QED  BY <2>1, <3>1 DEF CountedAt, Counted, Others
  <2>3. QED  BY <2>1, <2>2 DEF Truth, HitsOK
<1>6. \A q \in Requests : Local(q)'  BY OthersLocal
<1>7. IsFiniteSet(Came)'  BY CameFinite DEF Truth
<1>8. QED  BY <1>1, <1>4, <1>5, <1>6, <1>7 DEF Truth

\* A handler sends a command, or finds the task gone.
LEMMA CallsTruly ==
  ASSUME IInv, Rest, Truth, IInv', NEW r \in Requests, Others(r),
         stage'[r] = "running", UNCHANGED service, at'[r] = at[r], stage[r] # "new",
         NEW type \in AwaitsOf(at[r]) \ {"body"}, type \in CommandTypes,
         Call(r, type, ask'[r].key), Sendable(r)', ask[r].kind \in Kinds,
         reply[r] # "waiting", ~Ended(r), NoEffect(r), doing[r] # "count",
         found'[r] # Nobody => rows[found'[r]].key # "none",
         type = "count" => found'[r] \in Callers /\ rows[found'[r]].kind # "oneShot"
  PROVE  Truth'
<1> DEFINE m == [type |-> type, from |-> r, key |-> ask'[r].key, kind |-> ask[r].kind]
<1>1. m \in Command /\ m.from = r /\ m.type = type /\ m.key = ask'[r].key
  BY Replies DEF Command, Sendable
<1>2. /\ UNCHANGED <<table, rows, running>> /\ doing' = [doing EXCEPT ![r] = type]
      /\ \/ running /\ mail' = Append(mail, m) /\ reply' = [reply EXCEPT ![r] = "waiting"]
         \/ ~running /\ reply' = [reply EXCEPT ![r] = "stopped"] /\ UNCHANGED mail
  BY DEF Call, Send
<1> HIDE DEF m
<1>3. doing'[r] = type  BY <1>2 DEF IInv, Types
<1>4. reply'[r] \in {"waiting", "stopped"}  BY <1>2, Replies DEF IInv, Types, StoreTypeOK
<1>5. ~InMail(r)  BY NothingSent DEF Truth, CutOff
<1>6. Local(r)'
  <2>1. NoEffect(r)'  BY <1>2 DEF NoEffect, Removes
  <2>2. InHandler(r)'
    BY <1>2, <1>3, <1>4, <2>1, Replies DEF InHandler, NoEffect
  <2>3. at'[r] \in EndpointsOf(service)'  BY DEF Truth, Local, EndpointsOf
  <2>4. found'[r] # Nobody => rows'[found'[r]].key # "none"  BY <1>2
  <2>5. ~Answered(r)'  BY DEF Answered, Ended
  <2>6. QED  BY <2>2, <2>3, <2>4, <2>5 DEF Local
<1>7. CASE running
  <2>1. mail' = Append(mail, m) /\ reply' = [reply EXCEPT ![r] = "waiting"]  BY <1>2, <1>7
  <2>2. reply'[r] = "waiting"  BY <2>1, Replies DEF IInv, Types, StoreTypeOK
  <2>3. QED  BY <1>1, <1>2, <1>3, <1>5, <1>6, <2>1, <2>2, MovesSending
<1>8. CASE ~running
  <2>1. UNCHANGED mail  BY <1>2, <1>8
  <2>2. QED  BY <1>2, <1>3, <1>5, <1>6, <1>8, <2>1, MovesQuietly
<1>9. QED  BY <1>7, <1>8

\* A request ends: it was cut off, or was answered with the truth.
LEMMA EndsTruly ==
  ASSUME IInv, Truth, IInv', NEW r \in Requests, Others(r),
         stage'[r] = "ended", UNCHANGED <<table, rows, running, service, mail>>,
         at'[r] \in EndpointsOf(service), reply'[r] = "none",
         doing'[r] = doing[r], ask'[r].key = ask[r].key,
         doing[r] = "count" => found'[r] = found[r],
         found'[r] # Nobody => rows[found'[r]].key # "none",
         CutOff(r)' \/ (~InMail(r) /\ Truthful(r)')
  PROVE  Truth'
<1>1. Local(r)'
  <2>1. at'[r] \in EndpointsOf(service)'  BY DEF EndpointsOf
  <2>2. Answered(r)' => Truthful(r)'  BY DEF Answered
  <2>3. QED  BY <2>1, <2>2 DEF Local
<1>2. QED  BY <1>1, MovesQuietly

\* No service error is taken for a success.
LEMMA ErrorsAreErrors ==
  \A e \in {"Validation", "Blocked", "NotFound", "Conflict", "Backend"} :
    ErrorStatus(e) \in {400, 404, 409, 500}
BY DEF ErrorStatus, StatusOf, AppErrorOf

\* What answering leaves as it is.
LEMMA Responding ==
  ASSUME IInv, Rest, NEW r \in Requests, NEW s \in Nat, Respond(r, s),
         UNCHANGED <<service, ask, doing>>,
         found' = found \/ \E n : found' = [found EXCEPT ![r] = n]
  PROVE  /\ Others(r) /\ UNCHANGED <<table, rows, running, mail>>
         /\ stage[r] = "running" /\ stage'[r] = "ended" /\ status'[r] = s /\ at'[r] = at[r]
         /\ reply'[r] = "none"
<1>1. /\ stage[r] = "running" /\ stage' = [stage EXCEPT ![r] = "ended"]
      /\ status' = [status EXCEPT ![r] = s] /\ UNCHANGED at
      /\ reply' = [reply EXCEPT ![r] = "none"] /\ UNCHANGED <<table, rows, running, mail>>
  BY DEF Respond, Finish, Forget
<1>2. stage'[r] = "ended" /\ status'[r] = s /\ reply'[r] = "none"
  BY <1>1, Replies DEF IInv, Types, StoreTypeOK, Rest, HttpTypeOK
<1>3. \A q \in Requests \ {r} : found'[q] = found[q]  BY DEF Rest
<1>4. Others(r)  BY <1>1, <1>3 DEF Others
<1>5. QED  BY <1>1, <1>2, <1>4

\* A handler that answers when its reply is there, or before it has sent anything.
LEMMA RespondsTruly ==
  ASSUME IInv, Rest, Truth, IInv', NEW r \in Requests, NEW s \in Nat, Respond(r, s),
         UNCHANGED <<service, ask, doing, found>>, reply[r] # "waiting",
         at[r] = "create" => (s = 201 <=> rows[r].key # "none"),
         at[r] = "delete" => (s = 204 <=> Removes(r)),
         s = 200 /\ at[r] \in {"fetch", "raw"} =>
           found[r] \in Callers /\ (rows[found[r]].kind = "oneShot" => rows[found[r]].by = r)
  PROVE  Truth'
<1>1. /\ Others(r) /\ UNCHANGED <<table, rows, running, mail>>
      /\ stage[r] = "running" /\ stage'[r] = "ended" /\ status'[r] = s /\ at'[r] = at[r]
      /\ reply'[r] = "none"
  BY Responding
<1>2. ~InMail(r)  BY <1>1, NothingSent DEF Truth, CutOff, Ended
<1>3. Removes(r)' <=> Removes(r)  BY <1>1 DEF Removes
<1>4. Truthful(r)'  BY <1>1, <1>3 DEF Truthful
<1>5. at[r] \in EndpointsOf(service) /\ (found[r] # Nobody => rows[found[r]].key # "none")
  BY <1>1 DEF Truth, Local
<1>6. QED  BY <1>1, <1>2, <1>4, <1>5, EndsTruly

\* And one that answers with an error.
LEMMA FailsTruly ==
  ASSUME IInv, Rest, Truth, IInv', NEW r \in Requests,
         \/ Refused(r) /\ Fail(r, ask[r].kind)
         \/ \E e \in {"NotFound", "Conflict", "Backend"} : Fail(r, e),
         UNCHANGED <<service, ask, doing, found>>, reply[r] # "waiting",
         at[r] = "create" => rows[r].key = "none",
         at[r] = "delete" => ~Removes(r)
  PROVE  Truth'
<1>1. PICK e \in {"Validation", "Blocked", "NotFound", "Conflict", "Backend"} : Fail(r, e)
  BY DEF Rest, RefusedOK
<1>2. ErrorStatus(e) \in {400, 404, 409, 500}  BY ErrorsAreErrors
<1>3. PICK s \in {400, 404, 409, 500} : Respond(r, s)  BY <1>1, <1>2 DEF Fail
<1>4. QED  BY <1>3, RespondsTruly

\* A request comes in.
LEMMA TrulyComes ==
  ASSUME IInv, Rest, Truth, IInv', NEW r \in Requests, Come(r) PROVE Truth'
<1>1. PICK e \in EndpointsOf(service) : Arrive(r, e)  BY DEF Come
<1>2. /\ stage[r] = "new" /\ at' = [at EXCEPT ![r] = e]
      /\ UNCHANGED <<storeVars, service, doing, found>>
      /\ \/ stage' = [stage EXCEPT ![r] = "queued"] /\ UNCHANGED status
         \/ /\ stage' = [stage EXCEPT ![r] = "ended"]
            /\ status' = [status EXCEPT ![r] = 429]
  BY <1>1 DEF Arrive, Come
<1>3. \A q \in Requests \ {r} : ask'[q] = ask[q]
  <2>1. \E a : ask' = [ask EXCEPT ![r] = a]  BY DEF Come
  <2>2. QED  BY <2>1 DEF IInv, Types
<1>4. Others(r)
  <2>1. \A q \in Requests \ {r} : stage'[q] = stage[q]  BY <1>2 DEF IInv, Types
  <2>2. \A q \in Requests \ {r} : at'[q] = at[q]  BY <1>2 DEF Rest, HttpTypeOK
  <2>3. \A q \in Requests \ {r} : status'[q] = status[q]  BY <1>2 DEF Rest, HttpTypeOK
  <2>4. UNCHANGED <<doing, found, reply>>  BY <1>2 DEF storeVars
  <2>5. QED  BY <1>3, <2>1, <2>2, <2>3, <2>4 DEF Others
<1>5. /\ reply[r] = "none" /\ doing[r] = "none" /\ NoEffect(r)
      /\ found[r] # Nobody => rows[found[r]].key # "none"
  BY <1>2 DEF Truth, Local
<1>6. ~InMail(r)  BY <1>2, <1>5, NothingSent DEF Truth, CutOff, Ended
<1>7. /\ at'[r] = e /\ stage'[r] \in {"queued", "ended"}
      /\ stage'[r] = "ended" => status'[r] = 429
  BY <1>2 DEF IInv, Types, Rest, HttpTypeOK
<1>8. Local(r)'
  <2>1. Removes(r)' <=> Removes(r)  BY <1>2 DEF Removes, storeVars
  <2>2. NoEffect(r)'  BY <1>2, <1>5, <2>1 DEF NoEffect, storeVars
  <2>3. Answered(r)' => Truthful(r)'
    BY <1>7, <2>2 DEF Answered, Ended, Truthful, NoEffect
  <2>4. QED
    BY <1>1, <1>2, <1>5, <1>7, <2>2, <2>3 DEF Local, storeVars, EndpointsOf
<1>9. QED  BY <1>2, <1>4, <1>5, <1>6, <1>8, MovesQuietly DEF storeVars

\* A permit is there.
LEMMA TrulyBegins ==
  ASSUME IInv, Rest, Truth, IInv', NEW r \in Requests, Begin(r) PROVE Truth'
<1>1. /\ stage[r] = "queued" /\ UNCHANGED <<service, ask, found>>
      /\ reply[r] = "none" /\ doing[r] = "none" /\ NoEffect(r)
      /\ found[r] # Nobody => rows[found[r]].key # "none"
      /\ at[r] \in EndpointsOf(service)
  BY DEF Begin, Truth, Local
<1>2. ~InMail(r)  BY <1>1, Replies, NothingSent DEF Truth, CutOff, Ended
<1>3. ASSUME at[r] = "create", Admit(at[r], r), doing' = [doing EXCEPT ![r] = "body"],
             UNCHANGED storeVars
      PROVE  Truth'
  <2>1. stage' = [stage EXCEPT ![r] = "running"] /\ UNCHANGED <<at, status>>
    BY <1>3 DEF Admit
  <2>2. stage'[r] = "running" /\ doing'[r] = "body"  BY <1>3, <2>1 DEF IInv, Types
  <2>3. Others(r)  BY <1>1, <1>3, <2>1 DEF Others, storeVars
  <2>4. Local(r)'
    <3>1. Removes(r)' <=> Removes(r)  BY <1>3 DEF Removes, storeVars
    <3>2. InHandler(r)'
      BY <1>1, <1>3, <2>1, <2>2, <3>1, Replies DEF InHandler, NoEffect, storeVars, AwaitsOf
    <3>3. QED
      BY <1>1, <1>3, <2>1, <2>2, <3>2 DEF Local, storeVars, EndpointsOf, Answered, Ended
  <2>5. QED  BY <1>1, <1>2, <1>3, <2>2, <2>3, <2>4, MovesQuietly DEF storeVars
<1>4. ASSUME at[r] # "create", ~Refused(r), Admit(at[r], r), Call(r, FirstOf(at[r]), ask[r].key)
      PROVE  Truth'
  <2>1. stage' = [stage EXCEPT ![r] = "running"] /\ UNCHANGED <<at, status>>
    BY <1>4 DEF Admit
  <2>2. /\ UNCHANGED <<table, rows, running>> /\ doing' = [doing EXCEPT ![r] = FirstOf(at[r])]
        /\ \/ reply' = [reply EXCEPT ![r] = "waiting"]
           \/ reply' = [reply EXCEPT ![r] = "stopped"]
    BY <1>4 DEF Call, Send
  <2>3. Others(r) /\ stage'[r] = "running"
    <3>1. \A q \in Requests \ {r} : doing'[q] = doing[q]  BY <2>2 DEF IInv, Types
    <3>2. \A q \in Requests \ {r} : reply'[q] = reply[q]
      BY <2>2, Replies DEF IInv, Types, StoreTypeOK
    <3>3. \A q \in Requests \ {r} : stage'[q] = stage[q]  BY <2>1 DEF IInv, Types
    <3>4. stage'[r] = "running"  BY <2>1 DEF IInv, Types
    <3>5. QED  BY <1>1, <2>1, <3>1, <3>2, <3>3, <3>4 DEF Others
  <2>4. /\ FirstOf(at[r]) \in AwaitsOf(at[r]) \ {"body"} /\ FirstOf(at[r]) \in CommandTypes
        /\ FirstOf(at[r]) # "count"
    BY <1>1, <1>4 DEF FirstOf, AwaitsOf, CommandTypes
  <2>5. Sendable(r) /\ Sendable(r)' /\ ask[r].kind \in Kinds
    BY <1>1, <1>4 DEF IInv, AsksOK, Sendable
  <2>6. Call(r, FirstOf(at[r]), ask'[r].key) /\ at'[r] = at[r] /\ stage[r] # "new"
    BY <1>1, <1>4, <2>1
  <2>7. found'[r] # Nobody => rows[found'[r]].key # "none"  BY <1>1
  <2>8. reply[r] # "waiting" /\ ~Ended(r) /\ doing[r] # "count"
    BY <1>1 DEF Ended
  <2>9. QED  BY <1>1, <2>3, <2>4, <2>5, <2>6, <2>7, <2>8, CallsTruly
<1>5. ASSUME Refused(r), AdmitAnswered(at[r], r, ErrorStatus(ask[r].kind)),
             UNCHANGED <<storeVars, doing>>
      PROVE  Truth'
  <2>1. ErrorStatus(ask[r].kind) \in {400, 404, 409, 500}
    BY <1>5, ErrorsAreErrors DEF Rest, RefusedOK
  <2>2. /\ stage' = [stage EXCEPT ![r] = "ended"] /\ UNCHANGED at
        /\ status' = [status EXCEPT ![r] = ErrorStatus(ask[r].kind)]
    BY <1>5 DEF AdmitAnswered
  <2>3. Others(r)  BY <1>1, <1>5, <2>2 DEF Others, storeVars
  <2>4. stage'[r] = "ended" /\ status'[r] \in {400, 404, 409, 500}
    BY <2>1, <2>2 DEF Rest, HttpTypeOK
  <2>5. Truthful(r)'
    <3>1. Removes(r)' <=> Removes(r)  BY <1>5 DEF Removes, storeVars
    <3>2. QED  BY <1>1, <1>5, <2>4, <3>1 DEF Truthful, NoEffect, storeVars
  <2>6. QED  BY <1>1, <1>2, <1>5, <2>2, <2>3, <2>4, <2>5, EndsTruly DEF storeVars
<1>6. QED  BY <1>3, <1>4, <1>5 DEF Begin

\* The timeout, and the client that leaves.
LEMMA TrulyCutOff ==
  ASSUME IInv, Rest, Truth, IInv', NEW r \in Requests, TimeOut(r) \/ Disconnect(r)
  PROVE  Truth'
<1>1. /\ stage[r] \in {"queued", "running"} /\ stage' = [stage EXCEPT ![r] = "ended"]
      /\ \E s \in {408, Gone} : status' = [status EXCEPT ![r] = s]
      /\ UNCHANGED <<at, service, ask, doing, found, table, rows, mail, running>>
      /\ reply' = [reply EXCEPT ![r] = "none"]
  BY DEF TimeOut, TimeoutElapses, Finish, Disconnect, Leave, Forget, handlers
<1>2. Others(r)  BY <1>1 DEF Others
<1>3. stage'[r] = "ended" /\ status'[r] \in {408, Gone} /\ reply'[r] = "none"
  BY <1>1, Replies DEF IInv, Types, StoreTypeOK, Rest, HttpTypeOK
<1>4. CutOff(r)'  BY <1>3 DEF CutOff, Ended
<1>5. at[r] \in EndpointsOf(service) /\ (found[r] # Nobody => rows[found[r]].key # "none")
  BY <1>1 DEF Truth, Local
<1>6. QED  BY <1>1, <1>2, <1>3, <1>4, <1>5, EndsTruly

------------------------------------------------------------------------------
\* What a handler that goes on knows.

LEMMA WhileRunning ==
  ASSUME IInv, Rest, Truth, NEW r \in Requests, stage[r] = "running"
  PROVE  /\ InHandler(r) /\ at[r] \in EndpointsOf(service) /\ ~Ended(r)
         /\ r \in Callers /\ reply[r] \in Callers \cup {Nobody, "none", "waiting", "stopped"}
         /\ found[r] # Nobody => rows[found[r]].key # "none"
BY Replies DEF Truth, Local, Ended, InHandler, IInv, Types, StoreTypeOK

\* A handler that sends another command leaves the others alone.
LEMMA Calling ==
  ASSUME IInv, Rest, NEW r \in Requests, stage[r] = "running", NEW type, NEW key,
         Call(r, type, key), UNCHANGED httpVars,
         \A q \in Requests \ {r} : ask'[q] = ask[q] /\ found'[q] = found[q]
  PROVE  Others(r) /\ stage'[r] = "running" /\ at'[r] = at[r]
<1>1. UNCHANGED <<stage, at, status>>  BY DEF httpVars
<1>2. /\ doing' = [doing EXCEPT ![r] = type]
      /\ reply' = [reply EXCEPT ![r] = "waiting"] \/ reply' = [reply EXCEPT ![r] = "stopped"]
  BY DEF Call, Send
<1>3. \A q \in Requests \ {r} : doing'[q] = doing[q]  BY <1>2 DEF IInv, Types
<1>4. \A q \in Requests \ {r} : reply'[q] = reply[q]  BY <1>2, Replies DEF IInv, Types, StoreTypeOK
<1>5. QED  BY <1>1, <1>3, <1>4 DEF Others

\* create: the body is there, or the reply to an insert.
LEMMA TrulyCreates ==
  ASSUME IInv, Rest, Truth, IInv', NEW r \in Requests, BodyArrives(r) \/ CreateGoesOn(r)
  PROVE  Truth'
<1>1. stage[r] = "running" /\ doing[r] \in {"body", "insert"}
  BY DEF BodyArrives, CreateGoesOn, Replied
<1>2. /\ InHandler(r) /\ at[r] \in EndpointsOf(service) /\ ~Ended(r)
      /\ reply[r] \in Callers \cup {Nobody, "none", "waiting", "stopped"}
      /\ found[r] # Nobody => rows[found[r]].key # "none"
  BY <1>1, WhileRunning
<1>3. at[r] = "create"  BY <1>1, <1>2 DEF InHandler, AwaitsOf
<1>4. reply[r] # "waiting"
  BY <1>1, <1>2 DEF InHandler, BodyArrives, CreateGoesOn, Replied
<1>5. reply[r] # Nobody => NoEffect(r)
  BY <1>1, <1>2 DEF InHandler, NoEffect
<1>6. /\ "insert" \in AwaitsOf(at[r]) \ {"body"} /\ "insert" \in CommandTypes
      /\ stage[r] # "new" /\ doing[r] # "count"
  BY <1>1, <1>3 DEF AwaitsOf, CommandTypes
<1>7. CASE BodyArrives(r)
  <2>1. doing[r] = "body" /\ UNCHANGED <<service, ask, found>>  BY <1>7 DEF BodyArrives
  <2>2. reply[r] = "none" /\ NoEffect(r)  BY <1>2, <1>5, <2>1, Replies DEF InHandler
  <2>3. CASE Refused(r) /\ Fail(r, ask[r].kind) /\ UNCHANGED doing
    <3>1. rows[r].key = "none"  BY <2>2 DEF NoEffect
    <3>2. QED  BY <1>3, <1>4, <2>1, <2>3, <3>1, FailsTruly
  <2>5. CASE UNCHANGED doing /\ \E s \in Rejections : Respond(r, s)
    <3>1. PICK s \in {413, 415, 422} : Respond(r, s)  BY <2>5 DEF Rejections
    <3>2. rows[r].key = "none"  BY <2>2 DEF NoEffect
    <3>3. QED  BY <1>3, <1>4, <2>1, <2>5, <3>1, <3>2, RespondsTruly
  <2>4. CASE ~Refused(r) /\ Call(r, "insert", ask[r].key) /\ UNCHANGED httpVars
    <3>1. Call(r, "insert", ask'[r].key)  BY <2>1, <2>4
    <3>2. Sendable(r)' /\ ask[r].kind \in Kinds
      BY <1>1, <2>1, <2>4 DEF IInv, AsksOK, Sendable
    <3>3. Others(r) /\ stage'[r] = "running" /\ at'[r] = at[r]
      BY <1>1, <2>1, <2>4, Calling
    <3>4. found'[r] # Nobody => rows[found'[r]].key # "none"  BY <1>2, <2>1
    <3>5. QED
      BY <1>2, <1>4, <1>6, <2>1, <2>2, <3>1, <3>2, <3>3, <3>4, CallsTruly
  <2>6. QED  BY <1>7, <2>3, <2>4, <2>5 DEF BodyArrives
<1>8. CASE CreateGoesOn(r)
  <2>1. /\ doing[r] = "insert" /\ UNCHANGED <<service, found>>
        /\ reply[r] \notin {"none", "waiting"}
    BY <1>8 DEF CreateGoesOn, Replied
  <2>2. rows[r].key # "none" <=> Missing(r)  BY <1>2, <2>1 DEF InHandler, Missing
  <2>3. CASE Missing(r) /\ Respond(r, 201) /\ UNCHANGED <<ask, doing>>
    <3>1. rows[r].key # "none"  BY <2>2, <2>3
    <3>2. 201 \in Nat  OBVIOUS
    <3>3. QED  BY <1>3, <1>4, <2>1, <2>3, <3>1, <3>2, RespondsTruly
  <2>4. CASE /\ ~Missing(r)
             /\ Fail(r, "Backend") \/ Fail(r, "Conflict")
             /\ UNCHANGED <<ask, doing>>
    <3>1. rows[r].key = "none"  BY <2>2, <2>4
    <3>2. QED  BY <1>3, <1>4, <2>1, <2>4, <3>1, FailsTruly
  <2>5. ASSUME ~Missing(r), UNCHANGED httpVars, NEW k \in Keys,
               ask' = [ask EXCEPT ![r] = [key |-> k, kind |-> ask[r].kind,
                                           tries |-> ask[r].tries - 1]],
               Call(r, "insert", k)
        PROVE  Truth'
    <3>1. /\ ask'[r].key = k /\ ask'[r].kind = ask[r].kind
          /\ \A q \in Requests \ {r} : ask'[q] = ask[q]
      BY <2>5 DEF IInv, Types
    <3>2. ask[r].kind \in Kinds  BY <2>1 DEF IInv, AsksOK, Sendable, CommandTypes
    <3>3. Sendable(r)'  BY <3>1, <3>2 DEF Sendable
    <3>4. Others(r) /\ stage'[r] = "running" /\ at'[r] = at[r]
      BY <1>1, <2>1, <2>5, <3>1, Calling
    <3>5. NoEffect(r)  BY <1>5, <2>5 DEF Missing
    <3>6. found'[r] # Nobody => rows[found'[r]].key # "none"  BY <1>2, <2>1
    <3>7. Call(r, "insert", ask'[r].key)  BY <2>5, <3>1
    <3>8. QED
      BY <1>2, <1>4, <1>6, <2>1, <3>2, <3>3, <3>4, <3>5, <3>6, <3>7, CallsTruly
  <2>6. Stopped(r) => ~Missing(r)  BY Replies DEF Stopped, Missing
  <2>7. QED  BY <1>8, <2>3, <2>4, <2>5, <2>6 DEF CreateGoesOn
<1>9. QED  BY <1>7, <1>8

\* get, resolve and fetch have read the row.
LEMMA TrulyReads ==
  ASSUME IInv, Rest, Truth, IInv', NEW r \in Requests, ReadGoesOn(r) PROVE Truth'
<1>1. /\ stage[r] = "running" /\ doing[r] = "get" /\ reply[r] \notin {"none", "waiting"}
      /\ UNCHANGED <<service, ask>>
  BY DEF ReadGoesOn, Replied
<1>2. /\ InHandler(r) /\ at[r] \in EndpointsOf(service) /\ ~Ended(r)
      /\ reply[r] \in Callers \cup {Nobody, "none", "waiting", "stopped"}
      /\ found[r] # Nobody => rows[found[r]].key # "none"
  BY <1>1, WhileRunning
<1>3. at[r] \in Reads
  BY <1>1, <1>2 DEF InHandler, AwaitsOf, EndpointsOf, Reads
<1>4. at[r] # "create" /\ at[r] # "delete" /\ NoEffect(r)
  BY <1>1, <1>2, <1>3 DEF InHandler, NoEffect, Reads
<1>5. ASSUME Fail(r, "NotFound") \/ Fail(r, "Backend"), UNCHANGED <<doing, found>> PROVE Truth'
  BY <1>1, <1>4, <1>5, FailsTruly
<1>6. ASSUME ~Missing(r), ~Stopped(r), found' = [found EXCEPT ![r] = Read(r)]
      PROVE  /\ found'[r] = Read(r) /\ Read(r) \in Callers /\ rows[Read(r)].key # "none"
             /\ \A q \in Requests \ {r} : found'[q] = found[q]
  <2>1. Read(r) \in Callers  BY <1>1, <1>2, <1>6 DEF Missing, Stopped, Read
  <2>2. rows[Read(r)].key # "none"  BY <1>2, <2>1 DEF InHandler, Read
  <2>3. QED  BY <1>6, <2>1, <2>2 DEF Rest
<1>7. ASSUME ~Missing(r), ~Stopped(r), found' = [found EXCEPT ![r] = Read(r)],
             NEW type \in {"delete", "take", "count"}, Call(r, type, ask[r].key),
             UNCHANGED httpVars, type = "count" => rows[Read(r)].kind # "oneShot"
      PROVE  Truth'
  <2>1. /\ found'[r] = Read(r) /\ Read(r) \in Callers /\ rows[Read(r)].key # "none"
        /\ \A q \in Requests \ {r} : found'[q] = found[q]
    BY <1>6, <1>7
  <2>2. Others(r) /\ stage'[r] = "running" /\ at'[r] = at[r]
    BY <1>1, <1>7, <2>1, Calling
  <2>3. Call(r, type, ask'[r].key) /\ Sendable(r)' /\ ask[r].kind \in Kinds
    BY <1>1, <1>7 DEF IInv, AsksOK, Sendable, CommandTypes
  <2>4. type \in AwaitsOf(at[r]) \ {"body"} /\ type \in CommandTypes
    BY <1>3, <1>7 DEF AwaitsOf, Reads, CommandTypes
  <2>5. reply[r] # "waiting" /\ doing[r] # "count" /\ stage[r] # "new"  BY <1>1
  <2>6. found'[r] # Nobody => rows[found'[r]].key # "none"  BY <2>1
  <2>7. type = "count" => found'[r] \in Callers /\ rows[found'[r]].kind # "oneShot"
    BY <1>7, <2>1
  <2>8. QED
    BY <1>1, <1>2, <1>4, <2>2, <2>3, <2>4, <2>5, <2>6, <2>7, CallsTruly
<1>8. ASSUME ~Missing(r), ~Stopped(r), found' = [found EXCEPT ![r] = Read(r)],
             at[r] = "get", Respond(r, 200), UNCHANGED doing
      PROVE  Truth'
  <2>1. 200 \in Nat  OBVIOUS
  <2>2. /\ Others(r) /\ UNCHANGED <<table, rows, running, mail>>
        /\ stage[r] = "running" /\ stage'[r] = "ended" /\ status'[r] = 200 /\ at'[r] = at[r]
        /\ reply'[r] = "none"
    BY <1>1, <1>8, <2>1, Responding
  <2>3. ~InMail(r)  BY <1>1, <1>2, NothingSent DEF Truth, CutOff
  <2>4. Truthful(r)'  BY <1>8, <2>2 DEF Truthful
  <2>5. found'[r] # Nobody => rows[found'[r]].key # "none"  BY <1>6, <1>8
  <2>6. QED  BY <1>1, <1>2, <1>8, <2>2, <2>3, <2>4, <2>5, EndsTruly
<1>9. QED  BY <1>5, <1>7, <1>8 DEF ReadGoesOn

\* The purge is over.
LEMMA TrulyPurges ==
  ASSUME IInv, Rest, Truth, IInv', NEW r \in Requests, PurgeGoesOn(r) PROVE Truth'
<1>1. /\ reply[r] # "waiting" /\ at[r] \in Reads /\ Fail(r, "NotFound")
      /\ UNCHANGED <<service, ask, doing, found>>
  BY DEF PurgeGoesOn, Replied, handlers
<1>2. at[r] # "create" /\ at[r] # "delete"  BY <1>1 DEF Reads
<1>3. QED  BY <1>1, <1>2, FailsTruly

\* take: whoever gets the row serves it.
LEMMA TrulyTakes ==
  ASSUME IInv, Rest, Truth, IInv', NEW r \in Requests, TakeGoesOn(r) PROVE Truth'
<1>1. /\ stage[r] = "running" /\ doing[r] = "take" /\ reply[r] \notin {"none", "waiting"}
      /\ UNCHANGED <<service, ask, doing>>
  BY DEF TakeGoesOn, Replied
<1>2. /\ InHandler(r) /\ at[r] \in EndpointsOf(service) /\ ~Ended(r)
      /\ reply[r] \in Callers \cup {Nobody, "none", "waiting", "stopped"}
  BY <1>1, WhileRunning
<1>3. at[r] # "create" /\ at[r] # "delete"
  BY <1>1, <1>2 DEF InHandler, AwaitsOf
<1>4. CASE (Fail(r, "NotFound") \/ Fail(r, "Backend")) /\ UNCHANGED found
  BY <1>1, <1>3, <1>4, FailsTruly
<1>5. CASE /\ ~Missing(r) /\ ~Stopped(r) /\ found' = [found EXCEPT ![r] = Read(r)]
           /\ Respond(r, 200)
  <2>1. Read(r) \in Callers  BY <1>1, <1>2, <1>5 DEF Missing, Stopped, Read
  <2>2. rows[Read(r)].key # "none" /\ rows[Read(r)].by = r
    BY <1>1, <1>2, <2>1 DEF InHandler, Read
  <2>3. found'[r] = Read(r)  BY <1>5, <2>1 DEF Rest
  <2>4. 200 \in Nat  OBVIOUS
  <2>5. /\ Others(r) /\ UNCHANGED <<table, rows, running, mail>>
        /\ stage[r] = "running" /\ stage'[r] = "ended" /\ status'[r] = 200 /\ at'[r] = at[r]
        /\ reply'[r] = "none"
    BY <1>1, <1>5, <2>4, Responding
  <2>6. ~InMail(r)  BY <1>1, <1>2, NothingSent DEF Truth, CutOff
  <2>7. Truthful(r)'  BY <1>3, <2>1, <2>2, <2>3, <2>5 DEF Truthful
  <2>8. found'[r] # Nobody => rows[found'[r]].key # "none"  BY <2>2, <2>3
  <2>9. QED  BY <1>1, <1>2, <2>5, <2>6, <2>7, <2>8, EndsTruly
<1>6. QED  BY <1>4, <1>5 DEF TakeGoesOn

\* The row is counted, and served.
LEMMA TrulyCounts ==
  ASSUME IInv, Rest, Truth, IInv', NEW r \in Requests, CountGoesOn(r) PROVE Truth'
<1>1. /\ stage[r] = "running" /\ doing[r] = "count" /\ reply[r] \notin {"none", "waiting"}
      /\ UNCHANGED <<service, ask, doing, found>>
  BY DEF CountGoesOn, Replied, handlers
<1>2. InHandler(r)  BY <1>1, WhileRunning
<1>3. at[r] # "create" /\ at[r] # "delete"
  BY <1>1, <1>2 DEF InHandler, AwaitsOf
<1>4. found[r] \in Callers /\ rows[found[r]].kind # "oneShot"  BY <1>1, <1>2 DEF InHandler
<1>5. \E s \in {500, 302, 200} : Respond(r, s)  BY DEF CountGoesOn, StatusOf
<1>6. PICK s \in {500, 302, 200} : Respond(r, s)  BY <1>5
<1>7. s \in Nat  BY <1>6
<1>8. QED  BY <1>1, <1>3, <1>4, <1>6, <1>7, RespondsTruly

\* delete: 204 when there was a row.
LEMMA TrulyDeletes ==
  ASSUME IInv, Rest, Truth, IInv', NEW r \in Requests, DeleteGoesOn(r) PROVE Truth'
<1>1. /\ stage[r] = "running" /\ doing[r] = "delete" /\ reply[r] \notin {"none", "waiting"}
      /\ at[r] = "delete" /\ UNCHANGED <<service, ask, doing, found>>
  BY DEF DeleteGoesOn, Replied, handlers
<1>2. InHandler(r) /\ reply[r] \in Callers \cup {Nobody, "none", "waiting", "stopped"}
  BY <1>1, WhileRunning
<1>3. Removes(r) <=> ~Stopped(r) /\ ~Missing(r)
  BY <1>1, <1>2, Replies DEF InHandler, Stopped, Missing
<1>4. ErrorStatus("Backend") = 500 /\ ErrorStatus("NotFound") = 404
  BY DEF ErrorStatus, StatusOf, AppErrorOf
<1>5. \E s \in {500, 404, 204} : Respond(r, s) /\ (s = 204 <=> ~Stopped(r) /\ ~Missing(r))
  BY <1>4 DEF DeleteGoesOn
<1>6. PICK s \in {500, 404, 204} : Respond(r, s) /\ (s = 204 <=> ~Stopped(r) /\ ~Missing(r))
  BY <1>5
<1>7. s \in Nat  BY <1>6
<1>8. QED  BY <1>1, <1>3, <1>6, <1>7, RespondsTruly

\* ready: the ping is answered or not.
LEMMA TrulyReady ==
  ASSUME IInv, Rest, Truth, IInv', NEW r \in Requests, ReadyGoesOn(r) PROVE Truth'
<1>1. /\ stage[r] = "running" /\ doing[r] = "ping" /\ reply[r] \notin {"none", "waiting"}
      /\ UNCHANGED <<service, ask, doing, found>>
  BY DEF ReadyGoesOn, Replied, handlers
<1>2. InHandler(r)  BY <1>1, WhileRunning
<1>3. at[r] \notin {"create", "delete", "fetch", "raw"}
  BY <1>1, <1>2 DEF InHandler, AwaitsOf
<1>4. PICK s \in {503, 200} : Respond(r, s)  BY DEF ReadyGoesOn
<1>5. s \in Nat  BY <1>4
<1>6. QED  BY <1>1, <1>3, <1>4, <1>5, RespondsTruly

------------------------------------------------------------------------------
\* What the oldest command does to the rows: it may insert its sender's, remove the one
\* bound to its key, or count on that.
LEMMA Effects ==
  ASSUME IInv, RowsOK, NEW m \in Command, m.from \in Requests, NoEffect(m.from), Execute(m)
  PROVE  /\ \A x \in Callers : rows[x].key # "none" =>
              rows'[x].key = rows[x].key /\ rows'[x].kind = rows[x].kind
         /\ \A x \in Callers \ {m.from} : rows'[x].key = rows[x].key
         /\ \A x \in Callers : \/ rows'[x].by = rows[x].by
                               \/ rows[x].by = Nobody /\ rows'[x].by = m.from
         /\ rows'[m.from].key # "none" <=> m.type = "insert" /\ table[m.key] = Nobody
         /\ Removes(m.from)' <=> m.type \in {"take", "delete"} /\ table[m.key] # Nobody
         /\ m.type \in {"take", "delete"} /\ table[m.key] # Nobody =>
              rows'[table[m.key]].by = m.from
         /\ RowsOK'
         /\ \A k \in Keys : table'[k] # Nobody =>
              IF table'[k] = table[k]
              THEN rows'[table[k]].hits = IF m.type = "count" /\ k = m.key
                                          THEN rows[table[k]].hits + 1 ELSE rows[table[k]].hits
              ELSE m.type = "insert" /\ table'[k] = m.from /\ rows'[m.from].hits = 0
<1> DEFINE r == m.from
           n == table[m.key]
<1>1. /\ table \in [Keys -> Callers \cup {Nobody}] /\ rows \in [Callers -> Row]
      /\ m.key \in Keys /\ r \in Callers /\ n \in Callers \cup {Nobody}
      /\ Nobody \notin Callers /\ "none" \notin Keys
  BY Replies DEF IInv, Types, StoreTypeOK, Command
<1>2. /\ rows[r].key = "none" /\ rows[r].by = Nobody
      /\ \A x \in Callers : rows[x].by # r
  BY <1>1 DEF NoEffect, Removes, RowsOK
<1>3. /\ \A x \in Callers : rows[x].key = "none" => rows[x].by = Nobody
      /\ \A k \in Keys : table[k] # Nobody =>
           table[k] \in Callers /\ rows[table[k]].key = k /\ rows[table[k]].by = Nobody
  BY <1>1 DEF RowsOK
<1> HIDE DEF r, n
<1>4. CASE m.type = "insert" /\ n = Nobody
  <2>1. /\ table' = [table EXCEPT ![m.key] = r]
        /\ rows' = [rows EXCEPT ![r] = NewRow(m.key, m.kind)]
    BY <1>4 DEF Execute, Insert, r, n
  <2>2. /\ rows'[r] = NewRow(m.key, m.kind) /\ \A x \in Callers \ {r} : rows'[x] = rows[x]
        /\ table'[m.key] = r /\ \A k \in Keys \ {m.key} : table'[k] = table[k]
    BY <1>1, <2>1
  <2>3. rows'[r].key = m.key /\ rows'[r].by = Nobody /\ rows'[r].hits = 0
    BY <2>2 DEF NewRow
  <2>4. ~Removes(r)'  BY <1>1, <1>2, <2>2, <2>3 DEF Removes
  <2>5. RowsOK'
    <3>1. \A x \in Callers : rows'[x].key = "none" => rows'[x].by = Nobody
      BY <1>1, <1>3, <2>2, <2>3
    <3>2. \A k \in Keys : table'[k] # Nobody =>
            rows'[table'[k]].key = k /\ rows'[table'[k]].by = Nobody
      BY <1>1, <1>2, <1>3, <2>2, <2>3
    <3>3. QED  BY <3>1, <3>2 DEF RowsOK
  <2>6. \A k \in Keys : table'[k] # Nobody =>
          IF table'[k] = table[k] THEN rows'[table[k]].hits = rows[table[k]].hits
          ELSE table'[k] = r
    BY <1>1, <1>2, <1>3, <1>4, <2>2 DEF n
  <2>7. QED  BY <1>1, <1>2, <1>4, <2>2, <2>3, <2>4, <2>5, <2>6 DEF r, n
<1>5. CASE m.type \in {"take", "delete"} /\ n # Nobody
  <2>1. /\ table' = [table EXCEPT ![m.key] = Nobody]
        /\ rows' = [rows EXCEPT ![n].by = r]
    BY <1>5 DEF Execute, Remove, r, n
  <2>2. /\ n \in Callers /\ rows[n] \in Row  BY <1>1, <1>5
  <2>3. /\ rows'[n].key = rows[n].key /\ rows'[n].kind = rows[n].kind
        /\ rows'[n].hits = rows[n].hits /\ rows'[n].by = r
    BY <1>1, <2>1, <2>2 DEF Row
  <2>4. /\ \A x \in Callers \ {n} : rows'[x] = rows[x]
        /\ table'[m.key] = Nobody /\ \A k \in Keys \ {m.key} : table'[k] = table[k]
    BY <1>1, <2>1
  <2>5. rows[n].key = m.key /\ rows[n].by = Nobody /\ n # r  BY <1>1, <1>2, <1>3, <1>5 DEF n
  <2>6. Removes(r)'  BY <2>2, <2>3 DEF Removes
  <2>7. RowsOK'
    <3>1. \A x \in Callers : rows'[x].key = "none" => rows'[x].by = Nobody
      BY <1>1, <1>3, <2>3, <2>4, <2>5
    <3>2. \A k \in Keys : table'[k] # Nobody =>
            rows'[table'[k]].key = k /\ rows'[table'[k]].by = Nobody
      BY <1>1, <1>3, <2>4, <2>5
    <3>3. QED  BY <3>1, <3>2 DEF RowsOK
  <2>8. \A k \in Keys : table'[k] # Nobody =>
          table'[k] = table[k] /\ rows'[table[k]].hits = rows[table[k]].hits
    BY <1>1, <1>3, <2>3, <2>4, <2>5
  <2>9. rows'[r].key = "none"  BY <1>1, <1>2, <2>4, <2>5
  <2>10. QED  BY <1>1, <1>2, <1>5, <2>3, <2>4, <2>5, <2>6, <2>7, <2>8, <2>9 DEF r, n
<1>6. CASE m.type = "count" /\ n # Nobody
  <2>1. UNCHANGED table /\ rows' = [rows EXCEPT ![n].hits = @ + 1]
    BY <1>6 DEF Execute, IncrementBy, n
  <2>2. n \in Callers /\ rows[n] \in Row  BY <1>1, <1>6
  <2>3. /\ rows'[n].key = rows[n].key /\ rows'[n].kind = rows[n].kind
        /\ rows'[n].hits = rows[n].hits + 1 /\ rows'[n].by = rows[n].by
    BY <1>1, <2>1, <2>2 DEF Row
  <2>4. \A x \in Callers \ {n} : rows'[x] = rows[x]  BY <1>1, <2>1
  <2>5. \A x \in Callers : rows'[x].key = rows[x].key /\ rows'[x].by = rows[x].by
    BY <2>3, <2>4
  <2>6. ~Removes(r)'  BY <1>2, <2>5 DEF Removes
  <2>7. RowsOK'  BY <1>3, <2>1, <2>5 DEF RowsOK
  <2>8. \A k \in Keys : table[k] # Nobody =>
          rows'[table[k]].hits = IF k = m.key THEN rows[table[k]].hits + 1 ELSE rows[table[k]].hits
    BY <1>1, <1>3, <1>6, <2>3, <2>4 DEF n
  <2>9. QED  BY <1>1, <1>2, <1>6, <2>1, <2>3, <2>4, <2>5, <2>6, <2>7, <2>8 DEF r, n
<1>7. CASE /\ UNCHANGED rows
           /\ \A k \in Keys : table'[k] # Nobody => table'[k] = table[k]
           /\ m.type \in {"insert", "take", "delete", "count", "get", "ping"}
           /\ m.type = "insert" => n # Nobody
           /\ m.type \in {"take", "delete", "count"} => n = Nobody
  <2>1. ~Removes(r)'  BY <1>2, <1>7 DEF Removes
  <2>2. RowsOK'  BY <1>3, <1>7 DEF RowsOK
  <2>3. QED  BY <1>1, <1>2, <1>7, <2>1, <2>2 DEF r, n
<1>8. QED
  <2>1. /\ n = Nobody => \A k \in Keys :
             [table EXCEPT ![m.key] = Nobody][k] # Nobody =>
               [table EXCEPT ![m.key] = Nobody][k] = table[k]
    BY <1>1
  <2>2. QED
    BY <1>4, <1>5, <1>6, <1>7, <2>1 DEF Execute, Insert, Remove, IncrementBy, n

\* The oldest command is executed.
LEMMA TrulyHandles ==
  ASSUME IInv, Rest, Truth, IInv', Handle, UNCHANGED <<httpVars, handlers>>
  PROVE  Truth'
<1>0. PICK m, r : m = Head(mail) /\ r = m.from  OBVIOUS
<1>1. /\ running /\ UNCHANGED running /\ mail # <<>> /\ mail' = Tail(mail) /\ Execute(m)
      /\ reply' = [reply EXCEPT ![r] = IF @ = "waiting" THEN table[m.key] ELSE @]
      /\ UNCHANGED <<stage, at, status, before, service, ask, doing, found>>
  BY <1>0 DEF Handle, httpVars, handlers
<1>2. /\ Len(mail) \in Nat /\ Len(mail') \in Nat /\ 1 \in 1..Len(mail) /\ m = mail[1]
      /\ \A i \in 1..Len(mail') : i + 1 \in 1..Len(mail) /\ mail'[i] = mail[i + 1]
      /\ \A i \in 1..Len(mail) : i = 1 \/ (i - 1 \in 1..Len(mail') /\ mail'[i - 1] = mail[i])
      /\ m \in Command
  <2>1. mail \in Seq(Command)  BY DEF IInv, Types, StoreTypeOK
  <2>2. QED  BY <1>0, <1>1, <2>1, LenProperties, HeadTailProperties
<1>3. /\ r \in Requests /\ m.type = doing[r] /\ m.key = ask[r].key
      /\ reply[r] = "waiting" \/ CutOff(r)
      /\ NoEffect(r)
      /\ \A j \in 1..Len(mail) : mail[j].from = r => j = 1
  BY <1>0, <1>2 DEF Truth, MailOK
<1>4. InMail(r) /\ ~InMail(r)'
  <2>1. InMail(r)  BY <1>0, <1>2 DEF InMail
  <2>2. ASSUME NEW i \in 1..Len(mail'), mail'[i].from = r PROVE FALSE
    <3>1. i + 1 = 1  BY <1>2, <1>3, <2>2
    <3>2. QED  BY <1>2, <3>1, <2>2
  <2>3. QED  BY <2>1, <2>2 DEF InMail
<1>5. \A q \in Requests \ {r} : InMail(q)' <=> InMail(q)
  <2> TAKE q \in Requests \ {r}
  <2>1. ASSUME NEW i \in 1..Len(mail), mail[i].from = q PROVE InMail(q)'
    <3>1. i # 1  BY <1>0, <1>2, <2>1
    <3>2. i - 1 \in 1..Len(mail') /\ mail'[i - 1] = mail[i]  BY <1>2, <3>1
    <3>3. QED  BY <2>1, <3>2 DEF InMail
  <2>2. ASSUME NEW i \in 1..Len(mail'), mail'[i].from = q PROVE InMail(q)
    BY <1>2, <2>2 DEF InMail
  <2>3. QED  BY <2>1, <2>2 DEF InMail
<1>6. /\ \A x \in Callers : rows[x].key # "none" =>
           rows'[x].key = rows[x].key /\ rows'[x].kind = rows[x].kind
      /\ \A x \in Callers \ {r} : rows'[x].key = rows[x].key
      /\ \A x \in Callers : \/ rows'[x].by = rows[x].by
                            \/ rows[x].by = Nobody /\ rows'[x].by = r
      /\ rows'[r].key # "none" <=> m.type = "insert" /\ table[m.key] = Nobody
      /\ Removes(r)' <=> m.type \in {"take", "delete"} /\ table[m.key] # Nobody
      /\ m.type \in {"take", "delete"} /\ table[m.key] # Nobody =>
           rows'[table[m.key]].by = r
      /\ RowsOK'
      /\ \A k \in Keys : table'[k] # Nobody =>
           IF table'[k] = table[k]
           THEN rows'[table[k]].hits = IF m.type = "count" /\ k = m.key
                                       THEN rows[table[k]].hits + 1 ELSE rows[table[k]].hits
           ELSE m.type = "insert" /\ table'[k] = r /\ rows'[r].hits = 0
  BY <1>0, <1>1, <1>2, <1>3, Effects DEF Truth
<1>7. /\ m.type \in CommandTypes /\ m.key \in Keys
      /\ table[m.key] \in Callers \cup {Nobody}
      /\ table[m.key] # Nobody => rows[table[m.key]].key # "none"
      /\ r \in Callers
  BY <1>2, <1>3, Replies DEF Command, IInv, Types, StoreTypeOK, Truth, RowsOK
<1>8. \A q \in Requests \ {r} : (Removes(q)' <=> Removes(q)) /\ (NoEffect(q)' <=> NoEffect(q))
  <2> TAKE q \in Requests \ {r}
  <2>1. q \in Callers /\ q # Nobody  BY Replies
  <2>2. Removes(q)' <=> Removes(q)  BY <1>6, <2>1 DEF Removes
  <2>3. QED  BY <1>6, <2>1, <2>2 DEF NoEffect
<1>9. /\ \A q \in Requests \ {r} : reply'[q] = reply[q]
      /\ reply'[r] = IF reply[r] = "waiting" THEN table[m.key] ELSE reply[r]
  BY <1>1, <1>7, Replies DEF IInv, Types, StoreTypeOK
<1>10. MailOK'
  <2> SUFFICES ASSUME NEW i \in 1..Len(mail'), NEW q, q = mail'[i].from
               PROVE  /\ q \in Requests /\ mail'[i].type = doing[q] /\ mail'[i].key = ask[q].key
                      /\ reply'[q] = "waiting" \/ CutOff(q)
                      /\ NoEffect(q)'
                      /\ \A j \in 1..Len(mail') : mail'[j].from = q => j = i
    BY <1>1 DEF MailOK, CutOff, Ended
  <2>1. i + 1 \in 1..Len(mail) /\ mail'[i] = mail[i + 1]  BY <1>2
  <2>2. /\ q \in Requests /\ mail'[i].type = doing[q] /\ mail'[i].key = ask[q].key
        /\ reply[q] = "waiting" \/ CutOff(q)
        /\ NoEffect(q)
        /\ \A j \in 1..Len(mail) : mail[j].from = q => j = i + 1
    BY <2>1 DEF Truth, MailOK
  <2>3. q # r
    <3>1. q = r => i + 1 = 1  BY <1>3, <2>1
    <3>2. QED  BY <1>2, <3>1
  <2>4. \A j \in 1..Len(mail') : mail'[j].from = q => j = i
    <3> TAKE j \in 1..Len(mail')
    <3>1. j + 1 \in 1..Len(mail) /\ mail'[j] = mail[j + 1]  BY <1>2
    <3>2. mail'[j].from = q => j + 1 = i + 1  BY <2>2, <3>1
    <3>3. QED  BY <1>2, <3>2
  <2>5. QED  BY <1>8, <1>9, <2>2, <2>3, <2>4
<1>11. \A q \in Requests \ {r} : Local(q)'
  <2> TAKE q \in Requests \ {r}
  <2>1. Local(q)  BY DEF Truth
  <2>2. q \in Callers /\ q # Nobody  BY Replies
  <2>3. /\ stage'[q] = stage[q] /\ at'[q] = at[q] /\ status'[q] = status[q]
        /\ doing'[q] = doing[q] /\ found'[q] = found[q] /\ reply'[q] = reply[q]
    BY <1>1, <1>9
  <2>4. found[q] \in Callers \cup {Nobody}  BY DEF Rest
  <2>5. /\ rows'[q].key = rows[q].key
        /\ Removes(q)' <=> Removes(q)
        /\ NoEffect(q)' <=> NoEffect(q)
    BY <1>6, <1>8, <2>2
  <2>6. found[q] # Nobody =>
          /\ rows'[found[q]].key # "none" /\ rows'[found[q]].kind = rows[found[q]].kind
          /\ rows[found[q]].by = q => rows'[found[q]].by = q
    BY <1>6, <2>1, <2>2, <2>4 DEF Local
  <2>7. InHandler(q) => InHandler(q)'
    <3> SUFFICES ASSUME InHandler(q) PROVE InHandler(q)'  OBVIOUS
    <3>1. reply[q] \in Callers =>
            /\ rows'[reply[q]].key # "none"
            /\ doing[q] \in {"take", "delete"} => rows'[reply[q]].by = q
      BY <1>6, <2>2 DEF InHandler
    <3>2. doing[q] = "count" => found[q] \in Callers /\ rows'[found[q]].kind # "oneShot"
      BY <2>6, Replies DEF InHandler
    <3>3. QED  BY <2>3, <2>5, <3>1, <3>2 DEF InHandler
  <2>8. Truthful(q) => Truthful(q)'
    BY <2>3, <2>5, <2>6, Replies DEF Truthful
  <2>9. Answered(q)' <=> Answered(q)  BY <2>3 DEF Answered, CutOff, Ended
  <2>10. EndpointsOf(service)' = EndpointsOf(service)  BY <1>1 DEF EndpointsOf
  <2>11. QED  BY <2>1, <2>3, <2>5, <2>6, <2>7, <2>8, <2>9, <2>10 DEF Local
<1>12. Local(r)'
  <2>1. Local(r)  BY <1>3 DEF Truth
  <2>2. found[r] \in Callers \cup {Nobody}  BY <1>3 DEF Rest
  <2>3. found[r] # Nobody =>
          rows'[found[r]].key # "none" /\ rows'[found[r]].kind = rows[found[r]].kind
    BY <1>6, <2>1, <2>2 DEF Local
  <2>4. EndpointsOf(service)' = EndpointsOf(service)  BY <1>1 DEF EndpointsOf
  <2>5. doing[r] # "none"  BY <1>3, <1>7 DEF CommandTypes
  <2>6. CASE CutOff(r)
    <3>1. stage[r] = "ended" /\ reply[r] = "none"  BY <2>1, <2>6 DEF CutOff, Ended, Local
    <3>2. reply'[r] = "none"  BY <1>9, <3>1
    <3>3. ~Answered(r)'  BY <1>1, <2>6 DEF Answered, CutOff, Ended
    <3>4. QED  BY <1>1, <2>1, <2>3, <2>4, <3>1, <3>2, <3>3 DEF Local
  <2>7. CASE reply[r] = "waiting"
    <3>1. stage[r] = "running" /\ InHandler(r)  BY <2>1, <2>5, <2>7, Replies DEF Local
    <3>2. reply'[r] = table[m.key]  BY <1>9, <2>7
    <3>3. InHandler(r)'
      <4>1. doing'[r] \in AwaitsOf(at'[r])  BY <1>1, <3>1 DEF InHandler
      <4>2. reply'[r] # "none" /\ doing'[r] # "body"
        BY <1>1, <1>3, <1>7, <3>2, Replies DEF CommandTypes
      <4>3. rows'[r].key # "none" <=> doing'[r] = "insert" /\ reply'[r] = Nobody
        BY <1>1, <1>3, <1>6, <3>2
      <4>4. Removes(r)' <=> doing'[r] \in {"take", "delete"} /\ reply'[r] \in Callers
        BY <1>1, <1>3, <1>6, <1>7, <3>2, Replies
      <4>5. reply'[r] \in Callers =>
              /\ rows'[reply'[r]].key # "none"
              /\ doing'[r] \in {"take", "delete"} => rows'[reply'[r]].by = r
        BY <1>1, <1>3, <1>6, <1>7, <3>2, Replies
      <4>6. doing'[r] = "count" => found'[r] \in Callers /\ rows'[found'[r]].kind # "oneShot"
        BY <1>1, <2>3, <3>1, Replies DEF InHandler
      <4>7. QED  BY <4>1, <4>2, <4>3, <4>4, <4>5, <4>6 DEF InHandler
    <3>4. ~Answered(r)'  BY <1>1, <3>1 DEF Answered, Ended
    <3>5. QED  BY <1>1, <2>1, <2>3, <2>4, <3>1, <3>3, <3>4 DEF Local
  <2>8. QED  BY <1>3, <2>6, <2>7
<1>13. HitsOK'
  <2> SUFFICES ASSUME NEW k \in Keys, table'[k] # Nobody
               PROVE  /\ rows'[table'[k]].hits <= Cardinality(Counted(k)')
                      /\ running' => Cardinality(CountedAt(k)') <= rows'[table'[k]].hits
    BY DEF HitsOK
  <2>1. /\ IsFiniteSet(Counted(k)) /\ Cardinality(Counted(k)) \in Nat
        /\ CountedAt(k) \subseteq Counted(k)
    BY FiniteCounts DEF Truth, CountedAt
  <2>2. IsFiniteSet(CountedAt(k)) /\ Cardinality(CountedAt(k)) \in Nat
    BY <2>1, FS_Subset, FS_CardinalityType
  <2>3. r \notin Counted(k)  BY <1>4 DEF Counted
  <2>4. CASE table'[k] = table[k] /\ m.type = "count" /\ k = m.key
    <3>1. /\ rows[table[k]].hits <= Cardinality(Counted(k))
          /\ Cardinality(CountedAt(k)) <= rows[table[k]].hits
          /\ rows'[table'[k]].hits = rows[table[k]].hits + 1
      BY <1>1, <1>6, <2>4 DEF Truth, HitsOK
    <3>2. rows[table[k]].hits \in Nat
      <4>1. table[k] \in Callers  BY <2>4 DEF IInv, Types, StoreTypeOK
      <4>2. rows[table[k]] \in Row  BY <4>1 DEF IInv, Types, StoreTypeOK
      <4>3. QED  BY <4>2 DEF Row
    <3>3. Counted(k)' = Counted(k) \cup {r}
      BY <1>1, <1>3, <1>4, <1>5, <2>4 DEF Counted
    <3>4. Cardinality(Counted(k)') = Cardinality(Counted(k)) + 1
      BY <2>1, <2>3, <3>3, FS_AddElement
    <3>5. CountedAt(k)' \subseteq CountedAt(k) \cup {r}
      BY <1>1, <2>4, <3>3 DEF CountedAt
    <3>6. /\ IsFiniteSet(CountedAt(k) \cup {r})
          /\ Cardinality(CountedAt(k) \cup {r}) = Cardinality(CountedAt(k)) + 1
      BY <2>1, <2>2, <2>3, FS_AddElement
    <3>7. /\ Cardinality(CountedAt(k)') \in Nat
          /\ Cardinality(CountedAt(k)') <= Cardinality(CountedAt(k)) + 1
      BY <3>5, <3>6, FS_Subset, FS_CardinalityType
    <3>8. QED  BY <2>1, <2>2, <3>1, <3>2, <3>4, <3>7
  <2>5. CASE ~(m.type = "count" /\ k = m.key)
    <3>1. Counted(k)' = Counted(k)
      BY <1>1, <1>3, <1>4, <1>5, <2>5 DEF Counted
    <3>2. CASE table'[k] = table[k]
      <4>1. rows'[table'[k]].hits = rows[table[k]].hits  BY <1>6, <2>5, <3>2
      <4>2. CountedAt(k)' = CountedAt(k)  BY <1>1, <3>1, <3>2 DEF CountedAt
      <4>3. QED  BY <1>1, <3>1, <3>2, <4>1, <4>2 DEF Truth, HitsOK
    <3>3. CASE table'[k] # table[k]
      <4>1. table'[k] = r /\ rows'[r].hits = 0  BY <1>6, <3>3
      <4>2. r # Nobody /\ rows[r].key = "none"  BY <1>3, <1>7, Replies DEF NoEffect
      <4>3. \A q \in Requests : found[q] # r  BY <4>2 DEF Truth, Local
      <4>4. CountedAt(k)' = {}  BY <1>1, <3>1, <4>1, <4>3 DEF CountedAt, Counted
      <4>5. QED  BY <2>1, <3>1, <4>1, <4>4, FS_EmptySet
    <3>4. QED  BY <3>2, <3>3
  <2>6. table'[k] = table[k] \/ m.type = "insert"  BY <1>6
  <2>7. QED  BY <2>4, <2>5, <2>6
<1>14. Came' = Came  BY <1>1 DEF Came
<1>15. \A q \in Requests : Local(q)'  BY <1>11, <1>12
<1>16. QED  BY <1>6, <1>10, <1>13, <1>14, <1>15 DEF Truth

\* A row's lifetime ends, or nothing happens at all.
LEMMA TrulyStands ==
  ASSUME IInv, Rest, Truth, UNCHANGED <<httpVars, handlers, table, mail, running, reply>>,
         \A x \in Callers : /\ rows'[x].key = rows[x].key /\ rows'[x].kind = rows[x].kind
                            /\ rows'[x].by = rows[x].by /\ rows'[x].hits = rows[x].hits
  PROVE  Truth'
<1>1. UNCHANGED <<stage, at, status, service, ask, doing, found, table, mail, running, reply>>
  BY DEF httpVars, handlers
<1>2. \A k \in Keys : table[k] \in Callers \cup {Nobody}  BY DEF IInv, Types, StoreTypeOK
<1>3. \A q \in Requests : Removes(q)' <=> Removes(q)  BY DEF Removes
<1>4. \A q \in Requests : NoEffect(q)' <=> NoEffect(q)  BY <1>3, Replies DEF NoEffect
<1>5. RowsOK'  BY <1>1, <1>2 DEF Truth, RowsOK
<1>6. \A q \in Requests : InMail(q)' <=> InMail(q)  BY <1>1 DEF InMail
<1>7. MailOK'
  <2> SUFFICES ASSUME NEW i \in 1..Len(mail), NEW q, q = mail[i].from
               PROVE  /\ q \in Requests /\ mail[i].type = doing[q] /\ mail[i].key = ask[q].key
                      /\ reply[q] = "waiting" \/ CutOff(q)
                      /\ NoEffect(q)'
                      /\ \A j \in 1..Len(mail) : mail[j].from = q => j = i
    BY <1>1 DEF MailOK, CutOff, Ended
  <2>1. QED  BY <1>4 DEF Truth, MailOK
<1>8. HitsOK'
  <2>1. \A k : Counted(k)' = Counted(k)  BY <1>1, <1>6 DEF Counted
  <2>2. \A k : CountedAt(k)' = CountedAt(k)  BY <1>1, <2>1 DEF CountedAt
  <2>3. \A k \in Keys : table[k] # Nobody => rows'[table[k]].hits = rows[table[k]].hits
    BY <1>2
  <2>4. QED  BY <1>1, <2>1, <2>2, <2>3 DEF Truth, HitsOK
<1>9. ASSUME NEW q \in Requests PROVE Local(q)'
  <2>1. Local(q)  BY DEF Truth
  <2>2. found[q] \in Callers \cup {Nobody} /\ q \in Callers  BY Replies DEF Rest
  <2>3. found[q] # Nobody => /\ rows'[found[q]].key = rows[found[q]].key
                             /\ rows'[found[q]].kind = rows[found[q]].kind
                             /\ rows'[found[q]].by = rows[found[q]].by
    BY <2>2
  <2>4. rows'[q].key = rows[q].key  BY <2>2
  <2>5. InHandler(q) => InHandler(q)'
    BY <1>1, <1>3, <2>3, <2>4, Replies DEF InHandler
  <2>6. Truthful(q) => Truthful(q)'  BY <1>1, <1>3, <2>3, <2>4, Replies DEF Truthful
  <2>7. Answered(q)' <=> Answered(q)  BY <1>1 DEF Answered, CutOff, Ended
  <2>8. EndpointsOf(service)' = EndpointsOf(service)  BY <1>1 DEF EndpointsOf
  <2>9. QED  BY <1>1, <1>4, <2>1, <2>3, <2>5, <2>6, <2>7, <2>8 DEF Local
<1>10. Came' = Came  BY <1>1 DEF Came
<1>11. QED  BY <1>5, <1>7, <1>8, <1>9, <1>10 DEF Truth

\* The runtime drops the task: those who waited are told.
LEMMA TrulyStops ==
  ASSUME IInv, Rest, Truth, IInv', StopTask, UNCHANGED <<httpVars, handlers>>
  PROVE  Truth'
<1>1. /\ UNCHANGED <<stage, at, status, service, ask, doing, found, table, rows>>
      /\ ~running' /\ mail' = <<>>
      /\ \A q \in Callers : reply'[q] = IF reply[q] = "waiting" THEN "stopped" ELSE reply[q]
  BY DEF StopTask, httpVars, handlers
<1>2. RowsOK'  BY <1>1 DEF Truth, RowsOK
<1>3. 1..Len(mail') = {}  BY <1>1
<1>4. MailOK' /\ \A q : ~InMail(q)'  BY <1>3 DEF MailOK, InMail
<1>5. HitsOK'
  <2> SUFFICES ASSUME NEW k \in Keys, table[k] # Nobody
               PROVE  rows[table[k]].hits <= Cardinality(Counted(k)')
    BY <1>1 DEF HitsOK
  <2>1. rows[table[k]].hits <= Cardinality(Counted(k))  BY DEF Truth, HitsOK
  <2>2. rows[table[k]].hits \in Nat
    <3>1. table[k] \in Callers  BY DEF IInv, Types, StoreTypeOK
    <3>2. rows[table[k]] \in Row  BY <3>1 DEF IInv, Types, StoreTypeOK
    <3>3. QED  BY <3>2 DEF Row
  <2>3. Counted(k) \subseteq Counted(k)'  BY <1>1, <1>4 DEF Counted
  <2>4. IsFiniteSet(Counted(k)') /\ Cardinality(Counted(k)') \in Nat
    <3>1. Came' = Came  BY <1>1 DEF Came
    <3>2. Counted(k)' \subseteq Came
      <4> SUFFICES ASSUME NEW q \in Requests, doing[q] = "count", stage[q] = "new" PROVE FALSE
        BY <1>1 DEF Counted, Came
      <4>1. QED  BY DEF IInv, Idleness
    <3>3. QED  BY <3>2, FS_Subset, FS_CardinalityType DEF Truth
  <2>5. Cardinality(Counted(k)) \in Nat /\ Cardinality(Counted(k)) <= Cardinality(Counted(k)')
    BY <2>3, <2>4, FS_Subset, FS_CardinalityType
  <2>6. QED  BY <2>1, <2>2, <2>4, <2>5
<1>6. ASSUME NEW q \in Requests PROVE Local(q)'
  <2>1. Local(q) /\ q \in Callers  BY Replies DEF Truth
  <2>2. Removes(q)' <=> Removes(q)  BY <1>1 DEF Removes
  <2>3. NoEffect(q)' <=> NoEffect(q)  BY <1>1, <2>2 DEF NoEffect
  <2>4. reply'[q] = IF reply[q] = "waiting" THEN "stopped" ELSE reply[q]  BY <1>1, <2>1
  <2>5. /\ reply'[q] = "none" <=> reply[q] = "none"
        /\ reply'[q] = Nobody <=> reply[q] = Nobody
        /\ reply'[q] \in Callers <=> reply[q] \in Callers
        /\ reply'[q] \in Callers => reply'[q] = reply[q]
    BY <2>4, Replies
  <2>6. InHandler(q) => InHandler(q)'  BY <1>1, <2>2, <2>5 DEF InHandler
  <2>7. Truthful(q) => Truthful(q)'  BY <1>1, <2>2 DEF Truthful
  <2>8. Answered(q)' <=> Answered(q)  BY <1>1 DEF Answered, CutOff, Ended
  <2>9. EndpointsOf(service)' = EndpointsOf(service)  BY <1>1 DEF EndpointsOf
  <2>10. QED  BY <1>1, <2>1, <2>3, <2>5, <2>6, <2>7, <2>8, <2>9 DEF Local
<1>7. Came' = Came  BY <1>1 DEF Came
<1>8. QED  BY <1>2, <1>4, <1>5, <1>6, <1>7 DEF Truth

\* Initially nobody has come.
LEMMA InitTruth == Init => Truth
<1> SUFFICES ASSUME Init PROVE Truth  OBVIOUS
<1>1. /\ stage = [q \in Requests |-> "new"] /\ doing = [q \in Requests |-> "none"]
      /\ found = [q \in Requests |-> Nobody] /\ mail = <<>>
      /\ reply = [q \in Callers |-> "none"]
  BY DEF Init, HttpInit, StoreInit
<1>2. Init => IInv  BY InitIInv
<1>3. /\ \A x \in Callers : rows[x].by = Nobody /\ rows[x].hits = 0
      /\ \A x \in Requests : rows[x].key = "none"
      /\ \A k \in Keys : table[k] # Nobody => rows[table[k]].key = k /\ table[k] \in Callers
  <2>1. /\ \A key, kind : NewRow(key, kind).by = Nobody /\ NewRow(key, kind).hits = 0
                          /\ NewRow(key, kind).key = key
        /\ NoRow.by = Nobody /\ NoRow.hits = 0 /\ NoRow.key = "none"
    BY DEF NewRow, NoRow
  <2>2. Requests = Callers \ Earlier /\ Earlier \subseteq Callers
    BY MemoryStoreAssumption, WebServiceAssumption
  <2>3. CASE table = [k \in Keys |-> Nobody] /\ rows = [q \in Callers |-> NoRow]
    BY <2>1, <2>2, <2>3
  <2>4. ASSUME NEW old \in Earlier, NEW key \in Keys, NEW kind \in KindsOf(service),
               table = [j \in Keys |-> IF j = key THEN old ELSE Nobody],
               rows = [q \in Callers |-> IF q = old THEN NewRow(key, kind) ELSE NoRow]
        PROVE  /\ \A x \in Callers : rows[x].by = Nobody /\ rows[x].hits = 0
               /\ \A x \in Requests : rows[x].key = "none"
               /\ \A k \in Keys : table[k] # Nobody =>
                    rows[table[k]].key = k /\ table[k] \in Callers
    BY <2>1, <2>2, <2>4
  <2>5. StoreInit(KindsOf(service))  BY DEF Init
  <2>6. QED  BY <2>3, <2>4, <2>5 DEF StoreInit
<1>4. RowsOK  BY <1>3 DEF RowsOK
<1>5. 1..Len(mail) = {}  BY <1>1
<1>6. MailOK  BY <1>5 DEF MailOK
<1>7. \A k : Counted(k) = {} /\ CountedAt(k) = {}
  BY <1>1 DEF Counted, CountedAt
<1>8. HitsOK
  <2>1. \A k \in Keys : table[k] # Nobody => rows[table[k]].hits = 0  BY <1>3
  <2>2. QED  BY <1>7, <2>1, FS_EmptySet DEF HitsOK
<1>9. IsFiniteSet(Came)
  <2>1. Came = {}  BY <1>1 DEF Came
  <2>2. QED  BY <2>1, FS_EmptySet
<1>10. ASSUME NEW q \in Requests PROVE Local(q)
  <2>1. q \in Callers /\ q # Nobody  BY Replies
  <2>2. NoEffect(q)  BY <1>3, <2>1 DEF NoEffect, Removes
  <2>3. ~Answered(q)  BY <1>1 DEF Answered, Ended
  <2>4. QED  BY <1>1, <2>1, <2>2, <2>3 DEF Local
<1>11. QED  BY <1>4, <1>6, <1>8, <1>9, <1>10 DEF Truth

LEMMA TruthStep == IInv /\ Rest /\ Truth /\ IInv' /\ [Next]_webVars => Truth'
<1> SUFFICES ASSUME IInv, Rest, Truth, IInv', [Next]_webVars PROVE Truth'
  OBVIOUS
<1>1. ASSUME NEW r \in Requests, RequestStep(r) PROVE Truth'
  BY <1>1, TrulyComes, TrulyBegins, TrulyCreates, TrulyReads, TrulyPurges, TrulyTakes,
     TrulyCounts, TrulyDeletes, TrulyReady, TrulyCutOff DEF RequestStep
<1>2. CASE StoreStep
  <2>1. UNCHANGED <<httpVars, handlers>>  BY <1>2 DEF StoreStep
  <2>2. CASE Handle  BY <2>1, <2>2, TrulyHandles
  <2>3. CASE StopTask  BY <2>1, <2>3, TrulyStops
  <2>4. ASSUME NEW n \in Callers, Expire(n) PROVE Truth'
    <3>1. UNCHANGED <<table, mail, running, reply>>  BY <2>4 DEF Expire
    <3>2. \A x \in Callers : /\ rows'[x].key = rows[x].key /\ rows'[x].kind = rows[x].kind
                             /\ rows'[x].by = rows[x].by /\ rows'[x].hits = rows[x].hits
      <4>1. rows \in [Callers -> Row] /\ rows' = [rows EXCEPT ![n].expired = TRUE]
        BY <2>4 DEF Expire, IInv, Types, StoreTypeOK
      <4>2. \A x \in Callers \ {n} : rows'[x] = rows[x]  BY <4>1
      <4>3. /\ rows'[n].key = rows[n].key /\ rows'[n].kind = rows[n].kind
            /\ rows'[n].by = rows[n].by /\ rows'[n].hits = rows[n].hits
        BY <4>1 DEF Row
      <4>4. QED  BY <4>2, <4>3
    <3>3. QED  BY <2>1, <3>1, <3>2, TrulyStands
  <2>5. QED  BY <1>2, <2>2, <2>3, <2>4 DEF StoreStep
<1>3. CASE UNCHANGED webVars
  <2>1. UNCHANGED <<httpVars, handlers, table, rows, mail, running, reply>>
    BY <1>3 DEF webVars, storeVars
  <2>2. QED  BY <2>1, TrulyStands
<1>4. QED  BY <1>1, <1>2, <1>3 DEF Next

\* Whatever a request knows of its commands, from the one it sends to the status it is
\* answered with: the invariant every step keeps.
THEOREM TruthInductive == Spec => [](IInv /\ Rest /\ Truth)
BY InitIInv, IInvStep, InitRest, RestStep, InitTruth, TruthStep, PTL DEF Spec

\* What a response says is so: 201 if and only if the row was stored, 204 if and only if a
\* row was removed, and a one-shot paste is served only by the fetch that took it, for
\* every interleaving of handlers, timeouts, clients that leave and the repository.
THEOREM ResponsesAreTruthful == Spec => []TruthfulStatus
<1>1. IInv /\ Rest /\ Truth => TruthfulStatus
  <2> SUFFICES ASSUME IInv, Rest, Truth, NEW r \in Requests, Answered(r)
               PROVE  /\ at[r] = "create" => (status[r] = 201 <=> rows[r].key # "none")
                      /\ at[r] = "delete" => (status[r] = 204 <=> Removes(r))
                      /\ status[r] = 200 /\ at[r] \in {"fetch", "raw"}
                           /\ rows[found[r]].kind = "oneShot" => rows[found[r]].by = r
    BY DEF TruthfulStatus, Removes
  <2>1. Truthful(r)  BY DEF Truth, Local
  <2>2. QED  BY <2>1 DEF Truthful
<1>2. QED  BY <1>1, TruthInductive, PTL

\* The immediate recorder is exact: a stored row has counted every request that was
\* answered from it, and no more than those that got as far as counting its key.
THEOREM CountsAreExact == Spec => []ExactCounts
<1>1. IInv /\ Rest /\ Truth => ExactCounts
  <2> SUFFICES ASSUME IInv, Rest, Truth, NEW k \in Keys, running, table[k] # Nobody,
                      NEW counts, counts = {r \in Requests : doing[r] = "count" /\ ask[r].key = k}
               PROVE  /\ Cardinality({r \in counts : Answered(r) /\ found[r] = table[k]})
                           <= rows[table[k]].hits
                      /\ rows[table[k]].hits <= Cardinality(counts)
    BY DEF ExactCounts
  <2> DEFINE served == {r \in counts : Answered(r) /\ found[r] = table[k]}
  <2>1. /\ rows[table[k]].hits <= Cardinality(Counted(k))
        /\ Cardinality(CountedAt(k)) <= rows[table[k]].hits
    BY DEF Truth, HitsOK
  <2>2. rows[table[k]].hits \in Nat
    <3>1. table[k] \in Callers  BY DEF IInv, Types, StoreTypeOK
    <3>2. rows[table[k]] \in Row  BY <3>1 DEF IInv, Types, StoreTypeOK
    <3>3. QED  BY <3>2 DEF Row
  <2>3. IsFiniteSet(counts)
    <3>1. counts \subseteq Came
      <4> SUFFICES ASSUME NEW r \in Requests, doing[r] = "count", stage[r] = "new" PROVE FALSE
        BY DEF Came
      <4>1. QED  BY DEF IInv, Idleness
    <3>2. QED  BY <3>1, FS_Subset DEF Truth
  <2>4. Counted(k) \subseteq counts /\ CountedAt(k) \subseteq counts
    BY DEF Counted, CountedAt
  <2>5. served \subseteq CountedAt(k)
    <3> SUFFICES ASSUME NEW r \in Requests, r \in served PROVE r \in CountedAt(k)
      OBVIOUS
    <3>1. reply[r] = "none" /\ ~CutOff(r)  BY DEF Truth, Local, Answered, Ended
    <3>2. ~InMail(r)  BY <3>1, NothingSent DEF Truth
    <3>3. QED  BY <3>2 DEF Counted, CountedAt
  <2>6. IsFiniteSet(CountedAt(k))  BY <2>3, <2>4, FS_Subset
  <2>7. /\ Cardinality(counts) \in Nat /\ Cardinality(Counted(k)) \in Nat
        /\ Cardinality(Counted(k)) <= Cardinality(counts)
    BY <2>3, <2>4, FS_Subset, FS_CardinalityType
  <2>8. /\ Cardinality(CountedAt(k)) \in Nat /\ Cardinality(served) \in Nat
        /\ Cardinality(served) <= Cardinality(CountedAt(k))
    BY <2>5, <2>6, FS_Subset, FS_CardinalityType
  <2>9. QED  BY <2>1, <2>2, <2>7, <2>8
<1>2. QED  BY <1>1, TruthInductive, PTL
==============================================================================
