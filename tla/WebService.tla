------------------------------ MODULE WebService ------------------------------
(****************************************************************************)
(* Both services as build_app makes them (lib.rs): the router of api/mod.rs *)
(* with its layers, the handlers and the use cases they call, the immediate *)
(* recorder, no cache, and the in-memory repository.                        *)
(*                                                                          *)
(* An action of a handler is its code between two awaits.  Whatever it      *)
(* awaits is the reply of the repository, so that is where it can be cut    *)
(* off: by its timeout, or because its client left.                         *)
(****************************************************************************)
EXTENDS MemoryStore, HttpLayer

CONSTANTS
  Attempts  \* MAX_GENERATION_ATTEMPTS

ASSUME WebServiceAssumption ==
  /\ Requests = Callers \ Earlier /\ Attempts \in Nat \ {0}
  /\ "refused" \notin Keys /\ {"plain", "unfit", "oneShot"} \subseteq Kinds
  /\ {"create", "get", "redirect", "fetch", "raw", "delete", "ready"} \subseteq Endpoints

VARIABLES
  service,  \* which of the two services this is
  ask,      \* what a request asks for
  doing,    \* the command its handler waits for, or waited for last
  found     \* the row its handler is about to serve, or served

handlers == <<service, ask, doing, found>>
webVars == <<storeVars, httpVars, handlers>>

Links == "links"
Pastes == "pastes"

\* Endpoints that touch the repository.  The others answer from constants or counters.
EndpointsOf(s) ==
  {"create", "delete", "ready"} \cup (IF s = Links THEN {"get", "redirect"} ELSE {"fetch", "raw"})
Reads == {"get", "redirect", "fetch", "raw"}

\* What a create stores: a link whose target a header cannot take, a one-shot paste, or
\* neither.  What it carries besides does not matter, unless it is refused.
KindsOf(s) == {"plain", IF s = Links THEN "unfit" ELSE "oneShot"}

NoAsk == [key |-> "none", kind |-> "none", tries |-> 0]
Ask == [key : Keys \cup {"none", "refused"},
        kind : Kinds \cup {"none", "Validation", "Blocked", "NotFound"}, tries : Nat]

\* From<ServiceError> for AppError, and the status of an AppError.
AppErrorOf == [Validation |-> "Validation", Blocked |-> "Validation", NotFound |-> "NotFound",
               Conflict |-> "Conflict", Backend |-> "Internal"]
StatusOf == [Validation |-> 400, NotFound |-> 404, Conflict |-> 409, Internal |-> 500]
ErrorStatus(e) == StatusOf[AppErrorOf[e]]

\* Why a request can be refused on its own: a bad body, URL or content; a blocked host;
\* a malformed code or id, which no row can have.
Refusals(e) ==
  CASE e = "create" -> {"Validation"} \cup (IF service = Links THEN {"Blocked"} ELSE {})
    [] e = "ready" -> {}
    [] OTHER -> {"NotFound"}

Init ==
  /\ service \in {Links, Pastes}
  /\ StoreInit(KindsOf(service)) /\ HttpInit
  /\ ask = [r \in Requests |-> NoAsk]
  /\ doing = [r \in Requests |-> "none"]
  /\ found = [r \in Requests |-> Nobody]

------------------------------------------------------------------------------
\* A request comes in, to be refused or not.  A create tries an alias once, a generated key
\* Attempts times.
Come(r) ==
  \E e \in EndpointsOf(service) :
    /\ Arrive(r, e)
    /\ \/ \E why \in Refusals(e) :
            ask' = [ask EXCEPT ![r] = [key |-> "refused", kind |-> why, tries |-> 0]]
       \/ \E k \in Keys,
             kind \in IF e = "create" THEN KindsOf(service) ELSE {"plain"},
             tries \in IF e = "create" /\ service = Links THEN {1, Attempts} ELSE {Attempts} :
            ask' = [ask EXCEPT ![r] = [key |-> k, kind |-> kind, tries |-> tries]]
    /\ UNCHANGED <<storeVars, service, doing, found>>

\* The first command of a handler.
FirstOf(e) ==
  CASE e = "delete" -> "delete"
    [] e = "ready" -> "ping"
    [] OTHER -> "get"

\* The handler sends a command and awaits the reply.
Call(r, type, key) ==
  /\ Send(r, type, key, ask[r].kind)
  /\ doing' = [doing EXCEPT ![r] = type]

Refused(r) == ask[r].key = "refused"

\* The permit is there: the handler is called.  A create first awaits its body.
Begin(r) ==
  /\ stage[r] = "queued"
  /\ \/ /\ at[r] = "create"
        /\ Admit(at[r], r)
        /\ doing' = [doing EXCEPT ![r] = "body"]
        /\ UNCHANGED storeVars
     \/ /\ at[r] # "create" /\ ~Refused(r)
        /\ Admit(at[r], r)
        /\ Call(r, FirstOf(at[r]), ask[r].key)
     \/ /\ at[r] # "create" /\ Refused(r)
        /\ AdmitAnswered(at[r], r, ErrorStatus(ask[r].kind))
        /\ UNCHANGED <<storeVars, doing>>
  /\ UNCHANGED <<service, ask, found>>

\* The handler answers and is dropped.
Respond(r, s) == Finish(r, s) /\ Forget(r)
Fail(r, e) == Respond(r, ErrorStatus(e))

Replied(r, type) == stage[r] = "running" /\ doing[r] = type /\ reply[r] \notin {"none", "waiting"}
Stopped(r) == reply[r] = "stopped"
Missing(r) == reply[r] = Nobody
Read(r) == reply[r]

------------------------------------------------------------------------------
\* The answers of axum's Json to a body it does not take, besides 400: too long, of another
\* type, or without the fields.
Rejections == {413, 415, 422}

\* The body is there: it is refused, or the first key is tried.
BodyArrives(r) ==
  /\ stage[r] = "running" /\ doing[r] = "body"
  /\ \/ Refused(r) /\ Fail(r, ask[r].kind) /\ UNCHANGED doing
     \/ /\ Refused(r) /\ ask[r].kind = "Validation"
        /\ \E s \in Rejections : Respond(r, s)
        /\ UNCHANGED doing
     \/ ~Refused(r) /\ Call(r, "insert", ask[r].key) /\ UNCHANGED httpVars
  /\ UNCHANGED <<service, ask, found>>

\* Mutant: the last attempt is taken for a success.
CreateLeniently(r) ==
  /\ Replied(r, "insert") /\ Respond(r, IF Stopped(r) THEN 500 ELSE 201)
  /\ UNCHANGED handlers

\* create: inserted, or the key is taken and another is drawn while attempts are left.
CreateGoesOn(r) ==
  /\ Replied(r, "insert")
  /\ \/ Missing(r) /\ Respond(r, 201) /\ UNCHANGED <<ask, doing>>
     \/ Stopped(r) /\ Fail(r, "Backend") /\ UNCHANGED <<ask, doing>>
     \/ /\ ~Missing(r) /\ ~Stopped(r) /\ ask[r].tries = 1
        /\ Fail(r, "Conflict") /\ UNCHANGED <<ask, doing>>
     \/ /\ ~Missing(r) /\ ~Stopped(r) /\ ask[r].tries > 1
        /\ \E k \in Keys :
             /\ ask' = [ask EXCEPT ![r] = [key |-> k, kind |-> ask[r].kind,
                                             tries |-> ask[r].tries - 1]]
             /\ Call(r, "insert", k)
        /\ UNCHANGED httpVars
  /\ UNCHANGED <<service, found>>

\* get, resolve and fetch have read the row: it is missing, or expired and purged; a
\* one-shot is taken, other rows are counted before they are served, except by get.
ReadGoesOn(r) ==
  /\ Replied(r, "get")
  /\ \/ Missing(r) /\ Fail(r, "NotFound") /\ UNCHANGED <<doing, found>>
     \/ Stopped(r) /\ Fail(r, "Backend") /\ UNCHANGED <<doing, found>>
     \/ /\ ~Missing(r) /\ ~Stopped(r)
        /\ found' = [found EXCEPT ![r] = Read(r)]
        /\ \/ /\ rows[Read(r)].expired
              /\ Call(r, "delete", ask[r].key) /\ UNCHANGED httpVars
           \/ /\ ~rows[Read(r)].expired /\ at[r] = "get"
              /\ Respond(r, 200) /\ UNCHANGED doing
           \/ /\ ~rows[Read(r)].expired /\ at[r] # "get" /\ rows[Read(r)].kind = "oneShot"
              /\ Call(r, "take", ask[r].key) /\ UNCHANGED httpVars
           \/ /\ ~rows[Read(r)].expired /\ at[r] # "get" /\ rows[Read(r)].kind # "oneShot"
              /\ Call(r, "count", ask[r].key) /\ UNCHANGED httpVars
  /\ UNCHANGED <<service, ask>>

\* The purge is over, whatever came of it.
PurgeGoesOn(r) ==
  /\ Replied(r, "delete") /\ at[r] \in Reads
  /\ Fail(r, "NotFound")
  /\ UNCHANGED handlers

\* Mutant: a fetch serves what it had read, whoever took it.
TakeLeniently(r) ==
  /\ Replied(r, "take")
  /\ Respond(r, IF Stopped(r) THEN 500 ELSE 200)
  /\ UNCHANGED handlers

\* take: whoever gets the row serves it.
TakeGoesOn(r) ==
  /\ Replied(r, "take")
  /\ \/ Missing(r) /\ Fail(r, "NotFound") /\ UNCHANGED found
     \/ Stopped(r) /\ Fail(r, "Backend") /\ UNCHANGED found
     \/ /\ ~Missing(r) /\ ~Stopped(r)
        /\ found' = [found EXCEPT ![r] = Read(r)]
        /\ Respond(r, 200)
  /\ UNCHANGED <<service, ask, doing>>

\* The row is counted or not, and served: 302, 200, or 500 for an unfit target.
CountGoesOn(r) ==
  /\ Replied(r, "count")
  /\ Respond(r, CASE rows[found[r]].kind = "unfit" -> StatusOf.Internal
                  [] at[r] = "redirect" /\ rows[found[r]].kind # "unfit" -> 302
                  [] OTHER -> 200)
  /\ UNCHANGED handlers

\* delete: 204 when there was a row.
DeleteGoesOn(r) ==
  /\ Replied(r, "delete") /\ at[r] = "delete"
  /\ Respond(r, CASE Stopped(r) -> ErrorStatus("Backend")
                  [] Missing(r) -> ErrorStatus("NotFound")
                  [] OTHER -> 204)
  /\ UNCHANGED handlers

\* ready: 503, not 500, when the repository does not answer the ping.
ReadyGoesOn(r) ==
  /\ Replied(r, "ping")
  /\ Respond(r, IF Stopped(r) THEN 503 ELSE 200)
  /\ UNCHANGED handlers

------------------------------------------------------------------------------
TimeOut(r) == TimeoutElapses(r) /\ Forget(r) /\ UNCHANGED handlers
Disconnect(r) == Leave(r) /\ Forget(r) /\ UNCHANGED handlers

RequestStep(r) ==
  \/ Come(r) \/ Begin(r) \/ BodyArrives(r)
  \/ CreateGoesOn(r) \/ ReadGoesOn(r) \/ PurgeGoesOn(r) \/ TakeGoesOn(r) \/ CountGoesOn(r)
  \/ DeleteGoesOn(r) \/ ReadyGoesOn(r)
  \/ TimeOut(r) \/ Disconnect(r)

StoreStep ==
  /\ Handle \/ StopTask \/ \E n \in Callers : Expire(n)
  /\ UNCHANGED <<httpVars, handlers>>

Next == (\E r \in Requests : RequestStep(r)) \/ StoreStep

Spec == Init /\ [][Next]_webVars

\* A free permit goes to whom it is due, and timers fire.  The repository need not answer.
FairSpec ==
  Spec /\ \A r \in Requests : WF_webVars(Begin(r)) /\ WF_webVars(TimeOut(r))

------------------------------------------------------------------------------
\* Every variable has the type the code gives it.
TypeOK ==
  /\ StoreTypeOK /\ HttpTypeOK
  /\ service \in {Links, Pastes}
  /\ ask \in [Requests -> Ask]
  /\ doing \in [Requests -> CommandTypes \cup {"none", "body"}]
  /\ found \in [Requests -> Callers \cup {Nobody}]

\* What a response says is so and stays so, whatever else is on its way: a create stored a
\* row if it was answered 201 and never does otherwise, a delete removed one if it was
\* answered 204 and never does otherwise, and a one-shot was served only by the fetch
\* that removed it.  Only requests that were cut off leave the client in the dark.
TruthfulStatus ==
  \A r \in Requests : Answered(r) =>
    /\ at[r] = "create" => (status[r] = 201 <=> rows[r].key # "none")
    /\ at[r] = "delete" => (status[r] = 204 <=> \E n \in Callers : rows[n].by = r)
    /\ status[r] = 200 /\ at[r] \in {"fetch", "raw"} /\ rows[found[r]].kind = "oneShot"
         => rows[found[r]].by = r

\* The immediate recorder is "exact and synchronous": while the repository runs, a stored
\* row has counted every request that was answered from it, and at most one for each
\* request that got as far as counting its key.
ExactCounts ==
  \A k \in Keys : running /\ table[k] # Nobody =>
    LET counts == {r \in Requests : doing[r] = "count" /\ ask[r].key = k}
    IN /\ Cardinality({r \in counts : Answered(r) /\ found[r] = table[k]}) <= rows[table[k]].hits
       /\ rows[table[k]].hits <= Cardinality(counts)

\* A request that was cut off can still have an effect, but never on a row of a request
\* that came after its end: its commands are executed before any of those.
NoLateHarm == \A n \in Requests : rows[n].by \notin before[n]

\* Every request ends, also when the repository never replies and all others queue for
\* the same permit.
EveryRequestEnds == \A r \in Requests : stage[r] = "queued" ~> Ended(r)

------------------------------------------------------------------------------
\* What the repository's documents say and the code does not do.

\* "Max in-flight requests; excess requests wait" (config.rs:24): no more handlers run
\* at once than the limit.
InFlightCapped == Cardinality({r \in Requests : stage[r] = "running"}) <= Limit
==============================================================================
