------------------------------ MODULE HttpLayer ------------------------------
(****************************************************************************)
(* What a request meets before and around its handler in both services      *)
(* (router in api/mod.rs): the rate limiter, the ConcurrencyLimitLayer and  *)
(* the TimeoutLayer.                                                        *)
(*                                                                          *)
(* Router::layer wraps every method of every route on its own, so each      *)
(* endpoint has a semaphore of Limit permits.  A request queues for a       *)
(* permit before the timeout of its handler starts.                         *)
(****************************************************************************)
EXTENDS Naturals, Sequences, FiniteSets

CONSTANTS
  Requests,   \* every request is made once
  Endpoints,
  Limit       \* config.max_concurrent_requests

ASSUME HttpLayerAssumption == Limit \in Nat \ {0}

VARIABLES
  stage,   \* per request: new, queued for a permit, running its handler, ended
  at,      \* its endpoint
  queue,   \* per endpoint: who waits for a permit, first come first
  status,  \* the response it ended with, or Gone
  before   \* history: the requests that had ended when it came

httpVars == <<stage, at, queue, status, before>>

Gone == 0  \* no response: the client had left

RunningAt(e) == {r \in Requests : stage[r] = "running" /\ at[r] = e}
Ended(r) == stage[r] = "ended"
CutOff(r) == Ended(r) /\ status[r] \in {408, Gone}
Answered(r) == Ended(r) /\ ~CutOff(r)

HttpInit ==
  /\ stage = [r \in Requests |-> "new"]
  /\ at = [r \in Requests |-> "none"]
  /\ queue = [e \in Endpoints |-> <<>>]
  /\ status = [r \in Requests |-> 0]
  /\ before = [r \in Requests |-> {}]

\* The rate limiter (RateLimiter has its state) lets the request through to the queue of
\* its endpoint, or answers 429.
Arrive(r, e) ==
  /\ stage[r] = "new"
  /\ at' = [at EXCEPT ![r] = e]
  /\ before' = [before EXCEPT ![r] = {p \in Requests : Ended(p)}]
  /\ \/ /\ stage' = [stage EXCEPT ![r] = "queued"]
        /\ queue' = [queue EXCEPT ![e] = Append(@, r)]
        /\ UNCHANGED status
     \/ /\ stage' = [stage EXCEPT ![r] = "ended"]
        /\ status' = [status EXCEPT ![r] = 429]
        /\ UNCHANGED queue

\* The first in the queue gets a free permit, and its handler is called.
Admit(e, r) ==
  /\ queue[e] # <<>> /\ r = Head(queue[e])
  /\ Cardinality(RunningAt(e)) < Limit
  /\ queue' = [queue EXCEPT ![e] = Tail(@)]
  /\ stage' = [stage EXCEPT ![r] = "running"]
  /\ UNCHANGED <<at, status, before>>

\* The first in the queue gets a free permit, and is answered without an await.
AdmitAnswered(e, r, s) ==
  /\ queue[e] # <<>> /\ r = Head(queue[e])
  /\ Cardinality(RunningAt(e)) < Limit
  /\ queue' = [queue EXCEPT ![e] = Tail(@)]
  /\ stage' = [stage EXCEPT ![r] = "ended"]
  /\ status' = [status EXCEPT ![r] = s]
  /\ UNCHANGED <<at, before>>

\* The handler is over, and its permit is free.
Finish(r, s) ==
  /\ stage[r] = "running"
  /\ stage' = [stage EXCEPT ![r] = "ended"]
  /\ status' = [status EXCEPT ![r] = s]
  /\ UNCHANGED <<at, queue, before>>

\* TimeoutLayer drops the handler at an await, 408.
TimeoutElapses(r) == Finish(r, 408)

\* Mutant: a client that leaves keeps its place in the queue.
LeaveAGap(r) ==
  /\ stage[r] \in {"queued", "running"}
  /\ stage' = [stage EXCEPT ![r] = "ended"]
  /\ status' = [status EXCEPT ![r] = Gone]
  /\ UNCHANGED <<at, queue, before>>

\* The client closes its connection: its handler, or its place in the queue, is dropped.
Leave(r) ==
  /\ stage[r] \in {"queued", "running"}
  /\ stage' = [stage EXCEPT ![r] = "ended"]
  /\ status' = [status EXCEPT ![r] = Gone]
  /\ \/ stage[r] = "running" /\ UNCHANGED queue
     \/ /\ stage[r] = "queued"
        /\ \E i \in 1..Len(queue[at[r]]) :
             /\ queue[at[r]][i] = r
             /\ queue' = [queue EXCEPT ![at[r]] = SubSeq(@, 1, i - 1) \o SubSeq(@, i + 1, Len(@))]
  /\ UNCHANGED <<at, before>>

------------------------------------------------------------------------------
\* The types of the layers' variables; a status is a number.
HttpTypeOK ==
  /\ stage \in [Requests -> {"new", "queued", "running", "ended"}]
  /\ at \in [Requests -> Endpoints \cup {"none"}]
  /\ queue \in [Endpoints -> Seq(Requests)]
  /\ status \in [Requests -> Nat]
  /\ before \in [Requests -> SUBSET Requests]
==============================================================================
