------------------------------- MODULE TcpServer -------------------------------
(****************************************************************************)
(* tcp-actor-server (src/server.rs): the accept loop, the connection tasks  *)
(* it spawns, the semaphore that bounds them, the registry they report to,  *)
(* and the graceful shutdown that waits for them within a grace period.     *)
(*                                                                          *)
(* An action is the code between two awaits.  Time is not modelled here: a  *)
(* timeout may fire whenever its await is pending.                          *)
(****************************************************************************)
EXTENDS Integers, Sequences, FiniteSets

CONSTANTS
  MaxConnections,  \* config.max_connections
  MaxAccepted,     \* bound of the model: connections ever accepted
  MaxRequests      \* bound of the model: requests ever routed

ASSUME TcpServerAssumption ==
  /\ MaxConnections \in Nat
  /\ MaxAccepted \in Nat
  /\ MaxRequests \in Nat

VARIABLES
  flag,       \* the watch flag: shut down
  acceptor,   \* where Server::run stands
  permits,    \* permits left in the semaphore
  nextId,     \* next_id
  task,       \* where the task of each connection stands
  keepAlive,  \* keep_alive of the request a connection is answering
  connected,  \* metrics.connections_total
  requests,   \* metrics.requests_total
  cmds, conns, reply,  \* the registry
  lateAccepts,   \* history: connections accepted with the flag set
  lateRequests   \* history: per connection, requests routed with the flag set

Ids == 1..MaxAccepted
Reg == INSTANCE Registry

run == <<flag, acceptor, permits, nextId>>
registry == <<cmds, conns, reply>>
metrics == <<connected, requests>>
history == <<lateAccepts, lateRequests>>
vars == <<run, task, keepAlive, metrics, registry, history>>

\* What the front of a connection's buffer can hold when a head is parsed: nothing,
\* part of a head, a head that is refused (400, 413, 431, 501), a head that still
\* waits for its body, or a whole request.
Buffers == {"none", "part", "bad", "body", "whole"}

Init ==
  /\ flag = FALSE
  /\ acceptor = "check"
  /\ permits = MaxConnections
  /\ nextId = 1
  /\ task = [i \in Ids |-> "none"]
  /\ keepAlive = [i \in Ids |-> FALSE]
  /\ connected = 0 /\ requests = 0
  /\ Reg!Init
  /\ lateAccepts = 0 /\ lateRequests = [i \in Ids |-> 0]

------------------------------------------------------------------------------
\* Server::run

\* The signal arrives, and the flag is broadcast.
Shutdown ==
  /\ ~flag /\ flag' = TRUE
  /\ UNCHANGED <<acceptor, permits, nextId, task, keepAlive, metrics, registry, history>>

\* The loop starts over, or breaks.
Check ==
  /\ acceptor = "check"
  /\ acceptor' = IF flag THEN "drain" ELSE "acquire"
  /\ UNCHANGED <<flag, permits, nextId, task, keepAlive, metrics, registry, history>>

\* Mutant: the limit is off by one.
AcquireOneMore ==
  /\ acceptor = "acquire" /\ permits >= 0
  /\ permits' = permits - 1
  /\ acceptor' = "accept"
  /\ UNCHANGED <<flag, nextId, task, keepAlive, metrics, registry, history>>

\* The select polls the flag first and the semaphore next; the flag may be set
\* between the two polls.
Acquire ==
  /\ acceptor = "acquire" /\ permits > 0
  /\ permits' = permits - 1
  /\ acceptor' = "accept"
  /\ UNCHANGED <<flag, nextId, task, keepAlive, metrics, registry, history>>

\* Mutant: waiting for a permit is not interrupted by the flag.
BreakOnlyInAccept ==
  /\ acceptor = "accept" /\ flag
  /\ acceptor' = "drain"
  /\ permits' = permits + 1
  /\ UNCHANGED <<flag, nextId, task, keepAlive, metrics, registry, history>>

\* Mutant: the permit in hand is not given back.
BreakKeepsPermit ==
  /\ acceptor \in {"acquire", "accept"} /\ flag
  /\ acceptor' = "drain"
  /\ UNCHANGED <<flag, permits, nextId, task, keepAlive, metrics, registry, history>>

\* Either select sees the flag: the permit in hand, if any, is dropped.
Break ==
  /\ acceptor \in {"acquire", "accept"} /\ flag
  /\ acceptor' = "drain"
  /\ permits' = IF acceptor = "accept" THEN permits + 1 ELSE permits
  /\ UNCHANGED <<flag, nextId, task, keepAlive, metrics, registry, history>>

\* A connection is accepted: its task owns the permit.  Here too the flag may have been
\* set since it was polled.
Accept ==
  /\ acceptor = "accept" /\ nextId \in Ids
  /\ task' = [task EXCEPT ![nextId] = "spawned"]
  /\ nextId' = nextId + 1
  /\ acceptor' = "check"
  /\ lateAccepts' = IF flag THEN lateAccepts + 1 ELSE lateAccepts
  /\ UNCHANGED <<flag, permits, keepAlive, metrics, registry, lateRequests>>

\* accept fails (EMFILE, ...): the permit is dropped and the loop sleeps.
AcceptFails ==
  /\ acceptor = "accept"
  /\ permits' = permits + 1
  /\ acceptor' = "backoff"
  /\ UNCHANGED <<flag, nextId, task, keepAlive, metrics, registry, history>>

BackoffOver ==
  /\ acceptor = "backoff"
  /\ acceptor' = "check"
  /\ UNCHANGED <<flag, permits, nextId, task, keepAlive, metrics, registry, history>>

\* Mutant: one permit is enough.
DrainedByOne ==
  /\ acceptor = "drain" /\ permits > 0
  /\ acceptor' = "drained"
  /\ UNCHANGED <<flag, permits, nextId, task, keepAlive, metrics, registry, history>>

\* acquire_many_owned gets every permit; they are dropped as run returns.
Drained ==
  /\ acceptor = "drain" /\ permits = MaxConnections
  /\ acceptor' = "drained"
  /\ UNCHANGED <<flag, permits, nextId, task, keepAlive, metrics, registry, history>>

\* The grace period is over first.
GraceElapses ==
  /\ acceptor = "drain"
  /\ acceptor' = "elapsed"
  /\ UNCHANGED <<flag, permits, nextId, task, keepAlive, metrics, registry, history>>

------------------------------------------------------------------------------
\* handle_connection

\* Mutant: the guard is not dropped on every way out.
EndUnregistered(i) ==
  /\ task' = [task EXCEPT ![i] = "ended"]
  /\ keepAlive' = [keepAlive EXCEPT ![i] = FALSE]
  /\ UNCHANGED <<cmds, requests, lateRequests>>

\* handle_connection returns, and drops its guard.
End(i) ==
  /\ task' = [task EXCEPT ![i] = "ended"]
  /\ keepAlive' = [keepAlive EXCEPT ![i] = FALSE]
  /\ Reg!Send("deregister", i)
  /\ UNCHANGED <<requests, lateRequests>>

\* Mutant: only the client decides whether the connection stays open.
ServeAsAsked(i) ==
  \E client \in BOOLEAN :
    /\ requests < MaxRequests /\ requests' = requests + 1
    /\ lateRequests' = IF flag THEN [lateRequests EXCEPT ![i] = @ + 1] ELSE lateRequests
    /\ keepAlive' = [keepAlive EXCEPT ![i] = client]
    /\ \/ task' = [task EXCEPT ![i] = "status"] /\ Reg!Send("activeCount", i)
       \/ task' = [task EXCEPT ![i] = "write"] /\ UNCHANGED cmds

\* A request is complete: it is routed, and only /status waits for the registry.
\* The connection stays open after the answer if the client wants that (client) and
\* the flag is not set by now.
Serve(i) ==
  \E client \in BOOLEAN :
    /\ requests < MaxRequests /\ requests' = requests + 1
    /\ lateRequests' = IF flag THEN [lateRequests EXCEPT ![i] = @ + 1] ELSE lateRequests
    /\ keepAlive' = [keepAlive EXCEPT ![i] = client /\ ~flag]
    /\ \/ task' = [task EXCEPT ![i] = "status"] /\ Reg!Send("activeCount", i)
       \/ task' = [task EXCEPT ![i] = "write"] /\ UNCHANGED cmds

Await(i, pc) ==
  /\ task' = [task EXCEPT ![i] = pc]
  /\ keepAlive' = [keepAlive EXCEPT ![i] = FALSE]
  /\ UNCHANGED <<cmds, requests, lateRequests>>

\* From the buffer b to the next await of the connection's loop.
Proceed(i, b) ==
  \/ b = "none" /\ flag /\ End(i)
  \/ b = "none" /\ ~flag /\ Await(i, "idle")
  \/ b = "part" /\ Await(i, "head")
  \/ b = "bad" /\ Await(i, "refuse")
  \/ b = "body" /\ Await(i, "body")
  \/ b = "whole" /\ Serve(i)

\* The task runs for the first time: it counts and registers its connection, and
\* finds its buffer empty.
Start(i) ==
  /\ task[i] = "spawned"
  /\ connected' = connected + 1
  /\ IF flag
     THEN /\ task' = [task EXCEPT ![i] = "ended"]
          /\ cmds' = cmds \o <<[op |-> "register", id |-> i], [op |-> "deregister", id |-> i]>>
     ELSE task' = [task EXCEPT ![i] = "idle"] /\ Reg!Send("register", i)
  /\ UNCHANGED <<run, keepAlive, requests, conns, reply, history>>

Step(i, from, buffers) ==
  /\ task[i] = from
  /\ \E b \in buffers : Proceed(i, b)
  /\ UNCHANGED <<run, connected, conns, reply, lateAccepts>>

Fail(i, from) ==
  /\ task[i] = from
  /\ End(i)
  /\ UNCHANGED <<run, connected, conns, reply, lateAccepts>>

\* read_idle: bytes came.  The flag may have been set since it was polled.
ReadIdle(i) == Step(i, "idle", Buffers \ {"none"})

\* read_idle: the flag, the end of the stream, an error, or the idle timeout.
IdleEnds(i) == Fail(i, "idle")

\* read_until, for the rest of a head or of a body: bytes.
ReadHead(i) == Step(i, "head", {"part", "bad", "body", "whole"})
ReadBody(i) == Step(i, "body", {"body", "whole"})

\* The deadline, which is answered with 408, or the end of the stream in a head (400).
ReadTimesOut(i) ==
  /\ task[i] \in {"head", "body"}
  /\ Await(i, "refuse")
  /\ UNCHANGED <<run, connected, conns, reply, lateAccepts>>

\* An I/O error, or the end of the stream in a body.
ReadFails(i) == Fail(i, "head") \/ Fail(i, "body")

\* The count arrives, and the answer is built.
CountArrives(i) ==
  /\ task[i] = "status"
  /\ Reg!Receive(i)
  /\ task' = [task EXCEPT ![i] = "write"]
  /\ UNCHANGED <<run, keepAlive, metrics, history>>

\* write_all is done: the next request, or what is left of it in the buffer.
Written(i) == keepAlive[i] /\ Step(i, "write", Buffers)

\* write_all is done and the connection is not kept, or it failed.
WriteEnds(i) == Fail(i, "write")

\* respond has written the error, or failed.
Refused(i) == Fail(i, "refuse")

\* The task drops its permit, after handle_connection has returned.
Release(i) ==
  /\ task[i] = "ended"
  /\ task' = [task EXCEPT ![i] = "closed"]
  /\ permits' = permits + 1
  /\ UNCHANGED <<flag, acceptor, nextId, keepAlive, metrics, registry, history>>

RegistryStep == Reg!Handle /\ UNCHANGED <<run, task, keepAlive, metrics, history>>

TaskStep(i) ==
  \/ Start(i)
  \/ ReadIdle(i) \/ IdleEnds(i)
  \/ ReadHead(i) \/ ReadBody(i) \/ ReadTimesOut(i) \/ ReadFails(i)
  \/ CountArrives(i) \/ Written(i) \/ WriteEnds(i) \/ Refused(i)
  \/ Release(i)

AcceptLoop ==
  \/ Check \/ Acquire \/ Break \/ Accept \/ AcceptFails \/ BackoffOver
  \/ Drained \/ GraceElapses

Next ==
  \/ Shutdown
  \/ AcceptLoop
  \/ \E i \in Ids : TaskStep(i)
  \/ RegistryStep

Spec == Init /\ [][Next]_vars

\* Tasks that can go on are polled and timers fire; a signal, a connection, a request
\* need not come, and a client need not read what it is sent.
FairSpec ==
  /\ Spec
  /\ WF_vars(Check) /\ WF_vars(Break) /\ WF_vars(BackoffOver)
  /\ WF_vars(GraceElapses)
  /\ WF_vars(RegistryStep)
  /\ \A i \in Ids : WF_vars(Start(i)) /\ WF_vars(CountArrives(i)) /\ WF_vars(Release(i))

------------------------------------------------------------------------------
Tasks == {"none", "spawned", "idle", "head", "body", "status", "write", "refuse",
          "ended", "closed"}

\* Every variable has the type the code gives it.
TypeOK ==
  /\ flag \in BOOLEAN
  /\ acceptor \in {"check", "acquire", "accept", "backoff", "drain", "drained", "elapsed"}
  /\ permits \in Nat
  /\ nextId \in 1..MaxAccepted + 1
  /\ task \in [Ids -> Tasks]
  /\ keepAlive \in [Ids -> BOOLEAN]
  /\ connected \in Nat /\ requests \in Nat
  /\ Reg!TypeOK
  /\ lateAccepts \in Nat /\ lateRequests \in [Ids -> Nat]

Holders == {i \in Ids : task[i] \notin {"none", "closed"}}
Registered == {i \in Ids : task[i] \notin {"none", "spawned", "ended", "closed"}}

\* Permits are neither lost nor made: each is in the semaphore, in the hands of the
\* accept loop, or owned by one connection task.
PermitsAccounted ==
  permits + Cardinality(Holders) + (IF acceptor = "accept" THEN 1 ELSE 0) = MaxConnections

\* What the registry believes never exceeds the limit, although it hears of starts
\* and ends late: a task drops its guard before its permit.
RegistryWithinLimit == Cardinality(conns) <= MaxConnections

\* The registry never leaks a connection: once it has caught up, it holds exactly
\* the connections being handled.
RegistryCatchesUp == cmds = <<>> => conns = Registered

\* An answer to /status makes sense: the count includes the connection that asked,
\* and exceeds neither the limit nor the connections_total of the same answer.
StatusIsConsistent ==
  \A i \in Ids : reply[i] # Reg!Waiting =>
    1 <= reply[i] /\ reply[i] <= MaxConnections /\ reply[i] <= connected /\ requests >= 1

\* When run returns because everything has drained, no accepted connection was cut
\* off, and its end is on its way to the registry.
DrainedMeansClosed ==
  acceptor = "drained" => \A i \in Ids : i < nextId => task[i] = "closed"

\* The shutdown is prompt: after the signal at most one more connection is accepted,
\* and each connection, however much its client has pipelined, gets at most one more
\* request routed.
FewAfterShutdown ==
  /\ lateAccepts <= 1
  /\ \A i \in Ids : lateRequests[i] <= 1

\* run returns after the signal, whatever the clients do.
ShutdownReturns == flag ~> acceptor \in {"drained", "elapsed"}

\* A connection that asked for the count gets it.
StatusIsAnswered == \A i \in Ids : task[i] = "status" ~> task[i] # "status"
==============================================================================
