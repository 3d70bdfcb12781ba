---------------------------- MODULE TcpServerProofs ----------------------------
(****************************************************************************)
(* Theorems about TcpServer: its type invariant, the conservation of        *)
(* permits, what "drained" means, the promptness of the shutdown, and what  *)
(* the registry knows and answers while it lags behind the connections, for *)
(* any limit and any number of connections and requests.                    *)
(****************************************************************************)
EXTENDS TcpServer, FiniteSetTheorems, SequenceTheorems, TLAPS

\* Any set of connection ids is finite.
LEMMA IdsFinite == ASSUME NEW S \in SUBSET Ids PROVE IsFiniteSet(S)
<1>1. 1 \in Int /\ MaxAccepted \in Int  BY TcpServerAssumption
<1>2. IsFiniteSet(Ids)  BY <1>1, FS_Interval DEF Ids
<1>3. QED  BY <1>2, FS_Subset

\* The registry counts as this module does.
LEMMA SameCardinality == \A S : Reg!Cardinality(S) = Cardinality(S)
BY Zenon DEF Reg!Cardinality, Cardinality

\* The operations of the registry, and the commands a task can send.
Ops == {"register", "deregister", "activeCount"}
Cmd == [op : Ops, id : Ids]

\* Sending a command keeps the type of the channel.
LEMMA SendType ==
  ASSUME cmds \in Seq(Cmd), NEW op \in Ops, NEW i \in Ids, Reg!Send(op, i)
  PROVE  cmds' \in Seq(Cmd)
<1>1. [op |-> op, id |-> i] \in Cmd  BY DEF Cmd
<1>2. QED  BY <1>1, AppendProperties DEF Reg!Send

\* The type of the registry, in terms of Cmd.
LEMMA RegType ==
  Reg!TypeOK <=> /\ cmds \in Seq(Cmd)
                 /\ conns \subseteq Ids
                 /\ reply \in [Ids -> Nat \cup {-1}]
BY DEF Reg!TypeOK, Reg!Waiting, Cmd, Ops

------------------------------------------------------------------------------
\* Type correctness.

\* The types hold initially.
LEMMA TypeInit == Init => TypeOK
<1> SUFFICES ASSUME Init PROVE TypeOK
  OBVIOUS
<1>1. Reg!TypeOK
  BY EmptySeq DEF Init, Reg!Init, Reg!TypeOK, Reg!Waiting
<1>2. nextId \in 1..MaxAccepted + 1 /\ permits \in Nat
  BY TcpServerAssumption DEF Init
<1>3. task \in [Ids -> Tasks] /\ keepAlive \in [Ids -> BOOLEAN]
  BY DEF Init, Tasks
<1>4. lateRequests \in [Ids -> Nat]  BY DEF Init
<1>5. QED  BY <1>1, <1>2, <1>3, <1>4 DEF Init, TypeOK

\* The signal and the accept loop keep the types.
LEMMA TypeAcceptLoop == TypeOK /\ (Shutdown \/ AcceptLoop) => TypeOK'
<1> SUFFICES ASSUME TypeOK, Shutdown \/ AcceptLoop PROVE TypeOK'
  OBVIOUS
<1> USE TcpServerAssumption DEF TypeOK, Reg!TypeOK, Reg!Waiting, Ids, Tasks,
        metrics, registry, history
<1>1. CASE Shutdown  BY <1>1 DEF Shutdown
<1>2. CASE Check  BY <1>2 DEF Check
<1>3. CASE Acquire  BY <1>3 DEF Acquire
<1>4. CASE Break  BY <1>4 DEF Break
<1>5. CASE Accept  BY <1>5 DEF Accept
<1>6. CASE AcceptFails  BY <1>6 DEF AcceptFails
<1>7. CASE BackoffOver  BY <1>7 DEF BackoffOver
<1>8. CASE Drained  BY <1>8 DEF Drained
<1>9. CASE GraceElapses  BY <1>9 DEF GraceElapses
<1>10. QED
  BY <1>1, <1>2, <1>3, <1>4, <1>5, <1>6, <1>7, <1>8, <1>9 DEF AcceptLoop

\* A task that goes on from its buffer, or ends, keeps the types.
LEMMA TypeProceed ==
  ASSUME TypeOK, NEW i \in Ids,
         \/ \E b \in Buffers : Proceed(i, b)
         \/ End(i)
         \/ Await(i, "refuse"),
         UNCHANGED <<run, connected, conns, reply, lateAccepts>>
  PROVE  TypeOK'
<1>0. cmds \in Seq(Cmd)  BY RegType DEF TypeOK
<1>1. CASE End(i)
  <2>1. cmds' \in Seq(Cmd)  BY <1>0, <1>1, SendType DEF End, Ops
  <2>2. Reg!TypeOK'  BY <2>1 DEF TypeOK, Reg!TypeOK, Reg!Waiting, Cmd, Ops
  <2>3. QED  BY <1>1, <2>2 DEF End, TypeOK, Tasks, run
<1>2. CASE Serve(i)
  <2>1. cmds' \in Seq(Cmd)  BY <1>0, <1>2, SendType DEF Serve, Ops
  <2>2. Reg!TypeOK'  BY <2>1 DEF TypeOK, Reg!TypeOK, Reg!Waiting, Cmd, Ops
  <2>3. QED  BY <1>2, <2>2 DEF Serve, TypeOK, Tasks, run
<1>3. ASSUME NEW pc \in {"idle", "head", "refuse", "body"}, Await(i, pc) PROVE TypeOK'
  <2>1. Reg!TypeOK'  BY <1>3 DEF Await, TypeOK, Reg!TypeOK, Reg!Waiting
  <2>2. QED  BY <1>3, <2>1 DEF Await, TypeOK, Tasks, run
<1>4. QED  BY <1>1, <1>2, <1>3 DEF Proceed

\* So does every step of a task.
LEMMA TypeTaskStep == ASSUME TypeOK, NEW i \in Ids, TaskStep(i) PROVE TypeOK'
<1>1. CASE Start(i)
  <2>0. cmds \in Seq(Cmd)  BY RegType DEF TypeOK
  <2>1. cmds' \in Seq(Cmd)
    <3>1. CASE flag
      <4> DEFINE both == <<[op |-> "register", id |-> i], [op |-> "deregister", id |-> i]>>
      <4>1. both \in Seq(Cmd)  BY DEF Cmd, Ops
      <4>2. cmds' = cmds \o both  BY <1>1, <3>1 DEF Start
      <4> HIDE DEF both
      <4>3. QED  BY <2>0, <4>1, <4>2, ConcatProperties
    <3>2. CASE ~flag  BY <1>1, <2>0, <3>2, SendType DEF Start, Ops
    <3>3. QED  BY <3>1, <3>2
  <2>2. Reg!TypeOK'  BY <1>1, <2>1 DEF Start, TypeOK, Reg!TypeOK, Reg!Waiting, Cmd, Ops
  <2>3. task' \in [Ids -> Tasks]  BY <1>1 DEF Start, TypeOK, Tasks
  <2>4. connected' \in Nat  BY <1>1 DEF Start, TypeOK
  <2>5. QED  BY <1>1, <2>2, <2>3, <2>4 DEF Start, TypeOK, run, history
<1>2. CASE CountArrives(i)
  BY <1>2 DEF CountArrives, TypeOK, Tasks, Reg!TypeOK, Reg!Receive, Reg!Waiting, run,
              metrics, history
<1>3. CASE Release(i)
  BY <1>3 DEF Release, TypeOK, Tasks, Reg!TypeOK, metrics, registry, history
<1>4. CASE \/ ReadIdle(i) \/ ReadHead(i) \/ ReadBody(i) \/ Written(i)
  BY <1>4, TypeProceed DEF ReadIdle, ReadHead, ReadBody, Written, Step, Buffers
<1>5. CASE \/ IdleEnds(i) \/ ReadFails(i) \/ WriteEnds(i) \/ Refused(i) \/ ReadTimesOut(i)
  BY <1>5, TypeProceed DEF IdleEnds, ReadFails, WriteEnds, Refused, Fail, ReadTimesOut
<1>6. QED  BY <1>1, <1>2, <1>3, <1>4, <1>5 DEF TaskStep

\* And the registry's: a count is the size of a finite set.
LEMMA TypeRegistry == TypeOK /\ RegistryStep => TypeOK'
<1> SUFFICES ASSUME TypeOK, RegistryStep PROVE TypeOK'
  OBVIOUS
<1>0. conns \in SUBSET Ids  BY DEF TypeOK, Reg!TypeOK
<1>1. Reg!Cardinality(conns) \in Nat
  BY <1>0, IdsFinite, FS_CardinalityType, SameCardinality
<1>2. cmds \in Seq(Cmd) /\ cmds # <<>>
  BY RegType DEF RegistryStep, Reg!Handle, TypeOK
<1>3. Head(cmds) \in Cmd /\ Tail(cmds) \in Seq(Cmd)
  BY <1>2, HeadTailProperties
<1>4. Head(cmds).id \in Ids  BY <1>3 DEF Cmd
<1>5. cmds' \in Seq(Cmd)  BY <1>3 DEF RegistryStep, Reg!Handle
<1>6. conns' \subseteq Ids
  BY <1>0, <1>4 DEF RegistryStep, Reg!Handle
<1>7. reply' \in [Ids -> Nat \cup {Reg!Waiting}]
  BY <1>1, <1>4 DEF RegistryStep, Reg!Handle, TypeOK, Reg!TypeOK
<1>8. Reg!TypeOK'
  BY <1>5, <1>6, <1>7 DEF Reg!TypeOK, Reg!Waiting, Cmd, Ops
<1>9. QED  BY <1>8 DEF RegistryStep, TypeOK, run, metrics, history

\* Every step keeps the types.
LEMMA TypeStep == TypeOK /\ [Next]_vars => TypeOK'
<1> SUFFICES ASSUME TypeOK, [Next]_vars PROVE TypeOK'
  OBVIOUS
<1>1. CASE UNCHANGED vars
  BY <1>1 DEF vars, run, metrics, registry, history, TypeOK, Reg!TypeOK
<1>2. QED
  BY <1>1, TypeAcceptLoop, TypeTaskStep, TypeRegistry DEF Next

\* The types hold always.
THEOREM TypeCorrect == Spec => []TypeOK
BY TypeInit, TypeStep, PTL DEF Spec

------------------------------------------------------------------------------
\* The inductive invariant.

\* The connections with a task are the ones that have been accepted.
Numbered == \A i \in Ids : i < nextId <=> task[i] # "none"

\* No connection is left once everything has drained.
Emptied == acceptor = "drained" => Holders = {}

\* A connection accepted after the signal was the last one.
LastAccept ==
  lateAccepts # 0 =>
    flag /\ lateAccepts = 1 /\ acceptor \in {"check", "drain", "drained", "elapsed"}

\* A connection served after the signal is answering that request, or over.
LastRequest ==
  \A i \in Ids : lateRequests[i] # 0 =>
    /\ flag /\ lateRequests[i] = 1
    /\ ~keepAlive[i]
    /\ task[i] \in {"status", "write", "ended", "closed"}

IInv == TypeOK /\ PermitsAccounted /\ Numbered /\ Emptied /\ LastAccept /\ LastRequest

\* What a step of a task other than Release does to its own pc, and leaves alone.
LEMMA TaskMoves ==
  ASSUME TypeOK, NEW i \in Ids, TaskStep(i), ~Release(i)
  PROVE  /\ task[i] \notin {"none", "closed"}
         /\ \E pc \in Tasks \ {"none", "closed"} : task' = [task EXCEPT ![i] = pc]
         /\ UNCHANGED <<run, lateAccepts>>
<1> DEFINE Moves == \E pc \in Tasks \ {"none", "closed"} : task' = [task EXCEPT ![i] = pc]
<1>1. CASE Start(i)  BY <1>1 DEF Start, Tasks, history
<1>2. CASE CountArrives(i)  BY <1>2 DEF CountArrives, Tasks, history
<1>3. ASSUME NEW b \in Buffers, Proceed(i, b) PROVE Moves
  BY <1>3 DEF Proceed, End, Await, Serve, Tasks
<1>4. CASE \/ ReadIdle(i) \/ ReadHead(i) \/ ReadBody(i) \/ Written(i)
  BY <1>3, <1>4 DEF ReadIdle, ReadHead, ReadBody, Written, Step, Buffers
<1>5. CASE \/ IdleEnds(i) \/ ReadFails(i) \/ WriteEnds(i) \/ Refused(i) \/ ReadTimesOut(i)
  BY <1>5 DEF IdleEnds, ReadFails, WriteEnds, Refused, Fail, ReadTimesOut, End, Await, Tasks
<1>6. QED  BY <1>1, <1>2, <1>4, <1>5 DEF TaskStep

\* Holders is a finite set of ids, in either state.
LEMMA HoldersFinite == IsFiniteSet(Holders) /\ Cardinality(Holders) \in Nat
<1>1. Holders \in SUBSET Ids  BY DEF Holders
<1>2. QED  BY <1>1, IdsFinite, FS_CardinalityType

\* Init is inside the invariant.
LEMMA IInvInit == Init => IInv
<1> SUFFICES ASSUME Init PROVE IInv
  OBVIOUS
<1>1. TypeOK  BY TypeInit
<1>2. Holders = {}  BY DEF Init, Holders
<1>3. PermitsAccounted
  BY <1>2, FS_EmptySet, TcpServerAssumption DEF Init, PermitsAccounted
<1>4. Numbered  BY DEF Init, Numbered, Ids
<1>5. Emptied /\ LastAccept  BY DEF Init, Emptied, LastAccept
<1>6. LastRequest  BY DEF Init, LastRequest
<1>7. QED  BY <1>1, <1>3, <1>4, <1>5, <1>6 DEF IInv

------------------------------------------------------------------------------
\* Each part is preserved.

\* The signal and the accept loop move permits between the semaphore, the loop and
\* the connection they accept.
LEMMA PermitsLoop == IInv /\ (Shutdown \/ AcceptLoop) => PermitsAccounted'
<1> SUFFICES ASSUME IInv, Shutdown \/ AcceptLoop PROVE PermitsAccounted'
  OBVIOUS
<1>0. /\ permits \in Nat /\ nextId \in Int /\ MaxConnections \in Nat
      /\ Cardinality(Holders) \in Nat
  BY HoldersFinite, TcpServerAssumption DEF IInv, TypeOK
<1>1. CASE Accept
  <2>1. nextId \in Ids /\ task[nextId] = "none"
    BY <1>0, <1>1 DEF Accept, IInv, Numbered
  <2>2. nextId \notin Holders  BY <2>1 DEF Holders
  <2>3. Holders' = Holders \cup {nextId}
    BY <1>1, <2>1 DEF Accept, Holders, IInv, TypeOK
  <2>4. Cardinality(Holders') = Cardinality(Holders) + 1
    BY <2>2, <2>3, HoldersFinite, FS_AddElement
  <2>5. QED  BY <1>0, <1>1, <2>4 DEF Accept, IInv, PermitsAccounted
<1>2. CASE ~Accept
  <2>1. UNCHANGED task
    BY <1>2 DEF AcceptLoop, Shutdown, Check, Acquire, Break, AcceptFails, BackoffOver,
                Drained, GraceElapses
  <2>2. Cardinality(Holders') = Cardinality(Holders)  BY <2>1 DEF Holders
  <2>3. QED
    BY <1>0, <1>2, <2>2 DEF AcceptLoop, Shutdown, Check, Acquire, Break, AcceptFails,
                            BackoffOver, Drained, GraceElapses, IInv, PermitsAccounted
<1>3. QED  BY <1>1, <1>2

\* A task keeps its permit until it drops it.
LEMMA PermitsTask == ASSUME IInv, NEW i \in Ids, TaskStep(i) PROVE PermitsAccounted'
<1>0. permits \in Nat /\ MaxConnections \in Nat /\ Cardinality(Holders) \in Nat
  BY HoldersFinite, TcpServerAssumption DEF IInv, TypeOK
<1>1. CASE Release(i)
  <2>1. i \in Holders  BY <1>1 DEF Release, Holders
  <2>2. Holders' = Holders \ {i}  BY <1>1 DEF Release, Holders, IInv, TypeOK
  <2>3. Cardinality(Holders') = Cardinality(Holders) - 1
    BY <2>1, <2>2, HoldersFinite, FS_RemoveElement
  <2>4. QED  BY <1>0, <1>1, <2>3 DEF Release, IInv, PermitsAccounted
<1>2. CASE ~Release(i)
  <2>1. Holders' = Holders  BY <1>2, TaskMoves DEF Holders, IInv, TypeOK
  <2>2. UNCHANGED <<permits, acceptor>>  BY <1>2, TaskMoves DEF IInv, run
  <2>3. QED  BY <2>1, <2>2 DEF IInv, PermitsAccounted
<1>3. QED  BY <1>1, <1>2

\* Only Accept numbers a connection, and the semaphore is full only when no task
\* holds a permit.
LEMMA LoopParts ==
  IInv /\ (Shutdown \/ AcceptLoop) => Numbered' /\ Emptied' /\ LastAccept' /\ LastRequest'
<1> SUFFICES ASSUME IInv, Shutdown \/ AcceptLoop
             PROVE  Numbered' /\ Emptied' /\ LastAccept' /\ LastRequest'
  OBVIOUS
<1> USE DEF IInv, TypeOK
<1>1. CASE Accept
  <2>1. Numbered'
    BY <1>1, TcpServerAssumption DEF Accept, Numbered, Ids
  <2>2. Emptied' /\ LastAccept'  BY <1>1 DEF Accept, Emptied, LastAccept
  <2>3. nextId \in Ids /\ task[nextId] = "none"  BY <1>1 DEF Accept, Numbered
  <2>4. LastRequest'  BY <1>1, <2>3 DEF Accept, LastRequest
  <2>5. QED  BY <2>1, <2>2, <2>4
<1>2. CASE Drained
  <2>1. Cardinality(Holders) = 0
    BY <1>2, HoldersFinite, TcpServerAssumption DEF Drained, PermitsAccounted
  <2>2. Holders = {}  BY <2>1, HoldersFinite, FS_EmptySet
  <2>3. QED
    BY <1>2, <2>2 DEF Drained, Numbered, Emptied, LastAccept, LastRequest, Holders, history
<1>3. CASE Shutdown
  BY <1>3 DEF Shutdown, Numbered, Emptied, LastAccept, LastRequest, Holders, history
<1>4. CASE Check
  BY <1>4 DEF Check, Numbered, Emptied, LastAccept, LastRequest, Holders, history
<1>5. CASE Acquire \/ Break \/ AcceptFails \/ BackoffOver \/ GraceElapses
  BY <1>5 DEF Acquire, Break, AcceptFails, BackoffOver, GraceElapses, Numbered, Emptied,
              LastAccept, LastRequest, Holders, history
<1>6. QED  BY <1>1, <1>2, <1>3, <1>4, <1>5 DEF AcceptLoop

\* A step of a task serves a request after the signal only if it has served none
\* since, and it then gives up keep-alive.
LEMMA ServesOnce == ASSUME IInv, NEW i \in Ids, TaskStep(i) PROVE LastRequest'
<1> USE DEF IInv, TypeOK
<1> DEFINE Over(j) == lateRequests[j] # 0 =>
             /\ flag /\ lateRequests[j] = 1
             /\ ~keepAlive[j]
             /\ task[j] \in {"status", "write", "ended", "closed"}
<1>0. Over(i)  BY DEF LastRequest
<1>1. ASSUME NEW b \in Buffers, Proceed(i, b), UNCHANGED flag, lateRequests[i] = 0
      PROVE  Over(i)'
  <2>1. CASE Serve(i)
    <3>1. CASE ~flag
      <4>1. lateRequests' = lateRequests  BY <2>1, <3>1 DEF Serve
      <4>2. QED  BY <1>1, <4>1
    <3>2. CASE flag
      <4>1. lateRequests'[i] = 1  BY <1>1, <2>1, <3>2 DEF Serve
      <4>2. ~keepAlive'[i]  BY <2>1, <3>2, Zenon DEF Serve
      <4>3. task'[i] \in {"status", "write"}  BY <2>1 DEF Serve
      <4>4. QED  BY <1>1, <3>2, <4>1, <4>2, <4>3
    <3>3. QED  BY <3>1, <3>2
  <2>2. CASE lateRequests' = lateRequests  BY <1>1, <2>2
  <2>3. QED  BY <1>1, <2>1, <2>2 DEF Proceed, End, Await
<1>2. CASE \/ ReadIdle(i) \/ ReadHead(i) \/ ReadBody(i) \/ Written(i)
  <2>1. lateRequests[i] = 0
    BY <1>0, <1>2 DEF ReadIdle, ReadHead, ReadBody, Written, Step
  <2>2. PICK b \in Buffers : Proceed(i, b)
    BY <1>2 DEF ReadIdle, ReadHead, ReadBody, Written, Step, Buffers
  <2>3. UNCHANGED flag  BY <1>2 DEF ReadIdle, ReadHead, ReadBody, Written, Step, run
  <2>4. Over(i)'  BY <1>1, <2>1, <2>2, <2>3
  <2>5. \A j \in Ids \ {i} : UNCHANGED <<lateRequests[j], keepAlive[j], task[j]>>
    BY <2>2 DEF Proceed, End, Await, Serve
  <2>6. QED  BY <2>3, <2>4, <2>5 DEF LastRequest
<1>3. CASE \/ IdleEnds(i) \/ ReadFails(i) \/ WriteEnds(i) \/ Refused(i)
  BY <1>3 DEF IdleEnds, ReadFails, WriteEnds, Refused, Fail, End, LastRequest, run
<1>4. CASE ReadTimesOut(i)
  BY <1>4 DEF ReadTimesOut, Await, LastRequest, run
<1>5. CASE Start(i)
  BY <1>5 DEF Start, LastRequest, run, history
<1>6. CASE CountArrives(i) \/ Release(i)
  BY <1>6 DEF CountArrives, Release, LastRequest, run, history
<1>7. QED  BY <1>2, <1>3, <1>4, <1>5, <1>6 DEF TaskStep

\* The other parts, which a task disturbs only through its own pc.
LEMMA TaskParts ==
  ASSUME IInv, NEW i \in Ids, TaskStep(i)
  PROVE  Numbered' /\ Emptied' /\ LastAccept'
<1> USE DEF IInv, TypeOK
<1>1. UNCHANGED <<flag, acceptor, nextId, lateAccepts>>
  BY TaskMoves DEF run, Release, history
<1>2. task[i] \notin {"none", "closed"}  BY TaskMoves DEF Release
<1>3. \E pc \in Tasks \ {"none"} : task' = [task EXCEPT ![i] = pc]
  BY TaskMoves DEF Release, Tasks
<1>4. Numbered'  BY <1>1, <1>2, <1>3 DEF Numbered
<1>5. Emptied'
  <2>1. i \in Holders  BY <1>2 DEF Holders
  <2>2. QED  BY <1>1, <2>1 DEF Emptied
<1>6. LastAccept'  BY <1>1 DEF LastAccept
<1>7. QED  BY <1>4, <1>5, <1>6

\* The invariant is inductive, and holds always.
THEOREM Inductive == Spec => []IInv
<1>1. IInv /\ [Next]_vars => IInv'
  <2> SUFFICES ASSUME IInv, [Next]_vars PROVE IInv'
    OBVIOUS
  <2>0. TypeOK'
    BY TypeStep DEF IInv
  <2>1. CASE Shutdown \/ AcceptLoop
    BY <2>0, <2>1, PermitsLoop, LoopParts DEF IInv
  <2>2. CASE \E i \in Ids : TaskStep(i)
    BY <2>0, <2>2, PermitsTask, TaskParts, ServesOnce DEF IInv
  <2>3. CASE RegistryStep \/ UNCHANGED vars
    <3>1. UNCHANGED <<run, task, keepAlive, history>>
      BY <2>3 DEF RegistryStep, vars
    <3>2. Holders' = Holders  BY <3>1 DEF Holders
    <3>3. PermitsAccounted'  BY <3>1, <3>2 DEF IInv, PermitsAccounted, run
    <3>4. QED
      BY <2>0, <3>1, <3>2, <3>3
         DEF IInv, Numbered, Emptied, LastAccept, LastRequest, run, history
  <2>4. QED  BY <2>1, <2>2, <2>3 DEF Next
<1>2. QED  BY <1>1, IInvInit, PTL DEF Spec

\* No interleaving of the accept loop, the tasks and the shutdown loses a permit or
\* makes one: OwnedSemaphorePermit is moved along server.rs as it should be.
THEOREM PermitsConserved == Spec => []PermitsAccounted
BY Inductive, PTL DEF IInv

\* When run reports a complete drain, no accepted connection is left.
THEOREM DrainIsComplete == Spec => []DrainedMeansClosed
<1>1. IInv => DrainedMeansClosed
  BY DEF IInv, Numbered, Emptied, Holders, DrainedMeansClosed
<1>2. QED  BY <1>1, Inductive, PTL

\* After the signal at most one connection is accepted, and each connection gets at
\* most one more request routed, for any limit and any number of clients.
THEOREM ShutdownIsPrompt == Spec => []FewAfterShutdown
<1>1. IInv => FewAfterShutdown
  BY DEF IInv, TypeOK, LastAccept, LastRequest, FewAfterShutdown
<1>2. QED  BY <1>1, Inductive, PTL

------------------------------------------------------------------------------
\* The registry's channel.  The registry lags behind the tasks, so what it believes is
\* related to them through the commands that are still queued.

\* Among the first k commands of q there is an op for the connection i.
Says(q, k, op, i) == \E j \in 1..k : q[j].op = op /\ q[j].id = i

\* What the registry believes after one command, and after the first k commands of q,
\* when it believes S now.  A connection registers once, and deregisters once.
Applied(S, c) ==
  IF c.op = "register" THEN S \cup {c.id}
  ELSE IF c.op = "deregister" THEN S \ {c.id}
  ELSE S

Replay(S, q, k) ==
  {i \in Ids : (i \in S \/ Says(q, k, "register", i)) /\ ~Says(q, k, "deregister", i)}

\* The channel q is in order for a registry that believes S, when R are the connections
\* being handled and D those that are over: once it has caught up the registry
\* believes R, on its way it never believes more than the limit, a connection's
\* deregistration is its last command, and a count is asked for by a connection that
\* is registered when its turn comes.
CatchesUp(q, S, R) == Replay(S, q, Len(q)) = R
NeverTooMany(q, S) == \A k \in 0..Len(q) : Cardinality(Replay(S, q, k)) <= MaxConnections
LastWord(q, D) ==
  \A j \in 1..Len(q) : q[j].op = "deregister" =>
    q[j].id \in D /\ \A k \in j + 1..Len(q) : q[k].id # q[j].id
AskedFromInside(q, S) ==
  \A k \in 1..Len(q) : q[k].op = "activeCount" => q[k].id \in Replay(S, q, k - 1)

InOrder(q, S, R, D) ==
  CatchesUp(q, S, R) /\ NeverTooMany(q, S) /\ LastWord(q, D) /\ AskedFromInside(q, S)

\* A command sent last changes what the registry believes last.
LEMMA ReplayAppend ==
  ASSUME NEW S \in SUBSET Ids, NEW q \in Seq(Cmd), NEW c \in Cmd,
         c.op = "register" => ~Says(q, Len(q), "deregister", c.id)
  PROVE  /\ \A k \in 0..Len(q) : Replay(S, Append(q, c), k) = Replay(S, q, k)
         /\ Replay(S, Append(q, c), Len(q) + 1) = Applied(Replay(S, q, Len(q)), c)
<1> DEFINE p == Append(q, c)
<1>1. /\ Len(q) \in Nat
      /\ \A j \in 1..Len(q) : p[j] = q[j]
      /\ p[Len(q) + 1] = c
  BY AppendProperties, LenProperties
<1> HIDE DEF p
<1>2. \A k \in 0..Len(q) : \A op, i : Says(p, k, op, i) <=> Says(q, k, op, i)
  BY <1>1 DEF Says
<1>3. \A op, i : Says(p, Len(q) + 1, op, i) <=> Says(q, Len(q), op, i) \/ (c.op = op /\ c.id = i)
  BY <1>1 DEF Says
<1>4. \A k \in 0..Len(q) : Replay(S, p, k) = Replay(S, q, k)  BY <1>2 DEF Replay
<1>5. Replay(S, p, Len(q) + 1) = Applied(Replay(S, q, Len(q)), c)
  <2>1. c.op \in Ops /\ c.id \in Ids  BY DEF Cmd
  <2>2. CASE c.op = "register"  BY <1>3, <2>1, <2>2 DEF Replay, Applied
  <2>3. CASE c.op = "deregister"  BY <1>3, <2>1, <2>3 DEF Replay, Applied
  <2>4. CASE c.op = "activeCount"  BY <1>3, <2>1, <2>4 DEF Replay, Applied
  <2>5. QED  BY <2>1, <2>2, <2>3, <2>4 DEF Ops
<1>6. QED  BY <1>4, <1>5 DEF p

\* The oldest command, once handled, leaves what the registry will believe as it was.
LEMMA ReplayTail ==
  ASSUME NEW S \in SUBSET Ids, NEW q \in Seq(Cmd), q # <<>>, NEW D, LastWord(q, D)
  PROVE  \A k \in 0..Len(Tail(q)) :
           Replay(Applied(S, Head(q)), Tail(q), k) = Replay(S, q, k + 1)
<1> DEFINE t == Tail(q)
<1> DEFINE h == Head(q)
<1>1. /\ Len(q) \in Nat \ {0} /\ Len(t) = Len(q) - 1
      /\ \A j \in 1..Len(t) : t[j] = q[j + 1]
      /\ h = q[1] /\ h \in Cmd
  BY HeadTailProperties, EmptySeq
<1> HIDE DEF t, h
<1> SUFFICES ASSUME NEW k \in 0..Len(t)
             PROVE  Replay(Applied(S, h), t, k) = Replay(S, q, k + 1)
  BY DEF t, h
<1>2. ASSUME NEW op, NEW i
      PROVE  Says(q, k + 1, op, i) <=> (h.op = op /\ h.id = i) \/ Says(t, k, op, i)
  <2>1. ASSUME Says(t, k, op, i) PROVE Says(q, k + 1, op, i)
    <3>1. PICK j \in 1..k : t[j].op = op /\ t[j].id = i  BY <2>1 DEF Says
    <3>2. j + 1 \in 1..k + 1 /\ q[j + 1] = t[j]  BY <1>1
    <3>3. QED  BY <3>1, <3>2 DEF Says
  <2>2. ASSUME Says(q, k + 1, op, i), ~(h.op = op /\ h.id = i) PROVE Says(t, k, op, i)
    <3>1. PICK j \in 1..k + 1 : q[j].op = op /\ q[j].id = i  BY <2>2 DEF Says
    <3>2. j - 1 \in 1..k /\ q[j] = t[j - 1]  BY <1>1, <2>2, <3>1
    <3>3. QED  BY <3>1, <3>2 DEF Says
  <2>3. h.op = op /\ h.id = i => Says(q, k + 1, op, i)  BY <1>1 DEF Says
  <2>4. QED  BY <2>1, <2>2, <2>3
<1>3. h.op \in Ops /\ h.id \in Ids  BY <1>1 DEF Cmd
<1>4. h.op = "deregister" => ~Says(t, k, "register", h.id)
  <2> SUFFICES ASSUME h.op = "deregister", NEW j \in 1..k PROVE t[j].id # h.id
    BY DEF Says
  <2>1. j + 1 \in 2..Len(q) /\ t[j] = q[j + 1]  BY <1>1
  <2>2. QED  BY <1>1, <2>1 DEF LastWord
<1>5. CASE h.op = "register"  BY <1>2, <1>3, <1>5 DEF Replay, Applied
<1>6. CASE h.op = "deregister"  BY <1>2, <1>3, <1>4, <1>6 DEF Replay, Applied
<1>7. CASE h.op = "activeCount"  BY <1>2, <1>3, <1>7 DEF Replay, Applied
<1>8. QED  BY <1>3, <1>5, <1>6, <1>7 DEF Ops

\* A task that sends a command keeps the channel in order, when it is not over yet.
LEMMA SentInOrder ==
  ASSUME NEW S \in SUBSET Ids, NEW q \in Seq(Cmd), NEW c \in Cmd,
         NEW R \in SUBSET Ids, NEW D, NEW E,
         InOrder(q, S, R, D),
         c.id \notin D, D \subseteq E, c.op = "deregister" => c.id \in E,
         c.op = "activeCount" => c.id \in R,
         Cardinality(Applied(R, c)) <= MaxConnections
  PROVE  InOrder(Append(q, c), S, Applied(R, c), E)
<1> DEFINE p == Append(q, c)
<1>1. /\ Len(q) \in Nat /\ Len(p) = Len(q) + 1
      /\ \A j \in 1..Len(q) : p[j] = q[j]
      /\ p[Len(q) + 1] = c
  BY AppendProperties, LenProperties
<1>2. \A j \in 1..Len(q) : q[j].op = "deregister" => q[j].id # c.id
  BY DEF InOrder, LastWord
<1>3. /\ \A k \in 0..Len(q) : Replay(S, p, k) = Replay(S, q, k)
      /\ Replay(S, p, Len(q) + 1) = Applied(Replay(S, q, Len(q)), c)
  BY <1>2, ReplayAppend DEF Says
<1> HIDE DEF p
<1>4. CatchesUp(p, S, Applied(R, c))  BY <1>1, <1>3 DEF InOrder, CatchesUp
<1>5. NeverTooMany(p, S)
  <2> SUFFICES ASSUME NEW k \in 0..Len(p) PROVE Cardinality(Replay(S, p, k)) <= MaxConnections
    BY DEF NeverTooMany
  <2>1. CASE k \in 0..Len(q)  BY <1>3, <2>1 DEF InOrder, NeverTooMany
  <2>2. CASE k = Len(q) + 1  BY <1>3, <2>2 DEF InOrder, CatchesUp
  <2>3. QED  BY <1>1, <2>1, <2>2
<1>6. LastWord(p, E)
  <2> SUFFICES ASSUME NEW j \in 1..Len(p), p[j].op = "deregister"
               PROVE  p[j].id \in E /\ \A k \in j + 1..Len(p) : p[k].id # p[j].id
    BY DEF LastWord
  <2>1. CASE j = Len(q) + 1  BY <1>1, <2>1
  <2>2. CASE j \in 1..Len(q)
    <3>1. q[j].op = "deregister" /\ p[j] = q[j]  BY <1>1, <2>2
    <3>2. q[j].id \in D /\ \A k \in j + 1..Len(q) : q[k].id # q[j].id
      BY <2>2, <3>1 DEF InOrder, LastWord
    <3>3. QED  BY <1>1, <2>2, <3>1, <3>2
  <2>3. QED  BY <1>1, <2>1, <2>2
<1>7. AskedFromInside(p, S)
  <2> SUFFICES ASSUME NEW k \in 1..Len(p), p[k].op = "activeCount"
               PROVE  p[k].id \in Replay(S, p, k - 1)
    BY DEF AskedFromInside
  <2>1. CASE k = Len(q) + 1
    <3>1. k - 1 = Len(q) /\ Len(q) \in 0..Len(q)  BY <1>1, <2>1
    <3>2. QED  BY <1>1, <1>3, <2>1, <3>1 DEF InOrder, CatchesUp
  <2>2. CASE k \in 1..Len(q)
    <3>1. k - 1 \in 0..Len(q)  BY <1>1, <2>2
    <3>2. QED  BY <1>1, <1>3, <2>2, <3>1 DEF InOrder, AskedFromInside
  <2>3. QED  BY <1>1, <2>1, <2>2
<1>8. QED  BY <1>4, <1>5, <1>6, <1>7 DEF InOrder, p

\* The registry that handles the oldest command keeps it in order.
LEMMA HandledInOrder ==
  ASSUME NEW S \in SUBSET Ids, NEW q \in Seq(Cmd), q # <<>>, NEW R, NEW D,
         InOrder(q, S, R, D)
  PROVE  InOrder(Tail(q), Applied(S, Head(q)), R, D)
<1> DEFINE t == Tail(q)
<1> DEFINE U == Applied(S, Head(q))
<1>1. /\ Len(q) \in Nat \ {0} /\ Len(t) = Len(q) - 1
      /\ \A j \in 1..Len(t) : t[j] = q[j + 1]
  BY HeadTailProperties, EmptySeq
<1>2. \A k \in 0..Len(t) : Replay(U, t, k) = Replay(S, q, k + 1)
  BY ReplayTail DEF InOrder
<1> HIDE DEF t, U
<1>3. CatchesUp(t, U, R)  BY <1>1, <1>2 DEF InOrder, CatchesUp
<1>4. NeverTooMany(t, U)
  <2> SUFFICES ASSUME NEW k \in 0..Len(t) PROVE Cardinality(Replay(U, t, k)) <= MaxConnections
    BY DEF NeverTooMany
  <2>1. k + 1 \in 0..Len(q)  BY <1>1
  <2>2. QED  BY <1>2, <2>1 DEF InOrder, NeverTooMany
<1>5. LastWord(t, D)
  <2> SUFFICES ASSUME NEW j \in 1..Len(t), t[j].op = "deregister"
               PROVE  t[j].id \in D /\ \A k \in j + 1..Len(t) : t[k].id # t[j].id
    BY DEF LastWord
  <2>1. j + 1 \in 1..Len(q) /\ t[j] = q[j + 1]  BY <1>1
  <2>2. q[j + 1].id \in D /\ \A k \in j + 2..Len(q) : q[k].id # q[j + 1].id
    BY <2>1 DEF InOrder, LastWord
  <2>3. QED  BY <1>1, <2>1, <2>2
<1>6. AskedFromInside(t, U)
  <2> SUFFICES ASSUME NEW k \in 1..Len(t), t[k].op = "activeCount"
               PROVE  t[k].id \in Replay(U, t, k - 1)
    BY DEF AskedFromInside
  <2>1. k + 1 \in 1..Len(q) /\ t[k] = q[k + 1] /\ k - 1 \in 0..Len(t)  BY <1>1
  <2>2. Replay(U, t, k - 1) = Replay(S, q, k)  BY <1>2, <2>1
  <2>3. QED  BY <2>1, <2>2 DEF InOrder, AskedFromInside
<1>7. QED  BY <1>3, <1>4, <1>5, <1>6 DEF InOrder, t, U

\* The connections whose task has ended, and those whose task has run at all.
Over == {i \in Ids : task[i] \in {"ended", "closed"}}
Started == {i \in Ids : task[i] \notin {"none", "spawned"}}

\* What the registry and the metrics are to the tasks.
NoneAsked == requests = 0 => \A k \in 1..Len(cmds) : cmds[k].op # "activeCount"
StartsCounted == connected = Cardinality(Started)
RegInv ==
  InOrder(cmds, conns, Registered, Over) /\ NoneAsked /\ StartsCounted /\ StatusIsConsistent

\* Connections that hold permits are within the limit.
LEMMA PermitsLimit ==
  ASSUME IInv, NEW R \in SUBSET Holders PROVE Cardinality(R) <= MaxConnections
<1>1. /\ Cardinality(R) \in Nat /\ Cardinality(R) <= Cardinality(Holders)
      /\ Cardinality(Holders) \in Nat
  BY HoldersFinite, FS_Subset, FS_CardinalityType
<1>2. permits \in Nat  BY DEF IInv, TypeOK
<1>3. QED  BY <1>1, <1>2, TcpServerAssumption DEF IInv, PermitsAccounted

\* What the registry believes now is within the limit, and has been counted.
LEMMA BelievedNow ==
  ASSUME IInv, RegInv
  PROVE  /\ Cardinality(conns) \in Nat
         /\ Cardinality(conns) <= MaxConnections
         /\ Cardinality(conns) <= connected
         /\ cmds = <<>> => conns = Registered
<1>1. conns \subseteq Ids /\ cmds \in Seq(Cmd)  BY RegType DEF IInv, TypeOK
<1>2. Len(cmds) \in Nat  BY <1>1, LenProperties
<1>3. Replay(conns, cmds, 0) = conns  BY <1>1 DEF Replay, Says
<1>4. Cardinality(conns) <= MaxConnections
  BY <1>2, <1>3 DEF RegInv, InOrder, NeverTooMany
<1>5. cmds = <<>> => conns = Registered
  BY <1>3, EmptySeq DEF RegInv, InOrder, CatchesUp
<1>6. conns \subseteq Started
  <2> SUFFICES ASSUME NEW i \in conns PROVE i \in Started
    OBVIOUS
  <2>1. CASE Says(cmds, Len(cmds), "deregister", i)
    <3>1. i \in Over  BY <2>1 DEF Says, RegInv, InOrder, LastWord
    <3>2. QED  BY <3>1 DEF Over, Started
  <2>2. CASE ~Says(cmds, Len(cmds), "deregister", i)
    <3>1. i \in Registered  BY <1>1, <2>2 DEF Replay, RegInv, InOrder, CatchesUp
    <3>2. QED  BY <3>1 DEF Registered, Started
  <2>3. QED  BY <2>1, <2>2
<1>7. Started \in SUBSET Ids  BY DEF Started
<1>8. IsFiniteSet(Started)  BY <1>7, IdsFinite
<1>9. Cardinality(conns) \in Nat /\ Cardinality(conns) <= Cardinality(Started)
  BY <1>6, <1>8, FS_Subset, FS_CardinalityType
<1>10. QED  BY <1>4, <1>5, <1>9 DEF RegInv, StartsCounted

\* Nothing has been said, and nothing is believed, at first.
LEMMA RegInit == Init => RegInv
<1> SUFFICES ASSUME Init PROVE RegInv
  OBVIOUS
<1>1. cmds = <<>> /\ Len(cmds) = 0 /\ conns = {}  BY EmptySeq DEF Init, Reg!Init
<1>2. Registered = {} /\ Started = {}  BY DEF Init, Registered, Started
<1>3. Replay(conns, cmds, 0) = {}  BY <1>1 DEF Replay, Says
<1>4. Cardinality({}) = 0  BY FS_EmptySet
<1>5. InOrder(cmds, conns, Registered, Over)
  <2>1. CatchesUp(cmds, conns, Registered)  BY <1>1, <1>2, <1>3 DEF CatchesUp
  <2>2. NeverTooMany(cmds, conns)
    BY <1>1, <1>3, <1>4, TcpServerAssumption DEF NeverTooMany
  <2>3. LastWord(cmds, Over) /\ AskedFromInside(cmds, conns)
    BY <1>1 DEF LastWord, AskedFromInside
  <2>4. QED  BY <2>1, <2>2, <2>3 DEF InOrder
<1>6. StartsCounted  BY <1>2, <1>4 DEF Init, StartsCounted
<1>7. NoneAsked  BY <1>1 DEF NoneAsked
<1>8. StatusIsConsistent  BY DEF Init, Reg!Init, StatusIsConsistent
<1>9. QED  BY <1>5, <1>6, <1>7, <1>8 DEF RegInv

\* A step that sends nothing, and starts or ends no task.
LEMMA RegQuiet ==
  ASSUME TypeOK, RegInv,
         UNCHANGED <<cmds, conns, connected>>, requests' \in {requests, requests + 1},
         \A i \in Ids : reply'[i] \in {reply[i], Reg!Waiting},
         Registered' = Registered, Over' = Over, Started' = Started
  PROVE  RegInv'
<1>0. requests \in Nat  BY DEF TypeOK
<1>1. InOrder(cmds, conns, Registered, Over)'  BY DEF RegInv
<1>2. NoneAsked'  BY <1>0 DEF RegInv, NoneAsked
<1>3. StartsCounted'  BY DEF RegInv, StartsCounted
<1>4. StatusIsConsistent'
  <2> SUFFICES ASSUME NEW i \in Ids, reply'[i] # Reg!Waiting
               PROVE  /\ 1 <= reply'[i] /\ reply'[i] <= MaxConnections
                      /\ reply'[i] <= connected' /\ requests' >= 1
    BY DEF StatusIsConsistent, Reg!Waiting
  <2>1. reply'[i] = reply[i]  OBVIOUS
  <2>2. QED  BY <1>0, <2>1 DEF RegInv, StatusIsConsistent
<1>5. QED  BY <1>1, <1>2, <1>3, <1>4 DEF RegInv

\* A step that sends a command whose sender is not over, and leaves its effect to the
\* registry.
LEMMA RegSends ==
  ASSUME IInv, RegInv, NEW c \in Cmd,
         cmds' = Append(cmds, c), UNCHANGED <<conns, reply>>,
         connected' \in {connected, connected + 1}, StartsCounted',
         requests' \in {requests, requests + 1},
         c.op = "activeCount" => requests' = requests + 1 /\ c.id \in Registered,
         c.id \in Ids \ Over, Over \subseteq Over', c.op = "deregister" => c.id \in Over',
         Registered' = Applied(Registered, c), Registered' \subseteq Holders
  PROVE  RegInv'
<1>0. /\ requests \in Nat /\ connected \in Nat /\ conns \in SUBSET Ids /\ cmds \in Seq(Cmd)
      /\ reply \in [Ids -> Nat \cup {-1}]
  BY RegType DEF IInv, TypeOK
<1>1. Cardinality(Registered') <= MaxConnections  BY PermitsLimit
<1>2. Registered \in SUBSET Ids  BY DEF Registered
<1>3. InOrder(Append(cmds, c), conns, Applied(Registered, c), Over')
  BY <1>0, <1>1, <1>2, SentInOrder DEF RegInv
<1>4. InOrder(cmds, conns, Registered, Over)'  BY <1>3
<1>5. NoneAsked'
  <2>1. /\ Len(cmds) \in Nat /\ Len(cmds') = Len(cmds) + 1
        /\ \A j \in 1..Len(cmds) : cmds'[j] = cmds[j]
        /\ cmds'[Len(cmds) + 1] = c
    BY <1>0, AppendProperties, LenProperties
  <2>2. QED  BY <1>0, <2>1 DEF RegInv, NoneAsked
<1>6. StatusIsConsistent'
  <2> SUFFICES ASSUME NEW i \in Ids, reply[i] # Reg!Waiting
               PROVE  /\ 1 <= reply[i] /\ reply[i] <= MaxConnections
                      /\ reply[i] <= connected' /\ requests' >= 1
    BY DEF StatusIsConsistent, Reg!Waiting
  <2>1. /\ 1 <= reply[i] /\ reply[i] <= MaxConnections
        /\ reply[i] <= connected /\ requests >= 1
    BY DEF RegInv, StatusIsConsistent
  <2>2. reply[i] \in Nat  BY <1>0 DEF Reg!Waiting
  <2>3. QED  BY <1>0, <2>1, <2>2
<1>7. QED  BY <1>4, <1>5, <1>6 DEF RegInv

\* The signal and the accept loop do not talk to the registry.
LEMMA RegLoop == IInv /\ RegInv /\ (Shutdown \/ AcceptLoop) => RegInv'
<1> SUFFICES ASSUME IInv, RegInv, Shutdown \/ AcceptLoop PROVE RegInv'
  OBVIOUS
<1>1. UNCHANGED <<cmds, conns, reply, connected, requests>>
  BY DEF AcceptLoop, Shutdown, Check, Acquire, Break, Accept, AcceptFails, BackoffOver,
         Drained, GraceElapses, metrics, registry
<1>2. Registered' = Registered /\ Over' = Over /\ Started' = Started
  <2>1. CASE Accept
    <3>1. nextId \in Ids /\ task[nextId] = "none"  BY <2>1 DEF Accept, IInv, TypeOK, Numbered
    <3>2. QED  BY <2>1, <3>1 DEF Accept, IInv, TypeOK, Registered, Over, Started
  <2>2. CASE ~Accept
    <3>1. UNCHANGED task
      BY <2>2 DEF AcceptLoop, Shutdown, Check, Acquire, Break, AcceptFails, BackoffOver,
                  Drained, GraceElapses
    <3>2. QED  BY <3>1 DEF Registered, Over, Started
  <2>3. QED  BY <2>1, <2>2
<1>3. TypeOK  BY DEF IInv
<1>4. QED  BY <1>1, <1>2, <1>3, RegQuiet

\* A task that runs for the first time.
LEMMA RegStart == ASSUME IInv, RegInv, NEW i \in Ids, Start(i) PROVE RegInv'
<1> DEFINE reg == [op |-> "register", id |-> i]
<1> DEFINE dereg == [op |-> "deregister", id |-> i]
<1>0. /\ task \in [Ids -> Tasks] /\ connected \in Nat /\ requests \in Nat
      /\ conns \in SUBSET Ids /\ cmds \in Seq(Cmd) /\ reply \in [Ids -> Nat \cup {-1}]
  BY RegType DEF IInv, TypeOK
<1>1. /\ task[i] = "spawned" /\ i \notin Over /\ i \notin Registered /\ i \notin Started
      /\ UNCHANGED <<conns, reply, requests>>
  BY DEF Start, Over, Registered, Started
<1>2. StartsCounted'
  <2>1. Started' = Started \cup {i}  BY <1>0, <1>1 DEF Start, Started
  <2>2. Started \in SUBSET Ids  BY DEF Started
  <2>3. Cardinality(Started') = Cardinality(Started) + 1
    BY <1>1, <2>1, <2>2, IdsFinite, FS_AddElement
  <2>4. QED  BY <2>3 DEF Start, RegInv, StartsCounted
<1>3. reg \in Cmd /\ dereg \in Cmd /\ reg.op = "register" /\ reg.id = i
      /\ dereg.op = "deregister" /\ dereg.id = i
  BY DEF Cmd, Ops
<1> HIDE DEF reg, dereg
<1>4. Registered \cup {i} \in SUBSET Holders  BY <1>1 DEF Registered, Holders
<1>5. CASE ~flag
  <2>1. cmds' = Append(cmds, reg)  BY <1>5 DEF Start, Reg!Send, reg
  <2>2. Registered' = Applied(Registered, reg)
    <3>1. Registered' = Registered \cup {i}  BY <1>0, <1>1, <1>5 DEF Start, Registered
    <3>2. QED  BY <1>3, <3>1 DEF Applied
  <2>3. Over' = Over  BY <1>0, <1>1, <1>5 DEF Start, Over
  <2>4. connected' = connected + 1  BY DEF Start
  <2>5. Registered' \subseteq Holders  BY <1>3, <1>4, <2>2 DEF Applied
  <2>6. QED  BY <1>0, <1>1, <1>2, <1>3, <2>1, <2>2, <2>3, <2>4, <2>5, RegSends
<1>6. CASE flag
  <2>1. cmds' = Append(Append(cmds, reg), dereg)
    <3>1. cmds' = cmds \o <<reg, dereg>>  BY <1>6 DEF Start, reg, dereg
    <3>2. QED  BY <1>0, <1>3, <3>1
  <2>2. /\ Cardinality(Registered \cup {i}) <= MaxConnections
        /\ Cardinality(Registered) <= MaxConnections
    BY <1>4, PermitsLimit
  <2>3. Registered \in SUBSET Ids /\ Registered \cup {i} \in SUBSET Ids  BY DEF Registered
  <2>4. /\ Applied(Registered, reg) = Registered \cup {i}
        /\ Applied(Registered \cup {i}, dereg) = Registered
    BY <1>1, <1>3 DEF Applied
  <2>5. InOrder(Append(cmds, reg), conns, Registered \cup {i}, Over)
    <3>1. InOrder(cmds, conns, Registered, Over)  BY DEF RegInv
    <3>2. InOrder(Append(cmds, reg), conns, Applied(Registered, reg), Over)
      BY <1>0, <1>1, <1>3, <2>2, <2>3, <2>4, <3>1, SentInOrder
    <3>3. QED  BY <2>4, <3>2
  <2>6. Append(cmds, reg) \in Seq(Cmd)  BY <1>0, <1>3, AppendProperties
  <2>7. InOrder(cmds', conns, Registered, Over \cup {i})
    <3>1. InOrder(Append(Append(cmds, reg), dereg), conns,
                  Applied(Registered \cup {i}, dereg), Over \cup {i})
      BY <1>0, <1>1, <1>3, <2>2, <2>3, <2>4, <2>5, <2>6, SentInOrder
    <3>2. QED  BY <2>1, <2>4, <3>1
  <2>8. Over' = Over \cup {i} /\ Registered' = Registered
    BY <1>0, <1>1, <1>6 DEF Start, Over, Registered
  <2>9. InOrder(cmds, conns, Registered, Over)'  BY <1>1, <2>7, <2>8
  <2>10. NoneAsked'
    <3>1. /\ Len(cmds) \in Nat /\ Len(cmds') = Len(cmds) + 2
          /\ \A j \in 1..Len(cmds) : cmds'[j] = cmds[j]
          /\ cmds'[Len(cmds) + 1] = reg /\ cmds'[Len(cmds) + 2] = dereg
      BY <1>0, <1>3, <2>1, <2>6, AppendProperties, LenProperties
    <3>2. QED  BY <1>1, <1>3, <3>1 DEF RegInv, NoneAsked
  <2>11. StatusIsConsistent'
    BY <1>0, <1>1 DEF Start, RegInv, StatusIsConsistent, Reg!Waiting
  <2>12. QED  BY <1>2, <2>9, <2>10, <2>11 DEF RegInv
<1>7. QED  BY <1>5, <1>6

\* A task that ends, goes on, or serves a request.
LEMMA RegProceed ==
  ASSUME IInv, RegInv, NEW i \in Ids,
         task[i] \in {"idle", "head", "body", "write", "refuse"},
         \/ \E b \in Buffers : Proceed(i, b)
         \/ End(i)
         \/ Await(i, "refuse"),
         UNCHANGED <<run, connected, conns, reply, lateAccepts>>
  PROVE  RegInv'
<1>0. /\ task \in [Ids -> Tasks] /\ connected \in Nat /\ requests \in Nat
      /\ conns \in SUBSET Ids /\ cmds \in Seq(Cmd) /\ reply \in [Ids -> Nat \cup {-1}]
      /\ TypeOK
  BY RegType DEF IInv, TypeOK
<1>1. i \in Registered /\ i \in Started /\ i \notin Over /\ Registered \in SUBSET Holders
  BY DEF Registered, Started, Over, Holders
<1>2. ASSUME NEW pc \in {"idle", "head", "body", "write", "refuse", "status"},
             task' = [task EXCEPT ![i] = pc]
      PROVE  Registered' = Registered /\ Over' = Over /\ Started' = Started
  BY <1>0, <1>1, <1>2 DEF Registered, Over, Started
<1>3. CASE End(i)
  <2> DEFINE c == [op |-> "deregister", id |-> i]
  <2>1. c \in Cmd /\ c.op = "deregister" /\ c.id = i  BY DEF Cmd, Ops
  <2>2. cmds' = Append(cmds, c)  BY <1>3 DEF End, Reg!Send
  <2>3. requests' = requests  BY <1>3 DEF End
  <2>4. /\ Started' = Started /\ Over' = Over \cup {i} /\ Registered' = Registered \ {i}
    BY <1>0, <1>1, <1>3 DEF End, Started, Over, Registered
  <2> HIDE DEF c
  <2>5. Registered' = Applied(Registered, c)  BY <2>1, <2>4 DEF Applied
  <2>6. StartsCounted'  BY <2>4 DEF RegInv, StartsCounted
  <2>7. QED  BY <1>0, <1>1, <2>1, <2>2, <2>3, <2>4, <2>5, <2>6, RegSends
<1>4. ASSUME NEW pc \in {"idle", "head", "refuse", "body"}, Await(i, pc) PROVE RegInv'
  <2>1. task' = [task EXCEPT ![i] = pc] /\ UNCHANGED <<cmds, requests>>
    BY <1>4 DEF Await
  <2>2. QED  BY <1>0, <1>2, <2>1, RegQuiet
<1>5. CASE Serve(i)
  <2>1. requests' = requests + 1  BY <1>5 DEF Serve
  <2>2. CASE task' = [task EXCEPT ![i] = "write"] /\ UNCHANGED cmds
    BY <1>0, <1>2, <2>1, <2>2, RegQuiet
  <2>3. CASE task' = [task EXCEPT ![i] = "status"] /\ Reg!Send("activeCount", i)
    <3> DEFINE c == [op |-> "activeCount", id |-> i]
    <3>1. c \in Cmd /\ c.op = "activeCount" /\ c.id = i  BY DEF Cmd, Ops
    <3>2. cmds' = Append(cmds, c)  BY <2>3 DEF Reg!Send
    <3> HIDE DEF c
    <3>3. Registered' = Registered /\ Over' = Over /\ Started' = Started  BY <1>2, <2>3
    <3>4. Registered' = Applied(Registered, c)  BY <3>1, <3>3 DEF Applied
    <3>5. StartsCounted'  BY <3>3 DEF RegInv, StartsCounted
    <3>6. QED  BY <1>0, <1>1, <2>1, <3>1, <3>2, <3>3, <3>4, <3>5, RegSends
  <2>4. QED  BY <1>5, <2>2, <2>3 DEF Serve
<1>6. QED  BY <1>3, <1>4, <1>5 DEF Proceed

\* Every step of a task.
LEMMA RegTask == ASSUME IInv, RegInv, NEW i \in Ids, TaskStep(i) PROVE RegInv'
<1>0. TypeOK /\ task \in [Ids -> Tasks] /\ reply \in [Ids -> Nat \cup {-1}]
  BY RegType DEF IInv, TypeOK
<1>1. CASE CountArrives(i)
  <2>1. UNCHANGED <<cmds, conns, connected, requests>>
    BY <1>1 DEF CountArrives, Reg!Receive, metrics
  <2>2. \A j \in Ids : reply'[j] \in {reply[j], Reg!Waiting}
    BY <1>0, <1>1 DEF CountArrives, Reg!Receive
  <2>3. Registered' = Registered /\ Over' = Over /\ Started' = Started
    BY <1>0, <1>1 DEF CountArrives, Registered, Over, Started
  <2>4. QED  BY <1>0, <2>1, <2>2, <2>3, RegQuiet
<1>2. CASE Release(i)
  <2>1. UNCHANGED <<cmds, conns, reply, connected, requests>>
    BY <1>2 DEF Release, registry, metrics
  <2>2. Registered' = Registered /\ Over' = Over /\ Started' = Started
    BY <1>0, <1>2 DEF Release, Registered, Over, Started
  <2>3. QED  BY <1>0, <2>1, <2>2, RegQuiet
<1>3. CASE \/ ReadIdle(i) \/ ReadHead(i) \/ ReadBody(i) \/ Written(i)
  BY <1>3, RegProceed DEF ReadIdle, ReadHead, ReadBody, Written, Step, Buffers
<1>4. CASE \/ IdleEnds(i) \/ ReadFails(i) \/ WriteEnds(i) \/ Refused(i) \/ ReadTimesOut(i)
  BY <1>4, RegProceed DEF IdleEnds, ReadFails, WriteEnds, Refused, Fail, ReadTimesOut
<1>5. QED  BY <1>1, <1>2, <1>3, <1>4, RegStart DEF TaskStep

\* The registry handles a command: a count it sends back is that of the connections it
\* believes in, and the one that asked is among them.
LEMMA RegHandles == IInv /\ RegInv /\ RegistryStep => RegInv'
<1> SUFFICES ASSUME IInv, RegInv, RegistryStep PROVE RegInv'
  OBVIOUS
<1>0. /\ requests \in Nat /\ conns \in SUBSET Ids /\ cmds \in Seq(Cmd) /\ cmds # <<>>
      /\ reply \in [Ids -> Nat \cup {-1}]
  BY RegType DEF IInv, TypeOK, RegistryStep, Reg!Handle
<1>1. UNCHANGED <<task, connected, requests>> /\ cmds' = Tail(cmds)
  BY DEF RegistryStep, Reg!Handle, metrics
<1> DEFINE h == Head(cmds)
<1>2. /\ Len(cmds) \in Nat \ {0} /\ Len(cmds') = Len(cmds) - 1
      /\ \A j \in 1..Len(cmds') : cmds'[j] = cmds[j + 1]
      /\ h = cmds[1] /\ h \in Cmd
  BY <1>0, <1>1, HeadTailProperties, EmptySeq
<1>3. h.op \in Ops /\ h.id \in Ids  BY <1>2 DEF Cmd
<1>4. conns' = Applied(conns, h)  BY DEF RegistryStep, Reg!Handle, Applied
<1> HIDE DEF h
<1>5. Registered' = Registered /\ Over' = Over /\ Started' = Started
  BY <1>1 DEF Registered, Over, Started
<1>6. InOrder(Tail(cmds), Applied(conns, h), Registered, Over)
  BY <1>0, HandledInOrder DEF RegInv, h
<1>7. InOrder(cmds, conns, Registered, Over)'  BY <1>1, <1>4, <1>5, <1>6
<1>8. NoneAsked'  BY <1>1, <1>2 DEF RegInv, NoneAsked
<1>9. StartsCounted'  BY <1>1, <1>5 DEF RegInv, StartsCounted
<1>10. StatusIsConsistent'
  <2>1. CASE h.op = "activeCount"
    <3>1. h.id \in conns
      <4>1. 1 \in 1..Len(cmds) /\ cmds[1].op = "activeCount"  BY <1>2, <2>1
      <4>2. h.id \in Replay(conns, cmds, 1 - 1)
        BY <1>2, <4>1 DEF RegInv, InOrder, AskedFromInside
      <4>3. QED  BY <4>2 DEF Replay, Says
    <3>2. IsFiniteSet(conns)  BY <1>0, IdsFinite
    <3>3. 1 <= Cardinality(conns)
      BY <3>1, <3>2, FS_EmptySet, FS_CardinalityType
    <3>4. requests >= 1  BY <1>0, <1>2, <2>1 DEF RegInv, NoneAsked
    <3>5. reply' = [reply EXCEPT ![h.id] = Cardinality(conns)]
      BY <2>1, SameCardinality DEF RegistryStep, Reg!Handle, h
    <3>6. QED
      BY <1>0, <1>1, <1>3, <3>3, <3>4, <3>5, BelievedNow
         DEF RegInv, StatusIsConsistent, Reg!Waiting
  <2>2. CASE h.op # "activeCount"
    <3>1. UNCHANGED reply  BY <2>2 DEF RegistryStep, Reg!Handle, h
    <3>2. QED  BY <1>1, <3>1 DEF RegInv, StatusIsConsistent, Reg!Waiting
  <2>3. QED  BY <2>1, <2>2
<1>11. QED  BY <1>7, <1>8, <1>9, <1>10 DEF RegInv

\* The registry's channel stays in order, whatever the tasks and the registry do.
THEOREM RegistryInductive == Spec => [](IInv /\ RegInv)
<1>1. Init => IInv /\ RegInv  BY IInvInit, RegInit
<1>2. IInv /\ RegInv /\ [Next]_vars => RegInv'
  <2> SUFFICES ASSUME IInv, RegInv, [Next]_vars PROVE RegInv'
    OBVIOUS
  <2>1. CASE UNCHANGED vars
    <3>1. UNCHANGED <<cmds, conns, reply, connected, requests, task>>
      BY <2>1 DEF vars, metrics, registry
    <3>2. Registered' = Registered /\ Over' = Over /\ Started' = Started
      BY <3>1 DEF Registered, Over, Started
    <3>3. TypeOK  BY DEF IInv
    <3>4. QED  BY <3>1, <3>2, <3>3, RegQuiet
  <2>2. QED  BY <2>1, RegLoop, RegTask, RegHandles DEF Next
<1>3. QED  BY <1>1, <1>2, Inductive, PTL DEF Spec

\* The registry never counts more connections than there are permits, although it hears
\* of ends late: server.rs drops a connection's guard before its permit.
THEOREM RegistryNeverOverfull == Spec => []RegistryWithinLimit
<1>1. IInv /\ RegInv => RegistryWithinLimit  BY BelievedNow DEF RegistryWithinLimit
<1>2. QED  BY <1>1, RegistryInductive, PTL

\* A registry that has caught up knows exactly the connections being handled: none is
\* leaked, and none is missing.
THEOREM RegistryIsAccurate == Spec => []RegistryCatchesUp
<1>1. IInv /\ RegInv => RegistryCatchesUp  BY BelievedNow DEF RegistryCatchesUp
<1>2. QED  BY <1>1, RegistryInductive, PTL

\* The counts of one answer to /status fit each other and the limit.
THEOREM StatusAnswersAreConsistent == Spec => []StatusIsConsistent
<1>1. RegInv => StatusIsConsistent  BY DEF RegInv
<1>2. QED  BY <1>1, RegistryInductive, PTL
==============================================================================
