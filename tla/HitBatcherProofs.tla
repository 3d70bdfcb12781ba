--------------------------- MODULE HitBatcherProofs ----------------------------
(****************************************************************************)
(* Theorems about HitBatcher: types, bounded memory, what a flush promises  *)
(* and that no accepted hit is stranded, for any codes, callers, capacity   *)
(* and cap on the map.  The argument is a conservation law, Conserved, and  *)
(* a statement about the place of every flush in the queue, Queued; it also *)
(* gives the refinement of HitCounter.                                      *)
(****************************************************************************)
EXTENDS HitBatcher, FiniteSetTheorems, SequenceTheorems, TLAPS

Messages == Codes \cup Flushers

\* 1 when message m is a hit of c.
IsHit(m, c) == IF m = c THEN 1 ELSE 0

\* Every accepted hit is settled, in the map or in the channel.
Conserved ==
  \A c \in Codes : accepted[c] = Settled(c) + pending[c] + InChannel(c)

\* A queued flush has one place, its caller waits, and the hits accepted before the
\* call are settled, in the map, or ahead of it.
Place(i) ==
  /\ caller[chan[i]] = "waiting" /\ after # chan[i]
  /\ \A j \in 1..Len(chan) : chan[j] = chan[i] => j = i
  /\ \A c \in Codes : mark[chan[i]][c] <= Settled(c) + pending[c] + Count(chan, i - 1, c)

Queued == \A i \in 1..Len(chan) : chan[i] \in Flushers => Place(i)

\* The flush being served: its hits are settled or in the map that is being written.
Serving ==
  after \in Flushers =>
    /\ caller[after] = "waiting"
    /\ \A c \in Codes : mark[after][c] <= Settled(c) + pending[c]

\* What was accepted when a flush began was not more than is now, and main's is all.
Marked ==
  /\ \A f \in Flushers, c \in Codes : mark[f][c] <= accepted[c]
  /\ caller[Main] # "idle" => phase \in {"stopping", "stopped"} /\ mark[Main] = accepted

\* Without senders nobody flushes, and the task that exits leaves an empty channel.
Deserted ==
  /\ phase = "dropped" => \A f \in Flushers : caller[f] = "idle"
  /\ after = "exit" => phase = "dropped" /\ chan = <<>>

\* The inductive invariant.
IInv ==
  /\ TypeOK /\ Bounded /\ Conserved
  /\ Queued /\ Serving /\ Marked /\ Deserted
  /\ FlushCovers /\ NothingStranded

------------------------------------------------------------------------------
\* Counting the hits of a code in a prefix of the channel.

\* A count is a number.
LEMMA CountType == ASSUME NEW s, NEW n \in Int, NEW c PROVE Count(s, n, c) \in Nat
<1>1. IsFiniteSet(1..n)  BY FS_Interval
<1>2. {i \in 1..n : s[i] = c} \in SUBSET (1..n)  OBVIOUS
<1>3. QED  BY <1>1, <1>2, FS_Subset, FS_CardinalityType DEF Count

\* Nothing is in an empty prefix.
LEMMA CountNone == ASSUME NEW s, NEW c PROVE Count(s, 0, c) = 0
<1>1. {i \in 1..0 : s[i] = c} = {}  OBVIOUS
<1>2. QED  BY <1>1, FS_EmptySet DEF Count

\* A new message leaves the counts of what was there.
LEMMA CountPrefix ==
  ASSUME NEW s \in Seq(Messages), NEW m \in Messages, NEW n \in 0..Len(s), NEW c
  PROVE  Count(Append(s, m), n, c) = Count(s, n, c)
<1>1. Len(s) \in Nat  BY LenProperties
<1>2. \A i \in 1..n : Append(s, m)[i] = s[i]  BY <1>1, AppendProperties
<1>3. {i \in 1..n : Append(s, m)[i] = c} = {i \in 1..n : s[i] = c}  BY <1>2
<1>4. QED  BY <1>3 DEF Count

\* A new message is counted when it is a hit of the code.
LEMMA CountAppend ==
  ASSUME NEW s \in Seq(Messages), NEW m \in Messages, NEW c
  PROVE  Count(Append(s, m), Len(s) + 1, c) = Count(s, Len(s), c) + IsHit(m, c)
<1> DEFINE N == Len(s)
           Old == {i \in 1..N : s[i] = c}
           New == {i \in 1..N + 1 : Append(s, m)[i] = c}
<1>1. N \in Nat  BY LenProperties
<1>2. Append(s, m)[N + 1] = m /\ \A i \in 1..N : Append(s, m)[i] = s[i]
  BY AppendProperties
<1>3. IsFiniteSet(Old) /\ Cardinality(Old) \in Nat
  <2>1. IsFiniteSet(1..N)  BY <1>1, FS_Interval
  <2>2. Old \in SUBSET (1..N)  OBVIOUS
  <2>3. QED  BY <2>1, <2>2, FS_Subset, FS_CardinalityType
<1>4. CASE m = c
  <2>1. New = Old \cup {N + 1}  BY <1>1, <1>2, <1>4
  <2>2. N + 1 \notin Old  BY <1>1
  <2>3. Cardinality(New) = Cardinality(Old) + 1
    BY <1>3, <2>1, <2>2, FS_AddElement
  <2>4. QED  BY <1>4, <2>3 DEF Count, IsHit
<1>5. CASE m # c
  <2>1. New = Old  BY <1>1, <1>2, <1>5
  <2>2. Count(Append(s, m), Len(s) + 1, c) = Cardinality(New)  BY DEF Count
  <2>3. Count(s, Len(s), c) = Cardinality(Old)  BY DEF Count
  <2>4. IsHit(m, c) = 0  BY <1>5 DEF IsHit
  <2> HIDE DEF Old, New
  <2>5. QED  BY <1>3, <2>1, <2>2, <2>3, <2>4
<1>6. QED  BY <1>4, <1>5

\* Taking the first message moves every other one up a place.
LEMMA CountTail ==
  ASSUME NEW s \in Seq(Messages), s # <<>>, NEW n \in 0..Len(s) - 1, NEW c
  PROVE  Count(s, n + 1, c) = Count(Tail(s), n, c) + IsHit(Head(s), c)
<1> DEFINE Short == {i \in 1..n : Tail(s)[i] = c}
           Moved == {i \in 2..n + 1 : s[i] = c}
           All == {i \in 1..n + 1 : s[i] = c}
           Up == [i \in Short |-> i + 1]
<1>1. Len(s) \in Nat \ {0}  BY EmptySeq
<1>2. \A i \in 1..n : Tail(s)[i] = s[i + 1]
  <2>1. Len(Tail(s)) = Len(s) - 1 /\ \A i \in 1..Len(Tail(s)) : Tail(s)[i] = s[i + 1]
    BY HeadTailProperties
  <2>2. QED  BY <1>1, <2>1
<1>3. Head(s) = s[1]  OBVIOUS
<1>4. IsFiniteSet(Short) /\ Cardinality(Short) \in Nat
  <2>1. IsFiniteSet(1..n)  BY FS_Interval
  <2>2. Short \in SUBSET (1..n)  OBVIOUS
  <2>3. QED  BY <2>1, <2>2, FS_Subset, FS_CardinalityType
<1>5. IsFiniteSet(Moved) /\ Cardinality(Moved) = Cardinality(Short)
  <2>1. Up \in [Short -> Moved]  BY <1>2
  <2>2. \A a, b \in Short : Up[a] = Up[b] => a = b  OBVIOUS
  <2>3. \A t \in Moved : \E a \in Short : Up[a] = t
    <3> TAKE t \in Moved
    <3>1. t - 1 \in Short  BY <1>2
    <3>2. Up[t - 1] = t  BY <3>1
    <3>3. QED  BY <3>1, <3>2
  <2>4. Up \in Bijection(Short, Moved)
    BY <2>1, <2>2, <2>3 DEF Bijection, Injection, Surjection, IsInjective
  <2>5. QED  BY <1>4, <2>4, FS_Bijection DEF ExistsBijection
<1>6. CASE Head(s) = c
  <2>1. All = Moved \cup {1}  BY <1>3, <1>6
  <2>2. 1 \notin Moved  OBVIOUS
  <2>3. Cardinality(All) = Cardinality(Moved) + 1
    BY <1>5, <2>1, <2>2, FS_AddElement
  <2>4. QED  BY <1>5, <1>6, <2>3 DEF Count, IsHit
<1>7. CASE Head(s) # c
  <2>1. All = Moved  BY <1>3, <1>7
  <2>2. Count(s, n + 1, c) = Cardinality(All)  BY DEF Count
  <2>3. Count(Tail(s), n, c) = Cardinality(Short)  BY DEF Count
  <2>4. IsHit(Head(s), c) = 0  BY <1>7 DEF IsHit
  <2> HIDE DEF Short, Moved, All
  <2>5. QED  BY <1>4, <1>5, <2>1, <2>2, <2>3, <2>4
<1>8. QED  BY <1>6, <1>7

------------------------------------------------------------------------------
\* The channel before and after a step.

\* What a send does to the channel.
LEMMA Sent ==
  ASSUME TypeOK, NEW m \in Messages, chan' = Append(chan, m)
  PROVE  /\ Len(chan) \in Nat /\ Len(chan') = Len(chan) + 1
         /\ chan' \in Seq(Messages)
         /\ \A i \in 1..Len(chan') : i \in 1..Len(chan) \/ i = Len(chan) + 1
         /\ \A i \in 1..Len(chan) : chan'[i] = chan[i]
         /\ chan'[Len(chan) + 1] = m
         /\ \A n \in 0..Len(chan), c \in Codes : Count(chan', n, c) = Count(chan, n, c)
         /\ \A c \in Codes : InChannel(c)' = InChannel(c) + IsHit(m, c)
<1>1. chan \in Seq(Messages)  BY DEF TypeOK, Messages
<1>2. /\ Len(chan) \in Nat /\ Len(chan') = Len(chan) + 1 /\ chan' \in Seq(Messages)
      /\ \A i \in 1..Len(chan) : chan'[i] = chan[i]
      /\ chan'[Len(chan) + 1] = m
  BY <1>1, LenProperties, AppendProperties
<1>3. \A n \in 0..Len(chan), c \in Codes : Count(chan', n, c) = Count(chan, n, c)
  BY <1>1, CountPrefix
<1>4. \A c \in Codes : InChannel(c)' = InChannel(c) + IsHit(m, c)
  BY <1>1, <1>2, CountAppend DEF InChannel
<1>5. QED  BY <1>2, <1>3, <1>4

\* What a receive does to it.
LEMMA Received ==
  ASSUME TypeOK, chan # <<>>, chan' = Tail(chan)
  PROVE  /\ Head(chan) \in Messages /\ Head(chan) = chan[1]
         /\ Len(chan) \in Nat \ {0} /\ Len(chan') = Len(chan) - 1
         /\ chan' \in Seq(Messages)
         /\ \A i \in 1..Len(chan') : chan'[i] = chan[i + 1]
         /\ \A i \in 1..Len(chan'), c \in Codes :
              Count(chan, i, c) = Count(chan', i - 1, c) + IsHit(Head(chan), c)
         /\ \A c \in Codes : InChannel(c) = InChannel(c)' + IsHit(Head(chan), c)
<1>1. chan \in Seq(Messages)  BY DEF TypeOK, Messages
<1>2. /\ Head(chan) \in Messages /\ Head(chan) = chan[1]
      /\ Len(chan) \in Nat \ {0} /\ Len(chan') = Len(chan) - 1
      /\ chan' \in Seq(Messages)
      /\ \A i \in 1..Len(chan') : chan'[i] = chan[i + 1]
  BY <1>1, EmptySeq, HeadTailProperties
<1>3. \A n \in 0..Len(chan) - 1, c \in Codes :
        Count(chan, n + 1, c) = Count(chan', n, c) + IsHit(Head(chan), c)
  BY <1>1, CountTail
<1>4. \A i \in 1..Len(chan'), c \in Codes :
        Count(chan, i, c) = Count(chan', i - 1, c) + IsHit(Head(chan), c)
  <2> TAKE i \in 1..Len(chan'), c \in Codes
  <2>1. i - 1 \in 0..Len(chan) - 1 /\ (i - 1) + 1 = i  BY <1>2
  <2>2. QED  BY <1>3, <2>1
<1>5. \A c \in Codes : InChannel(c) = InChannel(c)' + IsHit(Head(chan), c)
  <2> TAKE c \in Codes
  <2>1. Len(chan') \in 0..Len(chan) - 1 /\ Len(chan') + 1 = Len(chan)  BY <1>2
  <2>2. QED  BY <1>3, <2>1 DEF InChannel
<1>6. QED  BY <1>2, <1>4, <1>5

\* The counts of the channel are numbers.
LEMMA Counts ==
  ASSUME TypeOK
  PROVE  /\ Len(chan) \in Nat
         /\ \A c \in Codes : InChannel(c) \in Nat
         /\ \A n \in Int, c \in Codes : Count(chan, n, c) \in Nat
<1>1. Len(chan) \in Nat  BY LenProperties DEF TypeOK
<1>2. QED  BY <1>1, CountType DEF InChannel

------------------------------------------------------------------------------
\* Type correctness.

\* The callers keep the types.
LEMMA TypeCallers ==
  ASSUME TypeOK, \/ \E c \in Codes : Record(c)
                 \/ \E f \in Flushers : FlushStep(f)
  PROVE  TypeOK'
<1>1. ASSUME NEW c \in Codes, Record(c) PROVE TypeOK'
  <2>1. chan' \in Seq(Messages)  BY <1>1, Sent DEF Record, Messages
  <2>2. QED  BY <1>1, <2>1 DEF Record, TypeOK, Messages
<1>2. ASSUME NEW f \in Flushers, CallFlush(f) PROVE TypeOK'
  <2>1. chan' \in Seq(Messages)
    <3>1. CASE chan' = Append(chan, f)  BY <3>1, Sent DEF Messages
    <3>2. CASE UNCHANGED chan  BY <3>2 DEF TypeOK, Messages
    <3>3. QED  BY <1>2, <3>1, <3>2 DEF CallFlush
  <2>2. caller' \in [Flushers -> {"idle", "blocked", "waiting", "returned"}]
    BY <1>2 DEF CallFlush, TypeOK
  <2>3. mark' \in [Flushers -> [Codes -> Nat]]  BY <1>2 DEF CallFlush, TypeOK
  <2>4. QED  BY <1>2, <2>1, <2>2, <2>3 DEF CallFlush, TypeOK, Messages, ledger
<1>3. ASSUME NEW f \in Flushers, SendFlush(f) PROVE TypeOK'
  <2>1. chan' \in Seq(Messages)  BY <1>3, Sent DEF SendFlush, Messages
  <2>2. QED  BY <1>3, <2>1 DEF SendFlush, TypeOK, Messages, ledger
<1>4. ASSUME NEW f \in Flushers, ReturnFlush(f) PROVE TypeOK'
  BY <1>4 DEF ReturnFlush, TypeOK, ledger
<1>5. QED  BY <1>1, <1>2, <1>3, <1>4 DEF FlushStep

\* So does the task.
LEMMA TypeTask == ASSUME TypeOK, TaskStep \/ TimerTick PROVE TypeOK'
<1>1. CASE RecvHit
  <2>1. chan' \in Seq(Messages)  BY <1>1, Received DEF RecvHit
  <2>2. pending' \in [Codes -> Nat]  BY <1>1 DEF RecvHit, TypeOK
  <2>3. QED  BY <1>1, <2>1, <2>2 DEF RecvHit, TypeOK, Messages, ledger
<1>2. CASE RecvFlush
  <2>1. chan' \in Seq(Messages)  BY <1>2, Received DEF RecvFlush
  <2>2. QED  BY <1>2, <2>1 DEF RecvFlush, TypeOK, Messages, ledger
<1>3. CASE RecvNone  BY <1>3 DEF RecvNone, TypeOK, ledger
<1>4. ASSUME NEW c \in Codes, WriteOne(c) PROVE TypeOK'
  <2>1. pending' \in [Codes -> Nat]  BY <1>4 DEF WriteOne, TypeOK
  <2>2. pending[c] \in Nat /\ counted \in [Codes -> Nat] /\ lost \in [Codes -> Nat]
    BY DEF TypeOK
  <2>3. counted' \in [Codes -> Nat]
    <3>1. CASE UNCHANGED counted  BY <2>2, <3>1
    <3>2. CASE counted' = [counted EXCEPT ![c] = @ + pending[c]]  BY <2>2, <3>2
    <3>3. QED  BY <1>4, <3>1, <3>2 DEF WriteOne
  <2>4. lost' \in [Codes -> Nat]
    <3>1. CASE UNCHANGED lost  BY <2>2, <3>1
    <3>2. CASE lost' = [lost EXCEPT ![c] = @ + pending[c]]  BY <2>2, <3>2
    <3>3. QED  BY <1>4, <3>1, <3>2 DEF WriteOne
  <2>5. QED  BY <1>4, <2>1, <2>3, <2>4 DEF WriteOne, TypeOK
<1>5. CASE Written  BY <1>5 DEF Written, TypeOK, ledger
<1>6. CASE TimerTick  BY <1>6 DEF TimerTick, TypeOK, ledger
<1>7. QED  BY <1>1, <1>2, <1>3, <1>4, <1>5, <1>6 DEF TaskStep

\* And the process.
LEMMA TypeProcess ==
  ASSUME TypeOK, StopServing \/ Abort \/ DropRecorder \/ UNCHANGED vars
  PROVE  TypeOK'
<1>1. CASE StopServing  BY <1>1 DEF StopServing, TypeOK, ledger
<1>2. CASE Abort
  <2>1. chan' \in Seq(Codes \cup Flushers)  BY <1>2, EmptySeq DEF Abort
  <2>2. QED  BY <1>2, <2>1 DEF Abort, TypeOK, None, ledger
<1>3. CASE DropRecorder  BY <1>3 DEF DropRecorder, TypeOK, ledger
<1>4. CASE UNCHANGED vars  BY <1>4 DEF vars, TypeOK
<1>5. QED  BY <1>1, <1>2, <1>3, <1>4

\* The types hold initially.
LEMMA TypeInit == Init => TypeOK
<1> SUFFICES ASSUME Init PROVE TypeOK  OBVIOUS
<1>1. chan \in Seq(Codes \cup Flushers)  BY EmptySeq DEF Init
<1>2. QED  BY <1>1 DEF Init, TypeOK, None

\* Every step keeps the types.
LEMMA TypeStep == TypeOK /\ [Next]_vars => TypeOK'
BY TypeCallers, TypeTask, TypeProcess DEF Next

\* The code's types are kept by every step.
THEOREM TypeCorrect == Spec => []TypeOK
BY TypeInit, TypeStep, PTL DEF Spec

------------------------------------------------------------------------------
\* Bounded memory.

\* The codes of the map are finitely many.
LEMMA PendingFinite ==
  /\ IsFiniteSet(PendingCodes) /\ Cardinality(PendingCodes) \in Nat
<1>1. PendingCodes \in SUBSET Codes  BY DEF PendingCodes
<1>2. QED  BY <1>1, HitBatcherAssumption, FS_Subset, FS_CardinalityType

\* A free slot is a free place in the channel.
LEMMA SlotIsPlace == ASSUME TypeOK, SlotFree PROVE Len(chan) < Capacity
<1>1. Blocked \in SUBSET Flushers  BY DEF Blocked
<1>2. Cardinality(Blocked) \in Nat
  BY <1>1, HitBatcherAssumption, FS_Subset, FS_CardinalityType
<1>3. Len(chan) \in Nat /\ Capacity \in Nat  BY Counts, HitBatcherAssumption
<1>4. QED  BY <1>2, <1>3 DEF SlotFree

\* Removing a code from the map only shrinks it.
LEMMA Shrinks ==
  ASSUME PendingCodes' \subseteq PendingCodes
  PROVE  Cardinality(PendingCodes') \in Nat
         /\ Cardinality(PendingCodes') <= Cardinality(PendingCodes)
BY PendingFinite, FS_Subset, FS_CardinalityType

\* Whoever sends has a slot, and the map is written when it reaches its cap.
LEMMA BoundedStep == ASSUME TypeOK, Bounded, [Next]_vars PROVE Bounded'
<1> USE HitBatcherAssumption DEF Bounded
<1>0. Len(chan) \in Nat  BY Counts
<1>1. ASSUME NEW c \in Codes, Record(c) PROVE Bounded'
  <2>1. Len(chan') = Len(chan) + 1  BY <1>1, Sent DEF Record, Messages
  <2>2. UNCHANGED <<PendingCodes, task>>  BY <1>1 DEF Record, PendingCodes
  <2>3. QED  BY <1>0, <1>1, <2>1, <2>2, SlotIsPlace DEF Record
<1>2. ASSUME NEW f \in Flushers, FlushStep(f) PROVE Bounded'
  <2>1. UNCHANGED <<pending, task>>
    BY <1>2 DEF FlushStep, CallFlush, SendFlush, ReturnFlush
  <2>2. UNCHANGED PendingCodes  BY <2>1 DEF PendingCodes
  <2>3. \/ chan' = Append(chan, f) /\ Len(chan) < Capacity
        \/ UNCHANGED chan
    BY <1>2, SlotIsPlace DEF FlushStep, CallFlush, SendFlush, ReturnFlush
  <2>4. chan' = Append(chan, f) => Len(chan') = Len(chan) + 1  BY Sent DEF Messages
  <2>5. QED  BY <1>0, <2>1, <2>2, <2>3, <2>4
<1>3. CASE RecvHit
  <2>1. Len(chan') <= Capacity  BY <1>0, <1>3, Received DEF RecvHit
  <2>2. PendingCodes' \in SUBSET (PendingCodes \cup {Head(chan)})
    BY <1>3 DEF RecvHit, PendingCodes, TypeOK
  <2>3. /\ IsFiniteSet(PendingCodes \cup {Head(chan)})
        /\ Cardinality(PendingCodes \cup {Head(chan)}) <= Cardinality(PendingCodes) + 1
    <3>1. IsFiniteSet(PendingCodes) /\ Cardinality(PendingCodes) \in Nat
      BY PendingFinite
    <3>2. /\ IsFiniteSet(PendingCodes \cup {Head(chan)})
          /\ Cardinality(PendingCodes \cup {Head(chan)})
               = IF Head(chan) \in PendingCodes THEN Cardinality(PendingCodes)
                 ELSE Cardinality(PendingCodes) + 1
      BY <3>1, FS_AddElement, Zenon
    <3>3. QED  BY <3>1, <3>2
  <2>4. /\ Cardinality(PendingCodes') \in Nat
        /\ Cardinality(PendingCodes') <= Cardinality(PendingCodes \cup {Head(chan)})
    BY <2>2, <2>3, FS_Subset, FS_CardinalityType
  <2>5. Cardinality(PendingCodes \cup {Head(chan)}) \in Nat
    BY <2>3, FS_CardinalityType
  <2>6. Cardinality(PendingCodes') <= MaxPending
    BY <1>3, <2>3, <2>4, <2>5, PendingFinite DEF RecvHit
  <2>7. task' = "select" => Cardinality(PendingCodes') < MaxPending
    BY <1>3, <2>4 DEF RecvHit, PendingCodes
  <2>8. QED  BY <2>1, <2>6, <2>7
<1>4. CASE RecvFlush
  <2>1. Len(chan') <= Capacity  BY <1>0, <1>4, Received DEF RecvFlush
  <2>2. UNCHANGED PendingCodes /\ task' = "write"  BY <1>4 DEF RecvFlush, PendingCodes
  <2>3. QED  BY <2>1, <2>2
<1>5. CASE RecvNone \/ TimerTick
  <2>1. UNCHANGED <<PendingCodes, chan>> /\ task' = "write"
    BY <1>5 DEF RecvNone, TimerTick, PendingCodes
  <2>2. QED  BY <2>1
<1>6. ASSUME NEW c \in Codes, WriteOne(c) PROVE Bounded'
  <2>1. PendingCodes' \subseteq PendingCodes
    BY <1>6 DEF WriteOne, PendingCodes, TypeOK
  <2>2. QED  BY <1>6, <2>1, Shrinks, PendingFinite DEF WriteOne
<1>7. CASE Written
  <2>1. PendingCodes' = {} /\ UNCHANGED chan  BY <1>7 DEF Written, PendingCodes
  <2>2. QED  BY <2>1, FS_EmptySet
<1>8. CASE Abort
  <2>1. PendingCodes' = {} /\ chan' = <<>>  BY <1>8 DEF Abort, PendingCodes, None
  <2>2. Len(chan') = 0  BY <2>1, EmptySeq
  <2>3. QED  BY <2>1, <2>2, FS_EmptySet
<1>9. CASE StopServing \/ DropRecorder \/ UNCHANGED vars
  BY <1>9 DEF StopServing, DropRecorder, vars, PendingCodes
<1>10. QED
  BY <1>1, <1>2, <1>3, <1>4, <1>5, <1>6, <1>7, <1>8, <1>9 DEF Next, TaskStep

\* Memory is bounded whatever the burst of redirects and flushes, for any capacity and
\* any cap on the map.
THEOREM MemoryBounded == Spec => []Bounded
<1>1. Init => Bounded
  <2> SUFFICES ASSUME Init PROVE Bounded  OBVIOUS
  <2>1. PendingCodes = {} /\ Len(chan) = 0  BY EmptySeq DEF Init, PendingCodes, None
  <2>2. QED  BY <2>1, FS_EmptySet, HitBatcherAssumption DEF Bounded
<1>2. QED  BY <1>1, BoundedStep, TypeCorrect, PTL DEF Spec

------------------------------------------------------------------------------
\* What the task owes: the parts of the invariant beyond types and bounds.
Owed ==
  /\ Conserved /\ Queued /\ Serving /\ Marked /\ Deserted
  /\ FlushCovers /\ NothingStranded

\* A step that moves no hit and no message changes no count.
LEMMA Still ==
  ASSUME UNCHANGED <<chan, pending, ledger>>
  PROVE  /\ \A c \in Codes : InChannel(c)' = InChannel(c)
         /\ \A c \in Codes : Settled(c)' = Settled(c)
         /\ \A n \in Int, c \in Codes : Count(chan', n, c) = Count(chan, n, c)
BY DEF InChannel, Settled, ledger

\* A redirect joins the queue behind every flush there.
LEMMA OwedRecord == ASSUME IInv, NEW c \in Codes, Record(c) PROVE Owed'
<1> USE HitBatcherAssumption DEF IInv, TypeOK
<1>0. /\ Len(chan) \in Nat /\ Len(chan') = Len(chan) + 1
      /\ \A i \in 1..Len(chan') : i \in 1..Len(chan) \/ i = Len(chan) + 1
      /\ \A i \in 1..Len(chan) : chan'[i] = chan[i]
      /\ chan'[Len(chan) + 1] = c
      /\ \A n \in 0..Len(chan), d \in Codes : Count(chan', n, d) = Count(chan, n, d)
      /\ \A d \in Codes : InChannel(d)' = InChannel(d) + IsHit(c, d)
  BY Sent DEF Record, Messages
<1>1. /\ phase = "serving" /\ task # "gone"
      /\ accepted' = [accepted EXCEPT ![c] = @ + 1]
      /\ UNCHANGED <<pending, task, after, caller, phase, counted, lost, mark>>
  BY DEF Record
<1>2. \A d \in Codes : Settled(d)' = Settled(d)  BY <1>1 DEF Settled
<1>3. Conserved'
  <2> SUFFICES ASSUME NEW d \in Codes
               PROVE  (accepted[d] = Settled(d) + pending[d] + InChannel(d))'
    BY DEF Conserved
  <2>1. accepted'[d] = accepted[d] + IsHit(c, d)  BY <1>1 DEF IsHit
  <2>2. InChannel(d) \in Nat /\ IsHit(c, d) \in Nat  BY Counts DEF IsHit
  <2>3. Settled(d) \in Nat /\ pending[d] \in Nat /\ accepted[d] \in Nat  BY DEF Settled
  <2>4. accepted[d] = Settled(d) + pending[d] + InChannel(d)  BY DEF Conserved
  <2>5. QED  BY <1>0, <1>1, <1>2, <2>1, <2>2, <2>3, <2>4
<1>4. Queued'
  <2>1. c \notin Flushers  OBVIOUS
  <2> SUFFICES ASSUME NEW i \in 1..Len(chan'), chan'[i] \in Flushers
               PROVE  Place(i)'
    BY DEF Queued, Place
  <2>2. i \in 1..Len(chan) /\ chan'[i] = chan[i]  BY <1>0, <2>1
  <2>3. \A j \in 1..Len(chan') : chan'[j] = chan'[i] => j = i
    BY <1>0, <2>1, <2>2 DEF Queued, Place
  <2>4. \A d \in Codes : Count(chan', i - 1, d) = Count(chan, i - 1, d)
    <3>1. i - 1 \in 0..Len(chan)  BY <1>0, <2>2
    <3>2. QED  BY <1>0, <3>1
  <2>5. QED  BY <1>1, <1>2, <2>2, <2>3, <2>4 DEF Queued, Place
<1>5. Serving'  BY <1>1, <1>2 DEF Serving
<1>6. Marked'  BY <1>1 DEF Marked
<1>7. QED
  BY <1>1, <1>2, <1>3, <1>4, <1>5, <1>6 DEF Owed, Deserted, FlushCovers, NothingStranded

\* A flush joins the queue behind every hit accepted so far, or finds the task gone with
\* nothing left to write.
LEMMA OwedEnqueue ==
  ASSUME IInv, NEW f \in Flushers, caller[f] \in {"idle", "blocked"}, phase # "dropped",
         mark' \in {mark, [mark EXCEPT ![f] = accepted]},
         f = Main => mark'[f] = accepted /\ phase \in {"stopping", "stopped"},
         chan' = Append(chan, f), caller' = [caller EXCEPT ![f] = "waiting"],
         UNCHANGED <<pending, task, after, phase, ledger>>, task # "gone"
  PROVE  Owed'
<1> USE HitBatcherAssumption DEF IInv, TypeOK
<1>0. /\ Len(chan) \in Nat /\ Len(chan') = Len(chan) + 1
      /\ \A i \in 1..Len(chan') : i \in 1..Len(chan) \/ i = Len(chan) + 1
      /\ \A i \in 1..Len(chan) : chan'[i] = chan[i]
      /\ chan'[Len(chan) + 1] = f
      /\ \A n \in 0..Len(chan), d \in Codes : Count(chan', n, d) = Count(chan, n, d)
      /\ \A d \in Codes : InChannel(d)' = InChannel(d) + IsHit(f, d)
  BY Sent DEF Messages
<1>1. \A d \in Codes : IsHit(f, d) = 0 /\ InChannel(d) \in Nat  BY Counts DEF IsHit
<1>2. \A d \in Codes : Settled(d)' = Settled(d)  BY DEF Settled, ledger
<1>3. Conserved'  BY <1>0, <1>1, <1>2 DEF Conserved, ledger, Settled
<1>4. \A g \in Flushers : g # f => mark'[g] = mark[g] /\ caller'[g] = caller[g]
  OBVIOUS
<1>5. Marked'
  <2>1. \A g \in Flushers, d \in Codes : mark'[g][d] <= accepted[d]
    <3> TAKE g \in Flushers, d \in Codes
    <3>1. mark'[g] \in {mark[g], accepted}  OBVIOUS
    <3>2. mark[g][d] <= accepted[d] /\ accepted[d] <= accepted[d]  BY DEF Marked
    <3>3. QED  BY <3>1, <3>2
  <2>2. caller'[Main] # "idle" => phase \in {"stopping", "stopped"} /\ mark'[Main] = accepted
    BY <1>4 DEF Marked
  <2>3. QED  BY <2>1, <2>2 DEF Marked, ledger
<1>6. f # after /\ \A i \in 1..Len(chan) : chan[i] # f
  BY DEF Queued, Place, Serving
<1>7. Queued'
  <2> SUFFICES ASSUME NEW i \in 1..Len(chan'), chan'[i] \in Flushers
               PROVE  Place(i)'
    BY DEF Queued, Place
  <2>1. CASE i \in 1..Len(chan)
    <3>1. chan'[i] = chan[i] /\ chan[i] # f /\ Place(i)
      BY <1>0, <1>6, <2>1 DEF Queued
    <3>2. ASSUME NEW j \in 1..Len(chan'), chan'[j] = chan'[i] PROVE j = i
      <4>1. j # Len(chan) + 1  BY <1>0, <3>1, <3>2
      <4>2. j \in 1..Len(chan)  BY <1>0, <4>1
      <4>3. QED  BY <1>0, <3>1, <3>2, <4>2 DEF Place
    <3>3. \A d \in Codes : Count(chan', i - 1, d) = Count(chan, i - 1, d)
      <4>1. i - 1 \in 0..Len(chan)  BY <1>0, <2>1
      <4>2. QED  BY <1>0, <4>1
    <3>4. mark'[chan[i]] = mark[chan[i]] /\ caller'[chan[i]] = caller[chan[i]]
      BY <1>4, <3>1
    <3>5. QED  BY <1>2, <3>1, <3>2, <3>3, <3>4 DEF Place
  <2>2. CASE i = Len(chan) + 1
    <3>1. chan'[i] = f  BY <1>0, <2>2
    <3>2. \A j \in 1..Len(chan') : chan'[j] = f => j = i  BY <1>0, <1>6, <2>2
    <3>3. \A d \in Codes : Count(chan', i - 1, d) = InChannel(d)
      <4>1. i - 1 = Len(chan) /\ Len(chan) \in 0..Len(chan)  BY <1>0, <2>2
      <4>2. \A d \in Codes : Count(chan', Len(chan), d) = Count(chan, Len(chan), d)
        BY <1>0, <4>1
      <4>3. QED  BY <4>1, <4>2 DEF InChannel
    <3>4. \A d \in Codes : mark'[f][d] <= Settled(d)' + pending'[d] + Count(chan', i - 1, d)
      <4> TAKE d \in Codes
      <4>1. mark'[f][d] <= accepted[d]  BY DEF Marked
      <4>2. QED  BY <1>2, <3>3, <4>1 DEF Conserved
    <3>5. caller'[f] = "waiting" /\ after' # f  BY <1>6
    <3>6. QED  BY <3>1, <3>2, <3>4, <3>5 DEF Place
  <2>3. QED  BY <1>0, <2>1, <2>2
<1>8. Serving'  BY <1>2, <1>4, <1>6 DEF Serving
<1>9. FlushCovers'  BY <1>2, <1>4 DEF FlushCovers
<1>10. Deserted'  BY DEF Deserted
<1>11. QED  BY <1>3, <1>5, <1>7, <1>8, <1>9, <1>10 DEF Owed, NothingStranded

\* A step that leaves the channel alone keeps the queue in order, if it leaves the queued
\* callers alone and loses no hit.
LEMMA QueuedKept ==
  ASSUME IInv, UNCHANGED chan,
         \A c \in Codes : Settled(c)' + pending'[c] = Settled(c) + pending[c],
         \A i \in 1..Len(chan) : chan[i] \in Flushers =>
           /\ caller'[chan[i]] = "waiting" /\ after' # chan[i]
           /\ mark'[chan[i]] = mark[chan[i]]
  PROVE  Queued'
BY DEF IInv, Queued, Place

\* A caller that does not enter the queue: it waits for a slot, finds the task gone and
\* everything settled, or is idle again.
LEMMA OwedAside ==
  ASSUME IInv, NEW f \in Flushers, caller[f] # "waiting", phase # "dropped",
         NEW at \in {"blocked", "returned", "idle"},
         at = "returned" => task = "gone",
         caller' = [caller EXCEPT ![f] = at],
         mark' \in {mark, [mark EXCEPT ![f] = accepted]},
         f = Main => mark'[f] = accepted /\ phase \in {"stopping", "stopped"},
         UNCHANGED <<chan, pending, task, after, phase, ledger>>
  PROVE  Owed'
<1> USE HitBatcherAssumption DEF TypeOK
<1>1. TypeOK  BY DEF IInv
<1>2. \A c \in Codes : Settled(c)' = Settled(c)  BY Still
<1>3. f # after /\ \A i \in 1..Len(chan) : chan[i] # f
  BY DEF IInv, Queued, Place, Serving
<1>4. \A g \in Flushers : g # f => mark'[g] = mark[g] /\ caller'[g] = caller[g]
  BY <1>1
<1>5. Queued'  BY <1>2, <1>3, <1>4, QueuedKept DEF IInv, Queued, Place
<1>6. Serving'  BY <1>2, <1>3, <1>4 DEF IInv, Serving
<1>7. Marked'
  <2>1. \A g \in Flushers, d \in Codes : mark'[g][d] <= accepted[d]
    <3> TAKE g \in Flushers, d \in Codes
    <3>1. mark'[g] \in {mark[g], accepted}  BY <1>1
    <3>2. mark[g][d] <= accepted[d] /\ accepted[d] <= accepted[d]  BY <1>1 DEF IInv, Marked
    <3>3. QED  BY <3>1, <3>2
  <2>2. caller'[Main] # "idle" => phase \in {"stopping", "stopped"} /\ mark'[Main] = accepted
    BY <1>4 DEF IInv, Marked
  <2>3. QED  BY <2>1, <2>2 DEF Marked, ledger
<1>8. FlushCovers'
  <2> SUFFICES ASSUME NEW g \in Flushers, caller'[g] = "returned", NEW c \in Codes
               PROVE  mark'[g][c] <= Settled(c)'
    BY DEF FlushCovers
  <2>1. CASE g = f
    <3>1. task = "gone"  BY <1>1, <2>1
    <3>2. accepted[c] = Settled(c)  BY <3>1 DEF IInv, NothingStranded
    <3>3. mark'[f][c] <= accepted[c]  BY <1>7 DEF Marked, ledger
    <3>4. QED  BY <1>2, <2>1, <3>2, <3>3
  <2>2. CASE g # f  BY <1>2, <1>4, <2>2 DEF IInv, FlushCovers
  <2>3. QED  BY <2>1, <2>2
<1>9. Conserved'  BY <1>2, Still DEF IInv, Conserved, ledger
<1>10. Deserted'  BY DEF IInv, Deserted
<1>11. NothingStranded'  BY <1>2 DEF IInv, NothingStranded, ledger
<1>12. QED  BY <1>5, <1>6, <1>7, <1>8, <1>9, <1>10, <1>11 DEF Owed

\* Callers of flush, whatever the channel and the task are doing.
LEMMA OwedFlush == ASSUME IInv, NEW f \in Flushers, FlushStep(f) PROVE Owed'
<1> USE HitBatcherAssumption
<1>0. TypeOK  BY DEF IInv
<1>1. CASE CallFlush(f)
  <2>1. /\ caller[f] = "idle" /\ phase # "dropped" /\ (f = Main <=> phase = "stopping")
        /\ mark' = [mark EXCEPT ![f] = accepted]
        /\ UNCHANGED <<pending, task, after, phase, ledger>>
    BY <1>1 DEF CallFlush
  <2>2. mark'[f] = accepted  BY <1>0, <2>1 DEF TypeOK
  <2>3. CASE task # "gone" /\ chan' = Append(chan, f) /\ caller' = [caller EXCEPT ![f] = "waiting"]
    BY <2>1, <2>2, <2>3, OwedEnqueue
  <2>4. CASE \/ UNCHANGED chan /\ caller' = [caller EXCEPT ![f] = "blocked"]
             \/ UNCHANGED chan /\ caller' = [caller EXCEPT ![f] = "returned"] /\ task = "gone"
    BY <2>1, <2>2, <2>4, OwedAside
  <2>5. QED  BY <1>1, <2>3, <2>4 DEF CallFlush
<1>2. CASE SendFlush(f)
  <2>1. /\ caller[f] = "blocked" /\ task # "gone" /\ chan' = Append(chan, f)
        /\ caller' = [caller EXCEPT ![f] = "waiting"]
        /\ UNCHANGED <<pending, task, after, phase, ledger, mark>>
    BY <1>2 DEF SendFlush
  <2>2. phase # "dropped" /\ (f = Main => mark[f] = accepted /\ phase \in {"stopping", "stopped"})
    BY <2>1 DEF IInv, Deserted, Marked
  <2>3. QED  BY <2>1, <2>2, OwedEnqueue
<1>3. CASE ReturnFlush(f)
  <2>1. /\ caller[f] = "returned" /\ f # Main
        /\ caller' = [caller EXCEPT ![f] = "idle"]
        /\ UNCHANGED <<chan, pending, task, after, phase, ledger, mark>>
    BY <1>3 DEF ReturnFlush
  <2>2. phase # "dropped"  BY <2>1 DEF IInv, Deserted
  <2>3. QED  BY <2>1, <2>2, OwedAside
<1>4. QED  BY <1>1, <1>2, <1>3 DEF FlushStep

\* Taking a message keeps every flush behind it where it is, relative to the hits that
\* are settled, in the map or ahead: a hit only moves from the channel to the map.
LEMMA QueuedShifts ==
  ASSUME IInv, chan # <<>>, chan' = Tail(chan),
         \A c \in Codes : pending'[c] = pending[c] + IsHit(Head(chan), c),
         after' \in {after, Head(chan)},
         UNCHANGED <<caller, mark, ledger>>
  PROVE  Queued'
<1>0. TypeOK  BY DEF IInv
<1>1. /\ Head(chan) = chan[1]
      /\ Len(chan) \in Nat \ {0} /\ Len(chan') = Len(chan) - 1
      /\ \A i \in 1..Len(chan') : chan'[i] = chan[i + 1]
      /\ \A i \in 1..Len(chan'), c \in Codes :
           Count(chan, i, c) = Count(chan', i - 1, c) + IsHit(Head(chan), c)
  BY <1>0, Received
<1>2. SUFFICES ASSUME NEW i \in 1..Len(chan'), chan'[i] \in Flushers
               PROVE  Place(i)'
  BY DEF Queued
<1>3. i + 1 \in 1..Len(chan) /\ 1 \in 1..Len(chan) /\ i + 1 # 1 /\ (i + 1) - 1 = i
      /\ i - 1 \in Int
  BY <1>1
<1>4. chan'[i] = chan[i + 1] /\ Place(i + 1)  BY <1>1, <1>2, <1>3 DEF IInv, Queued
<1>5. chan[i + 1] # Head(chan)  BY <1>1, <1>3, <1>4 DEF Place
<1>6. caller'[chan'[i]] = "waiting" /\ after' # chan'[i]  BY <1>4, <1>5 DEF Place
<1>7. ASSUME NEW j \in 1..Len(chan'), chan'[j] = chan'[i] PROVE j = i
  <2>1. j + 1 \in 1..Len(chan) /\ chan[j + 1] = chan[i + 1]  BY <1>1, <1>4, <1>7
  <2>2. j + 1 = i + 1  BY <1>4, <2>1 DEF Place
  <2>3. QED  BY <1>3, <2>2
<1>8. ASSUME NEW c \in Codes
      PROVE  mark'[chan'[i]][c] <= Settled(c)' + pending'[c] + Count(chan', i - 1, c)
  <2>1. mark[chan[i + 1]][c] <= Settled(c) + pending[c] + Count(chan, i, c)
    BY <1>3, <1>4 DEF Place
  <2>2. Count(chan, i, c) = Count(chan', i - 1, c) + IsHit(Head(chan), c)  BY <1>1
  <2>3. pending'[c] = pending[c] + IsHit(Head(chan), c) /\ Settled(c)' = Settled(c)
    BY DEF Settled, ledger
  <2>4. /\ Settled(c) \in Nat /\ pending[c] \in Nat /\ Count(chan', i - 1, c) \in Nat
        /\ IsHit(Head(chan), c) \in Nat
    BY <1>0, <1>3, CountType DEF TypeOK, Settled, IsHit
  <2>5. QED  BY <1>4, <2>1, <2>2, <2>3, <2>4
<1>9. QED  BY <1>6, <1>7, <1>8 DEF Place

\* A hit goes from the channel to the map.
LEMMA OwedHit == ASSUME IInv, RecvHit PROVE Owed'
<1>0. TypeOK  BY DEF IInv
<1>1. /\ task = "select" /\ chan # <<>> /\ Head(chan) \in Codes /\ chan' = Tail(chan)
      /\ pending' = [pending EXCEPT ![Head(chan)] = @ + 1]
      /\ task' \in {"write", "select"}
      /\ UNCHANGED <<after, caller, phase, ledger, mark>>
  BY DEF RecvHit
<1>2. \A c \in Codes : pending'[c] = pending[c] + IsHit(Head(chan), c)
  BY <1>0, <1>1 DEF TypeOK, IsHit
<1>3. Queued'  BY <1>1, <1>2, QueuedShifts
<1>4. \A c \in Codes : Settled(c)' = Settled(c)  BY <1>1 DEF Settled, ledger
<1>5. Conserved'
  <2> SUFFICES ASSUME NEW c \in Codes
               PROVE  (accepted[c] = Settled(c) + pending[c] + InChannel(c))'
    BY DEF Conserved
  <2>1. InChannel(c) = InChannel(c)' + IsHit(Head(chan), c)  BY <1>0, <1>1, Received
  <2>2. accepted[c] = Settled(c) + pending[c] + InChannel(c)  BY DEF IInv, Conserved
  <2>3. chan' \in Seq(Messages)  BY <1>0, <1>1, Received
  <2>4. InChannel(c)' \in Nat  BY <2>3, CountType, LenProperties DEF InChannel
  <2>5. Settled(c) \in Nat /\ pending[c] \in Nat /\ IsHit(Head(chan), c) \in Nat
    BY <1>0 DEF TypeOK, Settled, IsHit
  <2>6. QED  BY <1>1, <1>2, <1>4, <2>1, <2>2, <2>4, <2>5 DEF ledger
<1>6. Serving'
  <2> SUFFICES ASSUME after \in Flushers, NEW c \in Codes
               PROVE  caller[after] = "waiting" /\ mark[after][c] <= Settled(c) + pending'[c]
    BY <1>1, <1>4 DEF Serving, IInv
  <2>1. caller[after] = "waiting" /\ mark[after][c] <= Settled(c) + pending[c]
    BY DEF IInv, Serving
  <2>2. pending'[c] = pending[c] + IsHit(Head(chan), c) /\ IsHit(Head(chan), c) \in Nat
    BY <1>2 DEF IsHit
  <2>3. mark[after][c] \in Nat /\ Settled(c) \in Nat /\ pending[c] \in Nat
    BY <1>0 DEF TypeOK, Settled
  <2>4. QED  BY <2>1, <2>2, <2>3
<1>7. Marked' /\ FlushCovers' /\ NothingStranded'
  BY <1>1, <1>4 DEF IInv, Marked, FlushCovers, NothingStranded, ledger
<1>8. Deserted'  BY <1>1 DEF IInv, Deserted
<1>9. QED  BY <1>3, <1>5, <1>6, <1>7, <1>8 DEF Owed

\* A flush reaches the head: what it must cover is settled or in the map.
LEMMA OwedTakeFlush == ASSUME IInv, RecvFlush PROVE Owed'
<1>0. TypeOK  BY DEF IInv
<1>1. /\ task = "select" /\ chan # <<>> /\ Head(chan) \in Flushers /\ chan' = Tail(chan)
      /\ task' = "write" /\ after' = Head(chan)
      /\ UNCHANGED <<pending, caller, phase, ledger, mark>>
  BY DEF RecvFlush
<1>2. \A c \in Codes : IsHit(Head(chan), c) = 0  BY <1>1, HitBatcherAssumption DEF IsHit
<1>3. \A c \in Codes : pending'[c] = pending[c] + IsHit(Head(chan), c)
  BY <1>0, <1>1, <1>2 DEF TypeOK
<1>4. Queued'  BY <1>1, <1>3, QueuedShifts
<1>5. \A c \in Codes : Settled(c)' = Settled(c)  BY <1>1 DEF Settled, ledger
<1>6. Head(chan) = chan[1] /\ 1 \in 1..Len(chan) /\ chan' \in Seq(Messages)
  BY <1>0, <1>1, Received
<1>7. Conserved'
  <2> SUFFICES ASSUME NEW c \in Codes
               PROVE  (accepted[c] = Settled(c) + pending[c] + InChannel(c))'
    BY DEF Conserved
  <2>1. InChannel(c) = InChannel(c)' + IsHit(Head(chan), c)  BY <1>0, <1>1, Received
  <2>2. InChannel(c)' \in Nat  BY <1>6, CountType, LenProperties DEF InChannel
  <2>3. InChannel(c)' = InChannel(c)  BY <1>2, <2>1, <2>2
  <2>4. QED  BY <1>1, <1>5, <2>3 DEF IInv, Conserved, ledger
<1>8. Serving'
  <2>1. Place(1)  BY <1>1, <1>6 DEF IInv, Queued
  <2>2. ASSUME NEW c \in Codes
        PROVE  mark[Head(chan)][c] <= Settled(c) + pending[c]
    <3>1. Count(chan, 1 - 1, c) = 0  BY CountNone
    <3>2. mark[Head(chan)][c] <= Settled(c) + pending[c] + 0  BY <1>6, <2>1, <3>1 DEF Place
    <3>3. Settled(c) + pending[c] \in Nat  BY <1>0 DEF TypeOK, Settled
    <3>4. QED  BY <3>2, <3>3
  <2>3. QED  BY <1>1, <1>5, <1>6, <2>1, <2>2 DEF Serving, Place
<1>9. Marked' /\ FlushCovers' /\ NothingStranded'
  BY <1>1, <1>5 DEF IInv, Marked, FlushCovers, NothingStranded, ledger
<1>10. Deserted'  BY <1>1, HitBatcherAssumption DEF IInv, Deserted, TypeOK
<1>11. QED  BY <1>4, <1>7, <1>8, <1>9, <1>10 DEF Owed

\* No more hits will come, or the timer fires: the write begins with the map as it is.
LEMMA OwedStart ==
  ASSUME IInv, RecvNone \/ TimerTick \/ StopServing \/ DropRecorder \/ UNCHANGED vars
  PROVE  Owed'
<1>0. TypeOK  BY DEF IInv
<1>1. /\ UNCHANGED <<chan, pending, caller, mark, ledger>>
      /\ \/ UNCHANGED <<after, phase, task>>
         \/ task' = "write" /\ UNCHANGED phase
            /\ \/ UNCHANGED after
               \/ after' = "exit" /\ chan = <<>> /\ phase = "dropped"
         \/ phase = "serving" /\ phase' \in {"stopping", "dropped"} /\ UNCHANGED <<task, after>>
            /\ (phase' = "dropped" => \A f \in Flushers : caller[f] = "idle")
  BY DEF RecvNone, TimerTick, StopServing, DropRecorder, vars, ledger
<1>2. \A c \in Codes : Settled(c)' = Settled(c) /\ InChannel(c)' = InChannel(c)
  BY <1>1, Still
<1>3. Conserved'  BY <1>1, <1>2 DEF IInv, Conserved, ledger
<1>4. Queued'
  <2>1. \A i \in 1..Len(chan) : chan[i] \in Flushers => after' # chan[i]
    BY <1>1, HitBatcherAssumption DEF IInv, Queued, Place
  <2>2. QED  BY <1>1, <1>2, <2>1, QueuedKept DEF IInv, Queued, Place
<1>5. Serving'  BY <1>1, <1>2, HitBatcherAssumption DEF IInv, Serving
<1>6. Marked'  BY <1>1, HitBatcherAssumption DEF IInv, Marked, ledger
<1>7. Deserted'  BY <1>0, <1>1 DEF IInv, Deserted
<1>8. FlushCovers'  BY <1>1, <1>2 DEF IInv, FlushCovers
<1>9. NothingStranded'  BY <1>1, <1>2 DEF IInv, NothingStranded, ledger
<1>10. QED  BY <1>3, <1>4, <1>5, <1>6, <1>7, <1>8, <1>9 DEF Owed

\* Writing the sum of a code settles it, counted or lost.
LEMMA OwedWrite == ASSUME IInv, NEW c \in Codes, WriteOne(c) PROVE Owed'
<1>0. TypeOK  BY DEF IInv
<1>1. /\ task = "write" /\ pending' = [pending EXCEPT ![c] = 0]
      /\ UNCHANGED <<chan, task, after, caller, phase, accepted, mark>>
  BY DEF WriteOne
<1>2. \A d \in Codes : /\ Settled(d)' + pending'[d] = Settled(d) + pending[d]
                       /\ Settled(d) <= Settled(d)'
  <2> TAKE d \in Codes
  <2>1. CASE d = c
    <3>1. Settled(c)' = Settled(c) + pending[c] /\ pending'[c] = 0
      <4>1. CASE counted' = [counted EXCEPT ![c] = @ + pending[c]] /\ UNCHANGED lost
        BY <1>0, <1>1, <4>1 DEF TypeOK, Settled
      <4>2. CASE lost' = [lost EXCEPT ![c] = @ + pending[c]] /\ UNCHANGED counted
        BY <1>0, <1>1, <4>2 DEF TypeOK, Settled
      <4>3. QED  BY <4>1, <4>2 DEF WriteOne
    <3>2. pending[c] \in Nat /\ Settled(c) \in Nat  BY <1>0 DEF TypeOK, Settled
    <3>3. QED  BY <2>1, <3>1, <3>2
  <2>2. CASE d # c
    <3>1. counted'[d] = counted[d] /\ lost'[d] = lost[d] /\ pending'[d] = pending[d]
      BY <1>0, <2>2 DEF WriteOne, TypeOK
    <3>2. Settled(d) \in Nat  BY <1>0 DEF TypeOK, Settled
    <3>3. QED  BY <3>1, <3>2 DEF Settled
  <2>3. QED  BY <2>1, <2>2
<1>3. TypeOK'  BY <1>0, TypeTask DEF TaskStep
<1>4. Queued'  BY <1>1, <1>2, QueuedKept DEF IInv, Queued, Place
<1>5. Conserved'
  <2>1. \A d \in Codes : InChannel(d)' = InChannel(d)  BY <1>1 DEF InChannel
  <2>2. QED  BY <1>1, <1>2, <2>1 DEF IInv, Conserved
<1>6. Serving'  BY <1>1, <1>2 DEF IInv, Serving
<1>7. FlushCovers'
  <2> SUFFICES ASSUME NEW f \in Flushers, caller[f] = "returned", NEW d \in Codes
               PROVE  mark[f][d] <= Settled(d)'
    BY <1>1 DEF FlushCovers
  <2>1. mark[f][d] <= Settled(d) /\ Settled(d) <= Settled(d)'
    BY <1>2 DEF IInv, FlushCovers
  <2>2. mark[f][d] \in Nat /\ Settled(d) \in Nat  BY <1>0 DEF TypeOK, Settled
  <2>3. Settled(d)' \in Nat
    <3>1. counted'[d] \in Nat /\ lost'[d] \in Nat  BY <1>3 DEF TypeOK
    <3>2. QED  BY <3>1 DEF Settled
  <2>4. QED  BY <2>1, <2>2, <2>3
<1>8. Marked' /\ NothingStranded' /\ Deserted'
  BY <1>1 DEF IInv, Marked, NothingStranded, Deserted
<1>9. QED  BY <1>4, <1>5, <1>6, <1>7, <1>8 DEF Owed

\* The map is empty: the flush being served is covered, and a task that exits leaves
\* nothing behind.
LEMMA OwedWritten == ASSUME IInv, Written PROVE Owed'
<1>0. TypeOK  BY DEF IInv
<1>1. /\ task = "write" /\ PendingCodes = {}
      /\ task' = IF after = "exit" THEN "gone" ELSE "select"
      /\ caller' = IF after \in Flushers THEN [caller EXCEPT ![after] = "returned"] ELSE caller
      /\ after' = "loop"
      /\ UNCHANGED <<chan, pending, phase, ledger, mark>>
  BY DEF Written
<1>2. \A c \in Codes : Settled(c)' = Settled(c) /\ InChannel(c)' = InChannel(c)
  BY <1>1, Still
<1>3. \A c \in Codes : pending[c] = 0
  BY <1>0, <1>1 DEF TypeOK, PendingCodes
<1>4. \A f \in Flushers : f # after => caller'[f] = caller[f]
  BY <1>0, <1>1 DEF TypeOK
<1>5. after \in Flushers => caller[after] = "waiting" /\ caller'[after] = "returned"
  BY <1>0, <1>1 DEF TypeOK, IInv, Serving
<1>6. "loop" \notin Flushers  BY HitBatcherAssumption
<1>7. Queued'
  <2>1. \A i \in 1..Len(chan) : chan[i] \in Flushers =>
           /\ caller'[chan[i]] = "waiting" /\ after' # chan[i]
           /\ mark'[chan[i]] = mark[chan[i]]
    BY <1>1, <1>4, <1>6 DEF IInv, Queued, Place
  <2>2. QED  BY <1>1, <1>2, <2>1, QueuedKept
<1>8. Conserved'  BY <1>1, <1>2 DEF IInv, Conserved, ledger
<1>9. Serving'  BY <1>1, <1>6 DEF Serving
<1>10. Marked'
  <2>1. caller'[Main] # "idle" => caller[Main] # "idle"
    BY <1>4, <1>5, HitBatcherAssumption
  <2>2. QED  BY <1>1, <2>1 DEF IInv, Marked, ledger
<1>11. Deserted'
  <2>1. phase = "dropped" => after \notin Flushers
    BY <1>5, HitBatcherAssumption DEF IInv, Deserted
  <2>2. QED  BY <1>1, <2>1 DEF IInv, Deserted
<1>12. FlushCovers'
  <2> SUFFICES ASSUME NEW f \in Flushers, caller'[f] = "returned", NEW c \in Codes
               PROVE  mark[f][c] <= Settled(c)
    BY <1>1, <1>2 DEF FlushCovers
  <2>1. CASE f = after
    <3>1. mark[f][c] <= Settled(c) + pending[c] /\ pending[c] = 0
      BY <1>3, <2>1 DEF IInv, Serving
    <3>2. Settled(c) \in Nat  BY <1>0 DEF TypeOK, Settled
    <3>3. QED  BY <3>1, <3>2
  <2>2. CASE f # after  BY <1>4, <2>2 DEF IInv, FlushCovers
  <2>3. QED  BY <2>1, <2>2
<1>13. NothingStranded'
  <2> SUFFICES ASSUME after = "exit", NEW c \in Codes PROVE accepted[c] = Settled(c)
    BY <1>1, <1>2 DEF NothingStranded, ledger
  <2>1. Len(chan) = 0  BY EmptySeq DEF IInv, Deserted
  <2>2. InChannel(c) = 0  BY <2>1, CountNone DEF InChannel
  <2>3. accepted[c] = Settled(c) + 0 + 0  BY <1>3, <2>2 DEF IInv, Conserved
  <2>4. Settled(c) \in Nat  BY <1>0 DEF TypeOK, Settled
  <2>5. QED  BY <2>3, <2>4
<1>14. QED  BY <1>7, <1>8, <1>9, <1>10, <1>11, <1>12, <1>13 DEF Owed

\* main aborts after its flush: that covered every hit, so there is nothing to lose.
LEMMA OwedAbort == ASSUME IInv, Abort PROVE Owed'
<1>0. TypeOK  BY DEF IInv
<1>1. /\ phase = "stopping" /\ caller[Main] = "returned"
      /\ phase' = "stopped" /\ task' = "gone"
      /\ caller' = [f \in Flushers |-> IF caller[f] = "idle" THEN "idle" ELSE "returned"]
      /\ chan' = <<>> /\ pending' = None /\ after' = "loop"
      /\ UNCHANGED <<ledger, mark>>
  BY DEF Abort
<1>2. "loop" \notin Flushers /\ Main \in Flushers  BY HitBatcherAssumption
<1>3. Len(chan') = 0  BY <1>1, EmptySeq
<1>4. \A c \in Codes : Settled(c)' = Settled(c) /\ InChannel(c)' = 0 /\ pending'[c] = 0
  BY <1>1, <1>3, CountNone DEF Settled, InChannel, None, ledger
<1>5. \A c \in Codes : accepted[c] = Settled(c)
  <2> TAKE c \in Codes
  <2>1. accepted[c] <= Settled(c)
    BY <1>1, <1>2 DEF IInv, FlushCovers, Marked
  <2>2. accepted[c] = Settled(c) + pending[c] + InChannel(c)  BY DEF IInv, Conserved
  <2>3. InChannel(c) \in Nat /\ pending[c] \in Nat /\ Settled(c) \in Nat
    BY <1>0, Counts DEF TypeOK, Settled
  <2>4. QED  BY <2>1, <2>2, <2>3
<1>6. Conserved'
  <2>1. \A c \in Codes : Settled(c) \in Nat  BY <1>0 DEF TypeOK, Settled
  <2>2. QED  BY <1>1, <1>4, <1>5, <2>1 DEF Conserved, ledger
<1>7. NothingStranded'  BY <1>1, <1>4, <1>5 DEF NothingStranded, ledger
<1>8. FlushCovers'  BY <1>1, <1>4, <1>5 DEF IInv, Marked, FlushCovers
<1>9. Marked'  BY <1>1, <1>2 DEF IInv, Marked, ledger
<1>10. Queued'  BY <1>3 DEF Queued
<1>11. Serving' /\ Deserted'  BY <1>1, <1>2 DEF Serving, Deserted
<1>12. QED  BY <1>6, <1>7, <1>8, <1>9, <1>10, <1>11 DEF Owed

------------------------------------------------------------------------------
\* The invariant holds initially.
LEMMA IInvInit == Init => IInv
<1> SUFFICES ASSUME Init PROVE IInv  OBVIOUS
<1>1. TypeOK  BY TypeInit
<1>2. Len(chan) = 0 /\ PendingCodes = {}  BY EmptySeq DEF Init, PendingCodes, None
<1>3. Bounded  BY <1>2, FS_EmptySet, HitBatcherAssumption DEF Bounded
<1>4. \A c \in Codes : InChannel(c) = 0 /\ Settled(c) = 0 /\ pending[c] = 0 /\ accepted[c] = 0
  BY <1>2, CountNone DEF InChannel, Settled, Init, None
<1>5. Conserved  BY <1>4 DEF Conserved
<1>6. Queued  BY <1>2 DEF Queued
<1>7. Serving /\ Deserted  BY HitBatcherAssumption DEF Init, Serving, Deserted
<1>8. Marked  BY HitBatcherAssumption DEF Init, Marked, None
<1>9. FlushCovers /\ NothingStranded  BY DEF Init, FlushCovers, NothingStranded
<1>10. QED  BY <1>1, <1>3, <1>5, <1>6, <1>7, <1>8, <1>9 DEF IInv

\* Every step keeps the invariant.
LEMMA BatcherKeeps == IInv /\ [Next]_vars => IInv'
<1> SUFFICES ASSUME IInv, [Next]_vars PROVE IInv'  OBVIOUS
<1>1. TypeOK'  BY TypeStep DEF IInv
<1>2. Bounded'  BY BoundedStep DEF IInv
<1>3. Owed'
  BY OwedRecord, OwedFlush, OwedHit, OwedTakeFlush, OwedStart, OwedWrite, OwedWritten,
     OwedAbort DEF Next, TaskStep
<1>4. QED  BY <1>1, <1>2, <1>3 DEF Owed, IInv

\* The invariant is inductive, and holds always.
THEOREM Inductive == Spec => []IInv
BY IInvInit, BatcherKeeps, PTL DEF Spec

\* A flush that returns has settled every hit accepted before it was called, whoever
\* else flushes, redirects or stops the process meanwhile, also when it had to wait for
\* a slot or found the task gone.
THEOREM FlushIsComplete == Spec => []FlushCovers
BY Inductive, PTL DEF IInv

\* Neither the abort in main nor the exit of the task loses an accepted hit.
THEOREM ShutdownLosesNothing == Spec => []NothingStranded
BY Inductive, PTL DEF IInv

------------------------------------------------------------------------------
\* The batcher implements HitCounter: what the counter has open is in the channel or in
\* the map.
Open == [c \in Codes |-> InChannel(c) + pending[c]]

\* A step that neither accepts nor settles leaves the counter alone.
LEMMA CounterStands ==
  ASSUME UNCHANGED <<counted, lost>>,
         \A c \in Codes : InChannel(c)' + pending'[c] = InChannel(c) + pending[c]
  PROVE  UNCHANGED Counter!vars
<1>1. Open' = Open  BY DEF Open
<1>2. QED  BY <1>1 DEF Counter!vars, Open

\* A redirect whose hit got into the channel is accepted.
LEMMA CounterAccepts ==
  ASSUME TypeOK, NEW c \in Codes, Record(c) PROVE Counter!Accept(c)
<1>1. chan' = Append(chan, c) /\ UNCHANGED <<pending, counted, lost>>  BY DEF Record
<1>2. \A d \in Codes : InChannel(d)' = InChannel(d) + IsHit(c, d)
  BY <1>1, Sent DEF Messages
<1>3. \A d \in Codes : InChannel(d) \in Nat /\ pending[d] \in Nat
  BY Counts DEF TypeOK
<1>4. Open' = [Open EXCEPT ![c] = @ + 1]
  <2>1. \A d \in Codes : Open'[d] = Open[d] + IsHit(c, d)
    BY <1>1, <1>2, <1>3 DEF Open, IsHit
  <2>2. \A d \in Codes : Open[d] \in Nat  BY <1>3 DEF Open
  <2>3. \A d \in Codes : Open'[d] = [Open EXCEPT ![c] = @ + 1][d]
    BY <2>1, <2>2 DEF IsHit, Open
  <2>4. QED  BY <2>3 DEF Open
<1>5. QED  BY <1>1, <1>4 DEF Counter!Accept, Open

\* The sum of a code that is written, or given up, is settled.
LEMMA CounterSettles ==
  ASSUME TypeOK, NEW c \in Codes, WriteOne(c) PROVE Counter!Settle(c)
<1>1. /\ pending[c] > 0 /\ pending' = [pending EXCEPT ![c] = 0] /\ UNCHANGED chan
      /\ \/ counted' = [counted EXCEPT ![c] = @ + pending[c]] /\ UNCHANGED lost
         \/ lost' = [lost EXCEPT ![c] = @ + pending[c]] /\ UNCHANGED counted
  BY DEF WriteOne
<1>2. \A d \in Codes : InChannel(d)' = InChannel(d)  BY <1>1 DEF InChannel
<1>3. \A d \in Codes : InChannel(d) \in Nat /\ pending[d] \in Nat
  BY Counts DEF TypeOK
<1>4. pending[c] \in 1..Open[c]  BY <1>1, <1>3 DEF Open
<1>5. Open' = [Open EXCEPT ![c] = @ - pending[c]]
  <2>1. \A d \in Codes : pending'[d] = IF d = c THEN 0 ELSE pending[d]
    BY <1>1 DEF TypeOK
  <2>2. \A d \in Codes : Open'[d] = [Open EXCEPT ![c] = @ - pending[c]][d]
    BY <1>2, <1>3, <2>1 DEF Open
  <2>3. QED  BY <2>2 DEF Open
<1>6. QED  BY <1>1, <1>4, <1>5 DEF Counter!Settle, Open

\* Receiving moves a hit from the channel to the map; a flush is no hit.
LEMMA CounterReceives ==
  ASSUME TypeOK, RecvHit \/ RecvFlush PROVE UNCHANGED Counter!vars
<1>1. /\ chan # <<>> /\ chan' = Tail(chan) /\ UNCHANGED <<counted, lost>>
      /\ \/ Head(chan) \in Codes /\ pending' = [pending EXCEPT ![Head(chan)] = @ + 1]
         \/ Head(chan) \in Flushers /\ UNCHANGED pending
  BY DEF RecvHit, RecvFlush, ledger
<1>2. \A c \in Codes : InChannel(c) = InChannel(c)' + IsHit(Head(chan), c)
  BY <1>1, Received
<1>3. chan' \in Seq(Messages)  BY <1>1, Received
<1>4. \A c \in Codes : InChannel(c)' \in Nat
  BY <1>3, CountType, LenProperties DEF InChannel
<1>5. \A c \in Codes : pending[c] \in Nat /\ pending'[c] = pending[c] + IsHit(Head(chan), c)
  BY <1>1, HitBatcherAssumption DEF TypeOK, IsHit
<1>6. \A c \in Codes : IsHit(Head(chan), c) \in Nat  BY DEF IsHit
<1>7. \A c \in Codes : InChannel(c)' + pending'[c] = InChannel(c) + pending[c]
  BY <1>2, <1>4, <1>5, <1>6
<1>8. QED  BY <1>1, <1>7, CounterStands

\* Nothing is open when the task is aborted, so nothing is dropped with it.
LEMMA CounterAborts == ASSUME IInv, IInv', Abort PROVE UNCHANGED Counter!vars
<1>1. UNCHANGED <<accepted, counted, lost>> /\ task' = "gone"  BY DEF Abort, ledger
<1>2. \A c \in Codes : Settled(c)' = Settled(c)  BY <1>1 DEF Settled
<1>3. \A c \in Codes : accepted[c] = Settled(c)
  BY <1>1, <1>2 DEF IInv, NothingStranded
<1>4. \A c \in Codes : Settled(c) \in Nat /\ pending[c] \in Nat /\ InChannel(c) \in Nat
  <2>1. TypeOK  BY DEF IInv
  <2>2. \A c \in Codes : InChannel(c) \in Nat  BY <2>1, Counts
  <2>3. QED  BY <2>1, <2>2 DEF TypeOK, Settled
<1>5. \A c \in Codes : pending[c] = 0 /\ InChannel(c) = 0
  <2> TAKE c \in Codes
  <2>1. accepted[c] = Settled(c) + pending[c] + InChannel(c)  BY DEF IInv, Conserved
  <2>2. QED  BY <1>3, <1>4, <2>1
<1>6. \A c \in Codes : pending'[c] = 0 /\ InChannel(c)' = 0
  <2>1. pending' = None /\ chan' = <<>>  BY DEF Abort
  <2>2. Len(chan') = 0  BY <2>1, EmptySeq
  <2>3. QED  BY <2>1, <2>2, CountNone DEF InChannel, None
<1>7. QED  BY <1>1, <1>5, <1>6, CounterStands

\* A flush that is sent is no hit, and all other steps leave channel and map alone.
LEMMA CounterWaits ==
  ASSUME TypeOK,
         \/ \E f \in Flushers : FlushStep(f)
         \/ RecvNone \/ Written \/ TimerTick \/ StopServing \/ DropRecorder \/ UNCHANGED vars
  PROVE  UNCHANGED Counter!vars
<1>1. UNCHANGED <<pending, counted, lost>>
  BY DEF FlushStep, CallFlush, SendFlush, ReturnFlush, RecvNone, Written, TimerTick,
         StopServing, DropRecorder, vars, ledger
<1>2. \A c \in Codes : InChannel(c) \in Nat /\ pending[c] \in Nat  BY Counts DEF TypeOK
<1>3. \A c \in Codes : InChannel(c)' = InChannel(c)
  <2>1. CASE UNCHANGED chan  BY <2>1 DEF InChannel
  <2>2. ASSUME NEW f \in Flushers, chan' = Append(chan, f)
        PROVE  \A c \in Codes : InChannel(c)' = InChannel(c)
    <3>1. \A c \in Codes : InChannel(c)' = InChannel(c) + IsHit(f, c)
      BY <2>2, Sent DEF Messages
    <3>2. \A c \in Codes : IsHit(f, c) = 0  BY <2>2, HitBatcherAssumption DEF IsHit
    <3>3. QED  BY <1>2, <3>1, <3>2
  <2>3. QED
    BY <2>1, <2>2 DEF FlushStep, CallFlush, SendFlush, ReturnFlush, RecvNone, Written,
                      TimerTick, StopServing, DropRecorder, vars
<1>4. QED  BY <1>1, <1>3, CounterStands

\* Every hit that was accepted is settled once, as written or as given up, and nothing else
\* is: hits.rs and views.rs implement the counter.
THEOREM BatcherCountsHits == Spec => CountsHits
<1>1. Init => Counter!Init
  <2> SUFFICES ASSUME Init PROVE Counter!Init  OBVIOUS
  <2>1. Len(chan) = 0  BY EmptySeq DEF Init
  <2>2. \A c \in Codes : InChannel(c) = 0 /\ pending[c] = 0
    BY <2>1, CountNone DEF InChannel, Init, None
  <2>3. Open = None  BY <2>2 DEF Open, None
  <2>4. QED  BY <2>3 DEF Counter!Init, Init, None, Open
<1>2. ASSUME IInv, IInv', [Next]_vars PROVE [Counter!Next]_(Counter!vars)
  <2>1. TypeOK  BY <1>2 DEF IInv
  <2>2. ASSUME NEW c \in Codes, Record(c) \/ WriteOne(c) PROVE Counter!Next
    BY <2>1, <2>2, CounterAccepts, CounterSettles DEF Counter!Next
  <2>3. CASE Abort  BY <1>2, <2>3, CounterAborts
  <2>4. CASE RecvHit \/ RecvFlush  BY <2>1, <2>4, CounterReceives
  <2>5. CASE \/ \E f \in Flushers : FlushStep(f)
             \/ RecvNone \/ Written \/ TimerTick \/ StopServing \/ DropRecorder \/ UNCHANGED vars
    BY <2>1, <2>5, CounterWaits
  <2>6. QED  BY <1>2, <2>2, <2>3, <2>4, <2>5 DEF Next, TaskStep
<1>3. QED  BY <1>1, <1>2, Inductive, PTL DEF Spec, CountsHits, Counter!Spec
==============================================================================
