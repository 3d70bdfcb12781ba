------------------------------ MODULE HitBatcher -------------------------------
(****************************************************************************)
(* The background batcher of redirect hits (url-shortener/src/hits.rs), and *)
(* of paste views (pastebin-service/src/views.rs, the same code for views): *)
(* handlers put hits into a bounded channel without waiting, one task adds  *)
(* them up per code and writes the sums, on a timer, when too many codes    *)
(* are pending, or when somebody asks for a flush and waits for its         *)
(* acknowledgement; main does that once the server has stopped.             *)
(*                                                                          *)
(* A message in the channel is the code that was hit, or the caller that    *)
(* waits for a flush.                                                       *)
(****************************************************************************)
EXTENDS Integers, Sequences, FiniteSets

CONSTANTS
  Codes,
  Flushers,    \* callers of flush
  Main,        \* the one that is main: it flushes after the server stopped
  Capacity,    \* CHANNEL_CAPACITY
  MaxPending,  \* max_pending.max(1)
  MaxHits      \* bound of the model: hits accepted per code

ASSUME HitBatcherAssumption ==
  /\ IsFiniteSet(Codes) /\ IsFiniteSet(Flushers)
  /\ Flushers \cap (Codes \cup {"loop", "exit"}) = {} /\ Main \in Flushers
  /\ Capacity \in Nat \ {0} /\ MaxPending \in Nat \ {0} /\ MaxHits \in Nat

VARIABLES
  chan,      \* the mpsc channel, oldest message first
  pending,   \* the task's map: hits per code not yet written
  task,      \* the task: at its select, writing, or gone
  after,     \* what the task does when it has written: a flusher to acknowledge,
             \* "loop" or "exit"
  caller,    \* per caller of flush: where its call stands
  phase,     \* of the process: the server runs, stopped, or the recorder is dropped
  accepted,  \* hits that got into the channel, per code
  counted,   \* hits added to a row
  lost,      \* hits given up by the task: no row, or the write failed
  mark       \* what had been accepted when a caller's flush began

vars == <<chan, pending, task, after, caller, phase, accepted, counted, lost, mark>>
ledger == <<accepted, counted, lost>>

None == [c \in Codes |-> 0]
PendingCodes == {c \in Codes : pending[c] > 0}
Blocked == {f \in Flushers : caller[f] = "blocked"}

\* A slot is free for a newcomer: freed slots go to the callers already waiting.
SlotFree == Len(chan) + Cardinality(Blocked) < Capacity

Init ==
  /\ chan = <<>> /\ pending = None
  /\ task = "select" /\ after = "loop"
  /\ caller = [f \in Flushers |-> "idle"]
  /\ phase = "serving"
  /\ accepted = None /\ counted = None /\ lost = None
  /\ mark = [f \in Flushers |-> None]

------------------------------------------------------------------------------
\* Mutant: one redirect queues its code twice, as a retry of the send would.
RecordTwice(c) ==
  /\ phase = "serving" /\ task # "gone"
  /\ SlotFree /\ accepted[c] < MaxHits
  /\ chan' = chan \o <<c, c>>
  /\ accepted' = [accepted EXCEPT ![c] = @ + 1]
  /\ UNCHANGED <<pending, task, after, caller, phase, counted, lost, mark>>

\* record: try_send, which drops the hit (nothing changes) when no slot is free or
\* the task is gone.
Record(c) ==
  /\ phase = "serving" /\ task # "gone"
  /\ SlotFree /\ accepted[c] < MaxHits
  /\ chan' = Append(chan, c)
  /\ accepted' = [accepted EXCEPT ![c] = @ + 1]
  /\ UNCHANGED <<pending, task, after, caller, phase, counted, lost, mark>>

\* flush, up to its first await: send takes a free slot at once, waits for one, or
\* finds the task gone.  main calls it once, after the server has stopped.
CallFlush(f) ==
  /\ caller[f] = "idle" /\ phase # "dropped"
  /\ f = Main <=> phase = "stopping"
  /\ mark' = [mark EXCEPT ![f] = accepted]
  /\ \/ /\ task # "gone" /\ SlotFree
        /\ chan' = Append(chan, f)
        /\ caller' = [caller EXCEPT ![f] = "waiting"]
     \/ /\ task # "gone" /\ ~SlotFree
        /\ caller' = [caller EXCEPT ![f] = "blocked"]
        /\ UNCHANGED chan
     \/ /\ task = "gone"
        /\ caller' = [caller EXCEPT ![f] = "returned"]
        /\ UNCHANGED chan
  /\ UNCHANGED <<pending, task, after, phase, ledger>>

\* The slot a caller waited for is its own.
SendFlush(f) ==
  /\ caller[f] = "blocked" /\ task # "gone" /\ Len(chan) < Capacity
  /\ chan' = Append(chan, f)
  /\ caller' = [caller EXCEPT ![f] = "waiting"]
  /\ UNCHANGED <<pending, task, after, phase, ledger, mark>>

\* The call is over.  main aborts the task next, the others may flush again.
ReturnFlush(f) ==
  /\ caller[f] = "returned" /\ f # Main
  /\ caller' = [caller EXCEPT ![f] = "idle"]
  /\ UNCHANGED <<chan, pending, task, after, phase, ledger, mark>>

------------------------------------------------------------------------------
\* Mutant: the map may grow past the cap before it is written.
RecvHitLate ==
  /\ task = "select" /\ chan # <<>> /\ Head(chan) \in Codes
  /\ chan' = Tail(chan)
  /\ pending' = [pending EXCEPT ![Head(chan)] = @ + 1]
  /\ task' = IF Cardinality({c \in Codes : pending'[c] > 0}) > MaxPending
             THEN "write" ELSE "select"
  /\ UNCHANGED <<after, caller, phase, ledger, mark>>

\* The select takes a hit: add it up, and write early when enough codes are pending.
RecvHit ==
  /\ task = "select" /\ chan # <<>> /\ Head(chan) \in Codes
  /\ chan' = Tail(chan)
  /\ pending' = [pending EXCEPT ![Head(chan)] = @ + 1]
  /\ task' = IF Cardinality({c \in Codes : pending'[c] > 0}) >= MaxPending
             THEN "write" ELSE "select"
  /\ UNCHANGED <<after, caller, phase, ledger, mark>>

\* Mutant: the flush is acknowledged and left to the timer.
RecvFlushEarlyAck ==
  /\ task = "select" /\ chan # <<>> /\ Head(chan) \in Flushers
  /\ chan' = Tail(chan)
  /\ caller' = [caller EXCEPT ![Head(chan)] = "returned"]
  /\ UNCHANGED <<pending, task, after, phase, ledger, mark>>

\* Mutant: any message is taken for a flush.
RecvFlushAny ==
  /\ task = "select" /\ chan # <<>>
  /\ chan' = Tail(chan)
  /\ task' = "write" /\ after' = Head(chan)
  /\ UNCHANGED <<pending, caller, phase, ledger, mark>>

\* The select takes a flush: write everything, then acknowledge.
RecvFlush ==
  /\ task = "select" /\ chan # <<>> /\ Head(chan) \in Flushers
  /\ chan' = Tail(chan)
  /\ task' = "write" /\ after' = Head(chan)
  /\ UNCHANGED <<pending, caller, phase, ledger, mark>>

\* recv returns None: every sender is gone and the channel is empty.
RecvNone ==
  /\ task = "select" /\ chan = <<>> /\ phase = "dropped"
  /\ task' = "write" /\ after' = "exit"
  /\ UNCHANGED <<chan, pending, caller, phase, ledger, mark>>

\* Mutant: a timer that never fires.
NoTimer == task = "select" /\ PendingCodes # {} /\ UNCHANGED vars

\* The timer wins the select.  With nothing pending there is nothing to do.
TimerTick ==
  /\ task = "select" /\ PendingCodes # {}
  /\ task' = "write"
  /\ UNCHANGED <<chan, pending, after, caller, phase, ledger, mark>>

\* One iteration of the drain: the sum of one code, in any order of the codes, is
\* written, or is lost because there is no such row or the write failed.  It is
\* out of the map either way.
WriteOne(c) ==
  /\ task = "write" /\ pending[c] > 0
  /\ pending' = [pending EXCEPT ![c] = 0]
  /\ \/ counted' = [counted EXCEPT ![c] = @ + pending[c]] /\ UNCHANGED lost
     \/ lost' = [lost EXCEPT ![c] = @ + pending[c]] /\ UNCHANGED counted
  /\ UNCHANGED <<chan, task, after, caller, phase, accepted, mark>>

\* Mutant: the acknowledgement is dropped, and with it nobody is told.
WrittenNoAck ==
  /\ task = "write" /\ PendingCodes = {}
  /\ task' = IF after = "exit" THEN "gone" ELSE "select"
  /\ after' = "loop"
  /\ UNCHANGED <<chan, pending, caller, phase, ledger, mark>>

\* The map is empty: acknowledge the flusher, if any, and go on or exit.
Written ==
  /\ task = "write" /\ PendingCodes = {}
  /\ task' = IF after = "exit" THEN "gone" ELSE "select"
  /\ caller' = IF after \in Flushers THEN [caller EXCEPT ![after] = "returned"] ELSE caller
  /\ after' = "loop"
  /\ UNCHANGED <<chan, pending, phase, ledger, mark>>

------------------------------------------------------------------------------
\* axum::serve returns: every handler has finished.
StopServing ==
  /\ phase = "serving"
  /\ phase' = "stopping"
  /\ UNCHANGED <<chan, pending, task, after, caller, ledger, mark>>

\* Mutant: main does not wait for the acknowledgement.
AbortWithoutFlush ==
  /\ phase = "stopping"
  /\ phase' = "stopped" /\ task' = "gone"
  /\ caller' = [f \in Flushers |-> IF caller[f] = "idle" THEN "idle" ELSE "returned"]
  /\ chan' = <<>> /\ pending' = None /\ after' = "loop"
  /\ UNCHANGED <<ledger, mark>>

\* hits_task.abort(): the task's map and the channel are dropped with whatever is
\* in them, and flushes still waiting find their acknowledgement gone.
Abort ==
  /\ phase = "stopping" /\ caller[Main] = "returned"
  /\ phase' = "stopped" /\ task' = "gone"
  /\ caller' = [f \in Flushers |-> IF caller[f] = "idle" THEN "idle" ELSE "returned"]
  /\ chan' = <<>> /\ pending' = None /\ after' = "loop"
  /\ UNCHANGED <<ledger, mark>>

\* The last handle is dropped without a flush (not in main, which keeps one).
DropRecorder ==
  /\ phase = "serving"
  /\ \A f \in Flushers : caller[f] = "idle"
  /\ phase' = "dropped"
  /\ UNCHANGED <<chan, pending, task, after, caller, ledger, mark>>

TaskStep ==
  \/ RecvHit \/ RecvFlush \/ RecvNone
  \/ \E c \in Codes : WriteOne(c)
  \/ Written

FlushStep(f) == CallFlush(f) \/ SendFlush(f) \/ ReturnFlush(f)

Next ==
  \/ \E c \in Codes : Record(c)
  \/ \E f \in Flushers : FlushStep(f)
  \/ TaskStep \/ TimerTick
  \/ StopServing \/ Abort \/ DropRecorder

Spec == Init /\ [][Next]_vars

\* The runtime polls the task and the callers that can go on, the timer fires, and
\* main, once stopping, goes through with it.  Nobody has to record or to flush.
Fairness ==
  /\ WF_vars(TaskStep) /\ WF_vars(TimerTick)
  /\ \A f \in Flushers : WF_vars(SendFlush(f))
  /\ WF_vars(phase = "stopping" /\ CallFlush(Main)) /\ WF_vars(Abort)

FairSpec == Spec /\ Fairness

------------------------------------------------------------------------------
\* Every variable has the type the code gives it.
TypeOK ==
  /\ chan \in Seq(Codes \cup Flushers)
  /\ pending \in [Codes -> Nat]
  /\ task \in {"select", "write", "gone"}
  /\ after \in Flushers \cup {"loop", "exit"}
  /\ caller \in [Flushers -> {"idle", "blocked", "waiting", "returned"}]
  /\ phase \in {"serving", "stopping", "stopped", "dropped"}
  /\ accepted \in [Codes -> Nat]
  /\ counted \in [Codes -> Nat]
  /\ lost \in [Codes -> Nat]
  /\ mark \in [Flushers -> [Codes -> Nat]]

\* Memory is bounded whatever the burst: the channel by its capacity, with a slot
\* for every caller let in, and the map by max_pending distinct codes, which it
\* only reaches while it is being written.
Bounded ==
  /\ Len(chan) <= Capacity
  /\ Cardinality(PendingCodes) <= MaxPending
  /\ task = "select" => Cardinality(PendingCodes) < MaxPending

Settled(c) == counted[c] + lost[c]

\* A flush that returned to its caller has settled every hit accepted before the
\* call: written while the task was in order, never just forgotten in the queue.
FlushCovers ==
  \A f \in Flushers : caller[f] = "returned" =>
    \A c \in Codes : mark[f][c] <= Settled(c)

\* Once the process stops, or the task has exited by itself, no accepted hit is
\* left behind ("no lost counts", main.rs and hits.rs).
NothingStranded ==
  task = "gone" => \A c \in Codes : accepted[c] = Settled(c)

\* Every accepted hit is settled in the end, whichever way the process goes on.
EveryHitSettles ==
  \A c \in Codes, n \in 1..MaxHits : accepted[c] >= n ~> Settled(c) >= n

\* Every flush returns, also one that found the channel full.
EveryFlushReturns ==
  \A f \in Flushers : caller[f] \in {"blocked", "waiting"} ~> caller[f] = "returned"

\* The batcher implements HitCounter: the hits open are those in the channel and in
\* the map.
Count(s, n, c) == Cardinality({i \in 1..n : s[i] = c})
InChannel(c) == Count(chan, Len(chan), c)
Counter == INSTANCE HitCounter WITH open <- [c \in Codes |-> InChannel(c) + pending[c]]
CountsHits == Counter!Spec
==============================================================================
