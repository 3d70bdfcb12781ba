------------------------------- MODULE LinkHits --------------------------------
(****************************************************************************)
(* How redirects are counted in url-shortener: the batching recorder of     *)
(* HitBatcher composed with the links table it writes to, the redirects     *)
(* that feed it (api/mod.rs) and the process-wide counter (metrics.rs).     *)
(*                                                                          *)
(* A hit in the channel is a code.  It reaches the row its code is bound to *)
(* when the sum is written, which need not be the link that was redirected  *)
(* to: links are removed and their codes created again in between.          *)
(****************************************************************************)
EXTENDS HitBatcher, FiniteSetsExt

CONSTANTS
  Refused,      \* the links whose target HeaderValue::from_str refuses
  MaxLinks,     \* bound of the model: links ever created
  MaxRedirects  \* bound of the model: redirects ever asked for

ASSUME LinkHitsAssumption == MaxLinks \in Nat /\ MaxRedirects \in Nat /\ Refused \subseteq Nat

VARIABLES
  links,      \* every link ever created, oldest first
  table,      \* the links table: the link a code is bound to, or 0
  redirects,  \* Metrics.redirects
  dropped     \* hits that try_send gave up

batcher == <<chan, pending, task, after, caller, phase, accepted, counted, lost, mark>>
store == <<links, table>>
all == <<batcher, store, redirects, dropped>>

LinkIds == 1..Len(links)
LinksOf(c) == {l \in LinkIds : links[l].code = c}

\* Hits accepted and not settled: they are in the channel or in the map.
Unsettled(c) == accepted[c] - Settled(c)

InitAll ==
  /\ Init
  /\ links = <<>> /\ table = [c \in Codes |-> 0]
  /\ redirects = 0 /\ dropped = 0

------------------------------------------------------------------------------
\* A link is inserted with no hits.  strays is history: the hits of its code that are
\* on their way at that moment.
CreateLink(c) ==
  /\ phase = "serving" /\ table[c] = 0 /\ Len(links) < MaxLinks
  /\ links' = Append(links, [code |-> c, hits |-> 0, served |-> 0, failed |-> 0,
                             strays |-> Unsettled(c)])
  /\ table' = [table EXCEPT ![c] = Len(links) + 1]
  /\ UNCHANGED <<batcher, redirects, dropped>>

\* A delete, or the purge of an expired link.
RemoveLink(c) ==
  /\ phase = "serving" /\ table[c] # 0
  /\ table' = [table EXCEPT ![c] = 0]
  /\ UNCHANGED <<batcher, links, redirects, dropped>>

\* Mutant: a redirect whose target is refused is not put down.
RedirectForgetsRefused(c, l) ==
  /\ phase = "serving" /\ redirects < MaxRedirects /\ l \in LinksOf(c)
  /\ redirects' = redirects + 1
  /\ IF l \in Refused THEN UNCHANGED batcher ELSE Record(c)
  /\ UNCHANGED <<links, table, dropped>>

\* resolve found link l under c, in the table or in the cache, which may still map the
\* code to a removed link (for how long is in LinkService).  From its record on the
\* handler does not wait: the hit, the counter, then 302, or 500 when the target does
\* not fit into a header.  A hit of a removed link strays to the row bound now, if any.
Redirect(c, l) ==
  /\ phase = "serving" /\ redirects < MaxRedirects /\ l \in LinksOf(c)
  /\ redirects' = redirects + 1
  /\ \/ /\ Record(c)
        /\ UNCHANGED dropped
     \/ /\ ~SlotFree
        /\ dropped' = dropped + 1
        /\ UNCHANGED batcher
  /\ links' = [m \in LinkIds |->
       CASE m = l /\ l \notin Refused -> [links[l] EXCEPT !.served = @ + 1]
         [] m = l /\ l \in Refused -> [links[l] EXCEPT !.failed = @ + 1]
         [] m # l /\ m = table[c] /\ SlotFree -> [links[m] EXCEPT !.strays = @ + 1]
         [] OTHER -> links[m]]
  /\ UNCHANGED table

\* Mutant: the sum goes to every link the code ever had.
WriteAll(c) ==
  /\ WriteOne(c)
  /\ \/ /\ counted' # counted /\ table[c] # 0
        /\ links' = [m \in LinkIds |-> IF links[m].code = c
                       THEN [links[m] EXCEPT !.hits = @ + pending[c]] ELSE links[m]]
     \/ counted' = counted /\ UNCHANGED links
  /\ UNCHANGED <<table, redirects, dropped>>

\* UPDATE links SET hits = hits + n WHERE code = c: it counts when there is a row.
WriteRow(c) ==
  /\ WriteOne(c)
  /\ \/ /\ counted' # counted /\ table[c] # 0
        /\ links' = [links EXCEPT ![table[c]].hits = @ + pending[c]]
     \/ counted' = counted /\ UNCHANGED links
  /\ UNCHANGED <<table, redirects, dropped>>

BatcherStep ==
  /\ \/ \E f \in Flushers : FlushStep(f)
     \/ RecvHit \/ RecvFlush \/ RecvNone \/ Written \/ TimerTick
     \/ StopServing \/ Abort \/ DropRecorder
  /\ UNCHANGED <<store, redirects, dropped>>

NextAll ==
  \/ \E c \in Codes : CreateLink(c) \/ RemoveLink(c) \/ WriteRow(c)
  \/ \E c \in Codes : \E l \in LinksOf(c) : Redirect(c, l)
  \/ BatcherStep

SpecAll == InitAll /\ [][NextAll]_all /\ Fairness

------------------------------------------------------------------------------
Tally(F(_)) == MapThenSumSet(F, Codes)
Hits(c) == MapThenSumSet(LAMBDA l : links[l].hits, LinksOf(c))

\* Conservation, from the counter of the process to the rows: every redirect it counted
\* is in the hits of some link, on its way there, given up by the task, or was dropped
\* because the channel was full; none is in two places, also across flushes, shutdown
\* and codes that change hands.
EveryRedirectAccounted ==
  redirects = dropped + Tally(LAMBDA c : Hits(c) + Unsettled(c) + lost[c])

\* Whose hits a link has: redirects to it, answered 302 or, once counted, 500, and no
\* more strays of its code than were on their way when it was inserted or came from a
\* cached entry of an older link since.
HitsWithinRedirects ==
  \A l \in LinkIds : links[l].hits <= links[l].served + links[l].failed + links[l].strays
==============================================================================
