---------------------------- MODULE LinkHitsProofs -----------------------------
(****************************************************************************)
(* Theorems about LinkHits: the batcher keeps its promises in it, whose     *)
(* hits a link has, and where each redirect's hit is booked, for any codes, *)
(* callers, links and redirects.                                            *)
(****************************************************************************)
EXTENDS LinkHits, HitBatcherProofs, WellFoundedInduction

Link == [code : Codes, hits : Int, served : Int, failed : Int, strays : Int]

\* The links, and the table, which binds a code to a link of that code or to none.
LinksOK ==
  /\ links \in Seq(Link)
  /\ table \in [Codes -> Nat]
  /\ \A c \in Codes : table[c] # 0 => table[c] \in LinkIds /\ links[table[c]].code = c

\* What is under way to a link: the unsettled hits of its code, while it is bound.
Coming(l) == IF table[links[l].code] = l THEN Unsettled(links[l].code) ELSE 0

\* The hits of a link, and those under way to it, are redirects to it or strays.
Earned ==
  \A l \in LinkIds :
    links[l].hits + Coming(l) <= links[l].served + links[l].failed + links[l].strays

\* The inductive invariant.
LInv == IInv /\ LinksOK /\ Earned

\* Every step of the composition is a step of the batcher or leaves it alone.
LEMMA BatcherMoves == [NextAll]_all => [Next]_vars
<1> SUFFICES ASSUME [NextAll]_all PROVE Next \/ UNCHANGED vars  OBVIOUS
<1>1. ASSUME NEW c \in Codes, CreateLink(c) \/ RemoveLink(c) PROVE UNCHANGED vars
  BY <1>1 DEF CreateLink, RemoveLink, batcher, vars
<1>2. ASSUME NEW c \in Codes, WriteRow(c) PROVE Next
  BY <1>2 DEF WriteRow, Next, TaskStep
<1>3. ASSUME NEW c \in Codes, NEW l \in LinksOf(c), Redirect(c, l) PROVE Next \/ UNCHANGED vars
  BY <1>3 DEF Redirect, Next, batcher, vars
<1>4. CASE BatcherStep  BY <1>4 DEF BatcherStep, Next, TaskStep
<1>5. CASE UNCHANGED all  BY <1>5 DEF all, batcher, vars
<1>6. QED  BY <1>1, <1>2, <1>3, <1>4, <1>5 DEF NextAll

\* What is unsettled is in the map or in the channel.
LEMMA UnsettledNat == IInv => \A c \in Codes : Unsettled(c) \in Nat
<1> SUFFICES ASSUME IInv, NEW c \in Codes PROVE Unsettled(c) \in Nat  OBVIOUS
<1>1. accepted[c] = Settled(c) + pending[c] + InChannel(c)  BY DEF IInv, Conserved
<1>2. Settled(c) \in Nat /\ pending[c] \in Nat /\ InChannel(c) \in Nat
  BY Counts DEF IInv, TypeOK, Settled
<1>3. QED  BY <1>1, <1>2 DEF Unsettled

\* What is under way to a link is a number.
LEMMA ComingNat == LInv => \A l \in LinkIds : Coming(l) \in Nat
<1> SUFFICES ASSUME LInv, NEW l \in LinkIds PROVE Coming(l) \in Nat  OBVIOUS
<1>1. links[l].code \in Codes
  <2>1. links[l] \in Link  BY ElementOfSeq DEF LInv, LinksOK, LinkIds
  <2>2. QED  BY <2>1 DEF Link
<1>2. QED  BY <1>1, UnsettledNat DEF LInv, Coming

\* The fields of a link are numbers, its code is one.
LEMMA LinkFields ==
  ASSUME LinksOK, NEW l \in LinkIds
  PROVE  /\ links[l] \in Link /\ links[l].code \in Codes
         /\ links[l].hits \in Int /\ links[l].served \in Int
         /\ links[l].failed \in Int /\ links[l].strays \in Int
<1>1. links[l] \in Link  BY ElementOfSeq DEF LinksOK, LinkIds
<1>2. QED  BY <1>1 DEF Link

------------------------------------------------------------------------------
\* A new link starts with no hits, and may get all that is unsettled of its code.
LEMMA Creates ==
  ASSUME LInv, NEW c \in Codes, CreateLink(c)
  PROVE  LinksOK' /\ Earned'
<1>0. LinksOK /\ Len(links) \in Nat  BY LenProperties DEF LInv, LinksOK
<1> DEFINE n == Len(links) + 1
           new == [code |-> c, hits |-> 0, served |-> 0, failed |-> 0, strays |-> Unsettled(c)]
<1>1. table[c] = 0 /\ links' = Append(links, new) /\ table' = [table EXCEPT ![c] = n]
      /\ \A d \in Codes : Unsettled(d)' = Unsettled(d)
  BY DEF CreateLink, batcher, Unsettled, Settled
<1>2. Unsettled(c) \in Nat  BY UnsettledNat DEF LInv
<1>3. new \in Link  BY <1>2 DEF Link
<1> HIDE DEF new
<1>4. /\ links' \in Seq(Link) /\ Len(links') = n
      /\ \A l \in LinkIds : links'[l] = links[l]
      /\ links'[n] = new
  BY <1>0, <1>1, <1>3, AppendProperties DEF LinksOK, LinkIds
<1>5. \A l \in 1..n : l \in LinkIds \/ l = n  BY <1>0 DEF LinkIds
<1>6. \A d \in Codes : table'[d] = IF d = c THEN n ELSE table[d]
  BY <1>0, <1>1 DEF LinksOK
<1>7. LinksOK'
  <2>1. table' \in [Codes -> Nat]  BY <1>0, <1>1 DEF LinksOK
  <2>2. ASSUME NEW d \in Codes, table'[d] # 0
        PROVE  table'[d] \in 1..n /\ links'[table'[d]].code = d
    <3>1. CASE d = c  BY <1>0, <1>4, <1>6, <3>1 DEF new
    <3>2. CASE d # c
      <4>1. table'[d] = table[d]  BY <1>6, <3>2
      <4>2. table[d] \in LinkIds /\ links[table[d]].code = d
        BY <2>2, <4>1, <1>0 DEF LinksOK
      <4>3. table[d] \in 1..n  BY <1>0, <4>2 DEF LinkIds
      <4>4. QED  BY <1>4, <4>1, <4>2, <4>3
    <3>3. QED  BY <3>1, <3>2
  <2>3. QED  BY <1>4, <2>1, <2>2 DEF LinksOK, LinkIds
<1>8. Earned'
  <2> SUFFICES ASSUME NEW l \in 1..n
               PROVE  links'[l].hits + Coming(l)'
                        <= links'[l].served + links'[l].failed + links'[l].strays
    BY <1>4 DEF Earned, LinkIds
  <2>1. CASE l \in LinkIds
    <3>1. links'[l] = links[l] /\ links[l].code \in Codes  BY <1>0, <1>4, <2>1, LinkFields
    <3>2. l # n /\ l # 0  BY <1>0, <2>1 DEF LinkIds
    <3>3. Coming(l)' = Coming(l)
      BY <1>1, <1>6, <3>1, <3>2 DEF Coming
    <3>4. QED  BY <2>1, <3>1, <3>3 DEF LInv, Earned
  <2>2. CASE l = n
    <3>1. Coming(l)' = Unsettled(c)  BY <1>1, <1>4, <1>6, <2>2 DEF Coming, new
    <3>2. QED  BY <1>2, <1>4, <2>2, <3>1 DEF new
  <2>3. QED  BY <1>5, <2>1, <2>2
<1>9. QED  BY <1>7, <1>8

\* A removed link keeps its hits, and nothing more comes to it.
LEMMA Removes ==
  ASSUME LInv, NEW c \in Codes, RemoveLink(c)
  PROVE  LinksOK' /\ Earned'
<1>0. LinksOK  BY DEF LInv
<1>1. /\ table' = [table EXCEPT ![c] = 0] /\ UNCHANGED links
      /\ \A d \in Codes : Unsettled(d)' = Unsettled(d)
  BY DEF RemoveLink, batcher, Unsettled, Settled
<1>2. LinksOK'  BY <1>0, <1>1 DEF LinksOK, LinkIds
<1>3. ASSUME NEW l \in LinkIds PROVE Coming(l)' \in {0, Coming(l)}
  <2>1. links[l].code \in Codes /\ l # 0  BY <1>0, LinkFields DEF LinkIds
  <2>2. table'[links[l].code] \in {0, table[links[l].code]}
    BY <1>0, <1>1, <2>1 DEF LinksOK
  <2>3. QED  BY <1>1, <2>1, <2>2 DEF Coming
<1>4. Earned'
  <2> SUFFICES ASSUME NEW l \in LinkIds
               PROVE  links[l].hits + Coming(l)'
                        <= links[l].served + links[l].failed + links[l].strays
    BY <1>1 DEF Earned, LinkIds
  <2>1. links[l].hits + Coming(l) <= links[l].served + links[l].failed + links[l].strays
    BY DEF LInv, Earned
  <2>2. Coming(l) \in Nat /\ Coming(l)' \in {0, Coming(l)}  BY <1>3, ComingNat
  <2>3. QED  BY <1>0, <2>1, <2>2, LinkFields
<1>5. QED  BY <1>2, <1>4

\* A sum goes to the row its code is bound to, or is lost.
LEMMA Writes ==
  ASSUME LInv, NEW c \in Codes, WriteRow(c)
  PROVE  LinksOK' /\ Earned'
<1>0. LinksOK /\ TypeOK /\ Len(links) \in Nat
  BY LenProperties DEF LInv, LinksOK, IInv
<1>1. /\ WriteOne(c) /\ UNCHANGED table /\ accepted' = accepted
      /\ pending[c] \in Nat
  BY <1>0 DEF WriteRow, WriteOne, TypeOK
<1>2. \A d \in Codes : Unsettled(d)' = IF d = c THEN Unsettled(c) - pending[c] ELSE Unsettled(d)
  <2> TAKE d \in Codes
  <2>1. Settled(d)' = IF d = c THEN Settled(c) + pending[c] ELSE Settled(d)
    <3>1. CASE counted' = [counted EXCEPT ![c] = @ + pending[c]] /\ UNCHANGED lost
      BY <1>0, <3>1 DEF TypeOK, Settled
    <3>2. CASE lost' = [lost EXCEPT ![c] = @ + pending[c]] /\ UNCHANGED counted
      BY <1>0, <3>2 DEF TypeOK, Settled
    <3>3. QED  BY <1>1, <3>1, <3>2 DEF WriteOne
  <2>2. Settled(d) \in Nat /\ accepted[d] \in Nat  BY <1>0 DEF TypeOK, Settled
  <2>3. QED  BY <1>1, <2>1, <2>2 DEF Unsettled
<1>3. CASE UNCHANGED links
  <2>1. LinksOK'  BY <1>0, <1>1, <1>3 DEF LinksOK, LinkIds
  <2>2. Earned'
    <3> SUFFICES ASSUME NEW l \in LinkIds
                 PROVE  links[l].hits + Coming(l)'
                          <= links[l].served + links[l].failed + links[l].strays
      BY <1>3 DEF Earned, LinkIds
    <3>1. links[l].hits + Coming(l) <= links[l].served + links[l].failed + links[l].strays
      BY DEF LInv, Earned
    <3>2. Coming(l)' <= Coming(l) /\ Coming(l) \in Nat /\ Coming(l)' \in Int
      <4>1. links[l].code \in Codes  BY <1>0, LinkFields
      <4>2. Unsettled(links[l].code) \in Nat  BY <4>1, UnsettledNat DEF LInv
      <4>3. QED  BY <1>1, <1>2, <1>3, <4>1, <4>2 DEF Coming
    <3>3. \A h, x, y, z \in Int : h + x <= z /\ y <= x => h + y <= z  OBVIOUS
    <3>4. /\ links[l].hits \in Int /\ Coming(l) \in Int /\ Coming(l)' \in Int
          /\ links[l].served + links[l].failed + links[l].strays \in Int
      BY <1>0, <3>2, LinkFields
    <3> QED  BY <3>1, <3>2, <3>3, <3>4
  <2>3. QED  BY <2>1, <2>2
<1>4. CASE /\ table[c] # 0
           /\ links' = [links EXCEPT ![table[c]].hits = @ + pending[c]]
  <2> DEFINE t == table[c]
             row == [links[t] EXCEPT !.hits = @ + pending[c]]
  <2>1. t \in LinkIds /\ links[t].code = c  BY <1>0, <1>4 DEF LinksOK
  <2>2. row \in Link /\ row.code = c /\ row.hits = links[t].hits + pending[c]
        /\ row.served = links[t].served /\ row.failed = links[t].failed
        /\ row.strays = links[t].strays
    <3>1. links[t] \in Link /\ links[t].hits \in Int /\ pending[c] \in Int
      BY <1>0, <1>1, <2>1, LinkFields
    <3>2. links[t].hits + pending[c] \in Int  BY <3>1
    <3>3. row = [links[t] EXCEPT !.hits = links[t].hits + pending[c]]  OBVIOUS
    <3> HIDE DEF row
    <3> QED  BY <2>1, <3>1, <3>2, <3>3 DEF Link
  <2> HIDE DEF row
  <2>3. /\ links' \in Seq(Link) /\ Len(links') = Len(links)
        /\ \A l \in LinkIds : links'[l] = IF l = t THEN row ELSE links[l]
    <3>1. links \in [1..Len(links) -> Link]  BY <1>0, LenProperties DEF LinksOK
    <3>2. \A l \in LinkIds : links'[l] = IF l = t THEN row ELSE links[l]
      <4>1. links'[t] = row  BY <1>4, <2>1, <3>1, Zenon DEF row, LinkIds
      <4>2. \A l \in LinkIds : l # t => links'[l] = links[l]
        BY <1>4, <3>1 DEF LinkIds
      <4>3. QED  BY <4>1, <4>2
    <3>3. links' \in [1..Len(links) -> Link]
      BY <1>4, <2>2, <3>1, <3>2 DEF LinkIds
    <3>4. links' \in Seq(Link) /\ Len(links') = Len(links)  BY <1>0, <3>3
    <3>5. QED  BY <3>2, <3>4
  <2>4. LinksOK'  BY <1>0, <1>1, <2>1, <2>2, <2>3 DEF LinksOK, LinkIds
  <2>5. Earned'
    <3> SUFFICES ASSUME NEW l \in LinkIds
                 PROVE  links'[l].hits + Coming(l)'
                          <= links'[l].served + links'[l].failed + links'[l].strays
      BY <2>3 DEF Earned, LinkIds
    <3>1. links[l].hits + Coming(l) <= links[l].served + links[l].failed + links[l].strays
      BY DEF LInv, Earned
    <3>2. CASE l = t
      <4>1. Coming(l) = Unsettled(c) /\ Coming(l)' = Unsettled(c) - pending[c]
        BY <1>1, <1>2, <2>1, <2>2, <2>3, <3>2 DEF Coming
      <4>2. Unsettled(c) \in Nat  BY UnsettledNat DEF LInv
      <4>3. links'[l] = row  BY <2>3, <3>2
      <4>4. /\ links[l].hits \in Int /\ links[l].served \in Int
            /\ links[l].failed \in Int /\ links[l].strays \in Int
        BY <1>0, LinkFields
      <4>5. QED  BY <1>1, <2>2, <3>1, <3>2, <4>1, <4>2, <4>3, <4>4
    <3>3. CASE l # t
      <4>1. links'[l] = links[l] /\ links[l].code \in Codes  BY <1>0, <2>3, <3>3, LinkFields
      <4>2. Coming(l)' = Coming(l)  BY <1>1, <1>2, <3>3, <4>1 DEF Coming
      <4>3. QED  BY <3>1, <4>1, <4>2
    <3>4. QED  BY <3>2, <3>3
  <2>6. QED  BY <2>4, <2>5
<1>5. QED  BY <1>3, <1>4 DEF WriteRow

\* A redirect earns its link the hit; a stray is put down to the row its code is bound to.
LEMMA Redirects ==
  ASSUME LInv, NEW c \in Codes, NEW l \in LinksOf(c), Redirect(c, l)
  PROVE  LinksOK' /\ Earned'
<1>0. LinksOK /\ TypeOK /\ Len(links) \in Nat /\ l \in LinkIds /\ links[l].code = c
  BY LenProperties DEF LInv, LinksOK, IInv, LinksOf
<1>1. UNCHANGED table  BY DEF Redirect
<1> DEFINE one == IF SlotFree THEN 1 ELSE 0
           mine(m) == IF m = l THEN 1 ELSE 0
           stray(m) == IF m # l /\ m = table[c] THEN one ELSE 0
<1>2. \A d \in Codes : Unsettled(d)' = IF d = c THEN Unsettled(c) + one ELSE Unsettled(d)
  <2> TAKE d \in Codes
  <2>1. Settled(d) \in Nat /\ accepted[d] \in Nat  BY <1>0 DEF TypeOK, Settled
  <2>2. CASE Record(c)
    <3>1. Settled(d)' = Settled(d) /\ SlotFree  BY <2>2 DEF Record, Settled
    <3>2. accepted'[d] = IF d = c THEN accepted[c] + 1 ELSE accepted[d]
      BY <1>0, <2>2 DEF Record, TypeOK
    <3>3. QED  BY <2>1, <3>1, <3>2 DEF Unsettled
  <2>3. CASE ~SlotFree /\ UNCHANGED batcher
    <3>1. Settled(d)' = Settled(d) /\ accepted'[d] = accepted[d]
      BY <2>3 DEF batcher, Settled
    <3>2. QED  BY <2>1, <2>3, <3>1 DEF Unsettled
  <2>4. QED  BY <2>2, <2>3 DEF Redirect
<1>3. ASSUME NEW m \in LinkIds
      PROVE  /\ links'[m] \in Link /\ links'[m].code = links[m].code
             /\ links'[m].hits = links[m].hits
             /\ links'[m].served + links'[m].failed + links'[m].strays
                  = links[m].served + links[m].failed + links[m].strays + mine(m) + stray(m)
  <2>1. links[m] \in Link /\ links[l] \in Link  BY <1>0, LinkFields
  <2>2. links'[m] = CASE m = l /\ l \notin Refused -> [links[l] EXCEPT !.served = @ + 1]
                      [] m = l /\ l \in Refused -> [links[l] EXCEPT !.failed = @ + 1]
                      [] m # l /\ m = table[c] /\ SlotFree -> [links[m] EXCEPT !.strays = @ + 1]
                      [] OTHER -> links[m]
    BY DEF Redirect
  <2>3. CASE m = l /\ l \notin Refused
    <3>1. links'[m] = [links[m] EXCEPT !.served = @ + 1]  BY <2>2, <2>3
    <3>2. QED  BY <2>1, <2>3, <3>1 DEF Link
  <2>4. CASE m = l /\ l \in Refused
    <3>1. links'[m] = [links[m] EXCEPT !.failed = @ + 1]  BY <2>2, <2>4
    <3>2. QED  BY <2>1, <2>4, <3>1 DEF Link
  <2>5. CASE m # l /\ m = table[c] /\ SlotFree
    <3>1. links'[m] = [links[m] EXCEPT !.strays = @ + 1]  BY <2>2, <2>5
    <3>2. QED  BY <2>1, <2>5, <3>1 DEF Link
  <2>6. CASE m # l /\ ~(m = table[c] /\ SlotFree)
    <3>1. links'[m] = links[m]  BY <2>2, <2>6
    <3>2. QED  BY <2>1, <2>6, <3>1 DEF Link
  <2>7. QED  BY <2>3, <2>4, <2>5, <2>6
<1>4. LinkIds = DOMAIN links' /\ links' \in Seq(Link) /\ Len(links') = Len(links)
  <2>1. links' \in [1..Len(links) -> Link]  BY <1>3 DEF Redirect, LinkIds
  <2>2. QED  BY <1>0, <2>1 DEF LinkIds
<1>5. LinksOK'  BY <1>0, <1>1, <1>3, <1>4 DEF LinksOK, LinkIds
<1>6. Earned'
  <2> SUFFICES ASSUME NEW m \in LinkIds
               PROVE  links'[m].hits + Coming(m)'
                        <= links'[m].served + links'[m].failed + links'[m].strays
    BY <1>4 DEF Earned, LinkIds
  <2>1. links[m].hits + Coming(m) <= links[m].served + links[m].failed + links[m].strays
    BY DEF LInv, Earned
  <2>2. Coming(m) \in Nat  BY ComingNat
  <2>3. Coming(m)' = Coming(m) + (IF m = table[c] THEN one ELSE 0)
    <3>1. links'[m].code = links[m].code /\ links[m].code \in Codes
      BY <1>0, <1>3, LinkFields
    <3>2. links[m].code = c \/ m # table[c]  BY <1>0 DEF LinksOK, LinkIds
    <3>3. Unsettled(c) \in Nat /\ Unsettled(links[m].code) \in Nat
      BY <3>1, UnsettledNat DEF LInv
    <3>4. QED  BY <1>1, <1>2, <3>1, <3>2, <3>3 DEF Coming
  <2>4. (IF m = table[c] THEN one ELSE 0) <= mine(m) + stray(m)  OBVIOUS
  <2>5. mine(m) \in Nat /\ stray(m) \in Nat /\ one \in Nat  OBVIOUS
  <2>6. /\ links[m].hits \in Int /\ links[m].served \in Int
        /\ links[m].failed \in Int /\ links[m].strays \in Int
    BY <1>0, LinkFields
  <2> HIDE DEF one, mine, stray
  <2>7. QED  BY <1>3, <2>1, <2>2, <2>3, <2>4, <2>5, <2>6
<1>7. QED  BY <1>5, <1>6

\* The rest of the batcher moves no hit out of its code.
LEMMA Passes ==
  ASSUME LInv, BatcherStep \/ UNCHANGED all
  PROVE  LinksOK' /\ Earned'
<1>1. UNCHANGED <<links, table, ledger>>
  BY DEF BatcherStep, FlushStep, CallFlush, SendFlush, ReturnFlush, RecvHit, RecvFlush,
         RecvNone, Written, TimerTick, StopServing, Abort, DropRecorder, all, batcher,
         store, ledger
<1>2. \A d \in Codes : Unsettled(d)' = Unsettled(d)  BY <1>1 DEF Unsettled, Settled, ledger
<1>3. LinksOK'  BY <1>1 DEF LInv, LinksOK, LinkIds
<1>4. Earned'
  <2>1. \A l \in LinkIds : Coming(l)' = Coming(l)
    BY <1>1, <1>2, LinkFields DEF LInv, Coming
  <2>2. QED  BY <1>1, <2>1 DEF LInv, Earned, LinkIds
<1>5. QED  BY <1>3, <1>4

------------------------------------------------------------------------------
\* The invariant is inductive, and holds always: the batcher's part is carried over.
THEOREM LinksInductive == SpecAll => []LInv
<1>1. InitAll => LInv
  <2> SUFFICES ASSUME InitAll PROVE LInv  OBVIOUS
  <2>1. IInv  BY IInvInit DEF InitAll
  <2>2. links = <<>> /\ Len(links) = 0 /\ links \in Seq(Link)  BY EmptySeq DEF InitAll
  <2>3. LinksOK /\ Earned  BY <2>2 DEF InitAll, LinksOK, Earned, LinkIds
  <2>4. QED  BY <2>1, <2>3 DEF LInv
<1>2. LInv /\ [NextAll]_all => LInv'
  <2> SUFFICES ASSUME LInv, [NextAll]_all PROVE LInv'  OBVIOUS
  <2>1. IInv'  BY BatcherMoves, BatcherKeeps DEF LInv
  <2>2. LinksOK' /\ Earned'
    BY Creates, Removes, Writes, Redirects, Passes DEF NextAll
  <2>3. QED  BY <2>1, <2>2 DEF LInv
<1>3. QED  BY <1>1, <1>2, PTL DEF SpecAll

\* The statistics of a link never exceed its redirects and the strays of its code, for
\* any number of links, codes that change hands, flushes and a shutdown in between.
THEOREM HitsAreEarned == SpecAll => []HitsWithinRedirects
<1>1. LInv => HitsWithinRedirects
  <2> SUFFICES ASSUME LInv, NEW l \in LinkIds
               PROVE  links[l].hits <= links[l].served + links[l].failed + links[l].strays
    BY DEF HitsWithinRedirects
  <2>1. links[l].hits + Coming(l) <= links[l].served + links[l].failed + links[l].strays
    BY DEF LInv, Earned
  <2>2. Coming(l) \in Nat  BY ComingNat
  <2>3. QED  BY <2>1, <2>2, LinkFields DEF LInv
<1>2. QED  BY <1>1, LinksInductive, PTL

------------------------------------------------------------------------------
(* What MapThenSumSet computes: the sum, in whatever order it is taken.     *)

\* Induction, on the set of the numbers that have the property.
LEMMA NatSets ==
  ASSUME NEW S, 0 \in S, \A n \in Nat : n \in S => n + 1 \in S
  PROVE  Nat \subseteq S
<1> SUFFICES ASSUME Nat \ S # {} PROVE FALSE  OBVIOUS
<1>1. PICK x \in Nat \ S : \A y \in Nat \ S : ~(<<y, x>> \in OpToRel(<, Nat))
  BY NatLessThanWellFounded, WFMin
<1>2. \A y \in Nat \ S : ~(y < x)  BY <1>1 DEF OpToRel
<1>3. x # 0  OBVIOUS
<1>4. x - 1 \in Nat /\ x - 1 < x /\ (x - 1) + 1 = x  BY <1>3
<1>5. x - 1 \in S  BY <1>2, <1>4
<1>6. QED  BY <1>4, <1>5

SumOf(f, S) == MapThenSumSet(LAMBDA x : f[x], S)

Pick(s) == CHOOSE x \in s : TRUE

Summing(f, S, it) == [s \in SUBSET S |-> IF s = {} THEN 0 ELSE f[Pick(s)] + it[s \ {Pick(s)}]]

\* Taking one element away makes a set one smaller.
LEMMA OneLess ==
  ASSUME NEW n \in Nat, NEW s, IsFiniteSet(s), Cardinality(s) = n + 1
  PROVE  /\ s # {} /\ Pick(s) \in s
         /\ \A x \in s : IsFiniteSet(s \ {x}) /\ Cardinality(s \ {x}) = n
<1>1. s # {}  BY FS_EmptySet
<1>2. Pick(s) \in s  BY <1>1 DEF Pick
<1>3. ASSUME NEW x \in s PROVE IsFiniteSet(s \ {x}) /\ Cardinality(s \ {x}) = n
  <2>1. IsFiniteSet(s \ {x}) /\ Cardinality(s \ {x}) = Cardinality(s) - 1
    BY FS_RemoveElement
  <2> QED  BY <2>1
<1> QED  BY <1>1, <1>2, <1>3

LEMMA SumExists ==
  ASSUME NEW f, NEW S, IsFiniteSet(S)
  PROVE  \E it : it = Summing(f, S, it)
<1> DEFINE Layer(n) == {s \in SUBSET S : Cardinality(s) <= n}
           E(n, g) == [s \in Layer(n) |->
                         IF s = {} THEN 0 ELSE f[Pick(s)] + g[s \ {Pick(s)}]]
           N == {n \in Nat : \E g : g = E(n, g)}
<1>0. \A s \in SUBSET S : IsFiniteSet(s) /\ Cardinality(s) \in Nat
  BY FS_Subset, FS_CardinalityType
<1>1. 0 \in N
  <2> DEFINE g0 == [s \in Layer(0) |-> 0]
  <2>1. \A s \in Layer(0) : s = {}  BY <1>0, FS_EmptySet
  <2>2. g0 = E(0, g0)  BY <2>1
  <2> HIDE DEF g0, E
  <2> QED  BY <2>2
<1>2. ASSUME NEW n \in Nat, n \in N PROVE n + 1 \in N
  <2>1. PICK g : g = E(n, g)  BY <1>2
  <2> DEFINE g2 == [s \in Layer(n + 1) |->
                      IF Cardinality(s) <= n THEN g[s] ELSE f[Pick(s)] + g[s \ {Pick(s)}]]
  <2>2. ASSUME NEW s \in Layer(n + 1)
        PROVE  g2[s] = IF s = {} THEN 0 ELSE f[Pick(s)] + g2[s \ {Pick(s)}]
    <3>0. s \in SUBSET S /\ Cardinality(s) \in Nat /\ Cardinality(s) <= n + 1  BY <1>0
    <3>1. CASE s = {}
      <4>1. Cardinality(s) = 0 /\ 0 <= n  BY <3>1, FS_EmptySet
      <4>2. s \in Layer(n)  BY <3>0, <4>1
      <4>3. g2[s] = g[s] /\ g[s] = 0  BY <2>1, <3>1, <4>1, <4>2
      <4> QED  BY <3>1, <4>3
    <3>2. CASE s # {}
      <4>1. PICK m \in Nat : Cardinality(s) = m + 1
        <5>1. Cardinality(s) # 0  BY <1>0, <3>0, <3>2, FS_EmptySet
        <5>2. Cardinality(s) - 1 \in Nat /\ Cardinality(s) = (Cardinality(s) - 1) + 1
          BY <3>0, <5>1
        <5> QED  BY <5>2
      <4>2. /\ Pick(s) \in s /\ Cardinality(s \ {Pick(s)}) = m
        BY <1>0, <3>0, <4>1, OneLess
      <4>3. m <= n  BY <3>0, <4>1
      <4>4. PICK t : t = s \ {Pick(s)}  OBVIOUS
      <4>5. t \in Layer(n + 1) /\ Cardinality(t) <= n  BY <3>0, <4>2, <4>3, <4>4
      <4>6. g2[t] = g[t]  BY <4>5
      <4>7. CASE Cardinality(s) <= n
        <5>1. g2[s] = g[s] /\ s \in Layer(n)  BY <3>0, <4>7
        <5>2. g[s] = f[Pick(s)] + g[s \ {Pick(s)}]  BY <2>1, <3>2, <5>1
        <5> QED  BY <3>2, <4>4, <4>6, <5>1, <5>2
      <4>8. CASE ~(Cardinality(s) <= n)
        <5>1. g2[s] = f[Pick(s)] + g[s \ {Pick(s)}]  BY <4>8
        <5> QED  BY <3>2, <4>4, <4>6, <5>1
      <4> QED  BY <4>7, <4>8
    <3> QED  BY <3>1, <3>2
  <2>3. g2 = E(n + 1, g2)
    <3> HIDE DEF g2
    <3>1. g2 = [s \in Layer(n + 1) |-> g2[s]]  BY DEF g2
    <3> HIDE DEF Layer
    <3> QED  BY <2>2, <3>1
  <2> HIDE DEF g2, E
  <2> QED  BY <2>3
<1>3. Nat \subseteq N  BY <1>1, <1>2, NatSets
<1>4. Layer(Cardinality(S)) = SUBSET S  BY FS_Subset
<1>5. PICK g : g = E(Cardinality(S), g)
  <2>1. Cardinality(S) \in N  BY <1>3, FS_CardinalityType
  <2> HIDE DEF E
  <2> QED  BY <2>1
<1>6. g = Summing(f, S, g)
  <2> HIDE DEF Layer
  <2> QED  BY <1>4, <1>5 DEF Summing
<1> QED  BY <1>6

LEMMA SumMatches ==
  ASSUME NEW f, NEW g, NEW S, NEW R, NEW a, NEW b,
         a = Summing(f, S, a), b = Summing(g, R, b),
         NEW T \in SUBSET S, T \in SUBSET R, IsFiniteSet(T), \A x \in T : f[x] = g[x]
  PROVE  a[T] = b[T]
<1> DEFINE N == {n \in Nat : \A U \in SUBSET T : Cardinality(U) = n => a[U] = b[U]}
<1>0. \A U \in SUBSET T : IsFiniteSet(U) /\ Cardinality(U) \in Nat
  BY FS_Subset, FS_CardinalityType
<1>1. 0 \in N
  <2>1. {} \in SUBSET S /\ {} \in SUBSET R  OBVIOUS
  <2>2. a[{}] = 0 /\ b[{}] = 0  BY <2>1 DEF Summing
  <2>3. \A U \in SUBSET T : Cardinality(U) = 0 => U = {}  BY <1>0, FS_EmptySet
  <2> QED  BY <2>2, <2>3
<1>2. ASSUME NEW n \in Nat, n \in N PROVE n + 1 \in N
  <2> SUFFICES ASSUME NEW U \in SUBSET T, Cardinality(U) = n + 1 PROVE a[U] = b[U]
    OBVIOUS
  <2>1. U # {} /\ Pick(U) \in U /\ Cardinality(U \ {Pick(U)}) = n  BY <1>0, OneLess
  <2>2. U \ {Pick(U)} \in SUBSET T  OBVIOUS
  <2>3. a[U \ {Pick(U)}] = b[U \ {Pick(U)}]  BY <1>2, <2>1, <2>2
  <2>4. f[Pick(U)] = g[Pick(U)]  BY <2>1
  <2>5. U \in SUBSET S /\ U \in SUBSET R  OBVIOUS
  <2>6. a[U] = f[Pick(U)] + a[U \ {Pick(U)}]  BY <2>1, <2>5 DEF Summing
  <2>7. b[U] = g[Pick(U)] + b[U \ {Pick(U)}]  BY <2>1, <2>5 DEF Summing
  <2> QED  BY <2>3, <2>4, <2>6, <2>7
<1>3. Nat \subseteq N  BY <1>1, <1>2, NatSets
<1> QED  BY <1>0, <1>3

LEMMA SumInt ==
  ASSUME NEW f, NEW S, IsFiniteSet(S), \A x \in S : f[x] \in Int,
         NEW a, a = Summing(f, S, a)
  PROVE  \A T \in SUBSET S : a[T] \in Int
<1> DEFINE N == {n \in Nat : \A T \in SUBSET S : Cardinality(T) = n => a[T] \in Int}
<1>0. \A T \in SUBSET S : IsFiniteSet(T) /\ Cardinality(T) \in Nat
  BY FS_Subset, FS_CardinalityType
<1>1. 0 \in N
  <2>1. a[{}] = 0  BY DEF Summing
  <2>2. \A T \in SUBSET S : Cardinality(T) = 0 => T = {}  BY <1>0, FS_EmptySet
  <2> QED  BY <2>1, <2>2
<1>2. ASSUME NEW n \in Nat, n \in N PROVE n + 1 \in N
  <2> SUFFICES ASSUME NEW T \in SUBSET S, Cardinality(T) = n + 1 PROVE a[T] \in Int
    OBVIOUS
  <2>1. T # {} /\ Pick(T) \in T /\ Cardinality(T \ {Pick(T)}) = n  BY <1>0, OneLess
  <2>2. a[T \ {Pick(T)}] \in Int /\ f[Pick(T)] \in Int  BY <1>2, <2>1
  <2>3. a[T] = f[Pick(T)] + a[T \ {Pick(T)}]  BY <2>1 DEF Summing
  <2> QED  BY <2>2, <2>3
<1>3. Nat \subseteq N  BY <1>1, <1>2, NatSets
<1> QED  BY <1>0, <1>3

\* Each element can be the first.
LEMMA SumAny ==
  ASSUME NEW f, NEW S, IsFiniteSet(S), \A x \in S : f[x] \in Int,
         NEW a, a = Summing(f, S, a)
  PROVE  \A T \in SUBSET S : \A x \in T : a[T] = f[x] + a[T \ {x}]
<1> DEFINE P(T) == \A x \in T : a[T] = f[x] + a[T \ {x}]
           N == {n \in Nat : \A T \in SUBSET S : Cardinality(T) = n => P(T)}
<1>0. \A T \in SUBSET S : IsFiniteSet(T) /\ Cardinality(T) \in Nat
  BY FS_Subset, FS_CardinalityType
<1>1. 0 \in N
  <2>2. P({})  OBVIOUS
  <2>3. \A T \in SUBSET S : Cardinality(T) = 0 => T = {}  BY <1>0, FS_EmptySet
  <2> HIDE DEF P
  <2> QED  BY <2>2, <2>3
<1>2. ASSUME NEW n \in Nat, n \in N PROVE n + 1 \in N
  <2> SUFFICES ASSUME NEW T \in SUBSET S, Cardinality(T) = n + 1 PROVE P(T)
    OBVIOUS
  <2> PICK y : y = Pick(T)  OBVIOUS
  <2>1. T # {} /\ y \in T /\ IsFiniteSet(T)  BY <1>0, OneLess
  <2>2. ASSUME NEW x \in T PROVE T \ {x} \in SUBSET S /\ Cardinality(T \ {x}) = n /\ P(T \ {x})
    <3>1. T \ {x} \in SUBSET S  OBVIOUS
    <3>2. Cardinality(T \ {x}) = n  BY <2>1, OneLess
    <3>3. P(T \ {x})
      <4> HIDE DEF P
      <4> QED  BY <1>2, <3>1, <3>2
    <3> QED  BY <3>1, <3>2, <3>3
  <2>3. a[T] = f[y] + a[T \ {y}]  BY <2>1 DEF Summing
  <2>5. ASSUME NEW x \in T PROVE a[T] = f[x] + a[T \ {x}]
    <3>1. CASE x = y  BY <2>3, <3>1
    <3>2. CASE x # y
      <4>1. x \in T \ {y} /\ y \in T \ {x}  BY <2>1, <3>2
      <4>2. (T \ {y}) \ {x} = (T \ {x}) \ {y}  OBVIOUS
      <4> PICK r : r = a[(T \ {x}) \ {y}]  OBVIOUS
      <4>3. a[T \ {y}] = f[x] + a[(T \ {y}) \ {x}]  BY <2>1, <2>2, <4>1
      <4>4. a[T \ {x}] = f[y] + r  BY <2>2, <4>1
      <4>5. r \in Int
        <5>1. (T \ {x}) \ {y} \in SUBSET S  OBVIOUS
        <5> QED  BY <5>1, SumInt
      <4>6. f[x] \in Int /\ f[y] \in Int  BY <2>1
      <4>7. a[T \ {y}] = f[x] + r  BY <4>2, <4>3
      <4> QED  BY <2>3, <4>4, <4>5, <4>6, <4>7
    <3> QED  BY <3>1, <3>2
  <2> QED  BY <2>5
<1>3. Nat \subseteq N  BY <1>1, <1>2, NatSets
<1> HIDE DEF P
<1>4. \A T \in SUBSET S : P(T)  BY <1>0, <1>3
<1> QED  BY <1>4 DEF P

LEMMA SumIs ==
  ASSUME NEW f, NEW S, IsFiniteSet(S)
  PROVE  \E a : a = Summing(f, S, a) /\ SumOf(f, S) = a[S]
<1> DEFINE a == CHOOSE it : it = Summing(f, S, it)
<1>1. SumOf(f, S) = a[S]  BY DEF SumOf, MapThenSumSet, MapThenFoldSet, Summing, Pick
<1>2. a = Summing(f, S, a)  BY SumExists
<1> HIDE DEF a
<1> QED  BY <1>1, <1>2

LEMMA SumSame ==
  ASSUME NEW f, NEW g, NEW S, IsFiniteSet(S), \A x \in S : f[x] = g[x]
  PROVE  SumOf(f, S) = SumOf(g, S)
<1>1. PICK a : a = Summing(f, S, a) /\ SumOf(f, S) = a[S]  BY SumIs
<1>2. PICK b : b = Summing(g, S, b) /\ SumOf(g, S) = b[S]  BY SumIs
<1>3. a[S] = b[S]  BY <1>1, <1>2, SumMatches
<1> QED  BY <1>1, <1>2, <1>3

LEMMA SumEmpty == ASSUME NEW f PROVE SumOf(f, {}) = 0
<1>1. IsFiniteSet({})  BY FS_EmptySet
<1>2. PICK a : a = Summing(f, {}, a) /\ SumOf(f, {}) = a[{}]  BY <1>1, SumIs
<1> QED  BY <1>2 DEF Summing

LEMMA SumWith ==
  ASSUME NEW f, NEW S, IsFiniteSet(S), \A y \in S : f[y] \in Int, NEW x \in S
  PROVE  /\ SumOf(f, S) \in Int /\ SumOf(f, S \ {x}) \in Int
         /\ SumOf(f, S) = f[x] + SumOf(f, S \ {x})
<1>0. IsFiniteSet(S \ {x})  BY FS_Subset
<1>1. PICK a : a = Summing(f, S, a) /\ SumOf(f, S) = a[S]  BY SumIs
<1>2. PICK b : b = Summing(f, S \ {x}, b) /\ SumOf(f, S \ {x}) = b[S \ {x}]
  BY <1>0, SumIs
<1>3. a[S \ {x}] = b[S \ {x}]
  <2>1. S \ {x} \in SUBSET S /\ S \ {x} \in SUBSET (S \ {x})  OBVIOUS
  <2> QED  BY <1>0, <1>1, <1>2, <2>1, SumMatches
<1>4. a[S] = f[x] + a[S \ {x}]
  <2>1. S \in SUBSET S  OBVIOUS
  <2> QED  BY <1>1, <2>1, SumAny
<1>5. a[S] \in Int /\ a[S \ {x}] \in Int
  <2>1. S \in SUBSET S /\ S \ {x} \in SUBSET S  OBVIOUS
  <2> QED  BY <1>1, <2>1, SumInt
<1> QED  BY <1>1, <1>2, <1>3, <1>4, <1>5

LEMMA SumType ==
  ASSUME NEW f, NEW S, IsFiniteSet(S), \A y \in S : f[y] \in Int
  PROVE  SumOf(f, S) \in Int
<1>1. PICK a : a = Summing(f, S, a) /\ SumOf(f, S) = a[S]  BY SumIs
<1>2. S \in SUBSET S  OBVIOUS
<1> QED  BY <1>1, <1>2, SumInt

\* When one number changes, the sum changes by as much.
LEMMA SumChange ==
  ASSUME NEW f, NEW g, NEW S, IsFiniteSet(S), \A y \in S : f[y] \in Int /\ g[y] \in Int,
         NEW x \in S, \A y \in S : y # x => g[y] = f[y]
  PROVE  SumOf(g, S) = SumOf(f, S) + (g[x] - f[x])
<1>0. IsFiniteSet(S \ {x})  BY FS_Subset
<1>1. SumOf(f, S \ {x}) = SumOf(g, S \ {x})  BY <1>0, SumSame
<1>2. SumOf(f, S) = f[x] + SumOf(f, S \ {x}) /\ SumOf(f, S \ {x}) \in Int  BY SumWith
<1>3. SumOf(g, S) = g[x] + SumOf(g, S \ {x})  BY SumWith
<1>4. f[x] \in Int /\ g[x] \in Int  OBVIOUS
<1> QED  BY <1>1, <1>2, <1>3, <1>4

\* f has a number for each member of S, and 0 for x: x adds nothing to the sum.
IdleAt(f, S, x) == IsFiniteSet(S) /\ (\A y \in S : f[y] \in Int) /\ x \in S /\ f[x] = 0

LEMMA SumZero == \A f, S, x : IdleAt(f, S, x) => SumOf(f, S) = SumOf(f, S \ {x})
<1> SUFFICES ASSUME NEW f, NEW S, NEW x, IdleAt(f, S, x)
             PROVE  SumOf(f, S) = SumOf(f, S \ {x})
  OBVIOUS
<1>0. IsFiniteSet(S) /\ (\A y \in S : f[y] \in Int) /\ x \in S /\ f[x] = 0  BY DEF IdleAt
<1>1. SumOf(f, S) = f[x] + SumOf(f, S \ {x}) /\ SumOf(f, S \ {x}) \in Int
  BY <1>0, SumWith
<1> QED  BY <1>0, <1>1

\* g is f with n more at x: the sum has n more.
MoreAt(f, g, S, x, n) ==
  /\ IsFiniteSet(S) /\ (\A y \in S : f[y] \in Int /\ g[y] \in Int)
  /\ x \in S /\ g[x] - f[x] = n
  /\ \A y \in S : y # x => g[y] = f[y]

LEMMA SumMore == \A f, g, S, x, n : MoreAt(f, g, S, x, n) => SumOf(g, S) = SumOf(f, S) + n
<1> SUFFICES ASSUME NEW f, NEW g, NEW S, NEW x, NEW n, MoreAt(f, g, S, x, n)
             PROVE  SumOf(g, S) = SumOf(f, S) + n
  OBVIOUS
<1>0. /\ IsFiniteSet(S) /\ (\A y \in S : f[y] \in Int /\ g[y] \in Int)
      /\ x \in S /\ g[x] - f[x] = n
      /\ \A y \in S : y # x => g[y] = f[y]
  BY DEF MoreAt
<1>1. SumOf(g, S) = SumOf(f, S) + (g[x] - f[x])  BY <1>0, SumChange
<1> QED  BY <1>0, <1>1

------------------------------------------------------------------------------
(* The books: the rows hold what was written, and each redirect is in them  *)
(* or on its way.                                                           *)

HitsOf(ls) == [l \in 1..Len(ls) |-> ls[l].hits]
RowsOf(ls, c) == {l \in 1..Len(ls) : ls[l].code = c}
Booked(ls, c) == SumOf(HitsOf(ls), RowsOf(ls, c))

LEMMA Rows ==
  ASSUME NEW ls \in Seq(Link), NEW c
  PROVE  /\ Len(ls) \in Nat /\ IsFiniteSet(RowsOf(ls, c))
         /\ \A l \in 1..Len(ls) : ls[l] \in Link /\ HitsOf(ls)[l] = ls[l].hits /\ ls[l].hits \in Int
<1>1. Len(ls) \in Nat  BY LenProperties
<1>2. IsFiniteSet(1..Len(ls))
  <2>1. 1 \in Int /\ Len(ls) \in Int  BY <1>1
  <2> QED  BY <2>1, FS_Interval
<1>3. IsFiniteSet(RowsOf(ls, c))  BY <1>2, FS_Subset DEF RowsOf
<1>4. \A l \in 1..Len(ls) : ls[l] \in Link  BY ElementOfSeq
<1>5. \A l \in 1..Len(ls) : ls[l].hits \in Int  BY <1>4 DEF Link
<1> QED  BY <1>1, <1>3, <1>4, <1>5 DEF HitsOf

LEMMA HitAt ==
  ASSUME NEW ls \in Seq(Link), NEW l \in 1..Len(ls)
  PROVE  HitsOf(ls)[l] = ls[l].hits /\ ls[l].hits \in Int /\ HitsOf(ls)[l] \in Int
<1>1. ls[l] \in Link  BY ElementOfSeq
<1>2. ls[l].hits \in Int  BY <1>1 DEF Link
<1> QED  BY <1>2 DEF HitsOf

\* As long as codes and hits are the same, so is the sum.
LEMMA BookedKeeps ==
  ASSUME NEW ls \in Seq(Link), NEW ks \in Seq(Link), Len(ks) = Len(ls), NEW c,
         \A l \in 1..Len(ls) : ks[l].code = ls[l].code /\ (l \in RowsOf(ls, c) => ks[l].hits = ls[l].hits)
  PROVE  Booked(ks, c) = Booked(ls, c)
<1>1. RowsOf(ks, c) = RowsOf(ls, c)  BY DEF RowsOf
<1>2. \A l \in RowsOf(ls, c) : HitsOf(ks)[l] = HitsOf(ls)[l]  BY Rows DEF RowsOf
<1>3. IsFiniteSet(RowsOf(ls, c))  BY Rows
<1> QED  BY <1>1, <1>2, <1>3, SumSame DEF Booked

\* A new link has no hits to add.
LEMMA BookedAppend ==
  ASSUME NEW ls \in Seq(Link), NEW new \in Link, new.hits = 0, NEW c
  PROVE  Booked(Append(ls, new), c) = Booked(ls, c)
<1> PICK ks : ks = Append(ls, new)  OBVIOUS
<1> PICK n : n = Len(ls) + 1  OBVIOUS
<1>1. /\ ks \in Seq(Link) /\ Len(ks) = n /\ ks[n] = new
      /\ \A l \in 1..Len(ls) : ks[l] = ls[l]
  BY AppendProperties
<1>2. Len(ls) \in Nat /\ n \notin RowsOf(ls, c)  BY Rows DEF RowsOf
<1>3. \A l \in 1..n : l \in 1..Len(ls) \/ l = n  BY <1>2
<1>4. \A l \in 1..Len(ls) : l \in 1..n  BY <1>2
<1>5. \A l \in RowsOf(ls, c) : HitsOf(ks)[l] = HitsOf(ls)[l]
  <2> TAKE l \in RowsOf(ls, c)
  <2>1. l \in 1..Len(ls) /\ l \in 1..Len(ks)  BY <1>1, <1>4 DEF RowsOf
  <2>2. HitsOf(ks)[l] = ks[l].hits /\ HitsOf(ls)[l] = ls[l].hits  BY <1>1, <2>1, HitAt
  <2> QED  BY <1>1, <2>1, <2>2
<1>6. SumOf(HitsOf(ks), RowsOf(ls, c)) = Booked(ls, c)
  BY <1>5, Rows, SumSame DEF Booked
<1>7. CASE new.code # c
  <2>1. RowsOf(ks, c) = RowsOf(ls, c)  BY <1>1, <1>3, <1>4, <1>7 DEF RowsOf
  <2> QED  BY <1>6, <2>1 DEF Booked
<1>8. CASE new.code = c
  <2>1. n \in 1..n  BY <1>2
  <2>2. RowsOf(ks, c) \ {n} = RowsOf(ls, c) /\ n \in RowsOf(ks, c)
    BY <1>1, <1>2, <1>3, <1>4, <1>8, <2>1 DEF RowsOf
  <2>3. IsFiniteSet(RowsOf(ks, c))  BY <1>1, Rows
  <2>4. \A l \in RowsOf(ks, c) : HitsOf(ks)[l] \in Int  BY <1>1, HitAt DEF RowsOf
  <2>5. HitsOf(ks)[n] = 0
    <3>1. n \in 1..Len(ks)  BY <1>1, <2>1
    <3>2. HitsOf(ks)[n] = ks[n].hits  BY <1>1, <3>1, HitAt
    <3> QED  BY <1>1, <3>2
  <2>6. SumOf(HitsOf(ks), RowsOf(ks, c)) = SumOf(HitsOf(ks), RowsOf(ks, c) \ {n})
    <3>1. IdleAt(HitsOf(ks), RowsOf(ks, c), n)  BY <2>2, <2>3, <2>4, <2>5, Zenon DEF IdleAt
    <3> QED  BY <3>1, SumZero
  <2> QED  BY <1>6, <2>2, <2>6 DEF Booked
<1> QED  BY <1>7, <1>8

\* A sum written to a row of c is booked for c.
LEMMA BookedRow ==
  ASSUME NEW ls \in Seq(Link), NEW ks \in Seq(Link), Len(ks) = Len(ls),
         NEW t \in 1..Len(ls), NEW n \in Int, NEW c, ls[t].code = c,
         ks[t].hits = ls[t].hits + n,
         \A l \in 1..Len(ls) : ks[l].code = ls[l].code /\ (l # t => ks[l].hits = ls[l].hits)
  PROVE  Booked(ks, c) = Booked(ls, c) + n
<1>1. RowsOf(ks, c) = RowsOf(ls, c) /\ t \in RowsOf(ls, c)  BY DEF RowsOf
<1>2. IsFiniteSet(RowsOf(ls, c))  BY Rows
<1>3. \A l \in RowsOf(ls, c) : HitsOf(ls)[l] \in Int /\ HitsOf(ks)[l] \in Int
  BY Rows DEF RowsOf
<1>4. \A l \in RowsOf(ls, c) : l # t => HitsOf(ks)[l] = HitsOf(ls)[l]
  BY Rows DEF RowsOf
<1>5. HitsOf(ks)[t] - HitsOf(ls)[t] = n
  <2>1. HitsOf(ks)[t] = ls[t].hits + n /\ HitsOf(ls)[t] = ls[t].hits /\ ls[t].hits \in Int
    BY Rows
  <2> QED  BY <2>1
<1>6. SumOf(HitsOf(ks), RowsOf(ls, c)) = SumOf(HitsOf(ls), RowsOf(ls, c)) + n
  <2>1. MoreAt(HitsOf(ls), HitsOf(ks), RowsOf(ls, c), t, n)
    BY <1>1, <1>2, <1>3, <1>4, <1>5, Zenon DEF MoreAt
  <2> QED  BY <2>1, SumMore
<1> QED  BY <1>1, <1>6 DEF Booked

\* The rows of a code, those of removed links too, hold what was counted for it, and
\* every redirect was dropped or accepted.
Accounts ==
  /\ \A c \in Codes : Booked(links, c) = counted[c]
  /\ redirects \in Int /\ dropped \in Int
  /\ redirects = dropped + SumOf(accepted, Codes)

LEMMA AccountsInit == InitAll => Accounts
<1> SUFFICES ASSUME InitAll PROVE Accounts  OBVIOUS
<1>1. links = <<>> /\ Len(links) = 0  BY EmptySeq DEF InitAll
<1>2. ASSUME NEW c \in Codes PROVE Booked(links, c) = counted[c]
  <2>1. RowsOf(links, c) = {}  BY <1>1 DEF RowsOf
  <2>2. Booked(links, c) = 0  BY <2>1, SumEmpty DEF Booked
  <2>3. counted[c] = 0
    <3>1. counted = [d \in Codes |-> 0]  BY DEF InitAll, Init, None
    <3> QED  BY <3>1
  <2> QED  BY <2>2, <2>3
<1>3. SumOf(accepted, Codes) = 0
  <2> DEFINE N == {n \in Nat : \A S \in SUBSET Codes : Cardinality(S) = n => SumOf(accepted, S) = 0}
  <2>0. \A S \in SUBSET Codes : IsFiniteSet(S) /\ Cardinality(S) \in Nat
    BY HitBatcherAssumption, FS_Subset, FS_CardinalityType
  <2>1. \A c \in Codes : accepted[c] = 0 /\ accepted[c] \in Int
    <3>1. accepted = [d \in Codes |-> 0]  BY DEF InitAll, Init, None
    <3> QED  BY <3>1
  <2>2. 0 \in N
    <3>1. \A S \in SUBSET Codes : Cardinality(S) = 0 => S = {}  BY <2>0, FS_EmptySet
    <3> QED  BY <3>1, SumEmpty
  <2>3. ASSUME NEW n \in Nat, n \in N PROVE n + 1 \in N
    <3> SUFFICES ASSUME NEW S \in SUBSET Codes, Cardinality(S) = n + 1
                 PROVE  SumOf(accepted, S) = 0
      OBVIOUS
    <3>1. Pick(S) \in S /\ Cardinality(S \ {Pick(S)}) = n  BY <2>0, OneLess
    <3>2. SumOf(accepted, S \ {Pick(S)}) = 0  BY <2>3, <3>1
    <3>3. SumOf(accepted, S) = accepted[Pick(S)] + SumOf(accepted, S \ {Pick(S)})
      BY <2>0, <2>1, <3>1, SumWith
    <3> QED  BY <2>1, <3>1, <3>2, <3>3
  <2>4. Nat \subseteq N  BY <2>2, <2>3, NatSets
  <2> QED  BY <2>0, <2>4
<1> QED  BY <1>2, <1>3 DEF InitAll, Accounts

LEMMA AccountsNext == LInv /\ LInv' /\ Accounts /\ [NextAll]_all => Accounts'
<1> SUFFICES ASSUME LInv, LInv', Accounts, [NextAll]_all PROVE Accounts'  OBVIOUS
<1>0. /\ links \in Seq(Link) /\ links' \in Seq(Link) /\ LinksOK /\ TypeOK /\ TypeOK'
      /\ Len(links) \in Nat /\ IsFiniteSet(Codes)
  BY Rows, HitBatcherAssumption DEF LInv, LinksOK, IInv
<1>1. ASSUME NEW c \in Codes, CreateLink(c) PROVE Accounts'
  <2> DEFINE new == [code |-> c, hits |-> 0, served |-> 0, failed |-> 0, strays |-> Unsettled(c)]
  <2>1. links' = Append(links, new) /\ UNCHANGED <<batcher, redirects, dropped>>
    BY <1>1 DEF CreateLink
  <2>2. Unsettled(c) \in Nat  BY UnsettledNat DEF LInv
  <2>3. new \in Link /\ new.hits = 0  BY <2>2 DEF Link
  <2> HIDE DEF new
  <2>4. \A d \in Codes : Booked(links', d) = Booked(links, d)
    BY <1>0, <2>1, <2>3, BookedAppend
  <2> QED  BY <2>1, <2>4 DEF Accounts, batcher
<1>2. ASSUME NEW c \in Codes, RemoveLink(c) PROVE Accounts'
  BY <1>2 DEF RemoveLink, Accounts, batcher
<1>3. ASSUME NEW c \in Codes, WriteRow(c) PROVE Accounts'
  <2>1. /\ UNCHANGED <<redirects, dropped, accepted, table>> /\ pending[c] \in Nat
        /\ pending[c] > 0
    BY <1>0, <1>3 DEF WriteRow, WriteOne, TypeOK
  <2>2. CASE counted' = counted /\ UNCHANGED links
    BY <2>1, <2>2 DEF Accounts
  <2>3. CASE /\ counted' # counted /\ table[c] # 0
             /\ links' = [links EXCEPT ![table[c]].hits = @ + pending[c]]
    <3>1. counted' = [counted EXCEPT ![c] = @ + pending[c]]
      BY <1>3, <2>3 DEF WriteRow, WriteOne
    <3>2. \A d \in Codes : counted'[d] = IF d = c THEN counted[c] + pending[c] ELSE counted[d]
      BY <1>0, <3>1 DEF TypeOK
    <3> PICK t : t = table[c]  OBVIOUS
    <3>3. t \in 1..Len(links) /\ links[t].code = c
      BY <1>0, <2>3 DEF LinksOK, LinkIds
    <3>4. links \in [1..Len(links) -> Link]  BY <1>0, LenProperties
    <3>5. links' = [links EXCEPT ![t] = [links[t] EXCEPT !.hits = @ + pending[c]]]
      BY <2>3, Zenon
    <3>6. links'[t] = [links[t] EXCEPT !.hits = @ + pending[c]]  BY <3>3, <3>4, <3>5, Zenon
    <3>7. links[t] \in Link  BY <3>3, <3>4
    <3>8. links'[t].code = links[t].code /\ links'[t].hits = links[t].hits + pending[c]
      BY <3>6, <3>7 DEF Link
    <3>9. \A l \in 1..Len(links) : l # t => links'[l] = links[l]  BY <3>4, <3>5
    <3>10. Len(links') = Len(links)
      <4>1. DOMAIN links' = DOMAIN links  BY <3>4, <3>5
      <4>2. DOMAIN links = 1..Len(links) /\ DOMAIN links' = 1..Len(links') /\ Len(links') \in Nat
        BY <1>0, LenProperties
      <4> QED  BY <1>0, <4>1, <4>2
    <3>11. \A l \in 1..Len(links) : links'[l].code = links[l].code /\ (l # t => links'[l].hits = links[l].hits)
      BY <3>8, <3>9
    <3>12. Booked(links', c) = Booked(links, c) + pending[c]
      <4>1. ASSUME NEW ls, NEW ks, NEW n, ls = links, ks = links', n = pending[c]
            PROVE  Booked(ks, c) = Booked(ls, c) + n
        <5>1. ls \in Seq(Link) /\ ks \in Seq(Link) /\ Len(ks) = Len(ls) /\ n \in Int
          BY <1>0, <2>1, <3>10, <4>1
        <5>2. t \in 1..Len(ls) /\ ls[t].code = c /\ ks[t].hits = ls[t].hits + n
          BY <3>3, <3>8, <4>1
        <5>3. \A l \in 1..Len(ls) : ks[l].code = ls[l].code /\ (l # t => ks[l].hits = ls[l].hits)
          BY <3>11, <4>1
        <5> QED  BY <5>1, <5>2, <5>3, BookedRow
      <4> QED  BY <4>1
    <3>13. ASSUME NEW d \in Codes, d # c PROVE Booked(links', d) = Booked(links, d)
      <4>1. t \notin RowsOf(links, d)  BY <3>3, <3>13 DEF RowsOf
      <4>2. \A l \in 1..Len(links) :
              links'[l].code = links[l].code /\ (l \in RowsOf(links, d) => links'[l].hits = links[l].hits)
        BY <3>11, <4>1
      <4> QED  BY <1>0, <3>10, <4>2, BookedKeeps
    <3>14. \A d \in Codes : Booked(links', d) = counted'[d]
      BY <3>2, <3>12, <3>13 DEF Accounts
    <3> QED  BY <2>1, <3>14 DEF Accounts
  <2> QED  BY <1>3, <2>2, <2>3 DEF WriteRow
<1>4. ASSUME NEW c \in Codes, NEW l \in LinksOf(c), Redirect(c, l) PROVE Accounts'
  <2>1. redirects' = redirects + 1 /\ redirects \in Int /\ dropped \in Int
    BY <1>4 DEF Redirect, Accounts
  <2>2. \A m \in LinkIds : links'[m].code = links[m].code /\ links'[m].hits = links[m].hits
    <3> TAKE m \in LinkIds
    <3>1. links[m] \in Link /\ links[l] \in Link  BY <1>0, LinkFields DEF LinksOf
    <3>2. links'[m] = CASE m = l /\ l \notin Refused -> [links[l] EXCEPT !.served = @ + 1]
                        [] m = l /\ l \in Refused -> [links[l] EXCEPT !.failed = @ + 1]
                        [] m # l /\ m = table[c] /\ SlotFree -> [links[m] EXCEPT !.strays = @ + 1]
                        [] OTHER -> links[m]
      BY <1>4 DEF Redirect
    <3>3. CASE m = l /\ l \notin Refused
      <4>1. links'[m] = [links[m] EXCEPT !.served = @ + 1]  BY <3>2, <3>3
      <4> QED  BY <3>1, <4>1 DEF Link
    <3>4. CASE m = l /\ l \in Refused
      <4>1. links'[m] = [links[m] EXCEPT !.failed = @ + 1]  BY <3>2, <3>4
      <4> QED  BY <3>1, <4>1 DEF Link
    <3>5. CASE m # l /\ m = table[c] /\ SlotFree
      <4>1. links'[m] = [links[m] EXCEPT !.strays = @ + 1]  BY <3>2, <3>5
      <4> QED  BY <3>1, <4>1 DEF Link
    <3>6. CASE m # l /\ ~(m = table[c] /\ SlotFree)
      <4>1. links'[m] = links[m]  BY <3>2, <3>6
      <4> QED  BY <4>1
    <3> QED  BY <3>3, <3>4, <3>5, <3>6
  <2>3. Len(links') = Len(links)
    <3>1. DOMAIN links' = 1..Len(links)  BY <1>4 DEF Redirect, LinkIds
    <3>2. DOMAIN links' = 1..Len(links') /\ Len(links') \in Nat  BY <1>0, LenProperties
    <3> QED  BY <1>0, <3>1, <3>2
  <2>4. \A d \in Codes : Booked(links', d) = Booked(links, d)
    BY <1>0, <2>2, <2>3, BookedKeeps DEF LinkIds
  <2>5. CASE Record(c) /\ UNCHANGED dropped
    <3>1. accepted' = [accepted EXCEPT ![c] = @ + 1] /\ UNCHANGED counted
      BY <2>5 DEF Record
    <3>2. /\ \A d \in Codes : accepted[d] \in Int /\ accepted'[d] \in Int
          /\ \A d \in Codes : d # c => accepted'[d] = accepted[d]
          /\ accepted'[c] - accepted[c] = 1
      BY <1>0, <3>1 DEF TypeOK
    <3> PICK f, g : f = accepted /\ g = accepted'  OBVIOUS
    <3>3. SumOf(g, Codes) = SumOf(f, Codes) + (g[c] - f[c])
      <4>1. \A d \in Codes : f[d] \in Int /\ g[d] \in Int  BY <3>2
      <4>2. \A d \in Codes : d # c => g[d] = f[d]  BY <3>2
      <4> QED  BY <1>0, <4>1, <4>2, SumChange
    <3>4. SumOf(accepted', Codes) = SumOf(accepted, Codes) + 1 /\ SumOf(accepted, Codes) \in Int
      BY <1>0, <3>2, <3>3, SumType
    <3>5. redirects' = dropped' + SumOf(accepted', Codes) /\ redirects' \in Int /\ dropped' \in Int
      BY <2>1, <2>5, <3>4 DEF Accounts
    <3> QED  BY <2>4, <3>1, <3>5 DEF Accounts
  <2>6. CASE dropped' = dropped + 1 /\ UNCHANGED batcher
    <3>1. accepted' = accepted /\ counted' = counted  BY <2>6 DEF batcher
    <3>2. SumOf(accepted, Codes) \in Int  BY <1>0, SumType DEF TypeOK
    <3>3. redirects' = dropped' + SumOf(accepted, Codes) /\ redirects' \in Int /\ dropped' \in Int
      BY <2>1, <2>6, <3>2 DEF Accounts
    <3> QED  BY <2>4, <3>1, <3>3 DEF Accounts
  <2> QED  BY <1>4, <2>5, <2>6 DEF Redirect
<1>5. CASE BatcherStep \/ UNCHANGED all
  <2>1. UNCHANGED <<links, ledger, redirects, dropped>>
    BY <1>5 DEF BatcherStep, FlushStep, CallFlush, SendFlush, ReturnFlush, RecvHit, RecvFlush,
           RecvNone, Written, TimerTick, StopServing, Abort, DropRecorder, all, batcher,
           store, ledger
  <2> QED  BY <2>1 DEF Accounts, ledger
<1> QED  BY <1>1, <1>2, <1>3, <1>4, <1>5 DEF NextAll

\* The counter of the process and the rows of the table agree: every redirect is in the
\* hits of a link, on its way to one, given up by the task, or dropped at the channel.
THEOREM RedirectsAreAccounted == SpecAll => []EveryRedirectAccounted
<1>1. LInv /\ Accounts => EveryRedirectAccounted
  <2> SUFFICES ASSUME LInv, Accounts PROVE EveryRedirectAccounted  OBVIOUS
  <2>0. links \in Seq(Link) /\ TypeOK /\ IsFiniteSet(Codes) /\ LinkIds = 1..Len(links)
    BY HitBatcherAssumption DEF LInv, LinksOK, IInv, LinkIds
  <2>1. ASSUME NEW c \in Codes PROVE Hits(c) = counted[c]
    <3> DEFINE S == LinksOf(c)
               F(it) == [s \in SUBSET S |-> IF s = {} THEN 0 ELSE links[Pick(s)].hits + it[s \ {Pick(s)}]]
               h == CHOOSE it : it = F(it)
    <3>1. Hits(c) = h[S]  BY DEF Hits, MapThenSumSet, MapThenFoldSet, Pick
    <3>2. ASSUME NEW it PROVE F(it) = Summing(HitsOf(links), S, it)
      <4>1. \A s \in SUBSET S : s # {} => HitsOf(links)[Pick(s)] = links[Pick(s)].hits
        BY <2>0 DEF HitsOf, LinksOf, Pick
      <4> QED  BY <4>1 DEF Summing
    <3>3. IsFiniteSet(S) /\ S = RowsOf(links, c)
      BY <2>0, Rows DEF LinksOf, RowsOf
    <3>4. PICK a : a = Summing(HitsOf(links), S, a) /\ SumOf(HitsOf(links), S) = a[S]
      BY <3>3, SumIs
    <3>5. h = F(h)
      <4>1. a = F(a)  BY <3>2, <3>4
      <4> HIDE DEF F
      <4> QED  BY <4>1
    <3>6. h = Summing(HitsOf(links), S, h)
      <4> HIDE DEF F, h
      <4> QED  BY <3>2, <3>5
    <3> HIDE DEF h, S
    <3>7. h[S] = a[S]
      <4>1. S \in SUBSET S  OBVIOUS
      <4> QED  BY <3>3, <3>4, <3>6, <4>1, SumMatches
    <3> QED  BY <3>1, <3>3, <3>4, <3>7 DEF Accounts, Booked
  <2>2. \A c \in Codes : Hits(c) + Unsettled(c) + lost[c] = accepted[c]
    <3> TAKE c \in Codes
    <3>1. counted[c] \in Nat /\ lost[c] \in Nat /\ accepted[c] \in Nat
      BY <2>0 DEF TypeOK
    <3> QED  BY <2>1, <3>1 DEF Unsettled, Settled
  <2>3. Tally(LAMBDA c : Hits(c) + Unsettled(c) + lost[c]) = SumOf(accepted, Codes)
    <3> DEFINE F(it) == [s \in SUBSET Codes |-> IF s = {} THEN 0
                 ELSE (Hits(Pick(s)) + Unsettled(Pick(s)) + lost[Pick(s)]) + it[s \ {Pick(s)}]]
               h == CHOOSE it : it = F(it)
    <3>1. Tally(LAMBDA c : Hits(c) + Unsettled(c) + lost[c]) = h[Codes]
      BY DEF Tally, MapThenSumSet, MapThenFoldSet, Pick
    <3>2. ASSUME NEW it PROVE F(it) = Summing(accepted, Codes, it)
      <4>1. \A s \in SUBSET Codes : s # {} =>
              Hits(Pick(s)) + Unsettled(Pick(s)) + lost[Pick(s)] = accepted[Pick(s)]
        BY <2>2 DEF Pick
      <4> QED  BY <4>1 DEF Summing
    <3>4. PICK a : a = Summing(accepted, Codes, a) /\ SumOf(accepted, Codes) = a[Codes]
      BY <2>0, SumIs
    <3>5. h = F(h)
      <4>1. a = F(a)  BY <3>2, <3>4
      <4> HIDE DEF F
      <4> QED  BY <4>1
    <3>6. h = Summing(accepted, Codes, h)
      <4> HIDE DEF F, h
      <4> QED  BY <3>2, <3>5
    <3> HIDE DEF h
    <3>7. h[Codes] = a[Codes]
      <4>1. Codes \in SUBSET Codes  OBVIOUS
      <4> QED  BY <2>0, <3>4, <3>6, <4>1, SumMatches
    <3> QED  BY <3>1, <3>4, <3>7
  <2> QED  BY <2>3 DEF Accounts, EveryRedirectAccounted
<1>2. InitAll => Accounts  BY AccountsInit
<1>3. LInv /\ LInv' /\ Accounts /\ [NextAll]_all => Accounts'  BY AccountsNext
<1>4. QED  BY <1>1, <1>2, <1>3, LinksInductive, PTL DEF SpecAll
==============================================================================
