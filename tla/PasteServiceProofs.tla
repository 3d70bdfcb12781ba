--------------------------- MODULE PasteServiceProofs ---------------------------
(****************************************************************************)
(* Theorems about PasteService, for any number of clients, ids and pastes   *)
(* and any timeouts.  The first part is about one-shot pastes: they are not *)
(* cached, have one reader, and the use cases implement BurnAfterRead.      *)
(****************************************************************************)
EXTENDS PasteService, SequenceTheorems, TLAPS

\* The awaits of a request that has a paste, and of one that cannot have a one-shot.
Sharing == {"hit", "ttl", "cacheSet", "record"}
Knowing == Sharing \cup {"found", "take", "taken"}

\* A request names the paste it has read; a one-shot goes no other way than by take.
RequestsOK ==
  \A p \in Clients :
    /\ req[p].pc \in Knowing => req[p].paste \in PasteNumbers
    /\ req[p].pc \in Sharing => ~pastes[req[p].paste].oneShot
CacheOK == \A i \in Ids : cache[i].paste # 0 => ~pastes[cache[i].paste].oneShot

\* The table binds ids to pastes nobody removed.
RowsOK == \A i \in Ids : table[i] # 0 => pastes[table[i]].id = i /\ pastes[table[i]].by = "nobody"

\* A paste that was taken is one client's, who has not read it yet.
HeldOK ==
  \A p \in Clients : req[p].pc = "taken" =>
    /\ req[p].paste \in PasteNumbers /\ pastes[req[p].paste].by = "burn"
    /\ pastes[req[p].paste].oneShot => pastes[req[p].paste].readers = 0
    /\ \A q \in Clients : req[q].pc = "taken" /\ req[q].paste = req[p].paste => q = p

\* Nobody has read what nobody removed.
UnreadOK == \A n \in PasteNumbers : pastes[n].by = "nobody" => pastes[n].readers = 0

Burning == RowsOK /\ HeldOK /\ UnreadOK /\ OneReader
IInv == TypeOK /\ RequestsOK /\ CacheOK /\ Burning

\* What a step does to the phases of the pastes.
PhaseStep ==
  \A n \in 1..MaxPastes : Phase(n)' = Phase(n) \/ <<Phase(n), Phase(n)'>> \in Burn!Moves

\* What no step does to the pastes.
PastesStep ==
  /\ Len(pastes') \in {Len(pastes), Len(pastes) + 1}
  /\ \A n \in PasteNumbers :
       /\ pastes'[n].id = pastes[n].id /\ pastes'[n].oneShot = pastes[n].oneShot
       /\ pastes'[n].expires = pastes[n].expires /\ pastes'[n].stored = pastes[n].stored

USE DEF PasteNumbers, Sharing, Knowing

LEMMA PasteFields ==
  ASSUME pastes \in Seq(Paste), NEW n \in PasteNumbers
  PROVE  /\ pastes[n] \in Paste /\ pastes[n].id \in Ids /\ pastes[n].oneShot \in BOOLEAN
         /\ pastes[n].by \in {"nobody", "burn", "purge", "delete"} /\ pastes[n].readers \in 0..2
         /\ pastes[n].expires \in Int \cup {Never} /\ pastes[n].gone \in Nat \cup {Never}
         /\ pastes[n].stored \in Nat
<1>1. pastes[n] \in Paste  BY ElementOfSeq
<1>2. QED  BY <1>1 DEF Paste

LEMMA Constants ==
  /\ RequestTimeout \in Nat /\ RequestTimeout > 0
  /\ MaxCacheTtl \in Nat /\ MaxCacheTtl > 0
  /\ Second \in Nat /\ Second > 0
  /\ Never \notin Int
BY PasteServiceAssumption

\* Seconds and ticks: the only facts about them the proofs use.
LEMMA TickType == ASSUME NEW a \in Int PROVE Ticks(a) \in Int
BY Constants DEF Ticks

LEMMA TickOrder ==
  ASSUME NEW a \in Int, NEW b \in Int
  PROVE  /\ a <= b => Ticks(a) <= Ticks(b)
         /\ a < b => Ticks(a) + Second <= Ticks(b)
<1>1. Second \in Nat /\ Second > 0  BY Constants
<1>2. \A d \in Nat : Second * d >= 0 /\ (d > 0 => Second * d >= Second)  BY <1>1
<1>3. /\ a <= b => Second * (b - a) >= 0
      /\ a < b => Second * (b - a) >= Second
  BY <1>2
<1>4. Second * (b - a) = Second * b - Second * a  BY <1>1
<1>5. Second * a \in Int /\ Second * b \in Int  BY <1>1
<1>6. QED  BY <1>1, <1>3, <1>4, <1>5 DEF Ticks

\* now_unix lags behind the time by less than a second.
LEMMA WholeSeconds ==
  ASSUME now \in Nat
  PROVE  NowUnix \in Nat /\ Ticks(NowUnix) <= now /\ now < Ticks(NowUnix) + Second
<1>1. Second \in Nat /\ Second > 0  BY Constants
<1>2. now \div Second \in Nat  BY <1>1
<1>3. Second * (now \div Second) <= now /\ now < Second * (now \div Second) + Second
  BY <1>1
<1>4. QED  BY <1>2, <1>3 DEF NowUnix, Ticks

\* Paste::is_expired tells whether the expiry has been reached, on the tick.
LEMMA ExpiredOnTime ==
  ASSUME now \in Nat, NEW n \in PasteNumbers, pastes[n].expires \in Int
  PROVE  IsExpired(n) <=> Ticks(pastes[n].expires) <= now
<1> DEFINE e == pastes[n].expires
           u == NowUnix
<1>1. u \in Nat /\ Ticks(u) <= now /\ now < Ticks(u) + Second  BY WholeSeconds
<1>2. IsExpired(n) <=> e <= u  BY <1>1, Constants DEF IsExpired
<1>3. e \in Int /\ u \in Int /\ Second \in Nat  BY <1>1, Constants
<1> HIDE DEF e, u
<1>4. Ticks(e) \in Int /\ Ticks(u) \in Int  BY <1>3, TickType
<1>5. e <= u => Ticks(e) <= Ticks(u)  BY <1>3, TickOrder
<1>6. u < e => Ticks(u) + Second <= Ticks(e)  BY <1>3, TickOrder
<1>7. Ticks(e) <= now <=> e <= u  BY <1>1, <1>3, <1>4, <1>5, <1>6
<1>8. QED  BY <1>2, <1>7 DEF e

\* A lifetime of whole seconds, of at most MAX_CACHE_TTL_SECS of them.
LEMMA Lifetimes ==
  ASSUME NEW ttl \in 0..MaxCacheTtl
  PROVE  /\ Ticks(ttl) \in Nat /\ Ticks(MaxCacheTtl) \in Nat
         /\ Ticks(ttl) <= Ticks(MaxCacheTtl)
         /\ ttl > 0 => Ticks(ttl) > 0
<1>1. MaxCacheTtl \in Nat /\ ttl \in Nat /\ ttl <= MaxCacheTtl /\ Second \in Nat /\ Second > 0
  BY Constants
<1>2. Ticks(0) = 0  BY <1>1 DEF Ticks
<1>3. Ticks(ttl) \in Int /\ Ticks(MaxCacheTtl) \in Int  BY <1>1, TickType
<1>4. ttl <= MaxCacheTtl => Ticks(ttl) <= Ticks(MaxCacheTtl)  BY <1>1, TickOrder
<1>5. /\ 0 <= ttl => Ticks(0) <= Ticks(ttl)
      /\ 0 < ttl => Ticks(0) + Second <= Ticks(ttl)
  BY <1>1, TickOrder
<1>6. QED  BY <1>1, <1>2, <1>3, <1>4, <1>5

LEMMA Bounds ==
  /\ RequestTimeout \in Nat /\ RequestTimeout > 0
  /\ Ticks(MaxCacheTtl) \in Nat /\ Ticks(MaxCacheTtl) > 0
  /\ Never \notin Int
<1>1. 1 \in 0..MaxCacheTtl  BY Constants
<1>2. Ticks(MaxCacheTtl) \in Nat /\ Ticks(1) <= Ticks(MaxCacheTtl) /\ Ticks(1) > 0 /\ Ticks(1) \in Nat
  BY <1>1, Lifetimes
<1>3. QED  BY <1>2, Constants

LEMMA Lengths == ASSUME TypeOK PROVE Len(pastes) \in Nat /\ pastes \in Seq(Paste) /\ now \in Nat
BY LenProperties DEF TypeOK

------------------------------------------------------------------------------
\* The five things a step does to the storage and to those who have taken a paste.

\* Nothing, unless a reader is cut off: its paste is lost.
LEMMA Onward ==
  ASSUME TypeOK, Burning, UNCHANGED storage,
         \A q \in Clients : req'[q] = req[q] \/ req'[q].pc # "taken"
  PROVE  Burning' /\ PhaseStep /\ PastesStep /\ pastes' = pastes /\ table' = table
<1>1. pastes' = pastes /\ table' = table  BY DEF storage
<1>2. Len(pastes) \in Nat /\ pastes \in Seq(Paste)  BY Lengths
<1>3. Burning'  BY <1>1 DEF Burning, RowsOK, HeldOK, UnreadOK, OneReader
<1>4. PhaseStep
  <2> SUFFICES ASSUME NEW n \in 1..MaxPastes, Phase(n)' # Phase(n)
               PROVE  <<Phase(n), Phase(n)'>> \in Burn!Moves
    BY DEF PhaseStep
  <2>1. Held(n)' => Held(n)  BY <1>1 DEF Held, At
  <2>2. /\ n \in PasteNumbers /\ pastes[n].oneShot /\ pastes[n].by = "burn"
        /\ Held(n) /\ ~Held(n)'
    BY <1>1, <2>1 DEF Phase
  <2>3. pastes[n].readers = 0  BY <2>2 DEF Held, At, Burning, HeldOK
  <2>4. Phase(n) = "claimed" /\ Phase(n)' = "lost"  BY <1>1, <2>2, <2>3 DEF Phase
  <2>5. QED  BY <2>4 DEF Burn!Moves
<1>5. QED  BY <1>1, <1>2, <1>3, <1>4 DEF PastesStep

\* What Remove does to the row of an id that has one.
LEMMA Removed ==
  ASSUME TypeOK, RowsOK, NEW i \in Ids, NEW how \in {"burn", "purge", "delete"},
         Remove(i, how), table[i] # 0
  PROVE  /\ pastes' \in Seq(Paste) /\ Len(pastes') = Len(pastes) /\ PastesStep
         /\ table' \in [Ids -> 0..Len(pastes)] /\ table'[i] = 0
         /\ \A j \in Ids \ {i} : table'[j] = table[j]
         /\ table[i] \in PasteNumbers /\ \A j \in Ids \ {i} : table[j] # table[i]
         /\ pastes'[table[i]].by = how /\ pastes'[table[i]].readers = pastes[table[i]].readers
         /\ pastes'[table[i]].gone = now
         /\ \A m \in PasteNumbers \ {table[i]} : pastes'[m] = pastes[m]
<1> DEFINE n == table[i]
           old == [pastes[n] EXCEPT !.gone = now, !.by = how]
<1>1. Len(pastes) \in Nat /\ pastes \in Seq(Paste) /\ now \in Nat  BY Lengths
<1>2. table \in [Ids -> 0..Len(pastes)]  BY DEF TypeOK
<1>3. n \in PasteNumbers  BY <1>1, <1>2
<1>4. \A j \in Ids \ {i} : table[j] # n  BY DEF RowsOK
<1>5. pastes' = [pastes EXCEPT ![n] = old] /\ table' = [table EXCEPT ![i] = 0]
  BY DEF Remove
<1>6. /\ old \in Paste /\ old.id = pastes[n].id /\ old.oneShot = pastes[n].oneShot
      /\ old.expires = pastes[n].expires /\ old.stored = pastes[n].stored
      /\ old.by = how /\ old.gone = now /\ old.readers = pastes[n].readers
  BY <1>1, <1>3, PasteFields DEF Paste
<1>7. /\ pastes' \in Seq(Paste) /\ Len(pastes') = Len(pastes)
      /\ \A m \in PasteNumbers : pastes'[m] = IF m = n THEN old ELSE pastes[m]
  <2> HIDE DEF old, n
  <2> QED  BY <1>1, <1>3, <1>5, <1>6, ExceptSeq
<1>8. /\ table' \in [Ids -> 0..Len(pastes)] /\ table'[i] = 0
      /\ \A j \in Ids \ {i} : table'[j] = table[j]
  BY <1>1, <1>2, <1>5
<1> HIDE DEF old
<1>9. PastesStep  BY <1>1, <1>6, <1>7 DEF PastesStep
<1>10. QED  BY <1>3, <1>4, <1>6, <1>7, <1>8, <1>9

\* A row is purged or deleted.
LEMMA Removes ==
  ASSUME TypeOK, Burning, NEW i \in Ids, NEW how \in {"purge", "delete"}, Remove(i, how),
         \A q \in Clients : req'[q] = req[q] \/ (req[q].pc # "taken" /\ req'[q].pc # "taken")
  PROVE  /\ Burning' /\ PhaseStep /\ PastesStep /\ pastes' \in Seq(Paste)
         /\ Len(pastes') = Len(pastes) /\ table' \in [Ids -> 0..Len(pastes)]
<1>1. CASE table[i] = 0
  <2>1. pastes' = pastes /\ table' = table  BY <1>1 DEF Remove, TypeOK
  <2>2. QED  BY <2>1, Onward DEF storage, TypeOK
<1>2. CASE table[i] # 0
  <2> DEFINE n == table[i]
  <2>1. /\ pastes' \in Seq(Paste) /\ Len(pastes') = Len(pastes) /\ PastesStep
        /\ table' \in [Ids -> 0..Len(pastes)] /\ table'[i] = 0
        /\ \A j \in Ids \ {i} : table'[j] = table[j]
        /\ n \in PasteNumbers /\ \A j \in Ids \ {i} : table[j] # n
        /\ pastes'[n].by = how /\ pastes'[n].readers = pastes[n].readers
        /\ \A m \in PasteNumbers \ {n} : pastes'[m] = pastes[m]
    BY <1>2, Removed DEF Burning
  <2>2. pastes[n].by = "nobody" /\ pastes[n].readers = 0
    BY <1>2, <2>1 DEF Burning, RowsOK, UnreadOK
  <2> HIDE DEF n
  <2>3. table \in [Ids -> 0..Len(pastes)] /\ Len(pastes) \in Nat  BY Lengths DEF TypeOK
  <2>4. RowsOK'
    <3> SUFFICES ASSUME NEW j \in Ids, table'[j] # 0
                 PROVE  pastes'[table'[j]].id = j /\ pastes'[table'[j]].by = "nobody"
      BY DEF RowsOK
    <3>1. j # i /\ table'[j] = table[j] /\ table[j] # n  BY <2>1
    <3>2. table[j] \in PasteNumbers  BY <2>3, <3>1
    <3>3. QED  BY <2>1, <3>1, <3>2 DEF Burning, RowsOK
  <2>5. \A q \in Clients : req'[q].pc = "taken" => req'[q] = req[q]
    OBVIOUS
  <2>6. HeldOK'
    <3> SUFFICES ASSUME NEW q \in Clients, req'[q].pc = "taken"
                 PROVE  /\ req'[q].paste \in 1..Len(pastes')
                        /\ pastes'[req'[q].paste].by = "burn"
                        /\ pastes'[req'[q].paste].oneShot => pastes'[req'[q].paste].readers = 0
                        /\ \A c \in Clients : req'[c].pc = "taken" /\ req'[c].paste = req'[q].paste
                                                => c = q
      BY DEF HeldOK
    <3>1. /\ req'[q] = req[q] /\ req[q].paste \in PasteNumbers
          /\ pastes[req[q].paste].by = "burn"
      BY <2>5 DEF Burning, HeldOK
    <3>2. pastes'[req[q].paste] = pastes[req[q].paste]
      <4>1. req[q].paste # n  BY <2>2, <3>1
      <4>2. QED  BY <2>1, <3>1, <4>1
    <3>3. QED  BY <2>1, <2>5, <3>1, <3>2 DEF Burning, HeldOK
  <2>7. UnreadOK' /\ OneReader'
    BY <2>1, <2>2 DEF Burning, UnreadOK, OneReader, PastesStep
  <2>8. PhaseStep
    <3> SUFFICES ASSUME NEW m \in 1..MaxPastes
                 PROVE  Phase(m)' = Phase(m) \/ <<Phase(m), Phase(m)'>> \in Burn!Moves
      BY DEF PhaseStep
    <3>1. Held(m)' <=> Held(m)  BY DEF Held, At
    <3>2. CASE m # n
      BY <2>1, <3>1, <3>2 DEF Phase
    <3>3. CASE m = n /\ ~pastes[n].oneShot
      BY <2>1, <3>3 DEF Phase, PastesStep
    <3>4. CASE m = n /\ pastes[n].oneShot
      <4>1. Phase(m) = "stored"  BY <2>1, <2>2, <3>4 DEF Phase
      <4>2. Phase(m)' = "removed"  BY <2>1, <3>4 DEF Phase, PastesStep
      <4>3. QED  BY <4>1, <4>2 DEF Burn!Moves
    <3>5. QED  BY <3>2, <3>3, <3>4
  <2>9. QED  BY <2>1, <2>4, <2>6, <2>7, <2>8 DEF Burning
<1>3. QED  BY <1>1, <1>2

\* A paste is taken: it was nobody's, and is this client's now.
LEMMA Takes ==
  ASSUME TypeOK, Burning, NEW p \in Clients, req[p].pc = "take", NEW i \in Ids,
         table[i] # 0, Remove(i, "burn"),
         req'[p].pc = "taken", req'[p].paste = table[i],
         \A q \in Clients \ {p} : req'[q] = req[q]
  PROVE  /\ Burning' /\ PhaseStep /\ PastesStep /\ pastes' \in Seq(Paste)
         /\ Len(pastes') = Len(pastes) /\ table' \in [Ids -> 0..Len(pastes)]
<1> DEFINE n == table[i]
<1>1. /\ pastes' \in Seq(Paste) /\ Len(pastes') = Len(pastes) /\ PastesStep
      /\ table' \in [Ids -> 0..Len(pastes)] /\ table'[i] = 0
      /\ \A j \in Ids \ {i} : table'[j] = table[j]
      /\ n \in PasteNumbers /\ \A j \in Ids \ {i} : table[j] # n
      /\ pastes'[n].by = "burn" /\ pastes'[n].readers = pastes[n].readers
      /\ \A m \in PasteNumbers \ {n} : pastes'[m] = pastes[m]
  BY Removed DEF Burning
<1>2. pastes[n].by = "nobody" /\ pastes[n].readers = 0
  BY <1>1 DEF Burning, RowsOK, UnreadOK
<1>3. req'[p].paste = n  OBVIOUS
<1> HIDE DEF n
<1>4. table \in [Ids -> 0..Len(pastes)] /\ Len(pastes) \in Nat  BY Lengths DEF TypeOK
<1>5. RowsOK'
  <2> SUFFICES ASSUME NEW j \in Ids, table'[j] # 0
               PROVE  pastes'[table'[j]].id = j /\ pastes'[table'[j]].by = "nobody"
    BY DEF RowsOK
  <2>1. j # i /\ table'[j] = table[j] /\ table[j] # n  BY <1>1
  <2>2. table[j] \in PasteNumbers  BY <1>4, <2>1
  <2>3. QED  BY <1>1, <2>1, <2>2 DEF Burning, RowsOK
<1>6. \A q \in Clients : req[q].pc = "taken" =>
        /\ q # p /\ req'[q] = req[q] /\ req[q].paste # n
        /\ req[q].paste \in PasteNumbers /\ pastes'[req[q].paste] = pastes[req[q].paste]
  BY <1>1, <1>2 DEF Burning, HeldOK
<1>7. HeldOK'
  <2> SUFFICES ASSUME NEW q \in Clients, req'[q].pc = "taken"
               PROVE  /\ req'[q].paste \in 1..Len(pastes')
                      /\ pastes'[req'[q].paste].by = "burn"
                      /\ pastes'[req'[q].paste].oneShot => pastes'[req'[q].paste].readers = 0
                      /\ \A c \in Clients : req'[c].pc = "taken" /\ req'[c].paste = req'[q].paste
                                              => c = q
    BY DEF HeldOK
  <2>1. \A c \in Clients : req'[c].pc = "taken" => c = p \/ req[c].pc = "taken"
    OBVIOUS
  <2>2. CASE q = p  BY <1>1, <1>2, <1>3, <1>6, <2>1, <2>2
  <2>3. CASE q # p
    <3>1. req[q].pc = "taken" /\ req'[q] = req[q]  BY <2>3
    <3>2. QED  BY <1>1, <1>3, <1>6, <2>1, <3>1 DEF Burning, HeldOK
  <2>4. QED  BY <2>2, <2>3
<1>8. UnreadOK' /\ OneReader'
  BY <1>1, <1>2 DEF Burning, UnreadOK, OneReader, PastesStep
<1>9. PhaseStep
  <2> SUFFICES ASSUME NEW m \in 1..MaxPastes
               PROVE  Phase(m)' = Phase(m) \/ <<Phase(m), Phase(m)'>> \in Burn!Moves
    BY DEF PhaseStep
  <2>1. CASE m # n
    <3>1. Held(m)' <=> Held(m)  BY <1>3, <2>1 DEF Held, At
    <3>2. QED  BY <1>1, <2>1, <3>1 DEF Phase
  <2>2. CASE m = n /\ ~pastes[n].oneShot  BY <1>1, <2>2 DEF Phase, PastesStep
  <2>3. CASE m = n /\ pastes[n].oneShot
    <3>1. Phase(m) = "stored"  BY <1>1, <1>2, <2>3 DEF Phase
    <3>2. Held(m)'  BY <1>3, <2>3 DEF Held, At
    <3>3. Phase(m)' = "claimed"  BY <1>1, <2>3, <3>2 DEF Phase, PastesStep
    <3>4. QED  BY <3>1, <3>3 DEF Burn!Moves
  <2>4. QED  BY <2>1, <2>2, <2>3
<1>10. QED  BY <1>1, <1>5, <1>7, <1>8, <1>9 DEF Burning

\* The paste that was taken is read, by the one client that has it.
LEMMA Reads ==
  ASSUME TypeOK, Burning, NEW p \in Clients, Taken(p)
  PROVE  /\ Burning' /\ PhaseStep /\ PastesStep /\ pastes' \in Seq(Paste)
         /\ Len(pastes') = Len(pastes)
<1> DEFINE n == req[p].paste
           read == [pastes[n] EXCEPT !.readers = pastes[n].readers + 1]
<1>1. req[p].pc = "taken" /\ table' = table /\ req' = [req EXCEPT ![p] = Idle]
  BY DEF Taken, At, Answer
<1>2. Len(pastes) \in Nat /\ pastes \in Seq(Paste)  BY Lengths
<1>3. /\ n \in PasteNumbers /\ pastes[n].by = "burn"
      /\ pastes[n].oneShot => pastes[n].readers = 0
      /\ \A q \in Clients : req[q].pc = "taken" /\ req[q].paste = n => q = p
  BY <1>1 DEF Burning, HeldOK
<1>4. \A q \in Clients : req'[q] = IF q = p THEN Idle ELSE req[q]
  BY <1>1 DEF TypeOK
<1>5. \A q \in Clients : req'[q] = req[q] \/ req'[q].pc # "taken"
  BY <1>4 DEF Idle
<1>6. CASE ~pastes[n].oneShot
  <2>1. pastes' = pastes  BY <1>6 DEF Taken
  <2>2. QED  BY <1>1, <1>2, <1>5, <2>1, Onward DEF storage
<1>7. CASE pastes[n].oneShot
  <2>1. pastes' = [pastes EXCEPT ![n] = read]  BY <1>3, <1>7 DEF Taken
  <2>2. /\ read \in Paste /\ read.id = pastes[n].id /\ read.oneShot = pastes[n].oneShot
        /\ read.expires = pastes[n].expires /\ read.stored = pastes[n].stored
        /\ read.by = pastes[n].by /\ read.readers = 1
    <3>1. pastes[n] \in Paste /\ pastes[n].readers = 0  BY <1>2, <1>3, <1>7, PasteFields
    <3>2. QED  BY <3>1 DEF Paste
  <2>3. /\ pastes' \in Seq(Paste) /\ Len(pastes') = Len(pastes)
        /\ \A m \in PasteNumbers : pastes'[m] = IF m = n THEN read ELSE pastes[m]
    <3> HIDE DEF read, n
    <3> QED  BY <1>2, <1>3, <2>1, <2>2, ExceptSeq
  <2> HIDE DEF read, n
  <2>4. PastesStep  BY <1>2, <2>2, <2>3 DEF PastesStep
  <2>5. \A q \in Clients : req'[q].pc = "taken" =>
          /\ req'[q] = req[q] /\ q # p /\ req[q].paste \in PasteNumbers
          /\ req[q].paste # n
    BY <1>1, <1>3, <1>4 DEF Burning, HeldOK, Idle
  <2>6. RowsOK'
    <3>1. \A j \in Ids : table[j] # 0 => table[j] \in PasteNumbers  BY <1>2 DEF TypeOK
    <3>2. QED  BY <1>1, <2>2, <2>3, <3>1 DEF Burning, RowsOK
  <2>7. HeldOK'  BY <2>3, <2>5 DEF Burning, HeldOK
  <2>8. UnreadOK' /\ OneReader'
    BY <1>3, <2>2, <2>3 DEF Burning, UnreadOK, OneReader
  <2>9. PhaseStep
    <3> SUFFICES ASSUME NEW m \in 1..MaxPastes
                 PROVE  Phase(m)' = Phase(m) \/ <<Phase(m), Phase(m)'>> \in Burn!Moves
      BY DEF PhaseStep
    <3>1. CASE m # n
      <4>1. Held(m)' <=> Held(m)
        <5>1. n = req[p].paste  BY DEF n
        <5>2. QED  BY <1>1, <1>4, <3>1, <5>1 DEF Held, At, Idle
      <4>2. QED  BY <2>3, <3>1, <4>1 DEF Phase
    <3>2. CASE m = n
      <4>1. Held(m)  BY <1>1, <3>2 DEF Held, At, n
      <4>2. ~Held(m)'  BY <2>5, <3>2 DEF Held, At
      <4>3. Phase(m) = "claimed"  BY <1>3, <1>7, <3>2, <4>1 DEF Phase
      <4>4. Phase(m)' = "served"
        <5>1. /\ pastes'[m].oneShot /\ pastes'[m].by = "burn" /\ pastes'[m].readers = 1
          BY <1>3, <1>7, <2>2, <2>3, <3>2
        <5>2. ~(m > Len(pastes'))
          <6>1. m \in 1..Len(pastes)  BY <1>3, <3>2 DEF n
          <6>2. QED  BY <1>2, <2>3, <6>1
        <5>3. QED  BY <4>2, <5>1, <5>2 DEF Phase
      <4>5. QED  BY <4>3, <4>4 DEF Burn!Moves
    <3>3. QED  BY <3>1, <3>2
  <2>10. QED  BY <2>3, <2>4, <2>6, <2>7, <2>8, <2>9 DEF Burning
<1>8. QED  BY <1>2, <1>3, <1>6, <1>7, PasteFields

\* A paste is stored.
LEMMA Stores ==
  ASSUME TypeOK, Burning, NEW p \in Clients, req[p].pc = "insert",
         req[p] \in Request, table[req[p].id] = 0,
         pastes' = Append(pastes, [id |-> req[p].id, expires |-> req[p].expires,
             oneShot |-> req[p].oneShot, stored |-> now, gone |-> Never, by |-> "nobody",
             readers |-> 0]),
         table' = [table EXCEPT ![req[p].id] = Len(pastes) + 1],
         Answer(p)
  PROVE  /\ Burning' /\ PhaseStep /\ PastesStep /\ pastes' \in Seq(Paste)
         /\ Len(pastes') = Len(pastes) + 1 /\ table' \in [Ids -> 0..Len(pastes')]
         /\ pastes'[Len(pastes) + 1].stored = now /\ pastes'[Len(pastes) + 1].gone = Never
         /\ \A m \in PasteNumbers : pastes'[m] = pastes[m]
<1> DEFINE i == req[p].id
           n == Len(pastes) + 1
           new == [id |-> i, expires |-> req[p].expires, oneShot |-> req[p].oneShot,
                   stored |-> now, gone |-> Never, by |-> "nobody", readers |-> 0]
<1>1. Len(pastes) \in Nat /\ pastes \in Seq(Paste) /\ now \in Nat  BY Lengths
<1>2. i \in Ids /\ new \in Paste  BY <1>1 DEF Request, Paste
<1>3. /\ new.id = i /\ new.stored = now /\ new.gone = Never /\ new.by = "nobody"
      /\ new.readers = 0
  OBVIOUS
<1>4. pastes' = Append(pastes, new) /\ table' = [table EXCEPT ![i] = n]
  OBVIOUS
<1> HIDE DEF new
<1>5. /\ pastes' \in Seq(Paste) /\ Len(pastes') = n /\ pastes'[n] = new
      /\ \A m \in PasteNumbers : pastes'[m] = pastes[m]
  BY <1>1, <1>2, <1>4, AppendProperties
<1>6. /\ \A m \in 1..Len(pastes') : m \in PasteNumbers \/ m = n
      /\ \A m \in PasteNumbers : m \in 1..Len(pastes') /\ m # n
      /\ n \notin PasteNumbers /\ n \in 1..Len(pastes')
  BY <1>1, <1>5
<1>7. PastesStep  BY <1>5 DEF PastesStep
<1>8. table \in [Ids -> 0..Len(pastes)]  BY DEF TypeOK
<1>9. /\ table' \in [Ids -> 0..Len(pastes')] /\ table'[i] = n
      /\ \A j \in Ids \ {i} : table'[j] = table[j]
  BY <1>1, <1>2, <1>4, <1>5, <1>8
<1>10. \A j \in Ids : table[j] # 0 => table[j] \in PasteNumbers  BY <1>1, <1>8
<1>11. req \in [Clients -> Request \cup {Idle}]  BY DEF TypeOK
<1>12. \A q \in Clients : req'[q] = IF q = p THEN Idle ELSE req[q]
  BY <1>11 DEF Answer
<1>13. \A q \in Clients : /\ req'[q].pc = "taken" <=> req[q].pc = "taken"
                          /\ req'[q].pc = "taken" => req'[q] = req[q]
  BY <1>12 DEF Idle
<1> HIDE DEF n, i
<1>14. RowsOK'  BY <1>2, <1>3, <1>5, <1>9, <1>10 DEF Burning, RowsOK
<1>15. HeldOK'  BY <1>5, <1>6, <1>13 DEF Burning, HeldOK
<1>16. UnreadOK' /\ OneReader'
  <2>1. pastes'[n].readers = 0  BY <1>3, <1>5
  <2>2. UnreadOK'  BY <1>5, <1>6, <2>1 DEF Burning, UnreadOK
  <2>3. OneReader'  BY <1>5, <1>6, <2>1 DEF Burning, OneReader
  <2>4. QED  BY <2>2, <2>3
<1>17. PhaseStep
  <2> SUFFICES ASSUME NEW m \in 1..MaxPastes
               PROVE  Phase(m)' = Phase(m) \/ <<Phase(m), Phase(m)'>> \in Burn!Moves
    BY DEF PhaseStep
  <2>1. Held(m)' <=> Held(m)  BY <1>13 DEF Held, At
  <2>2. CASE m \in PasteNumbers  BY <1>5, <1>6, <2>1, <2>2 DEF Phase
  <2>3. CASE m = n
    <3>1. Phase(m) = "absent"  BY <1>6, <2>3 DEF Phase
    <3>2. Phase(m)' \in {"absent", "stored"}  BY <1>3, <1>5, <1>6, <2>3 DEF Phase
    <3>3. QED  BY <3>1, <3>2 DEF Burn!Moves
  <2>4. CASE m \notin 1..Len(pastes')
    <3>1. m \notin PasteNumbers  BY <1>6, <2>4
    <3>2. QED  BY <2>4, <3>1 DEF Phase
  <2>5. QED  BY <1>6, <2>2, <2>3, <2>4
<1>18. QED
  BY <1>3, <1>5, <1>7, <1>9, <1>14, <1>15, <1>16, <1>17 DEF Burning, n

------------------------------------------------------------------------------
\* Steps of one client.

LEMMA BusyRequest ==
  ASSUME TypeOK, NEW p \in Clients, req[p].pc # "idle"
  PROVE  /\ req[p] \in Request /\ req[p].id \in Ids /\ req[p].paste \in Nat
         /\ req[p].start \in Nat /\ req[p].ttl \in 0..MaxCacheTtl
BY DEF TypeOK, Idle, Request

\* What is left to show of a step of client p: that its own request is in order, and what
\* it put into the cache.
LEMMA ClientFrame ==
  ASSUME IInv, NEW p \in Clients, now' \in Nat,
         Burning', PastesStep, pastes' \in Seq(Paste), table' \in [Ids -> 0..Len(pastes')],
         cache' \in [Ids -> [paste : 0..Len(pastes), until : Nat]],
         \A i \in Ids : \/ cache'[i] = cache[i] \/ cache'[i].paste = 0
                        \/ ~pastes[cache'[i].paste].oneShot,
         req' \in [Clients -> Request \cup {Idle}],
         \A q \in Clients \ {p} : req'[q] = req[q],
         req'[p].pc \in Knowing => req'[p].paste \in PasteNumbers,
         req'[p].pc \in Sharing => ~pastes[req'[p].paste].oneShot
  PROVE  IInv'
<1>1. Len(pastes) \in Nat /\ pastes \in Seq(Paste)  BY Lengths DEF IInv
<1>2. /\ \A n \in PasteNumbers : n \in 1..Len(pastes') /\ pastes'[n].oneShot = pastes[n].oneShot
      /\ \A n \in 0..Len(pastes) : n \in 0..Len(pastes')
  BY <1>1 DEF PastesStep
<1>3. cache' \in [Ids -> [paste : 0..Len(pastes'), until : Nat]]
  <2>1. [paste : 0..Len(pastes), until : Nat] \subseteq [paste : 0..Len(pastes'), until : Nat]
    BY <1>2
  <2>2. QED  BY <2>1
<1>4. TypeOK'  BY <1>3 DEF TypeOK
<1>5. CacheOK'
  <2> SUFFICES ASSUME NEW i \in Ids, cache'[i].paste # 0
               PROVE  ~pastes'[cache'[i].paste].oneShot
    BY DEF CacheOK
  <2>1. ~pastes[cache'[i].paste].oneShot  BY DEF IInv, CacheOK
  <2>2. cache'[i].paste \in PasteNumbers
    <3>1. cache'[i].paste \in 0..Len(pastes)  OBVIOUS
    <3>2. QED  BY <1>1, <3>1
  <2>3. QED  BY <1>2, <2>1, <2>2
<1>6. RequestsOK'
  <2> SUFFICES ASSUME NEW q \in Clients
               PROVE  /\ req'[q].pc \in Knowing => req'[q].paste \in 1..Len(pastes')
                      /\ req'[q].pc \in Sharing => ~pastes'[req'[q].paste].oneShot
    BY DEF RequestsOK
  <2>1. CASE q = p  BY <1>2, <2>1
  <2>2. CASE q # p
    <3>1. req'[q] = req[q]  BY <2>2
    <3>2. QED  BY <1>2, <3>1 DEF IInv, RequestsOK
  <2>3. QED  BY <2>1, <2>2
<1>7. QED  BY <1>4, <1>5, <1>6 DEF IInv

\* A step of p that leaves the storage alone and puts nothing into the cache.
LEMMA Moves ==
  ASSUME IInv, NEW p \in Clients, now' = now, UNCHANGED storage,
         cache' = cache \/ Invalidate(req[p].id),
         req' \in [Clients -> Request \cup {Idle}],
         \A q \in Clients \ {p} : req'[q] = req[q],
         req'[p].pc # "taken",
         req'[p].pc \in Knowing => req'[p].paste \in PasteNumbers,
         req'[p].pc \in Sharing => ~pastes[req'[p].paste].oneShot
  PROVE  IInv' /\ PhaseStep
<1>1. Burning' /\ PhaseStep /\ PastesStep /\ pastes' = pastes /\ table' = table
  BY Onward DEF IInv
<1>2. /\ pastes \in Seq(Paste) /\ now \in Nat /\ table \in [Ids -> 0..Len(pastes)]
      /\ cache \in [Ids -> [paste : 0..Len(pastes), until : Nat]]
      /\ Len(pastes) \in Nat
  BY Lengths DEF IInv, TypeOK
<1>3. Empty \in [paste : 0..Len(pastes), until : Nat] /\ Empty.paste = 0
  BY <1>2 DEF Empty
<1>4. /\ cache' \in [Ids -> [paste : 0..Len(pastes), until : Nat]]
      /\ \A i \in Ids : cache'[i] = cache[i] \/ cache'[i].paste = 0
  BY <1>2, <1>3 DEF Invalidate
<1>5. IInv'  BY <1>1, <1>2, <1>4, ClientFrame
<1>6. QED  BY <1>1, <1>5

\* A step that ends the request of p.
LEMMA Ends ==
  ASSUME IInv, NEW p \in Clients, Answer(p), now' = now, UNCHANGED storage,
         cache' = cache \/ Invalidate(req[p].id)
  PROVE  IInv' /\ PhaseStep
<1>1. req' \in [Clients -> Request \cup {Idle}] /\ req'[p] = Idle
      /\ \A q \in Clients \ {p} : req'[q] = req[q]
  BY DEF IInv, TypeOK, Answer
<1>2. QED  BY <1>1, Moves DEF Idle

\* Moving a request on keeps its type, its id and its start.
LEMMA GotoType ==
  ASSUME TypeOK, NEW p \in Clients, NEW pc \in PCs, req[p] \in Request, Goto(p, pc)
  PROVE  /\ req' \in [Clients -> Request \cup {Idle}]
         /\ \A q \in Clients \ {p} : req'[q] = req[q]
         /\ req'[p].pc = pc /\ req'[p].id = req[p].id /\ req'[p].paste = req[p].paste
         /\ req'[p].start = req[p].start /\ req'[p].ttl = req[p].ttl
<1> DEFINE r == [req[p] EXCEPT !.pc = pc]
<1>1. req \in [Clients -> Request \cup {Idle}]  BY DEF TypeOK
<1>2. /\ r \in Request /\ r.pc = pc /\ r.id = req[p].id /\ r.paste = req[p].paste
      /\ r.start = req[p].start /\ r.ttl = req[p].ttl
  BY DEF Request
<1>3. req' = [req EXCEPT ![p] = r]  BY DEF Goto
<1> HIDE DEF r
<1>4. QED  BY <1>1, <1>2, <1>3

LEMMA GotoWithType ==
  ASSUME TypeOK, NEW p \in Clients, NEW pc \in PCs, NEW n \in Nat, req[p] \in Request,
         GotoWith(p, pc, n)
  PROVE  /\ req' \in [Clients -> Request \cup {Idle}]
         /\ \A q \in Clients \ {p} : req'[q] = req[q]
         /\ req'[p].pc = pc /\ req'[p].id = req[p].id /\ req'[p].paste = n
         /\ req'[p].start = req[p].start
<1> DEFINE r == [req[p] EXCEPT !.pc = pc, !.paste = n]
<1>1. req \in [Clients -> Request \cup {Idle}]  BY DEF TypeOK
<1>2. /\ r \in Request /\ r.pc = pc /\ r.id = req[p].id /\ r.paste = n
      /\ r.start = req[p].start
  BY DEF Request
<1>3. req' = [req EXCEPT ![p] = r]  BY DEF GotoWith
<1> HIDE DEF r
<1>4. QED  BY <1>1, <1>2, <1>3

LEMMA GotoTtlType ==
  ASSUME TypeOK, NEW p \in Clients, NEW ttl \in 0..MaxCacheTtl, req[p] \in Request,
         req' = [req EXCEPT ![p].pc = "cacheSet", ![p].ttl = ttl]
  PROVE  /\ req' \in [Clients -> Request \cup {Idle}]
         /\ \A q \in Clients \ {p} : req'[q] = req[q]
         /\ req'[p].pc = "cacheSet" /\ req'[p].id = req[p].id
         /\ req'[p].paste = req[p].paste /\ req'[p].start = req[p].start /\ req'[p].ttl = ttl
<1> DEFINE r == [req[p] EXCEPT !.pc = "cacheSet", !.ttl = ttl]
<1>1. req \in [Clients -> Request \cup {Idle}]  BY DEF TypeOK
<1>2. /\ r \in Request /\ r.pc = "cacheSet" /\ r.id = req[p].id /\ r.paste = req[p].paste
      /\ r.start = req[p].start /\ r.ttl = ttl
  BY DEF Request, PCs
<1>3. req' = [req EXCEPT ![p] = r]  OBVIOUS
<1> HIDE DEF r
<1>4. QED  BY <1>1, <1>2, <1>3

------------------------------------------------------------------------------
\* Every step keeps the invariant and the phases, action by action.

\* The arithmetic of expires_at stays within the integers.
LEMMA ExpiresAtType ==
  ASSUME now \in Nat, NEW ttl \in Nat \cup {Never}
  PROVE  ExpiresAt(ttl) \in Int \cup {Never}
<1>1. CASE ttl = Never  BY <1>1 DEF ExpiresAt
<1>2. CASE ttl # Never
  <2>1. ttl \in Nat /\ SignBit \in Nat  BY <1>2, PasteServiceAssumption
  <2>2. NowUnix \in Nat  BY WholeSeconds
  <2> DEFINE more == IF ttl < SignBit THEN ttl ELSE ttl - 2 * SignBit
  <2>3. NowUnix + more \in Int  BY <2>1, <2>2
  <2>4. \A n \in Int : Clamp(n) \in Int  BY <2>1 DEF Clamp
  <2>5. QED  BY <1>2, <2>3, <2>4 DEF ExpiresAt
<1>3. QED  BY <1>1, <1>2

\* What cache_ttl_secs returns: at most MAX_CACHE_TTL_SECS.
LEMMA CacheTtlBound ==
  ASSUME TypeOK, NEW n \in PasteNumbers
  PROVE  CacheTtl(n) \in 0..MaxCacheTtl
<1>1. /\ pastes[n].expires \in Int \cup {Never} /\ NowUnix \in Nat
      /\ MaxCacheTtl \in Nat /\ Never \notin Int
  BY Lengths, PasteFields, WholeSeconds, Constants
<1>2. CASE pastes[n].expires = Never  BY <1>1, <1>2 DEF CacheTtl
<1>3. CASE pastes[n].expires # Never  BY <1>1, <1>3 DEF CacheTtl, IsExpired
<1>4. QED  BY <1>2, <1>3

LEMMA BeginStep ==
  ASSUME IInv, NEW p \in Clients, NEW pc \in {"insert", "cacheGet", "delRepo"}, NEW i \in Ids,
         NEW e \in Int \cup {Never}, NEW oneShot \in BOOLEAN, NEW tries \in 0..Attempts,
         Begin(p, pc, i, e, oneShot, tries)
  PROVE  IInv' /\ PhaseStep
<1> DEFINE r == [pc |-> pc, id |-> i, paste |-> 0, start |-> now, ttl |-> 0, expires |-> e,
                 oneShot |-> oneShot, tries |-> tries]
<1>1. req \in [Clients -> Request \cup {Idle}] /\ now \in Nat  BY DEF IInv, TypeOK
<1>2. r \in Request /\ r.pc = pc  BY <1>1, PasteServiceAssumption DEF Request, PCs
<1>3. req' = [req EXCEPT ![p] = r] /\ now' = now /\ cache' = cache /\ UNCHANGED storage
  BY DEF Begin, storage
<1> HIDE DEF r
<1>4. /\ req' \in [Clients -> Request \cup {Idle}] /\ req'[p].pc = pc
      /\ \A q \in Clients \ {p} : req'[q] = req[q]
  BY <1>1, <1>2, <1>3
<1>5. QED  BY <1>3, <1>4, Moves

LEMMA BeginSteps ==
  ASSUME IInv, NEW p \in Clients, Create(p) \/ Fetch(p) \/ Delete(p)
  PROVE  IInv' /\ PhaseStep
<1>1. 0 \in 0..Attempts /\ Attempts \in 0..Attempts  BY PasteServiceAssumption
<1>2. CASE Create(p)
  <2>1. PICK i \in Ids, d \in Drafts :
          Begin(p, "insert", i, ExpiresAt(d.ttl), d.oneShot, Attempts)
    BY <1>2 DEF Create
  <2>2. d.ttl \in Nat \cup {Never} /\ d.oneShot \in BOOLEAN  BY PasteServiceAssumption
  <2>3. ExpiresAt(d.ttl) \in Int \cup {Never}  BY <2>2, ExpiresAtType DEF IInv, TypeOK
  <2>4. QED  BY <1>1, <2>1, <2>2, <2>3, BeginStep
<1>3. CASE Fetch(p) \/ Delete(p)
  <2>1. PICK pc \in {"cacheGet", "delRepo"}, i \in Ids : Begin(p, pc, i, Never, FALSE, 0)
    BY <1>3 DEF Fetch, Delete
  <2>2. QED  BY <1>1, <2>1, BeginStep
<1>4. QED  BY <1>2, <1>3

LEMMA InsertStep ==
  ASSUME IInv, NEW p \in Clients, Insert(p)
  PROVE  IInv' /\ PhaseStep
<1>1. /\ req[p].pc = "insert" /\ req[p] \in Request /\ now' = now /\ cache' = cache
  BY BusyRequest DEF Insert, At, IInv
<1>2. CASE /\ table[req[p].id] = 0
           /\ pastes' = Append(pastes, [id |-> req[p].id, expires |-> req[p].expires,
                oneShot |-> req[p].oneShot, stored |-> now, gone |-> Never, by |-> "nobody",
                readers |-> 0])
           /\ table' = [table EXCEPT ![req[p].id] = Len(pastes) + 1]
           /\ Answer(p)
  <2>1. /\ Burning' /\ PhaseStep /\ PastesStep /\ pastes' \in Seq(Paste)
        /\ Len(pastes') = Len(pastes) + 1 /\ table' \in [Ids -> 0..Len(pastes')]
    BY <1>1, <1>2, Stores DEF IInv
  <2>2. /\ req' \in [Clients -> Request \cup {Idle}] /\ req'[p] = Idle
        /\ \A q \in Clients \ {p} : req'[q] = req[q]
    BY <1>2 DEF IInv, TypeOK, Answer
  <2>3. cache \in [Ids -> [paste : 0..Len(pastes), until : Nat]] /\ now \in Nat
    BY DEF IInv, TypeOK
  <2>4. req'[p].pc = "idle"  BY <2>2 DEF Idle
  <2>5. IInv'  BY <1>1, <2>1, <2>2, <2>3, <2>4, ClientFrame
  <2>6. QED  BY <2>1, <2>5
<1>3. CASE UNCHANGED storage /\ Answer(p)  BY <1>1, <1>3, Ends
<1>4. CASE /\ req[p].tries > 1 /\ UNCHANGED storage
           /\ \E i \in Ids : req' = [req EXCEPT ![p].id = i, ![p].tries = req[p].tries - 1]
  <2>1. PICK i \in Ids : req' = [req EXCEPT ![p].id = i, ![p].tries = req[p].tries - 1]
    BY <1>4
  <2> DEFINE r == [[req[p] EXCEPT !.id = i] EXCEPT !.tries = req[p].tries - 1]
  <2>2. req \in [Clients -> Request \cup {Idle}]  BY DEF IInv, TypeOK
  <2>3. r \in Request /\ r.pc = "insert"
    <3>1. req[p].tries - 1 \in 0..Attempts
      BY <1>1, <1>4, PasteServiceAssumption DEF Request
    <3> HIDE <1>4
    <3>2. QED  BY <1>1, <3>1 DEF Request
  <2>4. req' = [req EXCEPT ![p] = r]  BY <2>1
  <2> HIDE DEF r
  <2>5. /\ req' \in [Clients -> Request \cup {Idle}] /\ req'[p].pc = "insert"
        /\ \A q \in Clients \ {p} : req'[q] = req[q]
    BY <2>2, <2>3, <2>4
  <2>6. QED  BY <1>1, <1>4, <2>5, Moves
<1>5. QED  BY <1>2, <1>3, <1>4 DEF Insert

\* A hit, a miss or a failed call.
LEMMA CacheGetStep ==
  ASSUME IInv, NEW p \in Clients, CacheGet(p)
  PROVE  IInv' /\ PhaseStep
<1> DEFINE n == cache[req[p].id].paste
<1>1. /\ req[p].pc = "cacheGet" /\ req[p] \in Request /\ req[p].id \in Ids
      /\ now' = now /\ cache' = cache /\ UNCHANGED storage
  BY BusyRequest DEF CacheGet, At, IInv
<1>2. n \in 0..Len(pastes) /\ Len(pastes) \in Nat  BY <1>1, Lengths DEF IInv, TypeOK
<1>3. n # 0 => n \in PasteNumbers /\ ~pastes[n].oneShot
  BY <1>1, <1>2 DEF IInv, CacheOK
<1>4. TypeOK /\ n \in Nat  BY <1>2 DEF IInv
<1> HIDE DEF n
<1>5. CASE n # 0 /\ GotoWith(p, "hit", n)
  <2>1. /\ req' \in [Clients -> Request \cup {Idle}] /\ req'[p].pc = "hit"
        /\ req'[p].paste = n /\ \A q \in Clients \ {p} : req'[q] = req[q]
    BY <1>1, <1>4, <1>5, GotoWithType DEF PCs
  <2>2. QED  BY <1>1, <1>3, <1>5, <2>1, Moves
<1>6. CASE Goto(p, "repoGet")
  <2>1. /\ req' \in [Clients -> Request \cup {Idle}] /\ req'[p].pc = "repoGet"
        /\ \A q \in Clients \ {p} : req'[q] = req[q]
    BY <1>1, <1>4, <1>6, GotoType DEF PCs
  <2>2. QED  BY <1>1, <2>1, Moves
<1>7. QED  BY <1>5, <1>6 DEF CacheGet, n

\* A hit is served, or dropped.
LEMMA CheckHitStep ==
  ASSUME IInv, NEW p \in Clients, CheckHit(p)
  PROVE  IInv' /\ PhaseStep
<1>1. /\ req[p].pc = "hit" /\ req[p] \in Request /\ TypeOK
      /\ now' = now /\ cache' = cache /\ UNCHANGED storage
  BY BusyRequest DEF CheckHit, At, IInv
<1>2. req[p].paste \in PasteNumbers /\ ~pastes[req[p].paste].oneShot
  BY <1>1 DEF IInv, RequestsOK
<1>3. PICK pc \in {"cacheDrop", "record"} : Goto(p, pc)  BY DEF CheckHit
<1>4. /\ req' \in [Clients -> Request \cup {Idle}] /\ req'[p].pc = pc
      /\ req'[p].paste = req[p].paste /\ \A q \in Clients \ {p} : req'[q] = req[q]
  BY <1>1, <1>3, GotoType DEF PCs
<1>5. QED  BY <1>1, <1>2, <1>4, Moves

LEMMA CacheDropStep ==
  ASSUME IInv, NEW p \in Clients, CacheDrop(p)
  PROVE  IInv' /\ PhaseStep
<1>1. /\ req[p] \in Request /\ now' = now /\ UNCHANGED storage /\ Invalidate(req[p].id)
      /\ Goto(p, "repoGet") /\ TypeOK
  BY BusyRequest DEF CacheDrop, At, IInv
<1>2. /\ req' \in [Clients -> Request \cup {Idle}] /\ req'[p].pc = "repoGet"
      /\ \A q \in Clients \ {p} : req'[q] = req[q]
  BY <1>1, GotoType DEF PCs
<1>3. QED  BY <1>1, <1>2, Moves

LEMMA RepoGetStep ==
  ASSUME IInv, NEW p \in Clients, RepoGet(p)
  PROVE  IInv' /\ PhaseStep
<1> DEFINE n == table[req[p].id]
<1>1. /\ req[p] \in Request /\ req[p].id \in Ids /\ TypeOK
      /\ now' = now /\ cache' = cache /\ UNCHANGED storage
  BY BusyRequest DEF RepoGet, At, IInv
<1>2. n \in 0..Len(pastes) /\ Len(pastes) \in Nat  BY <1>1, Lengths DEF TypeOK
<1>3. n \in Nat /\ (n # 0 => n \in PasteNumbers)  BY <1>2
<1> HIDE DEF n
<1>4. CASE Answer(p)  BY <1>1, <1>4, Ends
<1>5. CASE n # 0 /\ GotoWith(p, "found", n)
  <2>1. /\ req' \in [Clients -> Request \cup {Idle}] /\ req'[p].pc = "found"
        /\ req'[p].paste = n /\ \A q \in Clients \ {p} : req'[q] = req[q]
    BY <1>1, <1>3, <1>5, GotoWithType DEF PCs
  <2>2. QED  BY <1>1, <1>3, <1>5, <2>1, Moves
<1>6. QED  BY <1>4, <1>5 DEF RepoGet, n

\* A paste that was read is purged, taken or cached; only one that burns is taken.
LEMMA CheckPasteStep ==
  ASSUME IInv, NEW p \in Clients, CheckPaste(p)
  PROVE  IInv' /\ PhaseStep
<1>1. /\ req[p].pc = "found" /\ req[p] \in Request /\ TypeOK
      /\ now' = now /\ cache' = cache /\ UNCHANGED storage
  BY BusyRequest DEF CheckPaste, At, IInv
<1>2. req[p].paste \in PasteNumbers  BY <1>1 DEF IInv, RequestsOK
<1>3. PICK pc \in {"purgeRepo", "take", "ttl"} :
        Goto(p, pc) /\ (pc = "ttl" => ~pastes[req[p].paste].oneShot)
  BY DEF CheckPaste
<1>4. /\ req' \in [Clients -> Request \cup {Idle}] /\ req'[p].pc = pc
      /\ req'[p].paste = req[p].paste /\ \A q \in Clients \ {p} : req'[q] = req[q]
  BY <1>1, <1>3, GotoType DEF PCs
<1>5. QED  BY <1>1, <1>2, <1>3, <1>4, Moves

\* A purge or a delete removes the row, or fails, and goes on.
LEMMA RemoveStep ==
  ASSUME IInv, NEW p \in Clients, NEW how \in {"purge", "delete"},
         NEW pc \in {"purgeCache", "delCache"},
         req[p].pc \in {"purgeRepo", "delRepo"}, Remove(req[p].id, how), Goto(p, pc),
         now' = now, cache' = cache
  PROVE  IInv' /\ PhaseStep
<1>1. req[p] \in Request /\ req[p].id \in Ids /\ TypeOK  BY BusyRequest DEF IInv
<1>2. /\ req' \in [Clients -> Request \cup {Idle}] /\ req'[p].pc = pc
      /\ \A q \in Clients \ {p} : req'[q] = req[q]
  BY <1>1, GotoType DEF PCs
<1>3. /\ Burning' /\ PhaseStep /\ PastesStep /\ pastes' \in Seq(Paste)
      /\ Len(pastes') = Len(pastes) /\ table' \in [Ids -> 0..Len(pastes)]
  <2>1. \A q \in Clients : req'[q] = req[q] \/ (req[q].pc # "taken" /\ req'[q].pc # "taken")
    BY <1>2
  <2>2. QED  BY <1>1, <2>1, Removes DEF IInv
<1>4. cache \in [Ids -> [paste : 0..Len(pastes), until : Nat]] /\ now \in Nat
  BY DEF IInv, TypeOK
<1>5. QED  BY <1>2, <1>3, <1>4, ClientFrame

LEMMA PurgeRepoStep ==
  ASSUME IInv, NEW p \in Clients, PurgeRepo(p)
  PROVE  IInv' /\ PhaseStep
<1>1. /\ req[p].pc = "purgeRepo" /\ req[p] \in Request /\ TypeOK
      /\ now' = now /\ cache' = cache /\ Goto(p, "purgeCache")
  BY BusyRequest DEF PurgeRepo, At, IInv
<1>2. CASE Remove(req[p].id, "purge")  BY <1>1, <1>2, RemoveStep
<1>3. CASE UNCHANGED storage
  <2>1. /\ req' \in [Clients -> Request \cup {Idle}] /\ req'[p].pc = "purgeCache"
        /\ \A q \in Clients \ {p} : req'[q] = req[q]
    BY <1>1, GotoType DEF PCs
  <2>2. QED  BY <1>1, <1>3, <2>1, Moves
<1>4. QED  BY <1>2, <1>3 DEF PurgeRepo

LEMMA DelRepoStep ==
  ASSUME IInv, NEW p \in Clients, DelRepo(p)
  PROVE  IInv' /\ PhaseStep
<1>1. req[p].pc = "delRepo" /\ now' = now /\ cache' = cache  BY DEF DelRepo, At
<1>2. CASE Remove(req[p].id, "delete") /\ Goto(p, "delCache")  BY <1>1, <1>2, RemoveStep
<1>3. CASE Answer(p) /\ UNCHANGED storage  BY <1>1, <1>3, Ends
<1>4. QED  BY <1>2, <1>3 DEF DelRepo

\* Whatever row the id has is taken.
LEMMA TakeStep ==
  ASSUME IInv, NEW p \in Clients, Take(p)
  PROVE  IInv' /\ PhaseStep
<1> DEFINE n == table[req[p].id]
<1>1. /\ req[p].pc = "take" /\ req[p] \in Request /\ req[p].id \in Ids /\ TypeOK
      /\ now' = now /\ cache' = cache
  BY BusyRequest DEF Take, At, IInv
<1>2. CASE n # 0 /\ Remove(req[p].id, "burn") /\ GotoWith(p, "taken", n)
  <2>1. n \in PasteNumbers /\ n \in Nat
    <3>1. n \in 0..Len(pastes) /\ Len(pastes) \in Nat  BY <1>1, Lengths DEF TypeOK
    <3>2. QED  BY <1>2, <3>1
  <2>2. /\ req' \in [Clients -> Request \cup {Idle}] /\ req'[p].pc = "taken"
        /\ req'[p].paste = n /\ \A q \in Clients \ {p} : req'[q] = req[q]
    <3> HIDE DEF n
    <3> QED  BY <1>1, <1>2, <2>1, GotoWithType DEF PCs
  <2>3. /\ Burning' /\ PhaseStep /\ PastesStep /\ pastes' \in Seq(Paste)
        /\ Len(pastes') = Len(pastes) /\ table' \in [Ids -> 0..Len(pastes)]
    BY <1>1, <1>2, <2>2, Takes DEF IInv
  <2> HIDE DEF n
  <2>4. cache \in [Ids -> [paste : 0..Len(pastes), until : Nat]] /\ now \in Nat
    BY DEF IInv, TypeOK
  <2>5. IInv'  BY <1>1, <2>1, <2>2, <2>3, <2>4, ClientFrame
  <2>6. QED  BY <2>3, <2>5
<1>3. CASE Answer(p) /\ UNCHANGED storage  BY <1>1, <1>3, Ends
<1>4. QED  BY <1>2, <1>3 DEF Take

LEMMA TakenStep ==
  ASSUME IInv, NEW p \in Clients, Taken(p)
  PROVE  IInv' /\ PhaseStep
<1>1. now' = now /\ cache' = cache /\ table' = table /\ Answer(p)  BY DEF Taken
<1>2. /\ Burning' /\ PhaseStep /\ PastesStep /\ pastes' \in Seq(Paste)
      /\ Len(pastes') = Len(pastes)
  BY Reads DEF IInv
<1>3. /\ req' \in [Clients -> Request \cup {Idle}] /\ req'[p] = Idle
      /\ \A q \in Clients \ {p} : req'[q] = req[q]
  BY <1>1 DEF IInv, TypeOK, Answer
<1>4. /\ cache \in [Ids -> [paste : 0..Len(pastes), until : Nat]] /\ now \in Nat
      /\ table \in [Ids -> 0..Len(pastes)]
  BY DEF IInv, TypeOK
<1>5. req'[p].pc = "idle"  BY <1>3 DEF Idle
<1>6. IInv'  BY <1>1, <1>2, <1>3, <1>4, <1>5, ClientFrame
<1>7. QED  BY <1>2, <1>6

LEMMA ChooseTtlStep ==
  ASSUME IInv, NEW p \in Clients, ChooseTtl(p)
  PROVE  IInv' /\ PhaseStep
<1> DEFINE n == req[p].paste
           ttl == CacheTtl(n)
<1>1. /\ req[p].pc = "ttl" /\ req[p] \in Request /\ TypeOK
      /\ now' = now /\ cache' = cache /\ UNCHANGED storage
  BY BusyRequest DEF ChooseTtl, At, IInv
<1>2. n \in PasteNumbers /\ ~pastes[n].oneShot  BY <1>1 DEF IInv, RequestsOK
<1>3. ttl \in 0..MaxCacheTtl  BY <1>1, <1>2, CacheTtlBound
<1>4. CASE ttl > 0
  <2>1. req' = [req EXCEPT ![p].pc = "cacheSet", ![p].ttl = ttl]  BY <1>4 DEF ChooseTtl
  <2> HIDE DEF ttl
  <2>2. /\ req' \in [Clients -> Request \cup {Idle}] /\ req'[p].pc = "cacheSet"
        /\ req'[p].paste = n /\ \A q \in Clients \ {p} : req'[q] = req[q]
    BY <1>1, <1>3, <2>1, GotoTtlType
  <2>3. QED  BY <1>1, <1>2, <2>2, Moves
<1>5. CASE ~(ttl > 0)
  <2>1. Goto(p, "record")  BY <1>5 DEF ChooseTtl
  <2>2. /\ req' \in [Clients -> Request \cup {Idle}] /\ req'[p].pc = "record"
        /\ req'[p].paste = n /\ \A q \in Clients \ {p} : req'[q] = req[q]
    BY <1>1, <2>1, GotoType DEF PCs
  <2>3. QED  BY <1>1, <1>2, <2>2, Moves
<1>6. QED  BY <1>4, <1>5

LEMMA CacheSetStep ==
  ASSUME IInv, NEW p \in Clients, CacheSet(p)
  PROVE  IInv' /\ PhaseStep
<1> DEFINE n == req[p].paste
           i == req[p].id
           entry == [paste |-> n, until |-> now + Ticks(req[p].ttl)]
<1>1. /\ req[p].pc = "cacheSet" /\ req[p] \in Request /\ i \in Ids /\ req[p].ttl \in 0..MaxCacheTtl
      /\ TypeOK /\ now' = now /\ UNCHANGED storage /\ Goto(p, "record")
      /\ cache' = [cache EXCEPT ![i] = entry] \/ cache' = cache
  BY BusyRequest DEF CacheSet, At, IInv
<1>2. n \in PasteNumbers /\ ~pastes[n].oneShot  BY <1>1 DEF IInv, RequestsOK
<1>3. /\ now \in Nat /\ Len(pastes) \in Nat /\ pastes \in Seq(Paste)
      /\ cache \in [Ids -> [paste : 0..Len(pastes), until : Nat]]
      /\ table \in [Ids -> 0..Len(pastes)]
  BY <1>1, Lengths DEF TypeOK
<1>4. /\ req' \in [Clients -> Request \cup {Idle}] /\ req'[p].pc = "record"
      /\ req'[p].paste = n /\ \A q \in Clients \ {p} : req'[q] = req[q]
  BY <1>1, GotoType DEF PCs
<1>5. entry \in [paste : 0..Len(pastes), until : Nat] /\ entry.paste = n
  <2>1. n \in 0..Len(pastes)  BY <1>2, <1>3
  <2>2. Ticks(req[p].ttl) \in Nat  BY <1>1, Lifetimes
  <2>3. QED  BY <1>3, <2>1, <2>2
<1> HIDE DEF entry, n, i
<1>6. /\ cache' \in [Ids -> [paste : 0..Len(pastes), until : Nat]]
      /\ \A j \in Ids : cache'[j] = cache[j] \/ cache'[j].paste = n
  BY <1>1, <1>3, <1>5
<1>7. Burning' /\ PhaseStep /\ PastesStep /\ pastes' = pastes /\ table' = table
  <2>1. \A q \in Clients : req'[q] = req[q] \/ req'[q].pc # "taken"  BY <1>4
  <2>2. QED  BY <1>1, <2>1, Onward DEF IInv
<1>8. \A j \in Ids : cache'[j] = cache[j] \/ ~pastes[cache'[j].paste].oneShot
  BY <1>2, <1>6
<1>9. IInv'  BY <1>1, <1>2, <1>3, <1>4, <1>6, <1>7, <1>8, ClientFrame
<1>10. QED  BY <1>7, <1>9

LEMMA ClientSteps ==
  ASSUME IInv, NEW p \in Clients, ClientStep(p)
  PROVE  IInv' /\ PhaseStep
<1>1. CASE Create(p) \/ Fetch(p) \/ Delete(p)  BY <1>1, BeginSteps
<1>2. CASE Insert(p)  BY <1>2, InsertStep
<1>3. CASE CacheGet(p)  BY <1>3, CacheGetStep
<1>4. CASE CacheDrop(p)  BY <1>4, CacheDropStep
<1>5. CASE RepoGet(p)  BY <1>5, RepoGetStep
<1>6. CASE PurgeRepo(p)  BY <1>6, PurgeRepoStep
<1>7. CASE Take(p)  BY <1>7, TakeStep
<1>8. CASE Taken(p)  BY <1>8, TakenStep
<1>9. CASE ChooseTtl(p)  BY <1>9, ChooseTtlStep
<1>10. CASE CacheSet(p)  BY <1>10, CacheSetStep
<1>11. CASE DelRepo(p)  BY <1>11, DelRepoStep
<1>12. CASE PurgeCache(p) \/ DelCache(p) \/ Record(p) \/ Timeout(p) \/ Disconnect(p)
  BY <1>12, Ends DEF PurgeCache, DelCache, Record, Timeout, Disconnect
<1>13. CASE CheckHit(p)  BY <1>13, CheckHitStep
<1>14. CASE CheckPaste(p)  BY <1>14, CheckPasteStep
<1>15. QED
  BY <1>1, <1>2, <1>3, <1>4, <1>5, <1>6, <1>7, <1>8, <1>9, <1>10, <1>11, <1>12,
     <1>13, <1>14
     DEF ClientStep

\* A crash ends every request, and loses what was taken.
LEMMA CrashStep == ASSUME IInv, Crash PROVE IInv' /\ PhaseStep
<1>1. /\ req' = [p \in Clients |-> Idle] /\ now' = now /\ cache' = cache /\ UNCHANGED storage
  BY DEF Crash
<1>2. \A q \in Clients : req'[q] = Idle /\ req'[q].pc # "taken"  BY <1>1 DEF Idle
<1>3. Burning' /\ PhaseStep /\ PastesStep /\ pastes' = pastes /\ table' = table
  BY <1>1, <1>2, Onward DEF IInv
<1>4. TypeOK'  BY <1>1, <1>3 DEF IInv, TypeOK
<1>5. RequestsOK' /\ CacheOK'  BY <1>1, <1>3 DEF IInv, RequestsOK, CacheOK, Idle
<1>6. QED  BY <1>3, <1>4, <1>5 DEF IInv

\* Time passes, and cache entries with it.
LEMMA TickStep == ASSUME IInv, Tick PROVE IInv' /\ PhaseStep
<1>1. /\ now' = now + 1 /\ req' = req /\ UNCHANGED storage
      /\ cache' = [i \in Ids |-> IF cache[i].until <= now + 1 THEN Empty ELSE cache[i]]
  BY DEF Tick
<1>2. Burning' /\ PhaseStep /\ PastesStep /\ pastes' = pastes /\ table' = table
  BY <1>1, Onward DEF IInv
<1>3. /\ now \in Nat /\ cache \in [Ids -> [paste : 0..Len(pastes), until : Nat]]
      /\ Len(pastes) \in Nat
  BY Lengths DEF IInv, TypeOK
<1>4. Empty \in [paste : 0..Len(pastes), until : Nat] /\ Empty.paste = 0
  BY <1>3 DEF Empty
<1>5. /\ cache' \in [Ids -> [paste : 0..Len(pastes), until : Nat]]
      /\ \A i \in Ids : cache'[i] = cache[i] \/ cache'[i].paste = 0
  BY <1>1, <1>3, <1>4
<1>6. TypeOK'  BY <1>1, <1>2, <1>3, <1>5 DEF IInv, TypeOK
<1>7. RequestsOK' /\ CacheOK'  BY <1>1, <1>2, <1>5 DEF IInv, RequestsOK, CacheOK
<1>8. QED  BY <1>2, <1>6, <1>7 DEF IInv

LEMMA InitIInv == Init => IInv
<1> SUFFICES ASSUME Init PROVE IInv
  OBVIOUS
<1>1. pastes = <<>> /\ pastes \in Seq(Paste) /\ Len(pastes) = 0  BY EmptySeq DEF Init
<1>2. TypeOK  BY <1>1 DEF Init, TypeOK, Empty
<1>3. UnreadOK /\ OneReader  BY <1>1 DEF UnreadOK, OneReader
<1>4. QED
  BY <1>2, <1>3 DEF Init, IInv, Burning, RequestsOK, CacheOK, RowsOK, HeldOK, Empty, Idle

LEMMA NextIInv == ASSUME IInv, [Next]_vars PROVE IInv' /\ PhaseStep
<1>1. CASE UNCHANGED vars
  <2>1. now' = now /\ cache' = cache /\ req' = req /\ UNCHANGED storage
        /\ pastes' = pastes /\ table' = table
    BY <1>1 DEF vars, storage
  <2>2. Burning' /\ PhaseStep  BY <2>1, Onward DEF IInv
  <2>3. TypeOK' /\ RequestsOK' /\ CacheOK'  BY <2>1 DEF IInv, TypeOK, RequestsOK, CacheOK
  <2>4. QED  BY <2>2, <2>3 DEF IInv
<1>2. QED  BY <1>1, ClientSteps, CrashStep, TickStep DEF Next

\* IInv is an invariant of PasteService.
THEOREM Inductive == Spec => []IInv
BY InitIInv, NextIInv, PTL DEF Spec

\* Type correctness: what is sent to Redis as a lifetime is within its bounds, and the
\* table and the cache hold pastes that were stored.
THEOREM TypeCorrect == Spec => []TypeOK
<1>1. IInv => TypeOK  BY DEF IInv
<1>2. QED  BY <1>1, Inductive, PTL

\* A one-shot paste has at most one reader (fetch and take).
THEOREM AtMostOneReader == Spec => []OneReader
<1>1. IInv => OneReader  BY DEF IInv, Burning
<1>2. QED  BY <1>1, Inductive, PTL

\* A one-shot paste is never in the cache, nor served as one that is (fetch).
THEOREM NeverCached == Spec => []OneShotNotCached
<1>1. IInv => OneShotNotCached
  BY DEF IInv, CacheOK, RequestsOK, OneShotNotCached, At
<1>2. QED  BY <1>1, Inductive, PTL

\* The use cases implement burn-after-read: each step of theirs is one of its steps, or
\* leaves the phases of all pastes alone.
THEOREM Implements == Spec => BurnsAfterRead
<1> DEFINE phases == [n \in 1..MaxPastes |-> Phase(n)]
<1>1. Init => Burn!Init
  <2> SUFFICES ASSUME Init PROVE Burn!Init
    OBVIOUS
  <2>1. Len(pastes) = 0  BY EmptySeq DEF Init
  <2>2. \A n \in 1..MaxPastes : Phase(n) = "absent"  BY <2>1 DEF Phase
  <2>3. QED  BY <2>2 DEF Burn!Init
<1>2. ASSUME IInv, IInv', PhaseStep PROVE [Burn!Next]_phases
  <2>1. \A n \in 1..MaxPastes : Phase(n)' \in Burn!Phases
    BY DEF Phase, Burn!Phases
  <2>2. phases' \in [1..MaxPastes -> Burn!Phases]  BY <2>1
  <2>3. \A n \in 1..MaxPastes : phases[n] = Phase(n) /\ phases'[n] = Phase(n)'
    OBVIOUS
  <2>4. \A n \in 1..MaxPastes :
          phases'[n] = phases[n] \/ <<phases[n], phases'[n]>> \in Burn!Moves
    <3> SUFFICES ASSUME NEW n \in 1..MaxPastes
                 PROVE  phases'[n] = phases[n] \/ <<phases[n], phases'[n]>> \in Burn!Moves
      OBVIOUS
    <3>1. Phase(n)' = Phase(n) \/ <<Phase(n), Phase(n)'>> \in Burn!Moves
      BY <1>2 DEF PhaseStep
    <3>2. phases[n] = Phase(n) /\ phases'[n] = Phase(n)'  BY <2>3
    <3> HIDE DEF phases
    <3>3. QED  BY <3>1, <3>2, Zenon
  <2>5. Burn!Next  BY <2>2, <2>4 DEF Burn!Next
  <2>6. QED  BY <2>5
<1>3. IInv /\ [Next]_vars => [Burn!Next]_phases  BY <1>2, NextIInv
<1>4. QED  BY <1>1, <1>3, Inductive, PTL DEF Spec, BurnsAfterRead, Burn!Spec

------------------------------------------------------------------------------
\* The second part is about time: how long a paste is served after its expiry and after
\* its removal, and why it is removed.

\* A request is not older than its timeout, and what it has read is as old as that.
Timely(p) ==
  LET r == req[p]
      paste == pastes[r.paste]
  IN r.pc # "idle" =>
       /\ r.start <= now /\ now <= r.start + RequestTimeout
       /\ r.pc \in {"take", "ttl", "cacheSet", "record"} /\ paste.expires # Never
            => r.start < Ticks(paste.expires)
       /\ r.pc \in {"found", "ttl", "cacheSet"} /\ paste.gone # Never => r.start <= paste.gone
       /\ r.pc = "cacheSet" => r.ttl > 0
       /\ r.pc \in {"hit", "record"} /\ paste.gone # Never
            => r.start < paste.gone + RequestTimeout + Ticks(MaxCacheTtl)
       /\ r.pc = "taken" /\ paste.expires # Never
            => r.start < Ticks(paste.expires) \/ r.start <= paste.stored
       /\ r.pc \in {"found", "take"} =>
            /\ paste.id = r.id
            /\ table[r.id] # 0 =>
                 /\ r.paste <= table[r.id]
                 /\ table[r.id] = r.paste \/ r.start <= pastes[table[r.id]].stored
       /\ r.pc = "take" => paste.oneShot
       /\ r.pc = "purgeRepo" =>
            \E m \in PasteNumbers :
              /\ pastes[m].id = r.id
              /\ pastes[m].expires # Never /\ Ticks(pastes[m].expires) <= now
              /\ table[r.id] # 0 => m <= table[r.id]

\* A cache entry ends in time.
EntryTimely(i) ==
  LET n == cache[i].paste
  IN n # 0 =>
       /\ now < cache[i].until /\ cache[i].until <= now + Ticks(MaxCacheTtl)
       /\ pastes[n].gone # Never => cache[i].until <= pastes[n].gone + RequestTimeout + Ticks(MaxCacheTtl)

\* Whatever was removed has a time and a reason.
GoneOK == \A n \in PasteNumbers : pastes[n].by = "nobody" <=> pastes[n].gone = Never
Reasons ==
  \A n \in PasteNumbers :
    /\ pastes[n].by = "purge" =>
         \E m \in 1..n : /\ pastes[m].id = pastes[n].id
                         /\ pastes[m].expires # Never /\ Ticks(pastes[m].expires) <= pastes[n].gone
    /\ pastes[n].by = "burn" =>
         \E m \in 1..n : pastes[m].id = pastes[n].id /\ pastes[m].oneShot
Ledger == GoneOK /\ Reasons

JInv == (\A p \in Clients : Timely(p)) /\ (\A i \in Ids : EntryTimely(i)) /\ Ledger

\* What a step that does not move the clock may do to the storage: rows are removed now,
\* and a row that joins is stored now.
AgingStep ==
  /\ PastesStep
  /\ \A n \in PasteNumbers :
       pastes'[n].gone # pastes[n].gone => pastes[n].gone = Never /\ pastes'[n].gone = now
  /\ \A i \in Ids :
       \/ table'[i] \in {0, table[i]}
       \/ /\ table'[i] = Len(pastes) + 1 /\ Len(pastes') = Len(pastes) + 1
          /\ pastes'[Len(pastes) + 1].stored = now

------------------------------------------------------------------------------
\* The four things a step does to the storage.

LEMMA AgesNothing ==
  ASSUME IInv, Ledger, UNCHANGED storage
  PROVE  AgingStep /\ Ledger'
<1>1. pastes' = pastes /\ table' = table  BY DEF storage
<1>2. Len(pastes) \in Nat  BY Lengths DEF IInv
<1>3. QED  BY <1>1, <1>2 DEF AgingStep, PastesStep, Ledger, GoneOK, Reasons

\* A row is removed for a reason.
LEMMA AgesByRemoval ==
  ASSUME IInv, Ledger, NEW i \in Ids, NEW how \in {"burn", "purge", "delete"},
         Remove(i, how),
         how = "purge" /\ table[i] # 0 =>
           \E m \in 1..table[i] :
             pastes[m].id = i /\ pastes[m].expires # Never /\ Ticks(pastes[m].expires) <= now,
         how = "burn" /\ table[i] # 0 =>
           \E m \in 1..table[i] : pastes[m].id = i /\ pastes[m].oneShot
  PROVE  AgingStep /\ Ledger'
<1>1. CASE table[i] = 0
  <2>1. UNCHANGED storage  BY <1>1 DEF Remove, IInv, TypeOK, storage
  <2>2. QED  BY <2>1, AgesNothing
<1>2. CASE table[i] # 0
  <2> DEFINE n == table[i]
  <2>1. /\ pastes' \in Seq(Paste) /\ Len(pastes') = Len(pastes) /\ PastesStep
        /\ table' \in [Ids -> 0..Len(pastes)] /\ table'[i] = 0
        /\ \A j \in Ids \ {i} : table'[j] = table[j]
        /\ n \in PasteNumbers
        /\ pastes'[n].by = how /\ pastes'[n].gone = now
        /\ \A m \in PasteNumbers \ {n} : pastes'[m] = pastes[m]
    BY <1>2, Removed DEF IInv, Burning
  <2>2. pastes[n].id = i /\ pastes[n].by = "nobody" /\ pastes[n].gone = Never
    BY <1>2, <2>1 DEF IInv, Burning, RowsOK, Ledger, GoneOK
  <2>3. /\ how = "purge" => \E m \in 1..n : /\ pastes[m].id = i /\ pastes[m].expires # Never
                                             /\ Ticks(pastes[m].expires) <= now
        /\ how = "burn" => \E m \in 1..n : pastes[m].id = i /\ pastes[m].oneShot
    BY <1>2
  <2>4. now \in Nat /\ now # Never /\ Len(pastes) \in Nat  BY Lengths, Bounds DEF IInv
  <2> HIDE DEF n
  <2>5. AgingStep
    <3>1. \A j \in Ids : table'[j] \in {0, table[j]}  BY <2>1
    <3>2. \A m \in PasteNumbers : pastes'[m].gone # pastes[m].gone =>
            pastes[m].gone = Never /\ pastes'[m].gone = now
      BY <2>1, <2>2
    <3>3. QED  BY <2>1, <3>1, <3>2 DEF AgingStep
  <2>6. GoneOK'  BY <2>1, <2>2, <2>4 DEF Ledger, GoneOK
  <2>7. \A k \in PasteNumbers :
          /\ pastes'[k].id = pastes[k].id /\ pastes'[k].expires = pastes[k].expires
          /\ pastes'[k].oneShot = pastes[k].oneShot
    BY <2>1 DEF PastesStep
  <2>8. \A k \in PasteNumbers : \A m \in 1..k : m \in PasteNumbers  BY <2>4
  <2>9. Reasons'
    <3> SUFFICES ASSUME NEW k \in PasteNumbers
                 PROVE  /\ pastes'[k].by = "purge" =>
                             \E m \in 1..k : /\ pastes'[m].id = pastes'[k].id
                                             /\ pastes'[m].expires # Never
                                             /\ Ticks(pastes'[m].expires) <= pastes'[k].gone
                        /\ pastes'[k].by = "burn" =>
                             \E m \in 1..k : pastes'[m].id = pastes'[k].id /\ pastes'[m].oneShot
      BY <2>1 DEF Reasons
    <3>1. CASE k = n
      <4>1. pastes'[k].id = i /\ pastes'[k].gone = now /\ pastes'[k].by = how
        BY <2>1, <2>2, <2>7, <3>1
      <4>2. \A m \in 1..k : /\ pastes'[m].id = pastes[m].id
                            /\ pastes'[m].expires = pastes[m].expires
                            /\ pastes'[m].oneShot = pastes[m].oneShot
        BY <2>7, <2>8
      <4>3. how = "purge" =>
              \E m \in 1..k : /\ pastes'[m].id = i /\ pastes'[m].expires # Never
                              /\ Ticks(pastes'[m].expires) <= now
        BY <2>2, <2>3, <3>1, <4>2
      <4>4. how = "burn" => \E m \in 1..k : pastes'[m].id = i /\ pastes'[m].oneShot
        BY <2>2, <2>3, <3>1, <4>2
      <4>5. QED  BY <4>1, <4>3, <4>4
    <3>2. CASE k # n
      <4>1. pastes'[k] = pastes[k]  BY <2>1, <3>2
      <4>2. \A m \in 1..k : /\ pastes'[m].id = pastes[m].id
                            /\ pastes'[m].expires = pastes[m].expires
                            /\ pastes'[m].oneShot = pastes[m].oneShot
        BY <2>7, <2>8
      <4>3. ASSUME pastes[k].by = "purge"
            PROVE  \E m \in 1..k : /\ pastes'[m].id = pastes[k].id
                                   /\ pastes'[m].expires # Never
                                   /\ Ticks(pastes'[m].expires) <= pastes[k].gone
        <5>1. PICK m \in 1..k : /\ pastes[m].id = pastes[k].id /\ pastes[m].expires # Never
                                /\ Ticks(pastes[m].expires) <= pastes[k].gone
          BY <4>3 DEF Ledger, Reasons
        <5>2. QED  BY <4>2, <5>1
      <4>4. ASSUME pastes[k].by = "burn"
            PROVE  \E m \in 1..k : pastes'[m].id = pastes[k].id /\ pastes'[m].oneShot
        <5>1. PICK m \in 1..k : pastes[m].id = pastes[k].id /\ pastes[m].oneShot
          BY <4>4 DEF Ledger, Reasons
        <5>2. QED  BY <4>2, <5>1
      <4>5. QED  BY <4>1, <4>3, <4>4
    <3>3. QED  BY <3>1, <3>2
  <2>10. QED  BY <2>5, <2>6, <2>9 DEF Ledger
<1>3. QED  BY <1>1, <1>2

LEMMA AgesByReading ==
  ASSUME IInv, Ledger, NEW p \in Clients, Taken(p)
  PROVE  AgingStep /\ Ledger'
<1> DEFINE n == req[p].paste
<1>1. table' = table /\ req[p].pc = "taken"  BY DEF Taken, At
<1>2. PastesStep /\ Len(pastes') = Len(pastes)  BY Reads DEF IInv
<1>3. pastes \in Seq(Paste) /\ Len(pastes) \in Nat  BY Lengths DEF IInv
<1>4. n \in PasteNumbers  BY <1>1 DEF IInv, RequestsOK
<1>5. \A m \in PasteNumbers : pastes'[m].gone = pastes[m].gone /\ pastes'[m].by = pastes[m].by
  <2>1. CASE pastes' = pastes  BY <2>1
  <2>2. CASE pastes' = [pastes EXCEPT ![n].readers = pastes[n].readers + 1]
    <3> DEFINE read == [pastes[n] EXCEPT !.readers = pastes[n].readers + 1]
    <3>1. read.gone = pastes[n].gone /\ read.by = pastes[n].by
      BY <1>3, <1>4, PasteFields DEF Paste
    <3>2. DOMAIN pastes = PasteNumbers  BY <1>3
    <3>3. pastes' = [pastes EXCEPT ![n] = read]  BY <2>2
    <3> HIDE DEF read, n
    <3>4. QED  BY <1>4, <3>1, <3>2, <3>3
  <2>3. QED  BY <2>1, <2>2 DEF Taken
<1>6. AgingStep  BY <1>1, <1>2, <1>5 DEF AgingStep
<1>7. \A k \in PasteNumbers :
        /\ pastes'[k].id = pastes[k].id /\ pastes'[k].expires = pastes[k].expires
        /\ pastes'[k].oneShot = pastes[k].oneShot
  BY <1>2 DEF PastesStep
<1>8. \A k \in PasteNumbers : \A m \in 1..k : m \in PasteNumbers  BY <1>3
<1>9. Ledger'  BY <1>2, <1>5, <1>7, <1>8 DEF Ledger, GoneOK, Reasons
<1>10. QED  BY <1>6, <1>9

LEMMA AgesByStoring ==
  ASSUME IInv, Ledger, NEW p \in Clients, req[p].pc = "insert",
         req[p] \in Request, table[req[p].id] = 0,
         pastes' = Append(pastes, [id |-> req[p].id, expires |-> req[p].expires,
             oneShot |-> req[p].oneShot, stored |-> now, gone |-> Never, by |-> "nobody",
             readers |-> 0]),
         table' = [table EXCEPT ![req[p].id] = Len(pastes) + 1],
         Answer(p)
  PROVE  AgingStep /\ Ledger'
<1> DEFINE new == [id |-> req[p].id, expires |-> req[p].expires, oneShot |-> req[p].oneShot,
                   stored |-> now, gone |-> Never, by |-> "nobody", readers |-> 0]
           n == Len(pastes) + 1
<1>1. /\ PastesStep /\ Len(pastes') = n /\ pastes'[n].stored = now
      /\ \A m \in PasteNumbers : pastes'[m] = pastes[m]
  BY Stores DEF IInv
<1>2. Len(pastes) \in Nat /\ pastes \in Seq(Paste)  BY Lengths DEF IInv
<1>3. pastes'[n].by = "nobody" /\ pastes'[n].gone = Never
  <2>1. pastes'[n] = new  BY <1>2, AppendProperties
  <2>2. QED  BY <2>1
<1>4. \A i \in Ids : table'[i] \in {table[i], n}  BY DEF IInv, TypeOK
<1>5. AgingStep  BY <1>1, <1>4 DEF AgingStep
<1>6. /\ \A m \in 1..Len(pastes') : m \in PasteNumbers \/ m = n
      /\ \A k \in PasteNumbers : \A m \in 1..k : m \in PasteNumbers
  BY <1>1, <1>2
<1> HIDE DEF n
<1>7. GoneOK'  BY <1>1, <1>3, <1>6 DEF Ledger, GoneOK
<1>8. Reasons'
  <2> SUFFICES ASSUME NEW k \in 1..Len(pastes')
               PROVE  /\ pastes'[k].by = "purge" =>
                           \E m \in 1..k : /\ pastes'[m].id = pastes'[k].id
                                           /\ pastes'[m].expires # Never
                                           /\ Ticks(pastes'[m].expires) <= pastes'[k].gone
                      /\ pastes'[k].by = "burn" =>
                           \E m \in 1..k : pastes'[m].id = pastes'[k].id /\ pastes'[m].oneShot
    BY DEF Reasons
  <2>1. CASE k = n  BY <1>3, <2>1
  <2>2. CASE k \in PasteNumbers  BY <1>1, <1>6, <2>2 DEF Ledger, Reasons
  <2>3. QED  BY <1>6, <2>1, <2>2
<1>9. QED  BY <1>5, <1>7, <1>8 DEF Ledger

------------------------------------------------------------------------------
\* What a change of the storage leaves true of requests and cache entries.

LEMMA TimelyKept ==
  ASSUME IInv, AgingStep, now' = now, NEW q \in Clients, Timely(q), req'[q] = req[q]
  PROVE  Timely(q)'
<1> DEFINE r == req[q]
           n == r.paste
<1> SUFFICES ASSUME r.pc # "idle" PROVE Timely(q)'
  BY DEF Timely
<1>1. /\ pastes \in Seq(Paste) /\ now \in Nat /\ Len(pastes) \in Nat
      /\ r \in Request /\ r.id \in Ids /\ n \in Nat /\ r.start \in Nat
  BY Lengths, BusyRequest DEF IInv
<1>2. r.start <= now /\ now <= r.start + RequestTimeout /\ (r.pc = "cacheSet" => r.ttl > 0)
  BY DEF Timely
<1>3. \A m \in PasteNumbers :
        /\ m \in 1..Len(pastes')
        /\ pastes'[m].id = pastes[m].id /\ pastes'[m].expires = pastes[m].expires
        /\ pastes'[m].oneShot = pastes[m].oneShot /\ pastes'[m].stored = pastes[m].stored
        /\ pastes'[m].gone # pastes[m].gone => pastes[m].gone = Never /\ pastes'[m].gone = now
  BY <1>1 DEF AgingStep, PastesStep
<1>4. CASE r.pc \in {"hit", "ttl", "cacheSet", "record", "taken"}
  <2>1. n \in PasteNumbers  BY <1>4 DEF IInv, RequestsOK
  <2>2. /\ pastes'[n].expires = pastes[n].expires /\ pastes'[n].stored = pastes[n].stored
        /\ pastes'[n].gone # pastes[n].gone => pastes[n].gone = Never /\ pastes'[n].gone = now
    BY <1>3, <2>1
  <2>3. r.pc \in {"ttl", "cacheSet"} /\ pastes'[n].gone # Never => r.start <= pastes'[n].gone
    BY <1>2, <2>2 DEF Timely
  <2>4. r.pc \in {"hit", "record"} /\ pastes'[n].gone # Never
          => r.start < pastes'[n].gone + RequestTimeout + Ticks(MaxCacheTtl)
    <3>1. CASE pastes'[n].gone = pastes[n].gone  BY <3>1 DEF Timely
    <3>2. CASE pastes'[n].gone = now
      <4>1. r.start < now + RequestTimeout + Ticks(MaxCacheTtl)  BY <1>1, <1>2, Bounds
      <4>2. QED  BY <3>2, <4>1
    <3>3. QED  BY <2>2, <3>1, <3>2
  <2>5. /\ r.pc \in {"ttl", "cacheSet", "record"} /\ pastes'[n].expires # Never
             => r.start < Ticks(pastes'[n].expires)
        /\ r.pc = "taken" /\ pastes'[n].expires # Never
             => r.start < Ticks(pastes'[n].expires) \/ r.start <= pastes'[n].stored
    BY <2>2 DEF Timely
  <2>6. QED  BY <1>2, <1>4, <2>3, <2>4, <2>5 DEF Timely
<1>5. table'[r.id] # 0 =>
        \/ table'[r.id] = table[r.id] /\ table[r.id] \in PasteNumbers
        \/ table'[r.id] = Len(pastes) + 1 /\ pastes'[table'[r.id]].stored = now
  <2>1. table[r.id] \in 0..Len(pastes)  BY <1>1 DEF IInv, TypeOK
  <2>2. table[r.id] # 0 => table[r.id] \in PasteNumbers  BY <1>1, <2>1
  <2>3. QED  BY <1>1, <2>2 DEF AgingStep
<1>6. CASE r.pc \in {"found", "take"}
  <2>1. n \in PasteNumbers  BY <1>6 DEF IInv, RequestsOK
  <2>2. /\ pastes[n].id = r.id
        /\ r.pc = "take" => pastes[n].oneShot
        /\ r.pc = "take" /\ pastes[n].expires # Never => r.start < Ticks(pastes[n].expires)
        /\ r.pc = "found" /\ pastes[n].gone # Never => r.start <= pastes[n].gone
        /\ table[r.id] # 0 => /\ n <= table[r.id]
                              /\ table[r.id] = n \/ r.start <= pastes[table[r.id]].stored
    BY <1>6 DEF Timely
  <2>3. table'[r.id] # 0 => /\ n <= table'[r.id]
                            /\ table'[r.id] = n \/ r.start <= pastes'[table'[r.id]].stored
    <3>1. CASE table'[r.id] = table[r.id] /\ table[r.id] \in PasteNumbers
      BY <1>3, <2>2, <3>1
    <3>2. CASE table'[r.id] = Len(pastes) + 1 /\ pastes'[table'[r.id]].stored = now
      <4>1. n <= Len(pastes) + 1  BY <1>1, <2>1
      <4>2. QED  BY <1>2, <3>2, <4>1
    <3>3. QED  BY <1>5, <3>1, <3>2
  <2>4. r.pc = "found" /\ pastes'[n].gone # Never => r.start <= pastes'[n].gone
    BY <1>2, <1>3, <2>1, <2>2
  <2>5. /\ pastes'[n].id = r.id
        /\ r.pc = "take" => pastes'[n].oneShot
        /\ r.pc = "take" /\ pastes'[n].expires # Never => r.start < Ticks(pastes'[n].expires)
    BY <1>3, <2>1, <2>2
  <2>6. QED  BY <1>2, <1>6, <2>3, <2>4, <2>5 DEF Timely
<1>7. CASE r.pc = "purgeRepo"
  <2>1. PICK m \in PasteNumbers : /\ pastes[m].id = r.id
                                  /\ pastes[m].expires # Never /\ Ticks(pastes[m].expires) <= now
                                  /\ table[r.id] # 0 => m <= table[r.id]
    BY <1>7 DEF Timely
  <2>2. table'[r.id] # 0 => m <= table'[r.id]
    <3>1. m <= Len(pastes) + 1  BY <1>1
    <3>2. QED  BY <1>5, <2>1, <3>1
  <2>3. QED  BY <1>2, <1>3, <1>7, <2>1, <2>2 DEF Timely
<1>8. QED  BY <1>2, <1>4, <1>6, <1>7 DEF Timely

LEMMA EntryKept ==
  ASSUME IInv, AgingStep, now' = now, NEW i \in Ids, EntryTimely(i),
         cache'[i] = cache[i] \/ cache'[i] = Empty
  PROVE  EntryTimely(i)'
<1> DEFINE n == cache[i].paste
<1> SUFFICES ASSUME cache'[i] = cache[i], n # 0 PROVE EntryTimely(i)'
  BY DEF EntryTimely, Empty
<1>1. /\ pastes \in Seq(Paste) /\ now \in Nat /\ Len(pastes) \in Nat
      /\ n \in 0..Len(pastes) /\ cache[i].until \in Nat
  BY Lengths DEF IInv, TypeOK
<1>2. n \in PasteNumbers  BY <1>1
<1>3. /\ now < cache[i].until /\ cache[i].until <= now + Ticks(MaxCacheTtl)
      /\ pastes[n].gone # Never => cache[i].until <= pastes[n].gone + RequestTimeout + Ticks(MaxCacheTtl)
  BY DEF EntryTimely
<1>4. pastes'[n].gone # pastes[n].gone => pastes[n].gone = Never /\ pastes'[n].gone = now
  BY <1>2 DEF AgingStep
<1>5. cache[i].until <= now + RequestTimeout + Ticks(MaxCacheTtl)  BY <1>1, <1>3, Bounds
<1>6. pastes'[n].gone # Never
        => cache[i].until <= pastes'[n].gone + RequestTimeout + Ticks(MaxCacheTtl)
  <2>1. CASE pastes'[n].gone = pastes[n].gone  BY <1>3, <2>1
  <2>2. CASE pastes'[n].gone = now  BY <1>5, <2>2
  <2>3. QED  BY <1>4, <2>1, <2>2
<1>7. QED  BY <1>3, <1>6 DEF EntryTimely

\* What is left to show of a step of client p: its own request, and the entry it wrote.
LEMMA TimelyFrame ==
  ASSUME IInv, JInv, NEW p \in Clients, now' = now, AgingStep, Ledger',
         \A q \in Clients \ {p} : req'[q] = req[q], Timely(p)',
         \A i \in Ids : cache'[i] = cache[i] \/ cache'[i] = Empty \/ EntryTimely(i)'
  PROVE  JInv'
<1>1. \A q \in Clients : Timely(q)'
  <2> SUFFICES ASSUME NEW q \in Clients PROVE Timely(q)'
    OBVIOUS
  <2>1. CASE q = p  BY <2>1
  <2>2. CASE q # p  BY <2>2, TimelyKept DEF JInv
  <2>3. QED  BY <2>1, <2>2
<1>2. \A i \in Ids : EntryTimely(i)'  BY EntryKept DEF JInv
<1>3. QED  BY <1>1, <1>2 DEF JInv

LEMMA Invalidated ==
  ASSUME TypeOK, NEW i \in Ids, cache' = cache \/ Invalidate(i)
  PROVE  \A j \in Ids : cache'[j] = cache[j] \/ cache'[j] = Empty
BY DEF Invalidate, TypeOK

\* A step of p that leaves the storage alone and puts nothing into the cache.
LEMMA TimelyMoves ==
  ASSUME IInv, JInv, NEW p \in Clients, now' = now, UNCHANGED storage,
         cache' = cache \/ (req[p].id \in Ids /\ Invalidate(req[p].id)),
         \A q \in Clients \ {p} : req'[q] = req[q], Timely(p)'
  PROVE  JInv'
<1>1. AgingStep /\ Ledger'  BY AgesNothing DEF JInv
<1>2. \A j \in Ids : cache'[j] = cache[j] \/ cache'[j] = Empty  BY Invalidated DEF IInv
<1>3. QED  BY <1>1, <1>2, TimelyFrame

\* A step that ends the request of p, whatever it does to the storage.
LEMMA TimelyEnds ==
  ASSUME IInv, JInv, NEW p \in Clients, Answer(p), now' = now, AgingStep, Ledger',
         cache' = cache \/ (req[p].id \in Ids /\ Invalidate(req[p].id))
  PROVE  JInv'
<1>1. req'[p] = Idle /\ \A q \in Clients \ {p} : req'[q] = req[q]
  BY DEF IInv, TypeOK, Answer
<1>2. Timely(p)'  BY <1>1 DEF Timely, Idle
<1>3. \A j \in Ids : cache'[j] = cache[j] \/ cache'[j] = Empty  BY Invalidated DEF IInv
<1>4. QED  BY <1>1, <1>2, <1>3, TimelyFrame

------------------------------------------------------------------------------
\* Every step keeps the second invariant, action by action.

LEMMA BeginTimely ==
  ASSUME IInv, JInv, NEW p \in Clients, Create(p) \/ Fetch(p) \/ Delete(p)
  PROVE  JInv'
<1>0. PICK pc \in {"insert", "cacheGet", "delRepo"} :
        \E i, e, oneShot, tries : Begin(p, pc, i, e, oneShot, tries)
  BY DEF Create, Fetch, Delete
<1>1. PICK i, e, oneShot, tries : Begin(p, pc, i, e, oneShot, tries)  BY <1>0
<1> DEFINE r == [pc |-> pc, id |-> i, paste |-> 0, start |-> now, ttl |-> 0, expires |-> e,
                 oneShot |-> oneShot, tries |-> tries]
<1>2. /\ req' = [req EXCEPT ![p] = r] /\ now' = now /\ cache' = cache /\ UNCHANGED storage
      /\ req \in [Clients -> Request \cup {Idle}] /\ now \in Nat
  BY <1>1 DEF Begin, storage, IInv, TypeOK
<1>3. req'[p] = r /\ \A q \in Clients \ {p} : req'[q] = req[q]  BY <1>2
<1>4. req'[p].pc = pc /\ req'[p].start = now  BY <1>3
<1> HIDE DEF r
<1>5. Timely(p)'  BY <1>2, <1>4, Bounds DEF Timely
<1>6. QED  BY <1>2, <1>3, <1>5, TimelyMoves

\* Moving on to an await of which nothing is said but that the request is not too old.
LEMMA GotoTimely ==
  ASSUME IInv, JInv, NEW p \in Clients, req[p].pc # "idle", now' = now,
         NEW pc \in {"insert", "repoGet", "cacheDrop", "purgeCache", "delCache"},
         req'[p].pc = pc, req'[p].start = req[p].start
  PROVE  Timely(p)'
<1>1. req[p].start <= now /\ now <= req[p].start + RequestTimeout  BY DEF JInv, Timely
<1>2. QED  BY <1>1 DEF Timely

LEMMA InsertTimely ==
  ASSUME IInv, JInv, NEW p \in Clients, Insert(p)
  PROVE  JInv'
<1>1. /\ req[p].pc = "insert" /\ req[p] \in Request /\ now' = now /\ cache' = cache
      /\ Ledger
  BY BusyRequest DEF Insert, At, IInv, JInv
<1>2. CASE /\ table[req[p].id] = 0
           /\ pastes' = Append(pastes, [id |-> req[p].id, expires |-> req[p].expires,
                oneShot |-> req[p].oneShot, stored |-> now, gone |-> Never, by |-> "nobody",
                readers |-> 0])
           /\ table' = [table EXCEPT ![req[p].id] = Len(pastes) + 1]
           /\ Answer(p)
  <2>1. AgingStep /\ Ledger'  BY <1>1, <1>2, AgesByStoring
  <2>2. QED  BY <1>1, <1>2, <2>1, TimelyEnds
<1>3. CASE UNCHANGED storage /\ Answer(p)  BY <1>1, <1>3, AgesNothing, TimelyEnds
<1>4. CASE /\ UNCHANGED storage
           /\ \E i \in Ids : req' = [req EXCEPT ![p].id = i, ![p].tries = req[p].tries - 1]
  <2>1. PICK i \in Ids : req' = [req EXCEPT ![p].id = i, ![p].tries = req[p].tries - 1]
    BY <1>4
  <2> DEFINE r == [[req[p] EXCEPT !.id = i] EXCEPT !.tries = req[p].tries - 1]
  <2>2. req \in [Clients -> Request \cup {Idle}]  BY DEF IInv, TypeOK
  <2>3. r.pc = "insert" /\ r.start = req[p].start  BY <1>1 DEF Request
  <2>4. req' = [req EXCEPT ![p] = r]  BY <2>1
  <2> HIDE DEF r
  <2>5. /\ req'[p].pc = "insert" /\ req'[p].start = req[p].start
        /\ \A q \in Clients \ {p} : req'[q] = req[q]
    BY <2>2, <2>3, <2>4
  <2>6. Timely(p)'  BY <1>1, <2>5, GotoTimely
  <2>7. QED  BY <1>1, <1>4, <2>5, <2>6, TimelyMoves
<1>5. QED  BY <1>2, <1>3, <1>4 DEF Insert

\* The entry of a hit ends in time.
LEMMA CacheGetTimely ==
  ASSUME IInv, JInv, NEW p \in Clients, CacheGet(p)
  PROVE  JInv'
<1> DEFINE n == cache[req[p].id].paste
           until == cache[req[p].id].until
<1>1. /\ req[p].pc = "cacheGet" /\ req[p] \in Request /\ req[p].id \in Ids
      /\ req[p].start \in Nat /\ TypeOK /\ req[p].pc # "idle"
      /\ now' = now /\ cache' = cache /\ UNCHANGED storage
  BY BusyRequest DEF CacheGet, At, IInv
<1>2. /\ n \in 0..Len(pastes) /\ until \in Nat /\ Len(pastes) \in Nat /\ now \in Nat
      /\ pastes \in Seq(Paste)
  BY <1>1, Lengths DEF TypeOK
<1>3. n \in Nat /\ (n # 0 => n \in PasteNumbers)  BY <1>2
<1>4. req[p].start <= now /\ now <= req[p].start + RequestTimeout
  BY <1>1 DEF JInv, Timely
<1>5. n # 0 =>
        /\ now < until
        /\ pastes[n].gone # Never => until <= pastes[n].gone + RequestTimeout + Ticks(MaxCacheTtl)
  BY <1>1 DEF JInv, EntryTimely
<1> HIDE DEF n, until
<1>6. CASE n # 0 /\ GotoWith(p, "hit", n)
  <2>1. /\ req'[p].pc = "hit" /\ req'[p].paste = n /\ req'[p].start = req[p].start
        /\ \A q \in Clients \ {p} : req'[q] = req[q]
    BY <1>1, <1>3, <1>6, GotoWithType DEF PCs
  <2>2. pastes[n].gone \in Nat \cup {Never}
    BY <1>2, <1>3, <1>6, PasteFields
  <2>3. pastes[n].gone # Never
          => req[p].start < pastes[n].gone + RequestTimeout + Ticks(MaxCacheTtl)
    BY <1>1, <1>2, <1>4, <1>5, <1>6, <2>2, Bounds
  <2>4. pastes' = pastes  BY <1>1 DEF storage
  <2>5. Timely(p)'  BY <1>1, <1>4, <2>1, <2>3, <2>4 DEF Timely
  <2>6. QED  BY <1>1, <2>1, <2>5, TimelyMoves
<1>7. CASE Goto(p, "repoGet")
  <2>1. /\ req'[p].pc = "repoGet" /\ req'[p].start = req[p].start
        /\ \A q \in Clients \ {p} : req'[q] = req[q]
    BY <1>1, <1>7, GotoType DEF PCs
  <2>2. Timely(p)'  BY <1>1, <2>1, GotoTimely
  <2>3. QED  BY <1>1, <2>1, <2>2, TimelyMoves
<1>8. QED  BY <1>6, <1>7 DEF CacheGet, n

\* A hit that is served has not expired.
LEMMA CheckHitTimely ==
  ASSUME IInv, JInv, NEW p \in Clients, CheckHit(p)
  PROVE  JInv'
<1> DEFINE n == req[p].paste
<1>1. /\ req[p].pc = "hit" /\ req[p] \in Request /\ req[p].start \in Nat /\ TypeOK
      /\ req[p].pc # "idle" /\ now' = now /\ cache' = cache /\ UNCHANGED storage
      /\ now \in Nat /\ pastes \in Seq(Paste)
  BY BusyRequest, Lengths DEF CheckHit, At, IInv
<1>2. n \in PasteNumbers /\ pastes' = pastes  BY <1>1 DEF IInv, RequestsOK, storage
<1>3. /\ req[p].start <= now /\ now <= req[p].start + RequestTimeout
      /\ pastes[n].gone # Never
           => req[p].start < pastes[n].gone + RequestTimeout + Ticks(MaxCacheTtl)
  BY <1>1 DEF JInv, Timely
<1>4. CASE IsExpired(n)
  <2>1. Goto(p, "cacheDrop")  BY <1>4 DEF CheckHit
  <2>2. /\ req'[p].pc = "cacheDrop" /\ req'[p].start = req[p].start
        /\ \A q \in Clients \ {p} : req'[q] = req[q]
    BY <1>1, <2>1, GotoType DEF PCs
  <2>3. Timely(p)'  BY <1>1, <2>2, GotoTimely
  <2>4. QED  BY <1>1, <2>2, <2>3, TimelyMoves
<1>5. CASE ~IsExpired(n)
  <2>1. Goto(p, "record")  BY <1>5 DEF CheckHit
  <2>2. /\ req'[p].pc = "record" /\ req'[p].paste = n /\ req'[p].start = req[p].start
        /\ \A q \in Clients \ {p} : req'[q] = req[q]
    BY <1>1, <2>1, GotoType DEF PCs
  <2> HIDE DEF n
  <2>3. pastes[n].expires # Never => req[p].start < Ticks(pastes[n].expires)
    <3> SUFFICES ASSUME pastes[n].expires # Never
                 PROVE  req[p].start < Ticks(pastes[n].expires)
      OBVIOUS
    <3>1. pastes[n].expires \in Int  BY <1>1, <1>2, PasteFields
    <3>2. Ticks(pastes[n].expires) \in Int /\ ~(Ticks(pastes[n].expires) <= now)
      BY <1>1, <1>2, <1>5, <3>1, TickType, ExpiredOnTime
    <3>3. QED  BY <1>1, <1>3, <3>2
  <2>4. Timely(p)'  BY <1>1, <1>2, <1>3, <2>2, <2>3 DEF Timely
  <2>5. QED  BY <1>1, <2>2, <2>4, TimelyMoves
<1>6. QED  BY <1>4, <1>5

LEMMA CacheDropTimely ==
  ASSUME IInv, JInv, NEW p \in Clients, CacheDrop(p)
  PROVE  JInv'
<1>1. /\ req[p] \in Request /\ req[p].id \in Ids /\ now' = now /\ UNCHANGED storage
      /\ Invalidate(req[p].id) /\ Goto(p, "repoGet") /\ TypeOK /\ req[p].pc # "idle"
  BY BusyRequest DEF CacheDrop, At, IInv
<1>2. /\ req'[p].pc = "repoGet" /\ req'[p].start = req[p].start
      /\ \A q \in Clients \ {p} : req'[q] = req[q]
  BY <1>1, GotoType DEF PCs
<1>3. Timely(p)'  BY <1>1, <1>2, GotoTimely
<1>4. QED  BY <1>1, <1>2, <1>3, TimelyMoves

\* The row that is read is the one its id has.
LEMMA RepoGetTimely ==
  ASSUME IInv, JInv, NEW p \in Clients, RepoGet(p)
  PROVE  JInv'
<1> DEFINE n == table[req[p].id]
<1>1. /\ req[p] \in Request /\ req[p].id \in Ids /\ req[p].start \in Nat /\ TypeOK
      /\ req[p].pc # "idle" /\ now' = now /\ cache' = cache /\ UNCHANGED storage
  BY BusyRequest DEF RepoGet, At, IInv
<1>2. pastes' = pastes /\ table' = table  BY <1>1 DEF storage
<1>3. /\ n \in 0..Len(pastes) /\ Len(pastes) \in Nat /\ now \in Nat /\ pastes \in Seq(Paste)
  BY <1>1, Lengths DEF TypeOK
<1>4. n \in Nat /\ (n # 0 => n \in PasteNumbers)  BY <1>3
<1>5. n # 0 => pastes[n].id = req[p].id /\ pastes[n].gone = Never
  BY <1>1, <1>4 DEF IInv, Burning, RowsOK, JInv, Ledger, GoneOK
<1>6. req[p].start <= now /\ now <= req[p].start + RequestTimeout
  BY <1>1 DEF JInv, Timely
<1>7. table[req[p].id] = n  OBVIOUS
<1> HIDE DEF n
<1>8. CASE Answer(p)  BY <1>1, <1>8, AgesNothing, TimelyEnds DEF JInv
<1>9. CASE n # 0 /\ GotoWith(p, "found", n)
  <2>1. /\ req'[p].pc = "found" /\ req'[p].paste = n /\ req'[p].start = req[p].start
        /\ req'[p].id = req[p].id /\ \A q \in Clients \ {p} : req'[q] = req[q]
    BY <1>1, <1>4, <1>9, GotoWithType DEF PCs
  <2>2. n <= n  BY <1>4
  <2>3. Timely(p)'  BY <1>1, <1>2, <1>5, <1>6, <1>7, <1>9, <2>1, <2>2 DEF Timely
  <2>4. QED  BY <1>1, <2>1, <2>3, TimelyMoves
<1>10. QED  BY <1>8, <1>9 DEF RepoGet, n

\* A row that was read has not expired, or is the reason of a purge.
LEMMA CheckPasteTimely ==
  ASSUME IInv, JInv, NEW p \in Clients, CheckPaste(p)
  PROVE  JInv'
<1> DEFINE n == req[p].paste
           i == req[p].id
<1>1. /\ req[p].pc = "found" /\ req[p] \in Request /\ req[p].start \in Nat /\ TypeOK
      /\ req[p].pc # "idle" /\ now' = now /\ cache' = cache /\ UNCHANGED storage
      /\ now \in Nat /\ pastes \in Seq(Paste)
  BY BusyRequest, Lengths DEF CheckPaste, At, IInv
<1>2. n \in PasteNumbers /\ pastes' = pastes /\ table' = table
  BY <1>1 DEF IInv, RequestsOK, storage
<1>3. /\ req[p].start <= now /\ now <= req[p].start + RequestTimeout
      /\ pastes[n].id = i
      /\ table[i] # 0 => n <= table[i] /\ (table[i] = n \/ req[p].start <= pastes[table[i]].stored)
      /\ pastes[n].gone # Never => req[p].start <= pastes[n].gone
  BY <1>1 DEF JInv, Timely
<1>4. pastes[n].expires \in Int \cup {Never}  BY <1>1, <1>2, PasteFields
<1>5. pastes[n].expires # Never =>
        /\ Ticks(pastes[n].expires) \in Int
        /\ IsExpired(n) <=> Ticks(pastes[n].expires) <= now
  BY <1>1, <1>2, <1>4, TickType, ExpiredOnTime
<1>6. CASE IsExpired(n)
  <2>1. Goto(p, "purgeRepo")  BY <1>6 DEF CheckPaste
  <2>2. /\ req'[p].pc = "purgeRepo" /\ req'[p].start = req[p].start /\ req'[p].id = i
        /\ \A q \in Clients \ {p} : req'[q] = req[q]
    BY <1>1, <2>1, GotoType DEF PCs
  <2>3. pastes[n].expires # Never  BY <1>6 DEF IsExpired
  <2> HIDE DEF n, i
  <2>4. Timely(p)'  BY <1>1, <1>2, <1>3, <1>5, <1>6, <2>2, <2>3 DEF Timely
  <2>5. QED  BY <1>1, <2>2, <2>4, TimelyMoves
<1>7. CASE ~IsExpired(n)
  <2>1. PICK pc \in {"take", "ttl"} : Goto(p, pc) /\ (pc = "take" => pastes[n].oneShot)
    BY <1>7 DEF CheckPaste
  <2>2. /\ req'[p].pc = pc /\ req'[p].paste = n /\ req'[p].start = req[p].start
        /\ req'[p].id = i /\ \A q \in Clients \ {p} : req'[q] = req[q]
    BY <1>1, <2>1, GotoType DEF PCs
  <2> HIDE DEF n, i
  <2>3. pastes[n].expires # Never => req[p].start < Ticks(pastes[n].expires)
    BY <1>1, <1>3, <1>5, <1>7
  <2>4. Timely(p)'  BY <1>1, <1>2, <1>3, <2>1, <2>2, <2>3 DEF Timely
  <2>5. QED  BY <1>1, <2>2, <2>4, TimelyMoves
<1>8. QED  BY <1>6, <1>7

LEMMA RemoveTimely ==
  ASSUME IInv, JInv, NEW p \in Clients, NEW pc \in {"purgeCache", "delCache"},
         req[p].pc # "idle", AgingStep, Ledger', Goto(p, pc), now' = now, cache' = cache
  PROVE  JInv'
<1>1. req[p] \in Request /\ TypeOK  BY BusyRequest DEF IInv
<1>2. /\ req'[p].pc = pc /\ req'[p].start = req[p].start
      /\ \A q \in Clients \ {p} : req'[q] = req[q]
  BY <1>1, GotoType DEF PCs
<1>3. Timely(p)'  BY <1>2, GotoTimely
<1>4. QED  BY <1>2, <1>3, TimelyFrame

\* The row a purge removes is not older than the one that had expired.
LEMMA PurgeRepoTimely ==
  ASSUME IInv, JInv, NEW p \in Clients, PurgeRepo(p)
  PROVE  JInv'
<1> DEFINE i == req[p].id
<1>1. /\ req[p].pc = "purgeRepo" /\ i \in Ids /\ TypeOK /\ req[p].pc # "idle" /\ Ledger
      /\ now' = now /\ cache' = cache /\ Goto(p, "purgeCache")
  BY BusyRequest DEF PurgeRepo, At, IInv, JInv
<1>2. CASE Remove(i, "purge")
  <2>1. PICK m \in PasteNumbers : /\ pastes[m].id = i
                                  /\ pastes[m].expires # Never /\ Ticks(pastes[m].expires) <= now
                                  /\ table[i] # 0 => m <= table[i]
    BY <1>1 DEF JInv, Timely
  <2>2. table[i] \in Nat /\ Len(pastes) \in Nat  BY <1>1, Lengths DEF TypeOK
  <2>3. table[i] # 0 => m \in 1..table[i]  BY <2>1, <2>2
  <2>4. AgingStep /\ Ledger'  BY <1>1, <1>2, <2>1, <2>3, AgesByRemoval
  <2>5. QED  BY <1>1, <2>4, RemoveTimely
<1>3. CASE UNCHANGED storage
  <2>1. AgingStep /\ Ledger'  BY <1>1, <1>3, AgesNothing
  <2>2. QED  BY <1>1, <2>1, RemoveTimely
<1>4. QED  BY <1>2, <1>3 DEF PurgeRepo

LEMMA DelRepoTimely ==
  ASSUME IInv, JInv, NEW p \in Clients, DelRepo(p)
  PROVE  JInv'
<1>1. /\ req[p].pc = "delRepo" /\ req[p].id \in Ids /\ req[p].pc # "idle" /\ Ledger
      /\ now' = now /\ cache' = cache
  BY BusyRequest DEF DelRepo, At, IInv, JInv
<1>2. CASE Remove(req[p].id, "delete") /\ Goto(p, "delCache")
  <2>1. AgingStep /\ Ledger'  BY <1>1, <1>2, AgesByRemoval
  <2>2. QED  BY <1>1, <1>2, <2>1, RemoveTimely
<1>3. CASE Answer(p) /\ UNCHANGED storage
  BY <1>1, <1>3, AgesNothing, TimelyEnds
<1>4. QED  BY <1>2, <1>3 DEF DelRepo

\* What is taken is what had been read, or was stored after that.
LEMMA TakeTimely ==
  ASSUME IInv, JInv, NEW p \in Clients, Take(p)
  PROVE  JInv'
<1> DEFINE i == req[p].id
           n == table[i]
           m == req[p].paste
<1>1. /\ req[p].pc = "take" /\ req[p] \in Request /\ i \in Ids /\ TypeOK /\ Ledger
      /\ now' = now /\ cache' = cache
  BY BusyRequest DEF Take, At, IInv, JInv
<1>2. CASE n # 0 /\ Remove(i, "burn") /\ GotoWith(p, "taken", n)
  <2>1. n \in PasteNumbers /\ n \in Nat
    <3>1. n \in 0..Len(pastes) /\ Len(pastes) \in Nat  BY <1>1, Lengths DEF TypeOK
    <3>2. QED  BY <1>2, <3>1
  <2>2. /\ req[p].start <= now /\ now <= req[p].start + RequestTimeout
        /\ pastes[m].expires # Never => req[p].start < Ticks(pastes[m].expires)
        /\ pastes[m].oneShot /\ pastes[m].id = i
        /\ m <= n /\ (n = m \/ req[p].start <= pastes[n].stored)
    BY <1>1, <1>2 DEF JInv, Timely
  <2>3. m \in 1..n
    <3>1. m \in PasteNumbers  BY <1>1 DEF IInv, RequestsOK
    <3>2. QED  BY <2>1, <2>2, <3>1
  <2>4. AgingStep /\ Ledger'  BY <1>1, <1>2, <2>2, <2>3, AgesByRemoval
  <2>5. /\ pastes'[n].expires = pastes[n].expires /\ pastes'[n].stored = pastes[n].stored
    BY <2>1, <2>4 DEF AgingStep, PastesStep
  <2>6. /\ req'[p].pc = "taken" /\ req'[p].paste = n /\ req'[p].start = req[p].start
        /\ \A q \in Clients \ {p} : req'[q] = req[q]
    <3> HIDE DEF n
    <3>1. QED  BY <1>1, <1>2, <2>1, GotoWithType DEF PCs
  <2> HIDE DEF n, m, i
  <2>7. Timely(p)'  BY <1>1, <2>2, <2>5, <2>6 DEF Timely
  <2>8. QED  BY <1>1, <2>4, <2>6, <2>7, TimelyFrame
<1>3. CASE Answer(p) /\ UNCHANGED storage
  BY <1>1, <1>3, AgesNothing, TimelyEnds
<1>4. QED  BY <1>2, <1>3 DEF Take

LEMMA TakenTimely ==
  ASSUME IInv, JInv, NEW p \in Clients, Taken(p)
  PROVE  JInv'
<1>1. now' = now /\ cache' = cache /\ Answer(p)  BY DEF Taken
<1>2. AgingStep /\ Ledger'  BY AgesByReading DEF JInv
<1>3. QED  BY <1>1, <1>2, TimelyEnds

LEMMA ChooseTtlTimely ==
  ASSUME IInv, JInv, NEW p \in Clients, ChooseTtl(p)
  PROVE  JInv'
<1> DEFINE n == req[p].paste
           ttl == CacheTtl(n)
<1>1. /\ req[p].pc = "ttl" /\ req[p] \in Request /\ req[p].start \in Nat /\ TypeOK
      /\ now' = now /\ cache' = cache /\ UNCHANGED storage
  BY BusyRequest DEF ChooseTtl, At, IInv
<1>2. n \in PasteNumbers /\ pastes' = pastes  BY <1>1 DEF IInv, RequestsOK, storage
<1>3. ttl \in 0..MaxCacheTtl  BY <1>1, <1>2, CacheTtlBound
<1>4. /\ req[p].start <= now /\ now <= req[p].start + RequestTimeout
      /\ pastes[n].expires # Never => req[p].start < Ticks(pastes[n].expires)
      /\ pastes[n].gone # Never => req[p].start <= pastes[n].gone
  BY <1>1 DEF JInv, Timely
<1>5. pastes[n].gone \in Nat \cup {Never}  BY <1>1, <1>2, Lengths, PasteFields
<1>6. CASE ttl > 0
  <2>1. req' = [req EXCEPT ![p].pc = "cacheSet", ![p].ttl = ttl]  BY <1>6 DEF ChooseTtl
  <2> HIDE DEF ttl
  <2>2. /\ req'[p].pc = "cacheSet" /\ req'[p].paste = n /\ req'[p].start = req[p].start
        /\ req'[p].ttl = ttl /\ \A q \in Clients \ {p} : req'[q] = req[q]
    BY <1>1, <1>3, <2>1, GotoTtlType
  <2> HIDE DEF n
  <2>3. Timely(p)'  BY <1>1, <1>2, <1>4, <1>6, <2>2 DEF Timely
  <2>4. QED  BY <1>1, <2>2, <2>3, TimelyMoves
<1>7. CASE ~(ttl > 0)
  <2>1. Goto(p, "record")  BY <1>7 DEF ChooseTtl
  <2>2. /\ req'[p].pc = "record" /\ req'[p].paste = n /\ req'[p].start = req[p].start
        /\ \A q \in Clients \ {p} : req'[q] = req[q]
    BY <1>1, <2>1, GotoType DEF PCs
  <2> HIDE DEF n
  <2>3. pastes[n].gone # Never => req[p].start < pastes[n].gone + RequestTimeout + Ticks(MaxCacheTtl)
    BY <1>1, <1>4, <1>5, Bounds
  <2>4. Timely(p)'  BY <1>1, <1>2, <1>4, <2>2, <2>3 DEF Timely
  <2>5. QED  BY <1>1, <2>2, <2>4, TimelyMoves
<1>8. QED  BY <1>6, <1>7

\* The entry that is written ends in time: its row was there when the request began.
LEMMA CacheSetTimely ==
  ASSUME IInv, JInv, NEW p \in Clients, CacheSet(p)
  PROVE  JInv'
<1> DEFINE n == req[p].paste
           i == req[p].id
           ttl == req[p].ttl
           entry == [paste |-> n, until |-> now + Ticks(ttl)]
<1>1. /\ req[p].pc = "cacheSet" /\ req[p] \in Request /\ i \in Ids /\ ttl \in 0..MaxCacheTtl
      /\ req[p].start \in Nat /\ TypeOK /\ now' = now /\ UNCHANGED storage
      /\ Goto(p, "record") /\ (cache' = [cache EXCEPT ![i] = entry] \/ cache' = cache)
  BY BusyRequest DEF CacheSet, At, IInv
<1>2. n \in PasteNumbers /\ pastes' = pastes  BY <1>1 DEF IInv, RequestsOK, storage
<1>3. /\ now \in Nat /\ pastes \in Seq(Paste)
      /\ cache \in [Ids -> [paste : 0..Len(pastes), until : Nat]]
  BY <1>1, Lengths DEF TypeOK
<1>4. /\ req'[p].pc = "record" /\ req'[p].paste = n /\ req'[p].start = req[p].start
      /\ \A q \in Clients \ {p} : req'[q] = req[q]
  BY <1>1, GotoType DEF PCs
<1>5. /\ req[p].start <= now /\ now <= req[p].start + RequestTimeout /\ ttl > 0
      /\ pastes[n].expires # Never => req[p].start < Ticks(pastes[n].expires)
      /\ pastes[n].gone # Never => req[p].start <= pastes[n].gone
  BY <1>1 DEF JInv, Timely
<1>6. pastes[n].gone \in Nat \cup {Never}  BY <1>1, <1>2, <1>3, PasteFields
<1>7. entry.paste = n /\ entry.until = now + Ticks(ttl)  OBVIOUS
<1>8. \A j \in Ids : cache'[j] = cache[j] \/ (j = i /\ cache'[j] = entry)
  <2> HIDE DEF entry
  <2>1. QED  BY <1>1, <1>3
<1> HIDE DEF entry, n, i, ttl
<1>9. Ticks(ttl) \in Nat /\ Ticks(ttl) <= Ticks(MaxCacheTtl) /\ Ticks(ttl) > 0
  BY <1>1, <1>5, Lifetimes
<1>10. pastes[n].gone # Never =>
         /\ req[p].start < pastes[n].gone + RequestTimeout + Ticks(MaxCacheTtl)
         /\ now + Ticks(ttl) <= pastes[n].gone + RequestTimeout + Ticks(MaxCacheTtl)
  <2> SUFFICES ASSUME pastes[n].gone # Never
               PROVE  /\ req[p].start < pastes[n].gone + RequestTimeout + Ticks(MaxCacheTtl)
                      /\ now + Ticks(ttl) <= pastes[n].gone + RequestTimeout + Ticks(MaxCacheTtl)
    OBVIOUS
  <2>1. pastes[n].gone \in Nat /\ req[p].start <= pastes[n].gone  BY <1>5, <1>6
  <2>2. req[p].start < pastes[n].gone + RequestTimeout + Ticks(MaxCacheTtl)
    BY <1>1, <2>1, Bounds
  <2>3. now <= pastes[n].gone + RequestTimeout
    BY <1>1, <1>3, <1>5, <2>1, Bounds
  <2>4. now + Ticks(ttl) <= pastes[n].gone + RequestTimeout + Ticks(MaxCacheTtl)
    BY <1>3, <1>9, <2>1, <2>3, Bounds
  <2>5. QED  BY <2>2, <2>4
<1>11. now < now + Ticks(ttl) /\ now + Ticks(ttl) <= now + Ticks(MaxCacheTtl)
  BY <1>3, <1>9, Bounds
<1>12. Timely(p)'  BY <1>1, <1>2, <1>4, <1>5, <1>10 DEF Timely
<1>13. \A j \in Ids : cache'[j] = cache[j] \/ EntryTimely(j)'
  <2> SUFFICES ASSUME NEW j \in Ids, cache'[j] = entry PROVE EntryTimely(j)'
    BY <1>8
  <2>1. QED  BY <1>1, <1>2, <1>7, <1>10, <1>11 DEF EntryTimely
<1>14. AgingStep /\ Ledger'  BY <1>1, AgesNothing DEF JInv
<1>15. QED  BY <1>1, <1>4, <1>12, <1>13, <1>14, TimelyFrame

LEMMA ClientTimely ==
  ASSUME IInv, JInv, NEW p \in Clients, ClientStep(p)
  PROVE  JInv'
<1>1. CASE Create(p) \/ Fetch(p) \/ Delete(p)  BY <1>1, BeginTimely
<1>2. CASE Insert(p)  BY <1>2, InsertTimely
<1>3. CASE CacheGet(p)  BY <1>3, CacheGetTimely
<1>4. CASE CacheDrop(p)  BY <1>4, CacheDropTimely
<1>5. CASE RepoGet(p)  BY <1>5, RepoGetTimely
<1>6. CASE PurgeRepo(p)  BY <1>6, PurgeRepoTimely
<1>7. CASE Take(p)  BY <1>7, TakeTimely
<1>8. CASE Taken(p)  BY <1>8, TakenTimely
<1>9. CASE ChooseTtl(p)  BY <1>9, ChooseTtlTimely
<1>10. CASE CacheSet(p)  BY <1>10, CacheSetTimely
<1>11. CASE DelRepo(p)  BY <1>11, DelRepoTimely
<1>12. CASE PurgeCache(p) \/ DelCache(p) \/ Record(p) \/ Timeout(p) \/ Disconnect(p)
  <2>1. Answer(p) /\ now' = now /\ UNCHANGED storage
    BY <1>12 DEF PurgeCache, DelCache, Record, Timeout, Disconnect
  <2>2. cache' = cache \/ (req[p].id \in Ids /\ Invalidate(req[p].id))
    BY <1>12, BusyRequest
       DEF PurgeCache, DelCache, Record, Timeout, Disconnect, At, IInv
  <2>3. QED  BY <2>1, <2>2, AgesNothing, TimelyEnds DEF JInv
<1>13. CASE CheckHit(p)  BY <1>13, CheckHitTimely
<1>14. CASE CheckPaste(p)  BY <1>14, CheckPasteTimely
<1>15. QED
  BY <1>1, <1>2, <1>3, <1>4, <1>5, <1>6, <1>7, <1>8, <1>9, <1>10, <1>11, <1>12,
     <1>13, <1>14
     DEF ClientStep

LEMMA CrashTimely == ASSUME IInv, JInv, Crash PROVE JInv'
<1>1. /\ req' = [p \in Clients |-> Idle] /\ now' = now /\ cache' = cache /\ UNCHANGED storage
  BY DEF Crash
<1>2. AgingStep /\ Ledger'  BY <1>1, AgesNothing DEF JInv
<1>3. \A p \in Clients : Timely(p)'  BY <1>1 DEF Timely, Idle
<1>4. \A i \in Ids : EntryTimely(i)'  BY <1>1, <1>2, EntryKept DEF JInv
<1>5. QED  BY <1>2, <1>3, <1>4 DEF JInv

\* Time passes only while every request is younger than its timeout.
LEMMA TickTimely == ASSUME IInv, JInv, Tick PROVE JInv'
<1>1. /\ now' = now + 1 /\ req' = req /\ UNCHANGED storage
      /\ \A p \in Clients : ~Due(p)
      /\ cache' = [i \in Ids |-> IF cache[i].until <= now + 1 THEN Empty ELSE cache[i]]
  BY DEF Tick
<1>2. pastes' = pastes /\ table' = table  BY <1>1 DEF storage
<1>3. /\ now \in Nat /\ pastes \in Seq(Paste) /\ Len(pastes) \in Nat
      /\ cache \in [Ids -> [paste : 0..Len(pastes), until : Nat]]
  BY Lengths DEF IInv, TypeOK
<1>4. Ledger'  BY <1>1, AgesNothing DEF JInv
<1>5. \A p \in Clients : Timely(p)'
  <2> SUFFICES ASSUME NEW p \in Clients, req[p].pc # "idle" PROVE Timely(p)'
    BY <1>1 DEF Timely
  <2>1. req[p] # Idle /\ req[p].start \in Nat  BY BusyRequest DEF IInv, Idle
  <2>2. Timely(p) /\ now < req[p].start + RequestTimeout
    BY <1>1, <1>3, <2>1, Bounds DEF JInv, Due
  <2>3. req[p].start <= now + 1 /\ now + 1 <= req[p].start + RequestTimeout
    BY <1>3, <2>1, <2>2, Bounds DEF Timely
  <2>4. req[p].pc = "purgeRepo" =>
          \E m \in PasteNumbers :
              /\ pastes[m].id = req[p].id
              /\ pastes[m].expires # Never /\ Ticks(pastes[m].expires) <= now + 1
              /\ table[req[p].id] # 0 => m <= table[req[p].id]
    <3> SUFFICES ASSUME req[p].pc = "purgeRepo"
                 PROVE  \E m \in PasteNumbers :
                          /\ pastes[m].id = req[p].id
                          /\ pastes[m].expires # Never /\ Ticks(pastes[m].expires) <= now + 1
                          /\ table[req[p].id] # 0 => m <= table[req[p].id]
      OBVIOUS
    <3>1. PICK m \in PasteNumbers : /\ pastes[m].id = req[p].id
                                    /\ pastes[m].expires # Never /\ Ticks(pastes[m].expires) <= now
                                    /\ table[req[p].id] # 0 => m <= table[req[p].id]
      BY <2>2 DEF Timely
    <3>2. Ticks(pastes[m].expires) \in Int  BY <1>3, <3>1, PasteFields, TickType
    <3>3. Ticks(pastes[m].expires) <= now + 1  BY <1>3, <3>1, <3>2
    <3>4. QED  BY <3>1, <3>3
  <2>5. QED  BY <1>1, <1>2, <2>2, <2>3, <2>4 DEF Timely
<1>6. \A i \in Ids : EntryTimely(i)'
  <2> SUFFICES ASSUME NEW i \in Ids, cache'[i].paste # 0 PROVE EntryTimely(i)'
    BY DEF EntryTimely
  <2>1. cache'[i] = cache[i] /\ ~(cache[i].until <= now + 1)  BY <1>1, <1>3 DEF Empty
  <2>2. cache[i].until \in Nat /\ EntryTimely(i)  BY <1>3 DEF JInv
  <2>3. /\ cache[i].until <= now + Ticks(MaxCacheTtl)
        /\ pastes[cache[i].paste].gone # Never
             => cache[i].until <= pastes[cache[i].paste].gone + RequestTimeout + Ticks(MaxCacheTtl)
    BY <2>1, <2>2 DEF EntryTimely
  <2>4. now + 1 < cache[i].until /\ cache[i].until <= now + 1 + Ticks(MaxCacheTtl)
    BY <1>3, <2>1, <2>2, <2>3, Bounds
  <2>5. QED  BY <1>1, <1>2, <2>1, <2>3, <2>4 DEF EntryTimely
<1>7. QED  BY <1>4, <1>5, <1>6 DEF JInv

LEMMA InitJInv == Init => JInv
<1> SUFFICES ASSUME Init PROVE JInv
  OBVIOUS
<1>1. Len(pastes) = 0  BY EmptySeq DEF Init
<1>2. Ledger  BY <1>1 DEF Ledger, GoneOK, Reasons
<1>3. QED  BY <1>2 DEF Init, JInv, Timely, EntryTimely, Empty, Idle

LEMMA NextJInv == IInv /\ JInv /\ [Next]_vars => JInv'
<1> SUFFICES ASSUME IInv, JInv, [Next]_vars PROVE JInv'
  OBVIOUS
<1>1. CASE UNCHANGED vars
  <2>1. now' = now /\ cache' = cache /\ req' = req /\ pastes' = pastes /\ table' = table
    BY <1>1 DEF vars, storage
  <2>2. QED  BY <2>1 DEF JInv, Timely, EntryTimely, Ledger, GoneOK, Reasons
<1>2. QED  BY <1>1, ClientTimely, CrashTimely, TickTimely DEF Next

\* IInv and JInv together are an invariant of PasteService.
THEOREM InductiveInTime == Spec => [](IInv /\ JInv)
<1>1. IInv /\ JInv /\ [Next]_vars => IInv' /\ JInv'  BY NextIInv, NextJInv
<1>2. QED  BY InitIInv, InitJInv, <1>1, PTL DEF Spec

\* A paste is purged only after it, or an earlier paste of its id, expired, and burned only
\* if it, or an earlier one, was a one-shot (fetch).
THEOREM RemovalsHaveAReason == Spec => []RemovedForAReason
<1>1. JInv => RemovedForAReason
  <2> SUFFICES ASSUME JInv, NEW n \in PasteNumbers
               PROVE  LET before == {pastes[m] : m \in {m \in 1..n : pastes[m].id = pastes[n].id}}
                      IN /\ pastes[n].by = "purge" =>
                              \E b \in before : b.expires # Never /\ Ticks(b.expires) <= pastes[n].gone
                         /\ pastes[n].by = "burn" => \E b \in before : b.oneShot
    BY DEF RemovedForAReason
  <2>1. QED  BY DEF JInv, Ledger, Reasons
<1>2. QED  BY <1>1, InductiveInTime, PTL

\* A paste is served for less than one request timeout past its expiry, or as long after it
\* took the id of a burned one (fetch).
THEOREM ServiceEndsInTime == Spec => []ServedInTime
<1>1. IInv /\ JInv => ServedInTime
  <2> SUFFICES ASSUME IInv, JInv, NEW p \in Clients, req[p].pc \in {"record", "taken"}
               PROVE  \/ pastes[req[p].paste].expires = Never
                      \/ now < Ticks(pastes[req[p].paste].expires) + RequestTimeout
                      \/ At(p, "taken") /\ now <= pastes[req[p].paste].stored + RequestTimeout
    BY DEF ServedInTime, At
  <2>1. /\ req[p].start \in Nat /\ now \in Nat /\ pastes \in Seq(Paste)
        /\ req[p].paste \in PasteNumbers
    BY BusyRequest, Lengths DEF IInv, RequestsOK
  <2>2. /\ pastes[req[p].paste].expires \in Int \cup {Never}
        /\ pastes[req[p].paste].stored \in Nat
        /\ pastes[req[p].paste].expires # Never
             => Ticks(pastes[req[p].paste].expires) \in Int
    BY <2>1, PasteFields, TickType
  <2>3. /\ now <= req[p].start + RequestTimeout
        /\ pastes[req[p].paste].expires # Never
             => \/ req[p].start < Ticks(pastes[req[p].paste].expires)
                \/ req[p].pc = "taken" /\ req[p].start <= pastes[req[p].paste].stored
    BY DEF JInv, Timely
  <2>4. QED  BY <2>1, <2>2, <2>3, Bounds DEF At
<1>2. QED  BY <1>1, InductiveInTime, PTL

\* A removed paste is served for less than MAX_CACHE_TTL_SECS and two request timeouts.
THEOREM StalenessIsBounded == Spec => []BoundedStaleness
<1>1. IInv /\ JInv => BoundedStaleness
  <2> SUFFICES ASSUME IInv, JInv, NEW p \in Clients, req[p].pc = "record",
                      pastes[req[p].paste].gone # Never
               PROVE  now < pastes[req[p].paste].gone + Ticks(MaxCacheTtl) + 2 * RequestTimeout
    BY DEF BoundedStaleness, At
  <2>1. /\ req[p].start \in Nat /\ now \in Nat /\ pastes \in Seq(Paste)
        /\ req[p].paste \in PasteNumbers
    BY BusyRequest, Lengths DEF IInv, RequestsOK
  <2>2. pastes[req[p].paste].gone \in Nat  BY <2>1, PasteFields
  <2>3. /\ now <= req[p].start + RequestTimeout
        /\ req[p].start < pastes[req[p].paste].gone + RequestTimeout + Ticks(MaxCacheTtl)
    BY DEF JInv, Timely
  <2>4. QED  BY <2>1, <2>2, <2>3, Bounds, SMTT(60)
<1>2. QED  BY <1>1, InductiveInTime, PTL
==============================================================================
