-------------------------- MODULE TcpConnectionProofs --------------------------
(****************************************************************************)
(* What is proved of one connection: its buffer is bounded and a request    *)
(* has one deadline, whatever the client sends; and for a client that       *)
(* announces its bodies, the connection stays framed and each request gets  *)
(* the answer it calls for.                                                 *)
(*                                                                          *)
(* The module begins with what the two folds of the model compute: the loop *)
(* of parse_head over the header lines, and the requests of a client one    *)
(* after the other.  Both are by induction on a number (NatSets).  Then     *)
(* come the parser, the buffer in terms of the requests in it, and the two  *)
(* inductive invariants IInv and Frames.                                    *)
(****************************************************************************)
EXTENDS TcpConnection, WellFoundedInduction, SequenceTheorems, FiniteSetTheorems, TLAPS

\* Induction, on the set of the numbers that have the property: what an infinite
\* descent needs is that < is well founded on Nat.
LEMMA NatSets ==
  ASSUME NEW S, 0 \in S, \A n \in Nat : n \in S => n + 1 \in S
  PROVE  Nat \subseteq S
<1> SUFFICES ASSUME Nat \ S # {} PROVE FALSE  OBVIOUS
<1>1. PICK x \in Nat \ S : \A y \in Nat \ S : ~(<<y, x>> \in OpToRel(<, Nat))
  BY NatLessThanWellFounded, WFMin
<1>2. \A y \in Nat \ S : ~(y < x)  BY <1>1 DEF OpToRel
<1>3. x # 0  OBVIOUS
<1>4. x - 1 \in Nat /\ x - 1 < x /\ (x - 1) + 1 = x  BY <1>3
<1>5. x - 1 \in S  BY <1>2, <1>4
<1>6. QED  BY <1>4, <1>5

LEMMA Smallest ==
  ASSUME NEW S \in SUBSET Nat, S # {}
  PROVE  \E x \in S : \A y \in S : x <= y
<1>1. PICK x \in S : \A y \in S : ~(<<y, x>> \in OpToRel(<, Nat))
  BY NatLessThanWellFounded, WFMin
<1>2. \A y \in S : ~(y < x)  BY <1>1 DEF OpToRel
<1>3. QED  BY <1>2

LEMMA Largest ==
  ASSUME NEW n \in Nat, NEW S \in SUBSET (0..n), S # {}
  PROVE  \E x \in S : \A y \in S : y <= x
<1> DEFINE D == {k \in Nat : \E x \in S : k = n - x}
<1>0. PICK z \in S : TRUE  OBVIOUS
<1>1. D \in SUBSET Nat /\ n - z \in D  BY <1>0
<1>2. PICK d \in D : \A e \in D : d <= e  BY <1>1, Smallest
<1>3. PICK x \in S : d = n - x  BY <1>2
<1>4. ASSUME NEW y \in S PROVE y <= x
  <2>1. n - y \in D  BY <1>4
  <2>2. n - x <= n - y  BY <2>1, <1>2, <1>3
  <2>3. QED  BY <2>2
<1>5. QED  BY <1>4

\* The greatest index of a set of them, which is what FoldLeft takes off at each turn.
LEMMA MaxOf ==
  ASSUME NEW n \in Nat, NEW S \in SUBSET (0..n), S # {}
  PROVE  Max(S) \in S /\ \A y \in S : y <= Max(S)
BY Largest DEF Max

------------------------------------------------------------------------------
(* A fold of Header is what a loop over the header lines computes.          *)

Folding(b, s, it) == [t \in SUBSET (DOMAIN s) |->
                        IF t = {} THEN b ELSE Header(it[t \ {Max(t)}], s[Max(t)])]

LEMMA FoldExists ==
  ASSUME NEW b, NEW s \in Seq(Lines)
  PROVE  \E it : it = Folding(b, s, it)
<1> DEFINE E(k, g) == [t \in SUBSET (1..k) |->
                         IF t = {} THEN b ELSE Header(g[t \ {Max(t)}], s[Max(t)])]
           S == {k \in Nat : \E g : g = E(k, g)}
<1>1. 0 \in S
  <2> DEFINE g0 == [t \in SUBSET (1..0) |-> b]
  <2>1. \A t \in SUBSET (1..0) : t = {}  OBVIOUS
  <2>2. g0 = E(0, g0)  BY <2>1
  <2> QED  BY <2>2
<1>2. ASSUME NEW k \in Nat, k \in S PROVE k + 1 \in S
  <2>1. PICK g : g = E(k, g)  BY <1>2
  <2> DEFINE g2 == [t \in SUBSET (1..k+1) |->
                      IF k + 1 \in t THEN Header(g[t \ {k+1}], s[k+1]) ELSE g[t]]
  <2>2. ASSUME NEW t \in SUBSET (1..k+1)
        PROVE  g2[t] = IF t = {} THEN b ELSE Header(g2[t \ {Max(t)}], s[Max(t)])
    <3>1. CASE t = {}
      <4>1. g2[t] = g[t] /\ t \in SUBSET (1..k)  BY <3>1
      <4>2. g[t] = b  BY <2>1, <4>1, <3>1
      <4> QED  BY <4>1, <4>2, <3>1
    <3>2. CASE k + 1 \in t
      <4>0. t \in SUBSET (0..k+1) /\ t # {} /\ k + 1 \in Nat  BY <3>2
      <4>1. Max(t) = k + 1
        <5>1. Max(t) \in t /\ \A y \in t : y <= Max(t)  BY <4>0, MaxOf
        <5>2. k + 1 <= Max(t) /\ Max(t) \in 1..k+1  BY <5>1, <3>2
        <5> QED  BY <5>2
      <4>2. t \ {k+1} \in SUBSET (1..k+1) /\ k + 1 \notin t \ {k+1}  OBVIOUS
      <4>3. g2[t \ {k+1}] = g[t \ {k+1}]  BY <4>2
      <4>4. g2[t] = Header(g[t \ {k+1}], s[k+1])  BY <3>2
      <4> QED  BY <4>0, <4>1, <4>3, <4>4
    <3>3. CASE t # {} /\ k + 1 \notin t
      <4>1. t \in SUBSET (1..k) /\ t \in SUBSET (0..k)  BY <3>3
      <4>2. Max(t) \in t  BY <4>1, <3>3, MaxOf
      <4>3. t \ {Max(t)} \in SUBSET (1..k+1) /\ k + 1 \notin t \ {Max(t)}  BY <3>3
      <4>4. g2[t \ {Max(t)}] = g[t \ {Max(t)}]  BY <4>3
      <4>5. g2[t] = g[t]  BY <3>3
      <4>6. g[t] = Header(g[t \ {Max(t)}], s[Max(t)])  BY <2>1, <4>1, <3>3
      <4> QED  BY <4>4, <4>5, <4>6, <3>3
    <3> QED  BY <3>1, <3>2, <3>3
  <2>3. g2 = E(k + 1, g2)
    <3> HIDE DEF g2
    <3>1. g2 = [t \in SUBSET (1..k+1) |-> g2[t]]  BY DEF g2
    <3> QED  BY <2>2, <3>1
  <2> HIDE DEF g2, E
  <2> QED  BY <2>3
<1>3. Nat \subseteq S  BY <1>1, <1>2, NatSets
<1>4. Len(s) \in Nat /\ DOMAIN s = 1..Len(s)  BY LenProperties
<1>5. PICK g : g = E(Len(s), g)  BY <1>3, <1>4
<1> QED  BY <1>4, <1>5 DEF Folding

LEMMA FoldSteps ==
  ASSUME NEW b, NEW s \in Seq(Lines)
  PROVE  \E h : /\ h[0] = b
                /\ \A i \in 1..Len(s) : h[i] = Header(h[i - 1], s[i])
                /\ FoldLeft(Header, b, s) = h[Len(s)]
<1> DEFINE it == CHOOSE g : g = Folding(b, s, g)
<1>1. FoldLeft(Header, b, s) = it[DOMAIN s]
  BY DEF FoldLeft, MapThenFoldSet, Folding
<1>2. it = Folding(b, s, it)  BY FoldExists
<1> HIDE DEF it
<1>3. Len(s) \in Nat /\ DOMAIN s = 1..Len(s)  BY LenProperties
<1> DEFINE h == [i \in 0..Len(s) |-> it[1..i]]
<1>4. h[0] = b
  <2>1. 1..0 = {} /\ {} \in SUBSET (DOMAIN s) /\ 0 \in 0..Len(s)  BY <1>3
  <2>2. it[{}] = b  BY <2>1, <1>2 DEF Folding
  <2> QED  BY <2>1, <2>2
<1>5. ASSUME NEW i \in 1..Len(s) PROVE h[i] = Header(h[i - 1], s[i])
  <2>0. i \in Nat /\ i \in 0..Len(s) /\ i - 1 \in 0..Len(s) /\ i \in 1..i
    BY <1>3, <1>5
  <2>1. 1..i \in SUBSET (DOMAIN s) /\ 1..i \in SUBSET (0..i) /\ 1..i # {}
    <3>1. 1..i \subseteq 1..Len(s)  BY <1>3, <2>0
    <3>2. 1..i \subseteq 0..i  BY <2>0
    <3> QED  BY <3>1, <3>2, <1>3, <2>0
  <2>2. Max(1..i) = i
    <3>1. Max(1..i) \in 1..i /\ \A y \in 1..i : y <= Max(1..i)  BY <2>0, <2>1, MaxOf
    <3>2. i <= Max(1..i)  BY <3>1, <2>0
    <3> QED  BY <3>1, <3>2, <2>0
  <2>3. (1..i) \ {i} = 1..(i - 1)  BY <2>0
  <2>4. it[1..i] = Header(it[(1..i) \ {Max(1..i)}], s[Max(1..i)])
    BY <1>2, <2>1 DEF Folding
  <2> QED  BY <2>0, <2>2, <2>3, <2>4
<1>6. h[Len(s)] = it[DOMAIN s]  BY <1>3
<1> HIDE DEF h
<1> QED  BY <1>1, <1>4, <1>5, <1>6

------------------------------------------------------------------------------
(* The requests of a client, one after the other.                           *)

Off(s, n) == Len(FlattenSeq(SubSeq(s, 1, n)))

LEMMA FlattenSteps ==
  ASSUME NEW s \in Seq(Seq(Lines))
  PROVE  \E f : /\ f[0] = <<>>
                /\ \A i \in 1..Len(s) : f[i] = f[i - 1] \o s[i]
                /\ \A i \in 0..Len(s) : f[i] \in Seq(Lines)
                /\ \A n \in 0..Len(s) : FlattenSeq(SubSeq(s, 1, n)) = f[n]
<1>0. Len(s) \in Nat /\ \A i \in 1..Len(s) : s[i] \in Seq(Lines)
  BY LenProperties, ElementOfSeq
<1> DEFINE E(k, g) == [i \in 0..k |-> IF i = 0 THEN <<>> ELSE g[i - 1] \o s[i]]
           S == {k \in Nat : \E g : g = E(k, g)}
<1>1. 0 \in S
  <2> DEFINE g0 == [i \in 0..0 |-> <<>>]
  <2>1. \A i \in 0..0 : i = 0  OBVIOUS
  <2>2. g0 = E(0, g0)  BY <2>1
  <2> QED  BY <2>2
<1>2. ASSUME NEW k \in Nat, k \in S PROVE k + 1 \in S
  <2>1. PICK g : g = E(k, g)  BY <1>2
  <2> DEFINE g2 == [i \in 0..k+1 |-> IF i = k + 1 THEN g[k] \o s[k+1] ELSE g[i]]
  <2>2. ASSUME NEW i \in 0..k+1
        PROVE  g2[i] = IF i = 0 THEN <<>> ELSE g2[i - 1] \o s[i]
    <3>1. CASE i = k + 1
      <4>1. g2[i] = g[k] \o s[k+1]  BY <3>1
      <4>2. k \in 0..k+1 /\ k # k + 1 /\ i - 1 = k /\ i # 0  BY <3>1
      <4>3. g2[k] = g[k]  BY <4>2
      <4> QED  BY <3>1, <4>1, <4>2, <4>3
    <3>2. CASE i # k + 1
      <4>1. i \in 0..k /\ g2[i] = g[i]  BY <3>2
      <4>2. g[i] = IF i = 0 THEN <<>> ELSE g[i - 1] \o s[i]  BY <2>1, <4>1
      <4>3. i # 0 => g2[i - 1] = g[i - 1]  BY <4>1
      <4> QED  BY <4>1, <4>2, <4>3
    <3> QED  BY <3>1, <3>2
  <2>3. g2 = E(k + 1, g2)
    <3> HIDE DEF g2
    <3>1. g2 = [i \in 0..k+1 |-> g2[i]]  BY DEF g2
    <3> QED  BY <2>2, <3>1
  <2> HIDE DEF g2, E
  <2> QED  BY <2>3
<1>3. Nat \subseteq S  BY <1>1, <1>2, NatSets
<1>4. PICK f : f = E(Len(s), f)  BY <1>0, <1>3
<1>5. f[0] = <<>> /\ \A i \in 1..Len(s) : f[i] = f[i - 1] \o s[i]
  <2>1. 0 \in 0..Len(s) /\ \A i \in 1..Len(s) : i \in 0..Len(s) /\ i # 0  BY <1>0
  <2> QED  BY <1>4, <2>1
<1>6. \A i \in 0..Len(s) : f[i] \in Seq(Lines)
  <2> DEFINE T == {i \in Nat : i \in 0..Len(s) => f[i] \in Seq(Lines)}
  <2>1. 0 \in T  BY <1>5, EmptySeq
  <2>2. ASSUME NEW i \in Nat, i \in T PROVE i + 1 \in T
    <3> SUFFICES ASSUME i + 1 \in 0..Len(s) PROVE f[i + 1] \in Seq(Lines)  OBVIOUS
    <3>1. i \in 0..Len(s) /\ i + 1 \in 1..Len(s) /\ (i + 1) - 1 = i  BY <1>0
    <3>2. f[i] \in Seq(Lines)  BY <2>2, <3>1
    <3>3. f[i + 1] = f[i] \o s[i + 1]  BY <1>5, <3>1
    <3> QED  BY <1>0, <3>1, <3>2, <3>3, ConcatProperties
  <2>3. Nat \subseteq T  BY <2>1, <2>2, NatSets
  <2> QED  BY <1>0, <2>3
<1>7. ASSUME NEW n \in 0..Len(s) PROVE FlattenSeq(SubSeq(s, 1, n)) = f[n]
  <2> DEFINE t == SubSeq(s, 1, n)
  <2>1. t \in Seq(Seq(Lines)) /\ Len(t) = n /\ \A i \in 1..n : t[i] = s[i]
    <3>1. \A i \in 1..n : s[i] \in Seq(Lines)  BY <1>0
    <3>2. n \in Int /\ 1 \in Int /\ n \in Nat  BY <1>0
    <3> QED  BY <3>1, <3>2, SubSeqProperties
  <2> HIDE DEF t
  <2>2. CASE n = 0
    <3>1. t = <<>>  BY <2>1, <2>2, EmptySeq
    <3>2. FlattenSeq(t) = t  BY <2>1, <2>2 DEF FlattenSeq
    <3> QED  BY <3>1, <3>2, <1>5, <2>2 DEF t
  <2>3. CASE n # 0
    <3> DEFINE G(g) == [i \in 1..Len(t) |-> IF i = 1 THEN t[i] ELSE g[i - 1] \o t[i]]
               c == CHOOSE g : g = G(g)
    <3>1. FlattenSeq(t) = c[Len(t)]  BY <2>1, <2>3 DEF FlattenSeq
    <3>2. \E g : g = G(g)
      <4> DEFINE g0 == [i \in 1..Len(t) |-> f[i]]
      <4>1. ASSUME NEW i \in 1..Len(t)
            PROVE  g0[i] = IF i = 1 THEN t[i] ELSE g0[i - 1] \o t[i]
        <5>1. i \in 1..Len(s) /\ t[i] = s[i] /\ s[i] \in Seq(Lines)  BY <1>0, <2>1
        <5>2. f[i] = f[i - 1] \o s[i]  BY <5>1, <1>5
        <5>3. CASE i = 1
          <6>1. f[i - 1] = <<>>  BY <5>3, <1>5
          <6>2. <<>> \o s[i] = s[i]  BY <5>1, ConcatEmptySeq
          <6> QED  BY <5>1, <5>2, <5>3, <6>1, <6>2
        <5>4. CASE i # 1
          <6>1. i - 1 \in 1..Len(t)  BY <5>4, <2>1
          <6> QED  BY <5>1, <5>2, <5>4, <6>1
        <5> QED  BY <5>3, <5>4
      <4>2. g0 = G(g0)
        <5> HIDE DEF g0
        <5>1. g0 = [i \in 1..Len(t) |-> g0[i]]  BY DEF g0
        <5> QED  BY <4>1, <5>1
      <4> HIDE DEF g0, G
      <4> QED  BY <4>2
    <3>3. c = G(c)  BY <3>2
    <3> HIDE DEF c
    <3> DEFINE T == {i \in Nat : i \in 1..n => c[i] = f[i]}
    <3>4. 0 \in T  OBVIOUS
    <3>5. ASSUME NEW i \in Nat, i \in T PROVE i + 1 \in T
      <4> SUFFICES ASSUME i + 1 \in 1..n PROVE c[i + 1] = f[i + 1]  OBVIOUS
      <4>1. /\ i + 1 \in 1..Len(t) /\ i + 1 \in 1..Len(s) /\ (i + 1) - 1 = i
            /\ t[i + 1] = s[i + 1] /\ s[i + 1] \in Seq(Lines)
        BY <1>0, <2>1
      <4>2. c[i + 1] = IF i + 1 = 1 THEN t[i + 1] ELSE c[i] \o t[i + 1]
        BY <3>3, <4>1
      <4>3. f[i + 1] = f[i] \o s[i + 1]  BY <1>5, <4>1
      <4>4. CASE i = 0
        <5>1. <<>> \o s[i + 1] = s[i + 1]  BY <4>1, ConcatEmptySeq
        <5>2. c[i + 1] = s[i + 1]  BY <4>1, <4>2, <4>4
        <5>3. f[i + 1] = <<>> \o s[i + 1]  BY <4>3, <4>4, <1>5
        <5> QED  BY <5>1, <5>2, <5>3
      <4>5. CASE i # 0
        <5>1. c[i] = f[i]  BY <3>5, <4>5, <4>1, <2>1
        <5>2. i + 1 # 1  BY <4>5
        <5>3. c[i + 1] = c[i] \o s[i + 1]  BY <4>1, <4>2, <5>2
        <5> QED  BY <4>3, <5>1, <5>3
      <4> QED  BY <4>4, <4>5
    <3>6. Nat \subseteq T  BY <3>4, <3>5, NatSets
    <3>7. n \in Nat /\ n \in 1..n  BY <1>0, <2>3
    <3> QED  BY <2>1, <3>1, <3>6, <3>7 DEF t
  <2> QED  BY <2>2, <2>3
<1> HIDE DEF E, S
<1> QED  BY <1>5, <1>6, <1>7

LEMMA Joined ==
  ASSUME NEW a \in Seq(Lines), NEW b \in Seq(Lines)
  PROVE  /\ Len(a \o b) = Len(a) + Len(b)
         /\ \A i \in 1..Len(b) : (a \o b)[Len(a) + i] = b[i]
         /\ \A i \in 1..Len(a) : (a \o b)[i] = a[i]
<1>1. Len(a) \in Nat /\ Len(b) \in Nat  BY LenProperties
<1>2. \A i \in 1..Len(a) + Len(b) : (a \o b)[i] = IF i <= Len(a) THEN a[i] ELSE b[i - Len(a)]
  BY ConcatProperties
<1>3. ASSUME NEW i \in 1..Len(b) PROVE (a \o b)[Len(a) + i] = b[i]
  <2>1. Len(a) + i \in 1..Len(a) + Len(b) /\ ~(Len(a) + i <= Len(a))  BY <1>1
  <2>2. (Len(a) + i) - Len(a) = i  BY <1>1
  <2> QED  BY <1>2, <2>1, <2>2
<1>4. \A i \in 1..Len(a) : (a \o b)[i] = a[i]  BY <1>1, <1>2
<1> QED  BY <1>3, <1>4, ConcatProperties

\* A request stands where those before it end.
LEMMA Framing ==
  ASSUME NEW s \in Seq(Seq(Lines))
  PROVE  /\ FlattenSeq(s) \in Seq(Lines)
         /\ Off(s, 0) = 0 /\ Off(s, Len(s)) = Len(FlattenSeq(s))
         /\ \A n \in 1..Len(s) :
              /\ Off(s, n - 1) \in Nat /\ Off(s, n) = Off(s, n - 1) + Len(s[n])
              /\ Off(s, n) <= Len(FlattenSeq(s))
              /\ \A i \in 1..Len(s[n]) : FlattenSeq(s)[Off(s, n - 1) + i] = s[n][i]
<1>0. Len(s) \in Nat /\ \A i \in 1..Len(s) : s[i] \in Seq(Lines) /\ Len(s[i]) \in Nat
  BY LenProperties, ElementOfSeq
<1>1. PICK f : /\ f[0] = <<>>
               /\ \A i \in 1..Len(s) : f[i] = f[i - 1] \o s[i]
               /\ \A i \in 0..Len(s) : f[i] \in Seq(Lines)
               /\ \A n \in 0..Len(s) : FlattenSeq(SubSeq(s, 1, n)) = f[n]
  BY FlattenSteps
<1>2. \A n \in 0..Len(s) : Off(s, n) = Len(f[n]) /\ Len(f[n]) \in Nat
  BY <1>1, LenProperties DEF Off
<1>3. FlattenSeq(s) = f[Len(s)]
  <2>1. SubSeq(s, 1, Len(s)) = s  BY SubSeqFull
  <2>2. Len(s) \in 0..Len(s)  BY <1>0
  <2> QED  BY <1>1, <2>1, <2>2
<1>4. ASSUME NEW n \in 1..Len(s)
      PROVE  /\ Len(f[n]) = Len(f[n - 1]) + Len(s[n])
             /\ \A i \in 1..Len(s[n]) : f[n][Len(f[n - 1]) + i] = s[n][i]
             /\ \A i \in 1..Len(f[n - 1]) : f[n][i] = f[n - 1][i]
  <2>1. n - 1 \in 0..Len(s)  BY <1>0
  <2>2. PICK a : a = f[n - 1]  OBVIOUS
  <2>3. a \in Seq(Lines) /\ s[n] \in Seq(Lines)  BY <1>0, <1>1, <2>1, <2>2
  <2>4. f[n] = a \o s[n]  BY <1>1, <2>2
  <2>5. /\ Len(a \o s[n]) = Len(a) + Len(s[n])
        /\ \A i \in 1..Len(s[n]) : (a \o s[n])[Len(a) + i] = s[n][i]
        /\ \A i \in 1..Len(a) : (a \o s[n])[i] = a[i]
    BY <2>3, Joined
  <2> QED  BY <2>2, <2>4, <2>5
<1>5. ASSUME NEW n \in 0..Len(s)
      PROVE  /\ Len(f[n]) <= Len(f[Len(s)])
             /\ \A i \in 1..Len(f[n]) : f[Len(s)][i] = f[n][i]
  <2> DEFINE P(m) == /\ Len(f[n]) <= Len(f[m])
                     /\ \A i \in 1..Len(f[n]) : f[m][i] = f[n][i]
             T == {k \in Nat : \A m \in n..Len(s) : m = n + k => P(m)}
  <2>1. 0 \in T
    <3>1. P(n)  BY <1>2
    <3> HIDE DEF P
    <3> QED  BY <3>1
  <2>2. ASSUME NEW k \in Nat, k \in T PROVE k + 1 \in T
    <3> SUFFICES ASSUME NEW m \in n..Len(s), m = n + (k + 1) PROVE P(m)  OBVIOUS
    <3>0. PICK l : l = m - 1  OBVIOUS
    <3>1. l \in n..Len(s) /\ l = n + k /\ m \in 1..Len(s) /\ l \in 0..Len(s) /\ m \in 0..Len(s)
      BY <1>0, <3>0
    <3>2. P(l)
      <4> HIDE DEF P
      <4> QED  BY <2>2, <3>1
    <3>3. /\ Len(f[m]) = Len(f[l]) + Len(s[m])
          /\ \A i \in 1..Len(f[l]) : f[m][i] = f[l][i]
      <4>1. m \in 1..Len(s)  BY <3>1
      <4> QED  BY <1>4, <3>0, <4>1
    <3>4. Len(f[n]) \in Nat /\ Len(f[l]) \in Nat /\ Len(f[m]) \in Nat /\ Len(s[m]) \in Nat
      BY <1>0, <1>2, <3>1
    <3>5. Len(f[n]) <= Len(f[m])
      <4>1. Len(f[n]) <= Len(f[l])  BY <3>2
      <4>2. Len(f[m]) = Len(f[l]) + Len(s[m])  BY <3>3
      <4>3. \A x, y, z, w \in Nat : x <= y /\ z = y + w => x <= z  OBVIOUS
      <4> QED  BY <3>4, <4>1, <4>2, <4>3, Zenon
    <3>6. \A i \in 1..Len(f[n]) : i \in 1..Len(f[l])  BY <3>2, <3>4
    <3> QED  BY <3>2, <3>3, <3>5, <3>6
  <2>3. Nat \subseteq T
    <3> HIDE DEF P
    <3> QED  BY <2>1, <2>2, NatSets
  <2>4. PICK k \in Nat : Len(s) = n + k
    <3>1. Len(s) - n \in Nat /\ Len(s) = n + (Len(s) - n)  BY <1>0
    <3> QED  BY <3>1
  <2>5. P(Len(s))
    <3> HIDE DEF P
    <3>1. k \in T /\ Len(s) \in n..Len(s)  BY <2>3, <1>0
    <3> QED  BY <2>4, <3>1
  <2> QED  BY <2>5
<1>6. ASSUME NEW n \in 1..Len(s)
      PROVE  /\ Off(s, n - 1) \in Nat /\ Off(s, n) = Off(s, n - 1) + Len(s[n])
             /\ Off(s, n) <= Len(FlattenSeq(s))
             /\ \A i \in 1..Len(s[n]) : FlattenSeq(s)[Off(s, n - 1) + i] = s[n][i]
  <2>1. /\ n \in 0..Len(s) /\ n - 1 \in 0..Len(s)
        /\ Off(s, n) = Len(f[n]) /\ Off(s, n - 1) = Len(f[n - 1])
        /\ Len(f[n]) \in Nat /\ Len(f[n - 1]) \in Nat /\ Len(s[n]) \in Nat
    BY <1>0, <1>2
  <2>2. ASSUME NEW i \in 1..Len(s[n])
        PROVE  FlattenSeq(s)[Off(s, n - 1) + i] = s[n][i]
    <3>0. PICK j : j = Off(s, n - 1) + i  OBVIOUS
    <3>1. j \in 1..Len(f[n])
      <4>1. Len(f[n]) = Off(s, n - 1) + Len(s[n])  BY <1>4, <2>1
      <4>2. Off(s, n - 1) \in Nat /\ Len(s[n]) \in Nat  BY <2>1
      <4> QED  BY <4>1, <4>2, <3>0
    <3>2. FlattenSeq(s)[j] = f[n][j]  BY <1>3, <1>5, <2>1, <3>1
    <3>3. f[n][j] = s[n][i]  BY <1>4, <2>1, <3>0
    <3> QED  BY <3>0, <3>2, <3>3
  <2>3. Off(s, n) = Off(s, n - 1) + Len(s[n])  BY <1>4, <2>1
  <2>4. Off(s, n) <= Len(FlattenSeq(s))  BY <1>3, <1>5, <2>1
  <2> QED  BY <2>1, <2>2, <2>3, <2>4
<1>7. Off(s, 0) = 0
  <2>1. Len(<<>>) = 0  OBVIOUS
  <2> QED  BY <1>0, <1>1, <1>2, <2>1
<1>8. Off(s, Len(s)) = Len(FlattenSeq(s)) /\ FlattenSeq(s) \in Seq(Lines)
  BY <1>0, <1>1, <1>2, <1>3
<1> QED  BY <1>6, <1>7, <1>8

------------------------------------------------------------------------------
(* What parse_head makes of a buffer.                                       *)

LEMMA HeadEnds ==
  ASSUME NEW buf \in Seq(Lines)
  PROVE  /\ HeadEnd(buf) \in Nat /\ Len(buf) \in Nat
         /\ HeadEnd(buf) = 0 => \A i \in 2..Len(buf) : buf[i].kind # "blank"
         /\ HeadEnd(buf) # 0 =>
              /\ HeadEnd(buf) \in 2..Len(buf) /\ buf[HeadEnd(buf)].kind = "blank"
              /\ \A i \in 2..HeadEnd(buf) - 1 : buf[i].kind # "blank"
<1> DEFINE ends == {i \in 2..Len(buf) : buf[i].kind = "blank"}
<1>0. Len(buf) \in Nat  BY LenProperties
<1>1. CASE ends = {}
  <2>1. HeadEnd(buf) = 0  BY <1>1 DEF HeadEnd
  <2> QED  BY <1>0, <1>1, <2>1
<1>2. CASE ends # {}
  <2>1. HeadEnd(buf) = CHOOSE i \in ends : \A j \in ends : i <= j
    BY <1>2 DEF HeadEnd
  <2>2. \E i \in ends : \A j \in ends : i <= j
    <3>1. ends \in SUBSET Nat  BY <1>0
    <3> HIDE DEF ends
    <3> QED  BY <1>2, <3>1, Smallest
  <2>3. HeadEnd(buf) \in ends /\ \A j \in ends : HeadEnd(buf) <= j  BY <2>1, <2>2
  <2>4. HeadEnd(buf) \in 2..Len(buf) /\ buf[HeadEnd(buf)].kind = "blank"  BY <2>3
  <2>5. ASSUME NEW i \in 2..HeadEnd(buf) - 1, buf[i].kind = "blank" PROVE FALSE
    <3>1. i \in ends /\ ~(HeadEnd(buf) <= i)  BY <1>0, <2>4, <2>5
    <3> QED  BY <2>3, <3>1
  <2> QED  BY <1>0, <2>4, <2>5
<1> QED  BY <1>1, <1>2

LEMMA HeadEndIs ==
  ASSUME NEW buf \in Seq(Lines), NEW e \in 2..Len(buf), buf[e].kind = "blank",
         \A i \in 2..e - 1 : buf[i].kind # "blank"
  PROVE  HeadEnd(buf) = e
<1>1. Len(buf) \in Nat  BY LenProperties
<1>2. HeadEnd(buf) # 0  BY HeadEnds
<1>3. HeadEnd(buf) \in 2..Len(buf) /\ buf[HeadEnd(buf)].kind = "blank"  BY <1>2, HeadEnds
<1>4. ~(HeadEnd(buf) < e)  BY <1>1, <1>3
<1>5. ~(e < HeadEnd(buf))
  <2> SUFFICES ASSUME e < HeadEnd(buf) PROVE FALSE  OBVIOUS
  <2>1. e \in 2..HeadEnd(buf) - 1  BY <1>1, <1>3
  <2> QED  BY <1>2, <2>1, HeadEnds
<1> QED  BY <1>1, <1>3, <1>4, <1>5

\* The lines Verdict calls wrong.
WrongLine(buf, i) ==
  IF i = 1 THEN buf[i].kind # "request"
  ELSE buf[i].kind \in {"request", "garbage", "chunked", "blank", "binary"}

IsLength(buf, i) == buf[i].kind = "contentLength"

Why(buf, w) == IF w > 1 /\ buf[w].kind = "chunked" THEN "unsupported" ELSE "malformed"

\* What the loop has found when it has looked at the first n lines: the first wrong line
\* has decided, or there is none and the last Content-Length counts.
Scanned(buf, n, head) ==
  /\ (\A i \in 1..n : ~WrongLine(buf, i)) =>
       /\ head.result = "ok" /\ head.len = HeadEnd(buf)
       /\ head.keepAlive \in BOOLEAN /\ head.contentLength \in Nat
       /\ (\A i \in 2..n : ~IsLength(buf, i)) => head.contentLength = 0
       /\ \A i \in 2..n : IsLength(buf, i) /\ (\A j \in i + 1..n : ~IsLength(buf, j)) =>
            head.contentLength = buf[i].arg
  /\ \A w \in 1..n : WrongLine(buf, w) /\ (\A i \in 1..w - 1 : ~WrongLine(buf, i)) =>
       head = Failed(Why(buf, w))

HeadType == [result : {"ok", "malformed", "unsupported"}, keepAlive : BOOLEAN,
             contentLength : Nat, len : Nat]

LEMMA ScanFirst ==
  ASSUME NEW buf \in Seq(Lines), Len(buf) > 0
  PROVE  Scanned(buf, 1, RequestLine(buf[1], HeadEnd(buf)))
<1>1. CASE WrongLine(buf, 1)
  <2>1. RequestLine(buf[1], HeadEnd(buf)) = Failed("malformed")
    BY <1>1 DEF WrongLine, RequestLine
  <2>2. Why(buf, 1) = "malformed"  BY DEF Why
  <2>3. \A w \in 1..1 : w = 1  OBVIOUS
  <2>4. 1 \in 1..1  OBVIOUS
  <2> QED  BY <1>1, <2>1, <2>2, <2>3, <2>4 DEF Scanned
<1>2. CASE ~WrongLine(buf, 1)
  <2>1. RequestLine(buf[1], HeadEnd(buf)) = Parsed("ok", buf[1].arg = 1, 0, HeadEnd(buf))
    BY <1>2 DEF WrongLine, RequestLine
  <2>2. \A w \in 1..1 : w = 1  OBVIOUS
  <2>3. 2..1 = {}  OBVIOUS
  <2> QED  BY <1>2, <2>1, <2>2, <2>3 DEF Scanned, Parsed
<1> QED  BY <1>1, <1>2

LEMMA ScanNext ==
  ASSUME NEW buf \in Seq(Lines), NEW n \in Nat, 1 <= n, n < Len(buf),
         NEW head \in HeadType,
         Scanned(buf, n, head)
  PROVE  /\ Scanned(buf, n + 1, Header(head, buf[n + 1]))
         /\ Header(head, buf[n + 1]) \in HeadType
<1> DEFINE line == buf[n + 1]
           next == Header(head, line)
<1>0. Len(buf) \in Nat /\ n + 1 \in 1..Len(buf)  BY LenProperties
<1>1. line \in Lines  BY <1>0, ElementOfSeq
<1>2. line.kind \in Kinds /\ line.arg \in Nat  BY <1>1 DEF Lines
<1> HIDE DEF line
<1>3. next \in HeadType
  <2>1. Failed("unsupported") \in HeadType /\ Failed("malformed") \in HeadType
    BY DEF Failed, Parsed, HeadType
  <2>2. [head EXCEPT !.contentLength = line.arg] \in HeadType  BY <1>2 DEF HeadType
  <2>3. [head EXCEPT !.keepAlive = (line.kind = "keepAlive")] \in HeadType  BY DEF HeadType
  <2>4. head \in HeadType  OBVIOUS
  <2>5. next = head \/ next = [head EXCEPT !.contentLength = line.arg]
        \/ next = Failed("unsupported") \/ next = Failed("malformed")
        \/ next = [head EXCEPT !.keepAlive = (line.kind = "keepAlive")]
    <3>1. CASE head.result # "ok"  BY <3>1 DEF Header
    <3>2. CASE head.result = "ok" /\ line.kind = "contentLength"  BY <3>2 DEF Header
    <3>3. CASE head.result = "ok" /\ line.kind = "chunked"  BY <3>3 DEF Header
    <3>4. CASE head.result = "ok" /\ line.kind \in {"close", "keepAlive"}
      BY <3>4 DEF Header
    <3>5. CASE head.result = "ok" /\ line.kind = "header"  BY <3>5 DEF Header
    <3>6. CASE head.result = "ok" /\ line.kind \in {"blank", "request", "garbage", "binary"}
      BY <3>6 DEF Header
    <3> QED  BY <1>2, <3>1, <3>2, <3>3, <3>4, <3>5, <3>6 DEF Kinds
  <2> HIDE DEF next
  <2> QED  BY <2>1, <2>2, <2>3, <2>4, <2>5
<1>4. CASE \E w \in 1..n : WrongLine(buf, w)
  <2>1. PICK w \in 1..n : WrongLine(buf, w) /\ \A i \in 1..w - 1 : ~WrongLine(buf, i)
    <3> DEFINE W == {w \in 1..n : WrongLine(buf, w)}
    <3>1. W \in SUBSET Nat /\ W # {}  BY <1>4
    <3>2. PICK w \in W : \A v \in W : w <= v  BY <3>1, Smallest
    <3>3. ASSUME NEW i \in 1..w - 1, WrongLine(buf, i) PROVE FALSE
      <4>1. i \in W /\ ~(w <= i)  BY <3>2, <3>3
      <4> QED  BY <3>2, <4>1
    <3> QED  BY <3>2, <3>3
  <2>2. head = Failed(Why(buf, w))  BY <2>1 DEF Scanned
  <2>3. head.result # "ok"  BY <2>2 DEF Failed, Parsed, Why
  <2>4. next = head  BY <2>3 DEF Header
  <2>5. ~\A i \in 1..n + 1 : ~WrongLine(buf, i)  BY <2>1
  <2>6. ASSUME NEW v \in 1..n + 1, WrongLine(buf, v), \A i \in 1..v - 1 : ~WrongLine(buf, i)
        PROVE  v = w
    <3>1. ~(w < v)
      <4> SUFFICES ASSUME w < v PROVE FALSE  OBVIOUS
      <4>1. w \in 1..v - 1  OBVIOUS
      <4> QED  BY <2>1, <2>6, <4>1
    <3>2. ~(v < w)
      <4> SUFFICES ASSUME v < w PROVE FALSE  OBVIOUS
      <4>1. v \in 1..w - 1  OBVIOUS
      <4> QED  BY <2>1, <2>6, <4>1
    <3> QED  BY <3>1, <3>2
  <2> QED  BY <1>3, <2>2, <2>4, <2>5, <2>6 DEF Scanned, line
<1>5. CASE \A i \in 1..n : ~WrongLine(buf, i)
  <2>1. /\ head.result = "ok" /\ head.len = HeadEnd(buf)
        /\ (\A i \in 2..n : ~IsLength(buf, i)) => head.contentLength = 0
        /\ \A i \in 2..n : IsLength(buf, i) /\ (\A j \in i + 1..n : ~IsLength(buf, j)) =>
             head.contentLength = buf[i].arg
    BY <1>5 DEF Scanned
  <2>2. CASE WrongLine(buf, n + 1)
    <3>1. line.kind \in {"request", "garbage", "chunked", "blank", "binary"}
      BY <2>2 DEF WrongLine, line
    <3>2. Why(buf, n + 1) = IF line.kind = "chunked" THEN "unsupported" ELSE "malformed"
      BY DEF Why, line
    <3>3. next = Failed(Why(buf, n + 1))  BY <2>1, <3>1, <3>2 DEF Header
    <3>4. n + 1 \in 1..n + 1  OBVIOUS
    <3>5. ASSUME NEW v \in 1..n + 1, WrongLine(buf, v) PROVE v = n + 1
      BY <1>5, <3>5
    <3> QED  BY <1>3, <2>2, <3>3, <3>4, <3>5 DEF Scanned, line
  <2>3. CASE ~WrongLine(buf, n + 1)
    <3>1. line.kind \in {"contentLength", "close", "keepAlive", "header"}
      BY <1>2, <2>3 DEF WrongLine, Kinds, line
    <3>2. \A v \in 1..n + 1 : ~WrongLine(buf, v)  BY <1>5, <2>3
    <3>3. next.result = "ok" /\ next.len = HeadEnd(buf)  BY <2>1, <3>1 DEF Header
    <3>4. CASE IsLength(buf, n + 1)
      <4>1. next.contentLength = line.arg
        BY <2>1, <3>4 DEF Header, IsLength, HeadType, line
      <4>2. n + 1 \in 2..n + 1  OBVIOUS
      <4>3. ASSUME NEW i \in 2..n + 1, \A j \in i + 1..n + 1 : ~IsLength(buf, j)
            PROVE  i = n + 1
        <5> SUFFICES ASSUME i # n + 1 PROVE FALSE  OBVIOUS
        <5>1. n + 1 \in i + 1..n + 1  OBVIOUS
        <5> QED  BY <3>4, <4>3, <5>1
      <4>4. next.keepAlive \in BOOLEAN /\ next.contentLength \in Nat  BY <1>3 DEF HeadType
      <4> QED  BY <1>3, <3>2, <3>3, <3>4, <4>1, <4>2, <4>3, <4>4 DEF Scanned, line
    <3>5. CASE ~IsLength(buf, n + 1)
      <4>1. next.contentLength = head.contentLength
        BY <2>1, <3>1, <3>5 DEF Header, IsLength, HeadType, line
      <4>2. (\A i \in 2..n + 1 : ~IsLength(buf, i)) => next.contentLength = 0
        <5> SUFFICES ASSUME \A i \in 2..n + 1 : ~IsLength(buf, i)
                     PROVE  next.contentLength = 0
          OBVIOUS
        <5>1. \A i \in 2..n : i \in 2..n + 1  OBVIOUS
        <5> QED  BY <2>1, <4>1, <5>1
      <4>3. ASSUME NEW i \in 2..n + 1, IsLength(buf, i),
                   \A j \in i + 1..n + 1 : ~IsLength(buf, j)
            PROVE  next.contentLength = buf[i].arg
        <5>1. i # n + 1  BY <3>5, <4>3
        <5>2. i \in 2..n /\ \A j \in i + 1..n : j \in i + 1..n + 1  BY <5>1
        <5> QED  BY <2>1, <4>1, <4>3, <5>2
      <4>4. next.keepAlive \in BOOLEAN /\ next.contentLength \in Nat  BY <1>3 DEF HeadType
      <4> QED  BY <1>3, <3>2, <3>3, <4>2, <4>3, <4>4 DEF Scanned, line
    <3> QED  BY <3>4, <3>5
  <2> QED  BY <2>2, <2>3
<1> QED  BY <1>4, <1>5

LEMMA ScanHead ==
  ASSUME NEW buf \in Seq(Lines), HeadEnd(buf) # 0, HeadEnd(buf) <= MaxHead,
         ~NotText(buf, HeadEnd(buf))
  PROVE  Scanned(buf, HeadEnd(buf) - 1, ParseHead(buf))
<1> DEFINE end == HeadEnd(buf)
           s == SubSeq(buf, 2, end - 1)
           b == RequestLine(buf[1], end)
<1>1. end \in Nat /\ Len(buf) \in Nat /\ end \in 2..Len(buf)  BY HeadEnds
<1>2. s \in Seq(Lines) /\ Len(s) = end - 2 /\ \A i \in 1..end - 2 : s[i] = buf[i + 1]
  <2>1. \A i \in 2..end - 1 : buf[i] \in Lines  BY <1>1, ElementOfSeq
  <2>2. 2 \in Int /\ end - 1 \in Int  BY <1>1
  <2>3. /\ SubSeq(buf, 2, end - 1) \in Seq(Lines)
        /\ Len(SubSeq(buf, 2, end - 1)) = IF 2 <= end - 1 THEN (end - 1) - 2 + 1 ELSE 0
        /\ \A i \in 1..(end - 1) - 2 + 1 : SubSeq(buf, 2, end - 1)[i] = buf[2 + i - 1]
    BY <2>1, <2>2, SubSeqProperties
  <2>4. (IF 2 <= end - 1 THEN (end - 1) - 2 + 1 ELSE 0) = end - 2  BY <1>1
  <2>5. (end - 1) - 2 + 1 = end - 2 /\ \A i \in 1..end - 2 : 2 + i - 1 = i + 1  BY <1>1
  <2> QED  BY <2>3, <2>4, <2>5
<1>3. ParseHead(buf) = FoldLeft(Header, b, s)
  <2>1. ~TooLarge(buf, end)  BY <1>1, HttpAssumption DEF TooLarge
  <2> QED  BY <2>1 DEF ParseHead
<1> HIDE DEF s
<1>4. PICK h : /\ h[0] = b
               /\ \A i \in 1..Len(s) : h[i] = Header(h[i - 1], s[i])
               /\ FoldLeft(Header, b, s) = h[Len(s)]
  BY <1>2, FoldSteps
<1> DEFINE S == {n \in Nat : n <= end - 2 => h[n] \in HeadType /\ Scanned(buf, n + 1, h[n])}
<1>5. 0 \in S
  <2>1. Scanned(buf, 1, b)  BY <1>1, ScanFirst
  <2>2. b \in HeadType
    <3>1. end \in Nat  BY <1>1
    <3> HIDE DEF end
    <3>2. \A k \in BOOLEAN : Parsed("ok", k, 0, end) \in HeadType  BY <3>1 DEF Parsed, HeadType
    <3>3. Failed("malformed") \in HeadType  BY DEF Failed, Parsed, HeadType
    <3>4. (buf[1].arg = 1) \in BOOLEAN  OBVIOUS
    <3>5. Parsed("ok", buf[1].arg = 1, 0, end) \in HeadType
      BY <3>2, <3>4
    <3> QED  BY <3>3, <3>5 DEF RequestLine
  <2> HIDE DEF b
  <2> QED  BY <1>4, <2>1, <2>2
<1>6. ASSUME NEW n \in Nat, n \in S PROVE n + 1 \in S
  <2> SUFFICES ASSUME n + 1 <= end - 2
               PROVE  h[n + 1] \in HeadType /\ Scanned(buf, (n + 1) + 1, h[n + 1])
    OBVIOUS
  <2>1. h[n] \in HeadType /\ Scanned(buf, n + 1, h[n])  BY <1>1, <1>6
  <2>2. n + 1 \in 1..Len(s) /\ (n + 1) - 1 = n /\ s[n + 1] = buf[(n + 1) + 1]
    BY <1>1, <1>2
  <2>3. h[n + 1] = Header(h[n], buf[(n + 1) + 1])  BY <1>4, <2>2
  <2>4. n + 1 \in Nat /\ 1 <= n + 1 /\ n + 1 < Len(buf)  BY <1>1
  <2> QED  BY <2>1, <2>3, <2>4, ScanNext
<1>7. Nat \subseteq S  BY <1>5, <1>6, NatSets
<1>8. end - 2 \in Nat /\ (end - 2) + 1 = end - 1  BY <1>1
<1>9. Scanned(buf, (end - 2) + 1, h[end - 2])  BY <1>7, <1>8
<1> QED  BY <1>2, <1>3, <1>4, <1>8, <1>9

\* The first of some wrong lines.
LEMMA FirstWrong ==
  ASSUME NEW buf, NEW n \in Nat, \E i \in 1..n : WrongLine(buf, i)
  PROVE  \E w \in 1..n : WrongLine(buf, w) /\ \A i \in 1..w - 1 : ~WrongLine(buf, i)
<1> DEFINE W == {w \in 1..n : WrongLine(buf, w)}
<1>1. W \in SUBSET Nat /\ W # {}  OBVIOUS
<1>2. PICK w \in W : \A v \in W : w <= v  BY <1>1, Smallest
<1>3. ASSUME NEW i \in 1..w - 1, WrongLine(buf, i) PROVE FALSE
  <2>1. i \in W /\ ~(w <= i)  BY <1>2, <1>3
  <2> QED  BY <1>2, <2>1
<1> QED  BY <1>2, <1>3

\* Whatever the buffer holds, what the head says is in range.
LEMMA ParseShape ==
  ASSUME NEW buf \in Seq(Lines)
  PROVE  LET head == ParseHead(buf) IN
         /\ head.result \in {"ok", "incomplete", "headTooLarge", "malformed", "unsupported"}
         /\ head.result = "ok" =>
              /\ head.len = HeadEnd(buf) /\ head.len \in 2..MaxHead /\ head.len <= Len(buf)
              /\ head.contentLength \in Nat /\ head.keepAlive \in BOOLEAN
         /\ head.result = "incomplete" <=> HeadEnd(buf) = 0 /\ Len(buf) <= MaxHead
         /\ head.result = "headTooLarge" <=> TooLarge(buf, HeadEnd(buf))
<1> DEFINE head == ParseHead(buf)
<1>0. HeadEnd(buf) \in Nat /\ Len(buf) \in Nat /\ MaxHead \in Nat
  BY HeadEnds, HttpAssumption
<1>1. CASE TooLarge(buf, HeadEnd(buf))
  <2>1. head.result = "headTooLarge"  BY <1>1 DEF ParseHead, Failed, Parsed
  <2>2. ~(HeadEnd(buf) = 0 /\ Len(buf) <= MaxHead)  BY <1>0, <1>1 DEF TooLarge
  <2> HIDE DEF head
  <2> QED  BY <1>1, <2>1, <2>2 DEF head
<1>2. CASE ~TooLarge(buf, HeadEnd(buf)) /\ HeadEnd(buf) = 0
  <2>1. head.result = "incomplete"  BY <1>2 DEF ParseHead, Failed, Parsed
  <2>2. HeadEnd(buf) = 0 /\ Len(buf) <= MaxHead  BY <1>0, <1>2 DEF TooLarge
  <2> HIDE DEF head
  <2> QED  BY <1>2, <2>1, <2>2 DEF head
<1>3. CASE ~TooLarge(buf, HeadEnd(buf)) /\ HeadEnd(buf) # 0 /\ ~NotText(buf, HeadEnd(buf))
  <2>1. HeadEnd(buf) <= MaxHead /\ HeadEnd(buf) \in 2..Len(buf)
    BY <1>0, <1>3, HeadEnds DEF TooLarge
  <2>2. Scanned(buf, HeadEnd(buf) - 1, head)  BY <1>3, <2>1, ScanHead
  <2>3. CASE \A i \in 1..HeadEnd(buf) - 1 : ~WrongLine(buf, i)
    <3>1. /\ head.result = "ok" /\ head.len = HeadEnd(buf)
          /\ head.keepAlive \in BOOLEAN /\ head.contentLength \in Nat
      BY <2>2, <2>3 DEF Scanned
    <3> HIDE DEF head
    <3> QED  BY <1>0, <1>3, <2>1, <3>1 DEF head
  <2>4. CASE \E i \in 1..HeadEnd(buf) - 1 : WrongLine(buf, i)
    <3>1. HeadEnd(buf) - 1 \in Nat  BY <2>1
    <3>2. PICK w \in 1..HeadEnd(buf) - 1 :
            WrongLine(buf, w) /\ \A i \in 1..w - 1 : ~WrongLine(buf, i)
      BY <2>4, <3>1, FirstWrong
    <3>3. head = Failed(Why(buf, w))  BY <2>2, <3>2 DEF Scanned
    <3>4. head.result \in {"malformed", "unsupported"}
      BY <3>3 DEF Failed, Parsed, Why
    <3> HIDE DEF head
    <3> QED  BY <1>3, <3>4 DEF head
  <2> QED  BY <2>3, <2>4
<1>4. CASE ~TooLarge(buf, HeadEnd(buf)) /\ HeadEnd(buf) # 0 /\ NotText(buf, HeadEnd(buf))
  <2>1. head.result = "malformed"  BY <1>4 DEF ParseHead, Failed, Parsed
  <2> HIDE DEF head
  <2> QED  BY <1>4, <2>1 DEF head
<1> QED  BY <1>1, <1>2, <1>3, <1>4

\* The answer of the parser to a whole head is the verdict on the request.
LEMMA ParseVerdict ==
  ASSUME NEW r \in Seq(Lines), HeadEnd(r) # 0
  PROVE  LET head == ParseHead(r) IN
         /\ head.result \in {"ok", "headTooLarge", "malformed", "unsupported"}
         /\ head.result = "ok" =>
              /\ head.contentLength = BodyLength(r)
              /\ Verdict(r) = IF BodyLength(r) > MaxBody THEN 413 ELSE 200
         /\ head.result # "ok" => Verdict(r) = StatusOf(head.result)
<1> DEFINE head == ParseHead(r)
           end == HeadEnd(r)
           wrong == {i \in 1..end - 1 : WrongLine(r, i)}
           lengths == {i \in 2..end - 1 : IsLength(r, i)}
<1>0. end \in Nat /\ Len(r) \in Nat /\ MaxHead \in Nat /\ MaxBody \in Nat /\ end \in 2..Len(r)
  BY HeadEnds, HttpAssumption, TcpConnectionAssumption
<1>1. Verdict(r) =
        CASE end > MaxHead -> 431
          [] end <= MaxHead /\ NotText(r, end) -> 400
          [] end <= MaxHead /\ ~NotText(r, end) /\ wrong # {} ->
               LET first == CHOOSE i \in wrong : \A j \in wrong : i <= j
               IN IF first > 1 /\ r[first].kind = "chunked" THEN 501 ELSE 400
          [] OTHER -> IF BodyLength(r) > MaxBody THEN 413 ELSE 200
  BY DEF Verdict, WrongLine
<1>2. CASE end > MaxHead
  <2>1. TooLarge(r, end)  BY <1>0, <1>2 DEF TooLarge
  <2>2. head.result = "headTooLarge"  BY <2>1, ParseShape
  <2>3. StatusOf("headTooLarge") = 431  BY DEF StatusOf
  <2>4. Verdict(r) = 431
    <3>1. ~(end <= MaxHead)  BY <1>0, <1>2
    <3> HIDE DEF end, wrong
    <3> QED  BY <1>1, <1>2, <3>1
  <2> HIDE DEF head
  <2> QED  BY <2>2, <2>3, <2>4 DEF head
<1>4. CASE end <= MaxHead /\ NotText(r, end)
  <2>1. ~(end > MaxHead) /\ end # 0  BY <1>0, <1>4
  <2>2. ~TooLarge(r, end)  BY <2>1 DEF TooLarge
  <2>3. head.result = "malformed"  BY <1>4, <2>1, <2>2 DEF ParseHead, Failed, Parsed
  <2>4. StatusOf("malformed") = 400  BY DEF StatusOf
  <2>5. Verdict(r) = 400
    <3> HIDE DEF end, wrong
    <3> QED  BY <1>1, <1>4, <2>1
  <2> HIDE DEF head
  <2> QED  BY <2>3, <2>4, <2>5 DEF head
<1>3. CASE end <= MaxHead /\ ~NotText(r, end)
  <2>0. ~(end > MaxHead)  BY <1>0, <1>3
  <2>1. Scanned(r, end - 1, head)  BY <1>3, ScanHead
  <2>2. CASE wrong = {}
    <3>1. \A i \in 1..end - 1 : ~WrongLine(r, i)  BY <2>2
    <3>2. /\ head.result = "ok"
          /\ (\A i \in 2..end - 1 : ~IsLength(r, i)) => head.contentLength = 0
          /\ \A i \in 2..end - 1 :
               IsLength(r, i) /\ (\A j \in i + 1..end - 1 : ~IsLength(r, j)) =>
                 head.contentLength = r[i].arg
      BY <2>1, <3>1 DEF Scanned
    <3>3. Verdict(r) = IF BodyLength(r) > MaxBody THEN 413 ELSE 200
      <4> HIDE DEF end, wrong
      <4> QED  BY <1>1, <1>3, <2>0, <2>2
    <3>4. BodyLength(r) = IF lengths = {} THEN 0
                          ELSE r[CHOOSE i \in lengths : \A j \in lengths : j <= i].arg
      BY DEF BodyLength, IsLength
    <3>5. CASE lengths = {}
      <4>1. \A i \in 2..end - 1 : ~IsLength(r, i)  BY <3>5
      <4> QED  BY <3>2, <3>3, <3>4, <3>5, <4>1
    <3>6. CASE lengths # {}
      <4> DEFINE last == CHOOSE i \in lengths : \A j \in lengths : j <= i
      <4>1. \E i \in lengths : \A j \in lengths : j <= i
        <5>1. lengths \in SUBSET (0..end - 1) /\ end - 1 \in Nat  BY <1>0
        <5> HIDE DEF lengths
        <5> QED  BY <3>6, <5>1, Largest
      <4>2. last \in lengths /\ \A j \in lengths : j <= last  BY <4>1
      <4> HIDE DEF last
      <4>3. last \in 2..end - 1 /\ IsLength(r, last)  BY <4>2
      <4>4. ASSUME NEW j \in last + 1..end - 1, IsLength(r, j) PROVE FALSE
        <5>1. j \in lengths /\ ~(j <= last)  BY <1>0, <4>3, <4>4
        <5> QED  BY <4>2, <5>1
      <4>5. head.contentLength = r[last].arg  BY <3>2, <4>3, <4>4
      <4>6. BodyLength(r) = r[last].arg
        <5> HIDE DEF lengths
        <5> QED  BY <3>4, <3>6 DEF last
      <4> QED  BY <3>2, <3>3, <4>5, <4>6
    <3> QED  BY <3>5, <3>6
  <2>3. CASE wrong # {}
    <3> DEFINE first == CHOOSE i \in wrong : \A j \in wrong : i <= j
    <3>1. \E i \in wrong : \A j \in wrong : i <= j
      <4>1. wrong \in SUBSET Nat  BY <1>0
      <4> HIDE DEF wrong
      <4> QED  BY <2>3, <4>1, Smallest
    <3>2. first \in wrong /\ \A j \in wrong : first <= j  BY <3>1
    <3>3. Verdict(r) = IF first > 1 /\ r[first].kind = "chunked" THEN 501 ELSE 400
      <4> HIDE DEF end, wrong
      <4> QED  BY <1>1, <1>3, <2>0, <2>3
    <3> HIDE DEF first
    <3>4. first \in 1..end - 1 /\ WrongLine(r, first)  BY <3>2
    <3>5. ASSUME NEW i \in 1..first - 1, WrongLine(r, i) PROVE FALSE
      <4>1. i \in wrong /\ ~(first <= i)  BY <1>0, <3>4, <3>5
      <4> QED  BY <3>2, <4>1
    <3>6. head = Failed(Why(r, first))  BY <2>1, <3>4, <3>5 DEF Scanned
    <3>7. head.result = Why(r, first)  BY <3>6 DEF Failed, Parsed
    <3>8. StatusOf("unsupported") = 501 /\ StatusOf("malformed") = 400  BY DEF StatusOf
    <3> HIDE DEF head
    <3> QED  BY <3>3, <3>7, <3>8 DEF Why, head
  <2> QED  BY <2>2, <2>3
<1> QED  BY <1>0, <1>2, <1>3, <1>4

------------------------------------------------------------------------------
(* The buffer in terms of the requests it holds.                            *)

\* Behind the first n requests, a buffer agrees with the next one as far as both go.
LEMMA BufferLines ==
  ASSUME NEW s \in Seq(Seq(Lines)), NEW n \in 0..Len(s),
         NEW g \in 0..Len(FlattenSeq(s)), Off(s, n) <= g
  PROVE  LET buf == SubSeq(FlattenSeq(s), Off(s, n) + 1, g) IN
         /\ Off(s, n) \in Nat
         /\ buf \in Seq(Lines) /\ Len(buf) = g - Off(s, n)
         /\ n = Len(s) => Len(buf) = 0
         /\ n < Len(s) => \A i \in 1..Len(buf) : i <= Len(s[n + 1]) => buf[i] = s[n + 1][i]
<1> DEFINE all == FlattenSeq(s)
           d == Off(s, n)
           buf == SubSeq(all, d + 1, g)
<1>1. all \in Seq(Lines) /\ Len(all) \in Nat /\ Len(s) \in Nat  BY Framing, LenProperties
<1>2. d \in Nat
  <2>1. CASE n = 0  BY <2>1, Framing
  <2>2. CASE n # 0
    <3>1. n \in 1..Len(s)  BY <1>1, <2>2
    <3>2. Off(s, n - 1) \in Nat /\ d = Off(s, n - 1) + Len(s[n])  BY <3>1, Framing
    <3>3. Len(s[n]) \in Nat  BY <3>1, ElementOfSeq, LenProperties
    <3> QED  BY <3>2, <3>3
  <2> QED  BY <2>1, <2>2
<1>3. d <= g /\ g \in Nat /\ g <= Len(all)  BY <1>1
<1> HIDE DEF d, all
<1>4. buf \in Seq(Lines) /\ Len(buf) = g - d /\ \A i \in 1..g - d : buf[i] = all[d + i]
  <2>1. \A i \in d + 1..g : all[i] \in Lines  BY <1>1, <1>2, <1>3, ElementOfSeq
  <2>2. d + 1 \in Int /\ g \in Int  BY <1>2
  <2>3. /\ SubSeq(all, d + 1, g) \in Seq(Lines)
        /\ Len(SubSeq(all, d + 1, g)) = IF d + 1 <= g THEN g - (d + 1) + 1 ELSE 0
        /\ \A i \in 1..g - (d + 1) + 1 : SubSeq(all, d + 1, g)[i] = all[d + 1 + i - 1]
    BY <2>1, <2>2, SubSeqProperties
  <2>4. (IF d + 1 <= g THEN g - (d + 1) + 1 ELSE 0) = g - d /\ g - (d + 1) + 1 = g - d
    BY <1>2, <1>3
  <2>5. \A i \in 1..g - d : d + 1 + i - 1 = d + i  BY <1>2, <1>3
  <2> QED  BY <2>3, <2>4, <2>5
<1>5. n = Len(s) => g - d = 0
  <2>1. n = Len(s) => d = Len(all)  BY Framing DEF d, all
  <2> QED  BY <1>1, <1>2, <1>3, <2>1
<1>6. ASSUME n < Len(s), NEW i \in 1..Len(buf), i <= Len(s[n + 1])
      PROVE  buf[i] = s[n + 1][i]
  <2>0. PICK m : m = n + 1  OBVIOUS
  <2>1. m \in 1..Len(s) /\ m - 1 = n  BY <1>1, <1>6, <2>0
  <2>2. Len(s[m]) \in Nat  BY <2>1, ElementOfSeq, LenProperties
  <2>3. i \in 1..Len(s[m]) /\ i \in 1..g - d  BY <1>2, <1>3, <1>4, <1>6, <2>0, <2>2
  <2>4. all[d + i] = s[m][i]  BY <2>1, <2>3, Framing DEF d, all
  <2> QED  BY <1>4, <2>0, <2>3, <2>4
<1> QED  BY <1>2, <1>4, <1>5, <1>6 DEF d, all

\* It makes no difference to the parser whether it is called on the request or on a
\* buffer that holds it, and on less than the head it finds no end.
LEMMA BufferHead ==
  ASSUME NEW r \in Seq(Lines), HeadEnd(r) # 0, NEW buf \in Seq(Lines),
         \A i \in 1..Len(buf) : i <= Len(r) => buf[i] = r[i]
  PROVE  /\ Len(buf) < HeadEnd(r) => HeadEnd(buf) = 0
         /\ Len(buf) >= HeadEnd(r) =>
              HeadEnd(buf) = HeadEnd(r) /\ ParseHead(buf) = ParseHead(r)
<1> DEFINE end == HeadEnd(r)
<1>0. /\ end \in 2..Len(r) /\ Len(r) \in Nat /\ Len(buf) \in Nat /\ r[end].kind = "blank"
      /\ \A i \in 2..end - 1 : r[i].kind # "blank"
  BY HeadEnds
<1> HIDE DEF end
<1>1. CASE Len(buf) < end
  <2>1. ASSUME NEW i \in 2..Len(buf) PROVE buf[i].kind # "blank"
    <3>1. i \in 1..Len(buf) /\ i <= Len(r) /\ i \in 2..end - 1  BY <1>0, <1>1
    <3> QED  BY <1>0, <3>1
  <2>2. HeadEnd(buf) = 0  BY <2>1, HeadEnds
  <2>3. ~(Len(buf) >= end)  BY <1>0, <1>1
  <2> QED  BY <2>2, <2>3 DEF end
<1>2. CASE Len(buf) >= end
  <2>1. \A i \in 1..end : buf[i] = r[i]  BY <1>0, <1>2
  <2>2. end \in 2..Len(buf) /\ end \in 1..end /\ 1 \in 1..end  BY <1>0, <1>2
  <2>3. \A i \in 2..end - 1 : i \in 1..end  BY <1>0
  <2>4. HeadEnd(buf) = end  BY <1>0, <2>1, <2>2, <2>3, HeadEndIs
  <2>5. SubSeq(buf, 2, end - 1) = SubSeq(r, 2, end - 1)
    <3> DEFINE a == SubSeq(buf, 2, end - 1)
               b == SubSeq(r, 2, end - 1)
    <3>1. \A i \in 2..end - 1 : buf[i] \in Lines /\ r[i] \in Lines
      BY <1>0, <1>2, ElementOfSeq
    <3>2. 2 \in Int /\ end - 1 \in Int  BY <1>0
    <3>3. /\ a \in Seq(Lines) /\ Len(a) = (IF 2 <= end - 1 THEN (end - 1) - 2 + 1 ELSE 0)
          /\ \A i \in 1..(end - 1) - 2 + 1 : a[i] = buf[2 + i - 1]
      BY <3>1, <3>2, SubSeqProperties
    <3>4. /\ b \in Seq(Lines) /\ Len(b) = (IF 2 <= end - 1 THEN (end - 1) - 2 + 1 ELSE 0)
          /\ \A i \in 1..(end - 1) - 2 + 1 : b[i] = r[2 + i - 1]
      BY <3>1, <3>2, SubSeqProperties
    <3> HIDE DEF a, b
    <3>5. \A i \in 1..(end - 1) - 2 + 1 : 2 + i - 1 \in 1..end  BY <1>0
    <3>6. \A i \in 1..Len(a) : i \in 1..(end - 1) - 2 + 1  BY <1>0, <3>3
    <3>7. \A i \in 1..Len(a) : a[i] = b[i]  BY <2>1, <3>3, <3>4, <3>5, <3>6
    <3>8. a = b  BY <3>3, <3>4, <3>7, SeqEqual
    <3> QED  BY <3>8 DEF a, b
  <2>6. TooLarge(buf, end) <=> TooLarge(r, end)  BY <1>0 DEF TooLarge
  <2>7. buf[1] = r[1] /\ end # 0  BY <1>0, <2>1, <2>2
  <2>10. NotText(buf, end) <=> NotText(r, end)
    <3>1. \A i \in 1..end - 1 : i \in 1..end  BY <1>0
    <3> QED  BY <2>1, <3>1 DEF NotText
  <2>8. ParseHead(buf) = ParseHead(r)
    BY <2>4, <2>5, <2>6, <2>7, <2>10 DEF ParseHead, end
  <2>9. ~(Len(buf) < end)  BY <1>0, <1>2
  <2> QED  BY <2>4, <2>8, <2>9 DEF end
<1> QED  BY <1>0, <1>1, <1>2

------------------------------------------------------------------------------
(* The buffer and the deadline, whatever the client sends.                  *)

\* What the task has in hand at each await: nothing between requests, less than it waits
\* for in a head or a body, and all of the request once that is answered.  The deadline
\* of a request dates from its beginning.
Reading ==
  /\ pc = "idle" => got = drained
  /\ pc = "head" => got - drained <= MaxHead
  /\ pc = "body" => got - drained < total
  /\ pc = "write" => total <= got - drained
  /\ pc \in {"head", "body"} => until = begun + RequestTimeout /\ now <= until

IInv == TypeOK /\ Reading /\ BufferBounded

LEMMA Numbers ==
  /\ MaxHead \in Nat /\ MaxHead > 0 /\ MaxBody \in Nat
  /\ ReadSize \in Nat /\ RequestTimeout \in Nat
BY HttpAssumption, TcpConnectionAssumption

LEMMA Scripts ==
  ASSUME NEW s \in Seq(Requests)
  PROVE  /\ s \in Seq(Seq(Lines)) /\ FlattenSeq(s) \in Seq(Lines)
         /\ Len(FlattenSeq(s)) \in Nat /\ Len(s) \in Nat
         /\ \A n \in 1..Len(s) : s[n] \in Requests /\ s[n] \in Seq(Lines)
<1>1. Requests \subseteq Seq(Lines)  BY TcpConnectionAssumption
<1>2. s \in Seq(Seq(Lines))  BY <1>1, SeqMonotonic
<1>3. FlattenSeq(s) \in Seq(Lines)  BY <1>2, Framing
<1>4. Len(FlattenSeq(s)) \in Nat /\ Len(s) \in Nat  BY <1>3, LenProperties
<1>5. \A n \in 1..Len(s) : s[n] \in Requests /\ s[n] \in Seq(Lines)  BY <1>1, ElementOfSeq
<1> QED  BY <1>2, <1>3, <1>4, <1>5

\* What is in the buffer are lines, as many as have been read and not been drained.
LEMMA Buffers ==
  ASSUME NEW s \in Seq(Lines), NEW to \in 0..Len(s), NEW from \in 0..to
  PROVE  SubSeq(s, from + 1, to) \in Seq(Lines) /\ Len(SubSeq(s, from + 1, to)) = to - from
<1>1. Len(s) \in Nat /\ from \in Nat /\ to \in Nat /\ from <= to  BY LenProperties
<1>2. \A i \in from + 1..to : s[i] \in Lines  BY <1>1, ElementOfSeq
<1>3. from + 1 \in Int /\ to \in Int  BY <1>1
<1>4. /\ SubSeq(s, from + 1, to) \in Seq(Lines)
      /\ Len(SubSeq(s, from + 1, to)) = IF from + 1 <= to THEN to - (from + 1) + 1 ELSE 0
  BY <1>2, <1>3, SubSeqProperties
<1>5. (IF from + 1 <= to THEN to - (from + 1) + 1 ELSE 0) = to - from  BY <1>1
<1> QED  BY <1>4, <1>5

LEMMA InitIInv == Init => IInv
<1> SUFFICES ASSUME Init PROVE IInv  OBVIOUS
<1>1. script \in Seq(Requests)  BY DEF Init, SeqOf
<1>2. Len(Sent) \in Nat  BY <1>1, Scripts DEF Sent
<1>3. TypeOK
  <2>1. got \in 0..Len(Sent) /\ drained \in 0..got  BY <1>2 DEF Init
  <2>2. until \in Nat /\ total \in 0..MaxHead + MaxBody  BY Numbers DEF Init
  <2> QED  BY <1>1, <2>1, <2>2 DEF Init, TypeOK
<1>4. Reading  BY DEF Init, Reading
<1>5. BufferBounded  BY Numbers DEF Init, BufferBounded
<1> QED  BY <1>3, <1>4, <1>5 DEF IInv

LEMMA ProceedIInv ==
  ASSUME TypeOK, Reading, pc \in {"idle", "head", "write"},
         now' = now, flag' = flag, script' = script,
         got' \in 0..Len(Sent), drained' \in 0..got',
         NEW buf \in Seq(Lines), Len(buf) = got' - drained', Proceed(buf)
  PROVE  TypeOK' /\ Reading'
<1> PICK head : head = ParseHead(buf)  OBVIOUS
<1>1. /\ head.result \in {"ok", "incomplete", "headTooLarge", "malformed", "unsupported"}
      /\ head.result = "ok" =>
           /\ head.len \in 2..MaxHead /\ head.contentLength \in Nat
           /\ head.keepAlive \in BOOLEAN
      /\ head.result = "incomplete" => Len(buf) <= MaxHead
  BY ParseShape
<1>2. now' \in Nat /\ flag' \in BOOLEAN /\ script' \in Seq(Requests) /\ Sent' = Sent
  BY DEF TypeOK, Sent
<1>3. got' \in 0..Len(Sent')  BY <1>2
<1>4. got' \in Nat /\ drained' \in Nat
  BY <1>2, Scripts DEF Sent
<1>5. Deadline \in Nat /\ Begun \in Nat /\ Deadline = Begun + RequestTimeout /\ now <= Deadline
  BY Numbers DEF TypeOK, Reading, Deadline, Begun
<1>6. CASE buf = <<>> /\ AwaitRequest
  <2>1. Len(buf) = 0  BY <1>6, EmptySeq
  <2>2. got' = drained'
    <3>1. got' - drained' = 0  BY <2>1
    <3>2. \A x, y \in Nat : x - y = 0 => x = y  OBVIOUS
    <3> QED  BY <1>4, <3>1, <3>2, Zenon
  <2>3. /\ pc' \in {"idle", "ended"} /\ until' \in Nat /\ begun' \in Nat
        /\ total' = total /\ keepAlive' = keepAlive /\ status' = status /\ served' = served
    BY <1>6, Numbers DEF AwaitRequest, End, Stay, TypeOK
  <2>4. TypeOK'  BY <1>2, <1>3, <2>3 DEF TypeOK
  <2>5. Reading'  BY <2>2, <2>3 DEF Reading
  <2> QED  BY <2>4, <2>5
<1>7. CASE head.result = "incomplete" /\ AwaitMore("head") /\ Stay
  <2>1. /\ pc' = "head" /\ until' = Deadline /\ begun' = Begun
        /\ total' = total /\ keepAlive' = keepAlive /\ status' = status /\ served' = served
    BY <1>7 DEF AwaitMore, Stay
  <2>2. got' - drained' <= MaxHead  BY <1>1, <1>7
  <2>3. TypeOK'  BY <1>2, <1>3, <1>5, <2>1 DEF TypeOK
  <2>4. Reading'  BY <1>5, <2>1, <2>2 DEF Reading
  <2> QED  BY <2>3, <2>4
<1>8. CASE \/ head.result \notin {"ok", "incomplete"} /\ Refuse(StatusOf(head.result))
           \/ Refuse(413)
  <2>1. /\ pc' = "refuse" /\ status' \in {0, 200, 400, 408, 413, 431, 501}
        /\ UNCHANGED <<until, total, keepAlive, served, begun>>
    BY <1>1, <1>8 DEF Refuse, StatusOf
  <2>2. TypeOK'  BY <1>2, <1>3, <2>1 DEF TypeOK
  <2>3. Reading'  BY <2>1 DEF Reading
  <2> QED  BY <2>2, <2>3
<1>9. CASE /\ head.result = "ok" /\ ~BodyTooLong(head.contentLength)
           /\ total' = head.len + head.contentLength
           /\ \/ /\ Len(buf) < head.len + head.contentLength
                 /\ AwaitMore("body") /\ keepAlive' = head.keepAlive
                 /\ UNCHANGED <<status, served>>
              \/ Len(buf) >= head.len + head.contentLength /\ Serve(head.keepAlive)
  <2>1. total' \in 0..MaxHead + MaxBody
    <3>1. head.len \in 2..MaxHead /\ head.contentLength \in Nat  BY <1>1, <1>9
    <3>2. ~(head.contentLength > MaxBody)  BY <1>9 DEF BodyTooLong
    <3>3. total' = head.len + head.contentLength  BY <1>9
    <3>4. \A l \in 2..MaxHead : \A n \in Nat :
            ~(n > MaxBody) => l + n \in 0..MaxHead + MaxBody
      BY Numbers
    <3> QED  BY <3>1, <3>2, <3>3, <3>4, Zenon
  <2>2. CASE Len(buf) < total' /\ AwaitMore("body") /\ keepAlive' = head.keepAlive
             /\ UNCHANGED <<status, served>>
    <3>1. pc' = "body" /\ until' = Deadline /\ begun' = Begun  BY <2>2 DEF AwaitMore
    <3>2. keepAlive' \in BOOLEAN /\ status' = status /\ served' = served
      BY <1>1, <1>9, <2>2
    <3>3. TypeOK'  BY <1>2, <1>3, <1>5, <2>1, <3>1, <3>2 DEF TypeOK
    <3>4. Reading'  BY <1>5, <2>2, <3>1 DEF Reading
    <3> QED  BY <3>3, <3>4
  <2>3. CASE Len(buf) >= total' /\ Serve(head.keepAlive)
    <3>1. /\ pc' = "write" /\ status' = 200 /\ served' \in Nat /\ begun' = Begun
          /\ until' = until
      BY <2>3 DEF Serve, TypeOK
    <3>2. keepAlive' \in BOOLEAN
      <4>1. head.keepAlive \in BOOLEAN /\ flag \in BOOLEAN  BY <1>1, <1>9 DEF TypeOK
      <4>2. keepAlive' = (head.keepAlive /\ ~flag)  BY <2>3 DEF Serve
      <4> QED  BY <4>1, <4>2
    <3>3. TypeOK'  BY <1>2, <1>3, <1>5, <2>1, <3>1, <3>2 DEF TypeOK
    <3>4. total' <= got' - drained'
      <4>1. total' \in Nat  BY <2>1, Numbers
      <4> QED  BY <1>4, <2>3, <4>1
    <3>5. Reading'  BY <3>1, <3>4 DEF Reading
    <3> QED  BY <3>3, <3>5
  <2> QED  BY <1>9, <2>2, <2>3
<1> QED  BY <1>6, <1>7, <1>8, <1>9 DEF Proceed

LEMMA NextIInv == IInv /\ [Next]_vars => IInv'
<1> SUFFICES ASSUME IInv, [Next]_vars PROVE IInv'  OBVIOUS
<1>0. TypeOK /\ Reading /\ BufferBounded  BY DEF IInv
<1>1. Sent \in Seq(Lines) /\ Len(Sent) \in Nat /\ got \in Nat /\ drained \in Nat /\ drained <= got
  BY <1>0, Scripts DEF TypeOK, Sent
<1>2. ASSUME ReadHead PROVE IInv'
  <2>1. PICK n \in 1..ReadSize : got + n <= Len(Sent) /\ got' = got + n
    BY <1>2 DEF ReadHead, Arrive
  <2>2. /\ now' = now /\ flag' = flag /\ script' = script /\ drained' = drained
        /\ pc \in {"idle", "head"} /\ Proceed(Buffer(drained, got'))
    BY <1>2 DEF ReadHead, client
  <2>3. n \in Nat /\ got' \in 0..Len(Sent) /\ drained \in 0..got'  BY <1>1, <2>1, Numbers
  <2>4. PICK buf : buf = Buffer(drained, got')  OBVIOUS
  <2>5. buf \in Seq(Lines) /\ Len(buf) = got' - drained
    BY <1>1, <2>3, <2>4, Buffers DEF Buffer
  <2>6. TypeOK' /\ Reading'  BY <1>0, <2>2, <2>3, <2>4, <2>5, ProceedIInv
  <2>7. got - drained <= MaxHead  BY <1>0, <1>1, <2>2, Numbers DEF Reading
  <2>8. BufferBounded'  BY <1>1, <2>1, <2>2, <2>3, <2>7, Numbers DEF BufferBounded
  <2> QED  BY <2>6, <2>8 DEF IInv
<1>3. ASSUME ReadBody PROVE IInv'
  <2>1. PICK n \in 1..ReadSize : got + n <= Len(Sent) /\ got' = got + n
    BY <1>3 DEF ReadBody, Arrive
  <2>2. /\ now' = now /\ flag' = flag /\ script' = script /\ drained' = drained
        /\ pc = "body" /\ Sent' = Sent
    BY <1>3 DEF ReadBody, client, Sent
  <2>3. n \in Nat /\ got' \in 0..Len(Sent) /\ drained \in 0..got'  BY <1>1, <2>1, Numbers
  <2>4. total \in Nat /\ total <= MaxHead + MaxBody /\ got - drained < total
    BY <1>0, <2>2, Numbers DEF TypeOK, Reading
  <2>5. BufferBounded'  BY <1>1, <2>1, <2>2, <2>3, <2>4, Numbers DEF BufferBounded
  <2>6. CASE got' - drained < total /\ AwaitMore("body") /\ Stay
    <3>1. /\ pc' = "body" /\ until' = until /\ begun' = begun /\ total' = total
          /\ keepAlive' = keepAlive /\ status' = status /\ served' = served
      BY <2>2, <2>6 DEF AwaitMore, Stay, Deadline, Begun
    <3>2. TypeOK'  BY <1>0, <2>2, <2>3, <3>1 DEF TypeOK
    <3>3. Reading'  BY <1>0, <2>2, <2>6, <3>1 DEF Reading
    <3> QED  BY <2>5, <3>2, <3>3 DEF IInv
  <2>7. CASE got' - drained >= total /\ Serve(keepAlive) /\ UNCHANGED total
    <3>1. /\ pc' = "write" /\ until' = until /\ begun' = begun /\ total' = total
          /\ status' = 200 /\ served' = served + 1 /\ keepAlive' = (keepAlive /\ ~flag)
      BY <2>2, <2>7 DEF Serve, Begun
    <3>2. keepAlive' \in BOOLEAN  BY <3>1
    <3>3. TypeOK'  BY <1>0, <2>2, <2>3, <3>1, <3>2 DEF TypeOK
    <3>4. total <= got' - drained  BY <2>3, <2>4, <2>7
    <3>5. Reading'  BY <2>2, <3>1, <3>4 DEF Reading
    <3> QED  BY <2>5, <3>3, <3>5 DEF IInv
  <2> QED  BY <1>3, <2>6, <2>7 DEF ReadBody
<1>4. ASSUME TimeOut \/ Eof \/ Broken \/ WriteEnds PROVE IInv'
  <2>1. /\ now' = now /\ flag' = flag /\ script' = script /\ drained' = drained /\ got' = got
        /\ Sent' = Sent
    BY <1>4 DEF TimeOut, Eof, Broken, WriteEnds, client, Sent
  <2>2. /\ pc' \in {"refuse", "ended"} /\ status' \in {status, 400, 408}
        /\ until' = until /\ begun' = begun /\ total' = total
        /\ keepAlive' = keepAlive /\ served' = served
    BY <1>4 DEF TimeOut, Eof, Broken, WriteEnds, End, Refuse, Stay
  <2>3. TypeOK'  BY <1>0, <2>1, <2>2 DEF TypeOK
  <2>4. Reading'  BY <2>2 DEF Reading
  <2>5. BufferBounded'  BY <1>0, <2>1 DEF BufferBounded
  <2> QED  BY <2>3, <2>4, <2>5 DEF IInv
<1>5. ASSUME Written PROVE IInv'
  <2>1. /\ now' = now /\ flag' = flag /\ script' = script /\ got' = got
        /\ pc = "write" /\ drained' = drained + total /\ Proceed(Buffer(drained', got))
    BY <1>5 DEF Written, client, Drain
  <2>2. total \in Nat /\ total <= got - drained
    BY <1>0, <2>1, Numbers DEF TypeOK, Reading
  <2>3. got' \in 0..Len(Sent) /\ drained' \in 0..got' /\ drained' >= drained
    BY <1>0, <1>1, <2>1, <2>2 DEF TypeOK
  <2>4. PICK buf : buf = Buffer(drained', got)  OBVIOUS
  <2>5. buf \in Seq(Lines) /\ Len(buf) = got' - drained'
    BY <1>1, <2>1, <2>3, <2>4, Buffers DEF Buffer
  <2>6. TypeOK' /\ Reading'  BY <1>0, <2>1, <2>3, <2>4, <2>5, ProceedIInv
  <2>7. BufferBounded'  BY <1>0, <1>1, <2>1, <2>2, <2>3, Numbers DEF BufferBounded
  <2> QED  BY <2>6, <2>7 DEF IInv
<1>6. ASSUME Shutdown PROVE IInv'
  BY <1>0, <1>6 DEF Shutdown, IInv, TypeOK, Reading, BufferBounded, Sent
<1>7. ASSUME Tick PROVE IInv'
  <2>1. /\ now' = now + 1 /\ flag' = flag /\ script' = script /\ Sent' = Sent
        /\ UNCHANGED <<got, drained, pc, until, total, keepAlive, status, served, begun>>
    BY <1>7 DEF Tick, client, Sent
  <2>2. TypeOK'  BY <1>0, <2>1 DEF TypeOK
  <2>3. pc \in {"head", "body"} => now + 1 <= until
    BY <1>0, <1>7 DEF Tick, Due, TypeOK
  <2>4. Reading'  BY <1>0, <2>1, <2>3 DEF Reading
  <2>5. BufferBounded'  BY <1>0, <2>1 DEF BufferBounded
  <2> QED  BY <2>2, <2>4, <2>5 DEF IInv
<1>8. ASSUME UNCHANGED vars PROVE IInv'
  BY <1>0, <1>8 DEF vars, IInv, TypeOK, Reading, BufferBounded, Sent
<1> QED  BY <1>2, <1>3, <1>4, <1>5, <1>6, <1>7, <1>8 DEF Next

\* At every await the task has in hand what it waits for (Reading), within the bounds.
THEOREM ConnectionInductive == Spec => []IInv
<1>1. QED  BY InitIInv, NextIInv, PTL DEF Spec

\* Every variable has the type handle_connection gives it.
THEOREM TypeCorrect == Spec => []TypeOK
<1>1. IInv => TypeOK  BY DEF IInv
<1>2. QED  BY <1>1, ConnectionInductive, PTL

\* A connection's memory is bounded, whatever its client sends.
THEOREM BufferStaysBounded == Spec => []BufferBounded
<1>1. IInv => BufferBounded  BY DEF IInv
<1>2. QED  BY <1>1, ConnectionInductive, PTL

\* A request that trickles in is cut off at one timeout after it began to be read.
THEOREM DeadlineIsOne == Spec => []ReadInTime
<1>1. IInv => ReadInTime  BY DEF IInv, Reading, ReadInTime
<1>2. QED  BY <1>1, ConnectionInductive, PTL

------------------------------------------------------------------------------
(* The framing of a client that says how long its requests are.             *)

\* The requests that are behind the connection: the one that is being answered is not
\* drained yet.
Gone == IF pc = "write" THEN served - 1 ELSE served

\* What is drained are whole requests; what is waited for is the end of the head of the
\* next one and then the end of its body; and what is answered, and how, is that request.
Frames ==
  /\ pc # "ended" => Gone \in 0..Len(script) /\ drained = Off(script, Gone)
  /\ pc \in {"head", "body", "write", "refuse"} => Gone < Len(script)
  /\ pc = "head" => got - drained < HeadEnd(script[Gone + 1])
  /\ pc \in {"body", "write"} =>
       Verdict(script[Gone + 1]) = 200 /\ total = Len(script[Gone + 1])
  /\ pc = "refuse" =>
       \/ status = Verdict(script[Gone + 1])
       \/ status \in {400, 408} /\ got < Off(script, Gone + 1)

\* What the client of each request does (ClientAssumption), in the terms of the parser.
LEMMA Clients ==
  ASSUME NEW r \in Requests
  PROVE  /\ r \in Seq(Lines) /\ Len(r) \in Nat
         /\ HeadEnd(r) \in 2..Len(r)
         /\ Verdict(r) = 200 => Len(r) = HeadEnd(r) + BodyLength(r)
<1>1. r \in Seq(Lines)  BY TcpConnectionAssumption
<1>2. HeadEnd(r) # 0 /\ (Verdict(r) = 200 => Len(r) = HeadEnd(r) + BodyLength(r))
  BY ClientAssumption
<1> QED  BY <1>1, <1>2, HeadEnds, LenProperties

LEMMA ProceedFrames ==
  ASSUME TypeOK, TypeOK', Reading', script' = script, drained' = Off(script, served),
         served \in 0..Len(script), Proceed(Buffer(drained', got'))
  PROVE  Frames'
<1>0. /\ script \in Seq(Seq(Lines)) /\ Len(script) \in Nat
      /\ got' \in 0..Len(Sent) /\ drained' <= got' /\ Sent' = Sent
      /\ got' \in Nat /\ drained' \in Nat /\ MaxHead \in Nat /\ MaxBody \in Nat
  BY Scripts, Numbers DEF TypeOK, Sent
<1> PICK buf : buf = Buffer(drained', got')  OBVIOUS
<1>1. /\ buf \in Seq(Lines) /\ Len(buf) = got' - drained'
      /\ served = Len(script) => Len(buf) = 0
      /\ served < Len(script) =>
           \A i \in 1..Len(buf) : i <= Len(script[served + 1]) => buf[i] = script[served + 1][i]
  <2>1. buf = SubSeq(FlattenSeq(script), Off(script, served) + 1, got')
    BY DEF Buffer, Sent
  <2>2. got' \in 0..Len(FlattenSeq(script)) /\ Off(script, served) <= got'
    BY <1>0 DEF Sent
  <2>3. LET b == SubSeq(FlattenSeq(script), Off(script, served) + 1, got') IN
        /\ b \in Seq(Lines) /\ Len(b) = got' - Off(script, served)
        /\ served = Len(script) => Len(b) = 0
        /\ served < Len(script) =>
             \A i \in 1..Len(b) : i <= Len(script[served + 1]) => b[i] = script[served + 1][i]
    BY <1>0, <2>2, BufferLines
  <2> QED  BY <2>1, <2>3
<1>2. CASE buf = <<>> /\ AwaitRequest
  <2>1. pc' \in {"idle", "ended"} /\ served' = served
    BY <1>2 DEF AwaitRequest, End, Stay
  <2>2. Gone' = served  BY <2>1 DEF Gone
  <2> QED  BY <2>1, <2>2 DEF Frames
<1>3. CASE ~(buf = <<>> /\ AwaitRequest)
  <2> PICK head : head = ParseHead(buf)  OBVIOUS
  <2>0. buf # <<>>
    <3> SUFFICES ASSUME buf = <<>> PROVE FALSE  OBVIOUS
    <3>1. Len(buf) = 0  BY EmptySeq
    <3>2. HeadEnd(buf) = 0
      <4>1. HeadEnd(buf) # 0 => HeadEnd(buf) \in 2..Len(buf)  BY <1>1, HeadEnds
      <4>2. 2..Len(buf) = {}  BY <3>1
      <4> QED  BY <4>1, <4>2
    <3>3. head.result = "incomplete"
      <4>1. Len(buf) <= MaxHead  BY <1>0, <3>1
      <4>2. head.result = "incomplete" <=> HeadEnd(buf) = 0 /\ Len(buf) <= MaxHead
        BY <1>1, ParseShape
      <4> QED  BY <3>2, <4>1, <4>2
    <3> QED  BY <1>3, <3>3 DEF Proceed
  <2>1. Len(buf) # 0  BY <1>1, <2>0, EmptySeq
  <2>2. served < Len(script)  BY <1>0, <1>1, <2>1
  <2>3. PICK r : r = script[served + 1]  OBVIOUS
  <2>4. served + 1 \in 1..Len(script) /\ (served + 1) - 1 = served  BY <1>0, <2>2
  <2>5. r \in Requests
    <3>1. script \in Seq(Requests)  BY DEF TypeOK
    <3> QED  BY <2>3, <2>4, <3>1, ElementOfSeq
  <2>6. /\ r \in Seq(Lines) /\ Len(r) \in Nat /\ HeadEnd(r) \in 2..Len(r)
        /\ Verdict(r) = 200 => Len(r) = HeadEnd(r) + BodyLength(r)
    BY <2>5, Clients
  <2>7. Off(script, served + 1) = drained' + Len(r)  BY <1>0, <2>3, <2>4, Framing
  <2>8. /\ Len(buf) < HeadEnd(r) => HeadEnd(buf) = 0
        /\ Len(buf) >= HeadEnd(r) =>
             HeadEnd(buf) = HeadEnd(r) /\ ParseHead(buf) = ParseHead(r)
    <3>1. \A i \in 1..Len(buf) : i <= Len(r) => buf[i] = r[i]  BY <1>1, <2>2, <2>3
    <3>2. HeadEnd(r) # 0  BY <2>6
    <3> QED  BY <1>1, <2>6, <3>1, <3>2, BufferHead
  <2>9. CASE head.result = "incomplete" /\ AwaitMore("head") /\ Stay
    <3>1. pc' = "head" /\ served' = served  BY <2>9 DEF AwaitMore, Stay
    <3>2. Gone' = served  BY <3>1 DEF Gone
    <3>3. HeadEnd(buf) = 0  BY <1>1, <2>9, ParseShape
    <3>4. Len(buf) < HeadEnd(r)  BY <1>0, <1>1, <2>6, <2>8, <3>3
    <3> QED  BY <1>1, <2>2, <2>3, <3>1, <3>2, <3>4 DEF Frames
  <2>10. CASE head.result \notin {"ok", "incomplete"} /\ Refuse(StatusOf(head.result))
    <3>1. pc' = "refuse" /\ served' = served /\ status' = StatusOf(head.result)
      BY <2>10 DEF Refuse
    <3>2. Gone' = served  BY <3>1 DEF Gone
    <3>3. StatusOf(head.result) = Verdict(r)
      <4>1. CASE Len(buf) >= HeadEnd(r)
        <5>1. head = ParseHead(r)  BY <2>8, <4>1
        <5>2. HeadEnd(r) # 0  BY <2>6
        <5> QED  BY <2>6, <2>10, <5>1, <5>2, ParseVerdict
      <4>2. CASE Len(buf) < HeadEnd(r)
        <5>1. HeadEnd(buf) = 0  BY <2>8, <4>2
        <5>2. head.result # "incomplete"  BY <2>10
        <5>3. ~(Len(buf) <= MaxHead)  BY <1>1, <5>1, <5>2, ParseShape
        <5>4. TooLarge(buf, HeadEnd(buf))  BY <1>0, <1>1, <5>1, <5>3 DEF TooLarge
        <5>5. head.result = "headTooLarge"  BY <1>1, <5>4, ParseShape
        <5>6. HeadEnd(r) > MaxHead  BY <1>0, <1>1, <2>6, <4>2, <5>3
        <5>7. TooLarge(r, HeadEnd(r)) /\ HeadEnd(r) # 0  BY <2>6, <5>6 DEF TooLarge
        <5>8. ParseHead(r).result = "headTooLarge"  BY <2>6, <5>7, ParseShape
        <5> QED  BY <2>6, <5>5, <5>7, <5>8, ParseVerdict
      <4>3. Len(buf) \in Nat /\ HeadEnd(r) \in Nat  BY <1>0, <1>1, <2>6, LenProperties
      <4> QED  BY <4>1, <4>2, <4>3
    <3> QED  BY <2>2, <2>3, <3>1, <3>2, <3>3 DEF Frames
  <2>11. CASE head.result = "ok"
    <3>1. HeadEnd(buf) # 0 /\ head.len = HeadEnd(buf)  BY <1>1, <2>11, ParseShape
    <3>2. Len(buf) >= HeadEnd(r)
      <4>1. Len(buf) \in Nat /\ HeadEnd(r) \in Nat  BY <1>0, <1>1, <2>6, LenProperties
      <4> QED  BY <2>8, <3>1, <4>1
    <3>3. head = ParseHead(r) /\ head.len = HeadEnd(r)  BY <2>8, <3>1, <3>2
    <3>4. /\ head.contentLength = BodyLength(r)
          /\ Verdict(r) = IF BodyLength(r) > MaxBody THEN 413 ELSE 200
      <4>1. HeadEnd(r) # 0  BY <2>6
      <4> QED  BY <2>6, <2>11, <3>3, <4>1, ParseVerdict
    <3>5. CASE BodyTooLong(head.contentLength) /\ Refuse(413)
      <4>1. pc' = "refuse" /\ served' = served /\ status' = 413  BY <3>5 DEF Refuse
      <4>2. Gone' = served  BY <4>1 DEF Gone
      <4>3. Verdict(r) = 413  BY <3>4, <3>5 DEF BodyTooLong
      <4> QED  BY <2>2, <2>3, <4>1, <4>2, <4>3 DEF Frames
    <3>6. CASE /\ ~BodyTooLong(head.contentLength)
               /\ total' = head.len + head.contentLength
      <4>1. Verdict(r) = 200  BY <3>4, <3>6 DEF BodyTooLong
      <4>2. total' = Len(r)  BY <2>6, <3>3, <3>4, <3>6, <4>1
      <4>3. CASE AwaitMore("body") /\ UNCHANGED <<status, served>>
        <5>1. pc' = "body" /\ served' = served  BY <4>3 DEF AwaitMore
        <5>2. Gone' = served  BY <5>1 DEF Gone
        <5> QED  BY <2>2, <2>3, <4>1, <4>2, <5>1, <5>2 DEF Frames
      <4>4. CASE Serve(head.keepAlive)
        <5>1. pc' = "write" /\ served' = served + 1  BY <4>4 DEF Serve
        <5>2. Gone' = served  BY <1>0, <5>1 DEF Gone
        <5> QED  BY <2>2, <2>3, <4>1, <4>2, <5>1, <5>2 DEF Frames
      <4>5. \/ AwaitMore("body") /\ UNCHANGED <<status, served>>
            \/ Serve(head.keepAlive)
        BY <2>11, <3>6, <2>0 DEF Proceed
      <4> QED  BY <4>3, <4>4, <4>5
    <3>7. \/ BodyTooLong(head.contentLength) /\ Refuse(413)
          \/ /\ ~BodyTooLong(head.contentLength)
             /\ total' = head.len + head.contentLength
      BY <2>0, <2>11 DEF Proceed
    <3> QED  BY <3>5, <3>6, <3>7
  <2>12. \/ head.result = "incomplete" /\ AwaitMore("head") /\ Stay
         \/ head.result \notin {"ok", "incomplete"} /\ Refuse(StatusOf(head.result))
         \/ head.result = "ok"
    BY <2>0 DEF Proceed
  <2> QED  BY <2>9, <2>10, <2>11, <2>12
<1> QED  BY <1>2, <1>3

LEMMA InitFrames == Init => Frames
<1> SUFFICES ASSUME Init PROVE Frames  OBVIOUS
<1>1. script \in Seq(Requests)  BY DEF Init, SeqOf
<1>2. script \in Seq(Seq(Lines)) /\ Len(script) \in Nat  BY <1>1, Scripts
<1>3. Off(script, 0) = 0  BY <1>2, Framing
<1>4. Gone = 0  BY DEF Init, Gone
<1> QED  BY <1>2, <1>3, <1>4 DEF Init, Frames

LEMMA NextFrames == IInv /\ IInv' /\ Frames /\ [Next]_vars => Frames'
<1> SUFFICES ASSUME IInv, IInv', Frames, [Next]_vars PROVE Frames'  OBVIOUS
<1>0. TypeOK /\ TypeOK' /\ Reading /\ Reading'  BY DEF IInv
<1>1. /\ script \in Seq(Seq(Lines)) /\ Len(script) \in Nat /\ served \in Nat
      /\ got \in Nat /\ drained \in Nat
  BY <1>0, Scripts DEF TypeOK, Sent
<1>2. ASSUME ReadHead PROVE Frames'
  <2>1. /\ script' = script /\ drained' = drained
        /\ pc \in {"idle", "head"} /\ Proceed(Buffer(drained, got'))
    BY <1>2 DEF ReadHead, client
  <2>2. Gone = served  BY <2>1 DEF Gone
  <2>3. drained' = Off(script, served) /\ served \in 0..Len(script)
    BY <2>1, <2>2 DEF Frames
  <2> QED  BY <1>0, <2>1, <2>3, ProceedFrames
<1>3. ASSUME ReadBody PROVE Frames'
  <2>1. /\ script' = script /\ drained' = drained /\ pc = "body"
    BY <1>3 DEF ReadBody, client
  <2>2. Gone = served  BY <2>1 DEF Gone
  <2>3. /\ served \in 0..Len(script) /\ drained = Off(script, served) /\ served < Len(script)
        /\ Verdict(script[served + 1]) = 200 /\ total = Len(script[served + 1])
    BY <2>1, <2>2 DEF Frames
  <2>4. total' = total  BY <1>3 DEF ReadBody, Stay
  <2>5. CASE pc' = "body" /\ served' = served
    <3>1. Gone' = served  BY <2>5 DEF Gone
    <3> QED  BY <2>1, <2>3, <2>4, <2>5, <3>1 DEF Frames
  <2>6. CASE pc' = "write" /\ served' = served + 1
    <3>1. Gone' = served  BY <1>1, <2>6 DEF Gone
    <3> QED  BY <2>1, <2>3, <2>4, <2>6, <3>1 DEF Frames
  <2> QED  BY <1>3, <2>5, <2>6 DEF ReadBody, AwaitMore, Stay, Serve
<1>4. ASSUME TimeOut \/ Eof \/ Broken \/ WriteEnds PROVE Frames'
  <2>1. script' = script /\ drained' = drained /\ got' = got /\ served' = served
    BY <1>4 DEF TimeOut, Eof, Broken, WriteEnds, client, End, Refuse, Stay
  <2>2. CASE pc' = "ended"  BY <2>2 DEF Frames
  <2>3. CASE pc' = "refuse" /\ status' \in {400, 408} /\ pc \in {"head", "body"}
    <3>1. Gone = served /\ Gone' = served  BY <2>1, <2>3 DEF Gone
    <3>2. served \in 0..Len(script) /\ drained = Off(script, served) /\ served < Len(script)
      BY <2>3, <3>1 DEF Frames
    <3>3. PICK r : r = script[served + 1]  OBVIOUS
    <3>4. served + 1 \in 1..Len(script) /\ (served + 1) - 1 = served  BY <1>1, <3>2
    <3>5. r \in Requests
      <4>1. script \in Seq(Requests)  BY <1>0 DEF TypeOK
      <4> QED  BY <3>3, <3>4, <4>1, ElementOfSeq
    <3>6. HeadEnd(r) \in 2..Len(r) /\ Len(r) \in Nat  BY <3>5, Clients
    <3>7. Off(script, served + 1) = drained + Len(r)  BY <1>1, <3>2, <3>3, <3>4, Framing
    <3>8. got - drained < Len(r)
      <4>1. CASE pc = "head"
        <5>1. got - drained < HeadEnd(r)  BY <3>1, <3>3, <4>1 DEF Frames
        <5> QED  BY <1>1, <3>6, <5>1
      <4>2. CASE pc = "body"
        <5>1. got - drained < total /\ total = Len(r)
          BY <1>0, <3>1, <3>3, <4>2 DEF Frames, Reading
        <5> QED  BY <5>1
      <4> QED  BY <2>3, <4>1, <4>2
    <3>9. got < Off(script, served + 1)  BY <1>1, <3>6, <3>7, <3>8
    <3> QED  BY <2>1, <2>3, <3>1, <3>2, <3>9 DEF Frames
  <2> QED  BY <1>4, <2>2, <2>3 DEF TimeOut, Eof, Broken, WriteEnds, End, Refuse
<1>5. ASSUME Written PROVE Frames'
  <2>1. /\ script' = script /\ got' = got
        /\ pc = "write" /\ drained' = drained + total /\ Proceed(Buffer(drained', got))
    BY <1>5 DEF Written, client, Drain
  <2>2. Gone = served - 1  BY <2>1 DEF Gone
  <2>3. /\ served - 1 \in 0..Len(script) /\ drained = Off(script, served - 1)
        /\ served - 1 < Len(script) /\ total = Len(script[(served - 1) + 1])
    BY <2>1, <2>2 DEF Frames
  <2>4. served \in 1..Len(script) /\ (served - 1) + 1 = served  BY <1>1, <2>3
  <2>5. Off(script, served) = Off(script, served - 1) + Len(script[served])
    BY <1>1, <2>4, Framing
  <2>6. drained' = Off(script, served) /\ served \in 0..Len(script)
    BY <1>1, <2>1, <2>3, <2>4, <2>5
  <2> QED  BY <1>0, <2>1, <2>6, ProceedFrames
<1>6. ASSUME Shutdown \/ Tick \/ UNCHANGED vars PROVE Frames'
  <2>1. UNCHANGED <<script, got, drained, pc, total, status, served>>
    BY <1>6 DEF Shutdown, Tick, vars, client
  <2>2. Gone' = Gone  BY <2>1 DEF Gone
  <2> QED  BY <2>1, <2>2 DEF Frames
<1> QED  BY <1>2, <1>3, <1>4, <1>5, <1>6 DEF Next

\* However the stream is cut into reads, the connection knows where it is in it.
THEOREM FramesInductive == Spec => [](IInv /\ Frames)
<1>1. Init => IInv /\ Frames  BY InitIInv, InitFrames
<1>2. (IInv /\ Frames) /\ [Next]_vars => (IInv /\ Frames)'  BY NextIInv, NextFrames
<1>3. QED  BY <1>1, <1>2, PTL DEF Spec

\* What has been drained are the requests that were served, and nothing of the next one.
THEOREM StreamStaysFramed == Spec => []Framed
<1>1. Frames => Framed  BY DEF Frames, Framed, Gone, Off
<1>2. QED  BY <1>1, FramesInductive, PTL

\* Each request that arrives in whole gets the answer it calls for on its own.
THEOREM AnswersAreDeserved == Spec => []AnsweredAsSent
<1>1. IInv /\ Frames => AnsweredAsSent
  <2> SUFFICES ASSUME TypeOK, Frames PROVE AnsweredAsSent  BY DEF IInv
  <2>0. served \in Nat  BY DEF TypeOK
  <2>1. CASE pc = "write"
    <3>1. Gone = served - 1 /\ Gone + 1 = served  BY <2>0, <2>1 DEF Gone
    <3>2. Verdict(script[served]) = 200  BY <2>1, <3>1 DEF Frames
    <3> QED  BY <2>1, <3>2 DEF AnsweredAsSent
  <2>2. CASE pc = "refuse"
    <3>1. Gone = served  BY <2>2 DEF Gone
    <3> QED  BY <2>2, <3>1 DEF Frames, AnsweredAsSent, Off
  <2>3. CASE pc \notin {"write", "refuse"}  BY <2>3 DEF AnsweredAsSent
  <2> QED  BY <2>1, <2>2, <2>3
<1>2. QED  BY <1>1, FramesInductive, PTL
==============================================================================
