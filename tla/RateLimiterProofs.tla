--------------------------- MODULE RateLimiterProofs ---------------------------
(****************************************************************************)
(* Theorems about RateLimiter: its type invariant, the budget of a client   *)
(* and how long it is remembered, for any rate, burst, eviction time and    *)
(* number of requests.                                                      *)
(****************************************************************************)
EXTENDS RateLimiter, TLAPS

\* The refill of a time that is the sum of two.
LEMMA RefillAdds == \A a, b \in Int : Rps * (a + b) = Rps * a + Rps * b /\ Rps * a \in Int
BY RateLimiterAssumption

\* A longer time refills no less.
LEMMA RefillGrows == \A a, b \in Int : a <= b => Rps * a <= Rps * b
BY RateLimiterAssumption

\* A bucket holds a whole number of units.
LEMMA CapacityType == Capacity \in Nat /\ Scale \in Nat
BY RateLimiterAssumption DEF Capacity

\* One more request let through is Scale units more.
LEMMA AdmitOneMore == \A a \in Nat : Scale * (a + 1) = Scale * a + Scale /\ Scale * a \in Nat
BY RateLimiterAssumption

\* What evictions may have let through: nothing below zero, a shortfall more for each.
LEMMA ShortfallType ==
  /\ Shortfall \in Nat
  /\ \A n \in Nat : Shortfall * n \in Nat /\ Shortfall * (n + 1) = Shortfall * n + Shortfall
<1>1. Capacity - Rps * IdleEvict \in Int  BY CapacityType, RateLimiterAssumption
<1>2. Shortfall \in Nat  BY <1>1 DEF Shortfall, Larger
<1>3. QED  BY <1>2

\* What Refilled returns.
LEMMA RefilledBounds ==
  ASSUME NEW b \in [tokens : 0..Capacity, last : Nat], NEW at \in Nat
  PROVE  /\ Refilled(b, at) \in 0..Capacity
         /\ Refilled(b, at) <= b.tokens + Rps * Larger(at - b.last, 0)
<1>1. Larger(at - b.last, 0) \in Nat  BY DEF Larger
<1>2. Rps * Larger(at - b.last, 0) \in Nat  BY <1>1, RateLimiterAssumption
<1>3. QED  BY <1>2, CapacityType DEF Refilled, Smaller

------------------------------------------------------------------------------
\* The inductive invariant.

\* No clock that was read, and none a bucket was settled at, is ahead of the clock.
ClocksPast ==
  /\ \A k \in Checkers : check[k].at <= now
  /\ \A ip \in Ips : seen[ip] <= now
  /\ \A ip \in Ips : Present(ip) => bucket[ip].last = seen[ip]

\* The tokens left and the tokens spent come from the first full bucket, the refill up to
\* the clock the bucket was last settled at, and what evicted buckets lacked.
Spent(ip) ==
  LET refilled == Rps * (seen[ip] + back[ip]) + Shortfall * evicted[ip] IN
  IF Present(ip)
  THEN bucket[ip].tokens + Scale * admitted[ip] <= Capacity + refilled
  ELSE Scale * admitted[ip] <= refilled

IInv == TypeOK /\ ClocksPast /\ \A ip \in Ips : Spent(ip)

\* The invariant holds initially.
LEMMA IInvInit == Init => IInv
<1> SUFFICES ASSUME Init PROVE IInv
  OBVIOUS
<1>1. TypeOK
  BY DEF Init, TypeOK, Idle
<1>2. ClocksPast
  BY DEF Init, ClocksPast, Present, Idle
<1>3. ASSUME NEW ip \in Ips PROVE Spent(ip)
  <2>1. /\ bucket[ip] = NoBucket /\ seen[ip] = 0 /\ back[ip] = 0 /\ admitted[ip] = 0
        /\ evicted[ip] = 0
    BY DEF Init
  <2>2. Rps * 0 = 0 /\ Scale * 0 = 0 /\ Shortfall * 0 = 0
    BY ShortfallType, RateLimiterAssumption
  <2>3. QED  BY <2>1, <2>2 DEF Spent, Present
<1>4. QED  BY <1>1, <1>2, <1>3 DEF IInv

\* Reading the clock changes no bucket.
LEMMA IInvReadClock == ASSUME IInv, NEW k \in Checkers, ReadClock(k) PROVE IInv'
<1>1. TypeOK'  BY DEF IInv, TypeOK, ReadClock
<1>2. ClocksPast'  BY DEF IInv, TypeOK, ClocksPast, ReadClock, Present
<1>3. ASSUME NEW ip \in Ips PROVE Spent(ip)'
  BY DEF IInv, ReadClock, Spent, Present
<1>4. QED  BY <1>1, <1>2, <1>3 DEF IInv

\* A check pays for what it lets through.
LEMMA IInvLocked == ASSUME IInv, NEW k \in Checkers, Locked(k) PROVE IInv'
<1>1. PICK ip \in Ips, at \in Nat : ip = check[k].ip /\ at = check[k].at
  BY DEF IInv, TypeOK, Locked, Idle
<1> DEFINE b == IF Present(ip) THEN bucket[ip] ELSE [tokens |-> Capacity, last |-> at]
           tokens == Refilled(b, at)
           late == Larger(seen[ip] - at, 0)
<1>2. b \in [tokens : 0..Capacity, last : Nat]
  BY <1>1, CapacityType DEF IInv, TypeOK, Present
<1>3. /\ tokens \in 0..Capacity
      /\ tokens <= b.tokens + Rps * Larger(at - b.last, 0)
  BY <1>1, <1>2, RefilledBounds
<1>4. late \in Nat  BY <1>1 DEF IInv, TypeOK, Larger
<1> DEFINE ok == tokens >= Scale
           left == IF ok THEN tokens - Scale ELSE tokens
           spent == Scale * admitted[ip]
<1>5. /\ bucket' = [bucket EXCEPT ![ip] = [tokens |-> left, last |-> at]]
      /\ admitted' = [admitted EXCEPT ![ip] = IF ok THEN @ + 1 ELSE @]
      /\ back' = [back EXCEPT ![ip] = @ + late]
      /\ seen' = [seen EXCEPT ![ip] = at]
      /\ touched' = [touched EXCEPT ![ip] = now]
      /\ check' = [check EXCEPT ![k] = Idle]
      /\ UNCHANGED <<now, nextSweep, checks, evicted>>
  BY <1>1 DEF Locked, Pay
<1>6. left \in 0..Capacity  BY <1>3, CapacityType
<1>7. /\ admitted[ip] \in Nat /\ admitted'[ip] \in Nat /\ spent \in Nat
      /\ seen[ip] \in Nat /\ back[ip] \in Nat /\ back'[ip] = back[ip] + late
      /\ seen'[ip] = at /\ bucket'[ip] = [tokens |-> left, last |-> at]
  BY <1>1, <1>5, AdmitOneMore DEF IInv, TypeOK
<1>8. left + Scale * admitted'[ip] = tokens + spent
  <2>1. CASE ok
    <3>1. admitted'[ip] = admitted[ip] + 1  BY <1>1, <1>5, <2>1 DEF IInv, TypeOK
    <3>2. Scale * admitted'[ip] = spent + Scale  BY <1>7, <3>1, AdmitOneMore
    <3>3. QED  BY <1>3, <1>7, <2>1, <3>2, CapacityType
  <2>2. CASE ~ok
    <3>1. admitted'[ip] = admitted[ip]  BY <1>1, <1>5, <2>2 DEF IInv, TypeOK
    <3>2. QED  BY <2>2, <3>1
  <2>3. QED  BY <2>1, <2>2
<1> HIDE DEF b, tokens, late, ok, left, spent
<1>9. TypeOK'
  <2>1. bucket' \in [Ips -> [tokens : 0..Capacity, last : Nat] \cup {NoBucket}]
    BY <1>1, <1>5, <1>6 DEF IInv, TypeOK
  <2>2. admitted' \in [Ips -> Nat]  BY <1>5, <1>7 DEF IInv, TypeOK
  <2>3. back' \in [Ips -> Nat] /\ seen' \in [Ips -> Nat] /\ touched' \in [Ips -> Nat]
    BY <1>1, <1>4, <1>5 DEF IInv, TypeOK
  <2>4. check' \in [Checkers -> [ip : Ips, at : Nat] \cup {Idle}]
    BY <1>5 DEF IInv, TypeOK
  <2>5. QED  BY <1>5, <2>1, <2>2, <2>3, <2>4 DEF IInv, TypeOK
<1>10. ClocksPast'
  <2>1. at <= now /\ 0 <= now  BY <1>1 DEF IInv, TypeOK, ClocksPast
  <2>2. \A j \in Checkers : check'[j].at <= now'
    BY <1>5, <2>1 DEF IInv, TypeOK, ClocksPast, Idle
  <2>3. \A x \in Ips : seen'[x] <= now'
    BY <1>1, <1>5, <2>1 DEF IInv, TypeOK, ClocksPast
  <2>4. \A x \in Ips : Present(x)' => bucket'[x].last = seen'[x]
    BY <1>1, <1>5 DEF IInv, TypeOK, ClocksPast, Present
  <2>5. QED  BY <2>2, <2>3, <2>4 DEF ClocksPast
<1>11. Spent(ip)'
  <2>1. Present(ip)'
    <3>1. bucket'[ip].last = at /\ at # -1  BY <1>1, <1>7
    <3>2. NoBucket.last = -1  BY DEF NoBucket
    <3>3. QED  BY <3>1, <3>2 DEF Present
  <2> DEFINE from == seen[ip] + back[ip]
             to == at + back[ip] + late
             more == to - from
  <2>2. from \in Int /\ more \in Nat /\ to = from + more
    BY <1>1, <1>4, <1>7 DEF late, Larger
  <2>3. /\ Rps * to = Rps * from + Rps * more
        /\ Rps * from \in Int /\ Rps * more \in Int /\ 0 <= Rps * more
    <3> HIDE DEF from, to, more
    <3>1. Rps * (from + more) = Rps * from + Rps * more /\ Rps * more \in Int
      BY <2>2, RefillAdds
    <3>2. Rps * 0 <= Rps * more  BY <2>2, RefillGrows
    <3>3. Rps * 0 = 0 /\ Rps * from \in Int  BY <2>2, RefillAdds, RateLimiterAssumption
    <3>4. QED  BY <2>2, <3>1, <3>2, <3>3
  <2> DEFINE lacked == Shortfall * evicted[ip]
  <2>4. lacked \in Nat /\ evicted' = evicted
    BY <1>1, <1>5, ShortfallType DEF IInv, TypeOK
  <2>5. tokens + spent <= Capacity + Rps * to + lacked
    <3> HIDE DEF to, more, lacked, from
    <3>1. CASE Present(ip)
      <4>1. b = bucket[ip] /\ b.last = seen[ip]
        BY <1>1, <3>1 DEF IInv, ClocksPast, b
      <4>2. b.tokens + spent <= Capacity + (Rps * from + lacked)
        BY <1>1, <3>1, <4>1 DEF IInv, Spent, spent, from, lacked
      <4>3. Larger(at - b.last, 0) = more
        BY <1>1, <1>7, <4>1 DEF Larger, late, more, from, to
      <4>4. tokens <= b.tokens + Rps * more  BY <1>3, <4>3
      <4>5. QED  BY <1>2, <1>3, <1>7, <2>3, <2>4, <4>2, <4>4, CapacityType
    <3>2. CASE ~Present(ip)
      <4>1. spent <= Rps * from + lacked
        BY <1>1, <3>2 DEF IInv, Spent, spent, from, lacked
      <4>2. QED  BY <1>3, <1>7, <2>3, <2>4, <4>1, CapacityType
    <3>3. QED  BY <3>1, <3>2
  <2>6. bucket'[ip].tokens = left /\ seen'[ip] + back'[ip] = to
    BY <1>1, <1>4, <1>7 DEF to
  <2>7. Capacity + Rps * to + lacked = Capacity + (Rps * to + lacked)
    <3> HIDE DEF to, lacked, from, more
    <3>1. QED  BY <2>3, <2>4, CapacityType
  <2>8. bucket'[ip].tokens + Scale * admitted'[ip]
          <= Capacity + (Rps * (seen'[ip] + back'[ip]) + Shortfall * evicted'[ip])
    BY <1>8, <2>4, <2>5, <2>6, <2>7
  <2>9. QED  BY <2>1, <2>8 DEF Spent
<1>12. ASSUME NEW x \in Ips, x # ip PROVE Spent(x)'
  <2>1. /\ bucket'[x] = bucket[x] /\ admitted'[x] = admitted[x]
        /\ seen'[x] = seen[x] /\ back'[x] = back[x] /\ evicted'[x] = evicted[x]
    BY <1>5, <1>12 DEF IInv, TypeOK
  <2>2. Present(x)' = Present(x)  BY <2>1 DEF Present
  <2>3. QED  BY <2>1, <2>2 DEF IInv, Spent
<1>13. \A x \in Ips : Spent(x)'  BY <1>11, <1>12
<1>14. QED  BY <1>9, <1>10, <1>13 DEF IInv

\* The sweeper forgets a bucket that has refilled but for the shortfall.
LEMMA IInvSweep == IInv /\ Sweep => IInv'
<1> SUFFICES ASSUME IInv, Sweep PROVE IInv'
  OBVIOUS
<1>1. TypeOK'
  BY RateLimiterAssumption DEF IInv, TypeOK, Sweep
<1>2. ClocksPast'
  BY DEF IInv, TypeOK, ClocksPast, Sweep, Present, Dropped
<1>3. ASSUME NEW ip \in Ips PROVE Spent(ip)'
  <2>1. CASE Dropped(ip)
    <3> DEFINE from == seen[ip] + back[ip]
               idle == now - seen[ip]
               lacked == Shortfall * evicted[ip]
    <3>1. bucket[ip].last = seen[ip] /\ IdleEvict <= idle
      BY <2>1, RateLimiterAssumption DEF IInv, TypeOK, ClocksPast, Present, Kept, Dropped
    <3>2. /\ from \in Int /\ idle \in Int /\ IdleEvict \in Int
          /\ now + back[ip] = from + idle
      BY RateLimiterAssumption DEF IInv, TypeOK
    <3>3. /\ evicted[ip] \in Nat /\ lacked \in Nat /\ Shortfall \in Nat
          /\ Shortfall * (evicted[ip] + 1) = lacked + Shortfall
      BY ShortfallType DEF IInv, TypeOK
    <3>4. /\ bucket[ip].tokens \in Nat /\ Scale * admitted[ip] \in Nat
          /\ bucket[ip].tokens + Scale * admitted[ip] <= Capacity + (Rps * from + lacked)
      BY <2>1, AdmitOneMore, CapacityType DEF IInv, TypeOK, Present, Spent, Dropped
    <3>5. /\ ~Present(ip)' /\ seen'[ip] = now /\ evicted'[ip] = evicted[ip] + 1
          /\ UNCHANGED <<back, admitted>>
      BY <2>1 DEF IInv, TypeOK, Sweep, Present
    <3> HIDE DEF from, idle, lacked
    <3>6. /\ Rps * (from + idle) = Rps * from + Rps * idle
          /\ Rps * from \in Int /\ Rps * idle \in Int
      BY <3>2, RefillAdds
    <3>7. Rps * IdleEvict \in Int /\ Rps * IdleEvict <= Rps * idle
      BY <3>1, <3>2, RefillGrows, RefillAdds
    <3>8. Capacity - Rps * IdleEvict <= Shortfall
      BY <3>7, CapacityType DEF Shortfall, Larger
    <3>9. Scale * admitted[ip] <= Rps * (from + idle) + (lacked + Shortfall)
      BY <3>3, <3>4, <3>6, <3>7, <3>8, CapacityType
    <3>10. Scale * admitted[ip] <= Rps * (now + back[ip]) + Shortfall * (evicted[ip] + 1)
      BY <3>2, <3>3, <3>9
    <3>11. QED  BY <3>5, <3>10 DEF Spent
  <2>2. CASE ~Dropped(ip)
    <3>1. /\ bucket'[ip] = bucket[ip] /\ seen'[ip] = seen[ip] /\ evicted'[ip] = evicted[ip]
          /\ UNCHANGED <<back, admitted>>
      BY <2>2 DEF IInv, TypeOK, Sweep
    <3>2. QED  BY <3>1 DEF IInv, Spent, Present
  <2>3. QED  BY <2>1, <2>2
<1>4. QED  BY <1>1, <1>2, <1>3 DEF IInv

\* Time passes: the buckets stay as they are.
LEMMA IInvTick == IInv /\ (Tick \/ UNCHANGED vars) => IInv'
<1> SUFFICES ASSUME IInv, Tick \/ UNCHANGED vars PROVE IInv'
  OBVIOUS
<1>1. TypeOK'  BY DEF IInv, TypeOK, Tick, vars
<1>2. ClocksPast'
  <2>1. now <= now' /\ UNCHANGED <<bucket, check, seen>>
    BY DEF IInv, TypeOK, Tick, vars
  <2>2. \A k \in Checkers : check[k].at \in Nat
    BY DEF IInv, TypeOK, Idle
  <2>3. QED  BY <2>1, <2>2, <1>1 DEF IInv, TypeOK, ClocksPast, Present
<1>3. ASSUME NEW ip \in Ips PROVE Spent(ip)'
  BY DEF IInv, Tick, vars, Spent, Present
<1>4. QED  BY <1>1, <1>2, <1>3 DEF IInv

\* The invariant holds always.
THEOREM Inductive == Spec => []IInv
<1>1. IInv /\ [Next]_vars => IInv'
  BY IInvReadClock, IInvLocked, IInvSweep, IInvTick DEF Next
<1>2. QED  BY <1>1, IInvInit, PTL DEF Spec

\* A bucket never holds more than the capacity, nor less than nothing, and every
\* variable keeps its type.
THEOREM TypeCorrect == Spec => []TypeOK
BY Inductive, PTL DEF IInv

\* A client is never let through more often than burst and refill allow, but for what
\* checks that come with an older clock refill twice and what evicted buckets lacked
\* (check and the sweeper), whatever the burst, the rate and IDLE_EVICT.
THEOREM BudgetHolds == Spec => []Budget
<1>1. IInv => Budget
  <2> SUFFICES ASSUME IInv, NEW ip \in Ips
               PROVE  Scale * admitted[ip]
                        <= Capacity + Rps * (now + back[ip]) + Shortfall * evicted[ip]
    BY DEF Budget
  <2>1. seen[ip] + back[ip] \in Int /\ now + back[ip] \in Int
        /\ seen[ip] + back[ip] <= now + back[ip]
    BY DEF IInv, TypeOK, ClocksPast
  <2>2. /\ Rps * (seen[ip] + back[ip]) <= Rps * (now + back[ip])
        /\ Rps * (seen[ip] + back[ip]) \in Int /\ Rps * (now + back[ip]) \in Int
    BY <2>1, RefillGrows, RefillAdds
  <2>3. Scale * admitted[ip] \in Nat /\ Shortfall * evicted[ip] \in Nat
    BY AdmitOneMore, ShortfallType DEF IInv, TypeOK
  <2>4. Scale * admitted[ip]
          <= Capacity + (Rps * (seen[ip] + back[ip]) + Shortfall * evicted[ip])
    <3>1. CASE Present(ip)
      <4>1. bucket[ip].tokens \in Nat
        BY <3>1, CapacityType DEF IInv, TypeOK, Present
      <4>2. bucket[ip].tokens + Scale * admitted[ip]
              <= Capacity + (Rps * (seen[ip] + back[ip]) + Shortfall * evicted[ip])
        BY <3>1 DEF IInv, Spent
      <4>3. QED  BY <2>2, <2>3, <4>1, <4>2, CapacityType
    <3>2. CASE ~Present(ip)
      <4>1. Scale * admitted[ip]
              <= Rps * (seen[ip] + back[ip]) + Shortfall * evicted[ip]
        BY <3>2 DEF IInv, Spent
      <4>2. QED  BY <2>2, <2>3, <4>1, CapacityType
    <3>3. QED  BY <3>1, <3>2
  <2>5. QED  BY <2>2, <2>3, <2>4, CapacityType
<1>2. QED  BY <1>1, Inductive, PTL

------------------------------------------------------------------------------
\* The sweeper is never late, a bucket is no younger than its client's last check, and
\* the sweep to come is less than two periods after that check.
Remembered ==
  /\ now <= nextSweep /\ nextSweep <= now + IdleEvict
  /\ \A ip \in Ips : Present(ip) => /\ bucket[ip].last <= touched[ip]
                                    /\ nextSweep < touched[ip] + 2 * IdleEvict

\* A check's client was heard of now.
LEMMA RememberedLocked ==
  ASSUME IInv, Remembered, NEW k \in Checkers, Locked(k)
  PROVE  Remembered'
<1>1. PICK ip \in Ips, at \in Nat : ip = check[k].ip /\ at = check[k].at
  BY DEF IInv, TypeOK, Locked, Idle
<1>2. now \in Nat /\ nextSweep \in Nat /\ IdleEvict \in Nat \ {0} /\ at <= now
  BY <1>1, RateLimiterAssumption DEF IInv, TypeOK, ClocksPast
<1>3. UNCHANGED <<now, nextSweep>>  BY DEF Locked
<1>4. touched' = [touched EXCEPT ![ip] = now]  BY <1>1 DEF Locked
<1>5. bucket' \in [Ips -> [tokens : 0..Capacity, last : Nat] \cup {NoBucket}]
  BY IInvLocked DEF IInv, TypeOK
<1>6. bucket'[ip].last = at  BY <1>1 DEF Locked, Pay, IInv, TypeOK
<1>7. \A x \in Ips \ {ip} : bucket'[x] = bucket[x] /\ touched'[x] = touched[x]
  BY <1>1, <1>4 DEF Locked, Pay, IInv, TypeOK
<1>8. touched'[ip] = now  BY <1>4 DEF IInv, TypeOK
<1>9. nextSweep < now + 2 * IdleEvict  BY <1>2 DEF Remembered
<1>10. \A x \in Ips : Present(x)' => /\ bucket'[x].last <= touched'[x]
                                     /\ nextSweep < touched'[x] + 2 * IdleEvict
  BY <1>2, <1>6, <1>7, <1>8, <1>9 DEF Remembered, Present
<1>11. QED  BY <1>3, <1>10 DEF Remembered

\* A bucket the sweeper keeps is younger than a period, and the next sweep is a period off.
LEMMA RememberedSweep ==
  ASSUME IInv, Remembered, Sweep
  PROVE  Remembered'
<1>1. now \in Nat /\ nextSweep \in Nat /\ IdleEvict \in Nat \ {0} /\ touched \in [Ips -> Nat]
  BY RateLimiterAssumption DEF IInv, TypeOK
<1>2. now' = now /\ nextSweep' = now + IdleEvict /\ touched' = touched  BY DEF Sweep
<1>3. ASSUME NEW ip \in Ips, Present(ip)'
      PROVE  bucket'[ip].last <= touched[ip] /\ now + IdleEvict < touched[ip] + 2 * IdleEvict
  <2>1. bucket'[ip] = bucket[ip] /\ Present(ip) /\ Kept(bucket[ip])
    BY <1>3 DEF Sweep, Present, Dropped
  <2>2. bucket[ip].last \in Nat /\ bucket[ip].last <= touched[ip]
    BY <2>1 DEF Remembered, Present, IInv, TypeOK
  <2>3. now - bucket[ip].last < IdleEvict  BY <2>1 DEF Kept
  <2>4. touched[ip] \in Nat  BY <1>1
  <2>5. QED  BY <1>1, <2>1, <2>2, <2>3, <2>4
<1>4. QED  BY <1>1, <1>2, <1>3 DEF Remembered

\* The map of buckets holds only clients heard of within the last two periods.
THEOREM RecentClientsOnly == Spec => []OnlyRecentClients
<1>1. Init => Remembered
  BY RateLimiterAssumption DEF Init, Remembered, Present
<1>2. IInv /\ Remembered /\ [Next]_vars => Remembered'
  <2> SUFFICES ASSUME IInv, Remembered, [Next]_vars PROVE Remembered'
    OBVIOUS
  <2>1. CASE \E k \in Checkers : ReadClock(k)
    BY <2>1 DEF ReadClock, Remembered, Present
  <2>2. CASE \E k \in Checkers : Locked(k)  BY <2>2, RememberedLocked
  <2>3. CASE Sweep  BY <2>3, RememberedSweep
  <2>4. CASE Tick
    BY <2>4, RateLimiterAssumption DEF Tick, Remembered, Present, IInv, TypeOK
  <2>5. CASE UNCHANGED vars  BY <2>5 DEF vars, Remembered, Present
  <2>6. QED  BY <2>1, <2>2, <2>3, <2>4, <2>5 DEF Next
<1>3. IInv /\ Remembered => OnlyRecentClients
  BY RateLimiterAssumption DEF IInv, TypeOK, Remembered, OnlyRecentClients
<1>4. QED  BY <1>1, <1>2, <1>3, Inductive, PTL DEF Spec
==============================================================================
