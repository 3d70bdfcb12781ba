------------------------------ MODULE RateLimiter ------------------------------
(****************************************************************************)
(* The per-IP token buckets of both HTTP services (src/rate_limit.rs, the   *)
(* same file in url-shortener and pastebin-service): check, which request   *)
(* handlers call concurrently, and the task that evicts idle buckets.       *)
(*                                                                          *)
(* check reads the clock before it takes the lock, so the checks of one     *)
(* client may update its bucket in another order than they read the clock.  *)
(*                                                                          *)
(* A token is counted as Scale units and a tick is 1/Scale of a second, so  *)
(* that a bucket gains Rps units per tick and stays an integer.  The        *)
(* rounding of f64 is left out.  rps = 0 disables the limiter: it then has  *)
(* no state, and is not modelled.                                           *)
(****************************************************************************)
EXTENDS Integers

CONSTANTS
  Ips,        \* the clients
  Checkers,   \* the handlers that can be inside check at once
  Nobody,     \* the client of an idle checker
  Rps,        \* config.rate_limit_rps
  Burst,      \* config.rate_limit_burst
  Scale,      \* ticks per second, and units per token
  IdleEvict,  \* IDLE_EVICT, in ticks
  MaxChecks,  \* bound of the model: checks begun
  Horizon     \* bound of the model: the last tick

ASSUME RateLimiterAssumption ==
  /\ Rps \in Nat \ {0} /\ Burst \in Nat
  /\ Scale \in Nat \ {0} /\ IdleEvict \in Nat \ {0}
  /\ Nobody \notin Ips
  /\ MaxChecks \in Nat /\ Horizon \in Nat

VARIABLES
  now,        \* the monotonic clock
  bucket,     \* the map: tokens and last of each client, or NoBucket
  check,      \* what each checker has read: its client and the clock
  nextSweep,  \* the next tick of the sweeper's interval
  checks,     \* how many checks have begun
  admitted,   \* history: requests of each client that were let through
  seen,       \* history: the clock each bucket was last settled at, or evicted
  back,       \* history: by how much, in all, checks came with an older clock
  evicted,    \* history: how often each client's bucket was evicted
  touched     \* history: when each client's last check took the lock

vars == <<now, bucket, check, nextSweep, checks, admitted, seen, back, evicted, touched>>

Larger(a, b) == IF a > b THEN a ELSE b
Smaller(a, b) == IF a < b THEN a ELSE b

\* burst = 0 stands for rps.
Capacity == Scale * (IF Burst = 0 THEN Rps ELSE Burst)

NoBucket == [tokens |-> 0, last |-> -1]
Present(ip) == bucket[ip] # NoBucket
Idle == [ip |-> Nobody, at |-> 0]

Init ==
  /\ now = 0
  /\ bucket = [ip \in Ips |-> NoBucket]
  /\ check = [k \in Checkers |-> Idle]
  /\ nextSweep = 0
  /\ checks = 0
  /\ admitted = [ip \in Ips |-> 0]
  /\ seen = [ip \in Ips |-> 0]
  /\ back = [ip \in Ips |-> 0]
  /\ evicted = [ip \in Ips |-> 0]
  /\ touched = [ip \in Ips |-> 0]

------------------------------------------------------------------------------
\* Instant::now(), before the lock.
ReadClock(k) ==
  /\ check[k] = Idle /\ checks < MaxChecks
  /\ checks' = checks + 1
  /\ \E ip \in Ips : check' = [check EXCEPT ![k] = [ip |-> ip, at |-> now]]
  /\ UNCHANGED <<now, bucket, nextSweep, admitted, seen, back, evicted, touched>>

\* What bucket b holds at clock at; duration_since is zero for a clock that is older.
Refilled(b, at) == Smaller(Capacity, b.tokens + Rps * Larger(at - b.last, 0))

\* Mutant: bucket.last stays what it was.
PayKeepsLast(ip, at) ==
  LET b == IF Present(ip) THEN bucket[ip] ELSE [tokens |-> Capacity, last |-> at]
      tokens == Refilled(b, at)
      ok == tokens >= Scale
  IN /\ bucket' = [bucket EXCEPT ![ip] = [b EXCEPT !.tokens = IF ok THEN tokens - Scale
                                                           ELSE tokens]]
     /\ admitted' = [admitted EXCEPT ![ip] = IF ok THEN @ + 1 ELSE @]

\* The bucket, a full one if there was none, is refilled and pays for the request.
Pay(ip, at) ==
  LET b == IF Present(ip) THEN bucket[ip] ELSE [tokens |-> Capacity, last |-> at]
      tokens == Refilled(b, at)
      ok == tokens >= Scale
  IN /\ bucket' = [bucket EXCEPT ![ip] = [tokens |-> IF ok THEN tokens - Scale ELSE tokens,
                                          last |-> at]]
     /\ admitted' = [admitted EXCEPT ![ip] = IF ok THEN @ + 1 ELSE @]

\* The rest of check, under the lock.
Locked(k) ==
  LET ip == check[k].ip
      at == check[k].at
  IN /\ check[k] # Idle
     /\ Pay(ip, at)
     /\ back' = [back EXCEPT ![ip] = @ + Larger(seen[ip] - at, 0)]
     /\ seen' = [seen EXCEPT ![ip] = at]
     /\ touched' = [touched EXCEPT ![ip] = now]
     /\ check' = [check EXCEPT ![k] = Idle]
     /\ UNCHANGED <<now, nextSweep, checks, evicted>>

\* Mutant: a bucket is also kept at exactly IDLE_EVICT.
KeptLonger(b) == now - b.last <= IdleEvict

\* retain's condition.
Kept(b) == now - b.last < IdleEvict
Dropped(ip) == Present(ip) /\ ~Kept(bucket[ip])

\* The sweeper's interval fires; the next tick is a period after this one.  No time passes
\* between the clock it reads and the lock (Tick), so the two are one step.
Sweep ==
  /\ now >= nextSweep
  /\ nextSweep' = now + IdleEvict
  /\ bucket' = [ip \in Ips |-> IF Dropped(ip) THEN NoBucket ELSE bucket[ip]]
  /\ seen' = [ip \in Ips |-> IF Dropped(ip) THEN now ELSE seen[ip]]
  /\ evicted' = [ip \in Ips |-> IF Dropped(ip) THEN evicted[ip] + 1 ELSE evicted[ip]]
  /\ UNCHANGED <<now, check, checks, admitted, back, touched>>

\* The sweeper is on time.
Tick ==
  /\ now < Horizon /\ now < nextSweep
  /\ now' = now + 1
  /\ UNCHANGED <<bucket, check, nextSweep, checks, admitted, seen, back, evicted, touched>>

Next ==
  \/ \E k \in Checkers : ReadClock(k) \/ Locked(k)
  \/ Sweep
  \/ Tick

Spec == Init /\ [][Next]_vars

------------------------------------------------------------------------------
\* Every variable has the type the code gives it; a bucket holds at most Capacity.
TypeOK ==
  /\ now \in Nat /\ nextSweep \in Nat /\ checks \in Nat
  /\ bucket \in [Ips -> [tokens : 0..Capacity, last : Nat] \cup {NoBucket}]
  /\ check \in [Checkers -> [ip : Ips, at : Nat] \cup {Idle}]
  /\ admitted \in [Ips -> Nat] /\ seen \in [Ips -> Nat]
  /\ back \in [Ips -> Nat] /\ evicted \in [Ips -> Nat] /\ touched \in [Ips -> Nat]

\* What an evicted bucket may lack to be full.  The comment on IDLE_EVICT takes it for
\* nothing (rate_limit.rs:17-18), but neither the code nor the configuration keeps the
\* burst within what IDLE_EVICT refills.
Shortfall == Larger(Capacity - Rps * IdleEvict, 0)

\* A client is never let through more often than its burst and its refill allow, but for
\* two things: a check that comes with an older clock than the one before it costs the
\* refill of the difference, and an eviction what the bucket may have lacked.
Budget ==
  \A ip \in Ips :
    Scale * admitted[ip] <= Capacity + Rps * (now + back[ip]) + Shortfall * evicted[ip]

\* The map holds only clients that were heard of in the last two periods.
OnlyRecentClients == \A ip \in Ips : Present(ip) => now < touched[ip] + 2 * IdleEvict

------------------------------------------------------------------------------
\* What the comments say and the code does not do.

\* "Each client IP gets a bucket of `burst` tokens that refills at `rps` tokens per
\* second; a request consumes one token, and is rejected when the bucket is empty"
\* (rate_limit.rs:3-5).
ExactBudget == \A ip \in Ips : Scale * admitted[ip] <= Capacity + Rps * now
==============================================================================
