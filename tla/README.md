# Specifications of hicho

The repository holds three independent Rust services on Tokio: `url-shortener`,
`pastebin-service` and `tcp-actor-server`. This directory models the parts of them
whose correctness depends on interleavings, lost or late effects, limits and
shutdown. TLC checks the models on small instances and TLAPS proves the main
results for every value of the constants. Paths below are relative to `src/`.

## 1. Inventory

### url-shortener

| Part | State | Operations | Hard behaviour | Correct when |
|---|---|---|---|---|
| Use cases, `src/application/mod.rs` | none of its own | `create`, `resolve`, `get`, `delete` | each is a chain of awaits (SQLite, Redis) that other requests interleave with and that a timeout, a disconnection or a crash may cut anywhere | no create replaces a link; a removed or expired link stops being redirected to within a bound; only expired links are purged |
| SQLite repository, `src/infrastructure/sqlite.rs` | table `links`, primary key `code` | `insert`, `get`, `increment_hits_by`, `delete`, `ping` | single statements, any may fail | each statement is atomic |
| Read cache, `src/cache.rs` | Redis keys with a lifetime | `get`, `set` (SET EX), `delete`, all best effort | survives the process; calls may fail silently | never outlives the bound above |
| Hit recorder, `src/hits.rs` | a bounded channel, a map of pending hits owned by one task | `record`, `flush`, the task's loop | full channel, timer against messages, flush against hits, abort, last handle dropped | a hit is settled once; a flush covers what came before it; nothing is stranded at shutdown |
| In-memory repository, `src/infrastructure/memory.rs` | a map owned by one task, an unbounded mail box | the same five, and `take` for pastes, as commands with a reply | a caller that is dropped leaves its command behind; the task stops with the runtime | a command is executed once, in order, and never against a row of a later request |
| HTTP layer, `src/api/mod.rs` | per endpoint, the permits and the queue for them | routes, TimeoutLayer, ConcurrencyLimitLayer, rate-limit middleware | a timeout drops the handler's future; a client leaves the queue or the handler | every request ends; what a status says is so |
| Metrics, `src/metrics.rs` | a counter of redirects | bump, load | counted apart from the rows | every redirect counted is a hit or among the losses |
| Rate limiter, `src/rate_limit.rs` | token bucket per IP behind a mutex | `check`, `sweep_idle` | the clock is read outside the lock; eviction forgets a bucket | a client gets at most burst + rps * t, and no more than what late clocks and forgotten buckets are worth |
| Composition root, `src/main.rs` | none | serve, flush, abort | order of the shutdown | no lost counts |

A handler calls the use cases, these call repository, cache and recorder through
`Arc<dyn ...>` ports; the recorder's task calls the repository later, on its own.

### pastebin-service

The same architecture with pastes for links. `src/views.rs` is `hits.rs` with other
names, and `src/rate_limit.rs` is the same file. What is new is `fetch` of a one-shot
paste, read by `get` and claimed by an atomic `take` (correct when at most one reader
is served), and that whole pastes are cached as JSON.

### tcp-actor-server

| Part | State | Operations | Hard behaviour | Correct when |
|---|---|---|---|---|
| Accept loop, `src/server.rs` `run` | semaphore, watch flag, next id | acquire, accept, back off, drain | shutdown while waiting for a permit or a connection; grace period | permits are conserved; run returns; "drained" means it |
| Connection task, `handle_connection` | buffer, deadline, keep-alive | read, parse, route, respond | deadline against trickling clients, pipelining across shutdown, writes without a deadline | requests end; few are served after the signal |
| Registry actor, `src/registry.rs` | map of live connections | register, deregister, count | hears of starts and ends late | never over the limit, never leaks |
| Metrics, `src/metrics.rs` | two atomics | bump, load | read apart from the registry by `/status` | one answer is consistent |
| Parser, `src/http.rs` | none | `parse_head`, `build_response` | pure | unit-tested |

Connections talk to the registry over an unbounded channel, to the accept loop through
the permit they own, and hear of the shutdown through the watch flag.

## 2. Modules

| Module | What it is |
|---|---|
| `LinkService` | the use cases of url-shortener over SQLite and Redis, with failures, timeouts, disconnections, crashes and a clock |
| `HitCounter` | abstract: accepted hits are settled once, counted or lost |
| `HitBatcher` | the batching recorder (hits and views), implements `HitCounter` |
| `LinkHits` | `HitBatcher` composed with the links table, the redirects that feed it and the process-wide counter |
| `Registry` | the registry actor: channel, map, replies |
| `TcpServer` | accept loop, connections, shutdown, composed with `Registry` |
| `Http` | parse_head over a buffer of lines |
| `TcpConnection` | one connection with its buffer, its deadline and time, over `Http` |
| `RateLimiter` | the token buckets of both HTTP services, with concurrent checks and the sweeper |
| `BurnAfterRead` | abstract: a one-shot paste is claimed by one reader, who gets it or loses it |
| `PasteService` | the use cases of pastebin-service over SQLite and Redis, implements `BurnAfterRead` |
| `MemoryStore` | the in-memory repositories: task, mail box, replies |
| `HttpLayer` | what a request meets around its handler: rate limiter's verdict, queue and permit of its endpoint, timeout, disconnection |
| `WebService` | either service as `build_app` makes it: the handlers over `HttpLayer` and `MemoryStore`, with the immediate recorder |

`MCLinkService`, `MCLinkHits`, `MCTcpServer`, `MCTcpConnection`, `MCRateLimiter`,
`MCPasteService` and `MCWebService` are their TLC instances; `LinkServiceProofs`,
`HitBatcherProofs`, `LinkHitsProofs`, `TcpServerProofs`, `TcpConnectionProofs`,
`RateLimiterProofs`, `PasteServiceProofs` and `WebServiceProofs` hold the theorems.

### LinkService

One action is the code between two awaits, with the storage or cache call that ends it.
`req[p].pc` is the await a handler stands at: `resolve` is `CacheGet`, then `RepoGet`,
`CheckExpiry` (the clock is read once the row has arrived), `ChooseTtl` (it is read again),
`CacheSet` and `Record`, or `PurgeRepo` and `PurgeCache`. A link is the number of its
insertion, so that two links which had the same code at different times stay apart;
`links[l]` remembers its expiry and how it was removed, `repo` is the table and `cache` is
Redis with absolute deadlines. Validation, URLs, code generation and response bodies are a
choice among `Codes`. `ttl_seconds` keeps its wrap-around: `Signed` is `as i64` over a small
word (`SignBit`), and the addition saturates as in the code.

Time is in ticks, `Second` of which make a second. Requests, timeouts and the deadlines of
Redis see the ticks. `now_unix` does not: it cuts the fraction off (`NowUnix`), so an expiry
and the lifetime computed from it are in whole seconds, and what is left of a link's life is
rounded up. `Ticks` goes back, where Redis counts `EX ttl` from the instant of its SET.

Assumptions: the clock does not go back and Redis counts at the same rate; a call to SQLite
or Redis takes effect before its request is answered or cut off, or not at all; a Redis
`DEL` or `SET` may be lost silently. (A command already handed to the multiplexed Redis
connection when its handler is cut may take effect a little later; that delay is taken as
zero, and would add to the two bounds below.) `Timeout` is the TimeoutLayer: `Tick` does not
pass a due request, which is what `tower_http` gives up to scheduling delay.

### HitBatcher

`chan` is the tokio channel; a slot that frees goes to a caller already waiting
(`SlotFree`), as tokio's semaphore does. `task` is at its `select` or writing; a write
takes the entries of the map one by one, in any order, and each is counted or lost (no
row, or a failed write). `after` is what the task does when the map is empty. `phase` is
the process: serving, stopping, stopped by `main`, or (as in the tests) all handles
dropped. `mark` is history: what had been accepted when a flush was called.

### LinkHits

`LinkHits` extends `HitBatcher`: `links` has every link ever created with the hits of its
row, `table` binds codes to them, `redirects` is `Metrics.redirects`. `Redirect` is what a
handler does once `resolve` has found a link, in the table or in a cache that may still map
the code to a removed one: it records (or drops the hit when the channel is full), counts
and answers, all without an await. The bump of the counter is an atomic that nothing in
between reads, so it is one step with the `try_send`. `WriteRow` is `increment_hits_by`: the
sum of a code goes to whatever link is bound to it by then. `served` and `failed` are the
redirects of a link answered 302 and 500 (`HeaderValue` refuses the target after the hit was
recorded), and `strays` are the hits of its code that another link earned: those under way
when it was inserted, and those of a stale cached entry since.

The comment on `Link.hits`, "Number of successful redirects served" (`domain/mod.rs:130`), is
therefore an approximation: a 500 counts as well, and a hit can stray to the next link of
its code. `HitsWithinRedirects` says how far off a row can be.

### Registry and TcpServer

`TcpServer` has the accept loop's place (`acceptor`), the semaphore (`permits`) and one
program counter per connection (`task`): at which await of `handle_connection` it stands.
A buffer is reduced to what the parser says of its front (`Buffers`); time is left out, so
a timeout may fire whenever its await is pending. A task sends `deregister` when
`handle_connection` returns (`End`, the guard's `Drop`) and gives its permit back in a
later step (`Release`). `lateAccepts` and `lateRequests` are history.

`Serve` is three things in a row without an await: the counter of requests, the flag, and for
`/status` the message to the registry. Other threads may run in between, but nobody else's step
depends on more than one of them: a signal that comes after the flag was read can as well come
after the message, and whatever else happens in between, before the flag is read. So one
step has the same outcomes.

### Http and TcpConnection

`TcpServer` leaves out what a connection has in its buffer, and time; `TcpConnection` has
both, for one connection and without permits, registry and metrics. What the client sends is
a sequence of requests (`script`), each a sequence of lines with its body; a read takes up
to `ReadSize` of the lines not read yet, and the buffer is what has been read (`got`) and
not drained (`drained`). A line stands for the bytes up to a CRLF, so a read that ends
inside a line is left out, as is what a header says beyond what `parse_head` acts on. The
blank line that ends a head is the first one after another line: a buffer that starts with a
blank line has an empty request line. A head with a line that is not UTF-8 is refused as a
whole (`NotText`), before any line of it is read. `Proceed` is the loop of
`handle_connection` from the top to its next await. `Verdict` is the reference: the answer a
request calls for, taken by itself. `ClientAssumption` is about the client alone: the
requests it sends have an end of head and, where that is in order, the body they announce. A
request may still stop anywhere, since the client may close or fall silent at any line.
`Framed` and `AnsweredAsSent` need it (a client that lies about its body has no requests to
be framed by); `BufferBounded` and `ReadInTime` are proved without it.

### RateLimiter

A check is two steps: `ReadClock` (`Instant::now()`, before the lock) and `Locked` (the
rest of `check` under the `std` mutex, which no await and no other step interrupts). So
checks of one client settle in any order, and `Refilled` has the zero that
`duration_since` gives for an older clock. A token is `Scale` units and a tick is
`1/Scale` of a second, so a bucket gains `rps` units per tick and stays an integer; the
rounding of `f64` is left out. `Sweep` is the sweeper on time: no tick passes between its
timer, its own clock and the lock. `admitted`, `seen`, `back`, `evicted` and `touched` are
history: what was let through, by how much clocks went back, how often the bucket was
evicted. Rate, burst and `IdleEvict` are unrelated constants, as in the configuration, so an
evicted bucket need not have refilled (`Shortfall`).

### PasteService and BurnAfterRead

The conventions, and the ticks and whole seconds of time, are those of `LinkService`. A cache
hit is checked against its expiry (`CheckHit`), as is a row (`CheckPaste`), by a clock read
once it has arrived. `pastes` has every row ever inserted, since an
id can be drawn again once its row is gone; `table` is the table and `cache` is Redis. A
fetch that finds a one-shot paste goes on to `Take`, the effect of `DELETE ... RETURNING`
on whatever row the id is bound to by then, and `Taken`, where the handler has the answer
and serves it: a handler cut off between the two has burned a paste that nobody got.
`readers` counts who was served. `Phase` maps each paste to `BurnAfterRead`: stored,
claimed while some handler stands at `taken`, then served or lost, or removed.

### MemoryStore, HttpLayer and WebService

`MemoryStore` is the task of `infrastructure/memory.rs`. `Send` is `dispatch` up to the
await of its reply, `Handle` the loop's turn; `Forget` drops the caller's end of the reply and
leaves the command where it is. `StopTask` is the runtime shutting down: the mail is gone and
callers find the sender of their reply dropped. A row is named by the caller that inserted it
(nobody inserts twice) and `by` is who removed it. `Expire` is the passage of time.

`HttpLayer` follows how the router is put together. `Router::layer` wraps each method of each
route on its own, so the ConcurrencyLimitLayer makes one semaphore per endpoint, and the
permit is awaited before the handler's timeout starts. `queue` is that semaphore's FIFO queue;
`Leave` is hyper dropping the future of a closed connection, in the queue or in the handler.
With `MAX_CONCURRENT_REQUESTS=0`, which the configuration accepts, no request is ever
admitted; `HttpLayerAssumption` excludes it.

`WebService` puts the two together with the handlers of both services (`service` chooses) and
the immediate recorder. `doing` is the command a handler waits for: `create` is body, insert
and, when a generated key was taken, the next insert; the reads are `get`, then a purge of an
expired row or a `take` of a one-shot, then the count; `ready` is a ping. Each status comes
from the error chain of the code (`AppErrorOf`, `StatusOf`), or from axum's `Json` for a body it
does not take (`Rejections`).

## 3. Runs

| Run | Expect | What it shows | Bounds |
|---|---|---|---|
| `links` | pass | `TableIsTheStoredLinks`, `BoundedStaleness`, `BoundedOverrun`, `PurgedAfterAnExpiry` with every failure allowed | 2 requests, 1 code, 2 links, 3 s of 2 ticks |
| `links_stale` | violation | `CachedIsLive`: the comment in `resolve` says a cached entry is live | 2 requests, no failure |
| `links_purge` | violation | `PurgeOnlyExpired`: a lazy purge removes a link that has not expired | 2 requests, no failure |
| `hits` | pass | bounded memory, flush, shutdown, refinement of `HitCounter`, liveness, and over the table `EveryRedirectAccounted`, `HitsWithinRedirects` | 2 codes, 2 hits each, 2 slots, 2 flushers, 2 links, 3 redirects |
| `tcp_server` | pass | permits, registry, `/status`, drain, shutdown | 3 connections, 2 permits, 2 requests |
| `tcp_connection` | pass | `AnsweredAsSent`, `Framed`, `BufferBounded`, `ReadInTime` | 3 requests of 13 sorts, reads of 1 or 2 lines, heads of 4 lines, bodies of 2 |
| `rate` | pass | `Budget`, `OnlyRecentClients` | 2 clients, 2 checks at once, 4 in all, 11 ticks; a burst that a period does not refill |
| `rate_clock` | violation | `ExactBudget`: a client gets more than burst and refill | 1 client, 2 checks at once |
| `pastes` | pass | `BoundedStaleness`, `OneShotNotCached`, `RemovedForAReason`, `ServedInTime` and the refinement of `BurnAfterRead`, with every failure allowed | 2 requests, 1 id, 2 pastes, one-shot (with an expiry) or not (with or without), 3 s |
| `pastes_lost` | violation | `BurnedIsServed`: the timeout falls between take and answer | 2 requests, 2 s, no failure |
| `http` | pass | `TruthfulStatus`, `ExactCounts`, `NoLateHarm`, and that every request ends | 2 requests of any sort, an earlier row or none, 1 key, 1 permit, 1 expiry |
| `http_limit` | violation | `InFlightCapped`: more handlers run at once than the limit | the same |

`TypeOK` is an invariant of every passing run but `rate` and `http`, where it is only proved.

Why these bounds are enough. *links*: a hazard of the cache needs one request that read and
another that removes; one code bound to two links in turn is the smallest case where a stale
effect hits the wrong link, and six ticks let a request fill the cache at its timeout, the
entry live out its lifetime and another request serve it at the last moment. Two ticks to a
second are the fewest with a time between two seconds, which is where `now_unix` rounds; the
timeout of one tick stands for any, and the theorems are for any grain and any timeout.
Codes do not interact, except that a generated code is drawn again; the invariants also hold
with two codes and four ticks. `BoundedStaleness` is tight: with a bound smaller by one tick
TLC finds a counterexample. The largest overrun TLC finds is two ticks below the bound of
`BoundedOverrun`, one because the row was read before its expiry and one because the entry
was hit before its end: with finer ticks it comes as near as one likes. *hits*: three
redirects and two flushers overfill two slots; two codes reach `MaxPending`; two links are
of two codes or of one code in turn, where the hits of the first are written to the second,
and the second has a target that is refused. *tcp_server*: with three connections and two
permits one has to wait for another's permit; two requests let a pipelined client be
answered before and after the signal. *rate*: a bucket empties with two checks and refills
within the sweeper's period, which comes twice; two checks at once are enough to settle in
the wrong order. A bucket holds six units and gains five in a period, so an emptied one is
evicted before it is full; without the term for evictions in `Budget` TLC finds a
counterexample. *tcp_connection*: three requests put a served one before the one in hand and
another behind it; the sorts include a head at the limit, one beyond it by more than a read,
and a body that reads like a request. *pastes*: two requests read the same row before either
takes or purges it, and the second paste of the id is the one hit by a stale step; three
seconds let a request fill the cache at its timeout and another serve from it at the last
moment. Their seconds are of one tick each, since a hit is checked again and no bound
depends on the fraction; the theorems are for any `Second`. *http*: one request whose
command is left in the mail box, or whose steps are interleaved with another's, needs that
other and a row to hit; the row of a caller that is gone (`Earlier`) stands for whatever
happened before, so two requests reach what three would from an empty map. One key makes
every request meet the row of the other, and one permit makes the second wait. Each bound is
a constant (`MaxLinks`, `MaxRedirects`, `Horizon`, `MaxHits`, `MaxAccepted`, `MaxRequests`,
`MaxChecks`, `MaxPastes`, `MaxPipelined`, `MaxExpired`).

Deadlock checking is off: at the horizon, after the process has stopped, after `run`
has returned or when every request has ended nothing is left to do.

### What the violations say

* `links_stale`. A resolve reads the row; a delete removes the row and invalidates the
  cache; the resolve then writes its entry. With no request in flight Redis maps the code
  to a removed link, for up to 300 s. `BoundedStaleness` is what does hold.
* `links_purge`. Two requests read the same expired link; one purges it, the code is
  created anew, and the other's purge deletes the new link. `PurgedAfterAnExpiry` is what
  does hold: a purge always follows the expiry of some link of that code.
* `rate_clock`. Two checks of one client read the clock, the later one takes the lock
  first; the earlier one then sets the bucket's clock back, and the next check refills the
  same interval again. `Budget` is what does hold: the excess is the refill of the time
  by which clocks went back.
* `http_limit`. A create and a delete run at once under a limit of one, since each endpoint has
  a semaphore of its own. `config.rs:24` of url-shortener says "Max in-flight requests; excess
  requests wait (bounded by the timeout)", and the wait for a permit is not bounded by the
  timeout either: it comes before the timer starts. What does hold is `EveryRequestEnds`:
  those ahead in the queue are timed out or leave.
* `pastes_lost`. The row is deleted before its reader has the content; the request times
  out in between, and the paste is gone unread. `BurnAfterRead` is what does hold.

Three more disagreements show in runs that pass, where the property says what the code does
and a document says otherwise.

* `links`, `BoundedOverrun`. `url-shortener/README.md:37` says that expired links resolve as
  404, and line 194 and the comment of `cache_ttl_secs` (`mod.rs:224`) that an entry does not
  outlive its link. It may, by what `now_unix` rounds up (less than a second) and by what the
  SET is late (less than a request timeout); a hit is served without a look at the expiry,
  perhaps a request timeout later. So an expired link is redirected to for less than two
  request timeouts and a second. `pastebin-service/README.md:153` says the same of its
  entries, and there a hit is checked again (`ServedInTime`).
* `rate`, `Budget`. The comment on `IDLE_EVICT` (`rate_limit.rs:17`) says a bucket idle for
  600 s has refilled, so that forgetting it changes nothing. With `burst > 600 * rps`, which
  nothing excludes, it has not, and each eviction is worth what was missing.
* `tcp_connection`, `ReadInTime`. `tcp-actor-server/README.md:100` calls
  `REQUEST_TIMEOUT_SECS` a "per-read inactivity timeout". The code has one deadline for all
  reads of a request, as `config.rs:22` and `server.rs:13` say, and `ReadInTime` would not hold
  with a timeout per read. (Between requests it is the idle timeout.)

### Fairness

* `HitBatcher` and `LinkHits`: the task's steps, the timer, a waiting flusher and, once the
  server has stopped, `main` are weakly fair: the runtime polls what is ready, and a repository
  call returns (SQLite has a busy timeout). Nobody has to redirect or to flush, and the
  server need never stop. The select picks at random among ready branches; weak
  fairness of the timer is enough because the number of hits is bounded.
* `TcpServer`: the accept loop's own steps, the grace timer, the registry, the start of a
  spawned task, the receipt of a reply and the release of a permit. Clients owe nothing:
  they need not send, and need not read what is written to them.
* `WebService`: `Begin` (a free permit goes to the first in the queue, whose future is polled)
  and `TimeOut` (the Tokio timer fires). Nothing is assumed of the repository, whose task may
  stop or never take its turn, nor of the clients.
* `LinkService`, `PasteService`, `RateLimiter` and `TcpConnection` state safety only, without
  fairness. Time is in their guards: a tick does not pass a request, an interval or a deadline
  that is due.

## 4. Proofs

`LinkServiceProofs` proves, for all values of the constants that satisfy
`LinkServiceAssumption`, that `Spec` implies `[]TypeOK`, `[]TableIsTheStoredLinks`,
`[]PurgedAfterAnExpiry`, `[]BoundedStaleness` and `[]BoundedOverrun`.

None of the last three is inductive. A stale redirect is served by a request that
found a cache entry set by another request, which had read the row before it was removed;
so the bound at the end (`record`) needs one on the entry, and that one needs one on the
request about to set it. `IInv` states the chain:

1. a request is younger than `RequestTimeout` (`Tick` does not pass a due one);
2. a request at `ttl` or `cacheSet` started before its link was removed and before it
   expired, since it read the row after starting, and `start` with the lifetime it chose
   exceeds the expiry by less than the second that `NowUnix` may have cut off;
3. so an entry's deadline is at most `RequestTimeout + MaxCacheTtl` after the removal and
   less than `RequestTimeout` and a second after the expiry (`EntryOK`), and it is never past
   its deadline;
4. so a request that hits it starts before those times, and serves within another
   `RequestTimeout` (`RequestOK` at `record`).

A request at a purge step carries an expired link that is not newer than the link
stored under its code, which with the agreement of table and links gives
`PurgedAfterAnExpiry`. One lemma per action preserves `IInv`; `Inductive` combines them.
TLC checked `IInv` as an invariant before it was proved. Of the division in `NowUnix` the
proof uses that `Ticks(NowUnix(t))` is at most `t` and more than `t - Second`, and that an
expiry has been reached in whole seconds exactly when it has in ticks.

`TcpServerProofs` proves, for any limit and any number of connections and requests, that
`Spec` implies `[]TypeOK`, `[]PermitsAccounted`, `[]DrainedMeansClosed` and
`[]FewAfterShutdown`. The last three are not inductive by themselves. `IInv` adds:

1. a connection has a task exactly when its number is below `nextId` (`Numbered`), so the
   permit in the hands of `Accept` passes to a task that held none, and the count of
   `Holders` grows by one;
2. no task holds a permit once everything has drained (`Emptied`): `Drained` found all
   permits in the semaphore, so by `PermitsAccounted` there was no holder, and only a holder
   takes steps;
3. a late accept is the last (`LastAccept`), since the loop checks the flag before it waits
   again;
4. a connection that got a request routed after the signal is not kept alive
   (`LastRequest`), so it never comes back to its buffer.

The same module proves `[]RegistryWithinLimit`, `[]RegistryCatchesUp` and
`[]StatusIsConsistent`. The registry acts on commands long after they were sent, so these are
statements about what is still in the channel. `Replay` is the map after the first `k` of its
commands, and `InOrder` says of every such prefix that it is within the limit
(`NeverTooMany`), that a `deregister` is the last word of an ended connection (`LastWord`),
that whoever asks for the count is in the map when its turn comes (`AskedFromInside`), and
that the whole channel leads to the connections that run (`CatchesUp`). A `register` sent adds
one to the last prefix, which is at most the permits in tasks' hands; a command handled turns the
prefix of one into the map (`ReplayTail`). `StartsCounted` ties `connections_total` to the
tasks that have run.

`TcpConnectionProofs` proves all five properties of the run `tcp_connection`, for any
limits, requests and reads. `IInv` adds to `TypeOK` and `BufferBounded` what the task has in
hand at each await (`Reading`): nothing between requests, no more than a head while it looks
for the end of one, less than `total` while it waits for a body. So the buffer exceeds a
limit by at most one read, and the deadline of a request dates from its first line. `Frames`
relates that to the requests sent: what is drained are whole requests, a head is waited for
only while its end has not been read, and a request that is served is as long as it was
taken to be. It rests on two facts about the model's operators. One is that `FlattenSeq` of
a script is its requests end to end (`Framing`), and so the buffer begins with the next
request, wherever reads have cut it and whatever is pipelined behind. The other is that
`parse_head` looks at nothing beyond the end of the head: it finds the same end in the
buffer as in the request by itself (`HeadEnds`), and folds the header lines to the same
result or the same first error (`ScanHead`, `ParseVerdict`).

`RateLimiterProofs` proves `[]TypeOK`, `[]Budget` and `[]OnlyRecentClients` for any rates,
capacity, clients and number of checks at once. `Budget` is not inductive: it says nothing of
the tokens left. `IInv` adds that clocks read are not in the future (`ClocksPast`) and an
account per client (`Spent`): what was admitted and what its bucket still holds were paid by
the capacity, by the refill up to the bucket's own clock, by what clocks going back refilled
twice, and by what evicted buckets lacked. A bucket that is dropped has been idle for
`IdleEvict`; counted as full from that moment on, it is short of at most `Shortfall`, which is
one more eviction in the account. Nothing is assumed of burst and rate. For
`OnlyRecentClients`, `Remembered` bounds the next sweep by the last check and two periods.

`HitBatcherProofs` proves `[]TypeOK`, `[]Bounded`, `[]FlushCovers` and `[]NothingStranded` for
any codes, flushers and capacities. What a flush covers is a matter of places in the channel:
`Queued` says of each flush in it that the hits accepted before the call are settled, in the
map, or ahead of it (counted in a prefix, `Count`), and `Serving` the same of the flush the
task is at. `Marked` says that nothing is accepted after `main` has called its flush, so
nothing is left when it aborts the task; `Deserted` that a task which exits by itself has no
caller and an empty channel. `Conserved` accounts for every accepted hit throughout, and makes
each step one of `HitCounter`'s or a stutter: `BatcherCountsHits` is the refinement itself,
`Spec => CountsHits`.

`LinkHitsProofs` proves `[]HitsWithinRedirects` and `[]EveryRedirectAccounted` for the
composition. Every step of it is one of the batcher's or leaves the batcher alone
(`BatcherMoves`), so the batcher's invariant holds in it, and `Earned` adds to the hits of a link
those of its code that are under way while it is bound to it. `EveryRedirectAccounted` compares a
counter with a sum over codes of sums over rows. `Accounts` splits it: the rows of a code,
deleted ones included, add up to what was counted for it, and a redirect is accepted or dropped.
The lemmas on `MapThenSumSet` (`SumIs`, `SumSame`, `SumWith`, `SumChange`) say that it is the
sum in whatever order it is taken, and by how much it changes when a row or a code gets a hit.

`PasteServiceProofs` proves, for any clients, ids, lifetimes and timeouts, every property of
the run `pastes`, and `[]OneReader`: no one-shot paste is served twice. The argument has two
parts.

1. `IInv` has no time in it. A taken paste is held by one client, who has not read it
   (`HeldOK`), nobody has read what nobody removed (`UnreadOK`), and a cached paste is not a
   one-shot. Each action moves the phases of the pastes as `BurnAfterRead` allows
   (`PhaseStep`), so with the initial state `Implements` is `Spec => BurnsAfterRead`: the
   refinement itself, for every value of the constants.
2. `JInv` adds the clock, along the chain of `LinkServiceProofs`: when a request started,
   relative to the expiry and the removal of the paste it has in hand (`Timely`), how
   long an entry lives (`EntryTimely`), and when and why rows went (`Ledger`). A request about
   to take or to purge has a reason that is still good for whatever row the id is bound to by
   then.

`WebServiceProofs` proves `[]TypeOK`, `[]NoLateHarm`, `[]TruthfulStatus` and `[]ExactCounts` for
any requests, keys and permits.
`NoLateHarm` rests on the order of the mail box: the requests that had ended when another came
have ended for good (`PastEnded`), their commands are ahead of its own (`PastAhead`), and
once it has inserted its row none is left (`PastDone`). `Truth` is the invariant of what
responses say. A command in the mail box is what its sender waits for, or waited for when it was
cut off, and has had no effect (`MailOK`); a handler that has its reply knows the effect
(`InHandler`); so what it answers is so (`Truthful`), and an answered request has nothing left in
the mail box that could undo it. `HitsOK` bounds the hits of a key's row from both sides by the
requests whose count was executed; its lower bound needs the task to run, since a stopped one
answers nobody but loses what it had been sent.

**What the assumptions say of the code.** They are conditions on constants, and TLC
evaluates each on a run. Most are types, and limits that are positive where a zero would
leave nothing to model; `MemoryStoreAssumption` keeps the model's own values for replies
("none", "waiting", "stopped") apart from the names of callers, as the `Option` and `Result`
of the code do; and `ClientAssumption` (above) is used in the part of `TcpConnectionProofs`
about `Frames` only.

**Induction over data.** The induction theorems of the library take an operator as a
parameter, which the installed provers cannot instantiate. Where what a fold or a sum
computes is needed (`LinkHitsProofs`, `TcpConnectionProofs`), induction is on the *set* of
the numbers that have the property: `NatSets` derives it from the well-foundedness of `<`,
and the recursive function behind a fold is shown to exist, to be unique and to satisfy its
equation.

Only model-checked: the five violations, and liveness (`EveryHitSettles`, `EveryFlushReturns`,
`ShutdownReturns`, `StatusIsAnswered` and `EveryRequestEnds`), which like ENABLED is out of the
prover's reach. Every invariant and every refinement that a passing run checks is proved.

## 5. Not modelled

* Parsing and formatting (URLs, codes, JSON, the bytes of HTTP heads, responses, the static
  page), DTOs, `client_ip`, `/health` and `/metrics`, tracing, migrations: pure or plain I/O.
  That a request may be refused for what it carries is a choice in `WebService`.
* Configuration and the signal handlers: environment variables read once.
* The in-process cache, `InMemoryCache`: only unit tests use it.
* `CatchPanicLayer` and `DefaultBodyLimit`: no handler panics, and a body that is too long is
  one that is refused.
* The rounding of `f64` in the limiter, and `rps = 0`, which has no state.
* A wall clock that is set back, and the loss of SQLite's last commits on a power failure
  (`synchronous = NORMAL`).

## 6. Plan

1. Done: all modules of section 2, with their runs and the proofs of section 4.
2. An abstract task that both `TcpConnection` and the connection of `TcpServer` implement.
3. Proofs: that abstract task, once it is stated, and the safety part of its implementation
   by both.
