----------------------------- MODULE TcpConnection -----------------------------
(****************************************************************************)
(* One connection of tcp-actor-server (handle_connection in src/server.rs)  *)
(* with its buffer, its deadline and time.  TcpServer has many connections, *)
(* and leaves these three out.                                              *)
(*                                                                          *)
(* What the client sends is chosen at the start, and how it is cut into     *)
(* reads is chosen by each read.  An action is the code between two awaits. *)
(****************************************************************************)
EXTENDS Http

CONSTANTS
  Requests,        \* the requests a client can send: their lines, with the body
  MaxPipelined,    \* bound of the model: requests of one client
  MaxBody,         \* config.max_body_bytes
  ReadSize,        \* the length of the read buffer
  RequestTimeout,  \* config.request_timeout
  Horizon          \* bound of the model: the last tick

ASSUME TcpConnectionAssumption ==
  /\ Requests \subseteq Seq(Lines) /\ <<>> \notin Requests
  /\ MaxPipelined \in Nat /\ MaxBody \in Nat
  /\ ReadSize \in Nat \ {0} /\ RequestTimeout \in Nat \ {0}
  /\ Horizon \in Nat

VARIABLES
  now,       \* the clock
  flag,      \* the watch flag: shut down
  script,    \* the requests the client sends
  got,       \* how many lines of them have been read
  drained,   \* how many of these have been drained from the buffer
  pc,        \* the await the task stands at
  until,     \* when a pending read times out
  total,     \* head_len + content_length of the request in hand
  keepAlive, \* keep_alive of the request in hand
  status,    \* the status of the response being written
  served,    \* requests routed
  begun      \* history: when the request in hand began to be read

vars == <<now, flag, script, got, drained, pc, until, total, keepAlive, status, served, begun>>
client == <<flag, script>>

Sent == FlattenSeq(script)
Buffer(from, to) == SubSeq(Sent, from + 1, to)

Init ==
  /\ now = 0 /\ flag = FALSE
  /\ script \in SeqOf(Requests, MaxPipelined)
  /\ got = 0 /\ drained = 0
  /\ pc = "idle" /\ until = RequestTimeout
  /\ total = 0 /\ keepAlive = FALSE /\ status = 0 /\ served = 0 /\ begun = 0

------------------------------------------------------------------------------
Stay == UNCHANGED <<total, keepAlive, status, served>>

End ==
  /\ pc' = "ended"
  /\ Stay /\ UNCHANGED <<until, begun>>

\* respond
Refuse(code) ==
  /\ pc' = "refuse" /\ status' = code
  /\ UNCHANGED <<until, total, keepAlive, served, begun>>

\* Mutant: every read has a timeout of its own.
DeadlinePerRead == now + RequestTimeout

\* The deadline of the request in hand: it is armed once, when the request begins.
Deadline == IF pc \in {"head", "body"} THEN until ELSE now + RequestTimeout

Begun == IF pc \in {"head", "body"} THEN begun ELSE now

\* The request is routed and its response built (/status asks the registry in between:
\* see TcpServer).
Serve(keep) ==
  /\ pc' = "write" /\ status' = 200
  /\ served' = served + 1
  /\ keepAlive' = (keep /\ ~flag)
  /\ begun' = Begun
  /\ UNCHANGED until

\* Between requests: the connection waits for the next one, unless it is shut down.
AwaitRequest ==
  \/ flag /\ End
  \/ ~flag /\ pc' = "idle" /\ until' = now + RequestTimeout /\ begun' = now /\ Stay

AwaitMore(where) == pc' = where /\ until' = Deadline /\ begun' = Begun

StatusOf(why) == CASE why = "malformed" -> 400 [] why = "headTooLarge" -> 431
                   [] why = "unsupported" -> 501 [] OTHER -> 0

\* Mutant: a body of any length is waited for.
NeverTooLong(n) == FALSE

BodyTooLong(n) == n > MaxBody

\* The loop of handle_connection with buffer buf, to its next await.
Proceed(buf) ==
  LET head == ParseHead(buf)
      whole == head.len + head.contentLength
  IN \/ buf = <<>> /\ AwaitRequest
     \/ buf # <<>> /\ head.result = "incomplete" /\ AwaitMore("head") /\ Stay
     \/ head.result \notin {"ok", "incomplete"} /\ Refuse(StatusOf(head.result))
     \/ head.result = "ok" /\ BodyTooLong(head.contentLength) /\ Refuse(413)
     \/ /\ head.result = "ok" /\ ~BodyTooLong(head.contentLength)
        /\ total' = whole
        /\ \/ Len(buf) < whole /\ AwaitMore("body") /\ keepAlive' = head.keepAlive
              /\ UNCHANGED <<status, served>>
           \/ Len(buf) >= whole /\ Serve(head.keepAlive)

\* One read: as many lines as there are, up to the size of the read buffer.
Arrive == \E n \in 1..ReadSize : got + n <= Len(Sent) /\ got' = got + n

\* read_idle and read_until in a head: bytes, and the head is parsed anew.
ReadHead ==
  /\ pc \in {"idle", "head"}
  /\ Arrive
  /\ Proceed(Buffer(drained, got'))
  /\ UNCHANGED <<now, client, drained>>

\* read_until in a body: the head is not parsed again.
ReadBody ==
  /\ pc = "body"
  /\ Arrive
  /\ \/ got' - drained < total /\ AwaitMore("body") /\ Stay
     \/ got' - drained >= total /\ Serve(keepAlive) /\ UNCHANGED total
  /\ UNCHANGED <<now, client, drained>>

Due == pc \in {"idle", "head", "body"} /\ now >= until

\* The idle timeout closes the connection, the deadline answers 408.
TimeOut ==
  /\ Due
  /\ \/ pc = "idle" /\ End
     \/ pc \in {"head", "body"} /\ Refuse(408)
  /\ UNCHANGED <<now, client, got, drained>>

\* The client closes its end, and a head is answered with 400.
Eof ==
  /\ \/ pc \in {"idle", "body"} /\ End
     \/ pc = "head" /\ Refuse(400)
  /\ UNCHANGED <<now, client, got, drained>>

\* A read fails; or the flag is set while the connection is idle.
Broken ==
  /\ pc \in {"idle", "head", "body"}
  /\ End
  /\ UNCHANGED <<now, client, got, drained>>

\* Mutant: whatever has been read is thrown away.
DrainAll == got

\* buf.drain(..total)
Drain == drained + total

\* write_all is done: the connection goes on with what is left in the buffer.
Written ==
  /\ pc = "write" /\ keepAlive
  /\ drained' = Drain
  /\ Proceed(Buffer(drained', got))
  /\ UNCHANGED <<now, client, got>>

\* write_all is done and the connection is not kept, or it failed; or the error has been
\* written.
WriteEnds ==
  /\ pc \in {"write", "refuse"}
  /\ End
  /\ UNCHANGED <<now, client, got, drained>>

Shutdown ==
  /\ ~flag /\ flag' = TRUE
  /\ UNCHANGED <<now, script, got, drained, pc, until, total, keepAlive, status, served, begun>>

\* A timeout fires on time.
Tick ==
  /\ now < Horizon /\ ~Due
  /\ now' = now + 1
  /\ UNCHANGED <<client, got, drained, pc, until, total, keepAlive, status, served, begun>>

Next ==
  \/ ReadHead \/ ReadBody \/ TimeOut \/ Eof \/ Broken
  \/ Written \/ WriteEnds
  \/ Shutdown \/ Tick

Spec == Init /\ [][Next]_vars

------------------------------------------------------------------------------
\* Every variable has the type the code gives it.
TypeOK ==
  /\ now \in Nat /\ flag \in BOOLEAN
  /\ script \in Seq(Requests)
  /\ got \in 0..Len(Sent) /\ drained \in 0..got
  /\ pc \in {"idle", "head", "body", "write", "refuse", "ended"}
  /\ until \in Nat /\ total \in 0..MaxHead + MaxBody /\ keepAlive \in BOOLEAN
  /\ status \in {0, 200, 400, 408, 413, 431, 501}
  /\ served \in Nat /\ begun \in Nat

\* How long the body of a request is, by the last line of its head that says so.
BodyLength(request) ==
  LET lengths == {i \in 2..HeadEnd(request) - 1 : request[i].kind = "contentLength"}
  IN IF lengths = {} THEN 0
     ELSE request[CHOOSE i \in lengths : \A j \in lengths : j <= i].arg

\* The answer a request calls for, on its own: how long its head is, whether it is text,
\* its first line that is not well-formed, and how long its body is.
Verdict(request) ==
  LET end == HeadEnd(request)
      Wrong(i) == IF i = 1 THEN request[i].kind # "request"
                  ELSE request[i].kind \in {"request", "garbage", "chunked", "blank", "binary"}
      wrong == {i \in 1..end - 1 : Wrong(i)}
  IN CASE end > MaxHead -> 431
       [] end <= MaxHead /\ NotText(request, end) -> 400
       [] end <= MaxHead /\ ~NotText(request, end) /\ wrong # {} ->
            LET first == CHOOSE i \in wrong : \A j \in wrong : i <= j
            IN IF first > 1 /\ request[first].kind = "chunked" THEN 501 ELSE 400
       [] OTHER -> IF BodyLength(request) > MaxBody THEN 413 ELSE 200

\* The client frames what it sends: a request has a head, and when that is in order, the
\* body it announces.  (It may stop anywhere in it, or be shut out.)
ASSUME ClientAssumption ==
  \A r \in Requests : /\ HeadEnd(r) # 0
                      /\ Verdict(r) = 200 => Len(r) = HeadEnd(r) + BodyLength(r)

\* Each request gets the answer it calls for, however the stream is cut into reads and
\* whatever else is pipelined behind it; only a request that did not arrive in whole may
\* get another, 400 or 408.
AnsweredAsSent ==
  /\ pc = "write" => Verdict(script[served]) = 200
  /\ pc = "refuse" =>
       \/ status = Verdict(script[served + 1])
       \/ status \in {400, 408} /\ got < Len(FlattenSeq(SubSeq(script, 1, served + 1)))

\* The connection stays framed: what has been drained are the requests that were served,
\* with their bodies, and nothing of the next one.
Framed ==
  LET gone == IF pc = "write" THEN served - 1 ELSE served
  IN pc \in {"idle", "head", "body", "write"} =>
       drained = Len(FlattenSeq(SubSeq(script, 1, gone)))

\* A connection's memory is bounded, whatever its client sends.
BufferBounded == got - drained <= MaxHead + MaxBody + ReadSize

\* A request that trickles in is cut off at one timeout after it began to be read.
ReadInTime == pc \in {"head", "body"} => now <= begun + RequestTimeout
==============================================================================
