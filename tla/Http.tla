--------------------------------- MODULE Http ---------------------------------
(****************************************************************************)
(* parse_head of tcp-actor-server (src/http.rs): the head of a request at   *)
(* the front of a buffer, which it is called on again whenever more has     *)
(* been read.                                                               *)
(*                                                                          *)
(* A buffer is a sequence of lines instead of bytes, and sizes count lines. *)
(* A line has a kind, and an argument: the minor version of a request line  *)
(* or the number of a Content-Length.                                       *)
(****************************************************************************)
EXTENDS Integers, Sequences, SequencesExt

CONSTANT MaxHead  \* MAX_HEAD_BYTES

ASSUME HttpAssumption == MaxHead \in Nat \ {0}

Line(kind, arg) == [kind |-> kind, arg |-> arg]

\* "garbage" is neither a request line nor a header, or is a Content-Length that is not
\* a number; "binary" is a line that is not UTF-8; "close" and "keepAlive" are Connection
\* headers; "header" is any header that parse_head skips.
Kinds == {"blank", "request", "contentLength", "chunked", "close", "keepAlive", "header",
          "garbage", "binary"}
Lines == [kind : Kinds, arg : Nat]

Parsed(result, keepAlive, contentLength, len) ==
  [result |-> result, keepAlive |-> keepAlive, contentLength |-> contentLength, len |-> len]
Failed(why) == Parsed(why, FALSE, 0, 0)

\* The first blank line after another line, which is where CRLF CRLF first occurs; 0 if
\* there is none.
HeadEnd(buf) ==
  LET ends == {i \in 2..Len(buf) : buf[i].kind = "blank"}
  IN IF ends = {} THEN 0 ELSE CHOOSE i \in ends : \A j \in ends : i <= j

\* The request line: HTTP/1.1 keeps the connection, HTTP/1.0 does not.
RequestLine(line, len) ==
  IF line.kind = "request" THEN Parsed("ok", line.arg = 1, 0, len) ELSE Failed("malformed")

\* One header line; after an error the rest is not looked at.
Header(head, line) ==
  CASE head.result # "ok" -> head
    [] head.result = "ok" /\ line.kind = "contentLength" ->
         [head EXCEPT !.contentLength = line.arg]
    [] head.result = "ok" /\ line.kind = "chunked" -> Failed("unsupported")
    [] head.result = "ok" /\ line.kind \in {"close", "keepAlive"} ->
         [head EXCEPT !.keepAlive = (line.kind = "keepAlive")]
    [] head.result = "ok" /\ line.kind = "header" -> head
    [] OTHER -> Failed("malformed")

\* Mutant: the limit is on the buffer, which may hold more than the head.
TooLargeInBuffer(buf, end) == Len(buf) > MaxHead

\* Mutant: the limit is only on a head that has ended.
TooLargeOnceEnded(buf, end) == end > MaxHead

\* The limit is on the head, or on the buffer while the end of the head is not in it.
TooLarge(buf, end) == IF end = 0 THEN Len(buf) > MaxHead ELSE end > MaxHead

\* The head is text or it is refused as a whole, before any line of it is read.
NotText(buf, end) == \E i \in 1..end - 1 : buf[i].kind = "binary"

ParseHead(buf) ==
  LET end == HeadEnd(buf) IN
  CASE TooLarge(buf, end) -> Failed("headTooLarge")
    [] ~TooLarge(buf, end) /\ end = 0 -> Failed("incomplete")
    [] ~TooLarge(buf, end) /\ end # 0 /\ NotText(buf, end) -> Failed("malformed")
    [] OTHER -> FoldLeft(Header, RequestLine(buf[1], end), SubSeq(buf, 2, end - 1))
==============================================================================
