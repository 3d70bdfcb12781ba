---------------------------- MODULE MCTcpConnection ----------------------------
(* TcpConnection on a small instance, with one request of every sort.       *)
EXTENDS TcpConnection

Get(minor) == Line("request", minor)
Blank == Line("blank", 0)
Length(n) == Line("contentLength", n)
Host == Line("header", 0)

\* Two that are short, one that fills the head exactly and one that exceeds it by more
\* than a read, one whose body looks like a request, one whose body is too large (its
\* client waits for the answer), one with two lengths, and six that are refused for
\* their lines.
SampleRequests ==
  {<<Get(1), Blank>>,
   <<Get(0), Line("keepAlive", 0), Blank>>,
   <<Get(1), Host, Host, Blank>>,
   <<Get(1), Host, Host, Host, Host, Host, Host, Host, Host, Blank>>,
   <<Get(1), Length(2), Blank, Get(1), Blank>>,
   <<Get(1), Length(4), Blank, Host>>,
   <<Get(1), Length(3), Length(0), Blank>>,
   <<Get(1), Line("chunked", 0), Blank>>,
   <<Get(1), Line("garbage", 0), Line("chunked", 0), Blank>>,
   <<Get(1), Line("chunked", 0), Line("binary", 0), Blank>>,
   <<Get(1), Line("close", 0), Get(1), Blank>>,
   <<Line("garbage", 0), Blank>>,
   <<Blank, Get(1), Blank>>}
==============================================================================
