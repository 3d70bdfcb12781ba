------------------------------ MODULE MCTcpServer ------------------------------
(* TcpServer on a small instance. *)
EXTENDS TcpServer
==============================================================================
