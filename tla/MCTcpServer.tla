---------------------------- MODULE MCTcpServer ----------------------------
(* TcpServer with one client that is there and one that comes.              *)
EXTENDS TcpServer
=============================================================================
