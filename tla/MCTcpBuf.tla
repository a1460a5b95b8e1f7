------------------------------ MODULE MCTcpBuf ------------------------------
(* TcpBuf on a ring of a few slots, filled as server_create fills buf_in.   *)
EXTENDS TcpBuf
=============================================================================
