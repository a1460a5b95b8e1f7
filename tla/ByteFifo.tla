------------------------------ MODULE ByteFifo ------------------------------
(***************************************************************************)
(* What struct tcp_buf promises its two users: a bounded first-in          *)
(* first-out queue of bytes with a non-blocking read.  The queue hides the *)
(* pointers, the wrap-around and the order of the memory accesses of       *)
(* tcp_server.c; TcpBuf is shown to implement it.                          *)
(***************************************************************************)
EXTENDS Naturals, Sequences

CONSTANTS Byte,      \* the values a char can have
          Capacity   \* the most bytes that are in the queue at one time

VARIABLES q,    \* the bytes put and not yet handed to the reader
          got   \* result of the last read: its return value and *dat

fifoVars == <<q, got>>

Put(b) ==
    /\ Len(q) < Capacity
    /\ q' = Append(q, b)
    /\ UNCHANGED got

GetByte ==
    /\ q # << >>
    /\ got' = [ok |-> TRUE, dat |-> Head(q)]
    /\ q' = Tail(q)

GetEmpty ==
    /\ q = << >>
    /\ got' = [got EXCEPT !.ok = FALSE]
    /\ UNCHANGED q

FifoInit ==
    /\ q = << >>
    /\ got \in [ok : {FALSE}, dat : Byte]

FifoNext == (\E b \in Byte : Put(b)) \/ GetByte \/ GetEmpty

FifoSafe == FifoInit /\ [][FifoNext]_fifoVars

FifoSpec == FifoSafe /\ WF_fifoVars(GetByte)
=============================================================================
