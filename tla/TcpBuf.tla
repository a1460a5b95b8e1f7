------------------------------- MODULE TcpBuf -------------------------------
(***************************************************************************)
(* struct tcp_buf of Task_3/dv/tcp_server/tcp_server.c: the ring that the  *)
(* simulation thread and the socket thread share with no lock, no atomics  *)
(* and no volatile.  One thread puts and the other gets.                   *)
(*                                                                         *)
(* The accesses race, so the model is of what the built object does.       *)
(* Verilator compiles the DPI sources with -Os, and gcc at -Os and -O2     *)
(*   - loads both pointers once in put_byte, tests them, and if the ring   *)
(*     is full branches to itself: the loop never looks at rptr again;     *)
(*   - stores the byte first and then the wrapped wptr, in one store;      *)
(*   - in get_byte stores rptr + 1, NOT wrapped, before it loads the byte, *)
(*     and stores the wrapped value after that.                            *)
(* Each of those memory accesses is one step here.                         *)
(***************************************************************************)
EXTENDS Integers, Sequences

CONSTANTS Byte,          \* the values of a char
          BUFSIZE_BYTE,  \* 256 in the code
          ChecksFull     \* the caller of put_byte tests is_full first: TRUE for
                         \* the socket thread on buf_in (server_create), FALSE
                         \* for tcp_server_write on buf_out

ASSUME BufAssumption == /\ Byte # {}
                        /\ BUFSIZE_BYTE \in Nat \ {0, 1}
                        /\ ChecksFull \in BOOLEAN

VARIABLES rptr, wptr, buf,   \* struct tcp_buf
          put,               \* the putting thread: where it is, and its dat
          get,               \* the getting thread: where it is, and its rptr
          got                \* what its last call returned: result and *dat

vars == <<rptr, wptr, buf, put, get, got>>

Slot == 0 .. BUFSIZE_BYTE - 1
-----------------------------------------------------------------------------
(* tcp_buffer_is_full and tcp_buffer_is_empty on one load of each pointer. *)

MutFullLate ==  \* no slot kept free
    IF wptr >= rptr THEN wptr - rptr = BUFSIZE_BYTE ELSE rptr - wptr = 0

tcp_buffer_is_full ==
    IF wptr >= rptr THEN wptr - rptr = BUFSIZE_BYTE - 1 ELSE rptr - wptr = 1

tcp_buffer_is_empty == wptr = rptr

(* tcp_buffer_new: malloc leaves the bytes of buf as they come. *)
tcp_buffer_new ==
    /\ rptr = 0 /\ wptr = 0
    /\ buf \in [Slot -> Byte]
-----------------------------------------------------------------------------
(* The putting thread.  "check" is the caller's own test of is_full, made  *)
(* only if ChecksFull; "test", "store" and "publish" are put_byte.         *)

CallPut(b) ==
    /\ put.pc = "idle"
    /\ put' = [pc |-> IF ChecksFull THEN "check" ELSE "test", dat |-> b]
    /\ UNCHANGED <<rptr, wptr, buf, get, got>>

MutCheck ==  \* the socket loop without its test
    /\ put.pc = "check"
    /\ put' = [put EXCEPT !.pc = "test"]
    /\ UNCHANGED <<rptr, wptr, buf, get, got>>

Check ==
    /\ put.pc = "check"
    /\ put' = [put EXCEPT !.pc = IF tcp_buffer_is_full THEN "idle" ELSE "test"]
    /\ UNCHANGED <<rptr, wptr, buf, get, got>>

(* The only load of rptr in put_byte: "spin" has no way out. *)
PutTest ==
    /\ put.pc = "test"
    /\ put' = [put EXCEPT !.pc = IF tcp_buffer_is_full THEN "spin" ELSE "store"]
    /\ UNCHANGED <<rptr, wptr, buf, get, got>>

PutStore ==
    /\ put.pc = "store"
    /\ buf' = [buf EXCEPT ![wptr] = put.dat]
    /\ put' = [put EXCEPT !.pc = "publish"]
    /\ UNCHANGED <<rptr, wptr, get, got>>

PutPublish ==
    /\ put.pc = "publish"
    /\ wptr' = (wptr + 1) % BUFSIZE_BYTE
    /\ put' = [put EXCEPT !.pc = "idle"]
    /\ UNCHANGED <<rptr, buf, get, got>>

PutStep == Check \/ PutTest \/ PutStore \/ PutPublish
-----------------------------------------------------------------------------
(* The getting thread: tcp_buffer_get_byte, called again and again.        *)

GetTest ==
    /\ get.pc = "idle"
    /\ ~ tcp_buffer_is_empty
    /\ get' = [pc |-> "bump", r |-> rptr]
    /\ UNCHANGED <<rptr, wptr, buf, put, got>>

GetEmpty ==
    /\ get.pc = "idle"
    /\ tcp_buffer_is_empty
    /\ got' = [got EXCEPT !.ok = FALSE]
    /\ UNCHANGED <<rptr, wptr, buf, put, get>>

GetBump ==
    /\ get.pc = "bump"
    /\ rptr' = get.r + 1
    /\ get' = [get EXCEPT !.pc = "load"]
    /\ UNCHANGED <<wptr, buf, put, got>>

MutGetLoad ==  \* buf[++rptr]
    /\ get.pc = "load"
    /\ got' = [ok |-> TRUE, dat |-> buf[(get.r + 1) % BUFSIZE_BYTE]]
    /\ get' = [get EXCEPT !.pc = "wrap"]
    /\ UNCHANGED <<rptr, wptr, buf, put>>

GetLoad ==
    /\ get.pc = "load"
    /\ got' = [ok |-> TRUE, dat |-> buf[get.r]]
    /\ get' = [get EXCEPT !.pc = "wrap"]
    /\ UNCHANGED <<rptr, wptr, buf, put>>

MutGetWrap ==  \* off by one in the modulus
    /\ get.pc = "wrap"
    /\ rptr' = rptr % (BUFSIZE_BYTE + 1)
    /\ get' = [get EXCEPT !.pc = "idle"]
    /\ UNCHANGED <<wptr, buf, put, got>>

GetWrap ==
    /\ get.pc = "wrap"
    /\ rptr' = rptr % BUFSIZE_BYTE
    /\ get' = [get EXCEPT !.pc = "idle"]
    /\ UNCHANGED <<wptr, buf, put, got>>

GetStep == GetTest \/ GetBump \/ GetLoad \/ GetWrap
-----------------------------------------------------------------------------
Init ==
    /\ tcp_buffer_new
    /\ put \in [pc : {"idle"}, dat : Byte]
    /\ get = [pc |-> "idle", r |-> 0]
    /\ got \in [ok : {FALSE}, dat : Byte]

Next == (\E b \in Byte : CallPut(b)) \/ PutStep \/ GetStep \/ GetEmpty

Safe == Init /\ [][Next]_vars

(* Both threads are preemptive POSIX threads that keep running, and the    *)
(* getting one polls: jtagdpi_tick on every clock, server_create in its    *)
(* loop.  Nothing makes a caller put.                                      *)
Spec == Safe /\ WF_vars(PutStep) /\ WF_vars(GetStep)
-----------------------------------------------------------------------------
(* The queue the ring stands for.  rptr stands one past the array between  *)
(* GetBump and GetWrap, and the byte a reader has claimed and not yet      *)
(* loaded (pc "load") is still in the queue.                               *)

Wrapped(p) == IF p >= BUFSIZE_BYTE THEN p - BUFSIZE_BYTE ELSE p

Used == IF wptr >= Wrapped(rptr) THEN wptr - Wrapped(rptr)
                                 ELSE wptr - Wrapped(rptr) + BUFSIZE_BYTE

First == IF get.pc = "load" THEN get.r ELSE Wrapped(rptr)

Held == IF get.pc = "load" THEN Used + 1 ELSE Used

Content == [i \in 1 .. Held |-> buf[Wrapped(First + i - 1)]]

Fifo == INSTANCE ByteFifo WITH q <- Content, Capacity <- BUFSIZE_BYTE

(* The ring implements the queue: bytes come out once each, in the order   *)
(* they went in, whatever the interleaving of the unsynchronised accesses  *)
(* of the two threads; and each byte put is read in the end.               *)
FifoRefinement == Fifo!FifoSpec

(* Type correctness.  rptr reaches BUFSIZE_BYTE, out of the array, between *)
(* the two stores of get_byte; wptr never does.                            *)
TypeOK ==
    /\ rptr \in 0 .. BUFSIZE_BYTE
    /\ wptr \in Slot
    /\ buf \in [Slot -> Byte]
    /\ put \in [pc : {"idle", "check", "test", "store", "publish", "spin"},
                dat : Byte]
    /\ get \in [pc : {"idle", "bump", "load", "wrap"}, r : Slot]
    /\ got \in [ok : BOOLEAN, dat : Byte]

(* get_byte gives its slot back to the writer (rptr++) before it reads it. *)
(* The writer is never about to store into that very slot: the one slot    *)
(* is_full keeps free is what protects the late load.                      *)
NoSlotRace == ~ (put.pc = "store" /\ get.pc = "load" /\ wptr = get.r)

(* A caller that found the ring not full is never caught in the endless    *)
(* loop of put_byte, although the two tests read a racing rptr twice.      *)
CheckedPutNeverSpins == ChecksFull => put.pc # "spin"

(* A put that was started returns.                                         *)
PutReturns == put.pc # "idle" ~> put.pc = "idle"
=============================================================================
