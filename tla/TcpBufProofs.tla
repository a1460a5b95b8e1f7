---------------------------- MODULE TcpBufProofs ----------------------------
(***************************************************************************)
(* Proofs about TcpBuf, for every size of the ring and every set of bytes. *)
(***************************************************************************)
EXTENDS TcpBuf, SequenceTheorems, TLAPS

(* The inductive invariant: what each thread may still rely on after the   *)
(* other one has moved.                                                    *)

(* The reader's private copy of rptr and the shared one.                   *)
ReaderView ==
    /\ get.pc \in {"idle", "bump"} => rptr \in Slot
    /\ get.pc = "bump" => rptr = get.r /\ wptr # rptr
    /\ get.pc \in {"load", "wrap"} => rptr = get.r + 1

(* A writer that has seen room still has it, and so does a caller that     *)
(* has checked; the byte it has stored is still there.                     *)
WriterView ==
    /\ put.pc \in {"store", "publish"} => Used < BUFSIZE_BYTE - 1
    /\ put.pc = "publish" => buf[wptr] = put.dat
    /\ ChecksFull /\ put.pc = "test" => Used < BUFSIZE_BYTE - 1

IInv == TypeOK /\ ReaderView /\ WriterView /\ CheckedPutNeverSpins
-----------------------------------------------------------------------------
(* The wrap of a pointer that is at most one past the array.               *)
LEMMA WrapLemma ==
    ASSUME NEW p \in 0 .. BUFSIZE_BYTE
    PROVE  p % BUFSIZE_BYTE = Wrapped(p)
BY BufAssumption DEF Wrapped

(* The test of tcp_buffer_is_full reads the number of bytes in the ring,   *)
(* also while rptr stands one past the array.                              *)
LEMMA FullLemma ==
    ASSUME TypeOK
    PROVE  tcp_buffer_is_full <=> Used = BUFSIZE_BYTE - 1
BY BufAssumption DEF TypeOK, tcp_buffer_is_full, Used, Wrapped, Slot
-----------------------------------------------------------------------------
LEMMA InitIInv == Init => IInv
<1> SUFFICES ASSUME Init PROVE IInv
    OBVIOUS
<1>1. got \in [ok : BOOLEAN, dat : Byte]
    BY DEF Init
<1>2. put.pc = "idle" /\ get.pc = "idle"
    BY DEF Init
<1>3. TypeOK
    BY <1>1, BufAssumption DEF Init, tcp_buffer_new, TypeOK, Slot
<1>4. ReaderView /\ WriterView /\ CheckedPutNeverSpins
    BY <1>2, BufAssumption
       DEF Init, tcp_buffer_new, ReaderView, WriterView, CheckedPutNeverSpins, Slot
<1> QED
    BY <1>3, <1>4 DEF IInv

LEMMA StepIInv == IInv /\ [Next]_vars => IInv'
<1> SUFFICES ASSUME IInv, [Next]_vars PROVE IInv'
    OBVIOUS
<1> USE BufAssumption DEF IInv
<1>1. ASSUME NEW b \in Byte, CallPut(b) PROVE IInv'
    BY <1>1 DEF CallPut, TypeOK, ReaderView, WriterView, CheckedPutNeverSpins, Used
<1>2. CASE Check
    <2>1. TypeOK' /\ ReaderView'
        BY <1>2 DEF Check, TypeOK, ReaderView, Slot
    <2>2. Used' = Used /\ Used \in 0 .. BUFSIZE_BYTE - 1
        BY <1>2 DEF Check, TypeOK, Used, Wrapped, Slot
    <2>3. WriterView' /\ CheckedPutNeverSpins'
        BY <1>2, <2>2, FullLemma DEF Check, TypeOK, WriterView, CheckedPutNeverSpins
    <2> QED
        BY <2>1, <2>3
<1>3. CASE PutTest
    <2>1. TypeOK' /\ ReaderView'
        BY <1>3 DEF PutTest, TypeOK, ReaderView, Slot
    <2>2. Used' = Used /\ Used \in 0 .. BUFSIZE_BYTE - 1
        BY <1>3 DEF PutTest, TypeOK, Used, Wrapped, Slot
    <2>3. WriterView' /\ CheckedPutNeverSpins'
        BY <1>3, <2>2, FullLemma DEF PutTest, TypeOK, WriterView, CheckedPutNeverSpins
    <2> QED
        BY <2>1, <2>3
<1>4. CASE PutStore
    BY <1>4 DEF PutStore, TypeOK, ReaderView, WriterView,
       CheckedPutNeverSpins, Used, Wrapped, Slot
<1>5. CASE PutPublish
    <2>1. wptr' = Wrapped(wptr + 1)
        BY <1>5, WrapLemma DEF PutPublish, TypeOK, Slot
    <2> QED
        BY <1>5, <2>1 DEF PutPublish, TypeOK, ReaderView, WriterView,
           CheckedPutNeverSpins, Used, Wrapped, Slot
<1>6. CASE GetTest
    BY <1>6 DEF GetTest, tcp_buffer_is_empty, TypeOK, ReaderView, WriterView,
       CheckedPutNeverSpins, Used, Wrapped, Slot
<1>7. CASE GetEmpty
    BY <1>7 DEF GetEmpty, TypeOK, ReaderView, WriterView,
       CheckedPutNeverSpins, Used
<1>8. CASE GetBump
    BY <1>8 DEF GetBump, TypeOK, ReaderView, WriterView,
       CheckedPutNeverSpins, Used, Wrapped, Slot
<1>9. CASE GetLoad
    BY <1>9 DEF GetLoad, TypeOK, ReaderView, WriterView,
       CheckedPutNeverSpins, Used, Slot
<1>10. CASE GetWrap
    <2>1. rptr' = Wrapped(rptr)
        BY <1>10, WrapLemma DEF GetWrap, TypeOK
    <2>2. rptr' \in Slot /\ Used' = Used
        BY <1>10, <2>1 DEF GetWrap, TypeOK, Used, Wrapped, Slot
    <2>3. TypeOK' /\ ReaderView'
        BY <1>10, <2>2 DEF GetWrap, TypeOK, ReaderView, Slot
    <2>4. WriterView' /\ CheckedPutNeverSpins'
        BY <1>10, <2>2 DEF GetWrap, WriterView, CheckedPutNeverSpins
    <2> QED
        BY <2>3, <2>4
<1>11. CASE UNCHANGED vars
    BY <1>11 DEF vars, TypeOK, ReaderView, WriterView, CheckedPutNeverSpins,
       Used, Wrapped
<1> QED
    BY <1>1, <1>2, <1>3, <1>4, <1>5, <1>6, <1>7, <1>8, <1>9, <1>10, <1>11
       DEF Next, PutStep, GetStep

LEMMA IInvAlways == Safe => []IInv
BY InitIInv, StepIInv, PTL DEF Safe

(* Every state of struct tcp_buf is well typed: wptr is always an index of *)
(* the array, and rptr is one or stands just past the end.                 *)
THEOREM TypeCorrect == Safe => []TypeOK
BY IInvAlways, PTL DEF IInv

(* The late load of get_byte is safe for every size of the ring: the       *)
(* writer is never about to store into the slot that is being read.        *)
THEOREM LateLoadIsSafe == Safe => []NoSlotRace
<1>1. IInv => NoSlotRace
    BY BufAssumption DEF IInv, TypeOK, ReaderView, WriterView, NoSlotRace, Used,
       Wrapped, Slot
<1> QED
    BY <1>1, IInvAlways, PTL

(* The socket thread, which checks is_full before it puts, never reaches   *)
(* the endless loop.                                                       *)
THEOREM CheckedPutIsSafe == Safe => []CheckedPutNeverSpins
BY IInvAlways, PTL DEF IInv
-----------------------------------------------------------------------------
(* The ring implements the queue.                                          *)

(* Content is a sequence of Held bytes; the writer's slot follows its last *)
(* byte.                                                                   *)
ContentFacts ==
    /\ Held \in 0 .. BUFSIZE_BYTE
    /\ First \in Slot
    /\ Content \in Seq(Byte)
    /\ Len(Content) = Held
    /\ \A i \in 1 .. Held : Content[i] = buf[Wrapped(First + i - 1)]
    /\ Held < BUFSIZE_BYTE => wptr = Wrapped(First + Held)

LEMMA ContentLemma == IInv => ContentFacts
<1> SUFFICES ASSUME IInv PROVE ContentFacts
    OBVIOUS
<1> USE BufAssumption
<1>1. Held \in 0 .. BUFSIZE_BYTE /\ First \in Slot
    BY DEF IInv, TypeOK, ReaderView, Held, First, Used, Wrapped, Slot
<1>2. \A i \in 1 .. Held : Wrapped(First + i - 1) \in Slot
    BY <1>1 DEF Wrapped, Slot
<1>3. \A i \in 1 .. Held : buf[Wrapped(First + i - 1)] \in Byte
    BY <1>2 DEF IInv, TypeOK
<1>4. Content \in [1 .. Held -> Byte]
    BY <1>3 DEF Content
<1>5. Content \in Seq(Byte) /\ Len(Content) = Held
    BY <1>1, <1>4, LenProperties
<1>6. Held < BUFSIZE_BYTE => wptr = Wrapped(First + Held)
    BY DEF IInv, TypeOK, ReaderView, Held, First, Used, Wrapped, Slot
<1> QED
    BY <1>1, <1>5, <1>6 DEF Content, ContentFacts

LEMMA InitRefines == Init => Fifo!FifoInit
<1> SUFFICES ASSUME Init PROVE Fifo!FifoInit
    OBVIOUS
<1>1. Held = 0
    <2>1. get.pc = "idle" /\ rptr = 0 /\ wptr = 0
        BY DEF Init, tcp_buffer_new
    <2>2. Wrapped(rptr) = 0
        BY <2>1, BufAssumption DEF Wrapped
    <2>3. Used = 0
        BY <2>1, <2>2 DEF Used
    <2> QED
        BY <2>1, <2>3 DEF Held
<1>2. Content \in Seq(Byte) /\ Len(Content) = 0
    BY <1>1, InitIInv, ContentLemma DEF ContentFacts
<1>3. Content = << >>
    BY <1>2, EmptySeq
<1> QED
    BY <1>3 DEF Init, Fifo!FifoInit

(* One more byte at the end: the publishing store of wptr is the put.      *)
LEMMA PublishRefines ==
    ASSUME IInv, IInv', PutPublish
    PROVE  Content' = Append(Content, put.dat) /\ Held < BUFSIZE_BYTE
<1> USE BufAssumption
<1>0. ContentFacts'
    BY ContentLemma, PTL
<1>1. wptr' = Wrapped(wptr + 1)
    BY WrapLemma DEF PutPublish, IInv, TypeOK, Slot
<1>2. put.pc = "publish" /\ UNCHANGED <<rptr, buf, get>>
    BY DEF PutPublish
<1>3. Held < BUFSIZE_BYTE /\ Held' = Held + 1 /\ First' = First
    BY <1>1, <1>2 DEF IInv, TypeOK, ReaderView, WriterView, Held, First, Used,
       Wrapped, Slot
<1>4. buf[Wrapped(First + Held)] = put.dat
    BY <1>2, <1>3, ContentLemma DEF ContentFacts, IInv, WriterView
<1>5. put.dat \in Byte
    BY DEF IInv, TypeOK
<1>6. /\ Content \in Seq(Byte) /\ Len(Content) = Held /\ Held \in Nat
      /\ \A i \in 1 .. Held : Content[i] = buf[Wrapped(First + i - 1)]
    BY ContentLemma DEF ContentFacts
<1>7. /\ Content' \in Seq(Byte) /\ Len(Content') = Held + 1
      /\ \A i \in 1 .. Held + 1 : Content'[i] = buf[Wrapped(First + i - 1)]
    <2>1. /\ Content' \in Seq(Byte) /\ Len(Content') = Held'
          /\ \A i \in 1 .. Held' : Content'[i] = buf'[Wrapped(First' + i - 1)]
        BY <1>0 DEF ContentFacts
    <2> QED
        BY <2>1, <1>2, <1>3
<1>8. /\ Append(Content, put.dat) \in Seq(Byte)
      /\ Len(Append(Content, put.dat)) = Held + 1
      /\ \A i \in 1 .. Held : Append(Content, put.dat)[i] = Content[i]
      /\ Append(Content, put.dat)[Held + 1] = put.dat
    BY <1>5, <1>6, AppendProperties
<1>9. \A i \in 1 .. Held + 1 : Content'[i] = Append(Content, put.dat)[i]
    <2>1. \A i \in 1 .. Held : Content'[i] = Append(Content, put.dat)[i]
        BY <1>6, <1>7, <1>8
    <2>2. Content'[Held + 1] = put.dat
        <3>1. Content'[Held + 1] = buf[Wrapped(First + (Held + 1) - 1)]
            BY <1>6, <1>7
        <3>2. First + (Held + 1) - 1 = First + Held
            BY <1>6, ContentLemma DEF ContentFacts, Slot
        <3> QED
            BY <3>1, <3>2, <1>4
    <2> QED
        BY <2>1, <2>2, <1>6, <1>8
<1> QED
    BY <1>3, <1>7, <1>8, <1>9, SeqEqual

(* The byte is stored behind the queue: it is not part of it yet.          *)
LEMMA StoreStutters ==
    ASSUME IInv, IInv', PutStore
    PROVE  Content' = Content
<1> USE BufAssumption
<1>1. put.pc = "store" /\ UNCHANGED <<rptr, wptr, get>>
    BY DEF PutStore
<1>2. Held' = Held /\ First' = First
    BY <1>1 DEF Held, First, Used, Wrapped
<1>3. \A i \in 1 .. Held : Wrapped(First + i - 1) \in Slot \ {wptr}
    BY <1>1 DEF IInv, TypeOK, ReaderView, WriterView, Held, First, Used, Wrapped, Slot
<1>4. \A i \in 1 .. Held : buf'[Wrapped(First + i - 1)] = buf[Wrapped(First + i - 1)]
    BY <1>3 DEF PutStore, IInv, TypeOK
<1> QED
    BY <1>2, <1>4 DEF Content

(* The load takes the first byte of the queue, and is the get.             *)
LEMMA LoadRefines ==
    ASSUME IInv, IInv', GetLoad
    PROVE  Fifo!GetByte
<1> USE BufAssumption
<1>0. ContentFacts'
    BY ContentLemma, PTL
<1>1. get.pc = "load" /\ get'.pc = "wrap" /\ UNCHANGED <<rptr, wptr, buf>>
    BY DEF GetLoad, IInv, TypeOK
<1>2. Held' = Held - 1 /\ Held # 0 /\ First = get.r /\ First' = Wrapped(First + 1)
    BY <1>1 DEF IInv, TypeOK, ReaderView, Held, First, Used, Wrapped, Slot
<1>3. /\ Content \in Seq(Byte) /\ Len(Content) = Held /\ Held \in Nat
      /\ First \in Slot
      /\ \A i \in 1 .. Held : Content[i] = buf[Wrapped(First + i - 1)]
    BY ContentLemma DEF ContentFacts
<1>4. /\ Content' \in Seq(Byte) /\ Len(Content') = Held - 1
      /\ \A i \in 1 .. Held - 1 : Content'[i] = buf[Wrapped(First' + i - 1)]
    <2>1. /\ Content' \in Seq(Byte) /\ Len(Content') = Held'
          /\ \A i \in 1 .. Held' : Content'[i] = buf'[Wrapped(First' + i - 1)]
        BY <1>0 DEF ContentFacts
    <2> QED
        BY <2>1, <1>1, <1>2
<1>5. Content # << >>
    BY <1>2, <1>3, EmptySeq
<1>6. Head(Content) = buf[get.r]
    <2>1. Head(Content) = Content[1]
        BY <1>3, <1>5, HeadTailProperties
    <2>2. Wrapped(First + 1 - 1) = First
        BY <1>3 DEF Wrapped, Slot
    <2> QED
        BY <2>1, <2>2, <1>2, <1>3
<1>7. /\ Tail(Content) \in Seq(Byte) /\ Len(Tail(Content)) = Held - 1
      /\ \A i \in 1 .. Held - 1 : Tail(Content)[i] = Content[i + 1]
    BY <1>3, <1>5, HeadTailProperties
<1>8. \A i \in 1 .. Held - 1 : Wrapped(First' + i - 1) = Wrapped(First + (i + 1) - 1)
    <2> SUFFICES ASSUME NEW i \in 1 .. Held - 1
                 PROVE  Wrapped(First' + i - 1) = Wrapped(First + (i + 1) - 1)
        OBVIOUS
    <2>1. Held <= BUFSIZE_BYTE
        BY ContentLemma DEF ContentFacts
    <2>2. CASE First + 1 < BUFSIZE_BYTE
        BY <2>2, <1>2, <1>3 DEF Wrapped, Slot
    <2>3. CASE First + 1 = BUFSIZE_BYTE
        <3>1. First' = 0
            BY <2>3, <1>2 DEF Wrapped
        <3>2. Wrapped(First' + i - 1) = i - 1
            BY <3>1, <2>1, <1>3 DEF Wrapped
        <3>3. Wrapped(First + (i + 1) - 1) = i - 1
            BY <2>3, <2>1, <1>3 DEF Wrapped, Slot
        <3> QED
            BY <3>2, <3>3
    <2> QED
        BY <2>2, <2>3, <1>3 DEF Slot
<1>9. \A i \in 1 .. Held - 1 : Content'[i] = Tail(Content)[i]
    <2> SUFFICES ASSUME NEW i \in 1 .. Held - 1 PROVE Content'[i] = Tail(Content)[i]
        OBVIOUS
    <2>1. i + 1 \in 1 .. Held
        BY <1>3
    <2> QED
        BY <2>1, <1>3, <1>4, <1>7, <1>8
<1>10. Content' = Tail(Content)
    BY <1>4, <1>7, <1>9, SeqEqual
<1> QED
    BY <1>5, <1>6, <1>10 DEF Fifo!GetByte, GetLoad

LEMMA StepRefines ==
    ASSUME IInv, IInv', [Next]_vars
    PROVE  [Fifo!FifoNext]_<<Content, got>>
<1> USE BufAssumption
<1>1. ASSUME NEW b \in Byte, CallPut(b) PROVE UNCHANGED <<Content, got>>
    BY <1>1 DEF CallPut, Content, Held, First, Used, Wrapped
<1>2. CASE Check \/ PutTest
    BY <1>2 DEF Check, PutTest, Content, Held, First, Used, Wrapped
<1>3. CASE PutStore
    BY <1>3, StoreStutters DEF PutStore
<1>4. CASE PutPublish
    <2>1. Fifo!Put(put.dat)
        BY <1>4, PublishRefines, ContentLemma DEF ContentFacts, Fifo!Put, PutPublish
    <2>2. put.dat \in Byte
        BY DEF IInv, TypeOK
    <2> QED
        BY <2>1, <2>2 DEF Fifo!FifoNext
<1>5. CASE GetTest
    <2>1. /\ get.pc = "idle" /\ get'.pc = "bump"
          /\ UNCHANGED <<rptr, wptr, buf, got>>
        BY <1>5 DEF GetTest
    <2> QED
        BY <2>1 DEF Content, Held, First, Used, Wrapped
<1>6. CASE GetEmpty
    <2>1. Content = << >>
        <3>1. Held = 0
            BY <1>6 DEF GetEmpty, tcp_buffer_is_empty, IInv, TypeOK, ReaderView,
               Held, Used, Wrapped, Slot
        <3> QED
            BY <3>1, ContentLemma, EmptySeq DEF ContentFacts
    <2>2. UNCHANGED Content
        BY <1>6 DEF GetEmpty, Content, Held, First, Used, Wrapped
    <2>3. Fifo!GetEmpty
        BY <1>6, <2>1, <2>2 DEF Fifo!GetEmpty, GetEmpty
    <2> QED
        BY <2>3 DEF Fifo!FifoNext
<1>7. CASE GetBump
    <2>1. /\ get.pc = "bump" /\ get'.pc = "load" /\ get'.r = rptr
          /\ rptr' = rptr + 1 /\ rptr \in Slot /\ wptr \in Slot /\ wptr # rptr
          /\ UNCHANGED <<wptr, buf, got>>
        BY <1>7 DEF GetBump, IInv, TypeOK, ReaderView
    <2>2. Used = Used' + 1 /\ Wrapped(rptr) = rptr
        BY <2>1 DEF Used, Wrapped, Slot
    <2>3. Held' = Held /\ First' = First
        BY <2>1, <2>2 DEF Held, First
    <2> QED
        BY <2>1, <2>3 DEF Content, Wrapped
<1>8. CASE GetLoad
    BY <1>8, LoadRefines DEF Fifo!FifoNext
<1>9. CASE GetWrap
    <2>1. rptr' = Wrapped(rptr)
        BY <1>9, WrapLemma DEF GetWrap, IInv, TypeOK
    <2>2. /\ get.pc = "wrap" /\ get'.pc = "idle"
          /\ UNCHANGED <<wptr, buf, got>>
        BY <1>9 DEF GetWrap, IInv, TypeOK
    <2>3. Wrapped(rptr') = Wrapped(rptr)
        BY <2>1 DEF IInv, TypeOK, Wrapped
    <2>4. Held' = Held /\ First' = First
        BY <2>2, <2>3 DEF Held, First, Used, Wrapped
    <2> QED
        BY <2>2, <2>4 DEF Content, Wrapped
<1>10. CASE UNCHANGED vars
    BY <1>10 DEF vars, Content, Held, First, Used, Wrapped
<1> QED
    BY <1>1, <1>2, <1>3, <1>4, <1>5, <1>6, <1>7, <1>8, <1>9, <1>10
       DEF Next, PutStep, GetStep

(* For every size of the ring, the racing accesses of the two threads are  *)
(* those of a bounded first-in first-out queue.                            *)
THEOREM RingIsFifo == Safe => Fifo!FifoSafe
<1>1. IInv /\ IInv' /\ [Next]_vars => [Fifo!FifoNext]_<<Content, got>>
    BY StepRefines
<1> QED
    BY <1>1, InitRefines, IInvAlways, PTL DEF Safe, Fifo!FifoSafe, Fifo!fifoVars
=============================================================================
