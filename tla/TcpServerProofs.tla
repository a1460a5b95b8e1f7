--------------------------- MODULE TcpServerProofs ---------------------------
(***************************************************************************)
(* Proofs about TcpServer: for any number of clients, bytes and ring size, *)
(* and every interleaving of the two threads and the clients.              *)
(***************************************************************************)
EXTENDS TcpServer, FiniteSetTheorems, TLAPS

(* A close of the simulation thread is under way: the client it may lose   *)
(* is not lost yet.                                                        *)
Owed == IF host \in {"close", "zero"} THEN 1 ELSE 0

IInv == /\ srv = [pc |-> srv.pc, set |-> srv.set, conn |-> srv.conn, rd |-> srv.rd]
        /\ host = "freed" => At("done")
        /\ At("done") => cfd = 0
        /\ table \in [FD -> Conn \cup {NoConn}]
        /\ quit \in Nat
        /\ Cardinality(Orphans) + Owed <= quit

(* What the shutdown may leave open: a client for each close on the        *)
(* simulation thread, and none if there was no such close.                 *)
LeftOpenBounded ==
    host = "freed" => Cardinality({fd \in FD : table[fd] # NoConn}) <= quit
-----------------------------------------------------------------------------
(* The descriptors in question are finitely many.                          *)
LEMMA OrphansFinite ==
    /\ IsFiniteSet(Orphans) /\ Cardinality(Orphans) \in Nat
    /\ IsFiniteSet(Orphans') /\ Cardinality(Orphans') \in Nat
<1>1. Cardinality(Conn) \in Nat
    BY ServerAssumption, FS_CardinalityType
<1>2. IsFiniteSet(FD)
    BY <1>1, FS_Interval DEF FD
<1>3. Orphans \subseteq FD /\ Orphans' \subseteq FD
    BY DEF Orphans
<1>4. IsFiniteSet(Orphans) /\ IsFiniteSet(Orphans')
    BY <1>2, <1>3, FS_Subset
<1> QED
    BY <1>4, FS_CardinalityType

(* A step that loses no connection.                                        *)
LEMMA NoneLost ==
    ASSUME Orphans' \subseteq Orphans
    PROVE  Cardinality(Orphans') <= Cardinality(Orphans)
BY OrphansFinite, FS_Subset

(* tcp_server_client_close on the socket thread loses none.                *)
LEMMA CloseLemma ==
    ASSUME table \in [FD -> Conn \cup {NoConn}], CloseClient
    PROVE  /\ cfd' = 0 /\ table' \in [FD -> Conn \cup {NoConn}]
           /\ Orphans' \subseteq Orphans
<1>1. CASE cfd = 0
    BY <1>1 DEF CloseClient, Orphans
<1>2. CASE cfd # 0
    <2>1. cfd' = 0 /\ table' = [table EXCEPT ![cfd] = NoConn]
        BY <1>2 DEF CloseClient
    <2>2. table' \in [FD -> Conn \cup {NoConn}]
        BY <2>1
    <2>3. ASSUME NEW fd \in FD, table'[fd] # NoConn PROVE table[fd] # NoConn /\ fd # cfd
        BY <2>1, <2>3
    <2> QED
        BY <2>1, <2>2, <2>3 DEF Orphans
<1> QED
    BY <1>1, <1>2

(* accept loses none: there is no client when it stores the new one.       *)
LEMMA AcceptLemma ==
    ASSUME table \in [FD -> Conn \cup {NoConn}], NEW c \in Conn, Accept(c)
    PROVE  table' \in [FD -> Conn \cup {NoConn}] /\ Orphans' \subseteq Orphans
<1>1. cfd = 0 /\ 0 \notin FD /\ table' = [table EXCEPT ![cfd'] = c]
    BY DEF Accept, FD
<1>2. ASSUME NEW fd \in FD, table'[fd] # NoConn, fd # cfd'
      PROVE  table[fd] # NoConn /\ fd # cfd
    BY <1>1, <1>2
<1> QED
    BY <1>1, <1>2 DEF Orphans

(* Where the socket thread goes.                                           *)
LEMMA GotoLemma ==
    ASSUME IInv, NEW p, Goto(p)
    PROVE  /\ srv'.pc = p
           /\ srv' = [pc |-> p, set |-> srv.set, conn |-> srv.conn, rd |-> srv.rd]
<1> DEFINE r == [pc |-> srv.pc, set |-> srv.set, conn |-> srv.conn, rd |-> srv.rd]
<1>1. srv = r /\ srv' = [srv EXCEPT !.pc = p]
    BY DEF IInv, Goto
<1>2. [r EXCEPT !.pc = p] =
        [pc |-> p, set |-> srv.set, conn |-> srv.conn, rd |-> srv.rd]
    OBVIOUS
<1>3. srv' = [pc |-> p, set |-> srv.set, conn |-> srv.conn, rd |-> srv.rd]
    BY <1>1, <1>2
<1> QED
    BY <1>3

(* Every step of the socket thread keeps the invariant.                    *)
LEMMA ServerStep ==
    ASSUME IInv, Server
    PROVE  IInv'
<1>1. host' = host /\ quit' = quit /\ ~ At("done") /\ host # "freed"
    BY DEF IInv, Server, Start, LoopAgain, LoopEnds, Select, SelectFails, NothingToAccept,
       Accept, Reject, IsSet, ReadByte, ReadEnds, ReadDisappeared, ReadFails, Drain, Out,
       SendByte, SendPipe, SendFails, Cleanup, At
<1> DEFINE shape == srv' = [pc |-> srv'.pc, set |-> srv'.set, conn |-> srv'.conn,
                            rd |-> srv'.rd]
<1>2. ASSUME shape, At("done")' => cfd' = 0, table' \in [FD -> Conn \cup {NoConn}],
             Orphans' \subseteq Orphans
      PROVE  IInv'
    <2>1. Cardinality(Orphans') <= Cardinality(Orphans) /\ Owed' = Owed /\ Owed \in Nat
        BY <1>1, <1>2, NoneLost DEF Owed
    <2>2. Cardinality(Orphans') + Owed' <= quit'
        BY <1>1, <2>1, OrphansFinite DEF IInv
    <2> QED
        BY <1>1, <1>2, <2>2 DEF IInv
<1>3. ASSUME NEW p, Goto(p) PROVE srv'.pc = p /\ shape
    <2>1. srv' = [pc |-> p, set |-> srv.set, conn |-> srv.conn, rd |-> srv.rd]
        BY <1>3, GotoLemma
    <2> QED
        BY <2>1
<1>4. ASSUME shape, srv'.pc # "done", UNCHANGED <<cfd, table>>
      PROVE  IInv'
    BY <1>2, <1>4 DEF IInv, Orphans, At
<1>5. ASSUME CloseClient, shape
      PROVE  IInv'
    BY <1>2, <1>5, CloseLemma DEF IInv
<1>6. CASE LoopAgain
    BY <1>4, <1>6 DEF LoopAgain
<1>7. CASE Select
    <2> DEFINE r == [pc |-> srv.pc, set |-> srv.set, conn |-> srv.conn, rd |-> srv.rd]
    <2>1. PICK x, y : srv' = [r EXCEPT !.pc = "accept", !.conn = x, !.rd = y]
        BY <1>7 DEF Select, IInv
    <2>2. shape /\ srv'.pc = "accept"
        BY <2>1
    <2> QED
        BY <1>4, <1>7, <2>2 DEF Select
<1>8. CASE SelectFails
    <2> DEFINE r == [pc |-> srv.pc, set |-> srv.set, conn |-> srv.conn, rd |-> srv.rd]
    <2>1. PICK x, y : srv' = [r EXCEPT !.pc = "accept", !.conn = x, !.rd = y]
        BY <1>8 DEF SelectFails, IInv
    <2>2. shape
        BY <2>1
    <2> QED
        BY <1>5, <1>8, <2>2 DEF SelectFails
<1>9. ASSUME NEW c \in Conn, Accept(c) PROVE IInv'
    <2>1. shape /\ ~ At("done")'
        BY <1>3, <1>9 DEF Accept, At
    <2> QED
        BY <1>2, <1>9, <2>1, AcceptLemma DEF IInv
<1>10. CASE ReadByte
    BY <1>1, <1>4, <1>10 DEF ReadByte, IInv, At
<1>11. CASE ReadDisappeared \/ SendPipe \/ Cleanup
    <2>1. CloseClient /\ \E p \in {"drain", "out", "done"} : Goto(p)
        BY <1>11 DEF ReadDisappeared, SendPipe, Cleanup
    <2> QED
        BY <1>3, <1>5, <2>1
<1>12. CASE \/ Start \/ LoopEnds \/ NothingToAccept \/ (\E c \in Conn : Reject(c))
            \/ IsSet \/ ReadEnds \/ ReadFails \/ Drain \/ Out \/ SendByte \/ SendFails
    <2>1. /\ UNCHANGED <<cfd, table>>
          /\ \E p \in {"cleanup", "isset", "read", "drain", "abort", "loop", "out", "send"} :
               Goto(p)
        BY <1>12 DEF Start, LoopEnds, NothingToAccept, Reject, IsSet, ReadEnds, ReadFails,
           Drain, Out, SendByte, SendFails
    <2> QED
        BY <1>3, <1>4, <2>1
<1> QED
    BY <1>6, <1>7, <1>8, <1>9, <1>10, <1>11, <1>12 DEF Server

(* The simulation thread: between its test of ctx->cfd and its store of 0  *)
(* one client is owed, and the store loses at most the one in ctx->cfd.    *)
LEMMA HostStep ==
    ASSUME IInv, Host
    PROVE  IInv'
<1>1. srv' = srv
    BY DEF Host, tcp_server_read, NoAnswer, tcp_server_write, tcp_server_client_close,
       CloseCfd, ZeroCfd, tcp_server_close, Join
<1>2. host' = "freed" => At("done")
    BY DEF IInv, Host, tcp_server_read, NoAnswer, tcp_server_write,
       tcp_server_client_close, CloseCfd, ZeroCfd, tcp_server_close, Join
<1>3. ASSUME cfd' \in {cfd, 0}, table' \in [FD -> Conn \cup {NoConn}], quit' \in Nat,
             Cardinality(Orphans') + Owed' <= quit'
      PROVE  IInv'
    BY <1>1, <1>2, <1>3 DEF IInv, At
<1>4. CASE tcp_server_read \/ NoAnswer \/ tcp_server_write \/ tcp_server_close \/ Join
    <2>1. UNCHANGED <<cfd, table, quit>> /\ Owed' = Owed
        BY <1>4 DEF tcp_server_read, NoAnswer, tcp_server_write, tcp_server_close, Join,
           Owed
    <2>2. Orphans' = Orphans
        BY <2>1 DEF Orphans
    <2> QED
        BY <1>3, <2>1, <2>2 DEF IInv
<1>5. CASE tcp_server_client_close
    <2>1. /\ UNCHANGED <<cfd, table>> /\ quit' = quit + 1
          /\ Owed = 0 /\ Owed' = 1
        BY <1>5 DEF tcp_server_client_close, Owed
    <2>2. Orphans' = Orphans
        BY <2>1 DEF Orphans
    <2>3. Cardinality(Orphans') + 1 <= quit + 1
        BY <2>1, <2>2, OrphansFinite DEF IInv
    <2> QED
        BY <1>3, <2>1, <2>3 DEF IInv
<1>6. CASE CloseCfd
    <2>1. /\ UNCHANGED <<cfd, quit>> /\ Owed' = Owed /\ Owed \in Nat
          /\ table' = IF cfd = 0 THEN table ELSE [table EXCEPT ![cfd] = NoConn]
        BY <1>6 DEF CloseCfd, Owed
    <2>2. table' \in [FD -> Conn \cup {NoConn}] /\ Orphans' \subseteq Orphans
        BY <2>1 DEF IInv, Orphans
    <2>3. Cardinality(Orphans') <= Cardinality(Orphans)
        BY <2>2, NoneLost
    <2>4. Cardinality(Orphans') + Owed' <= quit'
        BY <2>1, <2>3, OrphansFinite DEF IInv
    <2> QED
        BY <1>3, <2>1, <2>2, <2>4 DEF IInv
<1>7. CASE ZeroCfd
    <2>1. UNCHANGED <<table, quit>> /\ cfd' = 0 /\ Owed = 1 /\ Owed' = 0
        BY <1>7 DEF ZeroCfd, Owed
    <2>2. Orphans' \subseteq Orphans \cup {cfd}
        BY <2>1 DEF Orphans
    <2>3. /\ IsFiniteSet(Orphans \cup {cfd})
          /\ Cardinality(Orphans \cup {cfd}) <= Cardinality(Orphans) + 1
          /\ Cardinality(Orphans \cup {cfd}) \in Nat
        BY OrphansFinite, FS_AddElement, FS_CardinalityType
    <2>4. Cardinality(Orphans') <= Cardinality(Orphans \cup {cfd})
        BY <2>2, <2>3, FS_Subset
    <2>5. Cardinality(Orphans') + Owed' <= quit'
        BY <2>1, <2>3, <2>4, OrphansFinite DEF IInv
    <2> QED
        BY <1>3, <2>1, <2>5 DEF IInv
<1> QED
    BY <1>4, <1>5, <1>6, <1>7 DEF Host

(* The clients hold no descriptor of the server.                           *)
LEMMA ClientStep ==
    ASSUME IInv, (\E c \in Conn : Client(c)) \/ UNCHANGED vars
    PROVE  IInv'
<1>1. UNCHANGED <<cfd, table, srv, host, quit>>
    BY DEF Client, Connect, Command, Receive, Leave, vars
<1> QED
    BY <1>1 DEF IInv, Orphans, Owed, At

(* The invariant holds in every state.                                     *)
LEMMA InductiveInvariant == Spec => []IInv
<1>1. Init => IInv
    <2> SUFFICES ASSUME Init PROVE IInv
        OBVIOUS
    <2>1. Orphans = {} /\ Owed = 0
        BY DEF Init, Orphans, Owed
    <2>2. Cardinality(Orphans) = 0
        BY <2>1, FS_EmptySet
    <2> QED
        BY <2>1, <2>2 DEF Init, IInv, At
<1>2. IInv /\ [Next]_vars => IInv'
    BY ServerStep, HostStep, ClientStep DEF Next
<1> QED
    BY <1>1, <1>2, PTL DEF Spec

(* For any number of clients and closes, and whichever way the stores of   *)
(* the two threads to ctx->cfd fall: each close of the simulation thread   *)
(* loses at most one connection, and nothing else loses any.               *)
THEOREM LossBounded == Spec => []OrphansBounded
<1>1. IInv => OrphansBounded
    <2> SUFFICES ASSUME IInv PROVE OrphansBounded
        OBVIOUS
    <2>1. Owed \in Nat
        BY DEF Owed
    <2>2. Cardinality(Orphans) + Owed <= quit /\ quit \in Nat
        BY DEF IInv
    <2> QED
        BY <2>1, <2>2, OrphansFinite DEF OrphansBounded
<1> QED
    BY <1>1, InductiveInvariant, PTL

(* When tcp_server_close has returned, at most as many connections are     *)
(* left open as the simulation thread has closed clients; without a 'Q',   *)
(* none.                                                                   *)
THEOREM ShutDownLeavesFew == Spec => []LeftOpenBounded
<1>1. IInv => LeftOpenBounded
    <2> SUFFICES ASSUME IInv, host = "freed"
                 PROVE  Cardinality({fd \in FD : table[fd] # NoConn}) <= quit
        BY DEF LeftOpenBounded
    <2>1. cfd = 0
        BY DEF IInv
    <2>2. {fd \in FD : table[fd] # NoConn} = Orphans
        BY <2>1 DEF Orphans, FD
    <2>3. Owed \in Nat
        BY DEF Owed
    <2>4. Cardinality(Orphans) + Owed <= quit /\ quit \in Nat
        BY DEF IInv
    <2>5. Cardinality(Orphans) <= quit
        BY <2>3, <2>4, OrphansFinite
    <2> QED
        BY <2>2, <2>5, Zenon
<1> QED
    BY <1>1, InductiveInvariant, PTL
=============================================================================
