----------------------------- MODULE TcpServer -----------------------------
(***************************************************************************)
(* Task_3/dv/tcp_server/tcp_server.c around its rings (those are TcpBuf):  *)
(* the socket thread server_create, the calls of the simulation thread,    *)
(* and the clients that come and go.  The two threads share ctx->cfd with  *)
(* no lock; every load of it that the socket thread uses is a step of its  *)
(* own, and so is each statement of a close by the simulation thread.      *)
(*                                                                         *)
(* A descriptor is a small number, the lowest free one is handed out, and  *)
(* 0 is what ctx->cfd holds when there is no client.  The rings are        *)
(* counters of the bytes in them.                                          *)
(***************************************************************************)
EXTENDS Integers, FiniteSetsExt

CONSTANTS Conn,         \* the connections clients may make
          MaxData,      \* bytes a client sends
          Window,       \* bytes a client has not read before send says EAGAIN
          RingMax,      \* bytes in a ring
          NoConn        \* no connection

ASSUME ServerAssumption ==
    /\ IsFiniteSet(Conn) /\ NoConn \notin Conn
    /\ MaxData \in Nat /\ Window \in Nat \ {0} /\ RingMax \in Nat \ {0}

FD == 1 .. Cardinality(Conn)

VARIABLES cfd, listening, socket_run,   \* ctx
          table,                        \* descriptor -> connection
          peer, data, unread,           \* per client: its state, bytes it sent
                                        \* and bytes it was sent, both unread
          sent,                         \* bytes it has sent in all
          buf_in, buf_out,
          srv,                          \* the socket thread: pc and read_fds
          host,                         \* the simulation thread's pc
          quit                          \* how often it has closed a client

clientvars == <<peer, data, unread, sent>>
vars == <<cfd, listening, socket_run, table, clientvars, buf_in, buf_out, srv, host, quit>>

ConnOf(fd) == IF fd = 0 THEN NoConn ELSE table[fd]

Closed(fd) == fd # 0 /\ ConnOf(fd) = NoConn

At(p) == srv.pc = p

Goto(p) == srv' = [srv EXCEPT !.pc = p]
-----------------------------------------------------------------------------
(* The socket thread. *)

(* start: the socket listens, or some call fails and the thread ends.      *)
Start ==
    /\ At("start")
    /\ \/ listening' = TRUE /\ Goto("loop")
       \/ listening' = FALSE /\ Goto("cleanup")
    /\ UNCHANGED <<cfd, socket_run, table, clientvars, buf_in, buf_out, host, quit>>

(* The loop test and FD_SET.                                               *)
LoopAgain ==
    /\ At("loop") /\ socket_run
    /\ srv' = [pc |-> "select", set |-> cfd, conn |-> FALSE, rd |-> 0]
    /\ UNCHANGED <<cfd, listening, socket_run, table, clientvars, buf_in, buf_out, host, quit>>

LoopEnds ==
    /\ At("loop") /\ ~ socket_run
    /\ Goto("cleanup")
    /\ UNCHANGED <<cfd, listening, socket_run, table, clientvars, buf_in, buf_out, host, quit>>

Waiting == {c \in Conn : peer[c] \in {"waiting", "waiting, gone"}}

Readable(fd) == /\ fd # 0
                /\ data[table[fd]] > 0 \/ peer[table[fd]] \in {"gone", "reset"}

(* tcp_server_client_close, called on this thread.                         *)
CloseClient ==
    /\ cfd' = 0
    /\ table' = IF cfd = 0 THEN table ELSE [table EXCEPT ![cfd] = NoConn]

(* select reports what is ready, or nothing after its 50 us.               *)
Select ==
    /\ At("select")
    /\ ~ Closed(srv.set)
    /\ srv' = [srv EXCEPT !.pc = "accept", !.conn = Waiting # {},
                          !.rd = IF Readable(srv.set) THEN srv.set ELSE 0]
    /\ UNCHANGED <<cfd, listening, socket_run, table, clientvars, buf_in, buf_out, host, quit>>

(* select fails with EBADF: the client is closed and the sets are used as  *)
(* FD_SET left them.                                                       *)
SelectFails ==
    /\ At("select")
    /\ Closed(srv.set)
    /\ CloseClient
    /\ srv' = [srv EXCEPT !.pc = "accept", !.conn = TRUE, !.rd = srv.set]
    /\ UNCHANGED <<listening, socket_run, clientvars, buf_in, buf_out, host, quit>>

NothingToAccept ==
    /\ At("accept")
    /\ ~ srv.conn \/ Waiting = {}
    /\ Goto("isset")
    /\ UNCHANGED <<cfd, listening, socket_run, table, clientvars, buf_in, buf_out, host, quit>>

(* client_tryaccept                                                        *)
Accepted(c) == [peer EXCEPT ![c] = IF @ = "waiting" THEN "open" ELSE "gone"]

MutAccept(c) ==  \* no test of ctx->cfd
    /\ At("accept") /\ srv.conn /\ c \in Waiting
    /\ LET fd == Min({d \in FD : table[d] = NoConn})
       IN  cfd' = fd /\ table' = [table EXCEPT ![fd] = c]
    /\ peer' = Accepted(c)
    /\ Goto("isset")
    /\ UNCHANGED <<listening, socket_run, data, unread, sent, buf_in, buf_out, host, quit>>

Accept(c) ==
    /\ At("accept") /\ srv.conn /\ c \in Waiting
    /\ cfd = 0
    /\ LET fd == Min({d \in FD : table[d] = NoConn})
       IN  cfd' = fd /\ table' = [table EXCEPT ![fd] = c]
    /\ peer' = Accepted(c)
    /\ Goto("isset")
    /\ UNCHANGED <<listening, socket_run, data, unread, sent, buf_in, buf_out, host, quit>>

Reject(c) ==
    /\ At("accept") /\ srv.conn /\ c \in Waiting
    /\ cfd # 0
    /\ peer' = [peer EXCEPT ![c] = "refused"]
    /\ Goto("isset")
    /\ UNCHANGED <<cfd, listening, socket_run, table, data, unread, sent, buf_in, buf_out, host, quit>>

(* FD_ISSET of whatever ctx->cfd is by now.                                *)
IsSet ==
    /\ At("isset")
    /\ Goto(IF cfd # 0 /\ cfd = srv.rd THEN "read" ELSE "drain")
    /\ UNCHANGED <<cfd, listening, socket_run, table, clientvars, buf_in, buf_out, host, quit>>

(* get_byte and tcp_buffer_put_byte: one round of the inner loop.          *)
ReadByte ==
    /\ At("read") /\ buf_in < RingMax
    /\ ConnOf(cfd) # NoConn /\ data[ConnOf(cfd)] > 0
    /\ data' = [data EXCEPT ![ConnOf(cfd)] = @ - 1]
    /\ buf_in' = buf_in + 1
    /\ UNCHANGED <<cfd, listening, socket_run, table, peer, unread, sent, buf_out, srv, host, quit>>

(* Nothing to read, the end of the stream (which is not told apart), or no *)
(* room; a read of descriptor 0, the terminal, is counted as nothing.      *)
ReadEnds ==
    /\ At("read")
    /\ \/ buf_in = RingMax
       \/ cfd = 0
       \/ /\ ConnOf(cfd) # NoConn /\ data[ConnOf(cfd)] = 0
          /\ peer[ConnOf(cfd)] # "reset"
    /\ Goto("drain")
    /\ UNCHANGED <<cfd, listening, socket_run, table, clientvars, buf_in, buf_out, host, quit>>

(* EBADF: the simulation thread has closed it.                             *)
ReadDisappeared ==
    /\ At("read") /\ buf_in < RingMax
    /\ Closed(cfd)
    /\ CloseClient
    /\ Goto("drain")
    /\ UNCHANGED <<listening, socket_run, clientvars, buf_in, buf_out, host, quit>>

(* ECONNRESET: the assertion in get_byte.                                  *)
ReadFails ==
    /\ At("read") /\ buf_in < RingMax
    /\ ConnOf(cfd) # NoConn /\ data[ConnOf(cfd)] = 0
    /\ peer[ConnOf(cfd)] = "reset"
    /\ Goto("abort")
    /\ UNCHANGED <<cfd, listening, socket_run, table, clientvars, buf_in, buf_out, host, quit>>

(* if (ctx->cfd != 0), and then one round of the loop over buf_out.        *)
Drain ==
    /\ At("drain")
    /\ Goto(IF cfd = 0 THEN "loop" ELSE "out")
    /\ UNCHANGED <<cfd, listening, socket_run, table, clientvars, buf_in, buf_out, host, quit>>

Out ==
    /\ At("out")
    /\ buf_out' = IF buf_out > 0 THEN buf_out - 1 ELSE 0
    /\ Goto(IF buf_out > 0 THEN "send" ELSE "loop")
    /\ UNCHANGED <<cfd, listening, socket_run, table, clientvars, buf_in, host, quit>>

(* put_byte: sent; EAGAIN while the client does not read, which is no step *)
(* here; EPIPE once the client has closed, at the second send at the       *)
(* latest; any other error aborts the simulation.                          *)
SendByte ==
    /\ At("send")
    /\ ConnOf(cfd) # NoConn /\ unread[ConnOf(cfd)] < Window
    /\ peer[ConnOf(cfd)] # "reset"
    /\ unread' = [unread EXCEPT ![ConnOf(cfd)] = @ + 1]
    /\ Goto("out")
    /\ UNCHANGED <<cfd, listening, socket_run, table, peer, data, sent, buf_in, buf_out, host, quit>>

MutSendPipe ==  \* the client is not closed: send again
    /\ At("send")
    /\ ConnOf(cfd) # NoConn /\ peer[ConnOf(cfd)] = "gone" /\ unread[ConnOf(cfd)] > 0
    /\ UNCHANGED vars

SendPipe ==
    /\ At("send")
    /\ ConnOf(cfd) # NoConn /\ peer[ConnOf(cfd)] = "gone" /\ unread[ConnOf(cfd)] > 0
    /\ CloseClient
    /\ Goto("out")
    /\ UNCHANGED <<listening, socket_run, clientvars, buf_in, buf_out, host, quit>>

(* A reset client, or none: the loop over buf_out goes on after a close.   *)
SendFails ==
    /\ At("send")
    /\ ConnOf(cfd) # NoConn => peer[ConnOf(cfd)] = "reset"
    /\ Goto("abort")
    /\ UNCHANGED <<cfd, listening, socket_run, table, clientvars, buf_in, buf_out, host, quit>>

Cleanup ==
    /\ At("cleanup")
    /\ CloseClient
    /\ listening' = FALSE
    /\ Goto("done")
    /\ UNCHANGED <<socket_run, clientvars, buf_in, buf_out, host, quit>>

Server == \/ Start \/ LoopAgain \/ LoopEnds \/ Select \/ SelectFails
          \/ NothingToAccept \/ (\E c \in Conn : Accept(c) \/ Reject(c))
          \/ IsSet \/ ReadByte \/ ReadEnds \/ ReadDisappeared \/ ReadFails
          \/ Drain \/ Out \/ SendByte \/ SendPipe \/ SendFails
          \/ Cleanup
-----------------------------------------------------------------------------
(* The simulation thread: what jtagdpi_tick calls, and the shutdown.       *)

Alive == ~ At("abort")

tcp_server_read ==
    /\ Alive /\ host = "idle" /\ buf_in > 0
    /\ buf_in' = buf_in - 1
    /\ host' = "command"
    /\ UNCHANGED <<cfd, listening, socket_run, table, clientvars, buf_out, srv, quit>>

NoAnswer ==
    /\ Alive /\ host = "command"
    /\ host' = "idle"
    /\ UNCHANGED <<cfd, listening, socket_run, table, clientvars, buf_in, buf_out, srv, quit>>

tcp_server_write ==
    /\ Alive /\ host = "command" /\ buf_out < RingMax
    /\ buf_out' = buf_out + 1
    /\ host' = "idle"
    /\ UNCHANGED <<cfd, listening, socket_run, table, clientvars, buf_in, srv, quit>>

(* tcp_server_client_close: the test, close(ctx->cfd), then the store.     *)
tcp_server_client_close ==
    /\ Alive /\ host = "command" /\ cfd # 0
    /\ host' = "close"
    /\ quit' = quit + 1
    /\ UNCHANGED <<cfd, listening, socket_run, table, clientvars, buf_in, buf_out, srv>>

CloseCfd ==
    /\ Alive /\ host = "close"
    /\ table' = IF cfd = 0 THEN table ELSE [table EXCEPT ![cfd] = NoConn]
    /\ host' = "zero"
    /\ UNCHANGED <<cfd, listening, socket_run, clientvars, buf_in, buf_out, srv, quit>>

ZeroCfd ==
    /\ Alive /\ host = "zero"
    /\ cfd' = 0
    /\ host' = "idle"
    /\ UNCHANGED <<listening, socket_run, table, clientvars, buf_in, buf_out, srv, quit>>

tcp_server_close ==
    /\ Alive /\ host = "idle"
    /\ socket_run' = FALSE
    /\ host' = "join"
    /\ UNCHANGED <<cfd, listening, table, clientvars, buf_in, buf_out, srv, quit>>

(* pthread_join and ctx_free                                               *)
Join ==
    /\ host = "join" /\ At("done")
    /\ host' = "freed"
    /\ UNCHANGED <<cfd, listening, socket_run, table, clientvars, buf_in, buf_out, srv, quit>>

Host == \/ tcp_server_read \/ NoAnswer \/ tcp_server_write
        \/ tcp_server_client_close \/ CloseCfd \/ ZeroCfd \/ tcp_server_close \/ Join
-----------------------------------------------------------------------------
(* The clients.  One that closes with answers it has not read resets the   *)
(* connection.                                                             *)

Connect(c) ==
    /\ peer[c] = "new" /\ listening
    /\ peer' = [peer EXCEPT ![c] = "waiting"]
    /\ UNCHANGED <<cfd, listening, socket_run, table, data, unread, sent, buf_in, buf_out, srv, host, quit>>

Command(c) ==
    /\ peer[c] \in {"waiting", "open"} /\ sent[c] < MaxData
    /\ sent' = [sent EXCEPT ![c] = @ + 1]
    /\ data' = [data EXCEPT ![c] = @ + 1]
    /\ UNCHANGED <<cfd, listening, socket_run, table, peer, unread, buf_in, buf_out, srv, host, quit>>

Receive(c) ==
    /\ peer[c] = "open" /\ unread[c] > 0
    /\ unread' = [unread EXCEPT ![c] = @ - 1]
    /\ UNCHANGED <<cfd, listening, socket_run, table, peer, data, sent, buf_in, buf_out, srv, host, quit>>

Leave(c) ==
    /\ peer[c] \in {"waiting", "open"}
    /\ peer' = [peer EXCEPT ![c] = CASE @ = "waiting"  -> "waiting, gone"
                                     [] unread[c] = 0  -> "gone"
                                     [] OTHER          -> "reset"]
    /\ UNCHANGED <<cfd, listening, socket_run, table, data, unread, sent, buf_in, buf_out, srv, host, quit>>

Client(c) == Connect(c) \/ Command(c) \/ Receive(c) \/ Leave(c)

Over == host = "freed" \/ ~ Alive

Init ==
    /\ cfd = 0 /\ listening = FALSE /\ socket_run = TRUE
    /\ table = [fd \in FD |-> NoConn]
    /\ peer = [c \in Conn |-> "new"]
    /\ data = [c \in Conn |-> 0] /\ unread = [c \in Conn |-> 0]
    /\ sent = [c \in Conn |-> 0]
    /\ buf_in = 0 /\ buf_out = 0
    /\ srv = [pc |-> "start", set |-> 0, conn |-> FALSE, rd |-> 0]
    /\ host = "idle" /\ quit = 0

Next == \/ Server \/ Host \/ (\E c \in Conn : Client(c))
        \/ Over /\ UNCHANGED vars

(* Both are threads that run, and a client reads what it is sent.          *)
Spec == /\ Init /\ [][Next]_vars
        /\ WF_vars(Server) /\ WF_vars(CloseCfd \/ ZeroCfd \/ Join)
        /\ \A c \in Conn : WF_vars(Receive(c))
-----------------------------------------------------------------------------
(* The connections that are open and that the server has no hold of.       *)
Orphans == {fd \in FD : table[fd] # NoConn /\ fd # cfd}

(* A close on the simulation thread ('Q') that races with the socket       *)
(* thread may zero ctx->cfd under a client that was accepted in between,   *)
(* so that there are two connections, one of which is never closed.  It    *)
(* costs at most that one client: no other step of either thread loses a   *)
(* connection, in whatever order the two store ctx->cfd.                   *)
OrphansBounded == Cardinality(Orphans) <= quit

(* tcp_server_close returns, unless the process has aborted: the socket    *)
(* thread is never stuck.                                                  *)
CloseReturns == ~ socket_run ~> Over
=============================================================================
