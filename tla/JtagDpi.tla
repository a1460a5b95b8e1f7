------------------------------ MODULE JtagDpi ------------------------------
(***************************************************************************)
(* Task_3/dv/jtagdpi/jtagdpi.c: the remote_bitbang interpreter that runs   *)
(* once per clock of the simulation, between the bytes of a debugger and   *)
(* the JTAG pins of the SoC.  The rings of tcp_server.c are here the       *)
(* queues that TcpBuf shows them to be; the one for the answers, buf_out,  *)
(* has its limit, for a put into a full buf_out never returns.             *)
(*                                                                         *)
(* The TAP drives a new TDO at each falling edge of TCK; the model counts  *)
(* those edges and lets TDO be the count, so that every answer tells which *)
(* bit it is.                                                              *)
(***************************************************************************)
EXTENDS Integers, Sequences, FiniteSets, FiniteSetsExt

(* A command byte: '0'..'7' as its three bits, 'r'..'u' as its two, 'R',   *)
(* 'B' (and 'b', which is as idle) and 'Q'.                                *)
Write(tck, tms, tdi) == [op |-> "write", tck |-> tck, tms |-> tms, tdi |-> tdi]

ResetCmd(trst, srst) == [op |-> "reset", trst |-> trst, srst |-> srst]

Writes == {Write(c, m, d) : c \in {0, 1}, m \in {0, 1}, d \in {0, 1}}

Resets == {ResetCmd(t, s) : t \in {0, 1}, s \in {0, 1}}

Read == [op |-> "R"]

Blink == [op |-> "B"]

Quit == [op |-> "Q"]

Cmds == Writes \cup Resets \cup {Read, Blink, Quit}

NoCmd == [op |-> "none"]

CONSTANTS Sends,        \* the commands the debugger uses
          MaxCmds,      \* how many it sends
          RingMax,      \* how many answers buf_out holds
          AssertSrst    \* the plusarg jtagdpi_assert_srst

ASSUME JtagAssumption == /\ Sends \subseteq Cmds
                         /\ MaxCmds \in Nat /\ RingMax \in Nat \ {0}
                         /\ AssertSrst \in BOOLEAN

VARIABLES sent,      \* what the debugger has sent, all of it
          inq,       \* bytes of it not yet read from the socket (buf_in)
          answers,   \* what it has been answered, all of it
          out,       \* how many of the answers are still in buf_out
          spinning,  \* the simulation is in a tcp_server_write for good
          connected, \* tcp_server_client_close has not been called
          pins,      \* tck, tms, tdi, trst_n, srst_n of struct jtagdpi_ctx
          cmd,       \* its lookahead buffer
          tdo        \* what the TAP drives

vars == <<sent, inq, answers, out, spinning, connected, pins, cmd, tdo>>
-----------------------------------------------------------------------------
reset_jtag_signals ==
    [tck |-> 0, tms |-> 0, tdi |-> 0, trst_n |-> 0,
     srst_n |-> IF AssertSrst THEN 0 ELSE 1]

(* get_cmd: the buffered command, or one from the socket.                  *)
MutGetCmd ==  \* the buffered command is not cleared
    IF cmd # NoCmd
    THEN [cmd |-> cmd, rest |-> inq, buffered |-> cmd]
    ELSE IF inq # <<>> THEN [cmd |-> Head(inq), rest |-> Tail(inq), buffered |-> NoCmd]
                       ELSE [cmd |-> NoCmd, rest |-> <<>>, buffered |-> NoCmd]

get_cmd ==
    IF cmd # NoCmd
    THEN [cmd |-> cmd, rest |-> inq, buffered |-> NoCmd]
    ELSE IF inq # <<>> THEN [cmd |-> Head(inq), rest |-> Tail(inq), buffered |-> NoCmd]
                       ELSE [cmd |-> NoCmd, rest |-> <<>>, buffered |-> NoCmd]

MutRises(c) == pins.tck # c.tck  \* either edge

(* A rising edge of TCK: the condition for looking ahead.                  *)
Rises(c) == pins.tck = 0 /\ c.tck = 1

Falls(c) == pins.tck = 1 /\ c.tck = 0

(* lookahead: an 'R' that follows is answered at once, anything else is    *)
(* kept for the next tick.                                                 *)
MutLookahead(rest) ==  \* what is not an 'R' is dropped
    IF rest = <<>> THEN [read |-> FALSE, rest |-> rest, buffered |-> NoCmd]
    ELSE [read |-> Head(rest) = Read, rest |-> Tail(rest), buffered |-> NoCmd]

lookahead(rest) ==
    IF rest = <<>> THEN [read |-> FALSE, rest |-> rest, buffered |-> NoCmd]
    ELSE IF Head(rest) = Read
         THEN [read |-> TRUE, rest |-> Tail(rest), buffered |-> NoCmd]
         ELSE [read |-> FALSE, rest |-> Tail(rest), buffered |-> Head(rest)]

(* tcp_server_write(tdo): returns only if buf_out has room.                *)
Answer ==
    /\ out < RingMax
    /\ out' = out + 1
    /\ answers' = Append(answers, tdo)

(* jtagdpi_tick with each kind of command; tdo is what the pin had before  *)
(* this tick, and the TAP sees the new pins after it.                      *)
TickWrite ==
    LET t == get_cmd
        c == t.cmd
    IN  /\ c.op = "write"
        /\ pins' = [pins EXCEPT !.tck = c.tck, !.tms = c.tms, !.tdi = c.tdi]
        /\ LET l == IF Rises(c) THEN lookahead(t.rest)
                    ELSE [read |-> FALSE, rest |-> t.rest, buffered |-> t.buffered]
           IN  /\ inq' = l.rest
               /\ cmd' = l.buffered
               /\ IF l.read THEN Answer ELSE UNCHANGED <<answers, out>>
        /\ tdo' = IF Falls(c) THEN tdo + 1 ELSE tdo
        /\ UNCHANGED <<sent, connected>>

MutTickReset ==  \* ~ for !
    LET t == get_cmd
    IN  /\ t.cmd.op = "reset"
        /\ pins' = [pins EXCEPT !.srst_n = 255 - t.cmd.srst,
                                !.trst_n = 255 - t.cmd.trst]
        /\ inq' = t.rest /\ cmd' = t.buffered
        /\ UNCHANGED <<sent, answers, out, connected, tdo>>

TickReset ==
    LET t == get_cmd
    IN  /\ t.cmd.op = "reset"
        /\ pins' = [pins EXCEPT !.srst_n = 1 - t.cmd.srst,
                                !.trst_n = 1 - t.cmd.trst]
        /\ inq' = t.rest /\ cmd' = t.buffered
        /\ UNCHANGED <<sent, answers, out, connected, tdo>>

TickRead ==
    LET t == get_cmd
    IN  /\ t.cmd.op = "R"
        /\ Answer
        /\ inq' = t.rest /\ cmd' = t.buffered
        /\ UNCHANGED <<sent, connected, pins, tdo>>

TickBlink ==
    LET t == get_cmd
    IN  /\ t.cmd.op = "B"
        /\ inq' = t.rest /\ cmd' = t.buffered
        /\ UNCHANGED <<sent, answers, out, connected, pins, tdo>>

TickQuit ==
    LET t == get_cmd
    IN  /\ t.cmd.op = "Q"
        /\ connected' = FALSE
        /\ inq' = t.rest /\ cmd' = t.buffered
        /\ UNCHANGED <<sent, answers, out, pins, tdo>>

(* A tick with an answer to give and no room for it: it never ends, and    *)
(* nobody sees what it had done.                                           *)
AnswerDue ==
    LET t == get_cmd
    IN  \/ t.cmd.op = "R"
        \/ t.cmd.op = "write" /\ Rises(t.cmd) /\ lookahead(t.rest).read

TickSpins ==
    /\ AnswerDue
    /\ out = RingMax
    /\ spinning' = TRUE
    /\ UNCHANGED <<sent, inq, answers, out, connected, pins, cmd, tdo>>

Tick ==
    /\ ~spinning
    /\ \/ TickSpins
       \/ /\ TickWrite \/ TickReset \/ TickRead \/ TickBlink \/ TickQuit
          /\ UNCHANGED spinning

(* The socket thread takes an answer from buf_out and sends it, while the  *)
(* debugger is connected and not otherwise.                                *)
SocketSends ==
    /\ connected
    /\ out > 0
    /\ out' = out - 1
    /\ UNCHANGED <<sent, inq, answers, spinning, connected, pins, cmd, tdo>>

(* The debugger; after a 'Q' it sends nothing more.                        *)
Send(c) ==
    /\ Len(sent) < MaxCmds
    /\ sent # <<>> => sent[Len(sent)] # Quit
    /\ sent' = Append(sent, c)
    /\ inq' = Append(inq, c)
    /\ UNCHANGED <<answers, out, spinning, connected, pins, cmd, tdo>>

Init ==
    /\ sent = <<>> /\ inq = <<>> /\ answers = <<>>
    /\ out = 0 /\ spinning = FALSE
    /\ connected = TRUE
    /\ pins = reset_jtag_signals
    /\ cmd = NoCmd
    /\ tdo = 0

Next == Tick \/ SocketSends \/ (\E c \in Sends : Send(c))

(* The simulation is clocked; of the socket thread nothing is assumed.     *)
Spec == Init /\ [][Next]_vars /\ WF_vars(Tick)
-----------------------------------------------------------------------------
(* The reference: the commands sent, taken one after the other with no     *)
(* lookahead.                                                              *)

(* Where the last command of a kind before the k-th is, or 0.              *)
LastBefore(op, k) == Max({0} \cup {j \in 1 .. k - 1 : sent[j].op = op})

PinsBefore(k) ==
    LET w == LastBefore("write", k)
        r == LastBefore("reset", k)
    IN  [tck |-> IF w = 0 THEN reset_jtag_signals.tck ELSE sent[w].tck,
         tms |-> IF w = 0 THEN reset_jtag_signals.tms ELSE sent[w].tms,
         tdi |-> IF w = 0 THEN reset_jtag_signals.tdi ELSE sent[w].tdi,
         trst_n |-> IF r = 0 THEN reset_jtag_signals.trst_n ELSE 1 - sent[r].trst,
         srst_n |-> IF r = 0 THEN reset_jtag_signals.srst_n ELSE 1 - sent[r].srst]

FallsBefore(k) ==
    Cardinality({j \in 1 .. k - 1 : /\ PinsBefore(j).tck = 1
                                    /\ PinsBefore(j + 1).tck = 0})

ReadsBefore(k) == Cardinality({j \in 1 .. k - 1 : sent[j] = Read})

Idle == inq = <<>> /\ cmd = NoCmd

(* Type correctness.                                                       *)
TypeOK ==
    /\ sent \in Seq(Cmds) /\ inq \in Seq(Cmds)
    /\ answers \in Seq(Nat)
    /\ out \in 0 .. RingMax
    /\ spinning \in BOOLEAN /\ connected \in BOOLEAN
    /\ pins \in [tck : {0, 1}, tms : {0, 1}, tdi : {0, 1}, trst_n : {0, 1},
                 srst_n : {0, 1}]
    /\ cmd \in Cmds \cup {NoCmd}
    /\ tdo \in Nat

(* Every answer the debugger has so far is the bit that a serial           *)
(* interpreter would have read at that 'R': looking ahead at a rising edge *)
(* changes no answer, skips none and gives none twice.                     *)
AnswersInOrder ==
    /\ Len(answers) <= ReadsBefore(Len(sent) + 1)
    /\ \A k \in 1 .. Len(sent) :
         sent[k] = Read /\ ReadsBefore(k) < Len(answers) =>
           answers[ReadsBefore(k) + 1] = FallsBefore(k)

(* With nothing left to read, every 'R' has been answered, the pins are    *)
(* those of the last write and reset, and a 'Q' has closed the connection. *)
AllDone ==
    Idle =>
      /\ Len(answers) = ReadsBefore(Len(sent) + 1)
      /\ pins = PinsBefore(Len(sent) + 1)
      /\ tdo = FallsBefore(Len(sent) + 1)
      /\ connected = (\A k \in 1 .. Len(sent) : sent[k] # Quit)

(* The debugger has asked for more answers than buf_out holds beyond those *)
(* that the socket thread has sent it.                                     *)
Overrun == ReadsBefore(Len(sent) + 1) - (Len(answers) - out) > RingMax

(* Each command is carried out, whatever the socket thread does, unless    *)
(* the simulation is caught by a full buf_out; and only a debugger that    *)
(* asks for more than the ring holds, without waiting for answers, can do  *)
(* that to it.                                                             *)
OnlyOverrunSpins == [][~spinning /\ spinning' => Overrun]_vars

Drains == []<>(Idle \/ spinning) /\ OnlyOverrunSpins
=============================================================================
