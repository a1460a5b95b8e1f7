------------------------------- MODULE XModem -------------------------------
(* The XMODEM-CRC transport of lib/rescue/xmodem.c, as step functions.       *)
(*                                                                           *)
(* A message on the line is what one end reads in one go: a control          *)
(* character, a whole frame, or a mode command.  Data is counted in units of *)
(* 128 bytes, the payload of a SOH frame; an STX frame carries Big units.    *)
(* A frame remembers what the line did to it: nothing, a damaged payload     *)
(* ("crc"), a damaged block number ("number") or missing bytes ("short").    *)
EXTENDS Integers, Sequences

CONSTANTS
    Big,          \* units in an STX frame (8 on the chip)
    Retries,      \* reads xmodem_send_start makes (30 on the chip)
    MaxErrors     \* kXModemMaxErrors

ASSUME XModemAssumption ==
    /\ Big \in Nat \ {0, 1}
    /\ Retries \in Nat \ {0}
    /\ MaxErrors \in Nat \ {0}

\* (uint8_t)frame
Byte(n) == n % 256

Char(c) == [t |-> c]
Crc16   == Char("C")
Ack     == Char("ack")
Nak     == Char("nak")
Can     == Char("can")
Eof     == Char("eof")
Junk    == Char("junk")       \* any other character
Timeout == Char("timeout")    \* not on the line: the read returned nothing

xmodem_cancel == <<Can, Can>>

-----------------------------------------------------------------------------
(* The receiving end.                                                        *)

\* What one call returns for message m when block `frame' is due and
\* `len_available' units of the buffer are free.
xmodem_recv_frame(frame, len_available, m) ==
    IF m.t = "timeout" THEN "TimeoutStart"
    ELSE IF m.t = "eof" THEN "EndOfFile"
    ELSE IF m.t # "frame" THEN "Unknown"
    ELSE IF Len(m.units) > len_available THEN "BadLength"
    ELSE IF m.fault = "short" THEN "TimeoutData"
    ELSE IF m.fault = "number" \/ m.n # Byte(frame) THEN "Cancel"
    ELSE IF m.fault = "crc" THEN "Crc" ELSE "Ok"

-----------------------------------------------------------------------------
(* The sending end: xmodem_send as the record of its locals and the read it  *)
(* is blocked in.  Each step function takes the message read and returns the *)
(* new record with what is written to the line.                              *)

NoSend == [at |-> "over", rest |-> <<>>, block |-> 0, errors |-> 0,
           cancels |-> 0, tries |-> 0, result |-> "none"]

xmodem_send(data) ==
    [NoSend EXCEPT !.at = "start", !.rest = data, !.block = 1]

\* 128-byte frames once fewer than 1024 bytes are left.
BlockSize(s) == IF Len(s.rest) < Big THEN 1 ELSE Big

Frame(s) == [t |-> "frame", n |-> Byte(s.block), fault |-> "none",
             units |-> SubSeq(s.rest, 1, BlockSize(s))]

Step(s, out) == [s |-> s, out |-> out]
Stop(s, error) == Step([s EXCEPT !.at = "over", !.result = error], <<>>)

\* The head of the loop `while (len)', and xmodem_send_finish's EOF after it.
SendBlock(s) ==
    IF s.rest = <<>> THEN Step([s EXCEPT !.at = "finish"], <<Eof>>)
                     ELSE Step([s EXCEPT !.at = "data"], <<Frame(s)>>)

NextBlock(s) ==
    SendBlock([s EXCEPT !.rest = SubSeq(@, BlockSize(s) + 1, Len(@)),
                        !.block = @ + 1])

\* Characters that are not understood use up a try, as silence does.
xmodem_send_start(s, m) ==
    LET t == [s EXCEPT !.tries = @ + 1,
                       !.cancels = IF m.t = "can" THEN @ + 1 ELSE @]
    IN  IF m.t = "C" THEN SendBlock([s EXCEPT !.cancels = 0])
        ELSE IF m.t = "nak" THEN Stop(s, "Protocol")
        ELSE IF t.cancels >= 2 THEN Stop(s, "Cancel")
        ELSE IF t.tries = Retries THEN Stop(t, "TimeoutStart")
        ELSE Step(t, <<>>)

MutSendData(s, m) ==  \* a NAK is taken for an ACK
    LET t == IF m.t = "can" THEN [s EXCEPT !.cancels = @ + 1]
                            ELSE [s EXCEPT !.errors = @ + 1]
    IN  IF m.t = "timeout" THEN Stop(s, "TimeoutAck")
        ELSE IF m.t \in {"ack", "nak"} THEN NextBlock(s)
        ELSE IF t.cancels >= 2 THEN Stop(t, "Cancel")
        ELSE IF t.errors >= MaxErrors THEN Stop(t, "TooManyErrors")
        ELSE SendBlock(t)

\* The errors of all blocks are counted together.
xmodem_send_data(s, m) ==
    LET t == IF m.t = "can" THEN [s EXCEPT !.cancels = @ + 1]
                            ELSE [s EXCEPT !.errors = @ + 1]
    IN  IF m.t = "timeout" THEN Stop(s, "TimeoutAck")
        ELSE IF m.t = "ack" THEN NextBlock(s)
        ELSE IF t.cancels >= 2 THEN Stop(t, "Cancel")
        ELSE IF t.errors >= MaxErrors THEN Stop(t, "TooManyErrors")
        ELSE SendBlock(t)

\* The answer to EOF is read and not looked at.
xmodem_send_finish(s, m) == Stop(s, "Ok")

SendRead(s, m) == CASE s.at = "start" -> xmodem_send_start(s, m)
                    [] s.at = "data"  -> xmodem_send_data(s, m)
                    [] s.at = "finish" -> xmodem_send_finish(s, m)
=============================================================================
