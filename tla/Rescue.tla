------------------------------- MODULE Rescue -------------------------------
(* The ROM_EXT's serial rescue: the device's protocol loop                   *)
(* (lib/rescue/rescue_xmodem.c, rescue.c) over XMODEM, a line that loses and *)
(* damages what it carries, and the host at the other end.  The host is not  *)
(* part of the repository; it uses the same xmodem routines the device does. *)
EXTENDS XModem, FiniteSets, SequencesExt

CONSTANTS
    Cap,          \* units in state->data (2048 bytes: 16 on the chip)
    Svc,          \* units of a boot_svc_msg_t (2 on the chip)
    Region,       \* pages of the rescue region of a slot
    Staged,       \* what the device sends: [the send modes -> Seq(unit)]
    Configs,      \* values of `config' to consider
    Jobs,         \* what the host may ask for: [mode, image] records
    MaxJobs,      \* bound: jobs the host starts
    MaxBoots,     \* bound: times rescue is entered
    MaxPrompts    \* bound: start characters on the line

ASSUME RescueAssumption ==
    /\ Cap \in Nat /\ Svc \in 1..Cap /\ Region \in Nat \ {0}
    /\ Cap % Big = 0
    /\ MaxJobs \in Nat /\ MaxBoots \in Nat \ {0} /\ MaxPrompts \in Nat \ {0}

VARIABLES
    config,   \* [allowed: the command list, ownable: an owner block is wanted]
    dev,      \* rescue_state_t, where `protocol' is blocked, what it returned
    mem,      \* the two firmware slots, owner page 1, the boot service message
    host,     \* the host's job and its xmodem state
    toDev, toHost,   \* the line
    jobs, boots      \* counted against the bounds

vars == <<config, dev, mem, host, toDev, toHost, jobs, boots>>

Firmware  == {"RESQ", "RESB"}
SendModes == DOMAIN Staged
RecvModes == Firmware \cup {"OWNR", "BREQ"}
Modes     == SendModes \cup RecvModes \cup {"REBO"}

\* A page of flash is what was programmed, nothing if erased, or spoilt.
Spoilt  == <<"spoilt">>
Erased  == [p \in 1..Region |-> <<>>]

Command(mode) == [t |-> "command", mode |-> mode]
Printed(mode, ok) == [t |-> "mode", mode |-> mode, ok |-> ok]

-----------------------------------------------------------------------------
(* lib/rescue/rescue.c.  A handler returns an error, the state it leaves,    *)
(* the memory, and what it writes to the line.  `fault' is the operation of  *)
(* the flash controller that fails, if any.                                  *)

FlashFaults == {"none", "read", "erase", "write"}

Outcome(error, d, m) == [error |-> error, d |-> d, mem |-> m]

flash_firmware_block(d, fault) ==
    LET slot  == IF d.mode = "RESB" THEN "B" ELSE "A"
        begin == d.flash_offset = 0
        pages == IF begin THEN Erased ELSE mem[slot]
        page  == IF begin THEN 1 ELSE d.flash_offset
        Put(c) == [mem EXCEPT ![slot] = [pages EXCEPT ![page] = c]]
    IN  IF begin /\ fault = "erase"
        THEN Outcome("Flash", d, [mem EXCEPT ![slot] =
                                    [p \in 1..Region |-> Spoilt]])
        ELSE IF page > Region
        THEN Outcome("ImageTooBig", d, mem)
        ELSE IF fault = "write"
        THEN Outcome("Flash", d, Put(Spoilt))
        ELSE Outcome("Ok", [d EXCEPT !.flash_offset = page + 1, !.data = <<>>],
                     Put(d.data))

flash_owner_block(d, fault) ==
    IF ~config.ownable THEN Outcome("Ok", [d EXCEPT !.data = <<>>], mem)
    ELSE IF fault \in {"erase", "write"}
    THEN Outcome("Flash", d, [mem EXCEPT !.owner = Spoilt])
    ELSE Outcome("Ok", [d EXCEPT !.data = <<>>], [mem EXCEPT !.owner = d.data])

\* The request's type is its first unit.
TakeRequest(d) ==
    IF d.data[1] \in config.allowed
    THEN Outcome("Ok", [d EXCEPT !.data = <<>>],
                 [mem EXCEPT !.svc = SubSeq(d.data, 1, Svc)])
    ELSE Outcome("BadMode", d, mem)

rescue_recv_handler(d, fault) ==
    IF d.mode \notin config.allowed THEN Outcome("BadMode", d, mem)
    ELSE CASE d.mode = "BREQ" /\ Len(d.data) >= Svc -> TakeRequest(d)
           [] d.mode = "OWNR" /\ Len(d.data) = Cap -> flash_owner_block(d, fault)
           [] d.mode \in Firmware /\ Len(d.data) = Cap ->
                flash_firmware_block(d, fault)
           [] OTHER -> Outcome("Ok", d, mem)

\* frame = 1, offset = 0, flash_offset = 0
Reset(d) == [d EXCEPT !.frame = 1, !.data = <<>>, !.flash_offset = 0]

\* REBO and WAIT skip the command list.  An owner block that is not wanted
\* returns without the reset.
rescue_validate_mode(mode, d) ==
    CASE mode = "REBO" -> Reset([d EXCEPT !.mode = mode])
      [] mode = "WAIT" -> Reset([d EXCEPT !.reboot = FALSE])
      [] mode \notin {"REBO", "WAIT"} ->
           IF mode \notin config.allowed THEN Reset(d)
           ELSE IF mode \notin Modes \/ (mode = "OWNR" /\ ~config.ownable) THEN d
           ELSE Reset([d EXCEPT !.mode = mode])

\* Whether rescue_validate_mode prints "ok" or "error".
ModeAccepted(mode) ==
    \/ mode \in {"REBO", "WAIT"}
    \/ mode \in config.allowed \cap Modes /\ (mode = "OWNR" => config.ownable)

-----------------------------------------------------------------------------
(* lib/rescue/rescue_xmodem.c.                                               *)

End(d, error) == [d EXCEPT !.at = "end", !.result = error]

\* The head of the loop: rescue_send_handler, and xmodem_send if it staged data.
LoopHead(d, fault) ==
    IF d.mode \notin config.allowed THEN End(d, "BadMode")
    ELSE IF d.mode \in {"OPG0", "OPG1"} /\ fault = "read" THEN End(d, "Flash")
    ELSE CASE d.mode \in SendModes ->
                [d EXCEPT !.at = "send", !.tx = xmodem_send(Staged[d.mode])]
           [] d.mode \in RecvModes -> [d EXCEPT !.at = "recv"]
           [] d.mode = "REBO" -> End(d, "Reboot")

\* What a read returns, and the line after it.
Input(line) == IF line = <<>> THEN Timeout ELSE Head(line)
Rest(line)  == IF line = <<>> THEN line ELSE Tail(line)

\* A step of the device: the state it comes to, the memory, what it writes.
Does(d, m, out) ==
    /\ dev' = d /\ mem' = m /\ toHost' = toHost \o out
    /\ toDev' = Rest(toDev)
    /\ UNCHANGED <<config, host, jobs, boots>>

\* xmodem_recv_frame returns `error' to the loop.
Receives(error) ==
    /\ dev.at = "recv"
    /\ xmodem_recv_frame(dev.frame, Cap - Len(dev.data), Input(toDev)) = error

\* handle_recv_modes found fault with the data: `protocol' returns.
Refuses(r) ==
    /\ r.error # "Ok"
    /\ Does(End(r.d, r.error), r.mem,
            IF r.error \in {"ImageTooBig", "BadMode"} THEN xmodem_cancel ELSE <<>>)

Prompts(line) == Len(SelectSeq(line, LAMBDA m : m = Crc16))

\* Nothing has come yet: ask for the transfer to start, again.
Prompt ==
    /\ Receives("TimeoutStart") /\ dev.frame = 1
    /\ \E fault \in FlashFaults :
         Does(LoopHead(dev, fault), mem,
              IF Prompts(toHost) < MaxPrompts THEN <<Crc16>> ELSE <<>>)

FrameOk ==
    /\ Receives("Ok")
    /\ \E fault \in FlashFaults :
         LET r == rescue_recv_handler(
                    [dev EXCEPT !.data = @ \o Head(toDev).units], fault)
         IN  \/ Refuses(r)
             \/ /\ r.error = "Ok"
                /\ Does(LoopHead([r.d EXCEPT !.frame = @ + 1], fault), r.mem, <<Ack>>)

\* 0xFF up to a whole block.
Pad(data) == data \o [i \in 1..((Cap - Len(data)) % Cap) |-> "ff"]

MutEndOfFile ==  \* the residue is not written
    /\ Receives("EndOfFile")
    /\ Does(IF dev.reboot THEN End(dev, "Reboot")
                          ELSE LoopHead(Reset(dev), "none"), mem, <<Ack>>)

EndOfFile ==
    /\ Receives("EndOfFile")
    /\ \E fault \in FlashFaults :
         LET r == IF Len(dev.data) % Cap = 0 THEN Outcome("Ok", dev, mem)
                  ELSE rescue_recv_handler([dev EXCEPT !.data = Pad(@)], fault)
         IN  \/ Refuses(r)
             \/ /\ r.error = "Ok"
                /\ Does(IF r.d.reboot THEN End(r.d, "Reboot")
                                      ELSE LoopHead(Reset(r.d), fault),
                        r.mem, <<Ack>>)

BadCrc ==
    /\ Receives("Crc")
    /\ \E fault \in FlashFaults : Does(LoopHead(dev, fault), mem, <<Nak>>)

\* Between transfers anything else is a character of a mode command.
ReadCommand ==
    /\ Receives("Unknown") /\ dev.frame = 1
    /\ LET m == Head(toDev)
       IN  \/ /\ m.t # "command"
              /\ \E fault \in FlashFaults : Does(LoopHead(dev, fault), mem, <<>>)
           \/ /\ m.t = "command" /\ m.mode = "BAUD"
              /\ Does([dev EXCEPT !.at = "baud"], mem, <<Printed("BAUD", TRUE)>>)
           \/ /\ m.t = "command" /\ m.mode # "BAUD"
              /\ \E fault \in FlashFaults :
                   Does(LoopHead(rescue_validate_mode(m.mode, dev), fault), mem,
                        <<Printed(m.mode, ModeAccepted(m.mode))>>)

\* change_speed reads the new rate, whatever it is, and goes on.
change_speed ==
    /\ dev.at = "baud"
    /\ \E fault \in FlashFaults : Does(LoopHead(dev, fault), mem, <<>>)

MutGiveUp ==  \* the wait for the next frame starts again
    \E error \in {"BadLength", "TimeoutData", "Cancel", "Unknown"} :
      /\ Receives(error)
      /\ error = "Unknown" => dev.frame # 1
      /\ Does(End(dev, error), mem,
              IF error = "Cancel" THEN xmodem_cancel ELSE <<>>)

\* What makes `protocol' give up.
GiveUp ==
    \E error \in {"BadLength", "TimeoutData", "Cancel", "TimeoutStart", "Unknown"} :
      /\ Receives(error)
      /\ error \in {"TimeoutStart", "Unknown"} => dev.frame # 1
      /\ Does(End(dev, error), mem,
              IF error = "Cancel" THEN xmodem_cancel ELSE <<>>)

\* handle_send_modes from the start of xmodem_send to the return to RESQ.  The
\* loop then reads one frame before it looks at the mode again, which is still
\* the one it sent for if RESQ is not allowed.
handle_send_modes ==
    /\ dev.at = "send"
    /\ LET r == SendRead(dev.tx, Input(toDev))
           d == rescue_validate_mode("RESQ", [dev EXCEPT !.tx = NoSend])
           out == r.out \o <<Printed("RESQ", ModeAccepted("RESQ"))>>
       IN  \/ r.s.at # "over" /\ Does([dev EXCEPT !.tx = r.s], mem, r.out)
           \/ /\ r.s.at = "over" /\ r.s.result # "Ok"
              /\ Does(End(d, r.s.result), mem, out)
           \/ /\ r.s.at = "over" /\ r.s.result = "Ok"
              /\ Does([d EXCEPT !.at = "recv"], mem, out)

Device == \/ Prompt \/ FrameOk \/ EndOfFile \/ BadCrc \/ ReadCommand
          \/ change_speed \/ GiveUp \/ handle_send_modes

\* The start of `protocol'.  If RESQ is not allowed state->mode keeps what the
\* stack held.
Fresh(mode) == LoopHead([at |-> "recv", mode |-> mode, reboot |-> TRUE, frame |-> 1,
                         data |-> <<>>, flash_offset |-> 0, tx |-> NoSend,
                         result |-> "none"], "none")

Greeting == <<Printed("RESQ", ModeAccepted("RESQ")), Crc16>>

FirstModes == IF "RESQ" \in config.allowed THEN {"RESQ"} ELSE Modes

\* The chip resets, by rstmgr_reset or in shutdown_finalize, and its straps
\* lead it into rescue again.  A boot takes longer than a host at work needs
\* to read what had reached it; an idle host drops it.
rescue_protocol ==
    /\ dev.at = "end" /\ boots < MaxBoots
    /\ toHost = <<>> \/ host.at = "idle"
    /\ boots' = boots + 1
    /\ \E mode \in FirstModes : dev' = Fresh(mode)
    /\ toHost' = Greeting
    /\ toDev' = <<>>
    /\ UNCHANGED <<config, mem, host, jobs>>

-----------------------------------------------------------------------------
(* The host.                                                                 *)

NoJob == [mode |-> "none", image |-> <<>>]
Idle  == [at |-> "idle", job |-> NoJob, tx |-> NoSend, frame |-> 1,
          got |-> <<>>, confirmed |-> FALSE]

\* A step of the host that reads the line.
HostDoes(h, out) ==
    /\ host' = h /\ toDev' = toDev \o out
    /\ toHost' = Rest(toHost)
    /\ UNCHANGED <<config, dev, mem, jobs, boots>>

\* The host starts a job when what it sent before has been read: it has just
\* waited for seconds, and the device reads or gives up in less.
AskMode ==
    /\ host.at = "idle" /\ jobs < MaxJobs
    /\ toDev = <<>>
    /\ jobs' = jobs + 1
    /\ \E job \in Jobs :
         /\ host' = [Idle EXCEPT !.at = "ask", !.job = job]
         /\ toDev' = Append(toDev, Command(job.mode))
    /\ UNCHANGED <<config, dev, mem, toHost, boots>>

\* The host skips what it reads up to the answer to its command.
ReadAnswer ==
    /\ host.at = "ask"
    /\ LET m == Input(toHost)
           mode == host.job.mode
           mine == m.t = "mode" /\ m.mode = mode
       IN  \/ ~mine /\ m # Timeout /\ HostDoes(host, <<>>)
           \/ /\ m = Timeout \/ (mine /\ ~m.ok) \/ (mine /\ mode \in {"WAIT", "REBO"})
              /\ HostDoes([host EXCEPT !.at = "idle"], <<>>)
           \/ /\ mine /\ m.ok /\ mode = "BAUD"
              /\ HostDoes([host EXCEPT !.at = "idle"], <<Junk>>)
           \/ /\ mine /\ m.ok /\ mode \in RecvModes
              /\ HostDoes([host EXCEPT !.at = "up",
                                       !.tx = xmodem_send(host.job.image)], <<>>)
           \/ /\ mine /\ m.ok /\ mode \in SendModes
              /\ HostDoes([host EXCEPT !.at = "down"], <<Crc16>>)

Upload ==
    /\ host.at = "up"
    /\ LET m == Input(toHost)
           r == SendRead(host.tx, m)
       IN  HostDoes([host EXCEPT !.tx = r.s,
                                 !.at = IF r.s.at = "over" THEN "idle" ELSE "up",
                                 !.confirmed = host.tx.at = "finish" /\ m = Ack],
                    r.out)

Download ==
    /\ host.at = "down"
    /\ LET m == Input(toHost)
           error == xmodem_recv_frame(host.frame, Cap, m)
       IN  \/ /\ error = "Ok"
              /\ HostDoes([host EXCEPT !.got = @ \o m.units, !.frame = @ + 1], <<Ack>>)
           \/ error = "Crc" /\ HostDoes(host, <<Nak>>)
           \/ /\ error = "EndOfFile"
              /\ HostDoes([host EXCEPT !.at = "idle", !.confirmed = TRUE], <<Ack>>)
           \/ /\ error = "TimeoutStart" /\ host.frame = 1
              /\ Prompts(toDev) < MaxPrompts
              /\ HostDoes(host, <<Crc16>>)
           \/ /\ error \notin {"Ok", "Crc", "EndOfFile"}
              /\ HostDoes([host EXCEPT !.at = "idle"],
                          IF error = "Cancel" THEN xmodem_cancel ELSE <<>>)

Host == ReadAnswer \/ Upload \/ Download

-----------------------------------------------------------------------------
(* The line.                                                                 *)

\* A damaged character is taken for none that the protocol knows.
Damaged(m) ==
    IF m.t = "frame" THEN {[m EXCEPT !.fault = f] : f \in {"crc", "number", "short"}}
                     ELSE {Junk}

\* What is next to be read is lost or damaged.
Fault(line) ==
    IF line = <<>> THEN {}
    ELSE {Tail(line)} \cup {<<m>> \o Tail(line) : m \in Damaged(Head(line))}

LineFault ==
    /\ \/ toDev' \in Fault(toDev) /\ UNCHANGED toHost
       \/ toHost' \in Fault(toHost) /\ UNCHANGED toDev
    /\ UNCHANGED <<config, dev, mem, host, jobs, boots>>

-----------------------------------------------------------------------------
Init ==
    /\ config \in Configs
    /\ \E mode \in FirstModes : dev = Fresh(mode)
    /\ mem = [A |-> Erased, B |-> Erased, owner |-> <<>>, svc |-> <<>>]
    /\ host = Idle
    /\ toDev = <<>>
    /\ toHost = Greeting
    /\ jobs = 0 /\ boots = 1

Next == Device \/ rescue_protocol \/ AskMode \/ Host \/ LineFault

\* The device and the host both keep running, and their reads time out.
Fairness == WF_vars(Device) /\ WF_vars(Host)

Spec == Init /\ [][Next]_vars /\ Fairness

-----------------------------------------------------------------------------
\* How an image lies in a slot: whole blocks from the first page, the last one
\* padded, the rest of the region erased.
Layout(image) ==
    [p \in 1..Region |->
       IF (p - 1) * Cap < Len(image)
       THEN Pad(SubSeq(image, (p - 1) * Cap + 1,
                       IF p * Cap < Len(image) THEN p * Cap ELSE Len(image)))
       ELSE <<>>]

\* Units the device has acknowledged to the uploading host.
Acked == Len(host.job.image) - Len(host.tx.rest)

(* What the device acknowledges is in its memory.  Every whole block of an   *)
(* image whose frames were acknowledged is in its page of a slot, in order   *)
(* and once; when the end of the file was acknowledged too the slot holds    *)
(* exactly the image, or the owner page or the request does (rescue.c 29-56, *)
(* 222-269, rescue_xmodem.c 100-126).  Frames are lost, damaged and sent     *)
(* twice, acknowledgements are lost, flash operations fail and the chip      *)
(* resets in between.                                                        *)
AckedIsStored ==
    "RESQ" \in config.allowed /\ host.tx # NoSend =>
        \/ \E slot \in {"A", "B"} :
             /\ \A p \in 1..(Acked \div Cap) :
                  mem[slot][p] = Layout(host.job.image)[p]
             /\ host.confirmed => mem[slot] = Layout(host.job.image)
        \/ host.job.mode = "OWNR" /\ mem.owner = host.job.image
        \/ host.job.mode = "BREQ" /\ mem.svc = host.job.image

(* A download the host took to its end is the data the device staged for the *)
(* mode the host asked for: no frame is missing, repeated or left over from  *)
(* another transfer (xmodem.c 190-246, rescue_xmodem.c 64-73).               *)
DownloadExact ==
    host.confirmed /\ host.job.mode \in SendModes =>
        host.got = Staged[host.job.mode]

(* A transfer that has begun ends: the device neither waits for ever for the *)
(* next frame nor for the acknowledgement of one (xmodem.c 85-89, 219-222,   *)
(* rescue_xmodem.c 98-101, 139-143).                                         *)
TransferEnds ==
    /\ (dev.at = "recv" /\ dev.frame # 1) ~> (dev.at = "end" \/ dev.frame = 1)
    /\ (dev.at = "send") ~> (dev.at # "send")
=============================================================================
