----------------------------- MODULE FlashRead -----------------------------
(***************************************************************************)
(* flash_power_up and flash_read_word over the whole path: the register    *)
(* accesses of the driver (bootloader.c or simulate_flash.c), the OpenTitan*)
(* SPI host with its three queues, and the flash of SpiFlash on its lines. *)
(* The driver and the host run side by side; the driver sees of the host   *)
(* only STATUS.  READY says that the command queue has room and ACTIVE     *)
(* that a segment is running, so a command still in the queue shows as     *)
(* ready and not active.                                                   *)
(*                                                                         *)
(* A word is the tuple of its four bytes, least significant first.         *)
(***************************************************************************)
EXTENDS SpiFlash, Sequences

CONSTANTS Addr,          \* the addresses read
          Drivers,       \* which of "bootloader" and "simulate_flash"
          CmdDepth, TxDepth,  \* 4 and 72 in spi_host_reg_pkg
          MaxRestarts    \* how often the debugger restarts the program

ASSUME ReadAssumption ==
    /\ Addr \subseteq 0 .. FlashSize - 4 /\ Addr # {}
    /\ \A a \in Addr, k \in 0 .. 4 : memory((a + k) % FlashSize) \in 0 .. 255
    /\ Drivers \subseteq {"bootloader", "simulate_flash"}
    /\ CmdDepth \in Nat \ {0} /\ TxDepth \in Nat \ {0}
    /\ MaxRestarts \in Nat

VARIABLES flash,
          csb,                    \* chip select: TRUE is high, not selected
          spien, error,           \* CONTROL.SPIEN; any bit of ERROR_STATUS
          cmdq, txq, rxq,         \* the command, TX and RX queues
          seg,                    \* the segment the FSM runs; len is 0 if none
          rxpipe,                 \* received bytes on their way to the RX queue
          pc, todo, addr, ret,    \* the driver: register accesses to do, the
                                  \* address asked for and the word it got
          restarts,
          driver                  \* the program that was loaded

hostvars == <<csb, spien, error, cmdq, txq, rxq, seg, rxpipe>>
cpuvars  == <<pc, todo, addr, ret>>
vars     == <<flash, hostvars, cpuvars, restarts, driver>>

NoSegment == [dir |-> "none", speed |-> "std", csaat |-> FALSE, len |-> 0,
              byte |-> 0, bit |-> 0, shift |-> 0]

NoAddr == -1

NoWord == <<>>
-----------------------------------------------------------------------------
(* The host. *)

Width == IF seg.speed = "std" THEN 1 ELSE 4

Active == seg.len > 0

Ready == Len(cmdq) < CmdDepth

(* The TX byte select adds one word to the queue. *)
TxFull == Len(txq) >= TxDepth + 1

CanStart ==
    /\ spien /\ ~ error /\ ~ Active
    /\ cmdq # <<>>
    /\ Head(cmdq).dir = "tx" => txq # <<>>   \* else it stalls where it is

Start ==
    /\ CanStart
    /\ seg' = [NoSegment EXCEPT !.dir = Head(cmdq).dir,
                                !.speed = Head(cmdq).speed,
                                !.csaat = Head(cmdq).csaat,
                                !.len = Head(cmdq).len]
    /\ cmdq' = Tail(cmdq)
    /\ csb' = FALSE
    /\ IF csb THEN flash' \in CsbLow(flash, 0) ELSE UNCHANGED flash
    /\ UNCHANGED <<spien, error, txq, rxq, rxpipe, cpuvars, restarts, driver>>

(* The lines of a segment: sd_en_o and sd_o.  They stay driven after it,   *)
(* until the next one, for as long as csb is low.  Byte n of it comes from *)
(* the word at the head of the queue.                                      *)
HostLines == CASE seg.dir # "tx"                        -> {}
               [] seg.dir = "tx" /\ seg.speed = "std"   -> {0}
               [] seg.dir = "tx" /\ seg.speed = "quad"  -> IoLine

TxByte == Head(txq)[(seg.byte % 4) + 1]

HostOut == IF seg.dir # "tx" THEN 0
           ELSE (TxByte \div 2^(8 - Width - seg.bit)) % 2^Width

(* Undriven lines are 0 in Verilator's two-state simulation.               *)
Lines == IF HostLines \cap flash.oe = {} THEN HostOut + flash.dout ELSE HostOut

(* A dummy segment counts clocks, the others bytes. *)
LastBit == seg.dir = "dummy" \/ seg.bit + Width = 8

SegmentClocked == seg.byte = seg.len

(* One period of sck: a rise, at which both sides sample, and a fall.      *)
(* Of the word a TX segment has begun, the bytes it does not send are      *)
(* flushed at its last one.                                                *)
Clock ==
    /\ Active /\ ~ SegmentClocked /\ spien /\ ~ error
    /\ seg.dir = "tx" => txq # <<>>
    /\ LET bits == IF Width = 1 THEN (Lines \div 2) % 2 ELSE Lines
           got  == (2^Width * seg.shift + bits) % 256
           last == seg.byte + 1 = seg.len
       IN  /\ seg' = [seg EXCEPT !.bit = IF LastBit THEN 0 ELSE @ + Width,
                                 !.byte = IF LastBit THEN @ + 1 ELSE @,
                                 !.shift = IF seg.dir = "rx" /\ ~ LastBit
                                           THEN got ELSE 0]
           /\ txq' = IF seg.dir = "tx" /\ LastBit /\ (last \/ seg.byte % 4 = 3)
                     THEN Tail(txq) ELSE txq
           /\ rxpipe' = IF seg.dir = "rx" /\ LastBit THEN Append(rxpipe, got)
                                                     ELSE rxpipe
    /\ flash' = ClkLow(ClkHigh(flash, Lines), Lines)
    /\ UNCHANGED <<csb, spien, error, cmdq, rxq, cpuvars, restarts, driver>>

(* The end of a segment: csb stays low if CSAAT is set.                    *)
Finish ==
    /\ Active /\ SegmentClocked /\ spien /\ ~ error
    /\ csb' = ~ seg.csaat
    /\ flash' = IF seg.csaat THEN flash ELSE CsbHigh(flash)
    /\ seg' = IF seg.csaat
              THEN [NoSegment EXCEPT !.dir = seg.dir, !.speed = seg.speed]
              ELSE NoSegment
    /\ UNCHANGED <<spien, error, cmdq, txq, rxq, rxpipe, cpuvars, restarts, driver>>

(* byte_merge packs four bytes into a word, first byte lowest; the driver  *)
(* asks for whole words.                                                   *)
DeliverRx ==
    /\ Len(rxpipe) = 4
    /\ rxq' = Append(rxq, rxpipe)
    /\ rxpipe' = <<>>
    /\ UNCHANGED <<flash, csb, spien, error, cmdq, txq, seg, cpuvars, restarts, driver>>

Host == Start \/ Clock \/ Finish \/ DeliverRx
-----------------------------------------------------------------------------
(* The driver.  The register accesses of its calls, in order.              *)

Tx(word) == [reg |-> "TXDATA", word |-> word]

Command(dir, speed, csaat, len) ==
    [reg |-> "COMMAND", dir |-> dir, speed |-> speed, csaat |-> csaat, len |-> len]

FLASH_DUMMY_CYCLES == 8

Packed(a) == <<(a \div 2^16) % 2^8, (a \div 2^8) % 2^8, a % 2^8, 0>>

flash_power_up == <<Tx(<<POWER_UP, 0, 0, 0>>), Command("tx", "std", FALSE, 1)>>

flash_read_word(a) ==
    <<Tx(<<READ_QUAD, 0, 0, 0>>), Command("tx", "std", TRUE, 1),
      Tx(Packed(a)), Command("tx", "quad", TRUE, 4),
      Command("dummy", "quad", TRUE, FLASH_DUMMY_CYCLES),
      Command("rx", "quad", FALSE, 4)>>

WaitReady == Ready /\ ~ Active

(* bootloader.c is given a host of any speed.  simulate_flash.c waits less *)
(* and needs one that is prompt: what takes no bus clocks is done before   *)
(* the next register access.                                               *)
Prompt == driver = "simulate_flash"

CpuTurn == Prompt => ~ CanStart /\ Len(rxpipe) # 4

(* spi_init up to the enable: SW_RST empties the queues and takes the FSM  *)
(* to Idle, whatever was going on.                                         *)
MutReset ==  \* the reset leaves the TX queue
    /\ CpuTurn /\ pc = "reset"
    /\ csb' = TRUE
    /\ flash' = IF csb THEN flash ELSE CsbHigh(flash)
    /\ spien' = FALSE
    /\ cmdq' = <<>> /\ rxq' = <<>> /\ rxpipe' = <<>>
    /\ seg' = NoSegment
    /\ pc' = "enable"
    /\ UNCHANGED <<txq, error, todo, addr, ret, restarts, driver>>

Reset ==
    /\ CpuTurn /\ pc = "reset"
    /\ csb' = TRUE
    /\ flash' = IF csb THEN flash ELSE CsbHigh(flash)
    /\ spien' = FALSE
    /\ cmdq' = <<>> /\ txq' = <<>> /\ rxq' = <<>> /\ rxpipe' = <<>>
    /\ seg' = NoSegment
    /\ pc' = "enable"
    /\ UNCHANGED <<error, todo, addr, ret, restarts, driver>>

MutEnableOff ==  \* SPIEN left out of the store
    /\ CpuTurn /\ pc = "enable" /\ WaitReady
    /\ pc' = "run"
    /\ todo' = flash_power_up
    /\ UNCHANGED <<flash, hostvars, addr, ret, restarts, driver>>

MutEnable ==  \* the flash is taken to be awake
    /\ CpuTurn /\ pc = "enable" /\ WaitReady
    /\ spien' = TRUE
    /\ pc' = "run"
    /\ todo' = IF flash.powered_up THEN <<>> ELSE flash_power_up
    /\ UNCHANGED <<flash, csb, error, cmdq, txq, rxq, seg, rxpipe, addr, ret, restarts, driver>>

Enable ==
    /\ CpuTurn /\ pc = "enable" /\ WaitReady
    /\ spien' = TRUE
    /\ pc' = "run"
    /\ todo' = flash_power_up
    /\ UNCHANGED <<flash, csb, error, cmdq, txq, rxq, seg, rxpipe, addr, ret, restarts, driver>>

spi_transmit_word ==
    /\ CpuTurn /\ pc = "run"
    /\ todo # <<>> /\ Head(todo).reg = "TXDATA"
    /\ ~ TxFull
    /\ txq' = Append(txq, Head(todo).word)
    /\ todo' = Tail(todo)
    /\ UNCHANGED <<flash, csb, spien, error, cmdq, rxq, seg, rxpipe, pc, addr, ret, restarts, driver>>

(* The command is refused, with an error, if the queue is full.  Only the  *)
(* driver fills the queue, so what its poll saw still holds at the store.  *)
MutRunCommand ==  \* no wait before it and none after it
    /\ CpuTurn /\ pc = "run"
    /\ todo # <<>> /\ Head(todo).reg = "COMMAND"
    /\ cmdq' = IF Ready THEN Append(cmdq, Head(todo)) ELSE cmdq
    /\ error' = (error \/ ~ Ready)
    /\ todo' = Tail(todo)
    /\ UNCHANGED <<flash, csb, spien, txq, rxq, seg, rxpipe, pc, addr, ret, restarts, driver>>

spi_run_command ==
    /\ CpuTurn /\ pc = "run"
    /\ todo # <<>> /\ Head(todo).reg = "COMMAND"
    /\ driver = "bootloader" => WaitReady
    /\ cmdq' = IF Ready THEN Append(cmdq, Head(todo)) ELSE cmdq
    /\ error' = (error \/ ~ Ready)
    /\ pc' = "wait"
    /\ todo' = Tail(todo)
    /\ UNCHANGED <<flash, csb, spien, txq, rxq, seg, rxpipe, addr, ret, restarts, driver>>

spi_wait_ready ==
    /\ CpuTurn /\ pc = "wait" /\ WaitReady
    /\ pc' = "run"
    /\ UNCHANGED <<flash, hostvars, todo, addr, ret, restarts, driver>>

(* Reading an empty RX queue is an error and returns no word of the flash: *)
(* the tuple of zeros.                                                     *)
spi_receive_word ==
    /\ CpuTurn /\ pc = "run"
    /\ todo = <<>> /\ addr # NoAddr /\ ret = NoWord
    /\ driver = "bootloader" => rxq # <<>>   \* simulate_flash.c does not wait
    /\ ret' = IF rxq # <<>> THEN Head(rxq) ELSE <<0, 0, 0, 0>>
    /\ rxq' = IF rxq # <<>> THEN Tail(rxq) ELSE rxq
    /\ error' = (error \/ rxq = <<>>)
    /\ UNCHANGED <<flash, csb, spien, cmdq, txq, seg, rxpipe, pc, todo, addr, restarts, driver>>

Call(a) ==
    /\ CpuTurn /\ pc = "run" /\ todo = <<>>
    /\ addr = NoAddr \/ ret # NoWord
    /\ addr' = a /\ ret' = NoWord
    /\ todo' = flash_read_word(a)
    /\ UNCHANGED <<flash, hostvars, pc, restarts, driver>>

Cpu == \/ Reset \/ Enable \/ spi_transmit_word \/ spi_run_command
       \/ spi_wait_ready \/ spi_receive_word

(* From the debugger: the program starts over, the SoC is not reset.       *)
Restart ==
    /\ restarts < MaxRestarts
    /\ restarts' = restarts + 1
    /\ pc' = "reset" /\ todo' = <<>> /\ addr' = NoAddr /\ ret' = NoWord
    /\ UNCHANGED <<flash, hostvars, driver>>

Init ==
    /\ flash = FlashPowerOn
    /\ csb = TRUE /\ spien = FALSE /\ error = FALSE
    /\ cmdq = <<>> /\ txq = <<>> /\ rxq = <<>> /\ rxpipe = <<>>
    /\ seg = NoSegment
    /\ pc = "reset" /\ todo = <<>> /\ addr = NoAddr /\ ret = NoWord
    /\ restarts = 0
    /\ driver \in Drivers

Next == Host \/ Cpu \/ (\E a \in Addr : Call(a)) \/ Restart

(* Hardware is clocked and the CPU keeps executing.                        *)
Spec == Init /\ [][Next]_vars /\ WF_vars(Host) /\ WF_vars(Cpu)
-----------------------------------------------------------------------------
(* Type correctness; no queue runs over.                                   *)
TypeOK ==
    /\ flash \in FlashState
    /\ csb \in BOOLEAN /\ spien \in BOOLEAN /\ error \in BOOLEAN
    /\ Len(cmdq) <= CmdDepth /\ Len(txq) <= 3 /\ Len(rxq) <= 1
    /\ Len(rxpipe) <= 4
    /\ pc \in {"reset", "enable", "run", "wait"}
    /\ addr \in Addr \cup {NoAddr}
    /\ restarts \in 0 .. MaxRestarts

(* A call returns the four bytes of the flash at its address, in order,    *)
(* whatever the relative speed of the CPU and the host and although a      *)
(* restart may have left a transaction half done, bytes in the queues and  *)
(* dummy clocks in the flash.                                              *)
ReadsMemory ==
    ret # NoWord => ret = <<memory(addr), memory(addr + 1),
                            memory(addr + 2), memory(addr + 3)>>

(* The driver never makes an access the host answers with an error: an     *)
(* error disables the host, and nothing in the driver clears it.           *)
NoHostError == ~ error

(* The host and the flash never drive the same line.                       *)
NoContention == csb \/ HostLines \cap flash.oe = {}

(* Every call that is not cut short by a restart returns: the driver never *)
(* waits for a host that waits for the driver.                             *)
ReadReturns == pc = "reset" \/ (addr # NoAddr /\ ret = NoWord)
                  ~> (pc = "run" /\ todo = <<>> /\ (addr = NoAddr \/ ret # NoWord))
=============================================================================
