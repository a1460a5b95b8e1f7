-------------------------- MODULE FlashReadProofs --------------------------
(***************************************************************************)
(* Proofs about FlashRead: for every content of the flash, every set of    *)
(* addresses, every depth of the queues, any number of restarts and every  *)
(* interleaving of the driver and the host; and, after them, about         *)
(* FlashProtocol: for every content, all addresses and reads of any        *)
(* length, in any order of transactions, completed or given up.            *)
(***************************************************************************)
EXTENDS FlashRead, FlashProtocol, SequenceTheorems, TLAPS

(* FlashState, register by register.                                       *)
Registers(f) ==
    f = [i \in {"buffer", "bitcount", "bytecount", "dummycount", "spi_cmd",
                "xip_cmd", "spi_addr", "powered_up", "mode", "next_mode",
                "oe", "dout"} |-> f[i]]

Typed(f) ==
    /\ Registers(f)
    /\ f.buffer \in 0 .. 255 /\ f.bitcount \in 0 .. 7 /\ f.bytecount \in Nat
    /\ f.dummycount \in 0 .. latency
    /\ f.spi_cmd \in 0 .. 255 /\ f.xip_cmd \in 0 .. 255
    /\ f.spi_addr \in 0 .. FlashSize - 1
    /\ f.powered_up \in BOOLEAN /\ f.mode \in Mode
    /\ f.next_mode \in {"none", "qspi_ddr_rd"}
    /\ f.oe \in SUBSET IoLine /\ f.dout \in 0 .. 15

(* A mode byte of 0 keeps XIP off, and no driver uses the DDR read.        *)
Quiet(f) == Typed(f) /\ f.xip_cmd = 0 /\ f.next_mode = "none"

(* Not selected.  Dummy clocks of a read that was cut short may be left.   *)
Resting(f) ==
    /\ Quiet(f)
    /\ f.mode = "spi" /\ f.buffer = 0 /\ f.bitcount = 0 /\ f.bytecount = 0
    /\ f.oe = {} /\ f.dout = 0
    /\ f.powered_up \/ f.dummycount = 0

Up(f) == Resting(f) /\ f.powered_up /\ f.dummycount = 0

(* After n clocks of the power-up command: it is being read, or dummy      *)
(* clocks that were left eat it, and then the flash is awake already.      *)
Heard(f, n) ==
    /\ f.dummycount = 0
    /\ f.bitcount = n % 8 /\ f.bytecount = n \div 8
    /\ f.buffer = 171 \div 2^(8 - n)
    /\ n = 8 => f.powered_up

Eaten(f, n) ==
    /\ f.powered_up /\ f.bytecount = 0
    /\ f.dummycount <= 8 - n
    /\ f.dummycount = 0 => f.bitcount < n
    /\ f.dummycount > 0 => f.bitcount = 0 /\ f.buffer = 0

WakeUp(f, n) ==
    /\ Quiet(f)
    /\ f.mode = "spi" /\ f.oe \subseteq {1} /\ f.dout = 2 * (f.buffer \div 128)
    /\ Heard(f, n) \/ Eaten(f, n)

(* The fast read: after n clocks of its opcode,                            *)
Opcode(f, n) ==
    /\ Quiet(f) /\ f.powered_up /\ f.dummycount = 0
    /\ f.mode = "spi" /\ f.oe = {1} /\ f.dout = 2 * (f.buffer \div 128)
    /\ f.bitcount = n /\ f.bytecount = 0
    /\ f.buffer = 235 \div 2^(8 - n)

(* after n clocks of the address a and the mode byte,                      *)
Address(f, a, n) ==
    /\ Quiet(f) /\ f.powered_up /\ f.dummycount = 0
    /\ f.mode = "qspi_rd" /\ f.spi_cmd = READ_QUAD /\ f.oe = {} /\ f.dout = 0
    /\ f.bitcount = 4 * (n % 2) /\ f.bytecount = 1 + (n \div 2)
    /\ n % 2 = 1 => f.buffer % 16 = Packed(a)[(n + 1) \div 2] \div 16
    /\ n >= 2 => f.spi_addr \div 2^16 = Packed(a)[1]
    /\ n >= 4 => f.spi_addr \div 2^8 = 2^8 * Packed(a)[1] + Packed(a)[2]
    /\ n >= 6 => f.spi_addr = a

(* after n dummy clocks,                                                   *)
Dummy(f, a, n) ==
    /\ Quiet(f) /\ f.powered_up /\ f.dummycount = 8 - n
    /\ f.mode = "qspi_wr" /\ f.spi_cmd = READ_QUAD
    /\ f.oe = IF n < 8 THEN {} ELSE IoLine
    /\ f.dout = IF n < 8 THEN 0 ELSE f.buffer \div 16
    /\ f.bitcount = 0 /\ f.bytecount = 5
    /\ f.buffer = memory(a) /\ f.spi_addr = (a + 1) % FlashSize

(* and after n clocks of data.                                             *)
Data(f, a, n) ==
    /\ Quiet(f) /\ f.powered_up /\ f.dummycount = 0
    /\ f.mode = "qspi_wr" /\ f.spi_cmd = READ_QUAD
    /\ f.oe = IoLine /\ f.dout = f.buffer \div 16
    /\ f.bitcount = 4 * (n % 2) /\ f.bytecount = 5 + (n \div 2)
    /\ f.spi_addr = (a + 1 + (n \div 2)) % FlashSize
    /\ n % 2 = 0 => f.buffer = memory((a + (n \div 2)) % FlashSize)
    /\ n % 2 = 1 => f.dout = memory((a + (n \div 2)) % FlashSize) % 16

(* One period of sck.                                                      *)
Period(f, io) == ClkLow(ClkHigh(f, io), io)
-----------------------------------------------------------------------------
(* FlashState is what Typed says.                                          *)
LEMMA TypedLemma == \A f : Typed(f) <=> f \in FlashState
<1> SUFFICES ASSUME NEW f PROVE Typed(f) <=> f \in FlashState
    OBVIOUS
<1>1. Typed(f) => f \in FlashState
    BY ZenonT(60) DEF Typed, Registers, FlashState
<1>2. f \in FlashState => Typed(f)
    BY DEF Typed, Registers, FlashState
<1> QED
    BY <1>1, <1>2

(* Deselecting ends whatever was going on; dummy clocks stay.              *)
LEMMA DeselectLemma ==
    ASSUME NEW f, Quiet(f), f.powered_up \/ f.dummycount = 0
    PROVE  /\ Resting(CsbHigh(f))
           /\ f.powered_up /\ f.dummycount = 0 => Up(CsbHigh(f))
           /\ CsbHigh(f).dummycount = f.dummycount
           /\ CsbHigh(f).powered_up = f.powered_up
<1> DEFINE g == CsbHigh(f)
<1>1. Registers(f)
    BY DEF Quiet, Typed
<1>2. Registers(g)
    BY <1>1 DEF CsbHigh, Registers
<1>3. /\ g.buffer = 0 /\ g.bitcount = 0 /\ g.bytecount = 0
      /\ g.mode = "spi" /\ g.oe = {} /\ g.dout = 0
      /\ g.dummycount = f.dummycount /\ g.spi_cmd = f.spi_cmd
      /\ g.xip_cmd = f.xip_cmd /\ g.spi_addr = f.spi_addr
      /\ g.powered_up = f.powered_up /\ g.next_mode = f.next_mode
    BY <1>1 DEF CsbHigh, Registers
<1> HIDE DEF g
<1>4. Quiet(g)
    BY <1>2, <1>3 DEF Quiet, Typed, Mode
<1> QED
    BY <1>3, <1>4 DEF Resting, Up, g

(* The fall of sck only sets the lines: to nothing during dummy clocks and *)
(* while the flash reads four lines, else to the top of buffer.            *)
LowKeeps(f, g) ==
    /\ Registers(g)
    /\ g.buffer = f.buffer /\ g.bitcount = f.bitcount
    /\ g.bytecount = f.bytecount /\ g.dummycount = f.dummycount
    /\ g.spi_cmd = f.spi_cmd /\ g.xip_cmd = f.xip_cmd
    /\ g.spi_addr = f.spi_addr /\ g.powered_up = f.powered_up
    /\ g.mode = f.mode /\ g.next_mode = f.next_mode

(* Drive sets the lines and nothing else.                                  *)
LEMMA DriveLemma ==
    ASSUME NEW f, Registers(f), NEW lines, NEW value
    PROVE  /\ LowKeeps(f, Drive(f, lines, value))
           /\ Drive(f, lines, value).oe = lines
           /\ Drive(f, lines, value).dout = value
BY DEF Registers, LowKeeps, Drive

(* The fall of sck, but in the modes that shift at both edges.             *)
LEMMA LowLemma ==
    ASSUME NEW f, Quiet(f),
           \/ f.mode \in {"spi", "dspi_rd", "dspi_wr", "qspi_rd", "qspi_wr"}
           \/ f.dummycount > 0,
           NEW io, NEW g, g = ClkLow(f, io)
    PROVE  /\ LowKeeps(f, g) /\ Quiet(g)
           /\ f.dummycount > 0 \/ f.mode = "dspi_rd" \/ f.mode = "qspi_rd" =>
                g.oe = {} /\ g.dout = 0
           /\ f.dummycount = 0 /\ f.mode = "spi" =>
                g.oe = {1} /\ g.dout = 2 * (f.buffer \div 128)
           /\ f.dummycount = 0 /\ f.mode = "dspi_wr" =>
                g.oe = {0, 1} /\ g.dout = f.buffer \div 64
           /\ f.dummycount = 0 /\ f.mode = "qspi_wr" =>
                g.oe = IoLine /\ g.dout = f.buffer \div 16
<1>1. f.dummycount \in 0 .. 8 /\ f.next_mode = "none" /\ Registers(f)
    BY DEF Quiet, Typed, latency
<1>2. g = IF f.dummycount > 0 \/ f.mode = "dspi_rd" \/ f.mode = "qspi_rd"
          THEN Drive(f, {}, 0)
          ELSE IF f.mode = "spi" THEN Drive(f, {1}, 2 * (f.buffer \div 128))
          ELSE IF f.mode = "dspi_wr" THEN Drive(f, {0, 1}, f.buffer \div 64)
          ELSE Drive(f, IoLine, f.buffer \div 16)
  <2> DEFINE h == LowPhase(f, io)
  <2>1. h = IF f.dummycount > 0 \/ f.mode = "dspi_rd" \/ f.mode = "qspi_rd"
            THEN Drive(f, {}, 0)
            ELSE IF f.mode = "spi" THEN Drive(f, {1}, 2 * (f.buffer \div 128))
            ELSE IF f.mode = "dspi_wr" THEN Drive(f, {0, 1}, f.buffer \div 64)
            ELSE Drive(f, IoLine, f.buffer \div 16)
      BY <1>1 DEF LowPhase
  <2>2. LowKeeps(f, h)
      BY <1>1, <2>1, DriveLemma
  <2> HIDE DEF h
  <2>3. NextMode(h) = h
      BY <1>1, <2>2 DEF LowKeeps, NextMode
  <2> QED
      BY <2>1, <2>3 DEF ClkLow, h
<1>3. /\ LowKeeps(f, g)
      /\ f.dummycount > 0 \/ f.mode = "dspi_rd" \/ f.mode = "qspi_rd" =>
           g.oe = {} /\ g.dout = 0
      /\ f.dummycount = 0 /\ f.mode = "spi" =>
           g.oe = {1} /\ g.dout = 2 * (f.buffer \div 128)
      /\ f.dummycount = 0 /\ f.mode = "dspi_wr" =>
           g.oe = {0, 1} /\ g.dout = f.buffer \div 64
      /\ f.dummycount = 0 /\ f.mode = "qspi_wr" =>
           g.oe = IoLine /\ g.dout = f.buffer \div 16
    BY <1>1, <1>2, DriveLemma
<1>4. Quiet(g)
  <2>1. f.buffer \in 0 .. 255
      BY DEF Quiet, Typed
  <2>2. /\ 2 * (f.buffer \div 128) \in 0 .. 15 /\ f.buffer \div 64 \in 0 .. 15
        /\ f.buffer \div 16 \in 0 .. 15
      BY <2>1
  <2>3. g.oe \in SUBSET IoLine /\ g.dout \in 0 .. 15
      BY <1>1, <1>3, <2>2 DEF IoLine
  <2> QED
      BY <1>3, <2>3 DEF Quiet, Typed, LowKeeps
<1> QED
    BY <1>3, <1>4

(* Selecting a resting flash begins a command.                             *)
LEMMA SelectLemma ==
    ASSUME NEW f, Resting(f), NEW g \in CsbLow(f, 0)
    PROVE  /\ WakeUp(g, 0)
           /\ Up(f) => Opcode(g, 0)
<1> DEFINE h == ClkLow(f, 0)
<1>1. XipStart(f) = f /\ Quiet(f) /\ f.mode = "spi" /\ f.dummycount \in 0 .. 8
    BY DEF Resting, Quiet, Typed, XipStart, latency
<1>2. /\ LowKeeps(f, h) /\ Quiet(h)
      /\ f.dummycount > 0 => h.oe = {} /\ h.dout = 0
      /\ f.dummycount = 0 => h.oe = {1} /\ h.dout = 2 * (f.buffer \div 128)
    BY <1>1, LowLemma
<1> HIDE DEF h
<1>3. XipStart(h) = h
    BY <1>2 DEF XipStart, Quiet
<1>4. g = h
    BY <1>1, <1>3 DEF CsbLow, h
<1>5. 171 \div 2^(8 - 0) = 0 /\ 235 \div 2^(8 - 0) = 0 /\ 2 * (0 \div 128) = 0
    OBVIOUS
<1>6. g.buffer = 0 /\ g.bitcount = 0 /\ g.bytecount = 0 /\ g.mode = "spi"
    BY <1>2, <1>4 DEF LowKeeps, Resting
<1>7. g.dummycount = f.dummycount /\ g.powered_up = f.powered_up
    BY <1>2, <1>4 DEF LowKeeps
<1>8. WakeUp(g, 0)
  <2>1. Heard(g, 0) \/ Eaten(g, 0)
      BY <1>1, <1>5, <1>6, <1>7 DEF Heard, Eaten, Resting
  <2> QED
      BY <1>1, <1>2, <1>4, <1>5, <1>6, <2>1 DEF WakeUp, Resting
<1>9. Up(f) => Opcode(g, 0)
    BY <1>1, <1>2, <1>4, <1>5, <1>6, <1>7 DEF Up, Resting, Opcode
<1> QED
    BY <1>8, <1>9

(* The rise of sck.  A dummy clock changes nothing else;                   *)
LEMMA HighDummy ==
    ASSUME NEW f, Quiet(f), f.dummycount > 0, NEW io, NEW g, g = ClkHigh(f, io)
    PROVE  /\ Quiet(g) /\ g.dummycount = f.dummycount - 1
           /\ g.buffer = f.buffer /\ g.bitcount = f.bitcount
           /\ g.bytecount = f.bytecount /\ g.spi_cmd = f.spi_cmd
           /\ g.spi_addr = f.spi_addr /\ g.powered_up = f.powered_up
           /\ g.mode = f.mode /\ g.oe = f.oe /\ g.dout = f.dout
<1>1. Registers(f) /\ f.dummycount \in 1 .. 8
    BY DEF Quiet, Typed, latency
<1>2. g = [f EXCEPT !.dummycount = @ - 1]
    BY <1>1 DEF ClkHigh
<1>3. Registers(g)
    BY <1>1, <1>2 DEF Registers
<1>4. /\ g.dummycount = f.dummycount - 1
      /\ g.buffer = f.buffer /\ g.bitcount = f.bitcount
      /\ g.bytecount = f.bytecount /\ g.spi_cmd = f.spi_cmd
      /\ g.spi_addr = f.spi_addr /\ g.powered_up = f.powered_up
      /\ g.mode = f.mode /\ g.xip_cmd = f.xip_cmd /\ g.next_mode = f.next_mode
      /\ g.oe = f.oe /\ g.dout = f.dout
    BY <1>1, <1>2 DEF Registers
<1>5. g.dummycount \in 0 .. latency
    BY <1>1, <1>4 DEF latency
<1>6. Quiet(g)
    BY <1>3, <1>4, <1>5 DEF Quiet, Typed
<1> QED
    BY <1>4, <1>6

(* the w bits a mode reads are shifted into buffer;                        *)
Shifted(f, g, b) ==
    /\ g.buffer = b
    /\ g.dummycount = f.dummycount /\ g.spi_cmd = f.spi_cmd
    /\ g.spi_addr = f.spi_addr /\ g.powered_up = f.powered_up
    /\ g.mode = f.mode /\ g.oe = f.oe /\ g.dout = f.dout

Whole(f, b) ==
    [[f EXCEPT !.buffer = b] EXCEPT !.bitcount = 0, !.bytecount = @ + 1]

ShiftTo(f, b, w) ==
    IF f.bitcount + w = 8
    THEN spi_action(Whole(f, b))
    ELSE [[f EXCEPT !.buffer = b] EXCEPT !.bitcount = @ + w]

(* Bits that do not end a byte are counted.                                *)
LEMMA ShiftPart ==
    ASSUME NEW f, Quiet(f), NEW b \in 0 .. 255, NEW w \in {1, 4},
           f.bitcount + w < 8, NEW g, g = ShiftTo(f, b, w)
    PROVE  /\ Quiet(g) /\ Shifted(f, g, b)
           /\ g.bitcount = f.bitcount + w /\ g.bytecount = f.bytecount
<1>0. Registers(f) /\ f.bitcount \in 0 .. 7 /\ f.bytecount \in Nat
    BY DEF Quiet, Typed
<1> DEFINE h == [f EXCEPT !.buffer = b]
<1>1. g = [h EXCEPT !.bitcount = @ + w]
    BY <1>0 DEF ShiftTo
<1>2. Registers(h) /\ Registers(g) /\ h.bitcount = f.bitcount
    BY <1>0, <1>1 DEF Registers
<1>3. /\ g.buffer = b /\ g.bitcount = f.bitcount + w
      /\ g.bytecount = f.bytecount /\ g.spi_cmd = f.spi_cmd
      /\ g.dummycount = f.dummycount
      /\ g.spi_addr = f.spi_addr /\ g.powered_up = f.powered_up
      /\ g.mode = f.mode /\ g.xip_cmd = f.xip_cmd /\ g.next_mode = f.next_mode
      /\ g.oe = f.oe /\ g.dout = f.dout
    BY <1>0, <1>1, <1>2, ZenonT(60) DEF Registers
<1>4. f.bitcount + w \in 0 .. 7
    BY <1>0
<1>5. Quiet(g)
    BY <1>2, <1>3, <1>4 DEF Quiet, Typed
<1> QED
    BY <1>3, <1>5 DEF Shifted

(* Bits that end a byte make the flash act on it.                          *)
LEMMA ShiftWhole ==
    ASSUME NEW f, Quiet(f), NEW b \in 0 .. 255, NEW w \in {1, 4},
           f.bitcount + w = 8, NEW h, h = Whole(f, b)
    PROVE  /\ ShiftTo(f, b, w) = spi_action(h)
           /\ Quiet(h) /\ Shifted(f, h, b)
           /\ h.bitcount = 0 /\ h.bytecount = f.bytecount + 1
<1>0. Registers(f) /\ f.bitcount \in 0 .. 7 /\ f.bytecount \in Nat
    BY DEF Quiet, Typed
<1> DEFINE k == [f EXCEPT !.buffer = b]
<1>1. ShiftTo(f, b, w) = spi_action(h)
    BY <1>0 DEF ShiftTo, Whole
<1>2. Registers(k) /\ Registers(h)
    BY <1>0 DEF Registers, Whole
<1>3. /\ h.buffer = b /\ h.bitcount = 0
      /\ h.bytecount = f.bytecount + 1 /\ h.spi_cmd = f.spi_cmd
      /\ h.dummycount = f.dummycount
      /\ h.spi_addr = f.spi_addr /\ h.powered_up = f.powered_up
      /\ h.mode = f.mode /\ h.xip_cmd = f.xip_cmd /\ h.next_mode = f.next_mode
      /\ h.oe = f.oe /\ h.dout = f.dout
    BY <1>0 DEF Registers, Whole
<1>4. f.bytecount + 1 \in Nat
    BY <1>0
<1>5. Quiet(h)
    BY <1>2, <1>3, <1>4 DEF Quiet, Typed
<1>6. Shifted(f, h, b)
    BY <1>3 DEF Shifted
<1> QED
    BY <1>1, <1>3, <1>5, <1>6

(* A rise of sck in SPI mode takes in the bit on io0,                      *)
LEMMA HighBit ==
    ASSUME NEW f, Quiet(f), f.dummycount = 0, f.mode = "spi",
           NEW io \in 0 .. 15, NEW b, b = (2 * f.buffer + (io % 2)) % 256
    PROVE  ClkHigh(f, io) = ShiftTo(f, b, 1) /\ b \in 0 .. 255
<1>1. f.buffer \in 0 .. 255 /\ io % 2 \in 0 .. 1
    BY DEF Quiet, Typed
<1>2. b \in 0 .. 255 /\ b = (2^1 * f.buffer + (io % 2)) % 256
    BY <1>1
<1>3. ClkHigh(f, io) = ShiftIn(f, io % 2, 1)
    BY DEF ClkHigh
<1> QED
    BY <1>2, <1>3 DEF ShiftIn, ShiftTo, Whole

(* and in the four-line modes the nibble on all of them.                   *)
LEMMA HighNibble ==
    ASSUME NEW f, Quiet(f), f.dummycount = 0, f.mode \in {"qspi_rd", "qspi_wr"},
           NEW io \in 0 .. 15, NEW b, b = (16 * f.buffer + io) % 256
    PROVE  ClkHigh(f, io) = ShiftTo(f, b, 4) /\ b \in 0 .. 255
<1>1. f.buffer \in 0 .. 255
    BY DEF Quiet, Typed
<1>2. b \in 0 .. 255 /\ b = (2^4 * f.buffer + io) % 256
    BY <1>1, SMTT(60)
<1>3. ClkHigh(f, io) = ShiftIn(f, io, 4)
    BY DEF ClkHigh
<1> QED
    BY <1>2, <1>3 DEF ShiftIn, ShiftTo, Whole

(* and a whole byte is acted on: the first is the command,                 *)
Decoded(f, g) ==
    /\ Registers(g)
    /\ g.powered_up \in BOOLEAN /\ g.powered_up
    /\ g.spi_cmd = f.buffer /\ g.xip_cmd = 0
    /\ g.buffer = f.buffer /\ g.bitcount = f.bitcount /\ g.bytecount = 1
    /\ g.dummycount = f.dummycount /\ g.spi_addr = f.spi_addr
    /\ g.next_mode = f.next_mode /\ g.oe = f.oe /\ g.dout = f.dout

(* The two opcodes the driver sends leave the flash awake.                 *)
LEMMA DecodeLemma ==
    ASSUME NEW f, Quiet(f), f.bytecount = 1,
           f.buffer = POWER_UP \/ (f.powered_up /\ f.buffer = READ_QUAD)
    PROVE  Decoded(f, Decode(f)) /\ Decode(f).mode = f.mode
<1>1. Registers(f) /\ f.next_mode = "none" /\ f.xip_cmd = 0
    BY DEF Quiet, Typed
<1>2. f.buffer # POWER_DOWN /\ f.buffer # CLEAR_XIP
    BY DEF POWER_UP, READ_QUAD, POWER_DOWN, CLEAR_XIP
<1> QED
    BY <1>1, <1>2 DEF Decoded, Decode, Registers

(* Decoding keeps XIP and DDR off.                                         *)
LEMMA DecodedLemma ==
    ASSUME NEW f, Quiet(f), NEW g, Decoded(f, g), g.mode \in Mode
    PROVE  Quiet(g)
<1>1. /\ Registers(g) /\ g.buffer \in 0 .. 255
      /\ g.bitcount \in 0 .. 7 /\ g.bytecount \in Nat
    BY DEF Decoded, Quiet, Typed
<1>2. /\ g.dummycount \in 0 .. latency /\ g.spi_cmd \in 0 .. 255
      /\ g.xip_cmd \in 0 .. 255 /\ g.spi_addr \in 0 .. FlashSize - 1
    BY DEF Decoded, Quiet, Typed
<1>3. /\ g.next_mode \in {"none", "qspi_ddr_rd"}
      /\ g.oe \in SUBSET IoLine /\ g.dout \in 0 .. 15
    BY DEF Decoded, Quiet, Typed
<1>4. g.powered_up \in BOOLEAN /\ g.xip_cmd = 0 /\ g.next_mode = "none"
    BY DEF Decoded, Quiet
<1> QED
    BY <1>1, <1>2, <1>3, <1>4 DEF Quiet, Typed

(* The power-up opcode only wakes the flash.                               *)
LEMMA WakeByte ==
    ASSUME NEW f, Quiet(f), f.bytecount = 1, f.buffer = POWER_UP,
           NEW g, g = spi_action(f)
    PROVE  Quiet(g) /\ Decoded(f, g) /\ g.mode = f.mode
<1> DEFINE h == Decode(f)
<1>1. Decoded(f, h) /\ h.mode = f.mode
    BY DecodeLemma
<1> HIDE DEF h
<1>2. g = h
    BY <1>1 DEF spi_action, Decoded, POWER_UP, READ_STD, READ_DUAL, READ_QUAD, READ_DDR, h
<1>3. g.mode \in Mode
    BY <1>1, <1>2 DEF Quiet, Typed
<1> QED
    BY <1>1, <1>2, <1>3, DecodedLemma

(* The fast-read opcode turns it to reading four lines.                    *)
LEMMA OpcodeByte ==
    ASSUME NEW f, Quiet(f), f.bytecount = 1, f.buffer = READ_QUAD, f.powered_up,
           NEW g, g = spi_action(f)
    PROVE  Quiet(g) /\ Decoded(f, g) /\ g.mode = "qspi_rd"
<1> DEFINE h == Decode(f)
           k == Turn(h, "qspi_rd")
<1>1. Decoded(f, h)
    BY DecodeLemma
<1>2. h.spi_cmd = 235 /\ h.bytecount = 1 /\ h.powered_up
    BY <1>1 DEF Decoded, READ_QUAD
<1> HIDE DEF h
<1>3. g = FastRead(h, "qspi_rd", "qspi_wr")
    BY <1>2 DEF spi_action, READ_STD, READ_DUAL, READ_QUAD, READ_DDR, h
<1>4. k = [h EXCEPT !.mode = "qspi_rd"]
    BY <1>2 DEF READ_DDR, Turn
<1> HIDE DEF k
<1>5. Decoded(f, k) /\ k.mode = "qspi_rd"
    BY <1>1, <1>4 DEF Decoded, Registers
<1>6. AddressByte(k) = [k EXCEPT !.spi_addr = @]
    BY <1>5 DEF AddressByte, Decoded
<1>7. Decoded(f, AddressByte(k)) /\ AddressByte(k).mode = "qspi_rd"
    BY <1>5, <1>6 DEF Decoded, Registers
<1>8. g = AddressByte(k)
    BY <1>2, <1>3, <1>7 DEF FastRead, ModeByte, Decoded, k
<1>9. Quiet(g)
    BY <1>7, <1>8, DecodedLemma DEF Mode
<1> QED
    BY <1>7, <1>8, <1>9

(* the next three the address,                                             *)
LEMMA AddressByteLemma ==
    ASSUME NEW f, Quiet(f), f.spi_cmd = READ_QUAD, f.powered_up,
           NEW s \in 0 .. FlashSize - 1,
           \/ f.bytecount = 2 /\ s = 2^16 * f.buffer + (f.spi_addr % 2^16)
           \/ f.bytecount = 3 /\ s = (f.spi_addr - (f.spi_addr % 2^16)) + 2^8 * f.buffer + (f.spi_addr % 2^8)
           \/ f.bytecount = 4 /\ s = (f.spi_addr - (f.spi_addr % 2^8)) + f.buffer,
           NEW g, g = spi_action(f)
    PROVE  /\ Quiet(g) /\ g.spi_addr = s
           /\ g.bytecount = f.bytecount /\ g.bitcount = f.bitcount
           /\ g.powered_up /\ g.spi_cmd = READ_QUAD /\ g.mode = f.mode
           /\ g.dummycount = f.dummycount
<1>1. f.bytecount \in 2 .. 4 /\ Registers(f)
    BY DEF Quiet, Typed
<1>2. Decode(f) = f
    BY <1>1 DEF Decode
<1>3. g = FastRead(f, "qspi_rd", "qspi_wr")
    BY <1>2 DEF spi_action, READ_STD, READ_DUAL, READ_QUAD, READ_DDR
<1>4. Turn(f, "qspi_rd") = f
    BY <1>1 DEF Turn
<1> DEFINE h == [f EXCEPT !.spi_addr = s]
<1>5. AddressByte(f) = h
    BY <1>1 DEF AddressByte
<1>6. /\ Registers(h) /\ h.spi_addr = s
      /\ h.buffer = f.buffer /\ h.bitcount = f.bitcount
      /\ h.bytecount = f.bytecount /\ h.spi_cmd = f.spi_cmd
      /\ h.dummycount = f.dummycount /\ h.powered_up = f.powered_up
      /\ h.mode = f.mode /\ h.xip_cmd = f.xip_cmd /\ h.next_mode = f.next_mode
      /\ h.oe = f.oe /\ h.dout = f.dout
    BY <1>1 DEF Registers
<1> HIDE DEF h
<1>7. g = h
    BY <1>1, <1>3, <1>4, <1>5, <1>6 DEF FastRead, ModeByte
<1>8. Quiet(h)
    BY <1>6 DEF Quiet, Typed
<1> QED
    BY <1>6, <1>7, <1>8

(* The address counter stays within the memory.                            *)
LEMMA WrapLemma == \A x \in Nat : x % FlashSize \in 0 .. FlashSize - 1
BY SMT DEF FlashSize

(* the mode byte turns the lines round, and from it on the next byte of    *)
(* the memory is fetched.                                                  *)
LEMMA FetchLemma ==
    ASSUME NEW f, Quiet(f), f.spi_cmd = READ_QUAD, f.powered_up,
           f.bytecount >= 5, f.bytecount = 5 => f.buffer = 0,
           f.mode \in {"qspi_rd", "qspi_wr"}, f.bytecount > 5 => f.mode = "qspi_wr",
           f.dummycount = 0, memory(f.spi_addr) \in 0 .. 255,
           NEW g, g = spi_action(f)
    PROVE  /\ Quiet(g) /\ g.buffer = memory(f.spi_addr)
           /\ g.spi_addr = (f.spi_addr + 1) % FlashSize
           /\ g.bytecount = f.bytecount /\ g.bitcount = f.bitcount
           /\ g.powered_up /\ g.spi_cmd = READ_QUAD /\ g.mode = "qspi_wr"
           /\ g.dummycount = IF f.bytecount = 5 THEN 8 ELSE 0
<1>1. f.bytecount \in Nat /\ f.bytecount >= 5 /\ Registers(f)
    BY DEF Quiet, Typed
<1>2. Decode(f) = f
    BY <1>1 DEF Decode
<1>3. g = FastRead(f, "qspi_rd", "qspi_wr")
    BY <1>2 DEF spi_action, READ_STD, READ_DUAL, READ_QUAD, READ_DDR
<1>4. Turn(f, "qspi_rd") = f
    BY <1>1 DEF Turn
<1> DEFINE h == AddressByte(f)
<1>5. h = [f EXCEPT !.spi_addr = @]
    BY <1>1 DEF AddressByte
<1>6. /\ Registers(h) /\ h.spi_addr = f.spi_addr
      /\ h.buffer = f.buffer /\ h.bitcount = f.bitcount
      /\ h.bytecount = f.bytecount /\ h.spi_cmd = f.spi_cmd
      /\ h.dummycount = f.dummycount /\ h.powered_up = f.powered_up
      /\ h.mode = f.mode /\ h.xip_cmd = f.xip_cmd /\ h.next_mode = f.next_mode
      /\ h.oe = f.oe /\ h.dout = f.dout
    BY <1>1, <1>5, ZenonT(60) DEF Registers
<1> HIDE DEF h
<1> DEFINE k == ModeByte(h, "qspi_wr")
<1>7. /\ Registers(k) /\ k.spi_addr = f.spi_addr
      /\ k.bitcount = f.bitcount
      /\ k.bytecount = f.bytecount /\ k.spi_cmd = f.spi_cmd
      /\ k.dummycount = (IF f.bytecount = 5 THEN 8 ELSE 0)
      /\ k.powered_up = f.powered_up
      /\ k.mode = "qspi_wr" /\ k.xip_cmd = 0 /\ k.next_mode = f.next_mode
      /\ k.oe = f.oe /\ k.dout = f.dout
  <2>1. CASE f.bytecount = 5
    <3> DEFINE x == IF h.buffer = XIP_MODE THEN h.spi_cmd ELSE 0
    <3>1. k = [h EXCEPT !.xip_cmd = x, !.mode = "qspi_wr", !.dummycount = 8]
        BY <2>1, <1>6 DEF ModeByte, latency
    <3>4. x = 0
        BY <2>1, <1>6 DEF XIP_MODE
    <3> HIDE DEF k, x
    <3>2. Registers(k)
        BY <3>1, <1>6 DEF Registers
    <3>3. /\ k.bitcount = h.bitcount /\ k.bytecount = h.bytecount
          /\ k.spi_addr = h.spi_addr /\ k.spi_cmd = h.spi_cmd
          /\ k.dummycount = 8 /\ k.powered_up = h.powered_up
          /\ k.mode = "qspi_wr" /\ k.xip_cmd = x /\ k.next_mode = h.next_mode
          /\ k.oe = h.oe /\ k.dout = h.dout
        BY <3>1, <1>6 DEF Registers
    <3> QED
        BY <3>2, <3>3, <3>4, <1>6, <2>1
  <2>2. CASE f.bytecount > 5
    <3>1. k = h
        BY <1>1, <1>6, <2>2 DEF ModeByte
    <3> HIDE DEF k
    <3> QED
        BY <3>1, <1>1, <1>6, <2>2 DEF Quiet
  <2>3. f.bytecount = 5 \/ f.bytecount > 5
      BY <1>1
  <2> QED
      BY <2>1, <2>2, <2>3
<1> HIDE DEF k
<1> DEFINE m == memory(f.spi_addr)
           s == (f.spi_addr + 1) % FlashSize
<1>8. g = [k EXCEPT !.buffer = m, !.spi_addr = s]
    BY <1>1, <1>3, <1>4, <1>7 DEF FastRead, Fetch, k, h
<1> HIDE DEF m, s
<1>9. /\ g.buffer = m /\ g.spi_addr = s
      /\ g.bitcount = k.bitcount /\ g.bytecount = k.bytecount
      /\ g.spi_cmd = k.spi_cmd /\ g.dummycount = k.dummycount
      /\ g.powered_up = k.powered_up /\ g.mode = k.mode
      /\ g.xip_cmd = k.xip_cmd /\ g.next_mode = k.next_mode
      /\ g.oe = k.oe /\ g.dout = k.dout
    BY <1>7, <1>8 DEF Registers
<1>10. Registers(g)
    BY <1>7, <1>8 DEF Registers
<1>11. (f.spi_addr + 1) % FlashSize \in 0 .. FlashSize - 1
  <2>1. f.spi_addr + 1 \in Nat
      BY DEF Quiet, Typed
  <2> QED
      BY <2>1, WrapLemma
<1>12. k.dummycount \in 0 .. latency /\ k.mode \in Mode
    BY <1>7 DEF latency, Mode
<1>13. Quiet(g)
    BY <1>7, <1>9, <1>10, <1>11, <1>12 DEF Quiet, Typed, m, s
<1> QED
    BY <1>7, <1>9, <1>13 DEF m, s
-----------------------------------------------------------------------------
(* One more bit of a byte, from the top.                                   *)
LEMMA BitLemma ==
    ASSUME NEW n \in 0 .. 7, NEW c, c = 171 \/ c = 235
    PROVE  /\ (2 * (c \div 2^(8 - n)) + ((c \div 2^(7 - n)) % 2)) % 256
                 = c \div 2^(8 - (n + 1))
           /\ n = 7 => c \div 2^(8 - (n + 1)) = c
<1> n = 0 \/ n = 1 \/ n = 2 \/ n = 3 \/ n = 4 \/ n = 5 \/ n = 6 \/ n = 7
    OBVIOUS
<1>0. CASE n = 0 BY <1>0
<1>1. CASE n = 1 BY <1>1
<1>2. CASE n = 2 BY <1>2
<1>3. CASE n = 3 BY <1>3
<1>4. CASE n = 4 BY <1>4
<1>5. CASE n = 5 BY <1>5
<1>6. CASE n = 6 BY <1>6
<1>7. CASE n = 7 BY <1>7
<1> QED
    BY <1>0, <1>1, <1>2, <1>3, <1>4, <1>5, <1>6, <1>7

(* A clock of the power-up command.                                        *)
LEMMA WakeClock ==
    ASSUME NEW f, NEW n \in 0 .. 7, WakeUp(f, n), NEW io \in 0 .. 15,
           io % 2 = (171 \div 2^(7 - n)) % 2
    PROVE  WakeUp(Period(f, io), n + 1)
<1> DEFINE h == ClkHigh(f, io)
           g == ClkLow(h, io)
<1>1. /\ Quiet(f) /\ f.mode = "spi"
      /\ f.dummycount \in 0 .. 8 /\ f.bitcount \in 0 .. 7
    BY DEF WakeUp, Quiet, Typed, latency
<1>2. ASSUME Quiet(h), h.mode = "spi", Heard(h, n + 1) \/ Eaten(h, n + 1)
      PROVE  WakeUp(g, n + 1)
  <2> HIDE DEF h
  <2>1. h.dummycount \in 0 .. 8 /\ h.buffer \in 0 .. 255
      BY <1>2 DEF Quiet, Typed, latency
  <2>2. /\ LowKeeps(h, g) /\ Quiet(g)
        /\ h.dummycount > 0 => g.oe = {} /\ g.dout = 0
        /\ h.dummycount = 0 => g.oe = {1} /\ g.dout = 2 * (h.buffer \div 128)
      BY <1>2, LowLemma
  <2> HIDE DEF g
  <2>3. Heard(g, n + 1) \/ Eaten(g, n + 1)
      BY <1>2, <2>2 DEF LowKeeps, Heard, Eaten
  <2>4. h.dummycount > 0 => h.buffer = 0
      BY <1>2, <2>1 DEF Heard, Eaten
  <2>5. 2 * (0 \div 128) = 0
      OBVIOUS
  <2>6. g.oe \subseteq {1} /\ g.dout = 2 * (g.buffer \div 128)
      BY <2>1, <2>2, <2>4, <2>5 DEF LowKeeps
  <2> QED
      BY <1>2, <2>2, <2>3, <2>6 DEF WakeUp, LowKeeps
<1>3. Quiet(h) /\ h.mode = "spi" /\ (Heard(h, n + 1) \/ Eaten(h, n + 1))
  <2>1. CASE f.dummycount > 0
    <3>1. Eaten(f, n)
        BY <1>1, <2>1 DEF WakeUp, Heard
    <3>2. /\ Quiet(h) /\ h.dummycount = f.dummycount - 1
          /\ h.buffer = f.buffer /\ h.bitcount = f.bitcount
          /\ h.bytecount = f.bytecount /\ h.powered_up = f.powered_up
          /\ h.mode = f.mode
        BY <1>1, <2>1, HighDummy
    <3> HIDE DEF h
    <3>3. Eaten(h, n + 1)
        BY <1>1, <2>1, <3>1, <3>2 DEF Eaten
    <3> QED
        BY <1>1, <3>2, <3>3
  <2>2. CASE f.dummycount = 0
    <3> DEFINE b == (2 * f.buffer + (io % 2)) % 256
    <3>1. h = ShiftTo(f, b, 1) /\ b \in 0 .. 255
        BY <1>1, <2>2, HighBit
    <3>2. Heard(f, n) => b = 171 \div 2^(8 - (n + 1))
      <4>1. (2 * (171 \div 2^(8 - n)) + ((171 \div 2^(7 - n)) % 2)) % 256
              = 171 \div 2^(8 - (n + 1))
          BY BitLemma, ZenonT(60)
      <4> QED
          BY <4>1 DEF Heard
    <3> HIDE DEF h, b
    <3>3. CASE f.bitcount < 7
      <4>1. /\ Quiet(h) /\ Shifted(f, h, b)
            /\ h.bitcount = f.bitcount + 1 /\ h.bytecount = f.bytecount
        <5>1. f.bitcount + 1 < 8
            BY <1>1, <3>3
        <5> QED
            BY <1>1, <3>1, <5>1, ShiftPart
      <4>2. CASE Heard(f, n)
        <5>1. n < 7 /\ n % 8 = n /\ (n + 1) % 8 = n + 1 /\ n \div 8 = 0 /\ (n + 1) \div 8 = 0
            BY <3>3, <4>2 DEF Heard
        <5>2. Heard(h, n + 1)
            BY <2>2, <3>2, <4>1, <4>2, <5>1 DEF Heard, Shifted
        <5> QED
            BY <1>1, <4>1, <5>2 DEF Shifted
      <4>3. CASE Eaten(f, n)
        <5>1. Eaten(h, n + 1)
            BY <1>1, <2>2, <4>1, <4>3 DEF Eaten, Shifted
        <5> QED
            BY <1>1, <4>1, <5>1 DEF Shifted
      <4> QED
          BY <4>2, <4>3 DEF WakeUp
    <3>4. CASE f.bitcount = 7
      <4>1. Heard(f, n)
          BY <2>2, <3>4 DEF WakeUp, Eaten
      <4>2. n = 7
          BY <3>4, <4>1 DEF Heard
      <4>3. b = 171
        <5>1. 171 \div 2^(8 - (n + 1)) = 171
            BY <4>2, BitLemma
        <5> QED
            BY <3>2, <4>1, <4>2, <5>1
      <4>10. f.bitcount + 1 = 8
          BY <3>4
      <4> DEFINE k == Whole(f, b)
      <4>4. /\ h = spi_action(k)
            /\ Quiet(k) /\ Shifted(f, k, b)
            /\ k.bitcount = 0 /\ k.bytecount = f.bytecount + 1
          BY <1>1, <3>1, <4>10, ShiftWhole
      <4> HIDE DEF k
      <4>5. k.bytecount = 1 /\ k.buffer = POWER_UP
          BY <4>1, <4>2, <4>3, <4>4 DEF Heard, Shifted, POWER_UP
      <4>6. Quiet(h) /\ Decoded(k, h) /\ h.mode = k.mode
          BY <4>4, <4>5, WakeByte
      <4>7. 8 % 8 = 0 /\ 8 \div 8 = 1 /\ 171 \div 2^(8 - 8) = 171
          OBVIOUS
      <4>8. Heard(h, 8)
          BY <2>2, <4>4, <4>5, <4>6, <4>7 DEF Heard, Decoded, Shifted, POWER_UP
      <4> QED
          BY <1>1, <4>2, <4>4, <4>6, <4>8 DEF Shifted
    <3> QED
        BY <1>1, <3>3, <3>4
  <2> QED
      BY <1>1, <2>1, <2>2
<1> QED
    BY <1>2, <1>3 DEF Period

(* A clock of the read's opcode: the last one turns the lines round.       *)
LEMMA OpcodeClock ==
    ASSUME NEW f, NEW n \in 0 .. 7, Opcode(f, n), NEW io \in 0 .. 15,
           io % 2 = (235 \div 2^(7 - n)) % 2, NEW a
    PROVE  /\ n < 7 => Opcode(Period(f, io), n + 1)
           /\ n = 7 => Address(Period(f, io), a, 0)
<1> DEFINE h == ClkHigh(f, io)
           g == ClkLow(h, io)
           b == (2 * f.buffer + (io % 2)) % 256
<1>1. Quiet(f) /\ f.mode = "spi" /\ f.dummycount = 0 /\ f.bitcount = n /\ f.bytecount = 0
    BY DEF Opcode
<1>2. h = ShiftTo(f, b, 1) /\ b \in 0 .. 255
    BY <1>1, HighBit
<1>3. b = 235 \div 2^(8 - (n + 1))
  <2>1. (2 * (235 \div 2^(8 - n)) + ((235 \div 2^(7 - n)) % 2)) % 256
          = 235 \div 2^(8 - (n + 1))
      BY BitLemma, ZenonT(60)
  <2> QED
      BY <2>1, ZenonT(60) DEF Opcode
<1> HIDE DEF h, b
<1>4. CASE n < 7
  <2>1. /\ Quiet(h) /\ Shifted(f, h, b)
        /\ h.bitcount = f.bitcount + 1 /\ h.bytecount = f.bytecount
    <3>1. f.bitcount + 1 < 8
        BY <1>1, <1>4
    <3> QED
        BY <1>1, <1>2, <3>1, ShiftPart, ZenonT(60)
  <2>2. h.dummycount = 0 /\ h.mode = "spi"
      BY <1>1, <2>1 DEF Shifted
  <2>3. /\ LowKeeps(h, g) /\ Quiet(g)
        /\ g.oe = {1} /\ g.dout = 2 * (h.buffer \div 128)
      BY <2>1, <2>2, LowLemma
  <2> HIDE DEF g
  <2>4. Opcode(g, n + 1)
      BY <1>1, <1>3, <2>1, <2>2, <2>3 DEF Opcode, LowKeeps, Shifted
  <2> QED
      BY <1>4, <2>4 DEF Period, g, h
<1>5. CASE n = 7
  <2>1. b = 235
    <3>1. 235 \div 2^(8 - (n + 1)) = 235
        BY <1>5, BitLemma
    <3> QED
        BY <1>3, <1>5, <3>1
  <2> DEFINE k == Whole(f, b)
  <2>2. /\ h = spi_action(k)
        /\ Quiet(k) /\ Shifted(f, k, b)
        /\ k.bitcount = 0 /\ k.bytecount = f.bytecount + 1
    <3>1. f.bitcount + 1 = 8
        BY <1>1, <1>5
    <3> QED
        BY <1>1, <1>2, <3>1, ShiftWhole
  <2> HIDE DEF k
  <2>3. k.bytecount = 1 /\ k.buffer = READ_QUAD /\ k.powered_up
      BY <1>1, <2>1, <2>2 DEF Shifted, READ_QUAD, Opcode
  <2>4. Quiet(h) /\ Decoded(k, h) /\ h.mode = "qspi_rd"
      BY <2>2, <2>3, OpcodeByte
  <2>5. LowKeeps(h, g) /\ Quiet(g) /\ g.oe = {} /\ g.dout = 0
      BY <2>4, LowLemma
  <2> HIDE DEF g
  <2>6. /\ g.mode = "qspi_rd" /\ g.spi_cmd = READ_QUAD
        /\ g.powered_up /\ g.dummycount = 0 /\ g.bitcount = 0 /\ g.bytecount = 1
      BY <1>1, <2>2, <2>3, <2>4, <2>5 DEF LowKeeps, Decoded, Shifted
  <2>7. Address(g, a, 0)
      BY <2>5, <2>6 DEF Address
  <2> QED
      BY <1>5, <2>7 DEF Period, g, h
<1> QED
    BY <1>4, <1>5

(* An address is its three bytes, the highest first.                       *)
LEMMA PackedLemma ==
    ASSUME NEW a \in 0 .. FlashSize - 1
    PROVE  /\ Packed(a)[1] \in 0 .. 255 /\ Packed(a)[2] \in 0 .. 255
           /\ Packed(a)[3] \in 0 .. 255 /\ Packed(a)[4] = 0
           /\ a = 2^16 * Packed(a)[1] + 2^8 * Packed(a)[2] + Packed(a)[3]
<1> DEFINE x == a \div 2^16
           y == a \div 2^8
<1>1. a \in Nat /\ a < 2^24
    BY SMT DEF FlashSize
<1>2. x % 2^8 = x /\ x \in 0 .. 255
    BY SMT, <1>1
<1>3. y = 2^8 * x + (y % 2^8)
    BY SMT, <1>1
<1>4. a = 2^8 * y + (a % 2^8)
    BY SMT, <1>1
<1>5. y % 2^8 \in 0 .. 255 /\ a % 2^8 \in 0 .. 255
    BY SMT, <1>1
<1>6. a = 2^16 * x + 2^8 * (y % 2^8) + (a % 2^8)
    BY SMT, <1>1, <1>2, <1>3, <1>4, <1>5
<1>7. Packed(a)[1] = x % 2^8 /\ Packed(a)[2] = y % 2^8 /\ Packed(a)[3] = a % 2^8 /\ Packed(a)[4] = 0
    BY SMT DEF Packed
<1> HIDE DEF x, y
<1> QED
    BY SMT, <1>2, <1>5, <1>6, <1>7

(* What the driver sends of an address are bytes.                          *)
LEMMA PackedBytes ==
    ASSUME NEW a \in 0 .. FlashSize - 1, NEW i \in {1, 2, 3, 4}
    PROVE  Packed(a)[i] \in 0 .. 255
<1>1. Packed(a)[4] \in 0 .. 255
    BY PackedLemma
<1> QED
    BY <1>1, PackedLemma

(* A dummy clock.                                                          *)
LEMMA DummyClock ==
    ASSUME NEW f, NEW n \in 0 .. 7, NEW a, Dummy(f, a, n), NEW io
    PROVE  Dummy(Period(f, io), a, n + 1)
<1> DEFINE h == ClkHigh(f, io)
           g == ClkLow(h, io)
<1>1. Quiet(f) /\ f.dummycount = 8 - n /\ f.dummycount > 0
    BY DEF Dummy
<1>2. /\ Quiet(h) /\ h.dummycount = f.dummycount - 1
      /\ h.buffer = f.buffer /\ h.bitcount = f.bitcount
      /\ h.bytecount = f.bytecount /\ h.spi_cmd = f.spi_cmd
      /\ h.spi_addr = f.spi_addr /\ h.powered_up = f.powered_up
      /\ h.mode = f.mode
    BY <1>1, HighDummy
<1>3. h.mode = "qspi_wr" /\ h.dummycount = 8 - (n + 1)
    BY <1>1, <1>2 DEF Dummy
<1> HIDE DEF h
<1>4. /\ LowKeeps(h, g) /\ Quiet(g)
      /\ h.dummycount > 0 => g.oe = {} /\ g.dout = 0
      /\ h.dummycount = 0 => g.oe = IoLine /\ g.dout = h.buffer \div 16
    BY <1>2, <1>3, LowLemma
<1> HIDE DEF g
<1>5. /\ Quiet(g) /\ g.powered_up /\ g.mode = "qspi_wr" /\ g.spi_cmd = READ_QUAD
      /\ g.bitcount = 0 /\ g.bytecount = 5 /\ g.dummycount = 8 - (n + 1)
      /\ g.buffer = memory(a) /\ g.spi_addr = (a + 1) % FlashSize
    BY <1>2, <1>3, <1>4 DEF Dummy, LowKeeps
<1>6. /\ g.oe = IF n + 1 < 8 THEN {} ELSE IoLine
      /\ g.dout = IF n + 1 < 8 THEN 0 ELSE g.buffer \div 16
    BY <1>3, <1>4 DEF LowKeeps
<1>7. Dummy(g, a, n + 1)
    BY <1>5, <1>6 DEF Dummy
<1> QED
    BY <1>7 DEF Period, g, h

(* One more nibble of a byte, and one more byte of the address.            *)
LEMMA NibbleLemma ==
    ASSUME NEW buffer \in 0 .. 255, NEW byte \in 0 .. 255
    PROVE  /\ byte \div 16 \in 0 .. 15 /\ byte % 16 \in 0 .. 15
           /\ ((16 * buffer + (byte \div 16)) % 256) % 16 = byte \div 16
           /\ ((16 * byte + (byte \div 16)) % 256) \div 16 = byte % 16
OBVIOUS

WithNibble(f, io) == (16 * f.buffer + io) % 256

HalfOf(f, byte) == f.buffer \in 0 .. 255 /\ f.buffer % 16 = byte \div 16

RestOf(io, byte) == io = byte % 16

(* The second nibble makes the byte whole.                                 *)
LEMMA SecondNibble ==
    ASSUME NEW f, NEW byte \in 0 .. 255, HalfOf(f, byte), NEW io, RestOf(io, byte)
    PROVE  io \in 0 .. 15 /\ byte = WithNibble(f, io)
<1> DEFINE c == f.buffer
<1>1. c \in 0 .. 255 /\ c % 16 = byte \div 16
    BY DEF HalfOf
<1>2. io = byte % 16
    BY DEF RestOf
<1> HIDE DEF c
<1>3. io \in 0 .. 15 /\ byte = (16 * c + io) % 256
    BY <1>1, <1>2
<1> QED
    BY <1>3 DEF c, WithNibble

(* The first byte of the address,                                          *)
LEMMA HighByte ==
    ASSUME NEW s \in Nat, NEW p \in 0 .. 255, NEW t, t = 2^16 * p + (s % 2^16)
    PROVE  t \in 0 .. FlashSize - 1 /\ t \div 2^16 = p
BY SMT DEF FlashSize

HighIs(s, p) == s \div 2^16 = p

MiddleIs(s, p, q) == s \div 2^8 = 2^8 * p + q

FromBytes(p, q, r) == 2^16 * p + 2^8 * q + r

AddressIs(s, p, q, r) == s = FromBytes(p, q, r)

SetMiddle(s, q) == (s - (s % 2^16)) + 2^8 * q + (s % 2^8)

SetLow(s, r) == (s - (s % 2^8)) + r

(* the second, which keeps the first,                                      *)
LEMMA MiddleByte ==
    ASSUME NEW s \in Nat, NEW p \in 0 .. 255, NEW q \in 0 .. 255,
           HighIs(s, p), NEW t, t = SetMiddle(s, q)
    PROVE  t \in 0 .. FlashSize - 1 /\ HighIs(t, p) /\ MiddleIs(t, p, q)
<1>1. s - (s % 2^16) = 2^16 * p
    BY SMT DEF HighIs
<1>2. s % 2^8 \in 0 .. 255
    BY SMT
<1> DEFINE r == s % 2^8
<1> HIDE DEF r
<1>3. t = 2^16 * p + 2^8 * q + r /\ r \in 0 .. 255
    BY SMT, <1>1, <1>2 DEF r, SetMiddle
<1>4. t \div 2^16 = p
    BY SMT, <1>3
<1>5. t \div 2^8 = 2^8 * p + q
    BY SMT, <1>3
<1> QED
    BY SMT, <1>3, <1>4, <1>5 DEF FlashSize, HighIs, MiddleIs

(* and the third, which makes it the whole address,                        *)
LEMMA LowValue ==
    ASSUME NEW s \in Nat, NEW p \in 0 .. 255, NEW q \in 0 .. 255, NEW r \in 0 .. 255,
           MiddleIs(s, p, q), NEW t, t = SetLow(s, r)
    PROVE  AddressIs(t, p, q, r)
BY SMT DEF MiddleIs, SetLow, FromBytes, AddressIs

(* within the memory.                                                      *)
LEMMA LowByte ==
    ASSUME NEW s \in Nat, NEW p \in 0 .. 255, NEW q \in 0 .. 255, NEW r \in 0 .. 255,
           MiddleIs(s, p, q), NEW t, t = SetLow(s, r)
    PROVE  t \in 0 .. FlashSize - 1 /\ HighIs(t, p) /\ MiddleIs(t, p, q)
<1>1. t = 2^16 * p + 2^8 * q + r
    BY SMT DEF MiddleIs, SetLow
<1>2. t \div 2^16 = p
    BY SMT, <1>1
<1>3. t \div 2^8 = 2^8 * p + q
    BY SMT, <1>1
<1> QED
    BY SMT, <1>1, <1>2, <1>3 DEF FlashSize, HighIs, MiddleIs

(* The nibble a host puts on the lines in clock n of the bytes w.          *)
Nibble(w, n) ==
    IF n % 2 = 0 THEN w[(n \div 2) + 1] \div 16 ELSE w[(n \div 2) + 1] % 16

(* The rise of sck at which a nibble ends a byte.                          *)
LEMMA NibbleWhole ==
    ASSUME NEW f, Quiet(f), f.dummycount = 0, f.mode \in {"qspi_rd", "qspi_wr"},
           f.bitcount = 4, NEW io \in 0 .. 15, NEW b, b = WithNibble(f, io)
    PROVE  /\ ClkHigh(f, io) = spi_action(Whole(f, b))
           /\ Quiet(Whole(f, b)) /\ Shifted(f, Whole(f, b), b)
           /\ Whole(f, b).bitcount = 0 /\ Whole(f, b).bytecount = f.bytecount + 1
<1>1. ClkHigh(f, io) = ShiftTo(f, b, 4) /\ b \in 0 .. 255
    BY HighNibble DEF WithNibble
<1>2. f.bitcount + 4 = 8 /\ 4 \in {1, 4}
    OBVIOUS
<1> DEFINE k == Whole(f, b)
<1> HIDE DEF k
<1>3. /\ ShiftTo(f, b, 4) = spi_action(k)
      /\ Quiet(k) /\ Shifted(f, k, b)
      /\ k.bitcount = 0 /\ k.bytecount = f.bytecount + 1
  <2>1. k = Whole(f, b)
      BY DEF k
  <2>2. ShiftTo(f, b, 4) = spi_action(k)
      BY <1>2, <2>1 DEF ShiftTo
  <2>3. Quiet(k) /\ Shifted(f, k, b)
      BY <1>1, <1>2, <2>1, ShiftWhole, ZenonT(60)
  <2>4. k.bitcount = 0 /\ k.bytecount = f.bytecount + 1
      BY <1>1, <1>2, <2>1, ShiftWhole, ZenonT(60)
  <2> QED
      BY <2>2, <2>3, <2>4
<1> QED
    BY <1>1, <1>3 DEF k

(* A clock of the address.  The first of a byte only shifts,               *)
LEMMA AddressShift ==
    ASSUME NEW n \in {0, 2, 4, 6}, NEW a \in 0 .. FlashSize - 1,
           NEW f, Address(f, a, n), NEW io, io = Nibble(Packed(a), n)
    PROVE  Address(Period(f, io), a, n + 1)
<1> DEFINE h == ClkHigh(f, io)
           g == ClkLow(h, io)
           byte == Packed(a)[(n \div 2) + 1]
           b == (16 * f.buffer + io) % 256
<1>1. /\ Quiet(f) /\ f.mode = "qspi_rd" /\ f.dummycount = 0 /\ f.bitcount = 0
      /\ f.bytecount = 1 + (n \div 2) /\ f.buffer \in 0 .. 255
  <2>1. 4 * (n % 2) = 0
      OBVIOUS
  <2> QED
      BY <2>1 DEF Address, Quiet, Typed
<1>2. byte \in 0 .. 255
  <2>1. (n \div 2) + 1 \in {1, 2, 3, 4}
      OBVIOUS
  <2> QED
      BY <2>1, PackedBytes, ZenonT(60)
<1>3. io = byte \div 16
    BY DEF Nibble
<1> HIDE DEF byte
<1>4. io \in 0 .. 15 /\ b % 16 = byte \div 16
    BY <1>1, <1>2, <1>3, NibbleLemma, SMTT(60)
<1>5. h = ShiftTo(f, b, 4) /\ b \in 0 .. 255
    BY <1>1, <1>4, HighNibble
<1> HIDE DEF h, b
<1>6. /\ Quiet(h) /\ Shifted(f, h, b)
      /\ h.bitcount = f.bitcount + 4 /\ h.bytecount = f.bytecount
  <2>1. f.bitcount + 4 < 8
      BY <1>1
  <2> QED
      BY <1>1, <1>5, <2>1, ShiftPart, ZenonT(60)
<1>7. h.mode = "qspi_rd"
    BY <1>1, <1>6 DEF Shifted
<1>8. LowKeeps(h, g) /\ Quiet(g) /\ g.oe = {} /\ g.dout = 0
    BY <1>6, <1>7, LowLemma
<1> HIDE DEF g
<1>9. /\ g.powered_up /\ g.dummycount = 0 /\ g.mode = "qspi_rd"
      /\ g.spi_cmd = READ_QUAD /\ g.bitcount = 4
      /\ g.bytecount = 1 + (n \div 2) /\ g.buffer = b /\ g.spi_addr = f.spi_addr
    BY <1>1, <1>6, <1>8 DEF Address, Shifted, LowKeeps
<1>10. /\ (n + 1) % 2 = 1 /\ 4 * ((n + 1) % 2) = 4 /\ (n + 1) \div 2 = n \div 2
       /\ ((n + 1) + 1) \div 2 = (n \div 2) + 1
    OBVIOUS
<1>11. /\ n + 1 >= 2 => n >= 2
       /\ n + 1 >= 4 => n >= 4
       /\ n + 1 >= 6 => n >= 6
    OBVIOUS
<1>12. g.buffer % 16 = Packed(a)[((n + 1) + 1) \div 2] \div 16
    BY <1>4, <1>9, <1>10 DEF byte
<1>13. /\ n + 1 >= 2 => g.spi_addr \div 2^16 = Packed(a)[1]
       /\ n + 1 >= 4 => g.spi_addr \div 2^8 = 2^8 * Packed(a)[1] + Packed(a)[2]
       /\ n + 1 >= 6 => g.spi_addr = a
    BY <1>9, <1>11 DEF Address
<1>14. Address(g, a, n + 1)
    BY <1>8, <1>9, <1>10, <1>12, <1>13 DEF Address
<1> QED
    BY <1>14 DEF Period, g, h

(* the second completes it.                                                *)
ByteOf(a, n) == Packed(a)[(n + 1) \div 2]

(* The same for the address and the mode byte.                             *)
LEMMA AddressWhole ==
    ASSUME NEW n \in {1, 3, 5, 7}, NEW a \in 0 .. FlashSize - 1,
           NEW f, Address(f, a, n), NEW io, io = Nibble(Packed(a), n),
           NEW b, b = ByteOf(a, n), NEW k, k = Whole(f, b)
    PROVE  /\ ClkHigh(f, io) = spi_action(k)
           /\ Quiet(k) /\ Shifted(f, k, b) /\ k.bitcount = 0
           /\ k.bytecount = 1 + ((n + 1) \div 2)
           /\ k.mode = "qspi_rd" /\ k.dummycount = 0
           /\ k.spi_cmd = READ_QUAD /\ k.powered_up
           /\ io \in 0 .. 15
<1>1. /\ Quiet(f) /\ f.mode = "qspi_rd" /\ f.dummycount = 0 /\ f.bitcount = 4
      /\ f.bytecount = 1 + (n \div 2) /\ f.buffer \in 0 .. 255
      /\ f.buffer % 16 = b \div 16
  <2>1. 4 * (n % 2) = 4 /\ n % 2 = 1
      OBVIOUS
  <2> QED
      BY <2>1 DEF Address, Quiet, Typed, ByteOf
<1>2. b \in 0 .. 255
  <2>1. (n + 1) \div 2 \in {1, 2, 3, 4}
      OBVIOUS
  <2> QED
      BY <2>1, PackedBytes, SMTT(60) DEF ByteOf
<1>3. io = b % 16
  <2>1. n % 2 # 0 /\ (n \div 2) + 1 = (n + 1) \div 2
      OBVIOUS
  <2> QED
      BY <2>1 DEF Nibble, ByteOf
<1>4. io \in 0 .. 15 /\ b = WithNibble(f, io)
  <2>1. HalfOf(f, b) /\ RestOf(io, b)
      BY <1>1, <1>3 DEF HalfOf, RestOf
  <2> QED
      BY <1>2, <2>1, SecondNibble
<1>5. /\ ClkHigh(f, io) = spi_action(k)
      /\ Quiet(k) /\ Shifted(f, k, b)
      /\ k.bitcount = 0 /\ k.bytecount = f.bytecount + 1
    BY <1>1, <1>4, NibbleWhole
<1>7. f.bytecount + 1 = 1 + ((n + 1) \div 2)
  <2>1. (n + 1) \div 2 = 1 + (n \div 2) /\ n \div 2 \in Nat
      OBVIOUS
  <2> QED
      BY <1>1, <2>1
<1> QED
    BY <1>1, <1>4, <1>5, <1>7, ZenonT(60) DEF Shifted, Address

(* A clock of the address and the mode byte.                               *)
LEMMA AddressClock ==
    ASSUME NEW n \in 0 .. 7, NEW a \in 0 .. FlashSize - 1, memory(a) \in 0 .. 255,
           NEW f, Address(f, a, n), NEW io, io = Nibble(Packed(a), n)
    PROVE  /\ n < 7 => Address(Period(f, io), a, n + 1)
           /\ n = 7 => Dummy(Period(f, io), a, 0)
<1>1. CASE n \in {0, 2, 4, 6}
    BY <1>1, AddressShift
<1>2. CASE n \in {1, 3, 5, 7}
  <2> DEFINE b == ByteOf(a, n)
             k == Whole(f, b)
             h == ClkHigh(f, io)
             g == ClkLow(h, io)
             s == f.spi_addr
             p == Packed(a)[1]
             q == Packed(a)[2]
             r == Packed(a)[3]
  <2>1. /\ h = spi_action(k)
        /\ Quiet(k) /\ Shifted(f, k, b) /\ k.bitcount = 0
        /\ k.bytecount = 1 + ((n + 1) \div 2)
        /\ k.mode = "qspi_rd" /\ k.dummycount = 0
        /\ k.spi_cmd = READ_QUAD /\ k.powered_up
        /\ io \in 0 .. 15
      BY <1>2, AddressWhole
  <2>2. s \in Nat /\ k.spi_addr = s /\ k.buffer = b
      BY <2>1 DEF Address, Quiet, Typed, Shifted
  <2>3. p \in 0 .. 255 /\ q \in 0 .. 255 /\ r \in 0 .. 255 /\ a = 2^16 * p + 2^8 * q + r
      BY PackedLemma
  <2>4. /\ n >= 2 => s \div 2^16 = p
        /\ n >= 4 => s \div 2^8 = 2^8 * p + q
        /\ n >= 6 => s = a
      BY DEF Address
  <2>5. ASSUME n \in {1, 3, 5}, NEW t \in 0 .. FlashSize - 1,
               \/ k.bytecount = 2 /\ t = 2^16 * k.buffer + (k.spi_addr % 2^16)
               \/ k.bytecount = 3 /\ t = (k.spi_addr - (k.spi_addr % 2^16)) + 2^8 * k.buffer + (k.spi_addr % 2^8)
               \/ k.bytecount = 4 /\ t = (k.spi_addr - (k.spi_addr % 2^8)) + k.buffer,
               t \div 2^16 = p,
               n >= 3 => t \div 2^8 = 2^8 * p + q,
               n >= 5 => t = a
        PROVE  Address(Period(f, io), a, n + 1)
    <3> HIDE DEF k, h, b
    <3>1. /\ Quiet(h) /\ h.spi_addr = t
          /\ h.bytecount = k.bytecount /\ h.bitcount = k.bitcount
          /\ h.powered_up /\ h.spi_cmd = READ_QUAD /\ h.mode = k.mode
          /\ h.dummycount = k.dummycount
        BY <2>1, <2>5, AddressByteLemma
    <3>2. LowKeeps(h, g) /\ Quiet(g) /\ g.oe = {} /\ g.dout = 0
        BY <2>1, <3>1, LowLemma
    <3> HIDE DEF g, s, p, q
    <3>3. /\ g.powered_up /\ g.dummycount = 0 /\ g.mode = "qspi_rd"
          /\ g.spi_cmd = READ_QUAD /\ g.bitcount = 0
          /\ g.bytecount = 1 + ((n + 1) \div 2) /\ g.spi_addr = t
        BY <2>1, <3>1, <3>2 DEF LowKeeps
    <3>4. (n + 1) % 2 = 0 /\ 4 * ((n + 1) % 2) = 0
        BY <2>5
    <3>5. (n + 1 >= 4 => n >= 3) /\ (n + 1 >= 6 => n >= 5)
        BY <2>5
    <3>6. Address(g, a, n + 1)
        BY <2>5, <3>2, <3>3, <3>4, <3>5 DEF Address, p, q
    <3> QED
        BY <3>6 DEF Period, g, h
  <2>6. CASE n = 1
    <3>1. k.bytecount = 2 /\ b = p
        BY <2>1, <2>6 DEF ByteOf
    <3> DEFINE t == 2^16 * p + (s % 2^16)
    <3> HIDE DEF s, p, q, r, b, k
    <3>2. t \in 0 .. FlashSize - 1 /\ t \div 2^16 = p
        BY <2>2, <2>3, HighByte
    <3>3. t = 2^16 * k.buffer + (k.spi_addr % 2^16)
        BY <2>2, <3>1
    <3> HIDE DEF t
    <3> QED
        BY <2>5, <2>6, <3>1, <3>2, <3>3
  <2>7. CASE n = 3
    <3>1. k.bytecount = 3 /\ b = q
        BY <2>1, <2>7 DEF ByteOf
    <3> DEFINE t == SetMiddle(s, q)
    <3>2. HighIs(s, p)
        BY <2>4, <2>7 DEF HighIs
    <3> HIDE DEF s, p, q, r, b, k
    <3>3. t \in 0 .. FlashSize - 1 /\ HighIs(t, p) /\ MiddleIs(t, p, q)
        BY <2>2, <2>3, <3>2, MiddleByte, ZenonT(60)
    <3>4. t = (k.spi_addr - (k.spi_addr % 2^16)) + 2^8 * k.buffer + (k.spi_addr % 2^8)
        BY <2>2, <3>1 DEF SetMiddle
    <3> HIDE DEF t
    <3>5. /\ n \in {1, 3, 5} /\ ~ n >= 5
          /\ k.bytecount = 3 /\ t = (k.spi_addr - (k.spi_addr % 2^16)) + 2^8 * k.buffer + (k.spi_addr % 2^8)
        BY <2>7, <3>1, <3>4
    <3>6. Address(Period(f, io), a, n + 1)
        BY <2>5, <3>3, <3>5, Zenon DEF HighIs, MiddleIs
    <3> QED
        BY <2>7, <3>6
  <2>8. CASE n = 5
    <3>1. k.bytecount = 4 /\ b = r
        BY <2>1, <2>8 DEF ByteOf
    <3> DEFINE t == SetLow(s, r)
    <3>2. MiddleIs(s, p, q)
        BY <2>4, <2>8 DEF MiddleIs
    <3> HIDE DEF s, p, q, r, b, k
    <3>3. /\ t \in 0 .. FlashSize - 1 /\ HighIs(t, p) /\ MiddleIs(t, p, q)
          /\ t = FromBytes(p, q, r)
      <4>1. p \in 0 .. 255 /\ q \in 0 .. 255 /\ r \in 0 .. 255 /\ s \in Nat
          BY <2>2, <2>3
      <4>2. t = SetLow(s, r)
          OBVIOUS
      <4> HIDE DEF t
      <4>3. AddressIs(t, p, q, r)
          BY <3>2, <4>1, <4>2, LowValue, Zenon
      <4>4. t \in 0 .. FlashSize - 1 /\ HighIs(t, p) /\ MiddleIs(t, p, q)
          BY <3>2, <4>1, <4>2, LowByte, ZenonT(60)
      <4> QED
          BY <4>3, <4>4 DEF AddressIs
    <3>4. t = (k.spi_addr - (k.spi_addr % 2^8)) + k.buffer
        BY <2>2, <3>1 DEF SetLow
    <3> HIDE DEF t
    <3>5. t = a
        BY <2>3, <3>3 DEF FromBytes
    <3>6. /\ n \in {1, 3, 5}
          /\ k.bytecount = 4 /\ t = (k.spi_addr - (k.spi_addr % 2^8)) + k.buffer
        BY <2>8, <3>1, <3>4
    <3>7. Address(Period(f, io), a, n + 1)
        BY <2>5, <3>3, <3>5, <3>6, Zenon DEF HighIs, MiddleIs
    <3> QED
        BY <2>8, <3>7
  <2>9. CASE n = 7
    <3>1. k.bytecount = 5 /\ b = 0 /\ s = a
      <4>1. Packed(a)[4] = 0
          BY PackedLemma
      <4> QED
          BY <2>1, <2>4, <2>9, <4>1 DEF ByteOf
    <3>2. k.buffer = 0 /\ k.spi_addr = a
        BY <2>2, <3>1
    <3> HIDE DEF k, h, b, s
    <3>3. /\ Quiet(h) /\ h.buffer = memory(a)
          /\ h.spi_addr = (a + 1) % FlashSize
          /\ h.bytecount = 5 /\ h.bitcount = 0
          /\ h.powered_up /\ h.spi_cmd = READ_QUAD /\ h.mode = "qspi_wr"
          /\ h.dummycount = 8
        BY <2>1, <3>1, <3>2, FetchLemma
    <3>4. LowKeeps(h, g) /\ Quiet(g) /\ g.oe = {} /\ g.dout = 0
        BY <3>3, LowLemma
    <3> HIDE DEF g
    <3>5. Dummy(g, a, 0)
        BY <3>3, <3>4 DEF Dummy, LowKeeps
    <3> QED
        BY <2>9, <3>5 DEF Period, g, h
  <2> QED
      BY <1>2, <2>6, <2>7, <2>8, <2>9
<1> QED
    BY <1>1, <1>2

(* The counter wraps round as one sum would.                               *)
LEMMA WrapNext ==
    \A x \in Nat : ((x % FlashSize) + 1) % FlashSize = (x + 1) % FlashSize
BY SMT DEF FlashSize

(* A clock of the data.                                                    *)
MemoryByte(a, k) == memory((a + k) % FlashSize)

(* The first clock of a byte of data shows its high nibble,                *)
LEMMA DataShift ==
    ASSUME NEW n \in {0, 2, 4, 6}, NEW a \in Nat, MemoryByte(a, n \div 2) \in 0 .. 255,
           NEW f, Data(f, a, n), NEW io, io = f.dout
    PROVE  /\ io = MemoryByte(a, n \div 2) \div 16
           /\ Data(Period(f, io), a, n + 1)
<1> DEFINE h == ClkHigh(f, io)
           g == ClkLow(h, io)
           byte == MemoryByte(a, n \div 2)
           b == WithNibble(f, io)
<1>1. /\ Quiet(f) /\ f.mode = "qspi_wr" /\ f.dummycount = 0 /\ f.bitcount = 0
      /\ f.bytecount = 5 + (n \div 2) /\ f.buffer = byte
      /\ f.dout = f.buffer \div 16
  <2>1. n % 2 = 0 /\ 4 * (n % 2) = 0
      OBVIOUS
  <2> QED
      BY <2>1 DEF Data, MemoryByte
<1>2. byte \in 0 .. 255 /\ io = byte \div 16
    BY <1>1
<1> HIDE DEF byte
<1>3. io \in 0 .. 15 /\ ((16 * byte + io) % 256) \div 16 = byte % 16
    BY <1>2, NibbleLemma
<1>4. h = ShiftTo(f, b, 4) /\ b \in 0 .. 255
    BY <1>1, <1>3, HighNibble DEF WithNibble
<1>5. b \div 16 = byte % 16
    BY <1>1, <1>3 DEF WithNibble
<1> HIDE DEF h, b
<1>6. /\ Quiet(h) /\ Shifted(f, h, b)
      /\ h.bitcount = f.bitcount + 4 /\ h.bytecount = f.bytecount
  <2>1. f.bitcount + 4 < 8
      BY <1>1
  <2> QED
      BY <1>1, <1>4, <2>1, ShiftPart, ZenonT(60)
<1>7. h.mode = "qspi_wr" /\ h.dummycount = 0 /\ h.buffer = b
    BY <1>1, <1>6 DEF Shifted
<1>8. LowKeeps(h, g) /\ Quiet(g) /\ g.oe = IoLine /\ g.dout = h.buffer \div 16
    BY <1>6, <1>7, LowLemma
<1> HIDE DEF g
<1>9. /\ g.powered_up /\ g.dummycount = 0 /\ g.mode = "qspi_wr"
      /\ g.spi_cmd = READ_QUAD /\ g.bitcount = 4
      /\ g.bytecount = 5 + (n \div 2) /\ g.buffer = b /\ g.spi_addr = f.spi_addr
    BY <1>1, <1>6, <1>8 DEF Data, Shifted, LowKeeps
<1>10. (n + 1) % 2 = 1 /\ 4 * ((n + 1) % 2) = 4 /\ (n + 1) \div 2 = n \div 2
    OBVIOUS
<1>11. f.spi_addr = (a + 1 + (n \div 2)) % FlashSize
    BY DEF Data
<1>12. g.dout = MemoryByte(a, n \div 2) % 16
    BY <1>5, <1>7, <1>8 DEF byte
<1>13. Data(g, a, n + 1)
    BY <1>7, <1>8, <1>9, <1>10, <1>11, <1>12 DEF Data, MemoryByte
<1> QED
    BY <1>2, <1>13 DEF Period, g, h, byte

(* the second its low one, and the next byte is fetched.                   *)
LEMMA DataWhole ==
    ASSUME NEW n \in {1, 3, 5, 7}, NEW a \in Nat,
           MemoryByte(a, n \div 2) \in 0 .. 255,
           MemoryByte(a, (n + 1) \div 2) \in 0 .. 255,
           NEW f, Data(f, a, n), NEW io, io = f.dout
    PROVE  /\ io = MemoryByte(a, n \div 2) % 16
           /\ Data(Period(f, io), a, n + 1)
<1> DEFINE h == ClkHigh(f, io)
           g == ClkLow(h, io)
           b == WithNibble(f, io)
           k == Whole(f, b)
           m == (n + 1) \div 2
<1>1. /\ Quiet(f) /\ f.mode = "qspi_wr" /\ f.dummycount = 0 /\ f.bitcount = 4
      /\ f.bytecount = 5 + (n \div 2) /\ f.powered_up /\ f.spi_cmd = READ_QUAD
      /\ io = MemoryByte(a, n \div 2) % 16
  <2>1. n % 2 = 1 /\ 4 * (n % 2) = 4
      OBVIOUS
  <2> QED
      BY <2>1 DEF Data, MemoryByte
<1>2. m = 1 + (n \div 2) /\ m \in 1 .. 4
    OBVIOUS
<1>3. f.spi_addr = (a + m) % FlashSize
  <2>1. a + 1 + (n \div 2) = a + m
      BY <1>2
  <2> QED
      BY <2>1 DEF Data
<1> HIDE DEF m
<1>4. io \in 0 .. 15
    BY DEF Data, Quiet, Typed
<1>5. /\ h = spi_action(k) /\ Quiet(k) /\ Shifted(f, k, b)
      /\ k.bitcount = 0 /\ k.bytecount = f.bytecount + 1
    BY <1>1, <1>4, NibbleWhole
<1>6. k.bytecount = 5 + m
    BY <1>1, <1>2, <1>5
<1>7. /\ k.spi_addr = (a + m) % FlashSize /\ k.mode = "qspi_wr" /\ k.dummycount = 0
      /\ k.powered_up /\ k.spi_cmd = READ_QUAD
    BY <1>1, <1>3, <1>5 DEF Shifted
<1>8. memory(k.spi_addr) \in 0 .. 255
    BY <1>7 DEF MemoryByte, m
<1>9. k.bytecount > 5
    BY <1>2, <1>6
<1> HIDE DEF k, h, b
<1>10. /\ Quiet(h) /\ h.buffer = memory(k.spi_addr)
       /\ h.spi_addr = (k.spi_addr + 1) % FlashSize
       /\ h.bytecount = k.bytecount /\ h.bitcount = k.bitcount
       /\ h.powered_up /\ h.spi_cmd = READ_QUAD /\ h.mode = "qspi_wr"
       /\ h.dummycount = 0
  <2>1. k.bytecount >= 5 /\ k.bytecount # 5
      BY <1>2, <1>6
  <2> QED
      BY <1>5, <1>7, <1>8, <2>1, FetchLemma
<1>11. LowKeeps(h, g) /\ Quiet(g) /\ g.oe = IoLine /\ g.dout = h.buffer \div 16
    BY <1>10, LowLemma
<1> HIDE DEF g
<1>12. /\ g.powered_up /\ g.dummycount = 0 /\ g.mode = "qspi_wr"
       /\ g.spi_cmd = READ_QUAD /\ g.bitcount = 0 /\ g.bytecount = 5 + m
       /\ g.buffer = memory((a + m) % FlashSize)
       /\ g.spi_addr = (((a + m) % FlashSize) + 1) % FlashSize
       /\ g.dout = g.buffer \div 16
    BY <1>5, <1>6, <1>7, <1>10, <1>11 DEF LowKeeps
<1>13. g.spi_addr = (a + 1 + m) % FlashSize
  <2>1. a + m \in Nat /\ (a + m) + 1 = a + 1 + m
      BY <1>2
  <2> QED
      BY <1>12, <2>1, WrapNext
<1>14. (n + 1) % 2 = 0 /\ 4 * ((n + 1) % 2) = 0
    OBVIOUS
<1>15. Data(g, a, n + 1)
    BY <1>11, <1>12, <1>13, <1>14 DEF Data, m
<1> QED
    BY <1>1, <1>15 DEF Period, g, h
-----------------------------------------------------------------------------
(* The five commands of a power-up and a read, each of eight clocks; their *)
(* words; and the register accesses that send them.  After p accesses the  *)
(* driver has issued issued(p) commands and pushed pushed(p) words.        *)
Commands ==
    <<Command("tx", "std", FALSE, 1), Command("tx", "std", TRUE, 1),
      Command("tx", "quad", TRUE, 4), Command("dummy", "quad", TRUE, 8),
      Command("rx", "quad", FALSE, 4)>>

Words(a) == <<<<171, 0, 0, 0>>, <<235, 0, 0, 0>>, Packed(a)>>

Script(a) == <<Tx(Words(a)[1]), Commands[1], Tx(Words(a)[2]), Commands[2],
               Tx(Words(a)[3]), Commands[3], Commands[4], Commands[5]>>

issued(p) == <<0, 0, 1, 1, 2, 2, 3, 4, 5>>[p + 1]

pushed(p) == <<0, 1, 1, 2, 2, 3, 3, 3, 3>>[p + 1]

(* What is in a queue: the elements of S after the first s, up to the t-th.*)
Window(S, s, t) == [k \in 1 .. (t - s) |-> S[s + k]]

(* The first k bytes from a on.                                            *)
Bytes(a, k) == [i \in 1 .. k |-> MemoryByte(a, i - 1)]

(* The segment of command c after n clocks; what is left of it between     *)
(* segments.                                                               *)
SegAt(a, c, n) ==
    [dir |-> Commands[c].dir, speed |-> Commands[c].speed,
     csaat |-> Commands[c].csaat, len |-> Commands[c].len,
     byte |-> CASE c \in {1, 2} -> n \div 8 [] c \in {3, 5} -> n \div 2 [] c = 4 -> n,
     bit |-> CASE c \in {1, 2} -> n % 8 [] c \in {3, 5} -> 4 * (n % 2) [] c = 4 -> 0,
     shift |-> IF c = 5 /\ n % 2 = 1 THEN MemoryByte(a, n \div 2) \div 16 ELSE 0]

HeldSeg(c) == [NoSegment EXCEPT !.dir = Commands[c].dir, !.speed = Commands[c].speed]

FlashAt(f, a, c, n) ==
    /\ c = 1 => WakeUp(f, n)
    /\ c = 2 => IF n < 8 THEN Opcode(f, n) ELSE Address(f, a, 0)
    /\ c = 3 => IF n < 8 THEN Address(f, a, n) ELSE Dummy(f, a, 0)
    /\ c = 4 => Dummy(f, a, n)
    /\ c = 5 => Data(f, a, n)

Over(f) == Quiet(f) /\ f.powered_up /\ f.dummycount = 0

(* The host has begun j commands, and is n clocks into the last of them:   *)
(* at rest, clocking it, between two segments of a transaction, or, after  *)
(* the next call, still to end the last read.                              *)
HostAt(kind, a, j, n) ==
    \/ /\ kind = "rest" /\ n = 8 /\ j \in {0, 1, 5}
       /\ seg = NoSegment /\ csb
       /\ IF j = 0 THEN Resting(flash) ELSE Up(flash)
    \/ /\ kind = "clock" /\ j \in 1 .. 5
       /\ seg = SegAt(a, j, n) /\ ~ csb /\ FlashAt(flash, a, j, n)
    \/ /\ kind = "held" /\ n = 8 /\ j \in 2 .. 4
       /\ seg = HeldSeg(j) /\ ~ csb /\ FlashAt(flash, a, j, 8)
    \/ /\ kind = "over" /\ n = 8 /\ j = 1
       /\ seg = SegAt(a, 5, 8) /\ ~ csb /\ Over(flash)

(* A word leaves the TX queue with the last clock of its command.          *)
Taken(j, n) == IF j > 3 THEN 3 ELSE IF n < 8 THEN j - 1 ELSE j

(* Where the bytes of the read are.                                        *)
RxAt(a, j, n) ==
    \/ j < 5 /\ rxpipe = <<>> /\ rxq = <<>> /\ ret = NoWord
    \/ j = 5 /\ n < 8 /\ rxpipe = Bytes(a, n \div 2) /\ rxq = <<>> /\ ret = NoWord
    \/ j = 5 /\ n = 8 /\ rxpipe = Bytes(a, 4) /\ rxq = <<>> /\ ret = NoWord
    \/ j = 5 /\ n = 8 /\ rxpipe = <<>> /\ rxq = <<Bytes(a, 4)>> /\ ret = NoWord
    \/ /\ j = 5 /\ n = 8 /\ rxpipe = <<>> /\ rxq = <<>>
       /\ ret = Bytes(a, 4) \/ (pc = "reset" /\ ret = NoWord)

(* The driver has made p accesses of the script.                           *)
CpuAt(a, p) ==
    \/ pc = "reset" /\ addr = NoAddr /\ ret = NoWord
    \/ pc = "enable" /\ addr = NoAddr /\ ret = NoWord /\ ~ spien /\ p = 0
    \/ /\ pc \in {"run", "wait"} /\ spien
       /\ \/ addr = NoAddr /\ p \in 0 .. 2 /\ todo = Window(Script(a), p, 2)
          \/ addr = a /\ p \in 2 .. 8 /\ todo = Window(Script(a), p, 8)

At(a, p, j, n, kind) ==
    /\ HostAt(kind, a, j, n)
    /\ j <= issued(p)
    /\ cmdq = Window(Commands, j, issued(p))
    /\ txq = Window(Words(a), Taken(j, n), pushed(p))
    /\ RxAt(a, j, n)
    /\ CpuAt(a, p)

(* What the wait for READY and ACTIVE gives the next command.              *)
Waited ==
    pc = "run" => /\ Len(cmdq) < CmdDepth
                  /\ driver = "simulate_flash" => cmdq = <<>> /\ ~ Active

Basic ==
    /\ csb \in BOOLEAN /\ spien \in BOOLEAN /\ error = FALSE
    /\ Len(cmdq) <= CmdDepth
    /\ restarts \in 0 .. MaxRestarts
    /\ driver \in {"bootloader", "simulate_flash"}
    /\ Waited

Kinds == {"rest", "clock", "held", "over"}

IInv ==
    /\ Basic
    /\ \E a \in Addr, p \in 0 .. 8, j \in 0 .. 5, n \in 0 .. 8, kind \in Kinds :
          At(a, p, j, n, kind)
-----------------------------------------------------------------------------
(* Taking from and adding to a queue.                                      *)
LEMMA WindowEmpty ==
    \A S, s : s \in Nat => Window(S, s, s) = <<>>
<1> SUFFICES ASSUME NEW S, NEW s \in Nat PROVE Window(S, s, s) = <<>>
    OBVIOUS
<1>1. 1 .. (s - s) = {}
    OBVIOUS
<1> QED
    BY <1>1 DEF Window

(* A queue is a sequence.                                                  *)
LEMMA WindowSeq ==
    \A S : \A s, t \in Nat : s <= t =>
       /\ Window(S, s, t) \in Seq({S[k] : k \in Nat})
       /\ Len(Window(S, s, t)) = t - s
<1> SUFFICES ASSUME NEW S, NEW s \in Nat, NEW t \in Nat, s <= t
             PROVE  /\ Window(S, s, t) \in Seq({S[k] : k \in Nat})
                    /\ Len(Window(S, s, t)) = t - s
    OBVIOUS
<1> DEFINE X == {S[k] : k \in Nat}
<1>1. t - s \in Nat
    OBVIOUS
<1>2. Window(S, s, t) \in [1 .. (t - s) -> X]
    BY DEF Window
<1> QED
    BY <1>1, <1>2

(* Head, tail and append move the ends of the window.                      *)
LEMMA WindowLemma ==
    ASSUME NEW S, NEW s \in Nat, NEW t \in Nat, s <= t
    PROVE  /\ s < t => /\ Window(S, s, t) # <<>>
                       /\ Head(Window(S, s, t)) = S[s + 1]
                       /\ Tail(Window(S, s, t)) = Window(S, s + 1, t)
           /\ Append(Window(S, s, t), S[t + 1]) = Window(S, s, t + 1)
<1> DEFINE X == {S[k] : k \in Nat}
           w == Window(S, s, t)
<1>1. t - s \in Nat
    OBVIOUS
<1>2. w \in Seq(X) /\ Len(w) = t - s
    BY WindowSeq
<1>3. \A k \in 1 .. (t - s) : w[k] = S[s + k]
    BY DEF Window
<1>4. ASSUME s < t
      PROVE  /\ w # <<>> /\ Head(w) = S[s + 1]
             /\ Tail(w) = Window(S, s + 1, t)
  <2> DEFINE v == Window(S, s + 1, t)
  <2>1. v \in Seq(X) /\ Len(v) = t - (s + 1)
    <3>1. s + 1 \in Nat /\ s + 1 <= t
        BY <1>4
    <3> QED
        BY <3>1, WindowSeq
  <2>2. \A k \in 1 .. (t - (s + 1)) : v[k] = S[(s + 1) + k]
      BY DEF Window
  <2> HIDE DEF w, v, X
  <2>3. w # <<>>
      BY <1>1, <1>2, <1>4
  <2>4. Head(w) = w[1] /\ w[1] = S[s + 1]
    <3>1. 1 \in 1 .. (t - s)
        BY <1>4
    <3> QED
        BY <1>2, <1>3, <2>3, <3>1
  <2>5. Tail(w) \in Seq(X) /\ Len(Tail(w)) = (t - s) - 1
      BY <1>2, <2>3
  <2>6. \A k \in 1 .. ((t - s) - 1) : Tail(w)[k] = w[k + 1]
      BY <1>2, <2>3
  <2>7. \A k \in 1 .. Len(Tail(w)) : Tail(w)[k] = v[k]
    <3> TAKE k \in 1 .. Len(Tail(w))
    <3>1. k \in 1 .. ((t - s) - 1) /\ k \in 1 .. (t - (s + 1)) /\ k + 1 \in 1 .. (t - s)
        BY <1>1, <2>5
    <3>2. w[k + 1] = S[s + (k + 1)] /\ s + (k + 1) = (s + 1) + k
        BY <1>3, <3>1
    <3> QED
        BY <2>2, <2>6, <3>1, <3>2
  <2>8. Len(Tail(w)) = Len(v)
      BY <1>1, <2>1, <2>5
  <2>9. Tail(w) = v
      BY <2>1, <2>5, <2>7, <2>8, SeqEqual
  <2> QED
      BY <2>3, <2>4, <2>9 DEF v
<1>5. Append(w, S[t + 1]) = Window(S, s, t + 1)
  <2> DEFINE v == Window(S, s, t + 1)
             u == Append(w, S[t + 1])
  <2>1. v \in Seq(X) /\ Len(v) = (t + 1) - s
    <3>1. t + 1 \in Nat /\ s <= t + 1
        OBVIOUS
    <3> QED
        BY <3>1, WindowSeq
  <2>2. \A k \in 1 .. ((t + 1) - s) : v[k] = S[s + k]
      BY DEF Window
  <2>3. S[t + 1] \in X
      OBVIOUS
  <2> HIDE DEF w, v, X
  <2>4. u \in Seq(X) /\ Len(u) = (t - s) + 1
      BY <1>2, <2>3
  <2>5. u[(t - s) + 1] = S[t + 1] /\ \A k \in 1 .. (t - s) : u[k] = w[k]
      BY <1>2, <2>3
  <2>6. \A k \in 1 .. Len(u) : u[k] = v[k]
    <3> TAKE k \in 1 .. Len(u)
    <3> HIDE DEF u
    <3>1. k \in 1 .. ((t + 1) - s)
        BY <1>1, <2>4
    <3>2. CASE k = (t - s) + 1
      <4>1. s + k = t + 1
          BY <3>2
      <4> QED
          BY <2>2, <2>5, <3>1, <3>2, <4>1
    <3>3. CASE k # (t - s) + 1
      <4>1. k \in 1 .. (t - s)
          BY <1>1, <3>1, <3>3
      <4> QED
          BY <1>3, <2>2, <2>5, <3>1, <4>1
    <3> QED
        BY <3>2, <3>3
  <2>7. Len(u) = Len(v)
      BY <1>1, <2>1, <2>4
  <2>8. u = v
      BY <2>1, <2>4, <2>6, <2>7, SeqEqual
  <2> QED
      BY <2>8 DEF v
<1> QED
    BY <1>4, <1>5

(* The tables.                                                             *)
LEMMA TableLemma ==
    ASSUME NEW p \in 0 .. 8
    PROVE  /\ issued(p) \in 0 .. 5 /\ pushed(p) \in 0 .. 3
           /\ pushed(p) >= issued(p) \/ issued(p) > 3
           /\ issued(p) >= 3 => pushed(p) = 3
           /\ p \in {0, 2, 4} => pushed(p + 1) = pushed(p) + 1 /\ issued(p + 1) = issued(p)
           /\ p \in {1, 3, 5, 6, 7} => pushed(p + 1) = pushed(p) /\ issued(p + 1) = issued(p) + 1
           /\ p = 0 => issued(p) = 0 /\ pushed(p) = 0
           /\ p <= 2 => issued(p) <= 1 /\ pushed(p) <= 1
           /\ p = 2 => issued(p) = 1 /\ pushed(p) = 1
           /\ issued(p) = 5 <=> p = 8
<1> p = 0 \/ p = 1 \/ p = 2 \/ p = 3 \/ p = 4 \/ p = 5 \/ p = 6 \/ p = 7 \/ p = 8
    OBVIOUS
<1>0. CASE p = 0 BY <1>0 DEF issued, pushed
<1>1. CASE p = 1 BY <1>1 DEF issued, pushed
<1>2. CASE p = 2 BY <1>2 DEF issued, pushed
<1>3. CASE p = 3 BY <1>3 DEF issued, pushed
<1>4. CASE p = 4 BY <1>4 DEF issued, pushed
<1>5. CASE p = 5 BY <1>5 DEF issued, pushed
<1>6. CASE p = 6 BY <1>6 DEF issued, pushed
<1>7. CASE p = 7 BY <1>7 DEF issued, pushed
<1>8. CASE p = 8 BY <1>8 DEF issued, pushed
<1> QED
    BY <1>0, <1>1, <1>2, <1>3, <1>4, <1>5, <1>6, <1>7, <1>8

(* The five commands.                                                      *)
LEMMA CommandLemma ==
    /\ Commands[1] = Command("tx", "std", FALSE, 1)
    /\ Commands[2] = Command("tx", "std", TRUE, 1)
    /\ Commands[3] = Command("tx", "quad", TRUE, 4)
    /\ Commands[4] = Command("dummy", "quad", TRUE, 8)
    /\ Commands[5] = Command("rx", "quad", FALSE, 4)
BY DEF Commands

(* The script is what the driver's two calls do.                           *)
LEMMA ScriptLemma ==
    ASSUME NEW a
    PROVE  /\ flash_power_up = Window(Script(a), 0, 2)
           /\ flash_read_word(a) = Window(Script(a), 2, 8)
<1>1. /\ Script(a)[1] = Tx(<<171, 0, 0, 0>>) /\ Script(a)[2] = Command("tx", "std", FALSE, 1)
      /\ Script(a)[3] = Tx(<<235, 0, 0, 0>>) /\ Script(a)[4] = Command("tx", "std", TRUE, 1)
      /\ Script(a)[5] = Tx(Packed(a)) /\ Script(a)[6] = Command("tx", "quad", TRUE, 4)
      /\ Script(a)[7] = Command("dummy", "quad", TRUE, 8)
      /\ Script(a)[8] = Command("rx", "quad", FALSE, 4)
    BY CommandLemma DEF Script, Words
<1> DEFINE X == {Script(a)[k] : k \in Nat}
<1>2. flash_power_up = Window(Script(a), 0, 2)
  <2> DEFINE w == Window(Script(a), 0, 2)
             v == flash_power_up
  <2>1. w \in Seq(X) /\ Len(w) = 2
    <3>1. 0 \in Nat /\ 2 \in Nat /\ 0 <= 2 /\ 2 - 0 = 2
        OBVIOUS
    <3> QED
        BY <3>1, WindowSeq
  <2>2. v = <<Script(a)[1], Script(a)[2]>>
      BY <1>1 DEF flash_power_up, POWER_UP
  <2>3. v \in Seq(X) /\ Len(v) = 2
      BY <2>2
  <2>4. w[1] = Script(a)[1] /\ w[2] = Script(a)[2]
      BY DEF Window
  <2>5. \A k \in 1 .. 2 : w[k] = v[k]
      BY <2>2, <2>4
  <2> HIDE DEF w, v, X
  <2> QED
      BY <2>1, <2>3, <2>5, SeqEqual DEF w, v
<1>3. flash_read_word(a) = Window(Script(a), 2, 8)
  <2> DEFINE w == Window(Script(a), 2, 8)
             v == flash_read_word(a)
  <2>1. w \in Seq(X) /\ Len(w) = 6
    <3>1. 2 \in Nat /\ 8 \in Nat /\ 2 <= 8 /\ 8 - 2 = 6
        OBVIOUS
    <3> QED
        BY <3>1, WindowSeq
  <2>2. v = <<Script(a)[3], Script(a)[4], Script(a)[5], Script(a)[6], Script(a)[7], Script(a)[8]>>
      BY <1>1 DEF flash_read_word, READ_QUAD, FLASH_DUMMY_CYCLES
  <2>3. v \in Seq(X) /\ Len(v) = 6
      BY <2>2
  <2>4. /\ w[1] = Script(a)[3] /\ w[2] = Script(a)[4] /\ w[3] = Script(a)[5]
        /\ w[4] = Script(a)[6] /\ w[5] = Script(a)[7] /\ w[6] = Script(a)[8]
      BY DEF Window
  <2>5. \A k \in 1 .. 6 : w[k] = v[k]
      BY <2>2, <2>4
  <2> HIDE DEF w, v, X
  <2> QED
      BY <2>1, <2>3, <2>5, SeqEqual DEF w, v
<1> QED
    BY <1>2, <1>3
-----------------------------------------------------------------------------
(* The fields of a segment.                                                *)
SegFields(s) ==
    s = [i \in {"dir", "speed", "csaat", "len", "byte", "bit", "shift"} |-> s[i]]

(* Two segments are the same if their fields are.                          *)
LEMMA SegEqual ==
    ASSUME NEW s, NEW t, SegFields(s), SegFields(t),
           s.dir = t.dir, s.speed = t.speed, s.csaat = t.csaat, s.len = t.len,
           s.byte = t.byte, s.bit = t.bit, s.shift = t.shift
    PROVE  s = t
BY DEF SegFields

(* The fields of the segment of a command.                                 *)
LEMMA SegLemma ==
    \A a : \A n \in 0 .. 8, c \in 1 .. 5 :
       /\ SegFields(SegAt(a, c, n))
       /\ SegAt(a, c, n).dir = Commands[c].dir
       /\ SegAt(a, c, n).speed = Commands[c].speed
       /\ SegAt(a, c, n).csaat = Commands[c].csaat
       /\ SegAt(a, c, n).len = Commands[c].len
<1> SUFFICES ASSUME NEW a, NEW n \in 0 .. 8, NEW c \in 1 .. 5
             PROVE  /\ SegFields(SegAt(a, c, n))
                    /\ SegAt(a, c, n).dir = Commands[c].dir
                    /\ SegAt(a, c, n).speed = Commands[c].speed
                    /\ SegAt(a, c, n).csaat = Commands[c].csaat
                    /\ SegAt(a, c, n).len = Commands[c].len
    OBVIOUS
<1> QED
    BY DEF SegAt, SegFields

(* Its counters.                                                           *)
LEMMA SegCounts ==
    ASSUME NEW a, NEW n \in 0 .. 8, NEW c \in 1 .. 5
    PROVE  LET s == SegAt(a, c, n)
           IN  /\ c \in {1, 2} => s.byte = n \div 8 /\ s.bit = n % 8
               /\ c \in {3, 5} => s.byte = n \div 2 /\ s.bit = 4 * (n % 2)
               /\ c = 4 => s.byte = n /\ s.bit = 0
               /\ c # 5 \/ n % 2 = 0 => s.shift = 0
               /\ c = 5 /\ n % 2 = 1 => s.shift = MemoryByte(a, n \div 2) \div 16
BY DEF SegAt

(* The five commands, field by field.                                      *)
LEMMA CommandFields ==
    /\ Commands[1].dir = "tx" /\ Commands[1].speed = "std" /\ Commands[1].csaat = FALSE /\ Commands[1].len = 1
    /\ Commands[2].dir = "tx" /\ Commands[2].speed = "std" /\ Commands[2].csaat = TRUE /\ Commands[2].len = 1
    /\ Commands[3].dir = "tx" /\ Commands[3].speed = "quad" /\ Commands[3].csaat = TRUE /\ Commands[3].len = 4
    /\ Commands[4].dir = "dummy" /\ Commands[4].speed = "quad" /\ Commands[4].csaat = TRUE /\ Commands[4].len = 8
    /\ Commands[5].dir = "rx" /\ Commands[5].speed = "quad" /\ Commands[5].csaat = FALSE /\ Commands[5].len = 4
BY CommandLemma DEF Command

(* No segment.                                                             *)
LEMMA NoSegLemma ==
    /\ SegFields(NoSegment) /\ NoSegment.dir = "none" /\ NoSegment.speed = "std"
    /\ NoSegment.csaat = FALSE /\ NoSegment.len = 0 /\ NoSegment.byte = 0
    /\ NoSegment.bit = 0 /\ NoSegment.shift = 0
BY DEF NoSegment, SegFields

(* Between segments the lines stay as they were and there is no length.    *)
LEMMA HeldLemma ==
    ASSUME NEW c \in 1 .. 5
    PROVE  LET s == HeldSeg(c)
           IN  /\ SegFields(s) /\ s.len = 0 /\ s.csaat = FALSE
               /\ s.dir = Commands[c].dir /\ s.speed = Commands[c].speed
               /\ s.byte = 0 /\ s.bit = 0 /\ s.shift = 0
BY DEF HeldSeg, NoSegment, SegFields

(* What the host is doing decides ACTIVE and csb.                          *)
LEMMA KindLemma ==
    ASSUME NEW a, NEW j \in 0 .. 5, NEW n \in 0 .. 8, NEW kind, HostAt(kind, a, j, n)
    PROVE  /\ kind \in Kinds
           /\ kind \in {"rest", "held"} => seg.len = 0 /\ ~ Active
           /\ kind \in {"clock", "over"} => Active
           /\ kind = "rest" => csb
           /\ kind # "rest" => ~ csb
<1>1. CASE kind = "rest"
    BY <1>1, NoSegLemma DEF HostAt, Active, Kinds
<1>2. CASE kind = "clock"
  <2>1. j \in 1 .. 5 /\ seg = SegAt(a, j, n) /\ ~ csb
      BY <1>2 DEF HostAt
  <2>2. seg.len = Commands[j].len
      BY <2>1, SegLemma
  <2>3. Commands[j].len \in {1, 4, 8}
    <3>1. j = 1 \/ j = 2 \/ j = 3 \/ j = 4 \/ j = 5
        BY <2>1
    <3> QED
        BY <3>1, CommandFields
  <2> QED
      BY <1>2, <2>1, <2>2, <2>3 DEF Active, Kinds
<1>3. CASE kind = "held"
  <2>1. j \in 1 .. 5 /\ seg = HeldSeg(j) /\ ~ csb
      BY <1>3 DEF HostAt
  <2>2. seg.len = 0
      BY <2>1, HeldLemma
  <2> QED
      BY <1>3, <2>1, <2>2 DEF Active, Kinds
<1>4. CASE kind = "over"
  <2>1. seg = SegAt(a, 5, 8) /\ ~ csb
      BY <1>4 DEF HostAt
  <2>2. seg.len = 4
    <3>1. 8 \in 0 .. 8 /\ 5 \in 1 .. 5
        OBVIOUS
    <3> QED
        BY <2>1, <3>1, SegLemma, CommandFields
  <2> QED
      BY <1>4, <2>1, <2>2 DEF Active, Kinds
<1>5. kind = "rest" \/ kind = "clock" \/ kind = "held" \/ kind = "over"
    BY DEF HostAt
<1> QED
    BY <1>1, <1>2, <1>3, <1>4, <1>5
-----------------------------------------------------------------------------
(* At power-on the flash is not selected and has no dummy clocks to count. *)
LEMMA PowerOnLemma == Resting(FlashPowerOn)
<1> DEFINE f == FlashPowerOn
<1>1. /\ Registers(f) /\ f.buffer = 0 /\ f.bitcount = 0 /\ f.bytecount = 0
      /\ f.dummycount = 0 /\ f.spi_cmd = 0 /\ f.xip_cmd = 0 /\ f.spi_addr = 0
      /\ f.powered_up = FALSE /\ f.mode = "spi" /\ f.next_mode = "none"
      /\ f.oe = {} /\ f.dout = 0
    BY DEF FlashPowerOn, Registers
<1>2. 0 \in 0 .. FlashSize - 1
    BY SMT DEF FlashSize
<1> HIDE DEF f
<1>3. Typed(f)
  <2>1. f.oe \in SUBSET IoLine /\ f.mode \in Mode /\ f.next_mode \in {"none", "qspi_ddr_rd"}
      BY <1>1 DEF Mode
  <2>2. f.spi_addr \in 0 .. FlashSize - 1 /\ f.powered_up \in BOOLEAN
      BY <1>1, <1>2
  <2>3. /\ f.buffer \in 0 .. 255 /\ f.bitcount \in 0 .. 7 /\ f.bytecount \in Nat
        /\ f.dummycount \in 0 .. latency
        /\ f.spi_cmd \in 0 .. 255 /\ f.xip_cmd \in 0 .. 255 /\ f.dout \in 0 .. 15
      BY <1>1 DEF latency
  <2> QED
      BY <1>1, <2>1, <2>2, <2>3 DEF Typed
<1> QED
    BY <1>1, <1>3 DEF Resting, Quiet, f

(* Nothing is issued or pushed before the first access.                    *)
LEMMA StartQueues ==
    ASSUME NEW a
    PROVE  /\ Window(Commands, 0, issued(0)) = <<>>
           /\ Window(Words(a), Taken(0, 8), pushed(0)) = <<>>
<1>1. 0 \in 0 .. 8
    OBVIOUS
<1>2. issued(0) = 0 /\ pushed(0) = 0 /\ Taken(0, 8) = 0
    BY <1>1, TableLemma DEF Taken
<1> QED
    BY <1>2, WindowEmpty

(* The first state.                                                        *)
LEMMA InitStep ==
    ASSUME Init PROVE IInv
<1>1. PICK a \in Addr : TRUE
    BY ReadAssumption
<1>2. HostAt("rest", a, 0, 8)
    BY PowerOnLemma DEF HostAt, Init
<1>3. RxAt(a, 0, 8) /\ CpuAt(a, 0)
    BY DEF RxAt, CpuAt, Init
<1>4. 0 <= issued(0)
  <2>1. 0 \in 0 .. 8
      OBVIOUS
  <2> QED
      BY <2>1, TableLemma
<1>5. At(a, 0, 0, 8, "rest")
    BY <1>2, <1>3, <1>4, StartQueues DEF At, Init
<1>6. Basic
  <2>1. /\ CmdDepth \in Nat /\ MaxRestarts \in Nat
        /\ Drivers \subseteq {"bootloader", "simulate_flash"}
      BY ReadAssumption
  <2>2. Len(cmdq) = 0
      BY DEF Init
  <2>3. Waited
      BY DEF Init, Waited
  <2>4. restarts \in 0 .. MaxRestarts /\ driver \in {"bootloader", "simulate_flash"}
      BY <2>1 DEF Init
  <2>5. Len(cmdq) <= CmdDepth
      BY <2>1, <2>2
  <2>6. csb \in BOOLEAN /\ spien \in BOOLEAN /\ error = FALSE
      BY DEF Init
  <2> QED
      BY <2>3, <2>4, <2>5, <2>6 DEF Basic
<1>7. 0 \in 0 .. 8 /\ 0 \in 0 .. 5 /\ 8 \in 0 .. 8 /\ "rest" \in Kinds
    BY DEF Kinds
<1> QED
    BY <1>1, <1>5, <1>6, <1>7 DEF IInv

(* What every step starts from.                                            *)
Before(a, p, j, n, kind) ==
    /\ a \in Addr /\ p \in 0 .. 8 /\ j \in 0 .. 5 /\ n \in 0 .. 8 /\ kind \in Kinds
    /\ Basic /\ At(a, p, j, n, kind)

(* It is enough to say where a step leads.                                 *)
LEMMA After ==
    ASSUME NEW a, NEW p, NEW j, NEW n, NEW kind, Before(a, p, j, n, kind)'
    PROVE  IInv'
<1>1. a \in Addr /\ p \in 0 .. 8 /\ j \in 0 .. 5 /\ n \in 0 .. 8 /\ kind \in Kinds
    BY DEF Before
<1>2. Basic' /\ At(a, p, j, n, kind)'
    BY DEF Before
<1> QED
    BY <1>1, <1>2 DEF IInv

(* The debugger restarts the program: the host and the flash go on.        *)
LEMMA RestartStep ==
    ASSUME NEW a, NEW p, NEW j, NEW n, NEW kind, Before(a, p, j, n, kind), Restart
    PROVE  IInv'
<1> USE ReadAssumption
<1>1. At(a, p, j, n, kind) /\ Basic
    BY DEF Before
<1>2. UNCHANGED <<flash, csb, spien, error, cmdq, txq, rxq, seg, rxpipe, driver>>
    BY DEF Restart, hostvars
<1>3. HostAt(kind, a, j, n)'
    BY <1>1, <1>2 DEF At, HostAt
<1>4. RxAt(a, j, n)'
    BY <1>1, <1>2 DEF At, RxAt, Restart
<1>5. CpuAt(a, p)'
    BY DEF CpuAt, Restart
<1>6. At(a, p, j, n, kind)'
    BY <1>1, <1>2, <1>3, <1>4, <1>5 DEF At
<1>7. Basic'
    BY <1>1, <1>2 DEF Basic, Waited, Restart
<1> QED
    BY <1>6, <1>7, After DEF Before

(* A whole word goes to the RX queue.                                      *)
LEMMA DeliverStep ==
    ASSUME NEW a, NEW p, NEW j, NEW n, NEW kind, Before(a, p, j, n, kind), DeliverRx
    PROVE  IInv'
<1>1. At(a, p, j, n, kind) /\ Basic /\ j \in 0 .. 5 /\ n \in 0 .. 8
    BY DEF Before
<1>2. UNCHANGED <<flash, csb, spien, error, cmdq, txq, seg, pc, todo, addr, ret, restarts, driver>>
    BY DEF DeliverRx, cpuvars
<1>3. HostAt(kind, a, j, n)'
    BY <1>1, <1>2 DEF At, HostAt
<1>4. \A k \in Nat : Len(Bytes(a, k)) = k
    BY DEF Bytes
<1>5. Len(rxpipe) = 4
    BY DEF DeliverRx
<1>6. j = 5 /\ n = 8 /\ rxpipe = Bytes(a, 4) /\ rxq = <<>> /\ ret = NoWord
  <2>1. n < 8 => n \div 2 \in Nat /\ n \div 2 # 4
      BY <1>1
  <2>2. n < 8 => rxpipe # Bytes(a, n \div 2)
      BY <1>4, <1>5, <2>1
  <2>3. rxpipe # <<>>
      BY <1>5
  <2> QED
      BY <1>1, <2>2, <2>3 DEF At, RxAt
<1>7. RxAt(a, j, n)'
  <2>1. rxpipe' = <<>> /\ rxq' = <<Bytes(a, 4)>>
      BY <1>6 DEF DeliverRx
  <2> QED
      BY <1>2, <1>6, <2>1 DEF RxAt
<1>8. CpuAt(a, p)'
    BY <1>1, <1>2 DEF At, CpuAt
<1>9. At(a, p, j, n, kind)'
    BY <1>1, <1>2, <1>3, <1>7, <1>8 DEF At
<1>10. Basic'
    BY <1>1, <1>2 DEF Basic, Waited, Active
<1> QED
    BY <1>9, <1>10, After DEF Before

(* Wherever the flash is in a transaction, it can be deselected: it is     *)
(* awake or has no dummy clocks left.                                      *)
LEMMA FlashAtQuiet ==
    ASSUME NEW f, NEW a, NEW c \in 1 .. 5, NEW n \in 0 .. 8, FlashAt(f, a, c, n)
    PROVE  /\ Quiet(f) /\ (f.powered_up \/ f.dummycount = 0)
           /\ n = 8 /\ c \in {1, 5} => Over(f)
<1>1. c = 1 \/ c = 2 \/ c = 3 \/ c = 4 \/ c = 5
    OBVIOUS
<1>2. CASE c = 1
  <2>1. WakeUp(f, n)
      BY <1>2 DEF FlashAt
  <2>2. Quiet(f) /\ f.dummycount \in Nat
      BY <2>1 DEF WakeUp, Quiet, Typed, latency
  <2>3. f.powered_up \/ f.dummycount = 0
      BY <2>1 DEF WakeUp, Heard, Eaten
  <2>4. n = 8 => f.powered_up /\ f.dummycount = 0
      BY <2>1, <2>2 DEF WakeUp, Heard, Eaten
  <2> QED
      BY <2>2, <2>3, <2>4 DEF Over
<1>3. CASE c = 2
    BY <1>3 DEF FlashAt, Opcode, Address
<1>4. CASE c = 3
    BY <1>4 DEF FlashAt, Address, Dummy
<1>5. CASE c = 4
    BY <1>5 DEF FlashAt, Dummy
<1>6. CASE c = 5
    BY <1>6 DEF FlashAt, Data, Over
<1> QED
    BY <1>1, <1>2, <1>3, <1>4, <1>5, <1>6

(* The same, whatever the host is doing.                                   *)
LEMMA HostQuiet ==
    ASSUME NEW a, NEW j \in 0 .. 5, NEW n \in 0 .. 8, NEW kind, HostAt(kind, a, j, n)
    PROVE  Quiet(flash) /\ (flash.powered_up \/ flash.dummycount = 0)
<1>1. CASE kind = "rest"
    BY <1>1 DEF HostAt, Resting, Up
<1>2. CASE kind = "clock"
  <2>1. j \in 1 .. 5 /\ FlashAt(flash, a, j, n)
      BY <1>2 DEF HostAt
  <2> QED
      BY <2>1, FlashAtQuiet
<1>3. CASE kind = "held"
  <2>1. j \in 1 .. 5 /\ FlashAt(flash, a, j, n)
      BY <1>3 DEF HostAt
  <2> QED
      BY <2>1, FlashAtQuiet
<1>4. CASE kind = "over"
    BY <1>4 DEF HostAt, Over
<1>5. kind = "rest" \/ kind = "clock" \/ kind = "held" \/ kind = "over"
    BY DEF HostAt
<1> QED
    BY <1>1, <1>2, <1>3, <1>4, <1>5

(* The reset ends what was going on and empties the queues; the flash may  *)
(* be left with dummy clocks to count.                                     *)
LEMMA ResetStep ==
    ASSUME NEW a, NEW p, NEW j, NEW n, NEW kind, Before(a, p, j, n, kind), Reset
    PROVE  IInv'
<1>1. a \in Addr /\ At(a, p, j, n, kind) /\ Basic /\ j \in 0 .. 5 /\ n \in 0 .. 8
    BY DEF Before
<1>2. /\ csb' = TRUE /\ flash' = IF csb THEN flash ELSE CsbHigh(flash)
      /\ spien' = FALSE /\ cmdq' = <<>> /\ txq' = <<>> /\ rxq' = <<>> /\ rxpipe' = <<>>
      /\ seg' = NoSegment /\ pc = "reset" /\ pc' = "enable"
    BY DEF Reset
<1>3. UNCHANGED <<error, todo, addr, ret, restarts, driver>>
    BY DEF Reset
<1>4. HostAt(kind, a, j, n)
    BY <1>1 DEF At
<1>5. Resting(flash')
  <2>1. CASE csb
    <3>1. kind = "rest"
        BY <1>1, <1>4, <2>1, KindLemma
    <3>2. Resting(flash)
        BY <1>4, <3>1 DEF HostAt, Up
    <3> QED
        BY <1>2, <2>1, <3>2
  <2>2. CASE ~ csb
      BY <1>1, <1>2, <1>4, <2>2, HostQuiet, DeselectLemma
  <2> QED
      BY <2>1, <2>2
<1>6. HostAt("rest", a, 0, 8)'
    BY <1>2, <1>5 DEF HostAt
<1>7. addr = NoAddr /\ ret = NoWord
    BY <1>1, <1>2 DEF At, CpuAt
<1>8. CpuAt(a, 0)' /\ RxAt(a, 0, 8)'
    BY <1>2, <1>3, <1>7 DEF CpuAt, RxAt
<1>9. At(a, 0, 0, 8, "rest")'
  <2>1. 0 <= issued(0)
    <3>1. 0 \in 0 .. 8
        OBVIOUS
    <3> QED
        BY <3>1, TableLemma
  <2> QED
      BY <1>2, <1>6, <1>8, <2>1, StartQueues DEF At
<1>10. Basic'
  <2>1. Len(cmdq') = 0 /\ CmdDepth \in Nat
      BY <1>2, ReadAssumption
  <2>2. Waited'
      BY <1>2 DEF Waited
  <2>3. Len(cmdq') <= CmdDepth
      BY <2>1
  <2>4. csb' \in BOOLEAN /\ spien' \in BOOLEAN
      BY <1>2
  <2>5. error' = FALSE /\ restarts' \in 0 .. MaxRestarts /\ driver' \in {"bootloader", "simulate_flash"}
      BY <1>1, <1>3 DEF Basic
  <2> QED
      BY <2>2, <2>3, <2>4, <2>5 DEF Basic
<1>11. 0 \in 0 .. 8 /\ 0 \in 0 .. 5 /\ 8 \in 0 .. 8 /\ "rest" \in Kinds
    BY DEF Kinds
<1>12. Before(a, 0, 0, 8, "rest")'
    BY <1>1, <1>9, <1>10, <1>11 DEF Before
<1> QED
    BY <1>12, After

(* The host is enabled when it is at rest, and the power-up is to be sent. *)
LEMMA EnableStep ==
    ASSUME NEW a, NEW p, NEW j, NEW n, NEW kind, Before(a, p, j, n, kind), Enable
    PROVE  IInv'
<1>1. a \in Addr /\ At(a, p, j, n, kind) /\ Basic /\ j \in 0 .. 5 /\ n \in 0 .. 8
    BY DEF Before
<1>2. /\ pc = "enable" /\ pc' = "run" /\ spien' = TRUE /\ todo' = flash_power_up
      /\ UNCHANGED <<flash, csb, error, cmdq, txq, rxq, seg, rxpipe, addr, ret, restarts, driver>>
    BY DEF Enable
<1>3. p = 0 /\ addr = NoAddr
    BY <1>1, <1>2 DEF At, CpuAt
<1>4. HostAt(kind, a, j, n)'
    BY <1>1, <1>2 DEF At, HostAt
<1>5. RxAt(a, j, n)'
    BY <1>1, <1>2 DEF At, RxAt
<1>6. CpuAt(a, p)'
  <2>1. todo' = Window(Script(a), 0, 2)
      BY <1>2, ScriptLemma
  <2> QED
      BY <1>2, <1>3, <2>1 DEF CpuAt
<1>7. At(a, p, j, n, kind)'
    BY <1>1, <1>2, <1>4, <1>5, <1>6 DEF At
<1>8. cmdq = <<>>
  <2>1. 0 \in 0 .. 8 /\ issued(p) = 0
    <3>1. 0 \in 0 .. 8
        OBVIOUS
    <3> QED
        BY <1>3, <3>1, TableLemma
  <2>2. j = 0
      BY <1>1, <2>1 DEF At
  <2> QED
      BY <1>1, <2>1, <2>2, WindowEmpty DEF At
<1>9. Basic'
  <2>1. Len(cmdq) = 0 /\ CmdDepth \in Nat \ {0}
      BY <1>8, ReadAssumption
  <2>2. Len(cmdq) < CmdDepth /\ ~ Active
      BY <2>1 DEF Enable, WaitReady
  <2>3. Waited'
      BY <1>2, <1>8, <2>2 DEF Waited, Active
  <2> QED
      BY <1>1, <1>2, <2>3 DEF Basic
<1>10. Before(a, p, j, n, kind)'
    BY <1>7, <1>9 DEF Before
<1> QED
    BY <1>10, After

(* The script, access by access.                                           *)
LEMMA AccessLemma ==
    ASSUME NEW a, NEW p \in 0 .. 7
    PROVE  \/ /\ p \in {0, 2, 4} /\ Script(a)[p + 1].reg = "TXDATA"
              /\ Script(a)[p + 1].word = Words(a)[pushed(p) + 1]
           \/ /\ p \in {1, 3, 5, 6, 7} /\ Script(a)[p + 1].reg = "COMMAND"
              /\ Script(a)[p + 1] = Commands[issued(p) + 1]
<1>1. /\ Script(a)[1] = Tx(Words(a)[1]) /\ Script(a)[2] = Commands[1]
      /\ Script(a)[3] = Tx(Words(a)[2]) /\ Script(a)[4] = Commands[2]
      /\ Script(a)[5] = Tx(Words(a)[3]) /\ Script(a)[6] = Commands[3]
      /\ Script(a)[7] = Commands[4] /\ Script(a)[8] = Commands[5]
    BY DEF Script
<1>2. \A w : Tx(w).reg = "TXDATA" /\ Tx(w).word = w
    BY DEF Tx
<1>3. /\ Commands[1].reg = "COMMAND" /\ Commands[2].reg = "COMMAND"
      /\ Commands[3].reg = "COMMAND" /\ Commands[4].reg = "COMMAND"
      /\ Commands[5].reg = "COMMAND"
    BY CommandLemma DEF Command
<1>4. /\ pushed(0) = 0 /\ issued(1) = 0 /\ pushed(2) = 1 /\ issued(3) = 1
      /\ pushed(4) = 2 /\ issued(5) = 2 /\ issued(6) = 3 /\ issued(7) = 4
    BY DEF pushed, issued
<1>5. p = 0 \/ p = 1 \/ p = 2 \/ p = 3 \/ p = 4 \/ p = 5 \/ p = 6 \/ p = 7
    OBVIOUS
<1>6. CASE p = 0 BY <1>1, <1>2, <1>4, <1>6
<1>7. CASE p = 1 BY <1>1, <1>3, <1>4, <1>7
<1>8. CASE p = 2 BY <1>1, <1>2, <1>4, <1>8
<1>9. CASE p = 3 BY <1>1, <1>3, <1>4, <1>9
<1>10. CASE p = 4 BY <1>1, <1>2, <1>4, <1>10
<1>11. CASE p = 5 BY <1>1, <1>3, <1>4, <1>11
<1>12. CASE p = 6 BY <1>1, <1>3, <1>4, <1>12
<1>13. CASE p = 7 BY <1>1, <1>3, <1>4, <1>13
<1> QED
    BY <1>5, <1>6, <1>7, <1>8, <1>9, <1>10, <1>11, <1>12, <1>13

(* The words taken are among those pushed.                                 *)
LEMMA TakenLemma ==
    ASSUME NEW p \in 0 .. 8, NEW j \in 0 .. 5, NEW n \in 0 .. 8,
           j <= issued(p), j = 0 => n = 8
    PROVE  /\ Taken(j, n) \in 0 .. 3 /\ Taken(j, n) <= pushed(p)
           /\ n = 8 /\ j < issued(p) /\ j < 3 => Taken(j, n) < pushed(p)
<1>1. /\ issued(p) \in 0 .. 5 /\ pushed(p) \in 0 .. 3
      /\ pushed(p) >= issued(p) \/ issued(p) > 3
      /\ issued(p) >= 3 => pushed(p) = 3
    BY TableLemma
<1> QED
    BY <1>1 DEF Taken

(* What the driver still has to do tells how far it is.                    *)
LEMMA TodoLemma ==
    ASSUME NEW a, NEW p \in 0 .. 8, CpuAt(a, p), pc \in {"run", "wait"}
    PROVE  /\ spien
           /\ todo = <<>> => \/ addr = NoAddr /\ p = 2
                             \/ addr = a /\ p = 8
           /\ todo # <<>> => /\ p \in 0 .. 7 /\ Head(todo) = Script(a)[p + 1]
                             /\ \/ addr = NoAddr /\ p + 1 \in 0 .. 2 /\ Tail(todo) = Window(Script(a), p + 1, 2)
                                \/ addr = a /\ p + 1 \in 2 .. 8 /\ Tail(todo) = Window(Script(a), p + 1, 8)
<1>1. /\ spien
      /\ \/ addr = NoAddr /\ p \in 0 .. 2 /\ todo = Window(Script(a), p, 2)
         \/ addr = a /\ p \in 2 .. 8 /\ todo = Window(Script(a), p, 8)
    BY DEF CpuAt
<1>2. ASSUME NEW t \in {2, 8}, p <= t, todo = Window(Script(a), p, t)
      PROVE  /\ todo = <<>> => p = t
             /\ todo # <<>> => /\ p < t /\ Head(todo) = Script(a)[p + 1]
                               /\ Tail(todo) = Window(Script(a), p + 1, t)
  <2>1. p \in Nat /\ t \in Nat
      OBVIOUS
  <2>2. Len(todo) = t - p
      BY <1>2, <2>1, WindowSeq
  <2>3. CASE p = t
    <3>1. todo = <<>>
        BY <1>2, <2>1, <2>3, WindowEmpty
    <3> QED
        BY <2>3, <3>1
  <2>4. CASE p < t
    <3>1. /\ todo # <<>> /\ Head(todo) = Script(a)[p + 1]
          /\ Tail(todo) = Window(Script(a), p + 1, t)
        BY <1>2, <2>1, <2>4, WindowLemma
    <3> QED
        BY <2>4, <3>1
  <2> QED
      BY <1>2, <2>1, <2>3, <2>4
<1>3. CASE addr = NoAddr /\ p \in 0 .. 2 /\ todo = Window(Script(a), p, 2)
  <2>1. p <= 2 /\ 2 \in {2, 8}
      BY <1>3
  <2>2. /\ todo = <<>> => p = 2
        /\ todo # <<>> => /\ p < 2 /\ Head(todo) = Script(a)[p + 1]
                          /\ Tail(todo) = Window(Script(a), p + 1, 2)
      BY <1>2, <1>3, <2>1
  <2>3. p < 2 => p \in 0 .. 7 /\ p + 1 \in 0 .. 2
      OBVIOUS
  <2> QED
      BY <1>1, <1>3, <2>2, <2>3
<1>4. CASE addr = a /\ p \in 2 .. 8 /\ todo = Window(Script(a), p, 8)
  <2>1. p <= 8 /\ 8 \in {2, 8}
      BY <1>4
  <2>2. /\ todo = <<>> => p = 8
        /\ todo # <<>> => /\ p < 8 /\ Head(todo) = Script(a)[p + 1]
                          /\ Tail(todo) = Window(Script(a), p + 1, 8)
      BY <1>2, <1>4, <2>1
  <2>3. p < 8 => p \in 0 .. 7 /\ p + 1 \in 2 .. 8
      BY <1>4
  <2> QED
      BY <1>1, <1>4, <2>2, <2>3
<1> QED
    BY <1>1, <1>3, <1>4

(* A word is pushed.                                                       *)
LEMMA TransmitStep ==
    ASSUME NEW a, NEW p, NEW j, NEW n, NEW kind, Before(a, p, j, n, kind), spi_transmit_word
    PROVE  IInv'
<1>1. /\ a \in Addr /\ At(a, p, j, n, kind) /\ Basic
      /\ p \in 0 .. 8 /\ j \in 0 .. 5 /\ n \in 0 .. 8 /\ kind \in Kinds
    BY DEF Before
<1>2. /\ pc = "run" /\ todo # <<>> /\ Head(todo).reg = "TXDATA"
      /\ txq' = Append(txq, Head(todo).word) /\ todo' = Tail(todo)
      /\ UNCHANGED <<flash, csb, spien, error, cmdq, rxq, seg, rxpipe, pc, addr, ret, restarts, driver>>
    BY DEF spi_transmit_word
<1>3. /\ spien /\ p \in 0 .. 7 /\ Head(todo) = Script(a)[p + 1]
      /\ \/ addr = NoAddr /\ p + 1 \in 0 .. 2 /\ todo' = Window(Script(a), p + 1, 2)
         \/ addr = a /\ p + 1 \in 2 .. 8 /\ todo' = Window(Script(a), p + 1, 8)
    BY <1>1, <1>2, TodoLemma DEF At
<1>4. p \in {0, 2, 4} /\ Head(todo).word = Words(a)[pushed(p) + 1]
    BY <1>2, <1>3, AccessLemma
<1>5. pushed(p + 1) = pushed(p) + 1 /\ issued(p + 1) = issued(p) /\ pushed(p) \in Nat
    BY <1>1, <1>4, TableLemma
<1>6. HostAt(kind, a, j, n)'
    BY <1>1, <1>2 DEF At, HostAt
<1>7. RxAt(a, j, n)'
    BY <1>1, <1>2 DEF At, RxAt
<1>8. CpuAt(a, p + 1)'
    BY <1>2, <1>3 DEF CpuAt
<1>9. txq' = Window(Words(a), Taken(j, n), pushed(p + 1))
  <2>1. j = 0 => n = 8
      BY <1>1 DEF At, HostAt
  <2>2. Taken(j, n) \in Nat /\ Taken(j, n) <= pushed(p)
    <3>1. j <= issued(p)
        BY <1>1 DEF At
    <3> QED
        BY <1>1, <2>1, <3>1, TakenLemma
  <2>3. txq = Window(Words(a), Taken(j, n), pushed(p))
      BY <1>1 DEF At
  <2>4. Append(txq, Words(a)[pushed(p) + 1]) = Window(Words(a), Taken(j, n), pushed(p) + 1)
      BY <1>5, <2>2, <2>3, WindowLemma
  <2> QED
      BY <1>2, <1>4, <1>5, <2>4
<1>10. At(a, p + 1, j, n, kind)'
    BY <1>1, <1>2, <1>5, <1>6, <1>7, <1>8, <1>9 DEF At
<1>11. Basic'
    BY <1>1, <1>2 DEF Basic, Waited, Active
<1>12. Before(a, p + 1, j, n, kind)'
  <2>1. p + 1 \in 0 .. 8
      BY <1>3
  <2> QED
      BY <1>1, <1>10, <1>11, <2>1 DEF Before
<1> QED
    BY <1>12, After

(* A command is issued: there is room for it, the wait has seen to that.   *)
LEMMA RunCommandStep ==
    ASSUME NEW a, NEW p, NEW j, NEW n, NEW kind, Before(a, p, j, n, kind), spi_run_command
    PROVE  IInv'
<1>1. /\ a \in Addr /\ At(a, p, j, n, kind) /\ Basic
      /\ p \in 0 .. 8 /\ j \in 0 .. 5 /\ n \in 0 .. 8 /\ kind \in Kinds
    BY DEF Before
<1>2. /\ pc = "run" /\ pc' = "wait" /\ todo # <<>> /\ Head(todo).reg = "COMMAND"
      /\ cmdq' = IF Ready THEN Append(cmdq, Head(todo)) ELSE cmdq
      /\ error' = (error \/ ~ Ready) /\ todo' = Tail(todo)
      /\ UNCHANGED <<flash, csb, spien, txq, rxq, seg, rxpipe, addr, ret, restarts, driver>>
    BY DEF spi_run_command
<1>3. /\ spien /\ p \in 0 .. 7 /\ Head(todo) = Script(a)[p + 1]
      /\ \/ addr = NoAddr /\ p + 1 \in 0 .. 2 /\ todo' = Window(Script(a), p + 1, 2)
         \/ addr = a /\ p + 1 \in 2 .. 8 /\ todo' = Window(Script(a), p + 1, 8)
    BY <1>1, <1>2, TodoLemma DEF At
<1>4. p \in {1, 3, 5, 6, 7} /\ Head(todo) = Commands[issued(p) + 1]
    BY <1>2, <1>3, AccessLemma
<1>5. pushed(p + 1) = pushed(p) /\ issued(p + 1) = issued(p) + 1 /\ issued(p) \in Nat
    BY <1>1, <1>4, TableLemma
<1>6. Ready /\ error = FALSE
    BY <1>1, <1>2 DEF Basic, Waited, Ready
<1>7. HostAt(kind, a, j, n)'
    BY <1>1, <1>2 DEF At, HostAt
<1>8. RxAt(a, j, n)'
    BY <1>1, <1>2 DEF At, RxAt
<1>9. CpuAt(a, p + 1)'
    BY <1>2, <1>3 DEF CpuAt
<1>10. /\ cmdq' = Window(Commands, j, issued(p + 1)) /\ Len(cmdq') = (issued(p) + 1) - j
       /\ Len(cmdq) = issued(p) - j /\ j <= issued(p + 1)
  <2>1. j \in Nat /\ j <= issued(p) /\ cmdq = Window(Commands, j, issued(p))
      BY <1>1 DEF At
  <2>2. Append(cmdq, Commands[issued(p) + 1]) = Window(Commands, j, issued(p) + 1)
      BY <1>5, <2>1, WindowLemma
  <2>3. cmdq' = Window(Commands, j, issued(p) + 1)
      BY <1>2, <1>4, <1>6, <2>2
  <2>4. issued(p) + 1 \in Nat /\ j <= issued(p) + 1
      BY <1>5, <2>1
  <2> QED
      BY <1>5, <2>1, <2>3, <2>4, WindowSeq
<1>11. At(a, p + 1, j, n, kind)'
    BY <1>1, <1>2, <1>5, <1>7, <1>8, <1>9, <1>10 DEF At
<1>12. Basic'
  <2>1. Len(cmdq') <= CmdDepth
    <3>1. CmdDepth \in Nat
        BY ReadAssumption
    <3>2. Len(cmdq) < CmdDepth
        BY <1>6 DEF Ready
    <3> QED
        BY <1>1, <1>5, <1>10, <3>1, <3>2
  <2>2. Waited'
      BY <1>2 DEF Waited
  <2>3. error' = FALSE
      BY <1>2, <1>6
  <2> QED
      BY <1>1, <1>2, <2>1, <2>2, <2>3 DEF Basic
<1>13. Before(a, p + 1, j, n, kind)'
  <2>1. p + 1 \in 0 .. 8
      BY <1>3
  <2> QED
      BY <1>1, <1>11, <1>12, <2>1 DEF Before
<1> QED
    BY <1>13, After

(* The driver has seen READY and not ACTIVE.  simulate_flash, with a host  *)
(* that is prompt, sees it only once its command has been run.             *)
LEMMA WaitStep ==
    ASSUME NEW a, NEW p, NEW j, NEW n, NEW kind, Before(a, p, j, n, kind), spi_wait_ready
    PROVE  IInv'
<1>1. /\ a \in Addr /\ At(a, p, j, n, kind) /\ Basic
      /\ p \in 0 .. 8 /\ j \in 0 .. 5 /\ n \in 0 .. 8 /\ kind \in Kinds
    BY DEF Before
<1>2. /\ CpuTurn /\ pc = "wait" /\ WaitReady /\ pc' = "run"
      /\ UNCHANGED <<flash, csb, spien, error, cmdq, txq, rxq, seg, rxpipe, todo, addr, ret, restarts, driver>>
    BY DEF spi_wait_ready, hostvars
<1>3. HostAt(kind, a, j, n)'
    BY <1>1, <1>2 DEF At, HostAt
<1>4. RxAt(a, j, n)'
    BY <1>1, <1>2 DEF At, RxAt
<1>5. CpuAt(a, p)'
    BY <1>1, <1>2 DEF At, CpuAt
<1>6. At(a, p, j, n, kind)'
    BY <1>1, <1>2, <1>3, <1>4, <1>5 DEF At
<1>7. ~ Active /\ Len(cmdq) < CmdDepth
    BY <1>2 DEF WaitReady, Ready
<1>8. ASSUME driver = "simulate_flash", cmdq # <<>> PROVE FALSE
  <2>1. ~ CanStart
      BY <1>2, <1>8 DEF CpuTurn, Prompt
  <2>2. HostAt(kind, a, j, n) /\ CpuAt(a, p)
      BY <1>1 DEF At
  <2>3. kind \in {"rest", "held"}
      BY <1>1, <1>7, <2>2, KindLemma DEF Kinds
  <2>4. n = 8
      BY <2>2, <2>3 DEF HostAt
  <2>5. spien
      BY <1>1, <1>2, <2>2, TodoLemma
  <2>6. Head(cmdq).dir = "tx" /\ txq = <<>>
      BY <1>1, <1>7, <1>8, <2>1, <2>5 DEF CanStart, Basic
  <2>7. j <= issued(p) /\ cmdq = Window(Commands, j, issued(p))
      BY <1>1 DEF At
  <2>8. issued(p) \in 0 .. 5 /\ pushed(p) \in 0 .. 3
      BY <1>1, TableLemma
  <2>9. j < issued(p)
    <3>1. j \in Nat
        BY <1>1
    <3>2. j # issued(p)
        BY <1>8, <2>7, <3>1, WindowEmpty
    <3> QED
        BY <1>1, <2>7, <2>8, <3>2
  <2>10. Head(cmdq) = Commands[j + 1]
    <3>1. j \in Nat /\ issued(p) \in Nat
        BY <1>1, <2>8
    <3> QED
        BY <2>7, <2>9, <3>1, WindowLemma
  <2>11. j < 3
    <3>1. j + 1 \in 1 .. 5
        BY <1>1, <2>8, <2>9
    <3>2. j + 1 # 4 /\ j + 1 # 5
        BY <2>6, <2>10, CommandFields
    <3> QED
        BY <1>1, <3>1, <3>2
  <2>12. Taken(j, n) \in 0 .. 3 /\ Taken(j, n) < pushed(p)
      BY <1>1, <2>4, <2>7, <2>9, <2>11, TakenLemma
  <2>13. txq = Window(Words(a), Taken(j, n), pushed(p))
      BY <1>1 DEF At
  <2>14. txq # <<>>
    <3>1. Taken(j, n) \in Nat /\ pushed(p) \in Nat /\ Taken(j, n) <= pushed(p)
        BY <2>8, <2>12
    <3> QED
        BY <2>12, <2>13, <3>1, WindowLemma
  <2> QED
      BY <2>6, <2>14
<1>9. Basic'
  <2>1. Waited'
      BY <1>2, <1>7, <1>8 DEF Waited, Active
  <2> QED
      BY <1>1, <1>2, <2>1 DEF Basic
<1>10. Before(a, p, j, n, kind)'
    BY <1>1, <1>6, <1>9 DEF Before
<1> QED
    BY <1>10, After

(* The word is there to be read, whether the driver waits for it or not.   *)
LEMMA ReceiveStep ==
    ASSUME NEW a, NEW p, NEW j, NEW n, NEW kind, Before(a, p, j, n, kind), spi_receive_word
    PROVE  IInv'
<1>1. /\ a \in Addr /\ At(a, p, j, n, kind) /\ Basic
      /\ p \in 0 .. 8 /\ j \in 0 .. 5 /\ n \in 0 .. 8 /\ kind \in Kinds
    BY DEF Before
<1>2. /\ CpuTurn /\ pc = "run" /\ todo = <<>> /\ addr # NoAddr /\ ret = NoWord
      /\ driver = "bootloader" => rxq # <<>>
      /\ ret' = IF rxq # <<>> THEN Head(rxq) ELSE <<0, 0, 0, 0>>
      /\ rxq' = IF rxq # <<>> THEN Tail(rxq) ELSE rxq
      /\ error' = (error \/ rxq = <<>>)
      /\ UNCHANGED <<flash, csb, spien, cmdq, txq, seg, rxpipe, pc, todo, addr, restarts, driver>>
    BY DEF spi_receive_word
<1>3. p = 8
    BY <1>1, <1>2, TodoLemma DEF At
<1>4. Bytes(a, 4) # NoWord
    BY DEF Bytes, NoWord
<1>5. j = 5 /\ n = 8 /\ rxpipe = <<>> /\ rxq = <<Bytes(a, 4)>>
  <2>1. CASE driver = "bootloader"
      BY <1>1, <1>2, <2>1 DEF At, RxAt
  <2>2. CASE driver = "simulate_flash"
    <3>1. cmdq = <<>> /\ ~ Active
        BY <1>1, <1>2, <2>2 DEF Basic, Waited
    <3>2. Len(rxpipe) # 4
        BY <1>2, <2>2 DEF CpuTurn, Prompt
    <3>3. j \in Nat /\ j <= issued(p) /\ cmdq = Window(Commands, j, issued(p))
        BY <1>1 DEF At
    <3>4. issued(p) = 5
        BY <1>1, <1>3, TableLemma
    <3>5. j = 5
      <4>1. Len(cmdq) = 5 - j
        <5>1. 5 \in Nat
            OBVIOUS
        <5> QED
            BY <3>3, <3>4, <5>1, WindowSeq
      <4>2. Len(cmdq) = 0
          BY <3>1
      <4> QED
          BY <1>1, <4>1, <4>2
    <3>6. n = 8
      <4>1. HostAt(kind, a, j, n)
          BY <1>1 DEF At
      <4>2. kind \in {"rest", "held"}
          BY <1>1, <3>1, <4>1, KindLemma DEF Kinds
      <4> QED
          BY <4>1, <4>2 DEF HostAt
    <3>7. rxpipe # Bytes(a, 4)
      <4>1. Len(Bytes(a, 4)) = 4
          BY DEF Bytes
      <4> QED
          BY <3>2, <4>1
    <3> QED
        BY <1>1, <1>2, <1>4, <3>5, <3>6, <3>7 DEF At, RxAt
  <2> QED
      BY <1>1, <2>1, <2>2 DEF Basic
<1>6. ret' = Bytes(a, 4) /\ rxq' = <<>> /\ error' = FALSE /\ rxpipe' = <<>>
  <2>1. rxq # <<>> /\ Head(rxq) = Bytes(a, 4) /\ Tail(rxq) = <<>>
      BY <1>5
  <2>2. error = FALSE
      BY <1>1 DEF Basic
  <2> QED
      BY <1>2, <1>5, <2>1, <2>2
<1>7. HostAt(kind, a, j, n)'
    BY <1>1, <1>2 DEF At, HostAt
<1>8. RxAt(a, j, n)'
    BY <1>5, <1>6 DEF RxAt
<1>9. CpuAt(a, p)'
    BY <1>1, <1>2 DEF At, CpuAt
<1>10. At(a, p, j, n, kind)'
    BY <1>1, <1>2, <1>7, <1>8, <1>9 DEF At
<1>11. Basic'
    BY <1>1, <1>2, <1>6 DEF Basic, Waited, Active
<1>12. Before(a, p, j, n, kind)'
    BY <1>1, <1>10, <1>11 DEF Before
<1> QED
    BY <1>12, After

(* Up to the end of the power-up nothing depends on the address.           *)
LEMMA AnyAddress ==
    ASSUME NEW a, NEW b, NEW n \in 0 .. 8
    PROVE  /\ SegAt(a, 1, n) = SegAt(b, 1, n)
           /\ SegAt(a, 5, 8) = SegAt(b, 5, 8)
           /\ \A f : FlashAt(f, a, 1, n) => FlashAt(f, b, 1, n)
           /\ \A s \in {0, 1} : Window(Words(a), s, 1) = Window(Words(b), s, 1)
<1>1. SegAt(a, 1, n) = SegAt(b, 1, n)
    BY DEF SegAt
<1>2. SegAt(a, 5, 8) = SegAt(b, 5, 8)
    BY DEF SegAt
<1>3. ASSUME NEW f, FlashAt(f, a, 1, n) PROVE FlashAt(f, b, 1, n)
    BY <1>3 DEF FlashAt
<1>4. ASSUME NEW s \in {0, 1} PROVE Window(Words(a), s, 1) = Window(Words(b), s, 1)
  <2>1. Words(a)[1] = Words(b)[1]
      BY DEF Words
  <2>2. \A k \in 1 .. (1 - s) : s + k = 1
      BY <1>4
  <2>3. \A k \in 1 .. (1 - s) : Words(a)[s + k] = Words(b)[s + k]
      BY <2>1, <2>2
  <2> QED
      BY <2>3 DEF Window
<1> QED
    BY <1>1, <1>2, <1>3, <1>4

(* The first call after a power-up: the host may be anywhere in it.        *)
LEMMA FirstCall ==
    ASSUME NEW a, NEW p, NEW j, NEW n, NEW kind, Before(a, p, j, n, kind),
           NEW b \in Addr, Call(b), addr = NoAddr
    PROVE  IInv'
<1>1. /\ a \in Addr /\ At(a, p, j, n, kind) /\ Basic
      /\ p \in 0 .. 8 /\ j \in 0 .. 5 /\ n \in 0 .. 8 /\ kind \in Kinds
    BY DEF Before
<1>2. /\ pc = "run" /\ todo = <<>> /\ addr' = b /\ ret' = NoWord
      /\ todo' = flash_read_word(b)
      /\ UNCHANGED <<flash, csb, spien, error, cmdq, txq, rxq, seg, rxpipe, pc, restarts, driver>>
    BY DEF Call, hostvars
<1>3. p = 2 /\ spien
  <2>1. a # NoAddr
      BY <1>1, ReadAssumption DEF NoAddr
  <2> QED
      BY <1>1, <1>2, <2>1, TodoLemma DEF At
<1>4. issued(p) = 1 /\ pushed(p) = 1
    BY <1>1, <1>3, TableLemma
<1>5. j \in {0, 1} /\ kind # "held"
    BY <1>1, <1>4 DEF At, HostAt
<1>6. HostAt(kind, b, j, n)'
  <2>1. HostAt(kind, a, j, n)
      BY <1>1 DEF At
  <2>2. CASE kind = "rest"
      BY <1>2, <2>1, <2>2 DEF HostAt
  <2>3. CASE kind = "clock"
    <3>1. j = 1 /\ seg = SegAt(a, 1, n) /\ ~ csb /\ FlashAt(flash, a, 1, n)
        BY <1>5, <2>1, <2>3 DEF HostAt
    <3>2. seg = SegAt(b, 1, n) /\ FlashAt(flash, b, 1, n)
        BY <1>1, <3>1, AnyAddress
    <3>3. seg' = SegAt(b, 1, n) /\ FlashAt(flash', b, 1, n) /\ ~ csb'
        BY <1>2, <3>1, <3>2
    <3> QED
        BY <2>3, <3>1, <3>3 DEF HostAt
  <2>4. CASE kind = "over"
    <3>1. n = 8 /\ j = 1 /\ seg = SegAt(a, 5, 8) /\ ~ csb /\ Over(flash)
        BY <2>1, <2>4 DEF HostAt
    <3>2. seg = SegAt(b, 5, 8)
        BY <1>1, <3>1, AnyAddress
    <3> QED
        BY <1>2, <2>4, <3>1, <3>2 DEF HostAt
  <2> QED
      BY <1>1, <1>5, <2>2, <2>3, <2>4 DEF Kinds
<1>7. RxAt(b, j, n)'
    BY <1>1, <1>2, <1>5 DEF At, RxAt
<1>8. CpuAt(b, 2)'
  <2>1. todo' = Window(Script(b), 2, 8)
      BY <1>2, ScriptLemma
  <2> QED
      BY <1>2, <1>3, <2>1 DEF CpuAt
<1>9. txq = Window(Words(b), Taken(j, n), pushed(p))
  <2>1. Taken(j, n) \in {0, 1}
    <3>1. j = 0 => n = 8
        BY <1>1 DEF At, HostAt
    <3>2. j <= issued(p)
        BY <1>1 DEF At
    <3>3. Taken(j, n) \in 0 .. 3 /\ Taken(j, n) <= 1
        BY <1>1, <1>4, <3>1, <3>2, TakenLemma
    <3> QED
        BY <3>3
  <2>2. txq = Window(Words(a), Taken(j, n), 1)
      BY <1>1, <1>4 DEF At
  <2> QED
      BY <1>1, <1>4, <2>1, <2>2, AnyAddress
<1>10. At(b, p, j, n, kind)'
    BY <1>1, <1>2, <1>3, <1>6, <1>7, <1>8, <1>9 DEF At
<1>11. Basic'
    BY <1>1, <1>2 DEF Basic, Waited, Active
<1>12. Before(b, p, j, n, kind)'
    BY <1>1, <1>10, <1>11 DEF Before
<1> QED
    BY <1>12, After

(* A later call: all of the last read is done but, perhaps, its end.       *)
LEMMA NextCall ==
    ASSUME NEW a, NEW p, NEW j, NEW n, NEW kind, Before(a, p, j, n, kind),
           NEW b \in Addr, Call(b), ret # NoWord
    PROVE  IInv'
<1>1. /\ a \in Addr /\ At(a, p, j, n, kind) /\ Basic
      /\ p \in 0 .. 8 /\ j \in 0 .. 5 /\ n \in 0 .. 8 /\ kind \in Kinds
    BY DEF Before
<1>2. /\ pc = "run" /\ todo = <<>> /\ addr' = b /\ ret' = NoWord
      /\ todo' = flash_read_word(b)
      /\ UNCHANGED <<flash, csb, spien, error, cmdq, txq, rxq, seg, rxpipe, pc, restarts, driver>>
    BY DEF Call, hostvars
<1>3. j = 5 /\ n = 8 /\ rxpipe = <<>> /\ rxq = <<>>
    BY <1>1, <1>2 DEF At, RxAt
<1>4. issued(p) = 5 /\ pushed(p) = 3 /\ spien
  <2>1. issued(p) \in 0 .. 5 /\ j <= issued(p)
      BY <1>1, TableLemma DEF At
  <2>2. issued(p) = 5
      BY <1>3, <2>1
  <2>3. pushed(p) = 3
      BY <1>1, <2>2, TableLemma
  <2> QED
      BY <1>1, <1>2, <2>2, <2>3, TodoLemma DEF At
<1>5. cmdq = <<>> /\ txq = <<>>
  <2>1. cmdq = Window(Commands, 5, 5) /\ txq = Window(Words(a), 3, 3)
    <3>1. Taken(5, 8) = 3
        BY DEF Taken
    <3> QED
        BY <1>1, <1>3, <1>4, <3>1 DEF At
  <2> QED
      BY <2>1, WindowEmpty
<1>6. 2 \in 0 .. 8 /\ issued(2) = 1 /\ pushed(2) = 1 /\ Taken(1, 8) = 1
  <2>1. 2 \in 0 .. 8
      OBVIOUS
  <2> QED
      BY <2>1, TableLemma DEF Taken
<1>7. Window(Commands, 1, 1) = <<>> /\ Window(Words(b), 1, 1) = <<>>
    BY WindowEmpty
<1>8. CpuAt(b, 2)'
  <2>1. todo' = Window(Script(b), 2, 8)
      BY <1>2, ScriptLemma
  <2> QED
      BY <1>2, <1>4, <2>1 DEF CpuAt
<1>9. RxAt(b, 1, 8)'
    BY <1>2, <1>3 DEF RxAt
<1>10. Basic'
    BY <1>1, <1>2 DEF Basic, Waited, Active
<1>11. HostAt(kind, a, 5, 8)
    BY <1>1, <1>3 DEF At
<1>12. ASSUME NEW k \in Kinds, HostAt(k, b, 1, 8)' PROVE IInv'
  <2>1. At(b, 2, 1, 8, k)'
    <3>1. 1 <= issued(2)
        BY <1>6
    <3> QED
        BY <1>2, <1>5, <1>6, <1>7, <1>8, <1>9, <1>12, <3>1 DEF At
  <2>2. 1 \in 0 .. 5 /\ 8 \in 0 .. 8
      OBVIOUS
  <2>3. Before(b, 2, 1, 8, k)'
      BY <1>6, <1>10, <1>12, <2>1, <2>2 DEF Before
  <2> QED
      BY <2>3, After
<1>13. CASE kind = "rest"
  <2>1. HostAt("rest", b, 1, 8)'
      BY <1>2, <1>11, <1>13 DEF HostAt
  <2> QED
      BY <1>12, <2>1 DEF Kinds
<1>14. CASE kind = "clock"
  <2>1. seg = SegAt(a, 5, 8) /\ ~ csb /\ FlashAt(flash, a, 5, 8)
      BY <1>11, <1>14 DEF HostAt
  <2>2. 8 \in 0 .. 8 /\ 5 \in 1 .. 5
      OBVIOUS
  <2>3. Over(flash)
      BY <2>1, <2>2, FlashAtQuiet
  <2>4. seg = SegAt(b, 5, 8)
      BY <2>1, <2>2, AnyAddress
  <2>5. HostAt("over", b, 1, 8)'
      BY <1>2, <2>1, <2>3, <2>4 DEF HostAt
  <2> QED
      BY <1>12, <2>5 DEF Kinds
<1> QED
    BY <1>1, <1>11, <1>13, <1>14 DEF HostAt, Kinds

(* The end of a segment.                                                   *)
LEMMA FinishStep ==
    ASSUME NEW a, NEW p, NEW j, NEW n, NEW kind, Before(a, p, j, n, kind), Finish
    PROVE  IInv'
<1>1. /\ a \in Addr /\ At(a, p, j, n, kind) /\ Basic
      /\ p \in 0 .. 8 /\ j \in 0 .. 5 /\ n \in 0 .. 8 /\ kind \in Kinds
    BY DEF Before
<1>2. /\ Active /\ SegmentClocked /\ csb' = ~ seg.csaat
      /\ flash' = IF seg.csaat THEN flash ELSE CsbHigh(flash)
      /\ seg' = IF seg.csaat
                THEN [NoSegment EXCEPT !.dir = seg.dir, !.speed = seg.speed]
                ELSE NoSegment
      /\ UNCHANGED <<spien, error, cmdq, txq, rxq, rxpipe, pc, todo, addr, ret, restarts, driver>>
    BY DEF Finish, cpuvars
<1>3. HostAt(kind, a, j, n)
    BY <1>1 DEF At
<1>4. n = 8 /\ RxAt(a, j, 8)' /\ CpuAt(a, p)'
  <2>1. CASE kind = "clock"
    <3>1. j \in 1 .. 5 /\ seg = SegAt(a, j, n)
        BY <1>3, <2>1 DEF HostAt
    <3>2. seg.byte = Commands[j].len
        BY <1>1, <1>2, <3>1, SegLemma DEF SegmentClocked
    <3>3. ASSUME j \in {1, 2} PROVE n = 8
      <4>1. seg.byte = n \div 8
          BY <1>1, <3>1, <3>3, SegCounts
      <4>2. n \div 8 = 1
          BY <3>2, <3>3, <4>1, CommandFields
      <4> QED
          BY <1>1, <4>2
    <3>4. ASSUME j \in {3, 5} PROVE n = 8
      <4>1. seg.byte = n \div 2
          BY <1>1, <3>1, <3>4, SegCounts
      <4>2. n \div 2 = 4
          BY <3>2, <3>4, <4>1, CommandFields
      <4> QED
          BY <1>1, <4>2
    <3>5. ASSUME j = 4 PROVE n = 8
      <4>1. seg.byte = n
          BY <1>1, <3>1, <3>5, SegCounts
      <4> QED
          BY <3>2, <3>5, <4>1, CommandFields
    <3>6. n = 8
        BY <3>1, <3>3, <3>4, <3>5
    <3> QED
        BY <1>1, <1>2, <3>6 DEF At, RxAt, CpuAt
  <2>2. CASE kind = "over"
    <3>1. n = 8
        BY <1>3, <2>2 DEF HostAt
    <3> QED
        BY <1>1, <1>2, <3>1 DEF At, RxAt, CpuAt
  <2> QED
      BY <1>1, <1>2, <1>3, <2>1, <2>2, KindLemma DEF Kinds
<1>5. ASSUME NEW k \in Kinds, HostAt(k, a, j, 8)', csb' \in BOOLEAN PROVE IInv'
  <2>1. At(a, p, j, 8, k)'
      BY <1>1, <1>2, <1>4, <1>5 DEF At
  <2>2. Waited'
      BY <1>1, <1>2 DEF Basic, Waited
  <2>3. Basic'
      BY <1>1, <1>2, <1>5, <2>2 DEF Basic
  <2>4. Before(a, p, j, 8, k)'
      BY <1>1, <1>4, <1>5, <2>1, <2>3 DEF Before
  <2> QED
      BY <2>4, After
<1>6. ASSUME ~ seg.csaat, Over(flash), j \in {1, 5} PROVE IInv'
  <2>1. csb' = TRUE /\ seg' = NoSegment /\ flash' = CsbHigh(flash)
      BY <1>2, <1>6
  <2>2. Up(flash')
      BY <1>6, <2>1, DeselectLemma DEF Over
  <2>3. HostAt("rest", a, j, 8)'
      BY <1>6, <2>1, <2>2 DEF HostAt
  <2> QED
      BY <1>5, <2>1, <2>3 DEF Kinds
<1>7. CASE kind = "over"
  <2>1. seg = SegAt(a, 5, 8) /\ Over(flash) /\ j = 1
      BY <1>3, <1>7 DEF HostAt
  <2>2. seg.csaat = FALSE
    <3>1. 5 \in 1 .. 5 /\ 8 \in 0 .. 8
        OBVIOUS
    <3> QED
        BY <2>1, <3>1, SegLemma, CommandFields
  <2> QED
      BY <1>6, <2>1, <2>2
<1>8. CASE kind = "clock"
  <2>1. j \in 1 .. 5 /\ seg = SegAt(a, j, 8) /\ FlashAt(flash, a, j, 8) /\ ~ csb
      BY <1>3, <1>4, <1>8 DEF HostAt
  <2>2. /\ seg.csaat = Commands[j].csaat /\ seg.dir = Commands[j].dir
        /\ seg.speed = Commands[j].speed
    <3>1. 8 \in 0 .. 8
        OBVIOUS
    <3> QED
        BY <2>1, <3>1, SegLemma
  <2>3. CASE j \in {1, 5}
    <3>1. seg.csaat = FALSE
        BY <2>2, <2>3, CommandFields
    <3>2. Over(flash)
        BY <1>1, <1>4, <2>1, <2>3, FlashAtQuiet
    <3> QED
        BY <1>6, <2>3, <3>1, <3>2
  <2>4. CASE j \in {2, 3, 4}
    <3>1. seg.csaat = TRUE
        BY <2>2, <2>4, CommandFields
    <3>2. csb' = FALSE /\ flash' = flash /\ seg' = HeldSeg(j)
        BY <1>2, <2>2, <3>1 DEF HeldSeg
    <3>3. HostAt("held", a, j, 8)'
        BY <2>1, <2>4, <3>2 DEF HostAt
    <3> QED
        BY <1>5, <3>2, <3>3 DEF Kinds
  <2> QED
      BY <2>1, <2>3, <2>4
<1> QED
    BY <1>1, <1>2, <1>3, <1>7, <1>8, KindLemma DEF Kinds

(* With the last dummy clock the first byte is on the lines.               *)
LEMMA DummyOver ==
    ASSUME NEW f, NEW a \in 0 .. FlashSize - 1, Dummy(f, a, 8)
    PROVE  Data(f, a, 0)
<1>1. a % FlashSize = a
    BY SMT DEF FlashSize
<1>2. 0 % 2 = 0 /\ 0 \div 2 = 0 /\ 4 * (0 % 2) = 0 /\ a + 0 = a /\ a + 1 + 0 = a + 1
    BY SMT
<1>3. /\ Quiet(f) /\ f.powered_up /\ f.dummycount = 0 /\ f.mode = "qspi_wr"
      /\ f.spi_cmd = READ_QUAD /\ f.oe = IoLine /\ f.dout = f.buffer \div 16
      /\ f.bitcount = 0 /\ f.bytecount = 5 /\ f.buffer = memory(a)
      /\ f.spi_addr = (a + 1) % FlashSize
    BY DEF Dummy
<1> QED
    BY <1>1, <1>2, <1>3 DEF Data

(* A segment starts: the next command of the script.                       *)
LEMMA StartStep ==
    ASSUME NEW a, NEW p, NEW j, NEW n, NEW kind, Before(a, p, j, n, kind), Start
    PROVE  IInv'
<1>1. /\ a \in Addr /\ At(a, p, j, n, kind) /\ Basic
      /\ p \in 0 .. 8 /\ j \in 0 .. 5 /\ n \in 0 .. 8 /\ kind \in Kinds
    BY DEF Before
<1>2. /\ ~ Active /\ cmdq # <<>> /\ csb' = FALSE /\ cmdq' = Tail(cmdq)
      /\ seg' = [NoSegment EXCEPT !.dir = Head(cmdq).dir, !.speed = Head(cmdq).speed,
                                  !.csaat = Head(cmdq).csaat, !.len = Head(cmdq).len]
      /\ IF csb THEN flash' \in CsbLow(flash, 0) ELSE UNCHANGED flash
      /\ UNCHANGED <<spien, error, txq, rxq, rxpipe, pc, todo, addr, ret, restarts, driver>>
    BY DEF Start, CanStart, cpuvars
<1>3. HostAt(kind, a, j, n) /\ j <= issued(p) /\ cmdq = Window(Commands, j, issued(p))
    BY <1>1 DEF At
<1>4. kind \in {"rest", "held"} /\ n = 8
  <2>1. kind \in {"rest", "held"}
      BY <1>1, <1>2, <1>3, KindLemma DEF Kinds
  <2> QED
      BY <1>3, <2>1 DEF HostAt
<1>5. issued(p) \in 0 .. 5 /\ j < issued(p) /\ j \in Nat /\ issued(p) \in Nat
  <2>1. issued(p) \in 0 .. 5 /\ j \in Nat
      BY <1>1, TableLemma
  <2>2. j # issued(p)
      BY <1>2, <1>3, <2>1, WindowEmpty
  <2> QED
      BY <1>1, <1>3, <2>1, <2>2
<1>6. /\ Head(cmdq) = Commands[j + 1] /\ cmdq' = Window(Commands, j + 1, issued(p))
      /\ j + 1 \in 1 .. 5 /\ j + 1 <= issued(p) /\ j \in 0 .. 4
  <2>1. Head(cmdq) = Commands[j + 1] /\ Tail(cmdq) = Window(Commands, j + 1, issued(p))
      BY <1>3, <1>5, WindowLemma
  <2>2. j + 1 \in 1 .. 5 /\ j + 1 <= issued(p) /\ j \in 0 .. 4
      BY <1>5
  <2> QED
      BY <1>2, <2>1, <2>2
<1>7. seg' = SegAt(a, j + 1, 0)
  <2> DEFINE s == SegAt(a, j + 1, 0)
  <2>1. 0 \in 0 .. 8 /\ 0 \div 8 = 0 /\ 0 % 8 = 0 /\ 0 \div 2 = 0 /\ 4 * (0 % 2) = 0 /\ 0 % 2 = 0
      BY SMT
  <2>2. /\ SegFields(s) /\ s.dir = Commands[j + 1].dir /\ s.speed = Commands[j + 1].speed
        /\ s.csaat = Commands[j + 1].csaat /\ s.len = Commands[j + 1].len
      BY <1>6, <2>1, SegLemma
  <2>3. s.byte = 0 /\ s.bit = 0 /\ s.shift = 0
    <3>1. j + 1 \in {1, 2} \/ j + 1 \in {3, 5} \/ j + 1 = 4
        BY <1>6
    <3> QED
        BY <1>6, <2>1, <3>1, SegCounts
  <2>4. /\ SegFields(seg') /\ seg'.dir = Commands[j + 1].dir /\ seg'.speed = Commands[j + 1].speed
        /\ seg'.csaat = Commands[j + 1].csaat /\ seg'.len = Commands[j + 1].len
        /\ seg'.byte = 0 /\ seg'.bit = 0 /\ seg'.shift = 0
      BY <1>2, <1>6 DEF NoSegment, SegFields
  <2> HIDE DEF s
  <2>5. seg' = s
      BY <2>2, <2>3, <2>4, SegEqual
  <2> QED
      BY <2>5 DEF s
<1>8. FlashAt(flash', a, j + 1, 0)
  <2>1. CASE kind = "rest"
    <3>1. csb /\ j \in {0, 1} /\ IF j = 0 THEN Resting(flash) ELSE Up(flash)
        BY <1>3, <1>6, <2>1 DEF HostAt
    <3>2. Resting(flash) /\ (j = 1 => Up(flash)) /\ flash' \in CsbLow(flash, 0)
        BY <1>2, <3>1 DEF Up
    <3>3. WakeUp(flash', 0) /\ (j = 1 => Opcode(flash', 0))
        BY <3>2, SelectLemma
    <3> QED
        BY <3>1, <3>3 DEF FlashAt
  <2>2. CASE kind = "held"
    <3>1. ~ csb /\ j \in {2, 3, 4} /\ FlashAt(flash, a, j, 8)
        BY <1>3, <2>2 DEF HostAt
    <3>2. flash' = flash
        BY <1>2, <3>1
    <3>3. CASE j = 2
        BY <3>1, <3>2, <3>3 DEF FlashAt
    <3>4. CASE j = 3
        BY <3>1, <3>2, <3>4 DEF FlashAt
    <3>5. CASE j = 4
      <4>1. Dummy(flash, a, 8)
          BY <3>1, <3>5 DEF FlashAt
      <4>2. a \in 0 .. FlashSize - 1
        <5>1. a \in 0 .. FlashSize - 4
            BY <1>1, ReadAssumption
        <5> QED
            BY <5>1, SMT DEF FlashSize
      <4>3. Data(flash, a, 0)
          BY <4>1, <4>2, DummyOver
      <4> QED
          BY <3>2, <3>5, <4>3 DEF FlashAt
    <3> QED
        BY <3>1, <3>3, <3>4, <3>5
  <2> QED
      BY <1>4, <2>1, <2>2
<1>9. HostAt("clock", a, j + 1, 0)'
    BY <1>2, <1>6, <1>7, <1>8 DEF HostAt
<1>10. txq' = Window(Words(a), Taken(j + 1, 0), pushed(p))
  <2>1. Taken(j + 1, 0) = Taken(j, 8)
      BY <1>6 DEF Taken
  <2> QED
      BY <1>1, <1>2, <1>4, <2>1 DEF At
<1>11. RxAt(a, j + 1, 0)'
  <2>1. rxpipe = <<>> /\ rxq = <<>> /\ ret = NoWord
      BY <1>1, <1>6 DEF At, RxAt
  <2>2. Bytes(a, 0 \div 2) = <<>>
    <3>1. 0 \div 2 = 0
        BY SMT
    <3>2. Bytes(a, 0) = <<>>
        BY DEF Bytes
    <3> QED
        BY <3>1, <3>2
  <2>3. j + 1 < 5 \/ j + 1 = 5
      BY <1>6
  <2> QED
      BY <1>2, <2>1, <2>2, <2>3 DEF RxAt
<1>12. CpuAt(a, p)'
    BY <1>1, <1>2 DEF At, CpuAt
<1>13. At(a, p, j + 1, 0, "clock")'
    BY <1>6, <1>9, <1>10, <1>11, <1>12 DEF At
<1>14. Basic'
  <2>1. Len(cmdq') <= CmdDepth /\ Len(cmdq') <= Len(cmdq)
    <3>1. Len(cmdq) = issued(p) - j
        BY <1>3, <1>5, WindowSeq
    <3>2. Len(cmdq') = issued(p) - (j + 1)
      <4>1. j + 1 \in Nat
          BY <1>6
      <4> QED
          BY <1>5, <1>6, <4>1, WindowSeq
    <3>3. CmdDepth \in Nat /\ Len(cmdq) <= CmdDepth
        BY <1>1, ReadAssumption DEF Basic
    <3> QED
        BY <1>5, <3>1, <3>2, <3>3
  <2>2. pc' = "run" => driver' # "simulate_flash" /\ Len(cmdq) < CmdDepth
      BY <1>1, <1>2 DEF Basic, Waited
  <2>3. Len(cmdq) \in Nat /\ Len(cmdq') \in Nat /\ CmdDepth \in Nat
    <3>1. Len(cmdq) = issued(p) - j
        BY <1>3, <1>5, WindowSeq
    <3>2. Len(cmdq') = issued(p) - (j + 1)
      <4>1. j + 1 \in Nat
          BY <1>6
      <4> QED
          BY <1>5, <1>6, <4>1, WindowSeq
    <3> QED
        BY <1>5, <1>6, <3>1, <3>2, ReadAssumption
  <2>4. Waited'
      BY <2>1, <2>2, <2>3 DEF Waited
  <2> QED
      BY <1>1, <1>2, <2>1, <2>4 DEF Basic
<1>15. Before(a, p, j + 1, 0, "clock")'
    BY <1>1, <1>6, <1>13, <1>14 DEF Before, Kinds
<1> QED
    BY <1>15, After

(* A clock, register by register.                                          *)
Received == (16 * seg.shift + Lines) % 256

(* The assignments of Clock, one by one.                                   *)
LEMMA ClockFields ==
    ASSUME SegFields(seg), Clock
    PROVE  /\ flash' = Period(flash, Lines)
           /\ SegFields(seg') /\ seg'.dir = seg.dir /\ seg'.speed = seg.speed
           /\ seg'.csaat = seg.csaat /\ seg'.len = seg.len
           /\ seg'.bit = (IF LastBit THEN 0 ELSE seg.bit + Width)
           /\ seg'.byte = (IF LastBit THEN seg.byte + 1 ELSE seg.byte)
           /\ seg.dir # "rx" => seg'.shift = 0 /\ rxpipe' = rxpipe
           /\ seg.dir = "rx" /\ Width = 4 =>
                /\ seg'.shift = (IF LastBit THEN 0 ELSE Received)
                /\ rxpipe' = (IF LastBit THEN Append(rxpipe, Received) ELSE rxpipe)
           /\ txq' = (IF seg.dir = "tx" /\ LastBit /\ (seg.byte + 1 = seg.len \/ seg.byte % 4 = 3)
                      THEN Tail(txq) ELSE txq)
<1> DEFINE bits == IF Width = 1 THEN (Lines \div 2) % 2 ELSE Lines
           got  == (2^Width * seg.shift + bits) % 256
<1>1. /\ seg' = [seg EXCEPT !.bit = IF LastBit THEN 0 ELSE @ + Width,
                            !.byte = IF LastBit THEN @ + 1 ELSE @,
                            !.shift = IF seg.dir = "rx" /\ ~ LastBit
                                      THEN got ELSE 0]
      /\ txq' = IF seg.dir = "tx" /\ LastBit /\ (seg.byte + 1 = seg.len \/ seg.byte % 4 = 3)
                THEN Tail(txq) ELSE txq
      /\ rxpipe' = IF seg.dir = "rx" /\ LastBit THEN Append(rxpipe, got) ELSE rxpipe
      /\ flash' = ClkLow(ClkHigh(flash, Lines), Lines)
    BY DEF Clock
<1>2. Width = 4 => got = Received
  <2>1. ASSUME Width = 4 PROVE got = Received
    <3>1. 2^Width = 16 /\ bits = Lines
        BY <2>1
    <3> QED
        BY <3>1 DEF Received
  <2> QED
      BY <2>1
<1> HIDE DEF got, bits
<1>3. /\ SegFields(seg') /\ seg'.dir = seg.dir /\ seg'.speed = seg.speed
      /\ seg'.csaat = seg.csaat /\ seg'.len = seg.len
    BY <1>1 DEF SegFields
<1>4. /\ seg'.bit = (IF LastBit THEN 0 ELSE seg.bit + Width)
      /\ seg'.byte = (IF LastBit THEN seg.byte + 1 ELSE seg.byte)
      /\ seg'.shift = (IF seg.dir = "rx" /\ ~ LastBit THEN got ELSE 0)
    BY <1>1 DEF SegFields
<1>5. flash' = Period(flash, Lines)
    BY <1>1 DEF Period
<1>6. seg.dir # "rx" => seg'.shift = 0 /\ rxpipe' = rxpipe
    BY <1>1, <1>4
<1>7. seg.dir = "rx" /\ Width = 4 =>
                /\ seg'.shift = (IF LastBit THEN 0 ELSE Received)
                /\ rxpipe' = (IF LastBit THEN Append(rxpipe, Received) ELSE rxpipe)
    BY <1>1, <1>2, <1>4
<1> QED
    BY <1>1, <1>3, <1>4, <1>5, <1>6, <1>7

(* The lines during an opcode: the host drives io0, the flash io1.         *)
OnIo1(f) ==
    f.oe \subseteq {1} /\ f.buffer \in 0 .. 255 /\ f.dout = 2 * (f.buffer \div 128)

Sends(io, w, n) == io \in 0 .. 15 /\ io % 2 = (w \div 2^(7 - n)) % 2

(* The lines then carry the bit of the opcode that is due.                 *)
LEMMA OpcodeLines ==
    ASSUME NEW a, NEW c \in {1, 2}, NEW n \in 0 .. 7, seg = SegAt(a, c, n),
           Head(txq)[1] \in 0 .. 255, OnIo1(flash)
    PROVE  /\ HostLines \cap flash.oe = {}
           /\ Sends(Lines, Head(txq)[1], n)
           /\ Width = 1 /\ (LastBit <=> n = 7)
<1> DEFINE w == Head(txq)[1]
<1>1. n \in 0 .. 8 /\ c \in 1 .. 5 /\ n \div 8 = 0 /\ n % 8 = n
    OBVIOUS
<1>2. seg.dir = "tx" /\ seg.speed = "std" /\ seg.len = 1
  <2>1. seg.dir = Commands[c].dir /\ seg.speed = Commands[c].speed /\ seg.len = Commands[c].len
      BY <1>1, SegLemma
  <2>2. c = 1 \/ c = 2
      OBVIOUS
  <2> QED
      BY <2>1, <2>2, CommandFields
<1>3. seg.byte = 0 /\ seg.bit = n
    BY <1>1, SegCounts
<1>4. Width = 1 /\ HostLines = {0}
    BY <1>2 DEF Width, HostLines
<1>5. HostLines \cap flash.oe = {}
    BY <1>4 DEF OnIo1
<1>6. LastBit <=> n = 7
    BY <1>2, <1>3, <1>4 DEF LastBit
<1>7. TxByte = w
  <2>1. (0 % 4) + 1 = 1
      BY SMT
  <2> QED
      BY <1>3, <2>1 DEF TxByte
<1>8. HostOut = (w \div 2^(7 - n)) % 2
  <2>1. 8 - Width - seg.bit = 7 - n /\ 2^Width = 2
      BY <1>3, <1>4
  <2> QED
      BY <1>2, <1>7, <2>1 DEF HostOut
<1> HIDE DEF w
<1>9. w \div 2^(7 - n) \in Nat
  <2>0. w \in 0 .. 255
      BY DEF w
  <2>1. n = 0 \/ n = 1 \/ n = 2 \/ n = 3 \/ n = 4 \/ n = 5 \/ n = 6 \/ n = 7
      OBVIOUS
  <2>2. /\ w \div 2^7 \in Nat /\ w \div 2^6 \in Nat /\ w \div 2^5 \in Nat
        /\ w \div 2^4 \in Nat /\ w \div 2^3 \in Nat /\ w \div 2^2 \in Nat
        /\ w \div 2^1 \in Nat /\ w \div 2^0 \in Nat
      BY <2>0, SMT
  <2>3. /\ 7 - 0 = 7 /\ 7 - 1 = 6 /\ 7 - 2 = 5 /\ 7 - 3 = 4 /\ 7 - 4 = 3
        /\ 7 - 5 = 2 /\ 7 - 6 = 1 /\ 7 - 7 = 0
      OBVIOUS
  <2> QED
      BY <2>1, <2>2, <2>3, Zenon
<1>10. flash.dout \in {0, 2}
    BY SMT DEF OnIo1
<1>11. Lines = HostOut + flash.dout
    BY <1>5 DEF Lines
<1> DEFINE x == w \div 2^(7 - n)
<1>12. HostOut = x % 2 /\ x \in Nat
    BY <1>8, <1>9
<1> HIDE DEF x
<1>13. x % 2 \in {0, 1}
    BY <1>12
<1>14. Lines \in 0 .. 15 /\ Lines % 2 = x % 2
    BY <1>10, <1>11, <1>12, <1>13
<1> QED
    BY <1>4, <1>5, <1>6, <1>14 DEF x, w, Sends

(* While the address is sent the host drives all four.                     *)
LEMMA AddressLines ==
    ASSUME NEW a \in 0 .. FlashSize - 1, NEW n \in 0 .. 7, seg = SegAt(a, 3, n),
           Head(txq) = Packed(a), flash.oe = {}, flash.dout = 0
    PROVE  /\ HostLines \cap flash.oe = {}
           /\ Lines = Nibble(Packed(a), n)
           /\ Width = 4 /\ (LastBit <=> n % 2 = 1)
<1>1. n \in 0 .. 8 /\ 3 \in 1 .. 5
    OBVIOUS
<1>2. seg.dir = "tx" /\ seg.speed = "quad" /\ seg.len = 4
    BY <1>1, SegLemma, CommandFields
<1>3. seg.byte = n \div 2 /\ seg.bit = 4 * (n % 2)
    BY <1>1, SegCounts
<1>4. Width = 4 /\ HostLines = IoLine
    BY <1>2 DEF Width, HostLines
<1>5. HostLines \cap flash.oe = {}
    OBVIOUS
<1>6. LastBit <=> n % 2 = 1
    BY <1>2, <1>3, <1>4 DEF LastBit
<1> DEFINE i == (n \div 2) + 1
           b == Packed(a)[i]
<1>7. i \in {1, 2, 3, 4} /\ (((n \div 2) % 4) + 1) = i
    OBVIOUS
<1>8. b \in 0 .. 255
    BY <1>7, PackedBytes, SMTT(60)
<1>9. TxByte = b
    BY <1>3, <1>7 DEF TxByte
<1>10. n % 2 = 0 \/ n % 2 = 1
    OBVIOUS
<1>11. Nibble(Packed(a), n) = IF n % 2 = 0 THEN b \div 16 ELSE b % 16
    BY DEF Nibble
<1> HIDE DEF b, i
<1>12. HostOut = (b \div 2^(8 - Width - seg.bit)) % 2^Width
    BY <1>2, <1>9 DEF HostOut
<1>13. 2^Width = 16
    BY <1>4
<1>14. CASE n % 2 = 0
  <2>1. 2^(8 - Width - seg.bit) = 16
    <3>1. 8 - Width - seg.bit = 4
        BY <1>3, <1>4, <1>14
    <3>2. 2^4 = 16
        BY SMT
    <3> QED
        BY <3>1, <3>2, Zenon
  <2>2. HostOut = (b \div 16) % 16
      BY <1>12, <1>13, <2>1
  <2>3. (b \div 16) % 16 = b \div 16 /\ (b \div 16) + 0 = b \div 16
      BY <1>8
  <2>4. Lines = HostOut + 0
      BY <1>5 DEF Lines
  <2>5. Lines = Nibble(Packed(a), n)
      BY <1>11, <1>14, <2>2, <2>3, <2>4
  <2> QED
      BY <1>4, <1>5, <1>6, <2>5
<1>15. CASE n % 2 = 1
  <2>1. 2^(8 - Width - seg.bit) = 1
    <3>1. 8 - Width - seg.bit = 0
        BY <1>3, <1>4, <1>15
    <3>2. 2^0 = 1
        BY SMT
    <3> QED
        BY <3>1, <3>2, Zenon
  <2>2. HostOut = (b \div 1) % 16
      BY <1>12, <1>13, <2>1
  <2>3. (b \div 1) % 16 = b % 16 /\ (b % 16) + 0 = b % 16
      BY <1>8
  <2>4. Lines = HostOut + 0
      BY <1>5 DEF Lines
  <2>5. Lines = Nibble(Packed(a), n)
      BY <1>11, <1>15, <2>2, <2>3, <2>4
  <2> QED
      BY <1>4, <1>5, <1>6, <2>5
<1> QED
    BY <1>10, <1>14, <1>15

(* In the dummy and the data segment the lines are the flash's.            *)
LEMMA FlashLines ==
    ASSUME NEW a, NEW c \in {4, 5}, NEW n \in 0 .. 7, seg = SegAt(a, c, n),
           flash.dout \in 0 .. 15
    PROVE  /\ HostLines \cap flash.oe = {} /\ Lines = flash.dout
           /\ Width = 4 /\ (LastBit <=> c = 4 \/ n % 2 = 1)
<1>1. n \in 0 .. 8 /\ c \in 1 .. 5
    OBVIOUS
<1>2. seg.dir = (IF c = 4 THEN "dummy" ELSE "rx") /\ seg.speed = "quad"
  <2>1. seg.dir = Commands[c].dir /\ seg.speed = Commands[c].speed /\ seg.len = Commands[c].len
      BY <1>1, SegLemma
  <2>2. c = 4 \/ c = 5
      OBVIOUS
  <2> QED
      BY <2>1, <2>2, CommandFields
<1>3. c = 5 => seg.bit = 4 * (n % 2)
    BY <1>1, SegCounts
<1>4. Width = 4 /\ HostLines = {} /\ HostOut = 0
    BY <1>2 DEF Width, HostLines, HostOut
<1>5. Lines = flash.dout
    BY <1>4 DEF Lines
<1>6. LastBit <=> c = 4 \/ n % 2 = 1
    BY <1>2, <1>3, <1>4 DEF LastBit
<1> QED
    BY <1>4, <1>5, <1>6

(* What a clock does in command j.                                         *)
Clocking(a, p, j, n) ==
    /\ a \in Addr /\ p \in 0 .. 8 /\ n \in 0 .. 7 /\ j <= issued(p)
    /\ seg = SegAt(a, j, n) /\ FlashAt(flash, a, j, n)
    /\ txq = Window(Words(a), Taken(j, n), pushed(p))
    /\ RxAt(a, j, n)

Clocked(a, p, j, n) ==
    /\ seg' = SegAt(a, j, n + 1) /\ FlashAt(flash', a, j, n + 1)
    /\ txq' = Window(Words(a), Taken(j, n + 1), pushed(p))
    /\ RxAt(a, j, n + 1)'

(* The word of a command that sends one is at the head of the TX queue.    *)
LEMMA HeadLemma ==
    ASSUME NEW a, NEW p, NEW j \in 1 .. 3, NEW n, Clocking(a, p, j, n)
    PROVE  /\ Head(txq) = Words(a)[j]
           /\ n < 7 => txq = Window(Words(a), Taken(j, n + 1), pushed(p))
           /\ n = 7 => Tail(txq) = Window(Words(a), Taken(j, n + 1), pushed(p))
<1>1. p \in 0 .. 8 /\ n \in 0 .. 7 /\ j <= issued(p)
    BY DEF Clocking
<1>2. pushed(p) \in Nat /\ j <= pushed(p)
    BY <1>1, TableLemma
<1>3. Taken(j, n) = j - 1 /\ (n < 7 => Taken(j, n + 1) = j - 1) /\ (n = 7 => Taken(j, n + 1) = j)
    BY <1>1 DEF Taken
<1>4. txq = Window(Words(a), j - 1, pushed(p))
    BY <1>3 DEF Clocking
<1>5. j - 1 \in Nat /\ (j - 1) + 1 = j /\ j - 1 < pushed(p) /\ j - 1 <= pushed(p)
    BY <1>2
<1> DEFINE s == j - 1
<1> HIDE DEF s
<1>6. Head(txq) = Words(a)[s + 1] /\ Tail(txq) = Window(Words(a), s + 1, pushed(p))
  <2>1. s \in Nat /\ pushed(p) \in Nat /\ s <= pushed(p) /\ s < pushed(p)
      BY <1>2, <1>5 DEF s
  <2>2. txq = Window(Words(a), s, pushed(p))
      BY <1>4 DEF s
  <2> QED
      BY <2>1, <2>2, WindowLemma
<1>7. s + 1 = j
    BY <1>5 DEF s
<1> QED
    BY <1>3, <1>4, <1>6, <1>7

(* The two opcodes.                                                        *)
LEMMA OpcodeClocked ==
    ASSUME NEW a, NEW p, NEW j \in {1, 2}, NEW n, Clocking(a, p, j, n), Clock
    PROVE  Clocked(a, p, j, n)
<1>1. /\ a \in Addr /\ n \in 0 .. 7 /\ n \in 0 .. 8 /\ n + 1 \in 0 .. 8
      /\ j \in 1 .. 5 /\ j \in 1 .. 3
      /\ seg = SegAt(a, j, n) /\ FlashAt(flash, a, j, n)
    BY DEF Clocking
<1>2. SegFields(seg)
    BY <1>1, SegLemma
<1> DEFINE w == Words(a)[j][1]
<1>3. w = (IF j = 1 THEN 171 ELSE 235) /\ Head(txq)[1] = w
  <2>1. Words(a)[1][1] = 171 /\ Words(a)[2][1] = 235
      BY DEF Words
  <2>2. Head(txq) = Words(a)[j]
      BY <1>1, HeadLemma
  <2> QED
      BY <2>1, <2>2
<1>4. /\ OnIo1(flash)
      /\ j = 1 => WakeUp(flash, n)
      /\ j = 2 => Opcode(flash, n)
  <2>1. CASE j = 1
    <3>1. WakeUp(flash, n)
        BY <1>1, <2>1 DEF FlashAt
    <3> QED
        BY <2>1, <3>1 DEF WakeUp, Quiet, Typed, OnIo1
  <2>2. CASE j = 2
    <3>1. Opcode(flash, n)
        BY <1>1, <2>2 DEF FlashAt
    <3> QED
        BY <2>2, <3>1 DEF Opcode, Quiet, Typed, OnIo1
  <2> QED
      BY <2>1, <2>2
<1> HIDE DEF w
<1>5. /\ Sends(Lines, w, n)
      /\ Width = 1 /\ (LastBit <=> n = 7)
  <2>1. Head(txq)[1] \in 0 .. 255
      BY <1>3
  <2>2. Sends(Lines, Head(txq)[1], n) /\ Width = 1 /\ (LastBit <=> n = 7)
      BY <1>1, <1>4, <2>1, OpcodeLines
  <2> QED
      BY <1>3, <2>2
<1>6. /\ flash' = Period(flash, Lines) /\ SegFields(seg')
      /\ seg'.dir = seg.dir /\ seg'.speed = seg.speed
      /\ seg'.csaat = seg.csaat /\ seg'.len = seg.len
      /\ seg'.bit = (IF LastBit THEN 0 ELSE seg.bit + Width)
      /\ seg'.byte = (IF LastBit THEN seg.byte + 1 ELSE seg.byte)
      /\ seg.dir # "rx" => seg'.shift = 0 /\ rxpipe' = rxpipe
      /\ txq' = (IF seg.dir = "tx" /\ LastBit /\ (seg.byte + 1 = seg.len \/ seg.byte % 4 = 3)
                 THEN Tail(txq) ELSE txq)
    BY <1>2, ClockFields
<1>7. seg.dir = "tx" /\ seg.len = 1
  <2>1. seg.dir = Commands[j].dir /\ seg.len = Commands[j].len
      BY <1>1, SegLemma
  <2>2. j = 1 \/ j = 2
      OBVIOUS
  <2> QED
      BY <2>1, <2>2, CommandFields
<1>8. seg.byte = 0 /\ seg.bit = n
  <2>1. n \div 8 = 0 /\ n % 8 = n
      BY <1>1
  <2> QED
      BY <1>1, <2>1, SegCounts
<1>9. seg' = SegAt(a, j, n + 1)
  <2> DEFINE s == SegAt(a, j, n + 1)
  <2>1. /\ SegFields(s) /\ s.dir = seg.dir /\ s.speed = seg.speed
        /\ s.csaat = seg.csaat /\ s.len = seg.len
      BY <1>1, SegLemma
  <2>2. s.byte = (n + 1) \div 8 /\ s.bit = (n + 1) % 8 /\ s.shift = 0
      BY <1>1, SegCounts
  <2>3. seg'.byte = (n + 1) \div 8 /\ seg'.bit = (n + 1) % 8
      BY <1>1, <1>5, <1>6, <1>8
  <2> HIDE DEF s
  <2>4. seg' = s
      BY <1>6, <1>7, <2>1, <2>2, <2>3, SegEqual
  <2> QED
      BY <2>4 DEF s
<1>10. txq' = Window(Words(a), Taken(j, n + 1), pushed(p))
  <2>1. txq' = IF n = 7 THEN Tail(txq) ELSE txq
      BY <1>5, <1>6, <1>7, <1>8
  <2>2. n = 7 \/ n < 7
      BY <1>1
  <2> QED
      BY <1>1, <2>1, <2>2, HeadLemma
<1>11. FlashAt(flash', a, j, n + 1)
  <2>1. CASE j = 1
    <3>1. Lines \in 0 .. 15 /\ Lines % 2 = (171 \div 2^(7 - n)) % 2
        BY <1>3, <1>5, <2>1 DEF Sends
    <3>2. WakeUp(flash', n + 1)
        BY <1>1, <1>4, <1>5, <1>6, <2>1, <3>1, WakeClock
    <3> QED
        BY <2>1, <3>2 DEF FlashAt
  <2>2. CASE j = 2
    <3>1. Lines \in 0 .. 15 /\ Lines % 2 = (235 \div 2^(7 - n)) % 2
        BY <1>3, <1>5, <2>2 DEF Sends
    <3>2. /\ n < 7 => Opcode(flash', n + 1)
          /\ n = 7 => Address(flash', a, 0)
        BY <1>1, <1>4, <1>5, <1>6, <2>2, <3>1, OpcodeClock
    <3>3. IF n + 1 < 8 THEN Opcode(flash', n + 1) ELSE Address(flash', a, 0)
        BY <1>1, <3>2
    <3> QED
        BY <2>2, <3>3 DEF FlashAt
  <2> QED
      BY <2>1, <2>2
<1>12. RxAt(a, j, n + 1)'
  <2>1. rxpipe = <<>> /\ rxq = <<>> /\ ret = NoWord
      BY DEF Clocking, RxAt
  <2>2. rxpipe' = <<>> /\ rxq' = <<>> /\ ret' = NoWord
      BY <1>6, <1>7, <2>1 DEF Clock, cpuvars
  <2>3. j < 5
      OBVIOUS
  <2> QED
      BY <2>2, <2>3 DEF RxAt
<1> QED
    BY <1>9, <1>10, <1>11, <1>12 DEF Clocked

(* The address and the mode byte.                                          *)
LEMMA AddressClocked ==
    ASSUME NEW a, NEW p, NEW n, Clocking(a, p, 3, n), Clock
    PROVE  Clocked(a, p, 3, n)
<1>1. /\ a \in Addr /\ n \in 0 .. 7 /\ n \in 0 .. 8 /\ n + 1 \in 0 .. 8
      /\ 3 \in 1 .. 5 /\ 3 \in 1 .. 3
      /\ seg = SegAt(a, 3, n) /\ FlashAt(flash, a, 3, n)
    BY DEF Clocking
<1>2. a \in 0 .. FlashSize - 1 /\ memory(a) \in 0 .. 255
  <2>1. a \in 0 .. FlashSize - 4 /\ memory((a + 0) % FlashSize) \in 0 .. 255
    <3>1. 0 \in 0 .. 4
        OBVIOUS
    <3> QED
        BY <1>1, <3>1, ReadAssumption
  <2>2. a \in 0 .. FlashSize - 1 /\ (a + 0) % FlashSize = a
      BY <2>1, SMT DEF FlashSize
  <2> QED
      BY <2>1, <2>2
<1>3. SegFields(seg)
    BY <1>1, SegLemma
<1>4. Address(flash, a, n)
    BY <1>1 DEF FlashAt
<1>5. Head(txq) = Packed(a)
  <2>1. Words(a)[3] = Packed(a)
      BY DEF Words
  <2> QED
      BY <1>1, <2>1, HeadLemma
<1>6. Lines = Nibble(Packed(a), n) /\ Width = 4 /\ (LastBit <=> n % 2 = 1)
  <2>1. flash.oe = {} /\ flash.dout = 0
      BY <1>4 DEF Address
  <2> QED
      BY <1>1, <1>2, <1>5, <2>1, AddressLines
<1>7. /\ flash' = Period(flash, Lines) /\ SegFields(seg')
      /\ seg'.dir = seg.dir /\ seg'.speed = seg.speed
      /\ seg'.csaat = seg.csaat /\ seg'.len = seg.len
      /\ seg'.bit = (IF LastBit THEN 0 ELSE seg.bit + Width)
      /\ seg'.byte = (IF LastBit THEN seg.byte + 1 ELSE seg.byte)
      /\ seg.dir # "rx" => seg'.shift = 0 /\ rxpipe' = rxpipe
      /\ txq' = (IF seg.dir = "tx" /\ LastBit /\ (seg.byte + 1 = seg.len \/ seg.byte % 4 = 3)
                 THEN Tail(txq) ELSE txq)
    BY <1>3, ClockFields
<1>8. seg.dir = "tx" /\ seg.len = 4
    BY <1>1, SegLemma, CommandFields
<1>9. seg.byte = n \div 2 /\ seg.bit = 4 * (n % 2)
    BY <1>1, SegCounts
<1>10. seg' = SegAt(a, 3, n + 1)
  <2> DEFINE s == SegAt(a, 3, n + 1)
  <2>1. /\ SegFields(s) /\ s.dir = seg.dir /\ s.speed = seg.speed
        /\ s.csaat = seg.csaat /\ s.len = seg.len
      BY <1>1, SegLemma
  <2>2. s.byte = (n + 1) \div 2 /\ s.bit = 4 * ((n + 1) % 2) /\ s.shift = 0
      BY <1>1, SegCounts
  <2>3. seg'.byte = (n + 1) \div 2 /\ seg'.bit = 4 * ((n + 1) % 2)
    <3>1. CASE n % 2 = 1
      <4>1. seg'.bit = 0 /\ seg'.byte = n \div 2 + 1
          BY <1>6, <1>7, <1>9, <3>1
      <4>2. (n + 1) \div 2 = n \div 2 + 1 /\ 4 * ((n + 1) % 2) = 0
          BY <1>1, <3>1
      <4> QED
          BY <4>1, <4>2
    <3>2. CASE n % 2 = 0
      <4>1. ~ LastBit /\ seg.bit = 0 /\ Width = 4
          BY <1>6, <1>9, <3>2
      <4>2. seg'.bit = 4 /\ seg'.byte = n \div 2
          BY <1>7, <1>9, <4>1
      <4>3. (n + 1) \div 2 = n \div 2 /\ 4 * ((n + 1) % 2) = 4
          BY <1>1, <3>2
      <4> QED
          BY <4>2, <4>3
    <3> QED
        BY <1>1, <3>1, <3>2
  <2> HIDE DEF s
  <2>4. seg' = s
      BY <1>7, <1>8, <2>1, <2>2, <2>3, SegEqual
  <2> QED
      BY <2>4 DEF s
<1>11. txq' = Window(Words(a), Taken(3, n + 1), pushed(p))
  <2>1. LastBit /\ (seg.byte + 1 = seg.len \/ seg.byte % 4 = 3) <=> n = 7
      BY <1>1, <1>6, <1>8, <1>9
  <2>2. txq' = IF n = 7 THEN Tail(txq) ELSE txq
      BY <1>7, <1>8, <2>1
  <2>3. n = 7 \/ n < 7
      BY <1>1
  <2> QED
      BY <1>1, <2>2, <2>3, HeadLemma
<1>12. FlashAt(flash', a, 3, n + 1)
  <2>1. /\ n < 7 => Address(flash', a, n + 1)
        /\ n = 7 => Dummy(flash', a, 0)
      BY <1>1, <1>2, <1>4, <1>6, <1>7, AddressClock
  <2>2. IF n + 1 < 8 THEN Address(flash', a, n + 1) ELSE Dummy(flash', a, 0)
      BY <1>1, <2>1
  <2> QED
      BY <2>2 DEF FlashAt
<1>13. RxAt(a, 3, n + 1)'
  <2>1. rxpipe = <<>> /\ rxq = <<>> /\ ret = NoWord
      BY DEF Clocking, RxAt
  <2>2. rxpipe' = <<>> /\ rxq' = <<>> /\ ret' = NoWord
      BY <1>7, <1>8, <2>1 DEF Clock, cpuvars
  <2> QED
      BY <2>2 DEF RxAt
<1> QED
    BY <1>10, <1>11, <1>12, <1>13 DEF Clocked

(* The dummy clocks.                                                       *)
LEMMA DummyClocked ==
    ASSUME NEW a, NEW p, NEW n, Clocking(a, p, 4, n), Clock
    PROVE  Clocked(a, p, 4, n)
<1>1. /\ n \in 0 .. 7 /\ n \in 0 .. 8 /\ n + 1 \in 0 .. 8 /\ 4 \in 1 .. 5
      /\ seg = SegAt(a, 4, n) /\ FlashAt(flash, a, 4, n)
    BY DEF Clocking
<1>2. SegFields(seg)
    BY <1>1, SegLemma
<1>3. Dummy(flash, a, n)
    BY <1>1 DEF FlashAt
<1>4. Width = 4 /\ LastBit
  <2>1. flash.dout \in 0 .. 15 /\ 4 \in {4, 5}
      BY <1>3 DEF Dummy, Quiet, Typed
  <2> QED
      BY <1>1, <2>1, FlashLines
<1>5. /\ flash' = Period(flash, Lines) /\ SegFields(seg')
      /\ seg'.dir = seg.dir /\ seg'.speed = seg.speed
      /\ seg'.csaat = seg.csaat /\ seg'.len = seg.len
      /\ seg'.bit = (IF LastBit THEN 0 ELSE seg.bit + Width)
      /\ seg'.byte = (IF LastBit THEN seg.byte + 1 ELSE seg.byte)
      /\ seg.dir # "rx" => seg'.shift = 0 /\ rxpipe' = rxpipe
      /\ txq' = (IF seg.dir = "tx" /\ LastBit /\ (seg.byte + 1 = seg.len \/ seg.byte % 4 = 3)
                 THEN Tail(txq) ELSE txq)
    BY <1>2, ClockFields
<1>6. seg.dir = "dummy" /\ seg.byte = n
    BY <1>1, SegLemma, SegCounts, CommandFields
<1>7. seg' = SegAt(a, 4, n + 1)
  <2> DEFINE s == SegAt(a, 4, n + 1)
  <2>1. /\ SegFields(s) /\ s.dir = seg.dir /\ s.speed = seg.speed
        /\ s.csaat = seg.csaat /\ s.len = seg.len
      BY <1>1, SegLemma
  <2>2. s.byte = n + 1 /\ s.bit = 0 /\ s.shift = 0
      BY <1>1, SegCounts
  <2> HIDE DEF s
  <2>3. seg' = s
      BY <1>4, <1>5, <1>6, <2>1, <2>2, SegEqual
  <2> QED
      BY <2>3 DEF s
<1>8. txq' = Window(Words(a), Taken(4, n + 1), pushed(p))
  <2>1. Taken(4, n + 1) = Taken(4, n)
      BY DEF Taken
  <2> QED
      BY <1>5, <1>6, <2>1 DEF Clocking
<1>9. FlashAt(flash', a, 4, n + 1)
  <2>1. Dummy(flash', a, n + 1)
      BY <1>1, <1>3, <1>5, DummyClock
  <2> QED
      BY <2>1 DEF FlashAt
<1>10. RxAt(a, 4, n + 1)'
  <2>1. rxpipe = <<>> /\ rxq = <<>> /\ ret = NoWord
      BY DEF Clocking, RxAt
  <2>2. rxpipe' = <<>> /\ rxq' = <<>> /\ ret' = NoWord
      BY <1>5, <1>6, <2>1 DEF Clock, cpuvars
  <2> QED
      BY <2>2 DEF RxAt
<1> QED
    BY <1>7, <1>8, <1>9, <1>10 DEF Clocked

(* Bytes is a sequence.                                                    *)
LEMMA BytesSeq ==
    \A a : \A k \in Nat : /\ Bytes(a, k) \in Seq({MemoryByte(a, i) : i \in Int})
                          /\ Len(Bytes(a, k)) = k
<1> SUFFICES ASSUME NEW a, NEW k \in Nat
             PROVE  /\ Bytes(a, k) \in Seq({MemoryByte(a, i) : i \in Int})
                    /\ Len(Bytes(a, k)) = k
    OBVIOUS
<1>1. Bytes(a, k) \in [1 .. k -> {MemoryByte(a, i) : i \in Int}]
    BY DEF Bytes
<1> QED
    BY <1>1

(* One more byte of the memory.                                            *)
LEMMA BytesAppend ==
    ASSUME NEW a, NEW k \in Nat
    PROVE  Append(Bytes(a, k), MemoryByte(a, k)) = Bytes(a, k + 1)
<1> DEFINE X == {MemoryByte(a, i) : i \in Int}
           v == Bytes(a, k)
           u == Append(v, MemoryByte(a, k))
           w == Bytes(a, k + 1)
<1>1. v \in Seq(X) /\ Len(v) = k /\ w \in Seq(X) /\ Len(w) = k + 1
  <2>1. v \in [1 .. k -> X] /\ w \in [1 .. (k + 1) -> X]
      BY DEF Bytes
  <2> QED
      BY <2>1, SMTT(60)
<1>2. MemoryByte(a, k) \in X
    OBVIOUS
<1>3. /\ \A i \in 1 .. k : v[i] = MemoryByte(a, i - 1)
      /\ \A i \in 1 .. (k + 1) : w[i] = MemoryByte(a, i - 1)
    BY DEF Bytes
<1> HIDE DEF X, v, w
<1>4. /\ u \in Seq(X) /\ Len(u) = k + 1
      /\ u[k + 1] = MemoryByte(a, k) /\ \A i \in 1 .. k : u[i] = v[i]
    BY <1>1, <1>2
<1>5. \A i \in 1 .. Len(u) : u[i] = w[i]
  <2> TAKE i \in 1 .. Len(u)
  <2> HIDE DEF u
  <2>1. i \in 1 .. (k + 1)
      BY <1>4
  <2>2. CASE i = k + 1
    <3>1. i - 1 = k
        BY <2>2
    <3> QED
        BY <1>3, <1>4, <2>1, <2>2, <3>1
  <2>3. CASE i # k + 1
    <3>1. i \in 1 .. k
        BY <2>1, <2>3
    <3> QED
        BY <1>3, <1>4, <2>1, <3>1
  <2> QED
      BY <2>2, <2>3
<1> HIDE DEF u
<1>6. u = w
    BY <1>1, <1>4, <1>5, SeqEqual
<1> QED
    BY <1>6 DEF u, v, w

(* The memory holds bytes where the driver reads.                          *)
LEMMA MemoryLemma ==
    \A a \in Addr : /\ a \in Nat /\ a \in 0 .. FlashSize - 4
                    /\ \A k \in 0 .. 4 : MemoryByte(a, k) \in 0 .. 255
<1> SUFFICES ASSUME NEW a \in Addr
             PROVE  /\ a \in Nat /\ a \in 0 .. FlashSize - 4
                    /\ \A k \in 0 .. 4 : MemoryByte(a, k) \in 0 .. 255
    OBVIOUS
<1>1. a \in 0 .. FlashSize - 4
    BY ReadAssumption
<1>2. \A k \in 0 .. 4 : MemoryByte(a, k) \in 0 .. 255
    BY ReadAssumption DEF MemoryByte
<1>3. a \in Nat
    BY <1>1, SMT DEF FlashSize
<1> QED
    BY <1>1, <1>2, <1>3

(* The data.                                                               *)
LEMMA DataClocked ==
    ASSUME NEW a, NEW p, NEW n, Clocking(a, p, 5, n), Clock
    PROVE  Clocked(a, p, 5, n)
<1>1. /\ a \in Addr /\ n \in 0 .. 7 /\ n \in 0 .. 8 /\ n + 1 \in 0 .. 8 /\ 5 \in 1 .. 5
      /\ seg = SegAt(a, 5, n) /\ FlashAt(flash, a, 5, n)
    BY DEF Clocking
<1>2. SegFields(seg)
    BY <1>1, SegLemma
<1>3. Data(flash, a, n)
    BY <1>1 DEF FlashAt
<1>4. Lines = flash.dout /\ Width = 4 /\ (LastBit <=> n % 2 = 1)
  <2>1. flash.dout \in 0 .. 15 /\ 5 \in {4, 5}
      BY <1>3 DEF Data, Quiet, Typed
  <2> QED
      BY <1>1, <2>1, FlashLines
<1>5. seg.dir = "rx"
    BY <1>1, SegLemma, CommandFields
<1>6. /\ flash' = Period(flash, Lines) /\ SegFields(seg')
      /\ seg'.dir = seg.dir /\ seg'.speed = seg.speed
      /\ seg'.csaat = seg.csaat /\ seg'.len = seg.len
      /\ seg'.bit = (IF LastBit THEN 0 ELSE seg.bit + Width)
      /\ seg'.byte = (IF LastBit THEN seg.byte + 1 ELSE seg.byte)
      /\ seg'.shift = (IF LastBit THEN 0 ELSE Received)
      /\ rxpipe' = (IF LastBit THEN Append(rxpipe, Received) ELSE rxpipe)
      /\ txq' = txq
    BY <1>2, <1>4, <1>5, ClockFields
<1>7. seg.byte = n \div 2 /\ seg.bit = 4 * (n % 2)
    BY <1>1, SegCounts
<1> DEFINE k == n \div 2
           b == MemoryByte(a, k)
<1>8. k \in 0 .. 3 /\ k \in Nat /\ b \in 0 .. 255 /\ MemoryByte(a, (n + 1) \div 2) \in 0 .. 255
  <2>1. k \in 0 .. 3 /\ k \in 0 .. 4 /\ k \in Nat /\ (n + 1) \div 2 \in 0 .. 4
      BY <1>1
  <2> QED
      BY <1>1, <2>1, MemoryLemma
<1>9. a \in Nat
    BY <1>1, MemoryLemma
<1>10. rxpipe = Bytes(a, k) /\ rxq = <<>> /\ ret = NoWord /\ rxq' = <<>> /\ ret' = NoWord
  <2>1. rxpipe = Bytes(a, k) /\ rxq = <<>> /\ ret = NoWord
      BY <1>1 DEF Clocking, RxAt
  <2> QED
      BY <2>1 DEF Clock, cpuvars
<1>11. txq' = Window(Words(a), Taken(5, n + 1), pushed(p))
  <2>1. Taken(5, n + 1) = Taken(5, n)
      BY DEF Taken
  <2> QED
      BY <1>6, <2>1 DEF Clocking
<1> DEFINE s == SegAt(a, 5, n + 1)
<1>12. /\ SegFields(s) /\ s.dir = seg.dir /\ s.speed = seg.speed
       /\ s.csaat = seg.csaat /\ s.len = seg.len
    BY <1>1, SegLemma
<1>13. /\ s.byte = (n + 1) \div 2 /\ s.bit = 4 * ((n + 1) % 2)
       /\ (n + 1) % 2 = 0 => s.shift = 0
       /\ (n + 1) % 2 = 1 => s.shift = MemoryByte(a, (n + 1) \div 2) \div 16
    BY <1>1, SegCounts
<1>14. s.byte = seg'.byte /\ s.bit = seg'.bit
    BY <1>1, <1>4, <1>6, <1>7, <1>13
<1> HIDE DEF s
<1>15. CASE n \in {0, 2, 4, 6}
  <2>1. n % 2 = 0 /\ (n + 1) % 2 = 1 /\ (n + 1) \div 2 = k /\ n + 1 < 8
      BY <1>15
  <2>2. Lines = b \div 16 /\ Data(flash', a, n + 1)
    <3>1. /\ flash.dout = MemoryByte(a, n \div 2) \div 16
          /\ Data(Period(flash, flash.dout), a, n + 1)
        BY <1>3, <1>8, <1>9, <1>15, DataShift
    <3> QED
        BY <1>4, <1>6, <3>1
  <2>3. Received = b \div 16
    <3>1. seg.shift = 0
        BY <1>1, <2>1, SegCounts
    <3> HIDE DEF b
    <3> QED
        BY <1>8, <2>2, <3>1 DEF Received
  <2>4. seg' = SegAt(a, 5, n + 1)
    <3>1. s.shift = seg'.shift
        BY <1>4, <1>6, <1>13, <2>1, <2>3
    <3> QED
        BY <1>6, <1>12, <1>14, <3>1, SegEqual DEF s
  <2>5. RxAt(a, 5, n + 1)'
    <3>1. rxpipe' = Bytes(a, (n + 1) \div 2)
        BY <1>4, <1>6, <1>10, <2>1
    <3> QED
        BY <1>10, <2>1, <3>1 DEF RxAt
  <2>6. FlashAt(flash', a, 5, n + 1)
      BY <2>2 DEF FlashAt
  <2> QED
      BY <1>11, <2>4, <2>5, <2>6 DEF Clocked
<1>16. CASE n \in {1, 3, 5, 7}
  <2>1. n % 2 = 1 /\ (n + 1) % 2 = 0 /\ (n + 1) \div 2 = k + 1
      BY <1>16
  <2>2. Lines = b % 16 /\ Data(flash', a, n + 1)
    <3>1. /\ flash.dout = MemoryByte(a, n \div 2) % 16
          /\ Data(Period(flash, flash.dout), a, n + 1)
        BY <1>3, <1>8, <1>9, <1>16, DataWhole
    <3> QED
        BY <1>4, <1>6, <3>1
  <2>3. Received = b
    <3>1. seg.shift = b \div 16
        BY <1>1, <2>1, SegCounts
    <3> HIDE DEF b
    <3> QED
        BY <1>8, <2>2, <3>1 DEF Received
  <2>4. seg' = SegAt(a, 5, n + 1)
    <3>1. s.shift = seg'.shift
        BY <1>4, <1>6, <1>13, <2>1
    <3> QED
        BY <1>6, <1>12, <1>14, <3>1, SegEqual DEF s
  <2>5. RxAt(a, 5, n + 1)'
    <3>1. rxpipe' = Append(Bytes(a, k), MemoryByte(a, k))
        BY <1>4, <1>6, <1>10, <2>1, <2>3
    <3>2. rxpipe' = Bytes(a, (n + 1) \div 2)
        BY <1>8, <2>1, <3>1, BytesAppend
    <3>3. n + 1 < 8 \/ (n + 1 = 8 /\ (n + 1) \div 2 = 4)
        BY <1>16
    <3> QED
        BY <1>10, <3>2, <3>3 DEF RxAt
  <2>6. FlashAt(flash', a, 5, n + 1)
      BY <2>2 DEF FlashAt
  <2> QED
      BY <1>11, <2>4, <2>5, <2>6 DEF Clocked
<1> QED
    BY <1>1, <1>15, <1>16

(* A clock: only a segment that is not over has one.                       *)
LEMMA ClockStep ==
    ASSUME NEW a, NEW p, NEW j, NEW n, NEW kind, Before(a, p, j, n, kind), Clock
    PROVE  IInv'
<1>1. /\ a \in Addr /\ At(a, p, j, n, kind) /\ Basic
      /\ p \in 0 .. 8 /\ j \in 0 .. 5 /\ n \in 0 .. 8 /\ kind \in Kinds
    BY DEF Before
<1>2. /\ Active /\ ~ SegmentClocked
      /\ UNCHANGED <<csb, spien, error, cmdq, rxq, pc, todo, addr, ret, restarts, driver>>
    BY DEF Clock, cpuvars
<1>3. ASSUME NEW c \in 1 .. 5 PROVE seg # SegAt(a, c, 8)
  <2> DEFINE s == SegAt(a, c, 8)
  <2>1. 8 \in 0 .. 8 /\ 8 \div 8 = 1 /\ 8 \div 2 = 4
      BY SMT
  <2>2. s.len = Commands[c].len
      BY <2>1, SegLemma
  <2>3. /\ c \in {1, 2} => s.byte = 1
        /\ c \in {3, 5} => s.byte = 4
        /\ c = 4 => s.byte = 8
      BY <2>1, SegCounts
  <2> HIDE DEF s
  <2>4. c = 1 \/ c = 2 \/ c = 3 \/ c = 4 \/ c = 5
      OBVIOUS
  <2>5. s.byte = s.len
      BY <2>2, <2>3, <2>4, CommandFields
  <2> QED
      BY <1>2, <2>5 DEF SegmentClocked, s
<1>4. HostAt(kind, a, j, n) /\ j <= issued(p)
    BY <1>1 DEF At
<1>5. kind = "clock"
  <2>1. kind \in {"clock", "over"}
      BY <1>1, <1>2, <1>4, KindLemma DEF Kinds
  <2>2. kind # "over"
    <3>1. 5 \in 1 .. 5
        OBVIOUS
    <3> QED
        BY <1>3, <1>4, <3>1 DEF HostAt
  <2> QED
      BY <2>1, <2>2
<1>6. j \in 1 .. 5 /\ seg = SegAt(a, j, n) /\ ~ csb /\ FlashAt(flash, a, j, n)
    BY <1>4, <1>5 DEF HostAt
<1>7. n \in 0 .. 7 /\ n + 1 \in 0 .. 8
  <2>1. n # 8
      BY <1>3, <1>6
  <2> QED
      BY <1>1, <2>1
<1>8. Clocking(a, p, j, n)
    BY <1>1, <1>4, <1>6, <1>7 DEF At, Clocking
<1>9. Clocked(a, p, j, n)
  <2>1. j \in {1, 2} \/ j = 3 \/ j = 4 \/ j = 5
      BY <1>6
  <2> QED
      BY <1>8, <2>1, OpcodeClocked, AddressClocked, DummyClocked, DataClocked
<1>10. HostAt("clock", a, j, n + 1)'
    BY <1>2, <1>6, <1>9 DEF Clocked, HostAt
<1>11. CpuAt(a, p)'
    BY <1>1, <1>2 DEF At, CpuAt
<1>12. At(a, p, j, n + 1, "clock")'
    BY <1>1, <1>2, <1>4, <1>9, <1>10, <1>11 DEF At, Clocked
<1>13. Basic'
  <2>1. Waited'
      BY <1>1, <1>2 DEF Basic, Waited
  <2> QED
      BY <1>1, <1>2, <2>1 DEF Basic
<1>14. Before(a, p, j, n + 1, "clock")'
    BY <1>1, <1>7, <1>12, <1>13 DEF Before, Kinds
<1> QED
    BY <1>14, After

(* IInv is inductive.                                                      *)
LEMMA NextStep ==
    ASSUME IInv, [Next]_vars
    PROVE  IInv'
<1>1. PICK a \in Addr, p \in 0 .. 8, j \in 0 .. 5, n \in 0 .. 8, kind \in Kinds :
         At(a, p, j, n, kind)
    BY DEF IInv
<1>2. Before(a, p, j, n, kind)
    BY <1>1 DEF IInv, Before
<1>3. CASE Host
    BY <1>2, <1>3, StartStep, ClockStep, FinishStep, DeliverStep DEF Host
<1>4. CASE Cpu
    BY <1>2, <1>4, ResetStep, EnableStep, TransmitStep, RunCommandStep, WaitStep,
       ReceiveStep DEF Cpu
<1>5. ASSUME NEW b \in Addr, Call(b) PROVE IInv'
  <2>1. addr = NoAddr \/ ret # NoWord
      BY <1>5 DEF Call
  <2> QED
      BY <1>2, <1>5, <2>1, FirstCall, NextCall
<1>6. CASE Restart
    BY <1>2, <1>6, RestartStep
<1>7. CASE UNCHANGED vars
  <2>1. UNCHANGED <<flash, csb, spien, error, cmdq, txq, rxq, seg, rxpipe, pc, todo, addr,
                    ret, restarts, driver>>
      BY <1>7 DEF vars, hostvars, cpuvars
  <2>2. HostAt(kind, a, j, n)' /\ RxAt(a, j, n)' /\ CpuAt(a, p)'
      BY <1>1, <2>1 DEF At, HostAt, RxAt, CpuAt
  <2>3. At(a, p, j, n, kind)'
      BY <1>1, <2>1, <2>2 DEF At
  <2>4. Basic'
      BY <1>2, <2>1 DEF Before, Basic, Waited, Active
  <2>5. Before(a, p, j, n, kind)'
      BY <1>2, <2>3, <2>4 DEF Before
  <2> QED
      BY <2>5, After
<1> QED
    BY <1>3, <1>4, <1>5, <1>6, <1>7 DEF Next

(* The invariant holds of every state.                                     *)
THEOREM Invariance == Spec => []IInv
<1>1. Init => IInv
    BY InitStep
<1>2. IInv /\ [Next]_vars => IInv'
    BY NextStep
<1> QED
    BY <1>1, <1>2, PTL DEF Spec
-----------------------------------------------------------------------------
(* Where both sides drive, they drive different lines.                     *)
LEMMA LinesApart ==
    ASSUME NEW a, NEW c \in 1 .. 5, NEW n \in 0 .. 8, FlashAt(flash, a, c, n),
           seg.dir = Commands[c].dir, seg.speed = Commands[c].speed
    PROVE  HostLines \cap flash.oe = {}
<1>1. CASE c = 1
  <2>1. HostLines = {0}
      BY <1>1, CommandFields DEF HostLines
  <2>2. flash.oe \subseteq {1}
      BY <1>1 DEF FlashAt, WakeUp
  <2> QED
      BY <2>1, <2>2
<1>2. CASE c = 2
  <2>1. HostLines = {0}
      BY <1>2, CommandFields DEF HostLines
  <2>2. flash.oe \subseteq {1}
      BY <1>2 DEF FlashAt, Opcode, Address
  <2> QED
      BY <2>1, <2>2
<1>3. CASE c = 3
  <2>1. flash.oe = {}
      BY <1>3 DEF FlashAt, Address, Dummy
  <2> QED
      BY <2>1
<1>4. CASE c \in {4, 5}
  <2>1. HostLines = {}
    <3>1. seg.dir # "tx"
        BY <1>4, CommandFields
    <3> QED
        BY <3>1 DEF HostLines
  <2> QED
      BY <2>1
<1> QED
    BY <1>1, <1>2, <1>3, <1>4

(* What the invariant gives.                                               *)
LEMMA Consequences ==
    ASSUME IInv
    PROVE  TypeOK /\ ReadsMemory /\ NoHostError /\ NoContention
<1>1. PICK a \in Addr, p \in 0 .. 8, j \in 0 .. 5, n \in 0 .. 8, kind \in Kinds :
         At(a, p, j, n, kind)
    BY DEF IInv
<1>2. /\ HostAt(kind, a, j, n) /\ j <= issued(p) /\ RxAt(a, j, n) /\ CpuAt(a, p)
      /\ txq = Window(Words(a), Taken(j, n), pushed(p))
    BY <1>1 DEF At
<1>3. Basic
    BY DEF IInv
<1>4. NoHostError
    BY <1>3 DEF Basic, NoHostError
<1>5. TypeOK
  <2>1. flash \in FlashState
    <3>1. Typed(flash)
        BY <1>1, <1>2, HostQuiet DEF Quiet
    <3> QED
        BY <3>1, TypedLemma
  <2>2. Len(txq) <= 3
    <3>1. j = 0 => n = 8
        BY <1>2 DEF HostAt
    <3>2. Taken(j, n) \in 0 .. 3 /\ Taken(j, n) <= pushed(p)
        BY <1>1, <1>2, <3>1, TakenLemma
    <3>3. pushed(p) \in 0 .. 3
        BY <1>1, TableLemma
    <3>4. Taken(j, n) \in Nat /\ pushed(p) \in Nat
        BY <3>2, <3>3
    <3>5. Len(txq) = pushed(p) - Taken(j, n)
        BY <1>2, <3>2, <3>4, WindowSeq
    <3> QED
        BY <3>2, <3>3, <3>5
  <2>3. Len(rxq) <= 1 /\ Len(rxpipe) <= 4
    <3>1. \A k \in Nat : Len(Bytes(a, k)) = k
        BY DEF Bytes
    <3>2. n \div 2 \in Nat /\ n \div 2 <= 4
        BY <1>1
    <3>3. rxpipe = <<>> \/ rxpipe = Bytes(a, n \div 2) \/ rxpipe = Bytes(a, 4)
        BY <1>2 DEF RxAt
    <3>4. Len(rxpipe) <= 4
      <4>1. CASE rxpipe = <<>>
          BY <4>1
      <4>2. CASE rxpipe = Bytes(a, n \div 2)
          BY <3>1, <3>2, <4>2
      <4>3. CASE rxpipe = Bytes(a, 4)
          BY <3>1, <4>3
      <4> QED
          BY <3>3, <4>1, <4>2, <4>3
    <3>5. rxq = <<>> \/ rxq = <<Bytes(a, 4)>>
        BY <1>2 DEF RxAt
    <3>6. Len(rxq) = 0 \/ Len(rxq) = 1
      <4>1. \A x : Len(<<x>>) = 1
          OBVIOUS
      <4>2. Len(<<>>) = 0
          OBVIOUS
      <4> QED
          BY <3>5, <4>1, <4>2, Zenon
    <3>7. Len(rxq) <= 1
      <4>1. 0 <= 1 /\ 1 <= 1
          OBVIOUS
      <4> QED
          BY <3>6, <4>1, Zenon
    <3> QED
        BY <3>4, <3>7
  <2>4. pc \in {"reset", "enable", "run", "wait"} /\ addr \in Addr \cup {NoAddr}
      BY <1>1, <1>2 DEF CpuAt
  <2>5. /\ csb \in BOOLEAN /\ spien \in BOOLEAN /\ error \in BOOLEAN
        /\ Len(cmdq) <= CmdDepth /\ restarts \in 0 .. MaxRestarts
      BY <1>3 DEF Basic
  <2> QED
      BY <2>1, <2>2, <2>3, <2>4, <2>5 DEF TypeOK
<1>6. ReadsMemory
  <2> SUFFICES ASSUME ret # NoWord
               PROVE  ret = <<memory(addr), memory(addr + 1),
                              memory(addr + 2), memory(addr + 3)>>
      BY DEF ReadsMemory
  <2>1. j = 5 /\ ret = Bytes(a, 4)
      BY <1>2 DEF RxAt
  <2>2. p = 8
    <3>1. issued(p) \in 0 .. 5
        BY <1>1, TableLemma
    <3>2. issued(p) = 5
        BY <1>2, <2>1, <3>1
    <3> QED
        BY <1>1, <3>2, TableLemma
  <2>3. addr = a
      BY <1>2, <2>2 DEF CpuAt
  <2>4. ret = <<MemoryByte(a, 0), MemoryByte(a, 1), MemoryByte(a, 2), MemoryByte(a, 3)>>
    <3> DEFINE X == {MemoryByte(a, i) : i \in Int}
               v == Bytes(a, 4)
               w == <<MemoryByte(a, 0), MemoryByte(a, 1), MemoryByte(a, 2), MemoryByte(a, 3)>>
    <3>1. v \in Seq(X) /\ Len(v) = 4
      <4>1. 4 \in Nat
          OBVIOUS
      <4> QED
          BY <4>1, BytesSeq, Zenon
    <3>2. w \in Seq(X) /\ Len(w) = 4
        OBVIOUS
    <3>3. \A i \in 1 .. 4 : v[i] = MemoryByte(a, i - 1)
        BY DEF Bytes
    <3>4. /\ w[1] = MemoryByte(a, 0) /\ w[2] = MemoryByte(a, 1)
          /\ w[3] = MemoryByte(a, 2) /\ w[4] = MemoryByte(a, 3)
        OBVIOUS
    <3> HIDE DEF X, v, w
    <3>5. \A i \in 1 .. 4 : v[i] = w[i]
      <4> TAKE i \in 1 .. 4
      <4>1. v[i] = MemoryByte(a, i - 1)
          BY <3>3
      <4>2. i = 1 \/ i = 2 \/ i = 3 \/ i = 4
          OBVIOUS
      <4>3. 1 - 1 = 0 /\ 2 - 1 = 1 /\ 3 - 1 = 2 /\ 4 - 1 = 3
          OBVIOUS
      <4> QED
          BY <3>4, <4>1, <4>2, <4>3, Zenon
    <3>6. v = w
        BY <3>1, <3>2, <3>5, SeqEqual
    <3> QED
        BY <2>1, <3>6 DEF v, w
  <2>5. /\ (a + 0) % FlashSize = a /\ (a + 1) % FlashSize = a + 1
        /\ (a + 2) % FlashSize = a + 2 /\ (a + 3) % FlashSize = a + 3
    <3>1. a \in 0 .. FlashSize - 4
        BY <1>1, MemoryLemma
    <3> QED
        BY <3>1, SMT DEF FlashSize
  <2> QED
      BY <2>3, <2>4, <2>5 DEF MemoryByte
<1>7. NoContention
  <2>1. CASE kind = "rest"
      BY <1>2, <2>1 DEF HostAt, NoContention
  <2>2. CASE kind = "clock"
    <3>1. j \in 1 .. 5 /\ seg = SegAt(a, j, n) /\ FlashAt(flash, a, j, n)
        BY <1>2, <2>2 DEF HostAt
    <3>2. seg.dir = Commands[j].dir /\ seg.speed = Commands[j].speed
        BY <1>1, <3>1, SegLemma
    <3> QED
        BY <1>1, <3>1, <3>2, LinesApart DEF NoContention
  <2>3. CASE kind = "held"
    <3>1. j \in 1 .. 5 /\ seg = HeldSeg(j) /\ FlashAt(flash, a, j, n)
        BY <1>2, <2>3 DEF HostAt
    <3>2. seg.dir = Commands[j].dir /\ seg.speed = Commands[j].speed
        BY <3>1, HeldLemma
    <3> QED
        BY <1>1, <3>1, <3>2, LinesApart DEF NoContention
  <2>4. CASE kind = "over"
    <3>1. seg = SegAt(a, 5, 8) /\ 5 \in 1 .. 5 /\ 8 \in 0 .. 8
        BY <1>2, <2>4 DEF HostAt
    <3>2. seg.dir = "rx"
        BY <3>1, SegLemma, CommandFields
    <3>3. HostLines = {}
        BY <3>2 DEF HostLines
    <3> QED
        BY <3>3 DEF NoContention
  <2> QED
      BY <1>1, <2>1, <2>2, <2>3, <2>4 DEF Kinds
<1> QED
    BY <1>4, <1>5, <1>6, <1>7

(* Type correctness; no queue of the host runs over, whatever its depth.   *)
THEOREM TypeCorrect == Spec => []TypeOK
BY Invariance, Consequences, PTL

(* flash_read_word returns the bytes of the flash at its address, for      *)
(* every content of the flash, every relative speed of the CPU and the     *)
(* host, and any number of restarts of the program at any point.           *)
THEOREM ReadsAreRight == Spec => []ReadsMemory
BY Invariance, Consequences, PTL

(* No access of the driver raises an error of the host: it pushes into no  *)
(* full queue and reads no empty one, though simulate_flash does not look. *)
THEOREM NoErrorRaised == Spec => []NoHostError
BY Invariance, Consequences, PTL

(* The host and the flash never drive the same line against each other.    *)
THEOREM LinesAreSafe == Spec => []NoContention
BY Invariance, Consequences, PTL
-----------------------------------------------------------------------------
(* The flash under a master that keeps to the protocol.  A read command c  *)
(* takes a header of Hd(c) bytes, Wide(c) bits at a time.                  *)
Plain(f) == Typed(f) /\ f.xip_cmd = 0

Hd(c) == IF c = READ_STD THEN 3 ELSE 4

Wide(c) == IF c = READ_STD THEN 1 ELSE IF c = READ_DUAL THEN 2 ELSE 4

RdMode(c) == IF c = READ_STD THEN "spi" ELSE IF c = READ_DUAL THEN "dspi_rd"
             ELSE IF c = READ_QUAD THEN "qspi_rd" ELSE "qspi_ddr_rd"

WrMode(c) == IF c = READ_STD THEN "spi" ELSE IF c = READ_DUAL THEN "dspi_wr"
             ELSE IF c = READ_QUAD THEN "qspi_wr" ELSE "qspi_ddr_wr"

(* The bytes of the header of a read at a.                                 *)
Part(a, j) == IF j = 0 THEN a \div 2^16 ELSE IF j = 1 THEN (a \div 2^8) % 2^8
              ELSE IF j = 2 THEN a % 2^8 ELSE 0

(* The low k bits of a word, the rest of it, and w bits x put behind it.   *)
Low(x, k) == x % 2^k

High(x, k) == x \div 2^k

Push(x, w, y) == (2^w * x + y) % 256

Digits(w) == 0 .. (2^w - 1)

(* The buffer x has the first b bits of a byte y at its low end,           *)
BitsAreIn(x, y, b) == Low(x, b) = High(y, 8 - b)

(* or the others at its high end.                                          *)
BitsAreOut(x, y, b) == High(x, b) = Low(y, 8 - b)

(* K bytes after the opcode and b bits of the next are in: of the header,  *)
HeaderIn(f, a, K, b) ==
    /\ BitsAreIn(f.buffer, Part(a, K), b)
    /\ K >= 1 => HighIs(f.spi_addr, Part(a, 0))
    /\ K >= 2 => MiddleIs(f.spi_addr, Part(a, 0), Part(a, 1))
    /\ K >= 3 => f.spi_addr = a

(* or, after it, b bits of byte j of the memory have gone out.             *)
MemoryOut(f, a, j, b) ==
    /\ BitsAreOut(f.buffer, MemoryByte(a, j), b)
    /\ f.spi_addr = (a + j + 1) % FlashSize

ReadAt(f, c, a, K, b) ==
    /\ Plain(f) /\ f.powered_up /\ f.spi_cmd = c
    /\ f.bytecount = K + 1 /\ f.bitcount = b
    /\ K < Hd(c) => HeaderIn(f, a, K, b)
    /\ K >= Hd(c) => MemoryOut(f, a, K - Hd(c), b)

(* A read after G bits of what follows the opcode.                         *)
ReadBits(f, c, a, G) == ReadAt(f, c, a, G \div 8, G % 8)

(* After e edges of a read: the bits shifted since the opcode, and the     *)
(* dummy clocks left.                                                      *)
Rises(e) == ((e + 1) \div 2) - 8

Got(c, e) ==
    IF c = READ_STD THEN Rises(e)
    ELSE IF c = READ_DUAL
         THEN IF Rises(e) <= 16 THEN 2 * Rises(e)
              ELSE IF Rises(e) <= 24 THEN 32 ELSE 2 * (Rises(e) - 8)
    ELSE IF c = READ_QUAD
         THEN IF Rises(e) <= 8 THEN 4 * Rises(e)
              ELSE IF Rises(e) <= 16 THEN 32 ELSE 4 * (Rises(e) - 8)
    ELSE IF e <= 16 THEN 0 ELSE IF e <= 24 THEN 4 * (e - 16)
         ELSE IF e <= 39 THEN 32 ELSE 4 * (e - 31)

(* How many rises since the opcode the header takes; eight dummies follow. *)
Turned(c) == IF c = READ_STD THEN 24 ELSE IF c = READ_DUAL THEN 16
             ELSE IF c = READ_QUAD THEN 8 ELSE 4

Left(c, e) ==
    IF c = READ_STD \/ e < 2 * (Turned(c) + 8) - (IF c = READ_DDR THEN 0 ELSE 1)
       \/ Rises(e) > Turned(c) + 8
    THEN 0 ELSE Turned(c) + 8 - Rises(e)

(* The edge from which data is on the lines.                               *)
FirstOut(c) == IF c = READ_STD THEN 64 ELSE 2 * (Turned(c) + 16)

(* The lines: the master's in the header, nobody's in the dummy clocks.    *)
LinesAt(f, c, a, e) ==
    IF e = 15 THEN f.oe = {1} /\ f.dout = 0
    ELSE IF c = READ_STD
         THEN /\ f.oe = {1} /\ f.dout \in {0, 2}
              /\ e % 2 = 0 => f.dout = 2 * (f.buffer \div 128)
    ELSE IF e < FirstOut(c) THEN f.oe = {} /\ f.dout = 0
    ELSE IF c = READ_DDR
         THEN /\ f.oe = IoLine
              /\ f.dout = IF e % 2 = 0 THEN MemoryByte(a, (e - 40) \div 2) \div 16
                          ELSE MemoryByte(a, (e - 40) \div 2) % 16
    ELSE /\ f.oe = 0 .. Wide(c) - 1
         /\ c = READ_DUAL => f.dout \in 0 .. 3 /\ (e % 2 = 0 => f.dout = f.buffer \div 64)
         /\ c = READ_QUAD /\ e % 2 = 0 => f.dout = f.buffer \div 16

(* A read c at a, after e edges.                                           *)
ReadState(f, c, a, e) ==
    /\ ReadBits(f, c, a, Got(c, e))
    /\ f.dummycount = Left(c, e)
    /\ IF c = READ_DDR /\ e = 15 THEN f.mode = "spi" /\ f.next_mode = "qspi_ddr_rd"
       ELSE /\ f.next_mode = "none"
            /\ f.mode = IF Got(c, e) < 8 * Hd(c) THEN RdMode(c) ELSE WrMode(c)
    /\ LinesAt(f, c, a, e)

(* The first n bits of an opcode, as the buffer has them.                  *)
FirstBits(x, n) == x \div 2^(8 - n)

(* After n bits of an opcode c,                                            *)
OpcodeIn(f, c, n) ==
    /\ Quiet(f) /\ f.dummycount = 0
    /\ f.mode = "spi" /\ f.oe = {1} /\ f.dout = 0
    /\ f.bitcount = n /\ f.bytecount = 0
    /\ f.buffer = FirstBits(c, n)

(* and after the whole of one that is no read.                             *)
OrderIn(f, c) ==
    /\ Quiet(f) /\ f.dummycount = 0
    /\ f.mode = "spi" /\ f.oe = {1}
    /\ f.powered_up = (c = POWER_UP)

(* The opcodes that are no reads.                                          *)
Orders == {POWER_UP, POWER_DOWN}

(* No read goes on beyond its last byte.                                   *)
Last(c) ==
    IF c \in Orders THEN 16
    ELSE FirstOut(c) + (IF c = READ_STD THEN 16 ELSE IF c = READ_DUAL THEN 8
                        ELSE IF c = READ_QUAD THEN 4 ELSE 2) * MaxBytes

(* The inductive invariant: the flash is where the edges put it.           *)
ProtocolInv ==
    /\ op \in {0} \cup Reads \cup Orders /\ edge \in Nat /\ awake \in BOOLEAN
    /\ op = 0 => /\ start = 0 /\ edge = 0
                 /\ Resting(chip) /\ chip.dummycount = 0 /\ chip.powered_up = awake
    /\ op # 0 => /\ edge <= Last(op)
                 /\ edge <= 14 => /\ OpcodeIn(chip, op, (edge + 1) \div 2)
                                  /\ chip.powered_up = awake
    /\ op \in Reads => /\ awake /\ start \in Starts
                       /\ edge >= 15 => ReadState(chip, op, start, edge)
    /\ op \in Orders /\ edge >= 15 => OrderIn(chip, op)

-----------------------------------------------------------------------------
(* Taking bits w at a time, the next begins after b bits of a byte.        *)
Fits(w, b) == \/ w = 1 /\ b \in 0 .. 7
              \/ w = 2 /\ b \in {0, 2, 4, 6}
              \/ w = 4 /\ b \in {0, 4}

(* Taking w bits from a byte,                                              *)
LEMMA ByteBits ==
    ASSUME NEW w, NEW b, Fits(w, b), NEW byte \in 0 .. 255
    PROVE  /\ Slice(byte, b, w) \in Digits(w)
           /\ High(byte, 8 - (b + w)) = 2^w * High(byte, 8 - b) + Slice(byte, b, w)
           /\ High(Low(byte, 8 - b), 8 - (b + w)) = Slice(byte, b, w)
           /\ Low(Low(byte, 8 - b), 8 - (b + w)) = Low(byte, 8 - (b + w))
<1>1. CASE w = 1 /\ b = 0 BY <1>1, SMT DEF Slice, Low, High, Digits
<1>2. CASE w = 1 /\ b = 1 BY <1>2, SMT DEF Slice, Low, High, Digits
<1>3. CASE w = 1 /\ b = 2 BY <1>3, SMT DEF Slice, Low, High, Digits
<1>4. CASE w = 1 /\ b = 3 BY <1>4, SMT DEF Slice, Low, High, Digits
<1>5. CASE w = 1 /\ b = 4 BY <1>5, SMT DEF Slice, Low, High, Digits
<1>6. CASE w = 1 /\ b = 5 BY <1>6, SMT DEF Slice, Low, High, Digits
<1>7. CASE w = 1 /\ b = 6 BY <1>7, SMT DEF Slice, Low, High, Digits
<1>8. CASE w = 1 /\ b = 7 BY <1>8, SMT DEF Slice, Low, High, Digits
<1>9. CASE w = 2 /\ b = 0 BY <1>9, SMT DEF Slice, Low, High, Digits
<1>10. CASE w = 2 /\ b = 2 BY <1>10, SMT DEF Slice, Low, High, Digits
<1>11. CASE w = 2 /\ b = 4 BY <1>11, SMT DEF Slice, Low, High, Digits
<1>12. CASE w = 2 /\ b = 6 BY <1>12, SMT DEF Slice, Low, High, Digits
<1>13. CASE w = 4 /\ b = 0 BY <1>13, SMT DEF Slice, Low, High, Digits
<1>14. CASE w = 4 /\ b = 4 BY <1>14, SMT DEF Slice, Low, High, Digits
<1> QED
    BY <1>1, <1>2, <1>3, <1>4, <1>5, <1>6, <1>7, <1>8, <1>9, <1>10,
       <1>11, <1>12, <1>13, <1>14 DEF Fits

(* and shifting w bits into a buffer: what is at its low end then,         *)
LEMMA PushLow ==
    ASSUME NEW w, NEW b, Fits(w, b), NEW buffer \in 0 .. 255, NEW x \in Digits(w)
    PROVE  Low(Push(buffer, w, x), b + w) = 2^w * Low(buffer, b) + x
<1>1. CASE w = 1 /\ b = 0 BY <1>1, SMT DEF Low, Push, Digits
<1>2. CASE w = 1 /\ b = 1 BY <1>2, SMT DEF Low, Push, Digits
<1>3. CASE w = 1 /\ b = 2 BY <1>3, SMT DEF Low, Push, Digits
<1>4. CASE w = 1 /\ b = 3 BY <1>4, SMT DEF Low, Push, Digits
<1>5. CASE w = 1 /\ b = 4 BY <1>5, SMT DEF Low, Push, Digits
<1>6. CASE w = 1 /\ b = 5 BY <1>6, SMT DEF Low, Push, Digits
<1>7. CASE w = 1 /\ b = 6 BY <1>7, SMT DEF Low, Push, Digits
<1>8. CASE w = 1 /\ b = 7 BY <1>8, SMT DEF Low, Push, Digits
<1>9. CASE w = 2 /\ b = 0 BY <1>9, SMT DEF Low, Push, Digits
<1>10. CASE w = 2 /\ b = 2 BY <1>10, SMT DEF Low, Push, Digits
<1>11. CASE w = 2 /\ b = 4 BY <1>11, SMT DEF Low, Push, Digits
<1>12. CASE w = 2 /\ b = 6 BY <1>12, SMT DEF Low, Push, Digits
<1>13. CASE w = 4 /\ b = 0 BY <1>13, SMT DEF Low, Push, Digits
<1>14. CASE w = 4 /\ b = 4 BY <1>14, SMT DEF Low, Push, Digits
<1> QED
    BY <1>1, <1>2, <1>3, <1>4, <1>5, <1>6, <1>7, <1>8, <1>9, <1>10,
       <1>11, <1>12, <1>13, <1>14 DEF Fits

(* and at its high one.                                                    *)
LEMMA PushHigh ==
    ASSUME NEW w, NEW b, Fits(w, b), NEW buffer \in 0 .. 255, NEW x \in Digits(w)
    PROVE  High(Push(buffer, w, x), b + w) = Low(High(buffer, b), 8 - (b + w))
<1>1. CASE w = 1 /\ b = 0 BY <1>1, SMT DEF Low, High, Push, Digits
<1>2. CASE w = 1 /\ b = 1 BY <1>2, SMT DEF Low, High, Push, Digits
<1>3. CASE w = 1 /\ b = 2 BY <1>3, SMT DEF Low, High, Push, Digits
<1>4. CASE w = 1 /\ b = 3 BY <1>4, SMT DEF Low, High, Push, Digits
<1>5. CASE w = 1 /\ b = 4 BY <1>5, SMT DEF Low, High, Push, Digits
<1>6. CASE w = 1 /\ b = 5 BY <1>6, SMT DEF Low, High, Push, Digits
<1>7. CASE w = 1 /\ b = 6 BY <1>7, SMT DEF Low, High, Push, Digits
<1>8. CASE w = 1 /\ b = 7 BY <1>8, SMT DEF Low, High, Push, Digits
<1>9. CASE w = 2 /\ b = 0 BY <1>9, SMT DEF Low, High, Push, Digits
<1>10. CASE w = 2 /\ b = 2 BY <1>10, SMT DEF Low, High, Push, Digits
<1>11. CASE w = 2 /\ b = 4 BY <1>11, SMT DEF Low, High, Push, Digits
<1>12. CASE w = 2 /\ b = 6 BY <1>12, SMT DEF Low, High, Push, Digits
<1>13. CASE w = 4 /\ b = 0 BY <1>13, SMT DEF Low, High, Push, Digits
<1>14. CASE w = 4 /\ b = 4 BY <1>14, SMT DEF Low, High, Push, Digits
<1> QED
    BY <1>1, <1>2, <1>3, <1>4, <1>5, <1>6, <1>7, <1>8, <1>9, <1>10,
       <1>11, <1>12, <1>13, <1>14 DEF Fits

(* The top of a buffer is the top of what is left of its byte.             *)
LEMMA TopBits ==
    ASSUME NEW w, NEW b, Fits(w, b), NEW buffer \in 0 .. 255
    PROVE  High(buffer, 8 - w) = High(High(buffer, b), 8 - (b + w))
<1>1. CASE w = 1 /\ b = 0 BY <1>1, SMT DEF High
<1>2. CASE w = 1 /\ b = 1 BY <1>2, SMT DEF High
<1>3. CASE w = 1 /\ b = 2 BY <1>3, SMT DEF High
<1>4. CASE w = 1 /\ b = 3 BY <1>4, SMT DEF High
<1>5. CASE w = 1 /\ b = 4 BY <1>5, SMT DEF High
<1>6. CASE w = 1 /\ b = 5 BY <1>6, SMT DEF High
<1>7. CASE w = 1 /\ b = 6 BY <1>7, SMT DEF High
<1>8. CASE w = 1 /\ b = 7 BY <1>8, SMT DEF High
<1>9. CASE w = 2 /\ b = 0 BY <1>9, SMT DEF High
<1>10. CASE w = 2 /\ b = 2 BY <1>10, SMT DEF High
<1>11. CASE w = 2 /\ b = 4 BY <1>11, SMT DEF High
<1>12. CASE w = 2 /\ b = 6 BY <1>12, SMT DEF High
<1>13. CASE w = 4 /\ b = 0 BY <1>13, SMT DEF High
<1>14. CASE w = 4 /\ b = 4 BY <1>14, SMT DEF High
<1> QED
    BY <1>1, <1>2, <1>3, <1>4, <1>5, <1>6, <1>7, <1>8, <1>9, <1>10,
       <1>11, <1>12, <1>13, <1>14 DEF Fits

(* A buffer stays a byte.                                                  *)
LEMMA PushByte ==
    ASSUME NEW w, NEW b, Fits(w, b), NEW buffer \in 0 .. 255, NEW x \in Digits(w)
    PROVE  Push(buffer, w, x) \in 0 .. 255
<1>1. CASE w = 1 BY <1>1, SMT DEF Push, Digits
<1>2. CASE w = 2 BY <1>2, SMT DEF Push, Digits
<1>3. CASE w = 4 BY <1>3, SMT DEF Push, Digits
<1> QED
    BY <1>1, <1>2, <1>3 DEF Fits

(* w more bits of a byte go into the buffer,                               *)
LEMMA BitsIn ==
    ASSUME NEW byte \in 0 .. 255, NEW buffer \in 0 .. 255, NEW w, NEW b, Fits(w, b),
           BitsAreIn(buffer, byte, b), NEW x, x = Slice(byte, b, w),
           NEW n, n = Push(buffer, w, x)
    PROVE  n \in 0 .. 255 /\ BitsAreIn(n, byte, b + w)
<1>1. /\ x \in Digits(w)
      /\ High(byte, 8 - (b + w)) = 2^w * High(byte, 8 - b) + x
    BY ByteBits
<1>2. Low(n, b + w) = 2^w * Low(buffer, b) + x
    BY <1>1, PushLow
<1>3. n \in 0 .. 255
    BY <1>1, PushByte, ZenonT(60)
<1>4. Low(n, b + w) = High(byte, 8 - (b + w))
    BY <1>1, <1>2 DEF BitsAreIn
<1> QED
    BY <1>3, <1>4 DEF BitsAreIn

(* until all are,                                                          *)
LEMMA AllIn ==
    ASSUME NEW byte \in 0 .. 255, NEW n \in 0 .. 255, BitsAreIn(n, byte, 8)
    PROVE  n = byte
BY SMTT(60) DEF BitsAreIn, Low, High

(* or out of it, whatever comes in behind.                                 *)
LEMMA BitsOut ==
    ASSUME NEW byte \in 0 .. 255, NEW buffer \in 0 .. 255, NEW w, NEW b, Fits(w, b),
           BitsAreOut(buffer, byte, b), NEW x \in Digits(w),
           NEW n, n = Push(buffer, w, x)
    PROVE  n \in 0 .. 255 /\ BitsAreOut(n, byte, b + w)
<1>1. Low(Low(byte, 8 - b), 8 - (b + w)) = Low(byte, 8 - (b + w))
    BY ByteBits
<1>2. High(n, b + w) = Low(High(buffer, b), 8 - (b + w))
    BY PushHigh
<1>3. n \in 0 .. 255
    BY PushByte, ZenonT(60)
<1> QED
    BY <1>1, <1>2, <1>3 DEF BitsAreOut

(* What goes out is the next bits of the byte.                             *)
LEMMA BitsShown ==
    ASSUME NEW byte \in 0 .. 255, NEW buffer \in 0 .. 255, NEW w, NEW b, Fits(w, b),
           BitsAreOut(buffer, byte, b)
    PROVE  High(buffer, 8 - w) = Slice(byte, b, w)
<1>1. High(Low(byte, 8 - b), 8 - (b + w)) = Slice(byte, b, w)
    BY ByteBits
<1>2. High(buffer, 8 - w) = High(High(buffer, b), 8 - (b + w))
    BY TopBits
<1> QED
    BY <1>1, <1>2 DEF BitsAreOut

-----------------------------------------------------------------------------
(* What shifting leaves alone: the lines and the modes.                    *)
Same(f, g) == /\ g.oe = f.oe /\ g.dout = f.dout /\ g.next_mode = f.next_mode

(* Bits that do not end a byte are counted, whatever their number.         *)
LEMMA PushPart ==
    ASSUME NEW f, Plain(f), NEW w, NEW x, NEW n, n = Push(f.buffer, w, x),
           n \in 0 .. 255, w \in 1 .. 4, f.bitcount + w < 8,
           NEW g, g = ShiftIn(f, x, w)
    PROVE  /\ Plain(g) /\ Same(f, g) /\ g.buffer = n
           /\ g.bitcount = f.bitcount + w /\ g.bytecount = f.bytecount
           /\ g.dummycount = f.dummycount /\ g.spi_cmd = f.spi_cmd
           /\ g.spi_addr = f.spi_addr /\ g.powered_up = f.powered_up
           /\ g.mode = f.mode
<1>0. Registers(f) /\ f.bitcount \in 0 .. 7 /\ f.bytecount \in Nat
    BY DEF Plain, Typed
<1> DEFINE h == [f EXCEPT !.buffer = n]
<1>1. g = [h EXCEPT !.bitcount = @ + w]
  <2>1. f.bitcount + w # 8
      BY <1>0
  <2> QED
      BY <2>1 DEF ShiftIn, Push
<1>2. Registers(h) /\ Registers(g) /\ h.bitcount = f.bitcount
    BY <1>0, <1>1 DEF Registers
<1>3. /\ g.buffer = n /\ g.bitcount = f.bitcount + w
      /\ g.bytecount = f.bytecount /\ g.spi_cmd = f.spi_cmd
      /\ g.dummycount = f.dummycount
      /\ g.spi_addr = f.spi_addr /\ g.powered_up = f.powered_up
      /\ g.mode = f.mode /\ g.xip_cmd = f.xip_cmd /\ g.next_mode = f.next_mode
      /\ g.oe = f.oe /\ g.dout = f.dout
    BY <1>0, <1>1, <1>2, ZenonT(60) DEF Registers
<1>4. f.bitcount + w \in 0 .. 7
    BY <1>0
<1>5. Plain(g)
    BY <1>2, <1>3, <1>4 DEF Plain, Typed
<1> QED
    BY <1>3, <1>5 DEF Same

(* Bits that end a byte make the flash act on it.                          *)
Ends(f, w) == f.bitcount + w = 8

(* So the byte is acted on at once, and nothing else has changed.          *)
LEMMA PushWhole ==
    ASSUME NEW f, Plain(f), NEW w, NEW x, NEW n, n = Push(f.buffer, w, x),
           n \in 0 .. 255, Ends(f, w), NEW h, h = Whole(f, n)
    PROVE  /\ ShiftIn(f, x, w) = spi_action(h)
           /\ Plain(h) /\ Same(f, h) /\ h.buffer = n
           /\ h.bitcount = 0 /\ h.bytecount = f.bytecount + 1
           /\ h.dummycount = f.dummycount /\ h.spi_cmd = f.spi_cmd
           /\ h.spi_addr = f.spi_addr /\ h.powered_up = f.powered_up
           /\ h.mode = f.mode
<1>0. Registers(f) /\ f.bitcount \in 0 .. 7 /\ f.bytecount \in Nat
    BY DEF Plain, Typed
<1> DEFINE k == [f EXCEPT !.buffer = n]
<1>1. ShiftIn(f, x, w) = spi_action(h)
    BY <1>0 DEF Ends, ShiftIn, Push, Whole
<1>2. Registers(k) /\ Registers(h)
    BY <1>0 DEF Registers, Whole
<1>3. /\ h.buffer = n /\ h.bitcount = 0
      /\ h.bytecount = f.bytecount + 1 /\ h.spi_cmd = f.spi_cmd
      /\ h.dummycount = f.dummycount
      /\ h.spi_addr = f.spi_addr /\ h.powered_up = f.powered_up
      /\ h.mode = f.mode /\ h.xip_cmd = f.xip_cmd /\ h.next_mode = f.next_mode
      /\ h.oe = f.oe /\ h.dout = f.dout
    BY <1>0 DEF Registers, Whole
<1>4. f.bytecount + 1 \in Nat
    BY <1>0
<1>5. Plain(h)
    BY <1>2, <1>3, <1>4 DEF Plain, Typed
<1> QED
    BY <1>1, <1>3, <1>5 DEF Same

(* Where an address byte puts the address counter.                         *)
Counter(f) ==
    IF f.bytecount = 2 THEN 2^16 * f.buffer + (f.spi_addr % 2^16)
    ELSE IF f.bytecount = 3 THEN SetMiddle(f.spi_addr, f.buffer)
    ELSE IF f.bytecount = 4 THEN SetLow(f.spi_addr, f.buffer)
    ELSE f.spi_addr

(* AddressByte sets the counter and nothing else.                          *)
LEMMA CounterLemma ==
    ASSUME NEW f, Plain(f), Counter(f) \in 0 .. FlashSize - 1,
           NEW h, h = AddressByte(f)
    PROVE  /\ Plain(h) /\ Same(f, h) /\ h.spi_addr = Counter(f)
           /\ h.buffer = f.buffer
           /\ h.bitcount = f.bitcount /\ h.bytecount = f.bytecount
           /\ h.dummycount = f.dummycount /\ h.spi_cmd = f.spi_cmd
           /\ h.powered_up = f.powered_up /\ h.mode = f.mode
<1>0. Registers(f) /\ f.bytecount \in Nat
    BY DEF Plain, Typed
<1> DEFINE s == Counter(f)
<1>1. h = [f EXCEPT !.spi_addr = s]
  <2>1. CASE f.bytecount = 2
      BY <2>1 DEF AddressByte, Counter
  <2>2. CASE f.bytecount = 3
      BY <2>2 DEF AddressByte, Counter, SetMiddle
  <2>3. CASE f.bytecount = 4
      BY <2>3 DEF AddressByte, Counter, SetLow
  <2>4. CASE f.bytecount # 2 /\ f.bytecount # 3 /\ f.bytecount # 4
      BY <2>4 DEF AddressByte, Counter
  <2> QED
      BY <2>1, <2>2, <2>3, <2>4
<1> HIDE DEF s
<1>2. Registers(h)
    BY <1>0, <1>1 DEF Registers
<1>3. /\ h.spi_addr = s
      /\ h.buffer = f.buffer /\ h.bitcount = f.bitcount
      /\ h.bytecount = f.bytecount /\ h.spi_cmd = f.spi_cmd
      /\ h.dummycount = f.dummycount /\ h.powered_up = f.powered_up
      /\ h.mode = f.mode /\ h.xip_cmd = f.xip_cmd /\ h.next_mode = f.next_mode
      /\ h.oe = f.oe /\ h.dout = f.dout
    BY <1>0, <1>1 DEF Registers
<1>4. Plain(h)
    BY <1>2, <1>3 DEF Plain, Typed, s
<1> QED
    BY <1>3, <1>4 DEF Same, s

(* Fetch takes a byte of the memory and counts on.                         *)
LEMMA FetchByte ==
    ASSUME NEW f, Plain(f), memory(f.spi_addr) \in 0 .. 255,
           NEW h, h = Fetch(f)
    PROVE  /\ Plain(h) /\ Same(f, h)
           /\ h.buffer = memory(f.spi_addr)
           /\ h.spi_addr = (f.spi_addr + 1) % FlashSize
           /\ h.bitcount = f.bitcount /\ h.bytecount = f.bytecount
           /\ h.dummycount = f.dummycount /\ h.spi_cmd = f.spi_cmd
           /\ h.powered_up = f.powered_up /\ h.mode = f.mode
<1>0. Registers(f) /\ f.spi_addr + 1 \in Nat
    BY DEF Plain, Typed
<1> DEFINE m == memory(f.spi_addr)
           s == (f.spi_addr + 1) % FlashSize
<1>1. h = [f EXCEPT !.buffer = m, !.spi_addr = s]
    BY DEF Fetch
<1>2. s \in 0 .. FlashSize - 1
    BY <1>0, WrapLemma
<1> HIDE DEF m, s
<1>3. Registers(h)
    BY <1>0, <1>1 DEF Registers
<1>4. /\ h.buffer = m /\ h.spi_addr = s
      /\ h.bitcount = f.bitcount
      /\ h.bytecount = f.bytecount /\ h.spi_cmd = f.spi_cmd
      /\ h.dummycount = f.dummycount /\ h.powered_up = f.powered_up
      /\ h.mode = f.mode /\ h.xip_cmd = f.xip_cmd /\ h.next_mode = f.next_mode
      /\ h.oe = f.oe /\ h.dout = f.dout
    BY <1>0, <1>1 DEF Registers
<1>5. Plain(h)
    BY <1>2, <1>3, <1>4 DEF Plain, Typed, m
<1> QED
    BY <1>4, <1>5 DEF Same, m, s

(* The mode byte 0 turns the lines round and starts the dummy clocks.      *)
LEMMA ModeLemma ==
    ASSUME NEW f, Plain(f), f.bytecount = 5 => f.buffer = 0, NEW wr \in Mode,
           NEW h, h = ModeByte(f, wr)
    PROVE  /\ Plain(h) /\ Same(f, h) /\ h.spi_addr = f.spi_addr
           /\ h.buffer = f.buffer
           /\ h.bitcount = f.bitcount /\ h.bytecount = f.bytecount
           /\ h.spi_cmd = f.spi_cmd /\ h.powered_up = f.powered_up
           /\ h.dummycount = IF f.bytecount = 5 THEN 8 ELSE f.dummycount
           /\ h.mode = IF f.bytecount = 5 THEN wr ELSE f.mode
<1>0. Registers(f)
    BY DEF Plain, Typed
<1>1. CASE f.bytecount # 5
    BY <1>1 DEF ModeByte, Same
<1>2. CASE f.bytecount = 5
  <2> DEFINE x == IF f.buffer = XIP_MODE THEN f.spi_cmd ELSE 0
  <2>1. h = [f EXCEPT !.xip_cmd = x, !.mode = wr, !.dummycount = 8]
      BY <1>2 DEF ModeByte, latency
  <2>2. x = 0
      BY <1>2 DEF XIP_MODE
  <2> HIDE DEF x
  <2>3. Registers(h)
      BY <1>0, <2>1 DEF Registers
  <2>4. /\ h.spi_addr = f.spi_addr
        /\ h.buffer = f.buffer /\ h.bitcount = f.bitcount
        /\ h.bytecount = f.bytecount /\ h.spi_cmd = f.spi_cmd
        /\ h.dummycount = 8 /\ h.powered_up = f.powered_up
        /\ h.mode = wr /\ h.xip_cmd = x /\ h.next_mode = f.next_mode
        /\ h.oe = f.oe /\ h.dout = f.dout
      BY <1>0, <2>1 DEF Registers
  <2>5. Plain(h)
    <3>1. 8 \in 0 .. latency /\ 0 \in 0 .. 255
        BY DEF latency
    <3> QED
        BY <2>2, <2>3, <2>4, <3>1 DEF Plain, Typed
  <2> QED
      BY <1>2, <2>4, <2>5 DEF Same
<1> QED
    BY <1>1, <1>2

-----------------------------------------------------------------------------
(* What the flash does with a byte of a read after its opcode.             *)
LEMMA ActionRead ==
    ASSUME NEW c \in Reads, NEW f, Plain(f), f.powered_up, f.spi_cmd = c,
           f.bytecount >= 2, NEW s \in 0 .. FlashSize - 1, s = Counter(f),
           f.bytecount > Hd(c) => memory(s) \in 0 .. 255,
           c # READ_STD /\ f.bytecount = 5 => f.buffer = 0,
           NEW g, g = spi_action(f)
    PROVE  /\ Plain(g) /\ Same(f, g)
           /\ g.bitcount = f.bitcount /\ g.bytecount = f.bytecount
           /\ g.spi_cmd = c /\ g.powered_up
           /\ g.spi_addr = IF f.bytecount > Hd(c) THEN (s + 1) % FlashSize ELSE s
           /\ g.buffer = IF f.bytecount > Hd(c) THEN memory(s) ELSE f.buffer
           /\ g.dummycount = IF c # READ_STD /\ f.bytecount = 5 THEN 8
                             ELSE f.dummycount
           /\ g.mode = IF c # READ_STD /\ f.bytecount = 5 THEN WrMode(c) ELSE f.mode
<1>1. f.bytecount \in Nat /\ f.bytecount # 1
    BY DEF Plain, Typed
<1>2. Decode(f) = f
    BY <1>1 DEF Decode
<1> DEFINE h == AddressByte(f)
<1>3. /\ Plain(h) /\ Same(f, h) /\ h.spi_addr = s /\ h.buffer = f.buffer
      /\ h.bitcount = f.bitcount /\ h.bytecount = f.bytecount
      /\ h.dummycount = f.dummycount /\ h.spi_cmd = f.spi_cmd
      /\ h.powered_up = f.powered_up /\ h.mode = f.mode
    BY CounterLemma
<1>4. CASE c = READ_STD
  <2>1. g = IF f.bytecount > 3 THEN Fetch(h) ELSE h
    <3>1. g = StandardRead(f)
        BY <1>2, <1>4 DEF spi_action, READ_STD, READ_DUAL, READ_QUAD, READ_DDR
    <3>2. f.bytecount >= 4 <=> f.bytecount > 3
        BY <1>1
    <3> QED
        BY <3>1, <3>2 DEF StandardRead
  <2> HIDE DEF h
  <2>2. Hd(c) = 3
      BY <1>4 DEF Hd
  <2>3. CASE f.bytecount > 3
    <3>1. g = Fetch(h) /\ memory(h.spi_addr) \in 0 .. 255
        BY <1>3, <2>1, <2>2, <2>3
    <3>2. /\ Plain(g) /\ Same(h, g)
          /\ g.buffer = memory(h.spi_addr)
          /\ g.spi_addr = (h.spi_addr + 1) % FlashSize
          /\ g.bitcount = h.bitcount /\ g.bytecount = h.bytecount
          /\ g.dummycount = h.dummycount /\ g.spi_cmd = h.spi_cmd
          /\ g.powered_up = h.powered_up /\ g.mode = h.mode
        BY <1>3, <3>1, FetchByte
    <3> QED
        BY <1>3, <1>4, <2>2, <2>3, <3>2 DEF Same
  <2>4. CASE ~ f.bytecount > 3
      BY <1>3, <1>4, <2>1, <2>2, <2>4
  <2> QED
      BY <2>3, <2>4
<1>5. CASE c # READ_STD
  <2> DEFINE k == ModeByte(h, WrMode(c))
  <2>1. g = IF f.bytecount > 4 THEN Fetch(k) ELSE k
    <3>1. g = FastRead(f, RdMode(c), WrMode(c))
      <4>1. c = READ_DUAL \/ c = READ_QUAD \/ c = READ_DDR
          BY <1>5 DEF Reads
      <4> QED
          BY <1>2, <4>1 DEF spi_action, READ_STD, READ_DUAL, READ_QUAD, READ_DDR,
                            RdMode, WrMode
    <3>2. f.bytecount >= 5 <=> f.bytecount > 4
        BY <1>1
    <3>3. Turn(f, RdMode(c)) = f
        BY <1>1 DEF Turn
    <3> QED
        BY <3>1, <3>2, <3>3 DEF FastRead
  <2>2. Hd(c) = 4
      BY <1>5 DEF Hd
  <2> HIDE DEF h
  <2>3. WrMode(c) \in Mode
      BY DEF WrMode, Mode
  <2>7. h.bytecount = 5 => h.buffer = 0
      BY <1>3, <1>5
  <2>4. /\ Plain(k) /\ Same(h, k) /\ k.spi_addr = h.spi_addr
        /\ k.buffer = h.buffer
        /\ k.bitcount = h.bitcount /\ k.bytecount = h.bytecount
        /\ k.spi_cmd = h.spi_cmd /\ k.powered_up = h.powered_up
        /\ k.dummycount = (IF h.bytecount = 5 THEN 8 ELSE h.dummycount)
        /\ k.mode = (IF h.bytecount = 5 THEN WrMode(c) ELSE h.mode)
      BY <1>3, <2>3, <2>7, ModeLemma
  <2> HIDE DEF k
  <2>5. CASE f.bytecount > 4
    <3>1. g = Fetch(k) /\ memory(k.spi_addr) \in 0 .. 255
        BY <1>3, <2>1, <2>2, <2>4, <2>5
    <3>2. /\ Plain(g) /\ Same(k, g)
          /\ g.buffer = memory(k.spi_addr)
          /\ g.spi_addr = (k.spi_addr + 1) % FlashSize
          /\ g.bitcount = k.bitcount /\ g.bytecount = k.bytecount
          /\ g.dummycount = k.dummycount /\ g.spi_cmd = k.spi_cmd
          /\ g.powered_up = k.powered_up /\ g.mode = k.mode
        BY <2>4, <3>1, FetchByte
    <3> QED
        BY <1>3, <1>5, <2>2, <2>4, <2>5, <3>2 DEF Same
  <2>6. CASE ~ f.bytecount > 4
    <3>1. g = k /\ f.bytecount # 5
        BY <1>1, <2>1, <2>6
    <3> QED
        BY <1>3, <2>2, <2>4, <2>6, <3>1 DEF Same
  <2> QED
      BY <2>5, <2>6
<1> QED
    BY <1>4, <1>5

(* The bytes of a header, and the address they make.                       *)
LEMMA PartLemma ==
    ASSUME NEW a \in 0 .. FlashSize - 1
    PROVE  /\ \A j \in Nat : Part(a, j) \in 0 .. 255
           /\ a = FromBytes(Part(a, 0), Part(a, 1), Part(a, 2))
           /\ Part(a, 3) = 0
<1> DEFINE x == a \div 2^16
           y == a \div 2^8
<1>1. a \in Nat /\ a < 2^24
    BY SMT DEF FlashSize
<1>2. x \in 0 .. 255
    BY SMT, <1>1
<1>3. y = 2^8 * x + (y % 2^8)
    BY SMT, <1>1
<1>4. a = 2^8 * y + (a % 2^8)
    BY SMT, <1>1
<1>5. y % 2^8 \in 0 .. 255 /\ a % 2^8 \in 0 .. 255
    BY SMT, <1>1
<1>6. a = 2^16 * x + 2^8 * (y % 2^8) + (a % 2^8)
    BY SMT, <1>1, <1>2, <1>3, <1>4, <1>5
<1>7. /\ Part(a, 0) = x /\ Part(a, 1) = y % 2^8 /\ Part(a, 2) = a % 2^8
      /\ \A j \in Nat : j > 2 => Part(a, j) = 0
    BY DEF Part
<1> HIDE DEF x, y
<1>8. a = FromBytes(Part(a, 0), Part(a, 1), Part(a, 2))
    BY <1>6, <1>7 DEF FromBytes
<1>9. \A j \in Nat : j = 0 \/ j = 1 \/ j = 2 \/ j > 2
    OBVIOUS
<1> QED
    BY <1>2, <1>5, <1>7, <1>8, <1>9

-----------------------------------------------------------------------------
(* What comes in at a bit of a read: its header, then anything.            *)
Comes(c, a, K, b, w, x) ==
    /\ K < Hd(c) => x = Slice(Part(a, K), b, w)
    /\ K >= Hd(c) => x \in Digits(w) /\ MemoryByte(a, K - Hd(c)) \in 0 .. 255

(* The buffer after it.                                                    *)
LEMMA ReadBuffer ==
    ASSUME NEW c \in Reads, NEW a \in 0 .. FlashSize - 1, NEW K \in Nat,
           NEW w, NEW b, Fits(w, b), NEW f, ReadAt(f, c, a, K, b),
           NEW x, Comes(c, a, K, b, w, x), NEW n, n = Push(f.buffer, w, x)
    PROVE  /\ n \in 0 .. 255
           /\ K < Hd(c) => BitsAreIn(n, Part(a, K), b + w)
           /\ K >= Hd(c) => BitsAreOut(n, MemoryByte(a, K - Hd(c)), b + w)
<1>1. f.buffer \in 0 .. 255 /\ (K < Hd(c) \/ K >= Hd(c))
    BY DEF ReadAt, Plain, Typed, Hd
<1>2. CASE K < Hd(c)
  <2>1. BitsAreIn(f.buffer, Part(a, K), b)
      BY <1>2 DEF ReadAt, HeaderIn
  <2>2. Part(a, K) \in 0 .. 255
      BY PartLemma
  <2>3. x = Slice(Part(a, K), b, w)
      BY <1>2 DEF Comes
  <2>4. n \in 0 .. 255 /\ BitsAreIn(n, Part(a, K), b + w)
      BY <1>1, <2>1, <2>2, <2>3, BitsIn, ZenonT(60)
  <2>5. ~ K >= Hd(c)
      BY <1>2 DEF Hd
  <2> QED
      BY <2>4, <2>5
<1>3. CASE K >= Hd(c)
  <2> DEFINE m == MemoryByte(a, K - Hd(c))
  <2>1. BitsAreOut(f.buffer, m, b)
      BY <1>3 DEF ReadAt, MemoryOut
  <2>2. m \in 0 .. 255 /\ x \in Digits(w)
      BY <1>3 DEF Comes
  <2> HIDE DEF m
  <2>3. n \in 0 .. 255 /\ BitsAreOut(n, m, b + w)
      BY <1>1, <2>1, <2>2, BitsOut, ZenonT(60)
  <2>4. ~ K < Hd(c)
      BY <1>3 DEF Hd
  <2> QED
      BY <2>3, <2>4 DEF m
<1> QED
    BY <1>1, <1>2, <1>3

(* A bit that does not end a byte of a read.                               *)
LEMMA ReadPart ==
    ASSUME NEW c \in Reads, NEW a \in 0 .. FlashSize - 1, NEW K \in Nat,
           NEW w, NEW b, Fits(w, b), b + w < 8, NEW f, ReadAt(f, c, a, K, b),
           NEW x, Comes(c, a, K, b, w, x), NEW g, g = ShiftIn(f, x, w)
    PROVE  /\ ReadAt(g, c, a, K, b + w) /\ Same(f, g)
           /\ g.dummycount = f.dummycount /\ g.mode = f.mode
           /\ g.buffer = Push(f.buffer, w, x)
<1> DEFINE n == Push(f.buffer, w, x)
<1>1. /\ n \in 0 .. 255
      /\ K < Hd(c) => BitsAreIn(n, Part(a, K), b + w)
      /\ K >= Hd(c) => BitsAreOut(n, MemoryByte(a, K - Hd(c)), b + w)
    BY ReadBuffer
<1>2. w \in 1 .. 4
    BY DEF Fits
<1>3. Plain(f) /\ f.bitcount = b
    BY DEF ReadAt
<1>4. /\ Plain(g) /\ Same(f, g) /\ g.buffer = n
      /\ g.bitcount = f.bitcount + w /\ g.bytecount = f.bytecount
      /\ g.dummycount = f.dummycount /\ g.spi_cmd = f.spi_cmd
      /\ g.spi_addr = f.spi_addr /\ g.powered_up = f.powered_up
      /\ g.mode = f.mode
    BY <1>1, <1>2, <1>3, PushPart
<1> HIDE DEF n
<1>5. K < Hd(c) => HeaderIn(g, a, K, b + w)
    BY <1>1, <1>4 DEF ReadAt, HeaderIn
<1>6. K >= Hd(c) => MemoryOut(g, a, K - Hd(c), b + w)
    BY <1>1, <1>4 DEF ReadAt, MemoryOut
<1>7. ReadAt(g, c, a, K, b + w)
    BY <1>3, <1>4, <1>5, <1>6 DEF ReadAt
<1> QED
    BY <1>4, <1>7 DEF n

(* The address counter when byte K of the header is in,                    *)
LEMMA ReadCounter ==
    ASSUME NEW c \in Reads, NEW a \in 0 .. FlashSize - 1, NEW K \in 0 .. 3,
           NEW f, NEW b, ReadAt(f, c, a, K, b), K < Hd(c),
           NEW h, h.spi_addr = f.spi_addr, h.buffer = Part(a, K), h.bytecount = K + 2,
           NEW s, s = Counter(h)
    PROVE  /\ s \in 0 .. FlashSize - 1
           /\ HighIs(s, Part(a, 0))
           /\ K >= 1 => MiddleIs(s, Part(a, 0), Part(a, 1))
           /\ K >= 2 => s = a
<1> DEFINE p == Part(a, 0)
           q == Part(a, 1)
           r == Part(a, 2)
           t == f.spi_addr
<1>1. /\ p \in 0 .. 255 /\ q \in 0 .. 255 /\ r \in 0 .. 255
      /\ a = FromBytes(p, q, r)
    BY PartLemma
<1>2. t \in Nat /\ t \in 0 .. FlashSize - 1
    BY DEF ReadAt, Plain, Typed
<1>3. /\ K >= 1 => HighIs(t, p)
      /\ K >= 2 => MiddleIs(t, p, q)
      /\ K >= 3 => t = a
    BY DEF ReadAt, HeaderIn
<1>4. CASE K = 0
  <2>1. s = 2^16 * p + (t % 2^16)
      BY <1>4 DEF Counter
  <2> HIDE DEF p, q, r, t
  <2>2. s \in 0 .. FlashSize - 1 /\ s \div 2^16 = p
      BY <1>1, <1>2, <2>1, HighByte
  <2> QED
      BY <1>4, <2>2 DEF HighIs, p
<1>5. CASE K = 1
  <2>1. s = SetMiddle(t, q) /\ HighIs(t, p)
      BY <1>3, <1>5 DEF Counter
  <2> HIDE DEF p, q, r, t
  <2>2. s \in 0 .. FlashSize - 1 /\ HighIs(s, p) /\ MiddleIs(s, p, q)
      BY <1>1, <1>2, <2>1, MiddleByte, ZenonT(60)
  <2> QED
      BY <1>5, <2>2 DEF p, q
<1>6. CASE K = 2
  <2>1. s = SetLow(t, r) /\ MiddleIs(t, p, q)
      BY <1>3, <1>6 DEF Counter
  <2> HIDE DEF p, q, r, t
  <2>2. s \in 0 .. FlashSize - 1 /\ HighIs(s, p) /\ MiddleIs(s, p, q)
      BY <1>1, <1>2, <2>1, LowByte, Zenon
  <2>3. AddressIs(s, p, q, r)
      BY <1>1, <1>2, <2>1, LowValue, Zenon
  <2> QED
      BY <1>1, <1>6, <2>2, <2>3 DEF AddressIs, p, q
<1>7. CASE K = 3
  <2>1. s = t
      BY <1>7 DEF Counter
  <2> QED
      BY <1>2, <1>3, <1>7, <2>1
<1> QED
    BY <1>4, <1>5, <1>6, <1>7

(* A bit that ends one: the address is complete with the third, the mode   *)
(* byte starts the dummy clocks, and then the next byte is fetched.        *)
LEMMA ReadWhole ==
    ASSUME NEW c \in Reads, NEW a \in 0 .. FlashSize - 1, NEW K \in Nat,
           NEW w, NEW b, Fits(w, b), b + w = 8, NEW f, ReadAt(f, c, a, K, b),
           NEW x, Comes(c, a, K, b, w, x),
           K + 1 >= Hd(c) => MemoryByte(a, (K + 1) - Hd(c)) \in 0 .. 255,
           NEW g, g = ShiftIn(f, x, w)
    PROVE  /\ ReadAt(g, c, a, K + 1, 0) /\ Same(f, g)
           /\ g.dummycount = IF c # READ_STD /\ K = 3 THEN 8 ELSE f.dummycount
           /\ g.mode = IF c # READ_STD /\ K = 3 THEN WrMode(c) ELSE f.mode
<1> DEFINE n == Push(f.buffer, w, x)
           h == Whole(f, n)
           s == Counter(h)
<1>1. /\ n \in 0 .. 255
      /\ K < Hd(c) => BitsAreIn(n, Part(a, K), 8)
    BY ReadBuffer
<1>2. Plain(f) /\ f.bitcount = b /\ f.powered_up /\ f.spi_cmd = c /\ f.bytecount = K + 1
    BY DEF ReadAt
<1>3. /\ g = spi_action(h)
      /\ Plain(h) /\ Same(f, h) /\ h.buffer = n
      /\ h.bitcount = 0 /\ h.bytecount = f.bytecount + 1
      /\ h.dummycount = f.dummycount /\ h.spi_cmd = f.spi_cmd
      /\ h.spi_addr = f.spi_addr /\ h.powered_up = f.powered_up
      /\ h.mode = f.mode
  <2>1. Ends(f, w)
      BY <1>2 DEF Ends
  <2>2. n = Push(f.buffer, w, x) /\ h = Whole(f, n)
      OBVIOUS
  <2>4. n \in 0 .. 255 /\ Plain(f) /\ f.bytecount \in Nat
      BY <1>1, <1>2
  <2> HIDE DEF n, h
  <2>3. /\ ShiftIn(f, x, w) = spi_action(h)
        /\ Plain(h) /\ Same(f, h) /\ h.buffer = n
        /\ h.bitcount = 0 /\ h.bytecount = f.bytecount + 1
        /\ h.dummycount = f.dummycount /\ h.spi_cmd = f.spi_cmd
        /\ h.spi_addr = f.spi_addr /\ h.powered_up = f.powered_up
        /\ h.mode = f.mode
      BY <2>1, <2>2, <2>4, PushWhole
  <2> QED
      BY <2>3
<1>4. h.bytecount = K + 2 /\ Hd(c) \in {3, 4}
    BY <1>2, <1>3 DEF Hd
<1>5. K < Hd(c) => n = Part(a, K)
  <2>1. Part(a, K) \in 0 .. 255
      BY PartLemma
  <2> QED
      BY <1>1, <2>1, AllIn, ZenonT(60)
<1>6. f.spi_addr \in 0 .. FlashSize - 1
    BY <1>2 DEF Plain, Typed
<1> HIDE DEF n, h
<1>7. CASE K < Hd(c)
  <2>1. K \in 0 .. 3
      BY <1>4, <1>7
  <2>2. /\ s \in 0 .. FlashSize - 1
        /\ HighIs(s, Part(a, 0))
        /\ K >= 1 => MiddleIs(s, Part(a, 0), Part(a, 1))
        /\ K >= 2 => s = a
      BY <1>3, <1>4, <1>5, <1>7, <2>1, ReadCounter
  <2> HIDE DEF s
  <2>3. (K + 1) - Hd(c) <= 0 /\ (h.bytecount > Hd(c) <=> K + 1 >= Hd(c))
      BY <1>4, <1>7
  <2>4. h.bytecount > Hd(c) => s = a /\ MemoryByte(a, 0) = memory(a) /\ K + 1 = Hd(c)
    <3>1. (a + 0) % FlashSize = a
        BY DEF FlashSize
    <3>2. h.bytecount > Hd(c) => K >= 2 /\ K + 1 = Hd(c)
        BY <1>4, <1>7, <2>3
    <3> QED
        BY <2>2, <3>1, <3>2 DEF MemoryByte
  <2>5. h.bytecount > Hd(c) => memory(s) \in 0 .. 255
      BY <1>4, <2>3, <2>4
  <2>6. c # READ_STD /\ h.bytecount = 5 => h.buffer = 0
    <3>1. Part(a, 3) = 0
        BY DEF Part
    <3> QED
        BY <1>3, <1>4, <1>5, <1>7, <3>1
  <2>7. /\ Plain(g) /\ Same(h, g)
        /\ g.bitcount = h.bitcount /\ g.bytecount = h.bytecount
        /\ g.spi_cmd = c /\ g.powered_up
        /\ g.spi_addr = (IF h.bytecount > Hd(c) THEN (s + 1) % FlashSize ELSE s)
        /\ g.buffer = (IF h.bytecount > Hd(c) THEN memory(s) ELSE h.buffer)
        /\ g.dummycount = (IF c # READ_STD /\ h.bytecount = 5 THEN 8
                           ELSE h.dummycount)
        /\ g.mode = (IF c # READ_STD /\ h.bytecount = 5 THEN WrMode(c) ELSE h.mode)
    <3>1. h.bytecount >= 2 /\ h.powered_up /\ h.spi_cmd = c /\ s = Counter(h)
        BY <1>2, <1>3, <1>4 DEF s
    <3> QED
        BY <1>3, <2>2, <2>5, <2>6, <3>1, ActionRead
  <2>8. K + 1 < Hd(c) => HeaderIn(g, a, K + 1, 0)
    <3>1. ASSUME K + 1 < Hd(c) PROVE HeaderIn(g, a, K + 1, 0)
      <4>1. g.spi_addr = s
          BY <1>4, <2>3, <2>7, <3>1
      <4>2. g.buffer \in 0 .. 255 /\ Part(a, K + 1) \in 0 .. 255
          BY <2>7, PartLemma DEF Plain, Typed
      <4>3. BitsAreIn(g.buffer, Part(a, K + 1), 0)
          BY <4>2, SMTT(60) DEF BitsAreIn, Low, High
      <4>4. (K + 1 >= 2 => K >= 1) /\ (K + 1 >= 3 => K >= 2)
          OBVIOUS
      <4> QED
          BY <2>2, <4>1, <4>3, <4>4 DEF HeaderIn
    <3> QED
        BY <3>1
  <2>9. K + 1 >= Hd(c) => MemoryOut(g, a, (K + 1) - Hd(c), 0)
    <3>1. ASSUME K + 1 >= Hd(c) PROVE MemoryOut(g, a, (K + 1) - Hd(c), 0)
      <4>1. /\ g.spi_addr = (a + 1) % FlashSize /\ g.buffer = memory(a)
            /\ (K + 1) - Hd(c) = 0 /\ MemoryByte(a, 0) = memory(a)
            /\ memory(a) \in 0 .. 255
          BY <1>4, <2>3, <2>4, <2>5, <2>7, <3>1
      <4>2. BitsAreOut(g.buffer, MemoryByte(a, 0), 0)
          BY <4>1 DEF BitsAreOut, Low, High
      <4>3. a + 0 + 1 = a + 1
          OBVIOUS
      <4> QED
          BY <4>1, <4>2, <4>3 DEF MemoryOut
    <3> QED
        BY <3>1
  <2>10. ReadAt(g, c, a, K + 1, 0)
    <3>1. g.bytecount = (K + 1) + 1 /\ g.bitcount = 0
        BY <1>3, <1>4, <2>7
    <3> QED
        BY <2>7, <2>8, <2>9, <3>1 DEF ReadAt
  <2>11. h.bytecount = 5 <=> K = 3
      BY <1>4
  <2> QED
      BY <1>3, <2>7, <2>10, <2>11 DEF Same
<1>8. CASE K >= Hd(c)
  <2> DEFINE j == K - Hd(c)
  <2>1. j \in Nat /\ (K + 1) - Hd(c) = j + 1 /\ h.bytecount > Hd(c)
        /\ K + 1 >= Hd(c) /\ ~ K + 1 < Hd(c)
      BY <1>4, <1>8
  <2>2. s = (a + j + 1) % FlashSize
    <3>1. h.bytecount # 2 /\ h.bytecount # 3 /\ h.bytecount # 4
        BY <1>4, <1>8
    <3>2. s = f.spi_addr
        BY <1>3, <3>1 DEF Counter
    <3> QED
        BY <1>8, <3>2 DEF ReadAt, MemoryOut
  <2>3. s \in 0 .. FlashSize - 1
    <3>1. a + j + 1 \in Nat
        BY <2>1
    <3> QED
        BY <2>2, <3>1, WrapLemma
  <2>4. memory(s) = MemoryByte(a, j + 1)
    <3>1. a + j + 1 = a + (j + 1)
        BY <2>1
    <3> QED
        BY <2>2, <3>1 DEF MemoryByte
  <2>5. memory(s) \in 0 .. 255
      BY <2>1, <2>4
  <2>6. c # READ_STD => h.bytecount # 5 /\ K # 3
      BY <1>4, <1>8 DEF Hd
  <2> HIDE DEF s, j
  <2>7. /\ Plain(g) /\ Same(h, g)
        /\ g.bitcount = h.bitcount /\ g.bytecount = h.bytecount
        /\ g.spi_cmd = c /\ g.powered_up
        /\ g.spi_addr = (IF h.bytecount > Hd(c) THEN (s + 1) % FlashSize ELSE s)
        /\ g.buffer = (IF h.bytecount > Hd(c) THEN memory(s) ELSE h.buffer)
        /\ g.dummycount = (IF c # READ_STD /\ h.bytecount = 5 THEN 8
                           ELSE h.dummycount)
        /\ g.mode = (IF c # READ_STD /\ h.bytecount = 5 THEN WrMode(c) ELSE h.mode)
    <3>1. h.bytecount >= 2 /\ h.powered_up /\ h.spi_cmd = c /\ s = Counter(h)
        BY <1>2, <1>3, <1>4 DEF s
    <3> QED
        BY <1>3, <2>3, <2>5, <2>6, <3>1, ActionRead
  <2>8. g.spi_addr = (a + (j + 1) + 1) % FlashSize
    <3>1. a + j + 1 \in Nat /\ (a + j + 1) + 1 = a + (j + 1) + 1
        BY <2>1
    <3> QED
        BY <2>1, <2>2, <2>7, <3>1, WrapNext
  <2>9. MemoryOut(g, a, j + 1, 0)
    <3>1. BitsAreOut(g.buffer, MemoryByte(a, j + 1), 0)
        BY <2>1, <2>4, <2>5, <2>7 DEF BitsAreOut, Low, High
    <3> QED
        BY <2>8, <3>1 DEF MemoryOut
  <2>10. ReadAt(g, c, a, K + 1, 0)
    <3>1. g.bytecount = (K + 1) + 1 /\ g.bitcount = 0
        BY <1>3, <1>4, <2>7
    <3> QED
        BY <2>1, <2>7, <2>9, <3>1 DEF ReadAt
  <2> QED
      BY <1>3, <2>6, <2>7, <2>10 DEF Same
<1> QED
    BY <1>4, <1>7, <1>8

-----------------------------------------------------------------------------
(* The bits of an opcode, from the top.                                    *)
NextBit(b, x, d) ==
    x \in 0 .. 1 /\ d = Push(b, 1, x) /\ b \in 0 .. 127 /\ d \in 0 .. 255

(* One more of them, and what the buffer holds then.                       *)
LEMMA OpcodeBits ==
    ASSUME NEW c \in 0 .. 255, NEW n \in 0 .. 7
    PROVE  NextBit(FirstBits(c, n), Slice(c, n, 1), FirstBits(c, n + 1))
<1> n = 0 \/ n = 1 \/ n = 2 \/ n = 3 \/ n = 4 \/ n = 5 \/ n = 6 \/ n = 7
    OBVIOUS
<1>0. CASE n = 0 BY <1>0 DEF NextBit, Slice, Push, FirstBits
<1>1. CASE n = 1 BY <1>1 DEF NextBit, Slice, Push, FirstBits
<1>2. CASE n = 2 BY <1>2 DEF NextBit, Slice, Push, FirstBits
<1>3. CASE n = 3 BY <1>3 DEF NextBit, Slice, Push, FirstBits
<1>4. CASE n = 4 BY <1>4 DEF NextBit, Slice, Push, FirstBits
<1>5. CASE n = 5 BY <1>5 DEF NextBit, Slice, Push, FirstBits
<1>6. CASE n = 6 BY <1>6 DEF NextBit, Slice, Push, FirstBits
<1>7. CASE n = 7 BY <1>7 DEF NextBit, Slice, Push, FirstBits
<1> QED
    BY <1>0, <1>1, <1>2, <1>3, <1>4, <1>5, <1>6, <1>7

(* The line the flash reads carries bit n of c.                            *)
BitOf(io, c, n) == io % 2 = Slice(c, n, 1)

(* A rise of clk before the last of the opcode takes one of them in,       *)
LEMMA OpcodePart ==
    ASSUME NEW c \in 0 .. 255, NEW n \in 0 .. 6, NEW f, OpcodeIn(f, c, n),
           NEW io, BitOf(io, c, n), NEW m, m = n + 1, NEW g, g = ClkHigh(f, io)
    PROVE  OpcodeIn(g, c, m) /\ g.powered_up = f.powered_up
<1> DEFINE x == Slice(c, n, 1)
           b == FirstBits(c, n + 1)
<1>1. /\ Plain(f) /\ f.next_mode = "none" /\ f.dummycount = 0 /\ f.mode = "spi"
      /\ f.oe = {1} /\ f.dout = 0 /\ f.bitcount = n /\ f.bytecount = 0
      /\ f.buffer = FirstBits(c, n)
    BY DEF OpcodeIn, Quiet, Plain
<1>2. x \in 0 .. 1 /\ b = Push(f.buffer, 1, x) /\ b \in 0 .. 255
  <2>0. n \in 0 .. 7
      OBVIOUS
  <2>1. NextBit(FirstBits(c, n), x, b)
      BY <2>0, OpcodeBits, Zenon
  <2> HIDE DEF x, b
  <2>2. NextBit(f.buffer, x, b)
      BY <1>1, <2>1
  <2> QED
      BY <2>2 DEF NextBit
<1>3. g = ShiftIn(f, x, 1)
    BY <1>1 DEF BitOf, ClkHigh
<1>4. f.bitcount + 1 < 8 /\ 1 \in 1 .. 4
    BY <1>1
<1> HIDE DEF x, b
<1>5. /\ Plain(g) /\ Same(f, g) /\ g.buffer = b
      /\ g.bitcount = f.bitcount + 1 /\ g.bytecount = f.bytecount
      /\ g.dummycount = f.dummycount /\ g.powered_up = f.powered_up
      /\ g.mode = f.mode
    BY <1>1, <1>2, <1>3, <1>4, PushPart
<1>6. Quiet(g)
    BY <1>1, <1>5 DEF Plain, Quiet, Same
<1> QED
    BY <1>1, <1>5, <1>6 DEF OpcodeIn, Same, b

(* and a fall changes nothing.                                             *)
LEMMA OpcodeLow ==
    ASSUME NEW c \in 0 .. 255, NEW n \in 0 .. 7, NEW f, OpcodeIn(f, c, n),
           NEW io, NEW g, g = ClkLow(f, io)
    PROVE  OpcodeIn(g, c, n) /\ g.powered_up = f.powered_up
<1>1. Quiet(f) /\ f.mode = "spi" /\ f.dummycount = 0 /\ f.buffer = FirstBits(c, n)
    BY DEF OpcodeIn
<1>2. /\ LowKeeps(f, g) /\ Quiet(g)
      /\ g.oe = {1} /\ g.dout = 2 * (f.buffer \div 128)
    BY <1>1, LowLemma
<1>3. FirstBits(c, n) \in 0 .. 127
  <2> DEFINE y == FirstBits(c, n)
  <2>1. NextBit(y, Slice(c, n, 1), FirstBits(c, n + 1))
      BY OpcodeBits, ZenonT(60)
  <2> HIDE DEF y
  <2>2. y \in 0 .. 127
      BY <2>1 DEF NextBit
  <2> QED
      BY <2>2 DEF y
<1>4. g.dout = 0
  <2>1. \A x \in 0 .. 127 : 2 * (x \div 128) = 0
      OBVIOUS
  <2> QED
      BY <1>1, <1>2, <1>3, <2>1
<1> QED
    BY <1>2, <1>4 DEF OpcodeIn, LowKeeps

(* The last completes it.                                                  *)
LEMMA OpcodeWhole ==
    ASSUME NEW c \in 0 .. 255, NEW f, OpcodeIn(f, c, 7),
           NEW io, BitOf(io, c, 7), NEW h, h = Whole(f, c)
    PROVE  /\ ClkHigh(f, io) = spi_action(h)
           /\ Plain(h) /\ Same(f, h) /\ h.buffer = c
           /\ h.bitcount = 0 /\ h.bytecount = 1
           /\ h.dummycount = 0 /\ h.powered_up = f.powered_up /\ h.mode = "spi"
<1> DEFINE x == Slice(c, 7, 1)
<1>1. /\ Plain(f) /\ f.next_mode = "none" /\ f.dummycount = 0 /\ f.mode = "spi"
      /\ f.bitcount = 7 /\ f.bytecount = 0 /\ f.buffer = FirstBits(c, 7)
    BY DEF OpcodeIn, Quiet, Plain
<1>2. c = Push(f.buffer, 1, x)
  <2>0. 7 \in 0 .. 7
      OBVIOUS
  <2>1. NextBit(FirstBits(c, 7), x, FirstBits(c, 7 + 1))
      BY <2>0, OpcodeBits, Zenon
  <2>2. FirstBits(c, 7 + 1) = c
      BY DEF FirstBits
  <2>3. NextBit(f.buffer, x, c)
      BY <1>1, <2>1, <2>2
  <2> HIDE DEF x
  <2> QED
      BY <2>3 DEF NextBit
<1>3. ClkHigh(f, io) = ShiftIn(f, x, 1)
    BY <1>1 DEF BitOf, ClkHigh
<1>4. Ends(f, 1) /\ f.bytecount \in Nat
    BY <1>1 DEF Ends
<1> HIDE DEF x
<1>5. /\ ShiftIn(f, x, 1) = spi_action(h)
      /\ Plain(h) /\ Same(f, h) /\ h.buffer = c
      /\ h.bitcount = 0 /\ h.bytecount = f.bytecount + 1
      /\ h.dummycount = f.dummycount /\ h.spi_cmd = f.spi_cmd
      /\ h.spi_addr = f.spi_addr /\ h.powered_up = f.powered_up
      /\ h.mode = f.mode
    BY <1>1, <1>2, <1>4, PushWhole
<1> QED
    BY <1>1, <1>3, <1>5

(* What Decode makes of the protocol's opcodes.                            *)
LEMMA DecodeAny ==
    ASSUME NEW f, Plain(f), f.bytecount = 1, f.buffer \in Reads \cup Orders,
           NEW h, h = Decode(f)
    PROVE  /\ Plain(h) /\ Same(f, h) /\ h.buffer = f.buffer
           /\ h.bitcount = f.bitcount /\ h.bytecount = 1
           /\ h.dummycount = f.dummycount /\ h.mode = f.mode
           /\ h.spi_cmd = f.buffer
           /\ h.powered_up = (f.buffer = POWER_UP
                                \/ (f.powered_up /\ f.buffer # POWER_DOWN))
<1>1. Registers(f) /\ f.xip_cmd = 0
    BY DEF Plain, Typed
<1>2. f.buffer # CLEAR_XIP /\ f.buffer \in 0 .. 255
    BY DEF Reads, Orders, CLEAR_XIP, READ_STD, READ_DUAL, READ_QUAD, READ_DDR,
           POWER_UP, POWER_DOWN
<1> DEFINE p == (f.buffer = POWER_UP) \/ (f.powered_up /\ f.buffer # POWER_DOWN)
<1>3. h = [f EXCEPT !.spi_cmd = f.buffer, !.powered_up = p, !.xip_cmd = f.xip_cmd]
    BY <1>2 DEF Decode
<1>4. p \in BOOLEAN
    OBVIOUS
<1> HIDE DEF p
<1>5. Registers(h)
    BY <1>1, <1>3 DEF Registers
<1>6. /\ h.spi_addr = f.spi_addr
      /\ h.buffer = f.buffer /\ h.bitcount = f.bitcount
      /\ h.bytecount = f.bytecount /\ h.spi_cmd = f.buffer
      /\ h.dummycount = f.dummycount /\ h.powered_up = p
      /\ h.mode = f.mode /\ h.xip_cmd = f.xip_cmd /\ h.next_mode = f.next_mode
      /\ h.oe = f.oe /\ h.dout = f.dout
    BY <1>1, <1>3 DEF Registers
<1>7. Plain(h)
    BY <1>1, <1>2, <1>4, <1>5, <1>6 DEF Plain, Typed
<1> QED
    BY <1>6, <1>7 DEF Same, p

(* The opcode of a fast read turns the lines round, or asks for it.        *)
LEMMA TurnLemma ==
    ASSUME NEW c \in Reads, c # READ_STD, NEW f, Plain(f), f.bytecount = 1,
           f.spi_cmd = c, NEW h, h = Turn(f, RdMode(c))
    PROVE  /\ Plain(h) /\ h.oe = f.oe /\ h.dout = f.dout /\ h.buffer = f.buffer
           /\ h.bitcount = f.bitcount /\ h.bytecount = 1
           /\ h.dummycount = f.dummycount /\ h.spi_cmd = c
           /\ h.spi_addr = f.spi_addr /\ h.powered_up = f.powered_up
           /\ h.mode = IF c = READ_DDR THEN f.mode ELSE RdMode(c)
           /\ h.next_mode = IF c = READ_DDR THEN RdMode(c) ELSE f.next_mode
<1> DEFINE r == RdMode(c)
<1>0. Registers(f)
    BY DEF Plain, Typed
<1>1. r \in Mode /\ (c = READ_DDR => r \in {"none", "qspi_ddr_rd"})
    BY DEF RdMode, Mode, READ_STD, READ_DUAL, READ_QUAD, READ_DDR
<1> HIDE DEF r
<1>2. CASE c = READ_DDR
  <2>1. h = [f EXCEPT !.next_mode = r]
      BY <1>2 DEF Turn, r
  <2>2. Registers(h)
      BY <1>0, <2>1 DEF Registers
  <2>3. /\ h.spi_addr = f.spi_addr
        /\ h.buffer = f.buffer /\ h.bitcount = f.bitcount
        /\ h.bytecount = f.bytecount /\ h.spi_cmd = f.spi_cmd
        /\ h.dummycount = f.dummycount /\ h.powered_up = f.powered_up
        /\ h.mode = f.mode /\ h.xip_cmd = f.xip_cmd /\ h.next_mode = r
        /\ h.oe = f.oe /\ h.dout = f.dout
      BY <1>0, <2>1 DEF Registers
  <2>4. Plain(h)
      BY <1>1, <1>2, <2>2, <2>3 DEF Plain, Typed
  <2> QED
      BY <1>2, <2>3, <2>4 DEF r
<1>3. CASE c # READ_DDR
  <2>1. h = [f EXCEPT !.mode = r]
      BY <1>3 DEF Turn, r
  <2>2. Registers(h)
      BY <1>0, <2>1 DEF Registers
  <2>3. /\ h.spi_addr = f.spi_addr
        /\ h.buffer = f.buffer /\ h.bitcount = f.bitcount
        /\ h.bytecount = f.bytecount /\ h.spi_cmd = f.spi_cmd
        /\ h.dummycount = f.dummycount /\ h.powered_up = f.powered_up
        /\ h.mode = r /\ h.xip_cmd = f.xip_cmd /\ h.next_mode = f.next_mode
        /\ h.oe = f.oe /\ h.dout = f.dout
      BY <1>0, <2>1 DEF Registers
  <2>4. Plain(h)
      BY <1>1, <2>2, <2>3 DEF Plain, Typed
  <2> QED
      BY <1>3, <2>3, <2>4 DEF r
<1> QED
    BY <1>2, <1>3

(* The opcode of a read, to a flash that is awake.                         *)
Awake(f) == f.powered_up

(* It is understood, and the read is at the first bit of its header.       *)
LEMMA ReadOpcode ==
    ASSUME NEW c \in Reads, NEW a \in 0 .. FlashSize - 1,
           NEW f, OpcodeIn(f, c, 7), Awake(f),
           NEW io, BitOf(io, c, 7), NEW g, g = ClkHigh(f, io)
    PROVE  /\ ReadAt(g, c, a, 0, 0) /\ g.dummycount = 0 /\ g.oe = {1} /\ g.dout = 0
           /\ g.mode = IF c = READ_DDR THEN "spi" ELSE RdMode(c)
           /\ g.next_mode = IF c = READ_DDR THEN "qspi_ddr_rd" ELSE "none"
<1> DEFINE k == Whole(f, c)
           d == Decode(k)
<1>1. /\ g = spi_action(k)
      /\ Plain(k) /\ Same(f, k) /\ k.buffer = c
      /\ k.bitcount = 0 /\ k.bytecount = 1
      /\ k.dummycount = 0 /\ k.powered_up = f.powered_up /\ k.mode = "spi"
  <2>1. c \in 0 .. 255
      BY DEF Reads, READ_STD, READ_DUAL, READ_QUAD, READ_DDR
  <2>2. k = Whole(f, c)
      OBVIOUS
  <2> HIDE DEF k
  <2>3. /\ ClkHigh(f, io) = spi_action(k)
        /\ Plain(k) /\ Same(f, k) /\ k.buffer = c
        /\ k.bitcount = 0 /\ k.bytecount = 1
        /\ k.dummycount = 0 /\ k.powered_up = f.powered_up /\ k.mode = "spi"
      BY <2>1, <2>2, OpcodeWhole
  <2> QED
      BY <2>3
<1>2. k.oe = {1} /\ k.dout = 0 /\ k.next_mode = "none"
    BY <1>1 DEF Same, OpcodeIn, Quiet
<1> HIDE DEF k
<1>3. c # POWER_UP /\ c # POWER_DOWN
    BY DEF Reads, READ_STD, READ_DUAL, READ_QUAD, READ_DDR, POWER_UP, POWER_DOWN
<1>4. /\ Plain(d) /\ Same(k, d) /\ d.buffer = c
      /\ d.bitcount = 0 /\ d.bytecount = 1
      /\ d.dummycount = 0 /\ d.mode = "spi" /\ d.spi_cmd = c
      /\ d.powered_up
  <2>1. k.buffer \in Reads \cup Orders
      BY <1>1
  <2>2. /\ Plain(d) /\ Same(k, d) /\ d.buffer = k.buffer
        /\ d.bitcount = k.bitcount /\ d.bytecount = 1
        /\ d.dummycount = k.dummycount /\ d.mode = k.mode
        /\ d.spi_cmd = k.buffer
        /\ d.powered_up = (k.buffer = POWER_UP
                             \/ (k.powered_up /\ k.buffer # POWER_DOWN))
      BY <1>1, <2>1, DecodeAny
  <2> QED
      BY <1>1, <1>3, <2>2 DEF Awake
<1>5. d.oe = {1} /\ d.dout = 0 /\ d.next_mode = "none"
    BY <1>2, <1>4 DEF Same
<1>6. g = IF c = READ_STD THEN StandardRead(d) ELSE FastRead(d, RdMode(c), WrMode(c))
  <2>1. c = READ_STD \/ c = READ_DUAL \/ c = READ_QUAD \/ c = READ_DDR
      BY DEF Reads
  <2>2. READ_STD # READ_DUAL /\ READ_STD # READ_QUAD /\ READ_STD # READ_DDR
        /\ READ_DUAL # READ_QUAD /\ READ_DUAL # READ_DDR /\ READ_QUAD # READ_DDR
      BY DEF READ_STD, READ_DUAL, READ_QUAD, READ_DDR
  <2>3. g = CASE ~ d.powered_up          -> d
              [] d.spi_cmd = READ_STD    -> StandardRead(d)
              [] d.spi_cmd = READ_DUAL   -> FastRead(d, "dspi_rd", "dspi_wr")
              [] d.spi_cmd = READ_QUAD   -> FastRead(d, "qspi_rd", "qspi_wr")
              [] d.spi_cmd = READ_DDR    -> FastRead(d, "qspi_ddr_rd", "qspi_ddr_wr")
              [] OTHER                   -> d
      BY <1>1 DEF spi_action
  <2> HIDE DEF d
  <2> QED
      BY <1>4, <2>1, <2>2, <2>3 DEF RdMode, WrMode
<1> HIDE DEF d
<1> DEFINE t == IF c = READ_STD THEN d ELSE Turn(d, RdMode(c))
<1>7. /\ Plain(t) /\ t.oe = {1} /\ t.dout = 0 /\ t.buffer = c
      /\ t.bitcount = 0 /\ t.bytecount = 1 /\ t.dummycount = 0 /\ t.spi_cmd = c
      /\ t.powered_up
      /\ t.mode = IF c = READ_DDR THEN "spi" ELSE RdMode(c)
      /\ t.next_mode = IF c = READ_DDR THEN "qspi_ddr_rd" ELSE "none"
  <2>1. CASE c = READ_STD
    <3>1. c # READ_DDR /\ RdMode(c) = "spi"
        BY <2>1 DEF RdMode, READ_STD, READ_DDR
    <3> QED
        BY <1>4, <1>5, <2>1, <3>1
  <2>2. CASE c # READ_STD
    <3>0. t = Turn(d, RdMode(c)) /\ Plain(d) /\ d.bytecount = 1 /\ d.spi_cmd = c
        BY <1>4, <2>2
    <3> HIDE DEF t
    <3>1. /\ Plain(t) /\ t.oe = d.oe /\ t.dout = d.dout /\ t.buffer = d.buffer
          /\ t.bitcount = d.bitcount /\ t.bytecount = 1
          /\ t.dummycount = d.dummycount /\ t.spi_cmd = c
          /\ t.spi_addr = d.spi_addr /\ t.powered_up = d.powered_up
          /\ t.mode = (IF c = READ_DDR THEN d.mode ELSE RdMode(c))
          /\ t.next_mode = (IF c = READ_DDR THEN RdMode(c) ELSE d.next_mode)
        BY <2>2, <3>0, TurnLemma
    <3>2. c = READ_DDR => RdMode(c) = "qspi_ddr_rd"
        BY DEF RdMode, READ_STD, READ_DUAL, READ_QUAD, READ_DDR
    <3> QED
        BY <1>4, <1>5, <3>1, <3>2
  <2> QED
      BY <2>1, <2>2
<1>8. g = AddressByte(t)
  <2> DEFINE h == AddressByte(Turn(d, RdMode(c)))
  <2>1. CASE c = READ_STD
      BY <1>4, <1>6, <2>1 DEF StandardRead
  <2>2. CASE c # READ_STD
    <3>1. g = ModeByte(AddressByte(t), WrMode(c))
        BY <1>4, <1>6, <2>2 DEF FastRead
    <3> HIDE DEF t
    <3>2. AddressByte(t).bytecount = 1
      <4>1. Registers(t)
          BY <1>7 DEF Plain, Typed
      <4> QED
          BY <1>7, <4>1 DEF AddressByte, Registers
    <3> QED
        BY <3>1, <3>2 DEF ModeByte
  <2> QED
      BY <2>1, <2>2
<1> HIDE DEF t
<1>9. Counter(t) = t.spi_addr /\ Counter(t) \in 0 .. FlashSize - 1
    BY <1>7 DEF Counter, Plain, Typed
<1>10. /\ Plain(g) /\ Same(t, g) /\ g.buffer = t.buffer
       /\ g.bitcount = t.bitcount /\ g.bytecount = t.bytecount
       /\ g.dummycount = t.dummycount /\ g.spi_cmd = t.spi_cmd
       /\ g.powered_up = t.powered_up /\ g.mode = t.mode
  <2>1. Plain(t)
      BY <1>7
  <2> QED
      BY <1>8, <1>9, <2>1, CounterLemma
<1>11. BitsAreIn(g.buffer, Part(a, 0), 0)
  <2>1. g.buffer \in 0 .. 255 /\ Part(a, 0) \in 0 .. 255
      BY <1>10, PartLemma DEF Plain, Typed
  <2> QED
      BY <2>1, SMTT(60) DEF BitsAreIn, Low, High
<1>12. ReadAt(g, c, a, 0, 0)
  <2>1. HeaderIn(g, a, 0, 0)
      BY <1>11 DEF HeaderIn
  <2>2. ~ 0 >= Hd(c) /\ 0 + 1 = 1
      BY DEF Hd
  <2> QED
      BY <1>7, <1>10, <2>1, <2>2 DEF ReadAt
<1> QED
    BY <1>7, <1>10, <1>12 DEF Same

(* The opcodes that are not reads set powered_up.                          *)
LEMMA OrderOpcode ==
    ASSUME NEW c \in Orders,
           NEW f, OpcodeIn(f, c, 7), NEW io, BitOf(io, c, 7), NEW g, g = ClkHigh(f, io)
    PROVE  OrderIn(g, c)
<1> DEFINE k == Whole(f, c)
           d == Decode(k)
<1>1. /\ g = spi_action(k)
      /\ Plain(k) /\ Same(f, k) /\ k.buffer = c
      /\ k.bitcount = 0 /\ k.bytecount = 1
      /\ k.dummycount = 0 /\ k.powered_up = f.powered_up /\ k.mode = "spi"
  <2>1. c \in 0 .. 255
      BY DEF Orders, POWER_UP, POWER_DOWN
  <2> QED
      BY <2>1, OpcodeWhole
<1>2. k.oe = {1} /\ k.dout = 0 /\ k.next_mode = "none"
    BY <1>1 DEF Same, OpcodeIn, Quiet
<1> HIDE DEF k
<1>3. /\ Plain(d) /\ Same(k, d) /\ d.dummycount = 0 /\ d.mode = "spi"
      /\ d.spi_cmd = c /\ d.powered_up = (c = POWER_UP)
  <2>1. k.buffer \in Reads \cup Orders
      BY <1>1
  <2>2. /\ Plain(d) /\ Same(k, d) /\ d.buffer = k.buffer
        /\ d.bitcount = k.bitcount /\ d.bytecount = 1
        /\ d.dummycount = k.dummycount /\ d.mode = k.mode
        /\ d.spi_cmd = k.buffer
        /\ d.powered_up = (k.buffer = POWER_UP
                             \/ (k.powered_up /\ k.buffer # POWER_DOWN))
      BY <1>1, <2>1, DecodeAny
  <2>3. c = POWER_UP \/ c = POWER_DOWN
      BY DEF Orders
  <2>4. POWER_UP # POWER_DOWN
      BY DEF POWER_UP, POWER_DOWN
  <2> QED
      BY <1>1, <2>2, <2>3, <2>4
<1>4. g = d
  <2>1. c # READ_STD /\ c # READ_DUAL /\ c # READ_QUAD /\ c # READ_DDR
      BY DEF Orders, POWER_UP, POWER_DOWN, READ_STD, READ_DUAL, READ_QUAD, READ_DDR
  <2> QED
      BY <1>1, <1>3, <2>1 DEF spi_action
<1> HIDE DEF d
<1> QED
    BY <1>2, <1>3, <1>4 DEF OrderIn, Same, Plain, Quiet

-----------------------------------------------------------------------------
(* What comes in next.                                                     *)
Input(c, a, G, x) == Comes(c, a, G \div 8, G % 8, Wide(c), x)

(* A number of bits as whole bytes and a rest.                             *)
Eight(G, K, r) == G = 8 * K + r

(* Both are found again by dividing.                                       *)
LEMMA EightLemma ==
    ASSUME NEW K \in Nat, NEW r \in 0 .. 7, NEW G, Eight(G, K, r)
    PROVE  G \div 8 = K /\ G % 8 = r
BY DEF Eight

(* Where the next bits put the byte and bit counts.                        *)
LEMMA WideLemma ==
    ASSUME NEW c \in Reads, NEW G \in Nat, G % Wide(c) = 0
    PROVE  /\ Fits(Wide(c), G % 8) /\ G \div 8 \in Nat
           /\ (G % 8) + Wide(c) <= 8
<1>1. Wide(c) = 1 \/ Wide(c) = 2 \/ Wide(c) = 4
    BY DEF Wide
<1>2. G \div 8 \in Nat /\ G % 8 \in 0 .. 7
    OBVIOUS
<1>3. CASE Wide(c) = 1
    BY <1>2, <1>3 DEF Fits
<1>4. CASE Wide(c) = 2
  <2>1. G % 8 \in {0, 2, 4, 6}
      BY <1>4
  <2> QED
      BY <1>2, <1>4, <2>1 DEF Fits
<1>5. CASE Wide(c) = 4
  <2>1. G % 8 \in {0, 4}
      BY <1>5
  <2> QED
      BY <1>2, <1>5, <2>1 DEF Fits
<1> QED
    BY <1>1, <1>3, <1>4, <1>5

(* The next bits of a read are shifted in.                                 *)
LEMMA Advance ==
    ASSUME NEW c \in Reads, NEW a \in 0 .. FlashSize - 1, NEW G \in Nat,
           G % Wide(c) = 0, NEW f, ReadBits(f, c, a, G),
           NEW x, Input(c, a, G, x),
           \A j \in Nat : 8 * (j + Hd(c)) = G + Wide(c) => MemoryByte(a, j) \in 0 .. 255,
           NEW g, g = ShiftIn(f, x, Wide(c))
    PROVE  /\ ReadBits(g, c, a, G + Wide(c)) /\ Same(f, g)
           /\ g.dummycount = IF c # READ_STD /\ G + Wide(c) = 32 THEN 8 ELSE f.dummycount
           /\ g.mode = IF c # READ_STD /\ G + Wide(c) = 32 THEN WrMode(c) ELSE f.mode
<1> DEFINE w == Wide(c)
           K == G \div 8
           b == G % 8
<1>1. Fits(w, b) /\ K \in Nat /\ b + w <= 8 /\ w \in Nat
    BY WideLemma DEF Wide
<1>2. b \in 0 .. 7 /\ G = 8 * K + b
    OBVIOUS
<1>3. ReadAt(f, c, a, K, b) /\ Comes(c, a, K, b, w, x)
    BY DEF ReadBits, Input
<1>4. \A j \in Nat : 8 * (j + Hd(c)) = G + w => MemoryByte(a, j) \in 0 .. 255
    OBVIOUS
<1>5. g = ShiftIn(f, x, w) /\ w \in {1, 2, 4} /\ Hd(c) \in {3, 4}
    BY DEF Wide, Hd
<1>6. /\ b + w < 8 => (G + w) \div 8 = K /\ (G + w) % 8 = b + w /\ G + w # 32
      /\ b + w = 8 => (G + w) \div 8 = K + 1 /\ (G + w) % 8 = 0
                      /\ (G + w = 32 <=> K = 3)
  <2> HIDE DEF w, K, b
  <2>1. K \in Nat /\ w \in 1 .. 4 /\ b \in 0 .. 7 /\ G + w = 8 * K + (b + w)
      BY <1>1, <1>2, <1>5
  <2>2. CASE b + w < 8
    <3>1. b + w \in 1 .. 7
        BY <2>1, <2>2
    <3>2. (G + w) \div 8 = K /\ (G + w) % 8 = b + w
      <4>1. Eight(G + w, K, b + w) /\ K \in Nat /\ b + w \in 0 .. 7
          BY <2>1, <3>1 DEF Eight
      <4> QED
          BY <4>1, EightLemma
    <3>3. G + w # 32
        BY <2>1, <3>1
    <3> QED
        BY <2>2, <3>2, <3>3
  <2>3. CASE b + w = 8
    <3>1. G + w = 8 * (K + 1) + 0 /\ K + 1 \in Nat
        BY <2>1, <2>3
    <3>2. (G + w) \div 8 = K + 1 /\ (G + w) % 8 = 0
      <4>1. Eight(G + w, K + 1, 0) /\ 0 \in 0 .. 7
          BY <3>1 DEF Eight
      <4> QED
          BY <3>1, <4>1, EightLemma
    <3>3. G + w = 32 <=> K = 3
        BY <2>1, <2>3
    <3> QED
        BY <2>3, <3>2, <3>3
  <2> QED
      BY <1>1, <2>1, <2>2, <2>3
<1> HIDE DEF w, K, b
<1>7. CASE b + w < 8
  <2>1. /\ ReadAt(g, c, a, K, b + w) /\ Same(f, g)
        /\ g.dummycount = f.dummycount /\ g.mode = f.mode
      BY <1>1, <1>3, <1>5, <1>7, ReadPart
  <2>2. ReadBits(g, c, a, G + w)
      BY <1>6, <1>7, <2>1 DEF ReadBits
  <2> QED
      BY <1>6, <1>7, <2>1, <2>2 DEF w
<1>8. CASE b + w = 8
  <2>1. K + 1 >= Hd(c) => MemoryByte(a, (K + 1) - Hd(c)) \in 0 .. 255
    <3>1. ASSUME K + 1 >= Hd(c) PROVE MemoryByte(a, (K + 1) - Hd(c)) \in 0 .. 255
      <4> DEFINE j == (K + 1) - Hd(c)
      <4>1. j \in Nat /\ 8 * (j + Hd(c)) = G + w
          BY <1>1, <1>2, <1>5, <1>8, <3>1, SMTT(60)
      <4> HIDE DEF j
      <4>2. MemoryByte(a, j) \in 0 .. 255
          BY <1>4, <4>1
      <4> QED
          BY <4>2 DEF j
    <3> QED
        BY <3>1
  <2>2. /\ ReadAt(g, c, a, K + 1, 0) /\ Same(f, g)
        /\ g.dummycount = (IF c # READ_STD /\ K = 3 THEN 8 ELSE f.dummycount)
        /\ g.mode = (IF c # READ_STD /\ K = 3 THEN WrMode(c) ELSE f.mode)
      BY <1>1, <1>3, <1>5, <1>8, <2>1, ReadWhole
  <2>3. ReadBits(g, c, a, G + w)
      BY <1>6, <1>8, <2>2 DEF ReadBits
  <2> QED
      BY <1>6, <1>8, <2>2, <2>3 DEF w
<1> QED
    BY <1>1, <1>2, <1>7, <1>8

(* A change of the lines or of the mode does not touch it.                 *)
LEMMA ReadKept ==
    ASSUME NEW c, NEW a, NEW G, NEW f, ReadBits(f, c, a, G), NEW g, Plain(g),
           g.buffer = f.buffer, g.bitcount = f.bitcount, g.bytecount = f.bytecount,
           g.spi_cmd = f.spi_cmd, g.spi_addr = f.spi_addr,
           g.powered_up = f.powered_up
    PROVE  ReadBits(g, c, a, G)
<1> DEFINE K == G \div 8
           b == G % 8
<1>1. ReadAt(f, c, a, K, b)
    BY DEF ReadBits
<1> HIDE DEF K, b
<1>2. HeaderIn(f, a, K, b) => HeaderIn(g, a, K, b)
    BY DEF HeaderIn
<1>3. MemoryOut(f, a, K - Hd(c), b) => MemoryOut(g, a, K - Hd(c), b)
    BY DEF MemoryOut
<1>4. ReadAt(g, c, a, K, b)
    BY <1>1, <1>2, <1>3 DEF ReadAt
<1> QED
    BY <1>4 DEF ReadBits, K, b

-----------------------------------------------------------------------------
(* What an edge counts, in the reads that use one edge of clk: a fall      *)
(* nothing,                                                                *)
Single == {READ_STD, READ_DUAL, READ_QUAD}

(* The opcodes, in numbers.                                                *)
Opcodes == /\ READ_STD = 3 /\ READ_DUAL = 187 /\ READ_QUAD = 235 /\ READ_DDR = 237
           /\ POWER_UP = 171 /\ POWER_DOWN = 185

(* What a fall leaves as it is, and when the lines are to be driven.       *)
FallCount(c, e) ==
    /\ Got(c, e + 1) = Got(c, e) /\ Left(c, e + 1) = Left(c, e)
    /\ Got(c, e) \in Nat /\ Left(c, e) \in 0 .. 8
    /\ c = READ_STD => Left(c, e) = 0
    /\ c # READ_STD => (e + 1 < FirstOut(c) <=> Left(c, e) > 0 \/ Got(c, e) < 32)

(* So it is at every fall of such a read.                                  *)
LEMMA FallCounts ==
    ASSUME NEW c \in Single, NEW e \in Nat, e >= 15, e % 2 = 1
    PROVE  FallCount(c, e)
<1>0. Opcodes
    BY DEF Opcodes, READ_STD, READ_DUAL, READ_QUAD, READ_DDR, POWER_UP, POWER_DOWN
<1> DEFINE k == e \div 2
<1>1. k \in Nat /\ e = 2 * k + 1 /\ k >= 7
    OBVIOUS
<1> HIDE DEF k
<1>2. Rises(e) = k - 7 /\ Rises(e + 1) = k - 7
    BY <1>1 DEF Rises
<1>3. CASE c = READ_STD
    BY <1>0, <1>1, <1>2, <1>3 DEF FallCount, Got, Left, Turned, FirstOut, Opcodes
<1>4. CASE c = READ_DUAL
    BY <1>0, <1>1, <1>2, <1>4 DEF FallCount, Got, Left, Turned, FirstOut, Opcodes
<1>5. CASE c = READ_QUAD
    BY <1>0, <1>1, <1>2, <1>5 DEF FallCount, Got, Left, Turned, FirstOut, Opcodes
<1> QED
    BY <1>3, <1>4, <1>5 DEF Single

(* and a rise a dummy clock or the bits of the lines it reads.             *)
RiseCount(c, e) ==
    /\ Got(c, e) \in Nat /\ Got(c, e) % Wide(c) = 0 /\ Left(c, e) \in 0 .. 8
    /\ Left(c, e) > 0 => /\ Got(c, e + 1) = Got(c, e)
                         /\ Left(c, e + 1) = Left(c, e) - 1
                         /\ e + 1 < FirstOut(c) /\ c # READ_STD
    /\ Left(c, e) = 0 =>
         /\ Got(c, e + 1) = Got(c, e) + Wide(c)
         /\ Left(c, e + 1) = IF c # READ_STD /\ Got(c, e) + Wide(c) = 32 THEN 8 ELSE 0
    /\ e < FirstOut(c) <=> e + 1 < FirstOut(c)

(* So it is at every rise of such a read.                                  *)
LEMMA RiseCounts ==
    ASSUME NEW c \in Single, NEW e \in Nat, e >= 16, e % 2 = 0
    PROVE  RiseCount(c, e)
<1>0. Opcodes
    BY DEF Opcodes, READ_STD, READ_DUAL, READ_QUAD, READ_DDR, POWER_UP, POWER_DOWN
<1> DEFINE k == e \div 2
<1>1. k \in Nat /\ e = 2 * k /\ k >= 8
    OBVIOUS
<1> HIDE DEF k
<1>2. Rises(e) = k - 8 /\ Rises(e + 1) = k - 7
    BY <1>1 DEF Rises
<1>3. CASE c = READ_STD
    BY <1>0, <1>1, <1>2, <1>3 DEF RiseCount, Got, Left, Turned, FirstOut, Wide, Opcodes
<1>4. CASE c = READ_DUAL
    BY <1>0, <1>1, <1>2, <1>4 DEF RiseCount, Got, Left, Turned, FirstOut, Wide, Opcodes
<1>5. CASE c = READ_QUAD
    BY <1>0, <1>1, <1>2, <1>5 DEF RiseCount, Got, Left, Turned, FirstOut, Wide, Opcodes
<1> QED
    BY <1>3, <1>4, <1>5 DEF Single

(* A fall of clk in one of these reads only sets the lines.                *)
LEMMA FallSingle ==
    ASSUME NEW c \in Single, NEW e \in Nat, e >= 15, e % 2 = 1, NEW a,
           NEW f, ReadState(f, c, a, e), NEW io, NEW g, g = ClkLow(f, io)
    PROVE  ReadState(g, c, a, e + 1)
<1> DEFINE G == Got(c, e)
           L == Left(c, e)
           r == IF G < 8 * Hd(c) THEN RdMode(c) ELSE WrMode(c)
<1>0. Opcodes
    BY DEF Opcodes, READ_STD, READ_DUAL, READ_QUAD, READ_DDR, POWER_UP, POWER_DOWN
<1>1. /\ ReadBits(f, c, a, G) /\ f.dummycount = L /\ f.next_mode = "none" /\ f.mode = r
    BY <1>0 DEF ReadState, Single, Opcodes
<1>2. /\ Got(c, e + 1) = G /\ Left(c, e + 1) = L /\ G \in Nat /\ L \in 0 .. 8
      /\ c = READ_STD => L = 0
      /\ c # READ_STD => (e + 1 < FirstOut(c) <=> L > 0 \/ G < 32)
  <2>1. FallCount(c, e)
      BY FallCounts
  <2> QED
      BY <2>1 DEF FallCount
<1>3. /\ c = READ_STD => r = "spi"
      /\ c = READ_DUAL => r = IF G < 32 THEN "dspi_rd" ELSE "dspi_wr"
      /\ c = READ_QUAD => r = IF G < 32 THEN "qspi_rd" ELSE "qspi_wr"
  <2> HIDE DEF G
  <2> QED
      BY <1>0, <1>2 DEF RdMode, WrMode, Hd, Opcodes
<1>4. Plain(f) /\ Quiet(f) /\ f.buffer \in 0 .. 255
    BY <1>1 DEF ReadBits, ReadAt, Plain, Quiet, Typed
<1> HIDE DEF G, L, r
<1>5. c = READ_STD \/ c = READ_DUAL \/ c = READ_QUAD
    BY DEF Single
<1>6. f.mode \in {"spi", "dspi_rd", "dspi_wr", "qspi_rd", "qspi_wr"}
    BY <1>1, <1>3, <1>5
<1>7. /\ LowKeeps(f, g) /\ Quiet(g)
      /\ f.dummycount > 0 \/ f.mode = "dspi_rd" \/ f.mode = "qspi_rd" =>
           g.oe = {} /\ g.dout = 0
      /\ f.dummycount = 0 /\ f.mode = "spi" =>
           g.oe = {1} /\ g.dout = 2 * (f.buffer \div 128)
      /\ f.dummycount = 0 /\ f.mode = "dspi_wr" =>
           g.oe = {0, 1} /\ g.dout = f.buffer \div 64
      /\ f.dummycount = 0 /\ f.mode = "qspi_wr" =>
           g.oe = IoLine /\ g.dout = f.buffer \div 16
    BY <1>4, <1>6, LowLemma
<1>8. /\ g.buffer = f.buffer /\ g.bitcount = f.bitcount
      /\ g.bytecount = f.bytecount /\ g.dummycount = f.dummycount
      /\ g.spi_cmd = f.spi_cmd /\ g.spi_addr = f.spi_addr
      /\ g.powered_up = f.powered_up
      /\ g.mode = f.mode /\ g.next_mode = f.next_mode /\ Plain(g)
    BY <1>7 DEF LowKeeps, Quiet, Plain
<1>9. ReadBits(g, c, a, G)
    BY <1>1, <1>8, ReadKept
<1>10. LinesAt(g, c, a, e + 1)
  <2>1. e + 1 # 15 /\ (e + 1) % 2 = 0
      OBVIOUS
  <2>2. CASE c = READ_STD
    <3>1. g.oe = {1} /\ g.dout = 2 * (g.buffer \div 128)
        BY <1>1, <1>2, <1>3, <1>7, <1>8, <2>2
    <3>2. 2 * (g.buffer \div 128) \in {0, 2}
        BY <1>4, <1>8
    <3> QED
        BY <2>1, <2>2, <3>1, <3>2 DEF LinesAt
  <2>3. CASE c # READ_STD /\ e + 1 < FirstOut(c)
    <3>1. g.oe = {} /\ g.dout = 0
        BY <1>1, <1>2, <1>3, <1>5, <1>7, <2>3
    <3> QED
        BY <2>1, <2>3, <3>1 DEF LinesAt
  <2>4. CASE c = READ_DUAL /\ ~ e + 1 < FirstOut(c)
    <3>1. L = 0 /\ ~ G < 32 /\ c # READ_STD /\ c # READ_QUAD /\ c # READ_DDR
        BY <1>0, <1>2, <2>4 DEF Opcodes
    <3>2. g.oe = {0, 1} /\ g.dout = g.buffer \div 64
        BY <1>1, <1>3, <1>7, <1>8, <2>4, <3>1
    <3>3. g.buffer \div 64 \in 0 .. 3 /\ 0 .. Wide(c) - 1 = {0, 1}
        BY <1>0, <1>4, <1>8, <2>4 DEF Wide, Opcodes
    <3> QED
        BY <2>1, <2>4, <3>1, <3>2, <3>3 DEF LinesAt
  <2>5. CASE c = READ_QUAD /\ ~ e + 1 < FirstOut(c)
    <3>1. L = 0 /\ ~ G < 32 /\ c # READ_STD /\ c # READ_DUAL /\ c # READ_DDR
        BY <1>0, <1>2, <2>5 DEF Opcodes
    <3>2. g.oe = IoLine /\ g.dout = g.buffer \div 16
        BY <1>1, <1>3, <1>7, <1>8, <2>5, <3>1
    <3>3. 0 .. Wide(c) - 1 = IoLine
        BY <1>0, <2>5 DEF Wide, IoLine, Opcodes
    <3> QED
        BY <2>1, <2>5, <3>1, <3>2, <3>3 DEF LinesAt
  <2> QED
      BY <1>5, <2>2, <2>3, <2>4, <2>5
<1>11. e + 1 # 15
    OBVIOUS
<1> QED
    BY <1>1, <1>2, <1>8, <1>9, <1>10, <1>11 DEF ReadState, r

(* The bits of the lines that such a read takes.                           *)
Taking(c, io) == IF c = READ_STD THEN io % 2 ELSE IF c = READ_DUAL THEN io % 4 ELSE io

(* A byte that is fetched after e edges is one of the memory.              *)
Stored(c, a, e) ==
    \A j \in Nat : 8 * (j + Hd(c)) = Got(c, e) => MemoryByte(a, j) \in 0 .. 255

(* A rise counts a dummy clock or takes the bits on the lines.             *)
LEMMA RiseSingle ==
    ASSUME NEW c \in Single, NEW e \in Nat, e >= 16, e % 2 = 0,
           NEW a \in 0 .. FlashSize - 1, NEW f, ReadState(f, c, a, e),
           NEW io, Left(c, e) = 0 => Input(c, a, Got(c, e), Taking(c, io)),
           Stored(c, a, e + 1), NEW g, g = ClkHigh(f, io)
    PROVE  ReadState(g, c, a, e + 1)
<1> DEFINE G == Got(c, e)
           L == Left(c, e)
           r == IF G < 8 * Hd(c) THEN RdMode(c) ELSE WrMode(c)
           x == Taking(c, io)
<1>0. Opcodes
    BY DEF Opcodes, READ_STD, READ_DUAL, READ_QUAD, READ_DDR, POWER_UP, POWER_DOWN
<1>1. /\ ReadBits(f, c, a, G) /\ f.dummycount = L /\ f.next_mode = "none" /\ f.mode = r
      /\ LinesAt(f, c, a, e)
    BY <1>0 DEF ReadState, Single, Opcodes
<1>2. /\ G \in Nat /\ G % Wide(c) = 0 /\ L \in 0 .. 8
      /\ L > 0 => /\ Got(c, e + 1) = G /\ Left(c, e + 1) = L - 1
                  /\ e + 1 < FirstOut(c) /\ c # READ_STD
      /\ L = 0 =>
           /\ Got(c, e + 1) = G + Wide(c)
           /\ Left(c, e + 1) = IF c # READ_STD /\ G + Wide(c) = 32 THEN 8 ELSE 0
      /\ e < FirstOut(c) <=> e + 1 < FirstOut(c)
  <2>1. RiseCount(c, e)
      BY RiseCounts
  <2> QED
      BY <2>1 DEF RiseCount
<1>3. Plain(f) /\ Quiet(f)
    BY <1>1 DEF ReadBits, ReadAt, Plain, Quiet, Typed
<1>4. c = READ_STD \/ c = READ_DUAL \/ c = READ_QUAD
    BY DEF Single
<1>5. c \in Reads /\ c # READ_DDR
    BY <1>0, <1>4 DEF Reads, Opcodes
<1>6. /\ c = READ_STD => r = "spi"
      /\ c = READ_DUAL => r = IF G < 32 THEN "dspi_rd" ELSE "dspi_wr"
      /\ c = READ_QUAD => r = IF G < 32 THEN "qspi_rd" ELSE "qspi_wr"
  <2> HIDE DEF G
  <2> QED
      BY <1>0, <1>2 DEF RdMode, WrMode, Hd, Opcodes
<1>7. ASSUME g.oe = f.oe, g.dout = f.dout PROVE LinesAt(g, c, a, e + 1)
  <2>1. e # 15 /\ e + 1 # 15 /\ (e + 1) % 2 # 0 /\ e % 2 = 0
      OBVIOUS
  <2> HIDE DEF G, L, r, x
  <2>2. CASE c = READ_STD
      BY <1>1, <1>7, <2>1, <2>2 DEF LinesAt
  <2>3. CASE c # READ_STD /\ e < FirstOut(c)
      BY <1>1, <1>2, <1>7, <2>1, <2>3 DEF LinesAt
  <2>4. CASE c # READ_STD /\ ~ e < FirstOut(c)
      BY <1>1, <1>2, <1>5, <1>7, <2>1, <2>4 DEF LinesAt
  <2> QED
      BY <2>2, <2>3, <2>4
<1>8. CASE L > 0
  <2> HIDE DEF G, L, r, x
  <2>1. /\ Quiet(g) /\ g.dummycount = f.dummycount - 1
        /\ g.buffer = f.buffer /\ g.bitcount = f.bitcount
        /\ g.bytecount = f.bytecount /\ g.spi_cmd = f.spi_cmd
        /\ g.spi_addr = f.spi_addr /\ g.powered_up = f.powered_up
        /\ g.mode = f.mode /\ g.oe = f.oe /\ g.dout = f.dout
    <3>1. f.dummycount > 0
        BY <1>1, <1>8
    <3> QED
        BY <1>3, <3>1, HighDummy
  <2>2. Plain(g) /\ g.next_mode = "none"
      BY <2>1 DEF Quiet, Plain
  <2>3. ReadBits(g, c, a, G)
      BY <1>1, <2>1, <2>2, ReadKept
  <2> QED
      BY <1>1, <1>2, <1>5, <1>7, <1>8, <2>1, <2>2, <2>3 DEF ReadState, r
<1>9. CASE L = 0
  <2>1. g = ShiftIn(f, x, Wide(c))
    <3>1. f.dummycount = 0 /\ f.mode = r
        BY <1>1, <1>9
    <3> HIDE DEF G, L, r
    <3>2. CASE c = READ_STD
      <4>1. f.mode = "spi" /\ x = io % 2 /\ Wide(c) = 1
          BY <1>6, <3>1, <3>2 DEF Taking, Wide
      <4> QED
          BY <3>1, <4>1 DEF ClkHigh
    <3>3. CASE c = READ_DUAL
      <4>1. f.mode \in {"dspi_rd", "dspi_wr"} /\ x = io % 4 /\ Wide(c) = 2
          BY <1>0, <1>6, <3>1, <3>3 DEF Taking, Wide, Opcodes
      <4> QED
          BY <3>1, <4>1 DEF ClkHigh
    <3>4. CASE c = READ_QUAD
      <4>1. f.mode \in {"qspi_rd", "qspi_wr"} /\ x = io /\ Wide(c) = 4
          BY <1>0, <1>6, <3>1, <3>4 DEF Taking, Wide, Opcodes
      <4> QED
          BY <3>1, <4>1 DEF ClkHigh
    <3> QED
        BY <1>4, <3>2, <3>3, <3>4
  <2>2. Input(c, a, G, x)
      BY <1>9
  <2>3. \A j \in Nat : 8 * (j + Hd(c)) = G + Wide(c) => MemoryByte(a, j) \in 0 .. 255
    <3>1. Got(c, e + 1) = G + Wide(c)
        BY <1>2, <1>9
    <3> HIDE DEF G
    <3> QED
        BY <3>1 DEF Stored
  <2> HIDE DEF G, L, x
  <2>4. /\ ReadBits(g, c, a, G + Wide(c)) /\ Same(f, g)
        /\ g.dummycount = (IF c # READ_STD /\ G + Wide(c) = 32 THEN 8 ELSE f.dummycount)
        /\ g.mode = (IF c # READ_STD /\ G + Wide(c) = 32 THEN WrMode(c) ELSE f.mode)
      BY <1>1, <1>2, <1>5, <2>1, <2>2, <2>3, Advance
  <2>5. g.next_mode = "none" /\ LinesAt(g, c, a, e + 1)
      BY <1>1, <1>7, <2>4 DEF Same
  <2>6. g.dummycount = Left(c, e + 1) /\ ReadBits(g, c, a, Got(c, e + 1))
      BY <1>1, <1>2, <1>9, <2>4
  <2>7. g.mode = IF Got(c, e + 1) < 8 * Hd(c) THEN RdMode(c) ELSE WrMode(c)
    <3>1. CASE c = READ_STD
        BY <1>1, <1>6, <2>4, <3>1 DEF RdMode, WrMode
    <3>2. CASE c # READ_STD
      <4>1. Wide(c) \in {2, 4} /\ Hd(c) = 4 /\ Got(c, e + 1) = G + Wide(c)
          BY <1>2, <1>9, <3>2 DEF Wide, Hd
      <4>2. (G % 2 = 0 /\ Wide(c) = 2) \/ (G % 4 = 0 /\ Wide(c) = 4)
          BY <1>2, <4>1
      <4>3. G < 32 => G + Wide(c) < 32 \/ G + Wide(c) = 32
          BY <1>2, <4>2
      <4> QED
          BY <1>1, <1>2, <2>4, <3>2, <4>1, <4>3 DEF r
    <3> QED
        BY <3>1, <3>2
  <2> QED
      BY <1>5, <2>5, <2>6, <2>7 DEF ReadState
<1> QED
    BY <1>2, <1>8, <1>9

-----------------------------------------------------------------------------
(* What an edge counts in a ddr read: a nibble of the header,              *)
DdrHeaderCount(e) ==
    /\ Got(READ_DDR, e) \in Nat /\ Got(READ_DDR, e) % 4 = 0 /\ Got(READ_DDR, e) < 32
    /\ Got(READ_DDR, e + 1) = Got(READ_DDR, e) + 4 /\ Left(READ_DDR, e) = 0
    /\ Left(READ_DDR, e + 1) = IF Got(READ_DDR, e) + 4 = 32 THEN 8 ELSE 0

(* a dummy clock if it is a rise,                                          *)
DdrWaitCount(e) ==
    /\ Got(READ_DDR, e) = 32 /\ Got(READ_DDR, e + 1) = 32 /\ Left(READ_DDR, e) \in 1 .. 8
    /\ e % 2 = 0 => Left(READ_DDR, e + 1) = Left(READ_DDR, e) - 1
    /\ e % 2 = 1 => Left(READ_DDR, e + 1) = Left(READ_DDR, e)

(* and a nibble of the memory.                                             *)
DdrDataCount(e, j) ==
    /\ Got(READ_DDR, e) = 8 * (j + 4) + (IF e % 2 = 1 THEN 0 ELSE 4)
    /\ Got(READ_DDR, e + 1) = Got(READ_DDR, e) + 4
    /\ Left(READ_DDR, e) = 0 /\ Left(READ_DDR, e + 1) = 0
    /\ ((e + 1) - 40) \div 2 = j

(* So it is at every edge of a ddr read.                                   *)
LEMMA DdrCounts ==
    ASSUME NEW e \in Nat, e >= 16
    PROVE  /\ e < 24 => DdrHeaderCount(e)
           /\ 24 <= e /\ e < 39 => DdrWaitCount(e)
           /\ e >= 39 => DdrDataCount(e, (e - 39) \div 2)
<1>0. Opcodes
    BY DEF Opcodes, READ_STD, READ_DUAL, READ_QUAD, READ_DDR, POWER_UP, POWER_DOWN
<1> DEFINE k == e \div 2
<1>1. k \in Nat /\ k >= 8 /\ (e = 2 * k \/ e = 2 * k + 1)
    OBVIOUS
<1> HIDE DEF k
<1>2. CASE e = 2 * k
  <2>1. Rises(e) = k - 8 /\ Rises(e + 1) = k - 7 /\ e % 2 = 0
      BY <1>1, <1>2 DEF Rises
  <2>2. e < 24 => DdrHeaderCount(e)
      BY <1>0, <1>1, <1>2, <2>1 DEF DdrHeaderCount, Got, Left, Turned, Opcodes
  <2>3. 24 <= e /\ e < 39 => DdrWaitCount(e)
      BY <1>0, <1>1, <1>2, <2>1 DEF DdrWaitCount, Got, Left, Turned, Opcodes
  <2>4. e >= 39 => DdrDataCount(e, (e - 39) \div 2)
    <3>1. ASSUME e >= 39 PROVE DdrDataCount(e, (e - 39) \div 2)
      <4>1. (e - 39) \div 2 = k - 20 /\ ((e + 1) - 40) \div 2 = k - 20 /\ k >= 20
          BY <1>1, <1>2, <3>1
      <4> QED
          BY <1>0, <1>1, <1>2, <2>1, <3>1, <4>1 DEF DdrDataCount, Got, Left, Turned, Opcodes
    <3> QED
        BY <3>1
  <2> QED
      BY <2>2, <2>3, <2>4
<1>3. CASE e = 2 * k + 1
  <2>1. Rises(e) = k - 7 /\ Rises(e + 1) = k - 7 /\ e % 2 = 1
      BY <1>1, <1>3 DEF Rises
  <2>2. e < 24 => DdrHeaderCount(e)
      BY <1>0, <1>1, <1>3, <2>1 DEF DdrHeaderCount, Got, Left, Turned, Opcodes
  <2>3. 24 <= e /\ e < 39 => DdrWaitCount(e)
      BY <1>0, <1>1, <1>3, <2>1 DEF DdrWaitCount, Got, Left, Turned, Opcodes
  <2>4. e >= 39 => DdrDataCount(e, (e - 39) \div 2)
    <3>1. ASSUME e >= 39 PROVE DdrDataCount(e, (e - 39) \div 2)
      <4>1. (e - 39) \div 2 = k - 19 /\ ((e + 1) - 40) \div 2 = k - 19 /\ k >= 19
          BY <1>1, <1>3, <3>1
      <4> QED
          BY <1>0, <1>1, <1>3, <2>1, <3>1, <4>1 DEF DdrDataCount, Got, Left, Turned, Opcodes
    <3> QED
        BY <3>1
  <2> QED
      BY <2>2, <2>3, <2>4
<1> QED
    BY <1>1, <1>2, <1>3

(* The parameters of a ddr read.                                           *)
DdrFacts == /\ READ_DDR \in Reads /\ READ_DDR # READ_STD /\ READ_DDR # READ_DUAL
            /\ READ_DDR # READ_QUAD /\ Wide(READ_DDR) = 4 /\ Hd(READ_DDR) = 4
            /\ RdMode(READ_DDR) = "qspi_ddr_rd" /\ WrMode(READ_DDR) = "qspi_ddr_wr"
            /\ FirstOut(READ_DDR) = 40

(* They are what the definitions make them.                                *)
LEMMA DdrLemma == DdrFacts
BY DEF DdrFacts, Reads, Wide, Hd, RdMode, WrMode, FirstOut, Turned,
       READ_STD, READ_DUAL, READ_QUAD, READ_DDR

(* The fall after the opcode turns the lines round.                        *)
LEMMA DdrTurn ==
    ASSUME NEW a, NEW f, ReadState(f, READ_DDR, a, 15), NEW io, NEW g, g = ClkLow(f, io)
    PROVE  ReadState(g, READ_DDR, a, 16)
<1>0. DdrFacts
    BY DdrLemma
<1>1. Got(READ_DDR, 15) = 0 /\ Got(READ_DDR, 16) = 0
    BY <1>0 DEF Got, DdrFacts
<1>2. Left(READ_DDR, 15) = 0 /\ Left(READ_DDR, 16) = 0
    BY <1>0 DEF Left, Turned, DdrFacts
<1>3. /\ ReadBits(f, READ_DDR, a, 0) /\ f.dummycount = 0
      /\ f.mode = "spi" /\ f.next_mode = "qspi_ddr_rd"
    BY <1>1, <1>2 DEF ReadState
<1>4. Plain(f) /\ Registers(f)
    BY <1>3 DEF ReadBits, ReadAt, Plain, Typed
<1> DEFINE v == 2 * (f.buffer \div 128)
           h == Drive(f, {1}, v)
           k == Drive(h, {}, 0)
<1>5. LowPhase(f, io) = h
    BY <1>3 DEF LowPhase
<1> HIDE DEF v
<1>6. LowKeeps(f, h) /\ Registers(h)
    BY <1>4, DriveLemma DEF LowKeeps
<1> HIDE DEF h
<1>7. LowKeeps(h, k) /\ Registers(k) /\ k.oe = {} /\ k.dout = 0
    BY <1>6, DriveLemma DEF LowKeeps
<1>8. g = [k EXCEPT !.mode = "qspi_ddr_rd", !.next_mode = "none"]
  <2>1. h.next_mode = "qspi_ddr_rd"
      BY <1>3, <1>6 DEF LowKeeps
  <2> HIDE DEF k
  <2>2. g = NextMode(h)
      BY <1>5 DEF ClkLow
  <2> QED
      BY <2>1, <2>2 DEF NextMode, k
<1> HIDE DEF k
<1>9. Registers(g)
    BY <1>7, <1>8 DEF Registers
<1>10. /\ g.spi_addr = k.spi_addr
       /\ g.buffer = k.buffer /\ g.bitcount = k.bitcount
       /\ g.bytecount = k.bytecount /\ g.spi_cmd = k.spi_cmd
       /\ g.dummycount = k.dummycount /\ g.powered_up = k.powered_up
       /\ g.mode = "qspi_ddr_rd" /\ g.xip_cmd = k.xip_cmd /\ g.next_mode = "none"
       /\ g.oe = k.oe /\ g.dout = k.dout
    BY <1>7, <1>8 DEF Registers
<1>11. /\ g.spi_addr = f.spi_addr
       /\ g.buffer = f.buffer /\ g.bitcount = f.bitcount
       /\ g.bytecount = f.bytecount /\ g.spi_cmd = f.spi_cmd
       /\ g.dummycount = f.dummycount /\ g.powered_up = f.powered_up
       /\ g.xip_cmd = f.xip_cmd
    BY <1>6, <1>7, <1>10 DEF LowKeeps
<1>12. Plain(g)
  <2>1. "qspi_ddr_rd" \in Mode /\ {} \in SUBSET IoLine /\ 0 \in 0 .. 15
      BY DEF Mode
  <2> QED
      BY <1>4, <1>7, <1>9, <1>10, <1>11, <2>1 DEF Plain, Typed
<1>13. ReadBits(g, READ_DDR, a, 0)
    BY <1>3, <1>11, <1>12, ReadKept
<1>14. LinesAt(g, READ_DDR, a, 16)
    BY <1>0, <1>7, <1>10 DEF LinesAt, DdrFacts
<1> QED
    BY <1>0, <1>1, <1>2, <1>3, <1>10, <1>11, <1>13, <1>14 DEF ReadState, DdrFacts

(* An edge in the header takes a nibble,                                   *)
LEMMA DdrHeader ==
    ASSUME NEW e \in Nat, e >= 16, e < 24, NEW a \in 0 .. FlashSize - 1,
           NEW f, ReadState(f, READ_DDR, a, e),
           NEW io, Input(READ_DDR, a, Got(READ_DDR, e), io),
           Stored(READ_DDR, a, e + 1),
           NEW g, g = ClkHigh(f, io) \/ g = ClkLow(f, io)
    PROVE  ReadState(g, READ_DDR, a, e + 1)
<1> DEFINE c == READ_DDR
           G == Got(c, e)
           h == ShiftIn(f, io, 4)
<1>0. DdrFacts
    BY DdrLemma
<1>1. /\ G \in Nat /\ G % 4 = 0 /\ G < 32
      /\ Got(c, e + 1) = G + 4 /\ Left(c, e) = 0
      /\ Left(c, e + 1) = IF G + 4 = 32 THEN 8 ELSE 0
  <2>1. DdrHeaderCount(e)
      BY DdrCounts
  <2> QED
      BY <2>1 DEF DdrHeaderCount
<1>2. /\ ReadBits(f, c, a, G) /\ f.dummycount = 0 /\ f.next_mode = "none"
      /\ f.mode = "qspi_ddr_rd" /\ f.oe = {} /\ f.dout = 0
  <2>1. e # 15 /\ e < 40
      OBVIOUS
  <2>2. LinesAt(f, c, a, e)
      BY DEF ReadState
  <2>3. f.oe = {} /\ f.dout = 0
      BY <1>0, <2>1, <2>2 DEF LinesAt, DdrFacts
  <2>4. ReadBits(f, c, a, G) /\ f.dummycount = 0 /\ f.next_mode = "none"
      BY <1>1, <2>1 DEF ReadState
  <2>5. f.mode = IF G < 8 * Hd(c) THEN RdMode(c) ELSE WrMode(c)
      BY <2>1 DEF ReadState
  <2>6. f.mode = "qspi_ddr_rd"
    <3> HIDE DEF G
    <3> QED
        BY <1>0, <1>1, <2>5 DEF DdrFacts
  <2> QED
      BY <2>3, <2>4, <2>6
<1>3. Input(c, a, G, io)
    OBVIOUS
<1>4. \A j \in Nat : 8 * (j + Hd(c)) = G + Wide(c) => MemoryByte(a, j) \in 0 .. 255
  <2>1. Got(c, e + 1) = G + Wide(c)
      BY <1>0, <1>1 DEF DdrFacts
  <2> HIDE DEF G
  <2> QED
      BY <2>1 DEF Stored
<1>5. h = ShiftIn(f, io, Wide(c)) /\ c \in Reads /\ G % Wide(c) = 0
    BY <1>0, <1>1 DEF DdrFacts
<1> HIDE DEF c, G, h
<1>6. /\ ReadBits(h, c, a, G + Wide(c)) /\ Same(f, h)
      /\ h.dummycount = (IF c # READ_STD /\ G + Wide(c) = 32 THEN 8 ELSE f.dummycount)
      /\ h.mode = (IF c # READ_STD /\ G + Wide(c) = 32 THEN WrMode(c) ELSE f.mode)
    BY <1>1, <1>2, <1>3, <1>4, <1>5, Advance
<1>7. c # READ_STD /\ Wide(c) = 4 /\ Hd(c) = 4
      /\ RdMode(c) = "qspi_ddr_rd" /\ WrMode(c) = "qspi_ddr_wr"
    BY <1>0 DEF DdrFacts, c
<1>8. g = h
  <2>1. ClkHigh(f, io) = h
      BY <1>2 DEF ClkHigh, ddr_rd_edge, h
  <2>2. LowPhase(f, io) = h
      BY <1>2 DEF LowPhase, ddr_rd_edge, h
  <2>3. h.next_mode = "none"
      BY <1>2, <1>6 DEF Same
  <2>4. ClkLow(f, io) = h
      BY <2>2, <2>3 DEF ClkLow, NextMode
  <2> QED
      BY <2>1, <2>4
<1>9. /\ ReadBits(g, c, a, Got(c, e + 1)) /\ g.dummycount = Left(c, e + 1)
      /\ g.next_mode = "none" /\ g.oe = {} /\ g.dout = 0
    BY <1>1, <1>2, <1>6, <1>7, <1>8 DEF Same
<1>10. g.mode = IF Got(c, e + 1) < 8 * Hd(c) THEN RdMode(c) ELSE WrMode(c)
  <2>1. G + 4 = 32 \/ G + 4 < 32
      BY <1>1
  <2> QED
      BY <1>1, <1>2, <1>6, <1>7, <1>8, <2>1
<1>11. LinesAt(g, c, a, e + 1)
  <2>1. e + 1 # 15 /\ e + 1 < 40
      OBVIOUS
  <2> QED
      BY <1>0, <1>9, <2>1 DEF LinesAt, DdrFacts, c
<1>12. e + 1 # 15
    OBVIOUS
<1> QED
    BY <1>9, <1>10, <1>11, <1>12 DEF ReadState, c

(* one in the dummy clocks none,                                           *)
LEMMA DdrWait ==
    ASSUME NEW e \in Nat, 24 <= e, e < 39, NEW a,
           NEW f, ReadState(f, READ_DDR, a, e),
           NEW io, NEW g, g = IF e % 2 = 0 THEN ClkHigh(f, io) ELSE ClkLow(f, io)
    PROVE  ReadState(g, READ_DDR, a, e + 1)
<1> DEFINE c == READ_DDR
<1>0. DdrFacts
    BY DdrLemma
<1>1. /\ Got(c, e) = 32 /\ Got(c, e + 1) = 32 /\ Left(c, e) \in 1 .. 8
      /\ e % 2 = 0 => Left(c, e + 1) = Left(c, e) - 1
      /\ e % 2 = 1 => Left(c, e + 1) = Left(c, e)
  <2>1. DdrWaitCount(e)
      BY DdrCounts
  <2> QED
      BY <2>1 DEF DdrWaitCount
<1>2. e # 15 /\ e + 1 # 15 /\ e < 40 /\ e + 1 < 40 /\ (e % 2 = 0 \/ e % 2 = 1)
    OBVIOUS
<1>3. /\ ReadBits(f, c, a, 32) /\ f.dummycount = Left(c, e) /\ f.next_mode = "none"
      /\ f.mode = "qspi_ddr_wr" /\ f.oe = {} /\ f.dout = 0
  <2>1. f.oe = {} /\ f.dout = 0
      BY <1>0, <1>2 DEF ReadState, LinesAt, DdrFacts
  <2> QED
      BY <1>0, <1>1, <1>2, <2>1 DEF ReadState, DdrFacts
<1>4. Quiet(f) /\ f.dummycount > 0
    BY <1>1, <1>3 DEF ReadBits, ReadAt, Plain, Quiet
<1>5. /\ Quiet(g) /\ g.dummycount = Left(c, e + 1)
      /\ g.buffer = f.buffer /\ g.bitcount = f.bitcount
      /\ g.bytecount = f.bytecount /\ g.spi_cmd = f.spi_cmd
      /\ g.spi_addr = f.spi_addr /\ g.powered_up = f.powered_up
      /\ g.mode = f.mode /\ g.oe = {} /\ g.dout = 0
  <2>1. CASE e % 2 = 0
    <3>1. g = ClkHigh(f, io)
        BY <2>1
    <3>2. /\ Quiet(g) /\ g.dummycount = f.dummycount - 1
          /\ g.buffer = f.buffer /\ g.bitcount = f.bitcount
          /\ g.bytecount = f.bytecount /\ g.spi_cmd = f.spi_cmd
          /\ g.spi_addr = f.spi_addr /\ g.powered_up = f.powered_up
          /\ g.mode = f.mode /\ g.oe = f.oe /\ g.dout = f.dout
        BY <1>4, <3>1, HighDummy
    <3> QED
        BY <1>1, <1>3, <2>1, <3>2
  <2>2. CASE e % 2 = 1
    <3>1. g = ClkLow(f, io)
        BY <2>2
    <3>2. LowKeeps(f, g) /\ Quiet(g) /\ g.oe = {} /\ g.dout = 0
        BY <1>4, <3>1, LowLemma
    <3> QED
        BY <1>1, <1>3, <2>2, <3>2 DEF LowKeeps
  <2> QED
      BY <1>2, <2>1, <2>2
<1>6. Plain(g) /\ g.next_mode = "none"
    BY <1>5 DEF Quiet, Plain
<1>7. ReadBits(g, c, a, 32)
    BY <1>3, <1>5, <1>6, ReadKept
<1>8. LinesAt(g, c, a, e + 1)
    BY <1>0, <1>2, <1>5 DEF LinesAt, DdrFacts
<1> QED
    BY <1>0, <1>1, <1>2, <1>3, <1>5, <1>6, <1>7, <1>8 DEF ReadState, DdrFacts

(* The nibbles of a byte.                                                  *)
LEMMA NibblesOf ==
    ASSUME NEW m \in 0 .. 255
    PROVE  Slice(m, 0, 4) = m \div 16 /\ Slice(m, 4, 4) = m % 16
BY DEF Slice

(* and one in the data puts a nibble on the lines.                         *)
LEMMA DdrData ==
    ASSUME NEW e \in Nat, e >= 39, NEW a \in 0 .. FlashSize - 1,
           NEW f, ReadState(f, READ_DDR, a, e),
           MemoryByte(a, (e - 39) \div 2) \in 0 .. 255,
           Stored(READ_DDR, a, e + 1),
           NEW io, NEW g, g = ClkHigh(f, io) \/ g = ClkLow(f, io)
    PROVE  ReadState(g, READ_DDR, a, e + 1)
<1> DEFINE c == READ_DDR
           G == Got(c, e)
           j == (e - 39) \div 2
           m == MemoryByte(a, j)
           b == IF e % 2 = 1 THEN 0 ELSE 4
           v == f.buffer \div 16
           d == Drive(f, IoLine, v)
           h == ShiftIn(d, 0, 4)
<1>0. DdrFacts
    BY DdrLemma
<1>1. /\ G = 8 * (j + 4) + b /\ Got(c, e + 1) = G + 4
      /\ Left(c, e) = 0 /\ Left(c, e + 1) = 0 /\ ((e + 1) - 40) \div 2 = j
  <2>1. DdrDataCount(e, j)
      BY DdrCounts
  <2> HIDE DEF j
  <2> QED
      BY <2>1 DEF DdrDataCount
<1>2. j \in Nat /\ b \in {0, 4} /\ e # 15 /\ e + 1 # 15
    OBVIOUS
<1>3. m \in 0 .. 255
    OBVIOUS
<1>4. /\ ReadBits(f, c, a, G) /\ f.dummycount = 0 /\ f.next_mode = "none"
    BY <1>1, <1>2 DEF ReadState
<1>5. f.mode = IF G < 8 * Hd(c) THEN RdMode(c) ELSE WrMode(c)
    BY <1>2 DEF ReadState
<1> HIDE DEF j, G, m, b
<1>6. G \in Nat /\ ~ G < 32 /\ G % 4 = 0 /\ G \div 8 = j + 4 /\ G % 8 = b /\ G + 4 # 32
  <2>1. Eight(G, j + 4, b) /\ j + 4 \in Nat /\ b \in 0 .. 7
      BY <1>1, <1>2 DEF Eight
  <2>2. G \div 8 = j + 4 /\ G % 8 = b
      BY <2>1, EightLemma
  <2> QED
      BY <1>1, <1>2, <2>2
<1>7. f.mode = "qspi_ddr_wr"
    BY <1>0, <1>5, <1>6 DEF DdrFacts
<1>8. ReadAt(f, c, a, j + 4, b) /\ Plain(f) /\ f.buffer \in 0 .. 255
    BY <1>4, <1>6 DEF ReadBits, ReadAt, Plain, Typed
<1>9. BitsAreOut(f.buffer, m, b)
  <2>1. (j + 4) - Hd(c) = j /\ j + 4 >= Hd(c)
      BY <1>0, <1>2 DEF DdrFacts
  <2> QED
      BY <1>8, <2>1 DEF ReadAt, MemoryOut, m
<1>10. v = Slice(m, b, 4) /\ v \in 0 .. 15
  <2>1. Fits(4, b)
      BY <1>2 DEF Fits
  <2>2. High(f.buffer, 8 - 4) = Slice(m, b, 4)
      BY <1>3, <1>8, <1>9, <2>1, BitsShown, ZenonT(60)
  <2>3. High(f.buffer, 8 - 4) = v /\ v \in 0 .. 15
      BY <1>8 DEF High
  <2> QED
      BY <2>2, <2>3
<1> HIDE DEF v
<1>11. /\ LowKeeps(f, d) /\ d.oe = IoLine /\ d.dout = v
    BY <1>8, DriveLemma DEF Plain, Typed
<1> HIDE DEF d
<1>12. /\ Plain(d) /\ d.buffer = f.buffer /\ d.bitcount = f.bitcount
       /\ d.bytecount = f.bytecount /\ d.dummycount = f.dummycount
       /\ d.spi_cmd = f.spi_cmd /\ d.spi_addr = f.spi_addr
       /\ d.powered_up = f.powered_up /\ d.mode = f.mode /\ d.next_mode = f.next_mode
  <2>1. IoLine \in SUBSET IoLine
      OBVIOUS
  <2> QED
      BY <1>8, <1>10, <1>11, <2>1 DEF LowKeeps, Plain, Typed
<1>13. ReadBits(d, c, a, G)
    BY <1>4, <1>12, ReadKept
<1>14. Input(c, a, G, 0)
  <2>1. (j + 4) - Hd(c) = j /\ j + 4 >= Hd(c) /\ ~ j + 4 < Hd(c) /\ Wide(c) = 4
      BY <1>0, <1>2 DEF DdrFacts
  <2>2. 0 \in Digits(4)
      BY DEF Digits
  <2>3. Comes(c, a, j + 4, b, 4, 0)
      BY <1>3, <2>1, <2>2 DEF Comes, m
  <2> QED
      BY <1>6, <2>1, <2>3 DEF Input
<1>15. \A i \in Nat : 8 * (i + Hd(c)) = G + Wide(c) => MemoryByte(a, i) \in 0 .. 255
    BY <1>0, <1>1 DEF Stored, DdrFacts
<1>16. h = ShiftIn(d, 0, Wide(c)) /\ c \in Reads /\ G % Wide(c) = 0
       /\ c # READ_STD /\ Wide(c) = 4 /\ Hd(c) = 4 /\ WrMode(c) = "qspi_ddr_wr"
    BY <1>0, <1>6 DEF DdrFacts
<1> HIDE DEF c, h
<1>17. /\ ReadBits(h, c, a, G + Wide(c)) /\ Same(d, h)
       /\ h.dummycount = (IF c # READ_STD /\ G + Wide(c) = 32 THEN 8 ELSE d.dummycount)
       /\ h.mode = (IF c # READ_STD /\ G + Wide(c) = 32 THEN WrMode(c) ELSE d.mode)
    BY <1>6, <1>13, <1>14, <1>15, <1>16, Advance
<1>18. g = h
  <2>1. ClkHigh(f, io) = h
      BY <1>4, <1>7 DEF ClkHigh, ddr_wr_edge, h, d, v
  <2>2. LowPhase(f, io) = h
      BY <1>4, <1>7 DEF LowPhase, ddr_wr_edge, h, d, v
  <2>3. h.next_mode = "none"
      BY <1>4, <1>12, <1>17 DEF Same
  <2>4. ClkLow(f, io) = h
      BY <2>2, <2>3 DEF ClkLow, NextMode
  <2> QED
      BY <2>1, <2>4
<1>19. /\ ReadBits(g, c, a, Got(c, e + 1)) /\ g.dummycount = Left(c, e + 1)
       /\ g.next_mode = "none" /\ g.oe = IoLine /\ g.dout = v /\ g.mode = "qspi_ddr_wr"
    BY <1>1, <1>4, <1>6, <1>7, <1>11, <1>12, <1>16, <1>17, <1>18 DEF Same
<1>20. g.mode = IF Got(c, e + 1) < 8 * Hd(c) THEN RdMode(c) ELSE WrMode(c)
    BY <1>1, <1>6, <1>16, <1>19
<1>21. LinesAt(g, c, a, e + 1)
  <2>1. /\ ~ e + 1 < 40 /\ (e % 2 = 1 <=> (e + 1) % 2 = 0)
        /\ c # READ_DUAL /\ c # READ_QUAD /\ FirstOut(c) = 40 /\ c = READ_DDR
      BY <1>0 DEF DdrFacts, c
  <2>2. v = IF (e + 1) % 2 = 0 THEN m \div 16 ELSE m % 16
    <3>1. Slice(m, 0, 4) = m \div 16 /\ Slice(m, 4, 4) = m % 16
        BY <1>3, NibblesOf
    <3> QED
        BY <1>10, <2>1, <3>1 DEF b
  <2>3. m = MemoryByte(a, ((e + 1) - 40) \div 2)
      BY <1>1 DEF m
  <2> QED
      BY <1>2, <1>16, <1>19, <2>1, <2>2, <2>3 DEF LinesAt
<1> QED
    BY <1>2, <1>19, <1>20, <1>21 DEF ReadState, c

-----------------------------------------------------------------------------
(* The master.  The phases of its reads, in numbers.                       *)
Shape(c, w, d, t, ddr) ==
    op = c => Lanes = w /\ DummyFrom = d /\ DataFrom = t /\ Ddr = ddr

(* How many lines, where the dummies start, where the data, both edges.    *)
Shapes == /\ Shape(READ_STD, 1, 32, 32, FALSE) /\ Shape(READ_DUAL, 2, 24, 32, FALSE)
          /\ Shape(READ_QUAD, 4, 16, 24, FALSE) /\ Shape(READ_DDR, 4, 12, 20, TRUE)

(* They are what the definitions make them.                                *)
LEMMA ShapeLemma == Shapes /\ Opcodes
<1>1. Opcodes
    BY DEF Opcodes, READ_STD, READ_DUAL, READ_QUAD, READ_DDR, POWER_UP, POWER_DOWN
<1>2. Shape(READ_STD, 1, 32, 32, FALSE)
    BY <1>1 DEF Shape, Lanes, DummyFrom, DataFrom, HeaderBytes, EdgeBits, Ddr, latency, Opcodes
<1>3. Shape(READ_DUAL, 2, 24, 32, FALSE)
    BY <1>1 DEF Shape, Lanes, DummyFrom, DataFrom, HeaderBytes, EdgeBits, Ddr, latency, Opcodes
<1>4. Shape(READ_QUAD, 4, 16, 24, FALSE)
    BY <1>1 DEF Shape, Lanes, DummyFrom, DataFrom, HeaderBytes, EdgeBits, Ddr, latency, Opcodes
<1>5. Shape(READ_DDR, 4, 12, 20, TRUE)
    BY <1>1 DEF Shape, Lanes, DummyFrom, DataFrom, HeaderBytes, EdgeBits, Ddr, latency, Opcodes
<1> QED
    BY <1>1, <1>2, <1>3, <1>4, <1>5 DEF Shapes

(* The header it sends is the one the flash expects.                       *)
LEMMA HeaderLemma == \A j \in 0 .. 3 : HeaderByte(j) = Part(start, j)
<1> SUFFICES ASSUME NEW j \in 0 .. 3 PROVE HeaderByte(j) = Part(start, j)
    OBVIOUS
<1>1. j = 0 \/ j = 1 \/ j = 2 \/ j = 3
    OBVIOUS
<1> QED
    BY <1>1 DEF HeaderByte, Part

(* How far a read gets.                                                    *)
LEMMA GotBound ==
    ASSUME NEW c \in Reads, NEW e \in Nat, e >= 15, e <= Last(c)
    PROVE  Got(c, e) < 8 * (Hd(c) + MaxBytes + 1)
<1>0. Opcodes /\ MaxBytes \in Nat
    BY ShapeLemma, ProtocolAssumption
<1>1. c \notin Orders
    BY <1>0 DEF Reads, Orders, Opcodes
<1> DEFINE r == Rises(e)
<1>2. r \in Int /\ 2 * (r + 8) <= e + 1 /\ r >= 0
    BY DEF Rises
<1> HIDE DEF r
<1>3. CASE c = READ_STD
  <2>1. Last(c) = 64 + 16 * MaxBytes /\ Got(c, e) = r /\ Hd(c) = 3
      BY <1>0, <1>1, <1>3 DEF Last, FirstOut, Got, Hd, Opcodes, r
  <2> QED
      BY <1>0, <1>2, <2>1
<1>4. CASE c = READ_DUAL
  <2>1. Last(c) = 64 + 8 * MaxBytes /\ Hd(c) = 4
      BY <1>0, <1>1, <1>4 DEF Last, FirstOut, Turned, Hd, Opcodes
  <2>2. Got(c, e) = IF r <= 16 THEN 2 * r ELSE IF r <= 24 THEN 32 ELSE 2 * (r - 8)
      BY <1>0, <1>4 DEF Got, Opcodes, r
  <2> QED
      BY <1>0, <1>2, <2>1, <2>2
<1>5. CASE c = READ_QUAD
  <2>1. Last(c) = 48 + 4 * MaxBytes /\ Hd(c) = 4
      BY <1>0, <1>1, <1>5 DEF Last, FirstOut, Turned, Hd, Opcodes
  <2>2. Got(c, e) = IF r <= 8 THEN 4 * r ELSE IF r <= 16 THEN 32 ELSE 4 * (r - 8)
      BY <1>0, <1>5 DEF Got, Opcodes, r
  <2> QED
      BY <1>0, <1>2, <2>1, <2>2
<1>6. CASE c = READ_DDR
  <2>1. Last(c) = 40 + 2 * MaxBytes /\ Hd(c) = 4
      BY <1>0, <1>1, <1>6 DEF Last, FirstOut, Turned, Hd, Opcodes
  <2>2. Got(c, e) = IF e <= 16 THEN 0 ELSE IF e <= 24 THEN 4 * (e - 16)
                    ELSE IF e <= 39 THEN 32 ELSE 4 * (e - 31)
      BY <1>0, <1>6 DEF Got, Opcodes
  <2> QED
      BY <1>0, <2>1, <2>2
<1> QED
    BY <1>3, <1>4, <1>5, <1>6 DEF Reads

(* The bytes of the memory it gets to are bytes.                           *)
LEMMA MemoryBytes ==
    ASSUME NEW a \in Starts, NEW j \in Nat, j <= MaxBytes
    PROVE  MemoryByte(a, j) \in 0 .. 255
<1>1. j \in 0 .. MaxBytes
    BY ProtocolAssumption
<1> QED
    BY <1>1, ProtocolAssumption DEF MemoryByte

(* So a read only ever fetches bytes.                                      *)
LEMMA StoredLemma ==
    ASSUME NEW c \in Reads, NEW e \in Nat, e >= 15, e <= Last(c), NEW a \in Starts
    PROVE  Stored(c, a, e)
<1>1. Got(c, e) < 8 * (Hd(c) + MaxBytes + 1) /\ MaxBytes \in Nat /\ Hd(c) \in {3, 4}
    BY GotBound, ProtocolAssumption DEF Hd
<1> SUFFICES ASSUME NEW j \in Nat, 8 * (j + Hd(c)) = Got(c, e)
             PROVE  MemoryByte(a, j) \in 0 .. 255
    BY DEF Stored
<1>2. j <= MaxBytes
    BY <1>1
<1> QED
    BY <1>2, MemoryBytes

(* Unless it is done, a transaction has an edge more.                      *)
LEMMA NotLast ==
    ASSUME op \in Reads \cup Orders, edge \in Nat, edge <= Last(op),
           edge % 2 = 1 \/ ~ Done
    PROVE  edge + 1 <= Last(op)
<1>0. Opcodes /\ Shapes /\ MaxBytes \in Nat
    BY ShapeLemma, ProtocolAssumption
<1>1. ASSUME edge = Last(op) PROVE FALSE
  <2>1. CASE op \in Orders
    <3>1. edge = 16 /\ op \notin Reads
        BY <1>0, <1>1, <2>1 DEF Last, Orders, Reads, Opcodes
    <3> QED
        BY <3>1 DEF Done, Clocks
  <2>2. CASE op = READ_STD
    <3>1. edge = 64 + 16 * MaxBytes /\ op \in Reads /\ Lanes = 1 /\ DataFrom = 32 /\ ~ Ddr
        BY <1>0, <1>1, <2>2 DEF Last, FirstOut, Orders, Reads, Opcodes, Shapes, Shape
    <3> QED
        BY <1>0, <3>1 DEF Done, Past, Clocks
  <2>3. CASE op = READ_DUAL
    <3>1. edge = 64 + 8 * MaxBytes /\ op \in Reads /\ Lanes = 2 /\ DataFrom = 32 /\ ~ Ddr
        BY <1>0, <1>1, <2>3 DEF Last, FirstOut, Turned, Orders, Reads, Opcodes, Shapes, Shape
    <3> QED
        BY <1>0, <3>1 DEF Done, Past, Clocks
  <2>4. CASE op = READ_QUAD
    <3>1. edge = 48 + 4 * MaxBytes /\ op \in Reads /\ Lanes = 4 /\ DataFrom = 24 /\ ~ Ddr
        BY <1>0, <1>1, <2>4 DEF Last, FirstOut, Turned, Orders, Reads, Opcodes, Shapes, Shape
    <3> QED
        BY <1>0, <3>1 DEF Done, Past, Clocks
  <2>5. CASE op = READ_DDR
    <3>1. edge = 40 + 2 * MaxBytes /\ op \in Reads /\ Lanes = 4 /\ DataFrom = 20 /\ Ddr
        BY <1>0, <1>1, <2>5 DEF Last, FirstOut, Turned, Orders, Reads, Opcodes, Shapes, Shape
    <3> QED
        BY <1>0, <3>1 DEF Done, Past, Clocks
  <2> QED
      BY <2>1, <2>2, <2>3, <2>4, <2>5 DEF Reads
<1>2. Last(op) \in Nat
    BY <1>0 DEF Last, FirstOut, Turned
<1> QED
    BY <1>1, <1>2

(* At an edge where the flash shifts, the bits of the header are the ones  *)
(* the master counts.                                                      *)
LEMMA PastLemma ==
    ASSUME op \in Reads, edge \in Nat, edge >= 16, op = READ_DDR \/ edge % 2 = 0,
           Left(op, edge) = 0
    PROVE  /\ Got(op, edge) < 8 * Hd(op) => /\ Clocks \in 8 .. DummyFrom - 1
                                            /\ Past(8) = Got(op, edge)
           /\ ~ Got(op, edge) < 8 * Hd(op) => Clocks \notin 8 .. DummyFrom - 1
<1>0. Opcodes /\ Shapes
    BY ShapeLemma
<1> DEFINE k == edge \div 2
<1>1. k \in Nat /\ k >= 8 /\ (edge = 2 * k \/ edge = 2 * k + 1) /\ Clocks = k
    BY DEF Clocks
<1> HIDE DEF k
<1>2. edge = 2 * k => Rises(edge) = k - 8
    BY <1>1 DEF Rises
<1>3. CASE op = READ_STD
  <2>1. edge = 2 * k /\ Lanes = 1 /\ DummyFrom = 32 /\ ~ Ddr /\ Hd(op) = 3
      BY <1>0, <1>1, <1>3 DEF Opcodes, Shapes, Shape, Hd
  <2>2. Got(op, edge) = k - 8 /\ Past(8) = k - 8
      BY <1>0, <1>1, <1>2, <1>3, <2>1 DEF Got, Past
  <2> QED
      BY <1>1, <2>1, <2>2
<1>4. CASE op = READ_DUAL
  <2>1. edge = 2 * k /\ Lanes = 2 /\ DummyFrom = 24 /\ ~ Ddr /\ Hd(op) = 4
      BY <1>0, <1>1, <1>4 DEF Opcodes, Shapes, Shape, Hd
  <2>2. Past(8) = 2 * (k - 8)
      BY <1>0, <1>1, <1>2, <2>1 DEF Past
  <2>3. /\ Got(op, edge) = IF k - 8 <= 16 THEN 2 * (k - 8)
                           ELSE IF k - 8 <= 24 THEN 32 ELSE 2 * ((k - 8) - 8)
        /\ Left(op, edge) = IF 2 * k < 47 \/ k - 8 > 24 THEN 0 ELSE 24 - (k - 8)
      BY <1>0, <1>1, <1>2, <1>4, <2>1 DEF Got, Left, Turned, Opcodes
  <2> QED
      BY <1>1, <2>1, <2>2, <2>3
<1>5. CASE op = READ_QUAD
  <2>1. edge = 2 * k /\ Lanes = 4 /\ DummyFrom = 16 /\ ~ Ddr /\ Hd(op) = 4
      BY <1>0, <1>1, <1>5 DEF Opcodes, Shapes, Shape, Hd
  <2>2. Past(8) = 4 * (k - 8)
      BY <1>0, <1>1, <1>2, <2>1 DEF Past
  <2>3. /\ Got(op, edge) = IF k - 8 <= 8 THEN 4 * (k - 8)
                           ELSE IF k - 8 <= 16 THEN 32 ELSE 4 * ((k - 8) - 8)
        /\ Left(op, edge) = IF 2 * k < 31 \/ k - 8 > 16 THEN 0 ELSE 16 - (k - 8)
      BY <1>0, <1>1, <1>2, <1>5, <2>1 DEF Got, Left, Turned, Opcodes
  <2> QED
      BY <1>1, <2>1, <2>2, <2>3
<1>6. CASE op = READ_DDR
  <2>1. Lanes = 4 /\ DummyFrom = 12 /\ Ddr /\ Hd(op) = 4
      BY <1>0, <1>6 DEF Opcodes, Shapes, Shape, Hd
  <2>2. Past(8) = 4 * (edge - 16)
      BY <2>1 DEF Past
  <2>3. Got(op, edge) = IF edge <= 16 THEN 0 ELSE IF edge <= 24 THEN 4 * (edge - 16)
                        ELSE IF edge <= 39 THEN 32 ELSE 4 * (edge - 31)
      BY <1>0, <1>6 DEF Got, Opcodes
  <2> QED
      BY <1>1, <2>1, <2>2, <2>3
<1> QED
    BY <1>3, <1>4, <1>5, <1>6 DEF Reads

(* What the master puts on the lines, in the opcode,                       *)
LEMMA OpcodeBus ==
    ASSUME op \in Reads \cup Orders, edge \in Nat, edge <= 14, chip.dout = 0
    PROVE  BitOf(Bus, op, edge \div 2)
<1> DEFINE n == edge \div 2
<1>1. op # 0 /\ op \in 0 .. 255
    BY DEF Reads, Orders, READ_STD, READ_DUAL, READ_QUAD, READ_DDR, POWER_UP, POWER_DOWN
<1>2. n \in 0 .. 7 /\ Clocks = n /\ n < 8
    BY DEF Clocks
<1> HIDE DEF n
<1>3. MasterLines = {0} /\ {0} # {}
    BY <1>1, <1>2 DEF MasterLines
<1>4. MasterOut = Slice(op, n, 1)
    BY <1>2, <1>3 DEF MasterOut
<1> DEFINE x == Slice(op, n, 1)
<1>5. x \in 0 .. 1
  <2>1. NextBit(FirstBits(op, n), x, FirstBits(op, n + 1))
      BY <1>1, <1>2, OpcodeBits, Zenon
  <2> HIDE DEF x
  <2> QED
      BY <2>1 DEF NextBit
<1>6. Bus = x + 0
    BY <1>4 DEF Bus
<1> HIDE DEF x
<1>7. Bus % 2 = x
    BY <1>5, <1>6
<1> QED
    BY <1>7 DEF BitOf, x, n

(* in the header,                                                          *)
LEMMA HeaderBus ==
    ASSUME op \in Reads, edge \in Nat, edge >= 16, op = READ_DDR \/ edge % 2 = 0,
           Left(op, edge) = 0, NEW G \in Nat, G = Got(op, edge), G < 8 * Hd(op)
    PROVE  MasterOut = Slice(Part(start, G \div 8), G % 8, Wide(op))
<1>0. Opcodes /\ Shapes
    BY ShapeLemma
<1>1. Clocks \in 8 .. DummyFrom - 1 /\ Past(8) = G
    BY PastLemma
<1>2. DummyFrom \in Nat /\ Lanes = Wide(op) /\ Lanes \in {1, 2, 4}
    BY <1>0 DEF Reads, Shapes, Shape, Wide, Opcodes
<1>3. op # 0 /\ Clocks >= 8 /\ ~ Clocks < 8
    BY <1>0, <1>1, <1>2 DEF Reads, Opcodes
<1>4. MasterLines = 0 .. Lanes - 1
    BY <1>1, <1>3 DEF MasterLines
<1>5. MasterLines # {}
  <2>1. 0 \in 0 .. Lanes - 1
      BY <1>2
  <2> QED
      BY <1>4, <2>1
<1>6. MasterOut = Slice(HeaderByte(Past(8) \div 8), Past(8) % 8, Lanes)
    BY <1>3, <1>5 DEF MasterOut
<1>7. G \div 8 \in 0 .. 3
    BY DEF Hd
<1>8. HeaderByte(G \div 8) = Part(start, G \div 8)
    BY <1>7, HeaderLemma
<1> QED
    BY <1>1, <1>2, <1>6, <1>8

(* and after it.                                                           *)
LEMMA DataBus ==
    ASSUME op \in Reads, edge \in Nat, edge >= 16, op = READ_DDR \/ edge % 2 = 0,
           Left(op, edge) = 0, ~ Got(op, edge) < 8 * Hd(op)
    PROVE  MasterOut = 0
<1>0. Opcodes
    BY ShapeLemma
<1>1. Clocks \notin 8 .. DummyFrom - 1
    BY PastLemma
<1>2. op # 0 /\ ~ Clocks < 8
    BY <1>0 DEF Reads, Opcodes, Clocks
<1>3. MasterLines = {}
    BY <1>1, <1>2 DEF MasterLines
<1> QED
    BY <1>3 DEF MasterOut

(* So the flash gets what it expects.                                      *)
LEMMA InputLemma ==
    ASSUME op \in Reads, edge \in Nat, edge >= 16, op = READ_DDR \/ edge % 2 = 0,
           Left(op, edge) = 0, edge <= Last(op), start \in Starts,
           ReadState(chip, op, start, edge),
           op = READ_DDR => edge < 24,
           NEW G \in Nat, G = Got(op, edge), G % Wide(op) = 0
    PROVE  Input(op, start, G, Taking(op, Bus))
<1> DEFINE w == Wide(op)
           K == G \div 8
           b == G % 8
           x == Taking(op, Bus)
<1>0. Opcodes /\ start \in 0 .. FlashSize - 1 /\ MaxBytes \in Nat
    BY ShapeLemma, ProtocolAssumption
<1>1. /\ Fits(w, b) /\ K \in Nat /\ w \in {1, 2, 4} /\ Hd(op) \in {3, 4}
      /\ G = 8 * K + b /\ b \in 0 .. 7
    BY WideLemma DEF Wide, Hd
<1>2. LinesAt(chip, op, start, edge) /\ edge # 15 /\ chip.dout \in 0 .. 15
    BY DEF ReadState, ReadBits, ReadAt, Plain, Typed
<1>3. op = READ_STD \/ op = READ_DUAL \/ op = READ_QUAD \/ op = READ_DDR
    BY DEF Reads
<1>4. CASE G < 8 * Hd(op)
  <2>1. K < Hd(op) /\ ~ K >= Hd(op)
    <3> HIDE DEF w, K, b
    <3> QED
        BY <1>1, <1>4
  <2> DEFINE y == Slice(Part(start, K), b, w)
  <2>2. MasterOut = y
      BY <1>4, HeaderBus
  <2>3. y \in Digits(w)
    <3>1. Part(start, K) \in 0 .. 255
        BY <1>0, <1>1, PartLemma
    <3> HIDE DEF w, K, b
    <3> QED
        BY <1>1, <3>1, ByteBits
  <2>4. op # READ_STD => edge < FirstOut(op)
    <3>1. CASE op = READ_DUAL \/ op = READ_QUAD
      <4>1. op \in Single /\ op # READ_STD /\ Hd(op) = 4
          BY <1>0, <3>1 DEF Single, Opcodes, Hd
      <4>2. RiseCount(op, edge)
          BY <1>0, <3>1, <4>1, RiseCounts DEF Opcodes
      <4> DEFINE k == edge \div 2
      <4>3. edge = 2 * k /\ k \in Nat /\ k >= 8
          BY <1>0, <3>1 DEF Opcodes
      <4> HIDE DEF k
      <4>4. Rises(edge) = k - 8
          BY <4>3 DEF Rises
      <4> QED
          BY <1>0, <1>4, <3>1, <4>1, <4>3, <4>4 DEF Got, FirstOut, Turned, Opcodes
    <3>2. CASE op = READ_DDR
        BY <1>0, <3>2 DEF FirstOut, Turned, Opcodes
    <3> QED
        BY <1>3, <3>1, <3>2
  <2>5. Bus = y + chip.dout
      BY <2>2 DEF Bus
  <2> HIDE DEF y
  <2>6. x = y
    <3>1. CASE op = READ_STD
      <4>1. chip.dout \in {0, 2} /\ y \in 0 .. 1 /\ x = Bus % 2
          BY <1>2, <2>3, <3>1 DEF LinesAt, Digits, Wide, Taking
      <4> HIDE DEF x
      <4> QED
          BY <2>5, <4>1
    <3>2. CASE op # READ_STD
      <4>1. chip.dout = 0
          BY <1>2, <2>4, <3>2 DEF LinesAt
      <4>2. CASE op = READ_DUAL
        <5>1. y \in 0 .. 3 /\ x = Bus % 4
            BY <1>0, <2>3, <4>2 DEF Digits, Wide, Taking, Opcodes
        <5> HIDE DEF x
        <5> QED
            BY <2>5, <4>1, <5>1
      <4>3. CASE op # READ_DUAL
        <5>1. y \in 0 .. 15 /\ x = Bus
            BY <1>0, <2>3, <3>2, <4>3 DEF Digits, Wide, Taking, Opcodes
        <5> HIDE DEF x
        <5> QED
            BY <2>5, <4>1, <5>1
      <4> QED
          BY <4>2, <4>3
    <3> QED
        BY <3>1, <3>2
  <2>7. Comes(op, start, K, b, w, x)
      BY <2>1, <2>6 DEF Comes, y
  <2> QED
      BY <2>7 DEF Input
<1>5. CASE ~ G < 8 * Hd(op)
  <2>1. K >= Hd(op) /\ ~ K < Hd(op)
    <3> HIDE DEF w, K, b
    <3> QED
        BY <1>1, <1>5
  <2>2. MasterOut = 0
      BY <1>5, DataBus
  <2>3. Bus = chip.dout
      BY <1>2, <2>2 DEF Bus
  <2>4. x \in Digits(w)
    <3>1. CASE op = READ_STD
        BY <1>2, <2>3, <3>1 DEF Taking, Digits, Wide
    <3>2. CASE op = READ_DUAL
        BY <1>0, <1>2, <2>3, <3>2 DEF Taking, Digits, Wide, Opcodes
    <3>3. CASE op # READ_STD /\ op # READ_DUAL
        BY <1>0, <1>2, <2>3, <3>3 DEF Taking, Digits, Wide, Opcodes
    <3> QED
        BY <3>1, <3>2, <3>3
  <2>5. MemoryByte(start, K - Hd(op)) \in 0 .. 255
    <3>1. G < 8 * (Hd(op) + MaxBytes + 1)
        BY GotBound
    <3> HIDE DEF w, K, b
    <3>2. K - Hd(op) \in Nat /\ K - Hd(op) <= MaxBytes
        BY <1>0, <1>1, <2>1, <3>1
    <3> QED
        BY <3>2, MemoryBytes
  <2>6. Comes(op, start, K, b, w, x)
      BY <2>1, <2>4, <2>5 DEF Comes
  <2> QED
      BY <2>6 DEF Input
<1> QED
    BY <1>4, <1>5

-----------------------------------------------------------------------------
(* The steps.  Selecting a flash at rest begins an opcode.                 *)
LEMMA SelectAny ==
    ASSUME NEW f, Resting(f), f.dummycount = 0, NEW c \in 0 .. 255,
           NEW g \in CsbLow(f, 0)
    PROVE  OpcodeIn(g, c, 0) /\ g.powered_up = f.powered_up
<1> DEFINE h == ClkLow(f, 0)
<1>1. XipStart(f) = f /\ Quiet(f) /\ f.mode = "spi" /\ f.buffer = 0
    BY DEF Resting, Quiet, Typed, XipStart
<1>2. /\ LowKeeps(f, h) /\ Quiet(h)
      /\ h.oe = {1} /\ h.dout = 2 * (f.buffer \div 128)
    BY <1>1, LowLemma
<1> HIDE DEF h
<1>3. XipStart(h) = h
    BY <1>2 DEF XipStart, Quiet
<1>4. g = h
    BY <1>1, <1>3 DEF CsbLow, h
<1>5. FirstBits(c, 0) = 0 /\ 2 * (0 \div 128) = 0
    BY DEF FirstBits
<1> QED
    BY <1>1, <1>2, <1>4, <1>5 DEF OpcodeIn, LowKeeps, Resting

(* Every opcode is a byte, and none is 0.                                  *)
OpcodesFit == \A c \in Reads \cup Orders : c \in 0 .. 255 /\ c # 0

(* That is so.                                                             *)
LEMMA FitLemma == OpcodesFit
BY DEF OpcodesFit, Reads, Orders, READ_STD, READ_DUAL, READ_QUAD, READ_DDR,
       POWER_UP, POWER_DOWN

(* Every transaction has at least the edges of its opcode.                 *)
LEMMA LastLemma ==
    ASSUME NEW c \in Reads \cup Orders PROVE Last(c) \in Nat /\ Last(c) >= 16
<1>1. MaxBytes \in Nat
    BY ProtocolAssumption
<1> QED
    BY <1>1 DEF Last, FirstOut, Turned

(* No opcode is both a read and an order, and 0 is neither.                *)
LEMMA ApartLemma == Reads \cap Orders = {} /\ 0 \notin Reads \cup Orders
BY DEF Reads, Orders, READ_STD, READ_DUAL, READ_QUAD, READ_DDR, POWER_UP, POWER_DOWN

(* ProtocolInv is kept when the master selects the flash; the steps below  *)
(* say so of its other actions.                                            *)
LEMMA SelectStep ==
    ASSUME ProtocolInv, NEW c \in Reads \cup Orders, NEW a, c \in Reads => a \in Starts,
           Select(c, a)
    PROVE  ProtocolInv'
<1>1. /\ op = 0 /\ op' = c /\ start' = a /\ edge' = 0 /\ awake' = awake
      /\ chip' \in CsbLow(chip, 0) /\ (c \in Reads => awake)
    BY DEF Select
<1>2. Resting(chip) /\ chip.dummycount = 0 /\ chip.powered_up = awake /\ awake \in BOOLEAN
    BY <1>1 DEF ProtocolInv
<1>3. OpcodeIn(chip', c, 0) /\ chip'.powered_up = chip.powered_up
  <2>1. c \in 0 .. 255
      BY FitLemma DEF OpcodesFit
  <2> QED
      BY <1>1, <1>2, <2>1, SelectAny
<1>4. c # 0 /\ 0 <= Last(c) /\ (0 + 1) \div 2 = 0 /\ 0 \in Nat /\ ~ 0 >= 15
    BY LastLemma, ApartLemma
<1> QED
    BY <1>1, <1>2, <1>3, <1>4 DEF ProtocolInv

(* The byte a ddr read shows is a byte.                                    *)
LEMMA DdrByte ==
    ASSUME NEW e \in Nat, e >= 39, e <= Last(READ_DDR), NEW a \in Starts
    PROVE  MemoryByte(a, (e - 39) \div 2) \in 0 .. 255
<1>1. DdrDataCount(e, (e - 39) \div 2) /\ DdrFacts
    BY DdrCounts, DdrLemma
<1> DEFINE j == (e - 39) \div 2
<1>2. j \in Nat
    OBVIOUS
<1> HIDE DEF j
<1>3. Got(READ_DDR, e) >= 8 * (j + 4)
    BY <1>1, <1>2 DEF DdrDataCount, j
<1>4. Got(READ_DDR, e) < 8 * (4 + MaxBytes + 1) /\ MaxBytes \in Nat
    BY <1>1, GotBound, ProtocolAssumption DEF DdrFacts
<1>5. j <= MaxBytes
  <2>1. Got(READ_DDR, e) \in Int
      BY <1>1, <1>2 DEF DdrDataCount, j
  <2> QED
      BY <1>2, <1>3, <1>4, <2>1
<1> QED
    BY <1>2, <1>5, MemoryBytes DEF j

(* A rise of clk,                                                          *)
LEMMA RiseStep ==
    ASSUME ProtocolInv, Rise
    PROVE  ProtocolInv'
<1>1. /\ op # 0 /\ edge % 2 = 0 /\ ~ Done /\ chip' = ClkHigh(chip, Bus)
      /\ edge' = edge + 1 /\ op' = op /\ start' = start /\ awake' = awake
    BY DEF Rise
<1>2. /\ op \in Reads \cup Orders /\ edge \in Nat /\ awake \in BOOLEAN
      /\ edge <= Last(op)
    BY <1>1 DEF ProtocolInv
<1>3. edge + 1 <= Last(op)
    BY <1>1, <1>2, NotLast
<1>4. op \in 0 .. 255
    BY <1>2, FitLemma DEF OpcodesFit
<1> DEFINE n == edge \div 2
<1>5. edge = 2 * n /\ n \in Nat /\ (edge + 1) \div 2 = n /\ ((edge + 1) + 1) \div 2 = n + 1
    BY <1>1, <1>2
<1> HIDE DEF n
<1>6. CASE edge <= 12
  <2>1. OpcodeIn(chip, op, n) /\ chip.powered_up = awake /\ edge <= 14
      BY <1>1, <1>2, <1>5, <1>6 DEF ProtocolInv
  <2>2. BitOf(Bus, op, n)
    <3>1. chip.dout = 0
        BY <2>1 DEF OpcodeIn
    <3> QED
        BY <1>2, <2>1, <3>1, OpcodeBus DEF n
  <2>3. n \in 0 .. 6
      BY <1>5, <1>6
  <2> DEFINE m == n + 1
  <2>4. OpcodeIn(chip', op, m) /\ chip'.powered_up = chip.powered_up
    <3>1. m = n + 1 /\ OpcodeIn(chip, op, n) /\ chip' = ClkHigh(chip, Bus)
        BY <1>1, <2>1
    <3> HIDE DEF m
    <3> QED
        BY <1>4, <2>2, <2>3, <3>1, OpcodePart, SMTT(60)
  <2>5. edge' <= 14 /\ ~ edge' >= 15 /\ edge' \in Nat /\ (edge' + 1) \div 2 = n + 1
      BY <1>1, <1>2, <1>5, <1>6
  <2> QED
      BY <1>1, <1>2, <1>3, <2>1, <2>4, <2>5 DEF ProtocolInv
<1>7. CASE edge = 14
  <2>1. OpcodeIn(chip, op, 7) /\ chip.powered_up = awake /\ n = 7
    <3>1. (edge + 1) \div 2 = 7 /\ n = 7 /\ edge <= 14
        BY <1>5, <1>7
    <3> QED
        BY <1>1, <3>1 DEF ProtocolInv
  <2>2. BitOf(Bus, op, 7)
    <3>1. chip.dout = 0 /\ edge <= 14
        BY <1>7, <2>1 DEF OpcodeIn
    <3> QED
        BY <1>2, <2>1, <3>1, OpcodeBus DEF n
  <2>3. edge' = 15 /\ ~ edge' <= 14 /\ edge' >= 15 /\ edge' \in Nat
      BY <1>1, <1>7
  <2>4. CASE op \in Reads
    <3>1. awake /\ start \in Starts
        BY <2>4 DEF ProtocolInv
    <3>2. start \in 0 .. FlashSize - 1 /\ Awake(chip)
        BY <2>1, <3>1, ProtocolAssumption DEF Awake
    <3>3. /\ ReadAt(chip', op, start, 0, 0) /\ chip'.dummycount = 0
          /\ chip'.oe = {1} /\ chip'.dout = 0
          /\ chip'.mode = (IF op = READ_DDR THEN "spi" ELSE RdMode(op))
          /\ chip'.next_mode = (IF op = READ_DDR THEN "qspi_ddr_rd" ELSE "none")
        BY <1>1, <2>1, <2>2, <2>4, <3>2, ReadOpcode
    <3>4. Got(op, 15) = 0 /\ Left(op, 15) = 0 /\ 0 < 8 * Hd(op)
        BY <2>4 DEF Got, Left, Turned, Rises, Hd
    <3>5. ReadState(chip', op, start, 15)
      <4>1. ReadBits(chip', op, start, 0)
          BY <3>3 DEF ReadBits
      <4>2. LinesAt(chip', op, start, 15)
          BY <3>3 DEF LinesAt
      <4> QED
          BY <3>3, <3>4, <4>1, <4>2 DEF ReadState
    <3>6. op \notin Orders
        BY <2>4, ApartLemma
    <3> QED
        BY <1>1, <1>2, <1>3, <2>3, <2>4, <3>1, <3>5, <3>6 DEF ProtocolInv
  <2>5. CASE op \in Orders
    <3>1. OrderIn(chip', op)
        BY <1>1, <2>1, <2>2, <2>5, OrderOpcode
    <3>2. op \notin Reads
        BY <2>5, ApartLemma
    <3> QED
        BY <1>1, <1>2, <1>3, <2>3, <3>1, <3>2 DEF ProtocolInv
  <2> QED
      BY <1>2, <2>4, <2>5
<1>8. CASE edge >= 16
  <2>1. op \in Reads
    <3>1. op \in Orders => Last(op) = 16
        BY DEF Last
    <3> QED
        BY <1>2, <1>3, <1>8, <3>1
  <2>2. awake /\ start \in Starts /\ ReadState(chip, op, start, edge) /\ op \notin Orders
      BY <1>8, <2>1, ApartLemma DEF ProtocolInv
  <2>3. start \in 0 .. FlashSize - 1
      BY <2>2, ProtocolAssumption
  <2>4. Stored(op, start, edge + 1)
      BY <1>2, <1>3, <1>8, <2>1, <2>2, StoredLemma
  <2>5. ReadState(chip', op, start, edge + 1)
    <3>1. CASE op \in Single
      <4>1. RiseCount(op, edge)
          BY <1>1, <1>2, <1>8, <3>1, RiseCounts
      <4>2. Got(op, edge) \in Nat /\ Got(op, edge) % Wide(op) = 0
          BY <4>1 DEF RiseCount
      <4>3. op # READ_DDR
          BY <3>1 DEF Single, READ_STD, READ_DUAL, READ_QUAD, READ_DDR
      <4>4. Left(op, edge) = 0 => Input(op, start, Got(op, edge), Taking(op, Bus))
          BY <1>1, <1>2, <1>8, <2>1, <2>2, <4>2, <4>3, InputLemma
      <4> QED
          BY <1>1, <1>2, <1>8, <2>2, <2>3, <2>4, <3>1, <4>4, RiseSingle
    <3>2. CASE op = READ_DDR
      <4>1. CASE edge < 24
        <5>1. DdrHeaderCount(edge)
            BY <1>2, <1>8, <4>1, DdrCounts
        <5>2. /\ Got(op, edge) \in Nat /\ Got(op, edge) % Wide(op) = 0
              /\ Left(op, edge) = 0 /\ Taking(op, Bus) = Bus
          <6>1. DdrFacts
              BY DdrLemma
          <6> QED
              BY <3>2, <5>1, <6>1 DEF DdrHeaderCount, Taking, DdrFacts
        <5>3. Input(op, start, Got(op, edge), Bus)
          <6>1. Input(op, start, Got(op, edge), Taking(op, Bus))
              BY <1>2, <1>8, <2>1, <2>2, <3>2, <4>1, <5>2, InputLemma
          <6> QED
              BY <5>2, <6>1
        <5> QED
            BY <1>1, <1>2, <1>8, <2>2, <2>3, <2>4, <3>2, <4>1, <5>3, DdrHeader
      <4>2. CASE 24 <= edge /\ edge < 39
          BY <1>1, <1>2, <2>2, <3>2, <4>2, DdrWait
      <4>3. CASE edge >= 39
        <5>1. MemoryByte(start, (edge - 39) \div 2) \in 0 .. 255
            BY <1>2, <2>1, <2>2, <3>2, <4>3, DdrByte
        <5> QED
            BY <1>1, <1>2, <2>2, <2>3, <2>4, <3>2, <4>3, <5>1, DdrData
      <4> QED
          BY <1>2, <4>1, <4>2, <4>3
    <3> QED
        BY <2>1, <3>1, <3>2 DEF Reads, Single
  <2>6. edge' >= 15 /\ ~ edge' <= 14 /\ edge' \in Nat
      BY <1>1, <1>2, <1>8
  <2> QED
      BY <1>1, <1>2, <1>3, <2>1, <2>2, <2>5, <2>6 DEF ProtocolInv
<1> QED
    BY <1>1, <1>2, <1>6, <1>7, <1>8

(* a fall,                                                                 *)
LEMMA FallStep ==
    ASSUME ProtocolInv, Fall
    PROVE  ProtocolInv'
<1>1. /\ op # 0 /\ edge % 2 = 1 /\ chip' = ClkLow(chip, Bus)
      /\ edge' = edge + 1 /\ op' = op /\ start' = start /\ awake' = awake
    BY DEF Fall
<1>2. /\ op \in Reads \cup Orders /\ edge \in Nat /\ awake \in BOOLEAN
      /\ edge <= Last(op)
    BY <1>1 DEF ProtocolInv
<1>3. edge + 1 <= Last(op)
    BY <1>1, <1>2, NotLast
<1>4. op \in 0 .. 255
    BY <1>2, FitLemma DEF OpcodesFit
<1>5. CASE edge <= 13
  <2> DEFINE n == (edge + 1) \div 2
  <2>1. OpcodeIn(chip, op, n) /\ chip.powered_up = awake
      BY <1>1, <1>2, <1>5 DEF ProtocolInv
  <2>2. n \in 0 .. 7 /\ ((edge + 1) + 1) \div 2 = n
      BY <1>1, <1>2, <1>5
  <2> HIDE DEF n
  <2>3. OpcodeIn(chip', op, n) /\ chip'.powered_up = chip.powered_up
    <3>1. OpcodeIn(chip, op, n) /\ chip' = ClkLow(chip, Bus)
        BY <1>1, <2>1
    <3> QED
        BY <1>4, <2>2, <3>1, OpcodeLow, SMTT(60)
  <2>4. edge' <= 14 /\ ~ edge' >= 15 /\ edge' \in Nat /\ (edge' + 1) \div 2 = n
      BY <1>1, <1>2, <1>5, <2>2
  <2> QED
      BY <1>1, <1>2, <1>3, <2>1, <2>3, <2>4 DEF ProtocolInv
<1>6. CASE edge >= 15
  <2>1. edge' >= 15 /\ ~ edge' <= 14 /\ edge' \in Nat
      BY <1>1, <1>2, <1>6
  <2>2. CASE op \in Orders
    <3>1. OrderIn(chip, op) /\ op \notin Reads
        BY <1>6, <2>2, ApartLemma DEF ProtocolInv
    <3>2. Quiet(chip) /\ chip.mode = "spi" /\ chip.dummycount = 0
        BY <3>1 DEF OrderIn
    <3>3. LowKeeps(chip, chip') /\ Quiet(chip') /\ chip'.oe = {1}
        BY <1>1, <3>2, LowLemma
    <3>4. OrderIn(chip', op)
        BY <3>1, <3>3 DEF OrderIn, LowKeeps
    <3> QED
        BY <1>1, <1>2, <1>3, <2>1, <3>1, <3>4 DEF ProtocolInv
  <2>3. CASE op \in Reads
    <3>1. awake /\ start \in Starts /\ ReadState(chip, op, start, edge) /\ op \notin Orders
        BY <1>6, <2>3, ApartLemma DEF ProtocolInv
    <3>2. start \in 0 .. FlashSize - 1
        BY <3>1, ProtocolAssumption
    <3>3. Stored(op, start, edge + 1)
        BY <1>2, <1>3, <1>6, <2>3, <3>1, StoredLemma
    <3>4. ReadState(chip', op, start, edge + 1)
      <4>1. CASE op \in Single
          BY <1>1, <1>2, <1>6, <3>1, <4>1, FallSingle
      <4>2. CASE op = READ_DDR /\ edge = 15
        <5>1. ReadState(chip, READ_DDR, start, 15) /\ chip' = ClkLow(chip, Bus)
              /\ edge + 1 = 16
            BY <1>1, <3>1, <4>2
        <5>2. ReadState(chip', READ_DDR, start, 16)
            BY <5>1, DdrTurn
        <5> QED
            BY <4>2, <5>1, <5>2
      <4>3. CASE op = READ_DDR /\ edge >= 16 /\ edge < 24
        <5>1. DdrHeaderCount(edge)
            BY <1>2, <4>3, DdrCounts
        <5>2. /\ Got(op, edge) \in Nat /\ Got(op, edge) % Wide(op) = 0
              /\ Left(op, edge) = 0 /\ Taking(op, Bus) = Bus
          <6>1. DdrFacts
              BY DdrLemma
          <6> QED
              BY <4>3, <5>1, <6>1 DEF DdrHeaderCount, Taking, DdrFacts
        <5>3. Input(op, start, Got(op, edge), Bus)
          <6>1. Input(op, start, Got(op, edge), Taking(op, Bus))
              BY <1>2, <2>3, <3>1, <4>3, <5>2, InputLemma
          <6> QED
              BY <5>2, <6>1
        <5> QED
            BY <1>1, <1>2, <3>1, <3>2, <3>3, <4>3, <5>3, DdrHeader
      <4>4. CASE op = READ_DDR /\ 24 <= edge /\ edge < 39
          BY <1>1, <1>2, <3>1, <4>4, DdrWait
      <4>5. CASE op = READ_DDR /\ edge >= 39
        <5>1. MemoryByte(start, (edge - 39) \div 2) \in 0 .. 255
            BY <1>2, <3>1, <4>5, DdrByte
        <5> QED
            BY <1>1, <1>2, <3>1, <3>2, <3>3, <4>5, <5>1, DdrData
      <4>6. op \in Single \/ op = READ_DDR
          BY <2>3 DEF Reads, Single
      <4> QED
          BY <1>2, <1>6, <4>1, <4>2, <4>3, <4>4, <4>5, <4>6
    <3> QED
        BY <1>1, <1>2, <1>3, <2>1, <2>3, <3>1, <3>4 DEF ProtocolInv
  <2> QED
      BY <1>2, <2>2, <2>3
<1> QED
    BY <1>1, <1>2, <1>5, <1>6

(* No dummy clock is left where the master may give up,                    *)
LEMMA NoneLeft ==
    ASSUME op \in Reads, edge \in Nat, edge >= 16, MayDeselect
    PROVE  Left(op, edge) = 0
<1>0. Opcodes /\ Shapes
    BY ShapeLemma
<1> DEFINE k == edge \div 2
<1>1. k \in Nat /\ k >= 8 /\ edge = 2 * k /\ Clocks = k
    BY DEF Clocks, MayDeselect
<1>2. k \notin DummyFrom .. DataFrom - 1
    BY <1>1 DEF MayDeselect
<1> HIDE DEF k
<1>3. Rises(edge) = k - 8
    BY <1>1 DEF Rises
<1>4. CASE op = READ_STD
    BY <1>4 DEF Left
<1>5. CASE op = READ_DUAL
  <2>1. k \notin 24 .. 31
      BY <1>0, <1>2, <1>5 DEF Shapes, Shape
  <2> QED
      BY <1>0, <1>1, <1>3, <1>5, <2>1 DEF Left, Turned, Opcodes
<1>6. CASE op = READ_QUAD
  <2>1. k \notin 16 .. 23
      BY <1>0, <1>2, <1>6 DEF Shapes, Shape
  <2> QED
      BY <1>0, <1>1, <1>3, <1>6, <2>1 DEF Left, Turned, Opcodes
<1>7. CASE op = READ_DDR
  <2>1. k \notin 12 .. 19
      BY <1>0, <1>2, <1>7 DEF Shapes, Shape
  <2> QED
      BY <1>0, <1>1, <1>3, <1>7, <2>1 DEF Left, Turned, Opcodes
<1> QED
    BY <1>4, <1>5, <1>6, <1>7 DEF Reads

(* so the flash is at rest again, and the master knows if it is awake.     *)
LEMMA DeselectStep ==
    ASSUME ProtocolInv, Deselect
    PROVE  ProtocolInv'
<1>1. /\ op # 0 /\ MayDeselect /\ edge % 2 = 0 /\ chip' = CsbHigh(chip)
      /\ op' = 0 /\ start' = 0 /\ edge' = 0
    BY DEF Deselect, MayDeselect
<1>2. /\ op \in Reads \cup Orders /\ edge \in Nat /\ awake \in BOOLEAN
      /\ edge <= Last(op)
    BY <1>1 DEF ProtocolInv
<1> DEFINE up == IF op = POWER_UP /\ Clocks = 8 THEN TRUE
                 ELSE IF op = POWER_DOWN /\ Clocks = 8 THEN FALSE ELSE awake
<1>3. awake' = up
  <2>1. POWER_UP # POWER_DOWN
      BY DEF POWER_UP, POWER_DOWN
  <2> QED
      BY <2>1 DEF Deselect
<1>4. Quiet(chip) /\ chip.dummycount = 0 /\ chip.powered_up = up
  <2>1. CASE edge <= 14
    <3>1. OpcodeIn(chip, op, (edge + 1) \div 2) /\ chip.powered_up = awake
        BY <1>1, <2>1 DEF ProtocolInv
    <3>2. Clocks # 8
        BY <1>2, <2>1 DEF Clocks
    <3> QED
        BY <3>1, <3>2 DEF OpcodeIn
  <2>2. CASE edge >= 15 /\ op \in Orders
    <3>1. OrderIn(chip, op) /\ edge = 16
      <4>1. Last(op) = 16
          BY <2>2 DEF Last
      <4> QED
          BY <1>1, <1>2, <2>2, <4>1 DEF ProtocolInv
    <3>2. Clocks = 8 /\ (op = POWER_UP \/ op = POWER_DOWN) /\ POWER_UP # POWER_DOWN
        BY <2>2, <3>1 DEF Clocks, Orders, POWER_UP, POWER_DOWN
    <3> QED
        BY <3>1, <3>2 DEF OrderIn
  <2>3. CASE edge >= 15 /\ op \in Reads
    <3>1. awake /\ ReadState(chip, op, start, edge) /\ op \notin Orders
        BY <2>3, ApartLemma DEF ProtocolInv
    <3>2. edge >= 16 /\ edge # 15
        BY <1>1, <1>2, <2>3
    <3>3. Left(op, edge) = 0
        BY <1>1, <1>2, <2>3, <3>2, NoneLeft
    <3>4. Plain(chip) /\ chip.next_mode = "none" /\ chip.dummycount = 0 /\ chip.powered_up
        BY <3>1, <3>2, <3>3 DEF ReadState, ReadBits, ReadAt
    <3>5. Quiet(chip) /\ chip.powered_up \in BOOLEAN
        BY <3>4 DEF Plain, Quiet, Typed
    <3>6. op # POWER_UP /\ op # POWER_DOWN
        BY <3>1 DEF Orders
    <3> QED
        BY <1>2, <3>1, <3>4, <3>5, <3>6
  <2>4. edge <= 14 \/ edge >= 15
      BY <1>2
  <2> HIDE DEF up
  <2> QED
      BY <1>2, <2>1, <2>2, <2>3, <2>4, Zenon
<1>5. up \in BOOLEAN
    BY <1>2
<1> HIDE DEF up
<1>6. /\ Resting(CsbHigh(chip)) /\ CsbHigh(chip).dummycount = chip.dummycount
      /\ CsbHigh(chip).powered_up = chip.powered_up
    BY <1>4, DeselectLemma
<1>7. 0 \in Nat /\ 0 \notin Reads /\ 0 \notin Orders
    BY ApartLemma
<1> QED
    BY <1>1, <1>3, <1>4, <1>5, <1>6, <1>7 DEF ProtocolInv

(* ProtocolInv holds at first,                                             *)
LEMMA ProtocolStart == ProtocolInit => ProtocolInv
<1> SUFFICES ASSUME ProtocolInit PROVE ProtocolInv
    OBVIOUS
<1>1. chip = FlashPowerOn /\ op = 0 /\ start = 0 /\ edge = 0 /\ awake = FALSE
    BY DEF ProtocolInit
<1>2. Resting(chip) /\ chip.dummycount = 0 /\ chip.powered_up = FALSE
    BY <1>1, PowerOnLemma DEF FlashPowerOn
<1>3. 0 \in Nat /\ 0 \notin Reads /\ 0 \notin Orders
    BY ApartLemma
<1> QED
    BY <1>1, <1>2, <1>3 DEF ProtocolInv

(* and after every step.                                                   *)
LEMMA ProtocolStep == ProtocolInv /\ [ProtocolNext]_protocolvars => ProtocolInv'
<1> SUFFICES ASSUME ProtocolInv, [ProtocolNext]_protocolvars PROVE ProtocolInv'
    OBVIOUS
<1>1. CASE UNCHANGED protocolvars
  <2>1. chip' = chip /\ op' = op /\ start' = start /\ edge' = edge /\ awake' = awake
      BY <1>1 DEF protocolvars
  <2> QED
      BY <2>1 DEF ProtocolInv
<1>2. ASSUME NEW c \in Reads, NEW a \in Starts, Select(c, a) PROVE ProtocolInv'
    BY <1>2, SelectStep
<1>3. ASSUME NEW c \in Orders, Select(c, 0) PROVE ProtocolInv'
  <2>1. c \notin Reads
      BY ApartLemma
  <2> QED
      BY <1>3, <2>1, SelectStep
<1>4. CASE Rise
    BY <1>4, RiseStep
<1>5. CASE Fall
    BY <1>5, FallStep
<1>6. CASE Deselect
    BY <1>6, DeselectStep
<1> QED
    BY <1>1, <1>2, <1>3, <1>4, <1>5, <1>6 DEF ProtocolNext, Orders

(* ProtocolInv is an invariant of the flash with such a master.            *)
THEOREM ProtocolInvariance == ProtocolSpec => []ProtocolInv
BY ProtocolStart, ProtocolStep, PTL DEF ProtocolSpec

-----------------------------------------------------------------------------
(* What ProtocolInv says of the lines.                                     *)
LEMMA LinesLemma == ProtocolInv => NoConflict
<1> SUFFICES ASSUME ProtocolInv PROVE MasterLines \cap chip.oe = {}
    BY DEF NoConflict
<1>0. Opcodes /\ Shapes
    BY ShapeLemma
<1>1. CASE op = 0
  <2>1. MasterLines = {}
      BY <1>1, ApartLemma DEF MasterLines
  <2> QED
      BY <2>1
<1>2. CASE op # 0
  <2>1. op \in Reads \cup Orders /\ edge \in Nat
      BY <1>2 DEF ProtocolInv
  <2>2. CASE edge <= 15
    <3>1. MasterLines = {0}
      <4>1. Clocks < 8
          BY <2>1, <2>2 DEF Clocks
      <4> QED
          BY <1>2, <4>1 DEF MasterLines
    <3>2. chip.oe = {1}
      <4>1. CASE edge <= 14
          BY <1>2, <4>1 DEF ProtocolInv, OpcodeIn
      <4>2. CASE edge = 15 /\ op \in Reads
          BY <4>2 DEF ProtocolInv, ReadState, LinesAt
      <4>3. CASE edge = 15 /\ op \in Orders
          BY <4>3 DEF ProtocolInv, OrderIn
      <4> QED
          BY <2>1, <2>2, <4>1, <4>2, <4>3
    <3> QED
        BY <3>1, <3>2
  <2>3. CASE edge >= 16
    <3>1. ~ Clocks < 8 /\ Clocks \in Nat
        BY <2>1, <2>3 DEF Clocks
    <3>2. CASE ~ (op \in Reads /\ Clocks \in 8 .. DummyFrom - 1)
        BY <1>2, <3>1, <3>2 DEF MasterLines
    <3>3. CASE op \in Reads /\ Clocks \in 8 .. DummyFrom - 1
      <4>1. MasterLines = 0 .. Lanes - 1
          BY <1>2, <3>1, <3>3 DEF MasterLines
      <4>2. LinesAt(chip, op, start, edge) /\ edge # 15
          BY <2>3, <3>3 DEF ProtocolInv, ReadState
      <4>3. CASE op = READ_STD
        <5>1. Lanes = 1 /\ chip.oe = {1}
            BY <1>0, <4>2, <4>3 DEF LinesAt, Shapes, Shape
        <5>2. 0 .. 1 - 1 = {0}
            OBVIOUS
        <5> QED
            BY <4>1, <5>1, <5>2
      <4>4. CASE op # READ_STD
        <5>1. edge < FirstOut(op)
          <6>1. edge <= 2 * Clocks + 1
              BY <2>1 DEF Clocks
          <6>2. CASE op = READ_DUAL
            <7>1. DummyFrom = 24 /\ FirstOut(op) = 64
                BY <1>0, <6>2 DEF Shapes, Shape, FirstOut, Turned, Opcodes
            <7> QED
                BY <2>1, <3>1, <3>3, <6>1, <7>1
          <6>3. CASE op = READ_QUAD
            <7>1. DummyFrom = 16 /\ FirstOut(op) = 48
                BY <1>0, <6>3 DEF Shapes, Shape, FirstOut, Turned, Opcodes
            <7> QED
                BY <2>1, <3>1, <3>3, <6>1, <7>1
          <6>4. CASE op = READ_DDR
            <7>1. DummyFrom = 12 /\ FirstOut(op) = 40
                BY <1>0, <6>4 DEF Shapes, Shape, FirstOut, Turned, Opcodes
            <7> QED
                BY <2>1, <3>1, <3>3, <6>1, <7>1
          <6> QED
              BY <3>3, <4>4, <6>2, <6>3, <6>4 DEF Reads
        <5> QED
            BY <4>2, <4>4, <5>1 DEF LinesAt
      <4> QED
          BY <4>3, <4>4
    <3> QED
        BY <3>2, <3>3
  <2> QED
      BY <2>1, <2>2, <2>3
<1> QED
    BY <1>1, <1>2

(* The bits of data that are past, in a read that uses one edge.           *)
LEMMA PastData ==
    ASSUME op \in Single, edge \in Nat, edge % 2 = 0, Clocks >= DataFrom
    PROVE  /\ Past(DataFrom) \in Nat /\ edge >= 16
           /\ Got(op, edge) = 8 * Hd(op) + Past(DataFrom)
           /\ ~ edge < FirstOut(op) /\ Lanes = Wide(op)
<1>0. Opcodes /\ Shapes
    BY ShapeLemma
<1> DEFINE k == edge \div 2
<1>1. k \in Nat /\ edge = 2 * k /\ Clocks = k
    BY DEF Clocks
<1> HIDE DEF k
<1>2. Rises(edge) = k - 8
    BY <1>1 DEF Rises
<1>3. CASE op = READ_STD
  <2>1. Lanes = 1 /\ DataFrom = 32 /\ ~ Ddr /\ Hd(op) = 3 /\ Wide(op) = 1 /\ FirstOut(op) = 64
      BY <1>0, <1>3 DEF Opcodes, Shapes, Shape, Hd, Wide, FirstOut
  <2>2. Past(DataFrom) = k - 32 /\ k >= 32
      BY <1>1, <2>1 DEF Past
  <2>3. Got(op, edge) = k - 8
      BY <1>2, <1>3 DEF Got
  <2> QED
      BY <1>1, <2>1, <2>2, <2>3
<1>4. CASE op = READ_DUAL
  <2>1. Lanes = 2 /\ DataFrom = 32 /\ ~ Ddr /\ Hd(op) = 4 /\ Wide(op) = 2 /\ FirstOut(op) = 64
      BY <1>0, <1>4 DEF Opcodes, Shapes, Shape, Hd, Wide, FirstOut, Turned
  <2>2. Past(DataFrom) = 2 * (k - 32) /\ k >= 32
      BY <1>1, <2>1 DEF Past
  <2>3. Got(op, edge) = 2 * (k - 16)
      BY <1>0, <1>1, <1>2, <1>4, <2>2 DEF Got, Opcodes
  <2> QED
      BY <1>1, <2>1, <2>2, <2>3
<1>5. CASE op = READ_QUAD
  <2>1. Lanes = 4 /\ DataFrom = 24 /\ ~ Ddr /\ Hd(op) = 4 /\ Wide(op) = 4 /\ FirstOut(op) = 48
      BY <1>0, <1>5 DEF Opcodes, Shapes, Shape, Hd, Wide, FirstOut, Turned
  <2>2. Past(DataFrom) = 4 * (k - 24) /\ k >= 24
      BY <1>1, <2>1 DEF Past
  <2>3. Got(op, edge) = 4 * (k - 16)
      BY <1>0, <1>1, <1>2, <1>5, <2>2 DEF Got, Opcodes
  <2> QED
      BY <1>1, <2>1, <2>2, <2>3
<1> QED
    BY <1>3, <1>4, <1>5 DEF Single

(* And what it says of the data.                                           *)
Shows(m, b, w) ==
    LET want == Slice(m, b, w)
    IN  IF op = READ_STD THEN chip.oe = {1} /\ chip.dout = 2 * want
                         ELSE chip.oe = 0 .. Lanes - 1 /\ chip.dout = want

(* It is what DataRight asks for.                                          *)
LEMMA DataLemma == ProtocolInv => DataRight
<1> SUFFICES ASSUME ProtocolInv, InData, Ddr \/ edge % 2 = 0, ~ Done
             PROVE  Shows(memory((start + Past(DataFrom) \div 8) % FlashSize),
                          Past(DataFrom) % 8, Lanes)
    BY DEF DataRight, Shows
<1>0. Opcodes /\ Shapes /\ MaxBytes \in Nat
    BY ShapeLemma, ProtocolAssumption
<1>1. /\ op \in Reads /\ Clocks >= DataFrom /\ edge \in Nat /\ edge <= Last(op)
      /\ op # 0 /\ start \in Starts /\ (edge >= 15 => ReadState(chip, op, start, edge))
    BY ApartLemma DEF InData, ProtocolInv
<1> DEFINE p == Past(DataFrom)
           j == p \div 8
           b == p % 8
           m == MemoryByte(start, j)
<1>2. m = memory((start + j) % FlashSize)
    BY DEF MemoryByte
<1>3. CASE op \in Single
  <2>1. edge % 2 = 0 /\ op # READ_DDR
      BY <1>0, <1>3 DEF Ddr, Single, Opcodes
  <2>2. /\ p \in Nat /\ edge >= 16 /\ Got(op, edge) = 8 * Hd(op) + p
        /\ ~ edge < FirstOut(op) /\ Lanes = Wide(op)
      BY <1>1, <1>3, <2>1, PastData
  <2> DEFINE w == Wide(op)
             G == Got(op, edge)
  <2>3. ReadBits(chip, op, start, G) /\ LinesAt(chip, op, start, edge)
      BY <1>1, <2>2 DEF ReadState
  <2>4. G % w = 0 /\ w \in {1, 2, 4}
    <3>1. RiseCount(op, edge)
        BY <1>1, <1>3, <2>1, <2>2, RiseCounts
    <3> QED
        BY <3>1 DEF RiseCount, Wide
  <2>5. G < 8 * (Hd(op) + MaxBytes + 1) /\ Hd(op) \in {3, 4}
      BY <1>1, <2>2, GotBound DEF Hd
  <2> HIDE DEF p, G
  <2>6. /\ j \in Nat /\ b \in 0 .. 7 /\ p = 8 * j + b /\ j <= MaxBytes
    <3>1. j \in Nat /\ b \in 0 .. 7 /\ p = 8 * j + b
        BY <2>2
    <3> HIDE DEF j, b
    <3> QED
        BY <1>0, <2>2, <2>5, <3>1 DEF G
  <2> HIDE DEF j, b
  <2>7. G \div 8 = j + Hd(op) /\ G % 8 = b
    <3>1. Eight(G, j + Hd(op), b) /\ j + Hd(op) \in Nat
        BY <2>2, <2>5, <2>6 DEF Eight, G
    <3> QED
        BY <2>6, <3>1, EightLemma
  <2>8. Fits(w, b)
    <3>1. G \in Nat
        BY <2>2, <2>5 DEF G
    <3>2. Fits(w, G % 8)
        BY <1>1, <2>4, <3>1, WideLemma
    <3> QED
        BY <2>7, <3>2
  <2>9. m \in 0 .. 255
      BY <1>1, <2>6, MemoryBytes
  <2>10. chip.buffer \in 0 .. 255 /\ BitsAreOut(chip.buffer, m, b)
    <3>1. ReadAt(chip, op, start, j + Hd(op), b)
        BY <2>3, <2>7 DEF ReadBits
    <3>2. (j + Hd(op)) - Hd(op) = j /\ j + Hd(op) >= Hd(op)
        BY <2>5, <2>6
    <3> QED
        BY <3>1, <3>2 DEF ReadAt, MemoryOut, Plain, Typed
  <2>11. High(chip.buffer, 8 - w) = Slice(m, b, w)
    <3> HIDE DEF w, m
    <3> QED
        BY <2>8, <2>9, <2>10, BitsShown, ZenonT(60)
  <2> DEFINE v == Slice(m, b, w)
  <2>12. Shows(m, b, w)
    <3>1. CASE op = READ_STD
      <4>1. chip.oe = {1} /\ chip.dout = 2 * (chip.buffer \div 128) /\ w = 1
          BY <2>1, <2>2, <2>3, <3>1 DEF LinesAt, Wide
      <4>2. chip.buffer \div 128 = v
        <5>1. High(chip.buffer, 8 - 1) = chip.buffer \div 128
            BY <2>10 DEF High
        <5> QED
            BY <2>11, <4>1, <5>1
      <4> HIDE DEF v
      <4> QED
          BY <3>1, <4>1, <4>2 DEF Shows, v
    <3>2. CASE op = READ_DUAL
      <4>1. chip.oe = 0 .. Wide(op) - 1 /\ chip.dout = chip.buffer \div 64 /\ w = 2
          BY <1>0, <2>1, <2>2, <2>3, <3>2 DEF LinesAt, Wide, Opcodes
      <4>2. chip.buffer \div 64 = v
        <5>1. High(chip.buffer, 8 - 2) = chip.buffer \div 64
            BY <2>10 DEF High
        <5> QED
            BY <2>11, <4>1, <5>1
      <4>3. op # READ_STD
          BY <1>0, <3>2 DEF Opcodes
      <4> HIDE DEF v
      <4> QED
          BY <2>2, <4>1, <4>2, <4>3 DEF Shows, v
    <3>3. CASE op = READ_QUAD
      <4>1. chip.oe = 0 .. Wide(op) - 1 /\ chip.dout = chip.buffer \div 16 /\ w = 4
          BY <1>0, <2>1, <2>2, <2>3, <3>3 DEF LinesAt, Wide, Opcodes
      <4>2. chip.buffer \div 16 = v
        <5>1. High(chip.buffer, 8 - 4) = chip.buffer \div 16
            BY <2>10 DEF High
        <5> QED
            BY <2>11, <4>1, <5>1
      <4>3. op # READ_STD
          BY <1>0, <3>3 DEF Opcodes
      <4> HIDE DEF v
      <4> QED
          BY <2>2, <4>1, <4>2, <4>3 DEF Shows, v
    <3> QED
        BY <1>3, <3>1, <3>2, <3>3 DEF Single
  <2> QED
      BY <1>2, <2>2, <2>12 DEF j, b, p
<1>4. CASE op = READ_DDR
  <2>0. DdrFacts
      BY DdrLemma
  <2>1. Lanes = 4 /\ DataFrom = 20 /\ Ddr
      BY <1>0, <1>4 DEF Shapes, Shape
  <2>2. edge >= 40 /\ p = 4 * (edge - 40)
    <3>1. edge >= 40
        BY <1>1, <2>1 DEF Clocks
    <3> QED
        BY <1>1, <2>1, <3>1 DEF Past
  <2> HIDE DEF p
  <2>3. /\ j = (edge - 40) \div 2 /\ j \in Nat
        /\ b = IF edge % 2 = 0 THEN 0 ELSE 4
      BY <1>1, <2>2
  <2> HIDE DEF j, b
  <2>4. edge # 15 /\ ~ edge < 40 /\ edge >= 15
      BY <1>1, <2>2
  <2>5. ReadState(chip, op, start, edge)
      BY <1>1, <2>4
  <2>6. LinesAt(chip, op, start, edge)
      BY <2>5 DEF ReadState
  <2>7. /\ chip.oe = IoLine
        /\ chip.dout = IF edge % 2 = 0 THEN m \div 16 ELSE m % 16
      BY <1>4, <2>0, <2>3, <2>4, <2>6 DEF LinesAt, DdrFacts
  <2>8. m \in 0 .. 255
    <3>1. j <= MaxBytes
      <4>1. edge <= 40 + 2 * MaxBytes
        <5>1. Last(op) = 40 + 2 * MaxBytes
            BY <1>0, <1>4 DEF Last, FirstOut, Turned, Orders, Opcodes
        <5> QED
            BY <1>1, <5>1
      <4> QED
          BY <1>0, <1>1, <2>2, <2>3, <4>1
    <3> QED
        BY <1>1, <2>3, <3>1, MemoryBytes
  <2> HIDE DEF m
  <2>9. chip.dout = Slice(m, b, 4)
    <3>1. Slice(m, 0, 4) = m \div 16 /\ Slice(m, 4, 4) = m % 16
        BY <2>8, NibblesOf
    <3> QED
        BY <2>3, <2>7, <3>1
  <2>10. 0 .. 4 - 1 = IoLine /\ op # READ_STD
      BY <1>4, <2>0 DEF IoLine, DdrFacts
  <2>11. Shows(m, b, 4)
      BY <2>7, <2>9, <2>10, <2>1 DEF Shows
  <2> QED
      BY <1>2, <2>1, <2>11 DEF j, b, p
<1> QED
    BY <1>1, <1>3, <1>4 DEF Reads, Single

(* With a master that keeps to the protocol, whatever reads, power-ups and *)
(* power-downs it made and gave up before, every bit spiflash.v presents   *)
(* from the first data clock of any of its four reads on is the memory's.  *)
THEOREM EveryBitIsRight == ProtocolSpec => []DataRight
BY ProtocolInvariance, DataLemma, PTL

(* In all of that the flash and the master never drive the same line.      *)
THEOREM LinesNeverClash == ProtocolSpec => []NoConflict
BY ProtocolInvariance, LinesLemma, PTL
=============================================================================
