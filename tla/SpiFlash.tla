------------------------------ MODULE SpiFlash ------------------------------
(***************************************************************************)
(* Task_3/dv/spiflash.v, the flash the simulation wires to the SPI host:   *)
(* its registers as a record f, and what each event on csb and clk makes   *)
(* of them.  io and dout are the four lines as a number, io0 the low bit;  *)
(* oe is the set of lines the flash drives; dout is 0 on the others.       *)
(***************************************************************************)
EXTENDS Integers

CONSTANT memory(_)  \* the byte at an address, as $readmemh left it

latency == 8

POWER_UP   == 171   \* ab
POWER_DOWN == 185   \* b9
CLEAR_XIP  == 255   \* ff
READ_STD   == 3     \* 03
READ_DUAL  == 187   \* bb
READ_QUAD  == 235   \* eb
READ_DDR   == 237   \* ed
XIP_MODE   == 165   \* a5, as the mode byte of a fast read

FlashSize == 2^24   \* bytes; an address has 24 bits

IoLine == 0 .. 3

Mode == {"spi", "dspi_rd", "dspi_wr", "qspi_rd", "qspi_wr", "qspi_ddr_rd",
         "qspi_ddr_wr"}

FlashState ==
    [buffer : 0 .. 255, bitcount : 0 .. 7, bytecount : Nat,
     dummycount : 0 .. latency, spi_cmd : 0 .. 255, xip_cmd : 0 .. 255,
     spi_addr : 0 .. FlashSize - 1, powered_up : BOOLEAN, mode : Mode,
     next_mode : {"none", "qspi_ddr_rd"}, oe : SUBSET IoLine, dout : 0 .. 15]

(* After the initial values and the first csb = 1. *)
FlashPowerOn ==
    [buffer |-> 0, bitcount |-> 0, bytecount |-> 0, dummycount |-> 0,
     spi_cmd |-> 0, xip_cmd |-> 0, spi_addr |-> 0, powered_up |-> FALSE,
     mode |-> "spi", next_mode |-> "none", oe |-> {}, dout |-> 0]
-----------------------------------------------------------------------------
(* task spi_action: a byte is complete in buffer. *)

Decode(f) ==
    IF f.bytecount # 1 THEN f
    ELSE [f EXCEPT
            !.spi_cmd = f.buffer,
            !.powered_up = (f.buffer = POWER_UP) \/ (@ /\ f.buffer # POWER_DOWN),
            !.xip_cmd = IF f.buffer = CLEAR_XIP THEN 0 ELSE @]

MutAddressByte(f) ==  \* least significant byte first
    [f EXCEPT !.spi_addr =
       CASE f.bytecount = 2 -> (@ - (@ % 2^8)) + f.buffer
         [] f.bytecount = 3 -> (@ - (@ % 2^16)) + 2^8 * f.buffer + (@ % 2^8)
         [] f.bytecount = 4 -> 2^16 * f.buffer + (@ % 2^16)
         [] OTHER           -> @]

AddressByte(f) ==
    [f EXCEPT !.spi_addr =
       CASE f.bytecount = 2 -> 2^16 * f.buffer + (@ % 2^16)
         [] f.bytecount = 3 -> (@ - (@ % 2^16)) + 2^8 * f.buffer + (@ % 2^8)
         [] f.bytecount = 4 -> (@ - (@ % 2^8)) + f.buffer
         [] OTHER           -> @]

Fetch(f) == [f EXCEPT !.buffer = memory(f.spi_addr),
                      !.spi_addr = (@ + 1) % FlashSize]

StandardRead(f) ==
    IF f.bytecount >= 4 THEN Fetch(AddressByte(f)) ELSE AddressByte(f)

(* bb, eb and ed: the opcode turns the lines round, the mode byte turns    *)
(* them back and starts the dummy clocks.                                  *)
Turn(f, rd) == IF f.bytecount = 1 /\ f.spi_cmd # READ_DDR
               THEN [f EXCEPT !.mode = rd]
               ELSE IF f.bytecount = 1 THEN [f EXCEPT !.next_mode = rd] ELSE f

ModeByte(f, wr) ==
    IF f.bytecount # 5 THEN f
    ELSE [f EXCEPT !.xip_cmd = IF f.buffer = XIP_MODE THEN f.spi_cmd ELSE 0,
                   !.mode = wr,
                   !.dummycount = latency]

FastRead(f, rd, wr) ==
    LET g == ModeByte(AddressByte(Turn(f, rd)), wr)
    IN  IF f.bytecount >= 5 THEN Fetch(g) ELSE g

spi_action(f) ==
    LET g == Decode(f)
    IN  CASE ~ g.powered_up          -> g
          [] g.spi_cmd = READ_STD    -> StandardRead(g)
          [] g.spi_cmd = READ_DUAL   -> FastRead(g, "dspi_rd", "dspi_wr")
          [] g.spi_cmd = READ_QUAD   -> FastRead(g, "qspi_rd", "qspi_wr")
          [] g.spi_cmd = READ_DDR    -> FastRead(g, "qspi_ddr_rd", "qspi_ddr_wr")
          [] OTHER                   -> g

(* n bits more in buffer; a whole byte is acted on. *)
ShiftIn(f, bits, n) ==
    LET g == [f EXCEPT !.buffer = (2^n * @ + bits) % 256]
    IN  IF f.bitcount + n = 8
        THEN spi_action([g EXCEPT !.bitcount = 0, !.bytecount = @ + 1])
        ELSE [g EXCEPT !.bitcount = @ + n]

Drive(f, lines, value) == [f EXCEPT !.oe = lines, !.dout = value]

ddr_rd_edge(f, io) == ShiftIn(f, io, 4)

ddr_wr_edge(f) == ShiftIn(Drive(f, IoLine, f.buffer \div 16), 0, 4)
-----------------------------------------------------------------------------
(* always @(csb), csb high: dummycount, next_mode and spi_cmd stay. *)

MutCsbHigh(f) ==  \* the mode survives the transaction
    [f EXCEPT !.buffer = 0, !.bitcount = 0, !.bytecount = 0,
              !.oe = {}, !.dout = 0]

CsbHigh(f) ==
    [f EXCEPT !.buffer = 0, !.bitcount = 0, !.bytecount = 0,
              !.mode = "spi", !.oe = {}, !.dout = 0]

(* always @(posedge clk), csb low. *)
ClkHigh(f, io) ==
    CASE f.dummycount > 0                  -> [f EXCEPT !.dummycount = @ - 1]
      [] f.dummycount = 0 /\ f.mode = "spi" -> ShiftIn(f, io % 2, 1)
      [] f.dummycount = 0 /\ f.mode \in {"dspi_rd", "dspi_wr"} ->
           ShiftIn(f, io % 4, 2)
      [] f.dummycount = 0 /\ f.mode \in {"qspi_rd", "qspi_wr"} ->
           ShiftIn(f, io, 4)
      [] f.dummycount = 0 /\ f.mode = "qspi_ddr_rd" -> ddr_rd_edge(f, io)
      [] f.dummycount = 0 /\ f.mode = "qspi_ddr_wr" -> ddr_wr_edge(f)

(* always @(csb, clk), both low: the lines the mode drives, and then the   *)
(* mode a ddr opcode has asked for.                                        *)
LowPhase(f, io) ==
    CASE f.dummycount > 0                  -> Drive(f, {}, 0)
      [] f.dummycount = 0 /\ f.mode = "spi" ->
           Drive(f, {1}, 2 * (f.buffer \div 128))
      [] f.dummycount = 0 /\ f.mode \in {"dspi_rd", "qspi_rd"} -> Drive(f, {}, 0)
      [] f.dummycount = 0 /\ f.mode = "dspi_wr" ->
           Drive(f, {0, 1}, f.buffer \div 64)
      [] f.dummycount = 0 /\ f.mode = "qspi_wr" ->
           Drive(f, IoLine, f.buffer \div 16)
      [] f.dummycount = 0 /\ f.mode = "qspi_ddr_rd" -> ddr_rd_edge(f, io)
      [] f.dummycount = 0 /\ f.mode = "qspi_ddr_wr" -> ddr_wr_edge(f)

NextMode(f) ==
    IF f.next_mode = "none" THEN f
    ELSE [Drive(f, {}, 0) EXCEPT !.mode = f.next_mode, !.next_mode = "none"]

ClkLow(f, io) == NextMode(LowPhase(f, io))

(* csb falls with clk low: always @(csb) and always @(csb, clk) both run,  *)
(* in an order Verilog leaves open.  It makes a difference only in XIP.    *)
XipStart(f) ==
    IF f.xip_cmd = 0 THEN f
    ELSE spi_action([f EXCEPT !.buffer = f.xip_cmd, !.bitcount = 0,
                              !.bytecount = 1])

CsbLow(f, io) == {ClkLow(XipStart(f), io), XipStart(ClkLow(f, io))}
=============================================================================
