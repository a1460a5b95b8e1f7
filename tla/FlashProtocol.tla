--------------------------- MODULE FlashProtocol ---------------------------
(***************************************************************************)
(* The flash of SpiFlash with a master that keeps to its protocol, edge by *)
(* edge: power-up, power-down and the four reads (03, bb, eb, ed), the     *)
(* last on both edges.  The master may give a transaction up after any     *)
(* clock but one the flash counts as a dummy.                              *)
(***************************************************************************)
EXTENDS SpiFlash

CONSTANTS Starts,    \* where reads start
          MaxBytes   \* how many bytes a read fetches at most

ASSUME ProtocolAssumption ==
    /\ Starts \subseteq 0 .. FlashSize - 1
    /\ MaxBytes \in Nat \ {0}
    /\ \A a \in Starts, k \in 0 .. MaxBytes :
          memory((a + k) % FlashSize) \in 0 .. 255

VARIABLES chip,      \* the flash
          op, start, \* the master's transaction; op is 0 if there is none
          edge,      \* edges of clk in it so far; the next is a rise if even
          awake      \* the last of power-up and power-down it completed

protocolvars == <<chip, op, start, edge, awake>>

Reads == {READ_STD, READ_DUAL, READ_QUAD, READ_DDR}

Lanes == CASE op = READ_STD -> 1 [] op = READ_DUAL -> 2 [] OTHER -> 4

Ddr == op = READ_DDR

(* The clock the address starts at, and the one the data does.             *)
HeaderBytes == IF op = READ_STD THEN 3 ELSE 4

EdgeBits == IF Ddr THEN 2 * Lanes ELSE Lanes

DummyFrom == 8 + (8 * HeaderBytes) \div EdgeBits

DataFrom == IF op = READ_STD THEN DummyFrom ELSE DummyFrom + latency

Clocks == edge \div 2

Slice(byte, pos, n) == (byte \div 2^(8 - pos - n)) % 2^n

(* How many bits of a phase that began at clock c are past.                *)
Past(c) == IF Ddr THEN (edge - 2 * c) * Lanes ELSE (Clocks - c) * Lanes

HeaderByte(j) == CASE j = 0 -> start \div 2^16
                   [] j = 1 -> (start \div 2^8) % 2^8
                   [] j = 2 -> start % 2^8
                   [] j = 3 -> 0

(* What the master drives, and which lines.                                *)
MasterLines == CASE op = 0               -> {}
                 [] op # 0 /\ Clocks < 8 -> {0}
                 [] op \in Reads /\ Clocks \in 8 .. DummyFrom - 1 -> 0 .. Lanes - 1
                 [] OTHER                -> {}

MasterOut == CASE MasterLines = {}                -> 0
               [] MasterLines # {} /\ Clocks < 8  -> Slice(op, Clocks, 1)
               [] MasterLines # {} /\ Clocks >= 8 ->
                    Slice(HeaderByte(Past(8) \div 8), Past(8) % 8, Lanes)

Bus == MasterOut + chip.dout

InData == op \in Reads /\ Clocks >= DataFrom

Done == IF op \in Reads THEN Past(DataFrom) = 8 * MaxBytes ELSE Clocks = 8
-----------------------------------------------------------------------------
Select(c, a) ==
    /\ op = 0
    /\ c \in Reads => awake
    /\ op' = c /\ start' = a /\ edge' = 0
    /\ chip' \in CsbLow(chip, 0)
    /\ UNCHANGED awake

Rise ==
    /\ op # 0 /\ edge % 2 = 0 /\ ~ Done
    /\ chip' = ClkHigh(chip, Bus)
    /\ edge' = edge + 1
    /\ UNCHANGED <<op, start, awake>>

Fall ==
    /\ op # 0 /\ edge % 2 = 1
    /\ chip' = ClkLow(chip, Bus)
    /\ edge' = edge + 1
    /\ UNCHANGED <<op, start, awake>>

(* Not before the data of a fast read, once the address is complete.       *)
MayDeselect == edge % 2 = 0 /\ ~ (op \in Reads /\ Clocks \in DummyFrom .. DataFrom - 1)

Deselect ==
    /\ op # 0 /\ MayDeselect
    /\ chip' = CsbHigh(chip)
    /\ awake' = CASE op = POWER_UP /\ Clocks = 8   -> TRUE
                  [] op = POWER_DOWN /\ Clocks = 8 -> FALSE
                  [] OTHER                         -> awake
    /\ op' = 0 /\ start' = 0 /\ edge' = 0

ProtocolInit ==
    /\ chip = FlashPowerOn
    /\ op = 0 /\ start = 0 /\ edge = 0
    /\ awake = FALSE

ProtocolNext ==
    \/ \E c \in Reads, a \in Starts : Select(c, a)
    \/ \E c \in {POWER_UP, POWER_DOWN} : Select(c, 0)
    \/ Rise \/ Fall \/ Deselect

ProtocolSpec == ProtocolInit /\ [][ProtocolNext]_protocolvars
-----------------------------------------------------------------------------
(* What a read presents from its first data clock on is the contents of    *)
(* the memory from the address on, wrapped at its end, bit by bit at the   *)
(* edges where the master samples, whatever transactions came before.      *)
DataRight ==
    InData /\ (Ddr \/ edge % 2 = 0) /\ ~ Done =>
        LET byte == memory((start + Past(DataFrom) \div 8) % FlashSize)
            want == Slice(byte, Past(DataFrom) % 8, Lanes)
        IN  IF op = READ_STD THEN chip.oe = {1} /\ chip.dout = 2 * want
                             ELSE chip.oe = 0 .. Lanes - 1 /\ chip.dout = want

(* The flash never drives a line the master drives.                        *)
NoConflict == MasterLines \cap chip.oe = {}
=============================================================================
