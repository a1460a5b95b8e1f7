------------------------------- MODULE Crc32 --------------------------------
(***************************************************************************)
(* crc32_init_table and crc32_compute of Task_3/sw/bootloader.c, run over  *)
(* the copy in SRAM, side by side with the CRC that mkflash.py computed    *)
(* over the application it programmed (zlib.crc32, taken as its bit-serial *)
(* definition).  The boot compares the two results.                        *)
(*                                                                         *)
(* A word of W bits is the set of the positions of its ones, so xor is the *)
(* symmetric difference; nothing here is limited to the integers of a      *)
(* tool.  W is 32 and POLY 0xEDB88320 in the code.                         *)
(***************************************************************************)
EXTENDS Integers

CONSTANTS W,          \* width of the CRC register
          POLY,       \* the reflected polynomial
          MaxSize,    \* longest message, MAX_PAYLOAD_SIZE in the code
          Message     \* the applications, and the copies, considered

Word == SUBSET (0 .. W - 1)

Byte == SUBSET (0 .. 7)

(* 0xEDB88320 has its top bit set: the polynomial has a constant term.     *)
ASSUME CrcAssumption ==
    /\ W \in Nat /\ W >= 8
    /\ POLY \in Word /\ W - 1 \in POLY
    /\ MaxSize \in Nat
    /\ \A m \in Message : /\ \E n \in 0 .. MaxSize : DOMAIN m = 0 .. n - 1
                          /\ \A k \in DOMAIN m : m[k] \in Byte

VARIABLES app,    \* what was programmed
          data,   \* what SRAM holds
          table,  \* crc32_table
          i, crc, \* locals of crc32_compute
          ref,    \* the CRC register of mkflash.py
          pc

vars == <<app, data, table, i, crc, ref, pc>>
-----------------------------------------------------------------------------
Xor(a, b) == (a \ b) \cup (b \ a)

MutShr(a, n) == {k - n : k \in a}  \* bits leave at the bottom and are kept

Shr(a, n) == {k \in 0 .. W - 1 : k + n \in a}

Ones == 0 .. W - 1

(* One turn of the inner loop of crc32_init_table.                         *)
MutBitStep(c) == IF 0 \in c THEN Shr(c, 1) \cup POLY ELSE Shr(c, 1)

BitStep(c) == IF 0 \in c THEN Xor(Shr(c, 1), POLY) ELSE Shr(c, 1)

TwoBits(c) == BitStep(BitStep(c))

FourBits(c) == TwoBits(TwoBits(c))

(* The whole inner loop.                                                   *)
MutEightBits(c) == FourBits(FourBits(TwoBits(FourBits(FourBits(c)))))

EightBits(c) == FourBits(FourBits(c))

(* The CRC by definition: the bits of the byte, lowest first, enter a      *)
(* register that shifts right and is reduced when a one falls out.         *)
RefBit(c, d, n) ==
    IF (0 \in c) # (n \in d) THEN Xor(Shr(c, 1), POLY) ELSE Shr(c, 1)

RefByte(c, d) ==
    RefBit(RefBit(RefBit(RefBit(RefBit(RefBit(RefBit(RefBit(c,
        d, 0), d, 1), d, 2), d, 3), d, 4), d, 5), d, 6), d, 7)

(* One turn of the loop of crc32_compute; index is a uint8_t.              *)
MutByteStep(c, d) == Xor(Shr(c, 8), table[c \cap 0 .. 7])

ByteStep(c, d) ==
    LET index == Xor(c, d) \cap 0 .. 7
    IN  Xor(Shr(c, 8), table[index])
-----------------------------------------------------------------------------
crc32_init_table ==
    /\ pc = "table"
    /\ table' = [b \in Byte |-> EightBits(b)]
    /\ pc' = "loop"
    /\ UNCHANGED <<app, data, i, crc, ref>>

NextByte ==
    /\ pc = "loop"
    /\ i \in DOMAIN data
    /\ crc' = ByteStep(crc, data[i])
    /\ ref' = RefByte(ref, app[i])
    /\ i' = i + 1
    /\ UNCHANGED <<app, data, table, pc>>

Finish ==
    /\ pc = "loop"
    /\ i \notin DOMAIN data
    /\ crc' = Xor(crc, Ones)
    /\ ref' = Xor(ref, Ones)
    /\ pc' = "done"
    /\ UNCHANGED <<app, data, table, i>>

Init ==
    /\ app \in Message
    /\ data \in {m \in Message : DOMAIN m = DOMAIN app}
    /\ table = [b \in Byte |-> {}]      \* .bss
    /\ i = 0 /\ crc = Ones /\ ref = Ones
    /\ pc = "table"

Next == crc32_init_table \/ NextByte \/ Finish \/ (pc = "done" /\ UNCHANGED vars)

Spec == Init /\ [][Next]_vars
-----------------------------------------------------------------------------
(* Type correctness: the CRC register never grows past W bits.             *)
TypeOK ==
    /\ app \in Message /\ data \in Message
    /\ table \in [Byte -> Word]
    /\ i \in Nat
    /\ crc \in Word /\ ref \in Word
    /\ pc \in {"table", "loop", "done"}

(* An intact copy passes: the table-driven CRC of the bootloader is the    *)
(* CRC mkflash.py stored.                                                  *)
IntactCopyPasses == pc = "done" /\ data = app => crc = ref

Differ == {k \in DOMAIN app : app[k] # data[k]}

(* A copy with one wrong byte, wherever it is and whatever it became, is   *)
(* refused.                                                                *)
WrongByteRefused ==
    pc = "done" /\ (\E k \in DOMAIN app : Differ = {k}) => crc # ref
=============================================================================
