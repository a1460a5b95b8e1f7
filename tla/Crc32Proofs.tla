---------------------------- MODULE Crc32Proofs -----------------------------
(***************************************************************************)
(* Proofs about Crc32, for every width of at least 8, every polynomial     *)
(* with its top bit set and every set of messages.                         *)
(***************************************************************************)
EXTENDS Crc32, TLAPS

LEMMA XorType == \A a, b \in Word : Xor(a, b) \in Word
BY DEF Xor, Word

LEMMA ShrType == \A a, n : Shr(a, n) \in Word
BY DEF Shr, Word

LEMMA BitStepType == \A c \in Word : BitStep(c) \in Word
BY XorType, ShrType, CrcAssumption DEF BitStep

LEMMA EightBitsType == \A c \in Word : EightBits(c) \in Word
BY BitStepType DEF EightBits, FourBits, TwoBits

LEMMA ByteInWord == \A d \in Byte : d \in Word
<1>1. 0 .. 7 \subseteq 0 .. W - 1
    BY CrcAssumption
<1> QED
    BY <1>1 DEF Byte, Word
-----------------------------------------------------------------------------
(* The table: one look-up does the work of eight bit steps, because a bit  *)
(* step is linear over xor.                                                *)

LEMMA ShrXor == \A a, b, n : Shr(Xor(a, b), n) = Xor(Shr(a, n), Shr(b, n))
BY DEF Shr, Xor

LEMMA BitStepXor == \A a, b : BitStep(Xor(a, b)) = Xor(BitStep(a), BitStep(b))
<1> SUFFICES ASSUME NEW a, NEW b
             PROVE  BitStep(Xor(a, b)) = Xor(BitStep(a), BitStep(b))
    OBVIOUS
<1>1. Shr(Xor(a, b), 1) = Xor(Shr(a, 1), Shr(b, 1))
    BY ShrXor
<1>2. 0 \in Xor(a, b) <=> ((0 \in a) # (0 \in b))
    BY DEF Xor
<1>3. CASE 0 \in a /\ 0 \in b
    BY <1>1, <1>3 DEF BitStep, Xor
<1>4. CASE 0 \in a /\ 0 \notin b
    BY <1>1, <1>4 DEF BitStep, Xor
<1>5. CASE 0 \notin a /\ 0 \in b
    BY <1>1, <1>5 DEF BitStep, Xor
<1>6. CASE 0 \notin a /\ 0 \notin b
    BY <1>1, <1>6 DEF BitStep, Xor
<1> QED
    BY <1>3, <1>4, <1>5, <1>6

LEMMA EightBitsXor == \A a, b : EightBits(Xor(a, b)) = Xor(EightBits(a), EightBits(b))
<1>1. \A a, b : TwoBits(Xor(a, b)) = Xor(TwoBits(a), TwoBits(b))
    BY BitStepXor DEF TwoBits
<1>2. \A a, b : FourBits(Xor(a, b)) = Xor(FourBits(a), FourBits(b))
    BY <1>1 DEF FourBits
<1> QED
    BY <1>2 DEF EightBits

LEMMA ShrShr ==
    ASSUME NEW a \in Word, NEW m \in Nat, NEW n \in Nat
    PROVE  Shr(Shr(a, m), n) = Shr(a, m + n)
BY CrcAssumption DEF Shr, Word

LEMMA ShrZero == \A a \in Word : Shr(a, 0) = a
<1> SUFFICES ASSUME NEW a \in Word PROVE Shr(a, 0) = a
    OBVIOUS
<1>1. \A k \in 0 .. W - 1 : k + 0 = k
    BY CrcAssumption
<1>2. a \subseteq 0 .. W - 1
    BY DEF Word
<1> QED
    BY <1>1, <1>2 DEF Shr

(* A word with no low bits is only shifted.                                *)
LEMMA HighBits ==
    ASSUME NEW h \in Word, \A k \in 0 .. 7 : k \notin h
    PROVE  EightBits(h) = Shr(h, 8)
<1>1. ASSUME NEW n \in 0 .. 7
      PROVE  BitStep(Shr(h, n)) = Shr(h, n + 1)
    <2>1. 0 \notin Shr(h, n)
        BY DEF Shr
    <2> QED
        BY <2>1, ShrShr DEF BitStep
<1>2. Shr(h, 0) = h
    BY ShrZero
<1>3. TwoBits(h) = Shr(h, 2)
    BY <1>1, <1>2 DEF TwoBits
<1>4. FourBits(h) = Shr(h, 4)
    BY <1>1, <1>3 DEF FourBits, TwoBits
<1>5. FourBits(Shr(h, 4)) = Shr(h, 8)
    BY <1>1 DEF FourBits, TwoBits
<1> QED
    BY <1>4, <1>5 DEF EightBits

TableReady == table = [b \in Byte |-> EightBits(b)]

(* The step of crc32_compute with the table crc32_init_table built is      *)
(* eight turns of the bit loop.                                            *)
LEMMA TableLemma ==
    ASSUME NEW c \in Word, NEW d \in Byte, TableReady
    PROVE  ByteStep(c, d) = EightBits(Xor(c, d))
<1> DEFINE x == Xor(c, d)
           low == x \cap 0 .. 7
           high == x \ 0 .. 7
<1>1. x \in Word /\ low \in Byte /\ high \in Word
    BY XorType, ByteInWord DEF Byte, Word
<1>2. x = Xor(low, high)
    BY DEF Xor
<1>3. EightBits(high) = Shr(high, 8)
    BY <1>1, HighBits
<1>4. Shr(high, 8) = Shr(c, 8)
    BY CrcAssumption DEF Shr, Xor, Byte, Word
<1>5. table[low] = EightBits(low)
    BY <1>1 DEF TableReady
<1>6. EightBits(x) = Xor(EightBits(low), EightBits(high))
    BY <1>2, EightBitsXor
<1>7. Xor(EightBits(low), EightBits(high)) = Xor(EightBits(high), EightBits(low))
    BY DEF Xor
<1> HIDE DEF x, high
<1>8. EightBits(x) = Xor(Shr(c, 8), table[low])
    BY <1>3, <1>4, <1>5, <1>6, <1>7
<1> QED
    BY <1>8 DEF ByteStep, x
-----------------------------------------------------------------------------
(* The definition of the CRC, which feeds the message bit by bit, is the   *)
(* same eight turns.                                                       *)

LEMMA RefBitLemma ==
    ASSUME NEW c \in Word, NEW d \in Word, NEW n \in 0 .. 7
    PROVE  /\ RefBit(c, d, n) \in Word
           /\ Xor(RefBit(c, d, n), Shr(d, n + 1)) = BitStep(Xor(c, Shr(d, n)))
<1>1. RefBit(c, d, n) \in Word
    BY XorType, ShrType, CrcAssumption DEF RefBit
<1>2. 0 \in Shr(d, n) <=> n \in d
    BY CrcAssumption DEF Shr
<1>3. 0 \in Xor(c, Shr(d, n)) <=> ((0 \in c) # (n \in d))
    BY <1>2 DEF Xor
<1>4. Shr(Xor(c, Shr(d, n)), 1) = Xor(Shr(c, 1), Shr(d, n + 1))
    <2>1. Shr(Shr(d, n), 1) = Shr(d, n + 1)
        BY ShrShr
    <2> QED
        BY <2>1, ShrXor
<1>5. CASE 0 \in Xor(c, Shr(d, n))
    <2>1. RefBit(c, d, n) = Xor(Shr(c, 1), POLY)
        BY <1>3, <1>5 DEF RefBit
    <2>2. BitStep(Xor(c, Shr(d, n))) = Xor(Xor(Shr(c, 1), Shr(d, n + 1)), POLY)
        BY <1>4, <1>5 DEF BitStep
    <2>3. \A x, y, z : Xor(Xor(x, y), z) = Xor(Xor(x, z), y)
        BY DEF Xor
    <2> QED
        BY <1>1, <2>1, <2>2, <2>3
<1>6. CASE 0 \notin Xor(c, Shr(d, n))
    <2>1. RefBit(c, d, n) = Shr(c, 1)
        BY <1>3, <1>6 DEF RefBit
    <2>2. BitStep(Xor(c, Shr(d, n))) = Xor(Shr(c, 1), Shr(d, n + 1))
        BY <1>4, <1>6 DEF BitStep
    <2> QED
        BY <1>1, <2>1, <2>2
<1> QED
    BY <1>5, <1>6

LEMMA RefLemma ==
    ASSUME NEW c \in Word, NEW d \in Byte
    PROVE  RefByte(c, d) = EightBits(Xor(c, d))
<1> DEFINE c1 == RefBit(c, d, 0)
           c2 == RefBit(c1, d, 1)
           c3 == RefBit(c2, d, 2)
           c4 == RefBit(c3, d, 3)
           c5 == RefBit(c4, d, 4)
           c6 == RefBit(c5, d, 5)
           c7 == RefBit(c6, d, 6)
           c8 == RefBit(c7, d, 7)
<1>1. d \in Word
    BY ByteInWord
<1> HIDE DEF c1, c2, c3, c4, c5, c6, c7, c8
<1>2. c1 \in Word /\ Xor(c1, Shr(d, 1)) = BitStep(Xor(c, Shr(d, 0)))
    BY <1>1, RefBitLemma DEF c1
<1>3. c2 \in Word /\ Xor(c2, Shr(d, 2)) = BitStep(Xor(c1, Shr(d, 1)))
    BY <1>1, <1>2, RefBitLemma DEF c2
<1>4. c3 \in Word /\ Xor(c3, Shr(d, 3)) = BitStep(Xor(c2, Shr(d, 2)))
    BY <1>1, <1>3, RefBitLemma DEF c3
<1>5. c4 \in Word /\ Xor(c4, Shr(d, 4)) = BitStep(Xor(c3, Shr(d, 3)))
    BY <1>1, <1>4, RefBitLemma DEF c4
<1>6. c5 \in Word /\ Xor(c5, Shr(d, 5)) = BitStep(Xor(c4, Shr(d, 4)))
    BY <1>1, <1>5, RefBitLemma DEF c5
<1>7. c6 \in Word /\ Xor(c6, Shr(d, 6)) = BitStep(Xor(c5, Shr(d, 5)))
    BY <1>1, <1>6, RefBitLemma DEF c6
<1>8. c7 \in Word /\ Xor(c7, Shr(d, 7)) = BitStep(Xor(c6, Shr(d, 6)))
    BY <1>1, <1>7, RefBitLemma DEF c7
<1>9. c8 \in Word /\ Xor(c8, Shr(d, 8)) = BitStep(Xor(c7, Shr(d, 7)))
    BY <1>1, <1>8, RefBitLemma DEF c8
<1>10. Shr(d, 0) = d
    BY <1>1, ShrZero
<1>11. Xor(c8, Shr(d, 8)) = c8
    <2>1. Shr(d, 8) = {}
        BY CrcAssumption DEF Shr, Byte
    <2> QED
        BY <2>1 DEF Xor
<1>12. c8 = EightBits(Xor(c, d))
    BY <1>2, <1>3, <1>4, <1>5, <1>6, <1>7, <1>8, <1>9, <1>10, <1>11
       DEF EightBits, FourBits, TwoBits
<1> QED
    BY <1>12 DEF RefByte, c1, c2, c3, c4, c5, c6, c7, c8
-----------------------------------------------------------------------------
(* No two register contents are mapped to one: the top bit of POLY tells   *)
(* whether a one has fallen out.                                           *)

LEMMA BitStepInjective ==
    ASSUME NEW a \in Word, NEW b \in Word, BitStep(a) = BitStep(b)
    PROVE  a = b
<1>1. \A c \in Word : W - 1 \in BitStep(c) <=> 0 \in c
    BY CrcAssumption DEF BitStep, Xor, Shr, Word
<1>2. 0 \in a <=> 0 \in b
    BY <1>1
<1>3. \A x, y, z : Xor(x, z) = Xor(y, z) => x = y
    BY DEF Xor
<1>4. Shr(a, 1) = Shr(b, 1)
    BY <1>2, <1>3 DEF BitStep
<1>5. \A k \in 1 .. W - 1 : k \in a <=> k \in b
    <2> SUFFICES ASSUME NEW k \in 1 .. W - 1 PROVE k \in a <=> k \in b
        OBVIOUS
    <2>1. k - 1 \in 0 .. W - 1 /\ (k - 1) + 1 = k
        BY CrcAssumption
    <2> QED
        BY <2>1, <1>4 DEF Shr
<1>6. \A k \in 0 .. W - 1 : k \in a <=> k \in b
    <2>1. \A k \in 0 .. W - 1 : k = 0 \/ k \in 1 .. W - 1
        BY CrcAssumption
    <2> QED
        BY <1>2, <1>5, <2>1
<1>7. a \subseteq 0 .. W - 1 /\ b \subseteq 0 .. W - 1
    BY DEF Word
<1> QED
    BY <1>6, <1>7

LEMMA EightBitsInjective ==
    ASSUME NEW a \in Word, NEW b \in Word, EightBits(a) = EightBits(b)
    PROVE  a = b
<1>1. \A x, y \in Word : BitStep(x) = BitStep(y) => x = y
    BY BitStepInjective
<1>2. \A x, y \in Word : TwoBits(x) = TwoBits(y) => x = y
    BY <1>1, BitStepType DEF TwoBits
<1>3. \A x \in Word : TwoBits(x) \in Word
    BY BitStepType DEF TwoBits
<1>4. \A x, y \in Word : FourBits(x) = FourBits(y) => x = y
    BY <1>2, <1>3 DEF FourBits
<1>5. \A x \in Word : FourBits(x) \in Word
    BY <1>3 DEF FourBits
<1> QED
    BY <1>4, <1>5 DEF EightBits
-----------------------------------------------------------------------------
(* The inductive invariant.  Up to the first wrong byte the two registers  *)
(* agree; after a single wrong byte they never agree again.                *)

Shape ==
    /\ DOMAIN data = DOMAIN app
    /\ pc # "table" => TableReady
    /\ pc = "done" => i \notin DOMAIN data
    /\ \A k \in Nat : k < i => k \in DOMAIN data

Registers ==
    /\ (\A k \in DOMAIN app : k < i => app[k] = data[k]) => crc = ref
    /\ \A k \in DOMAIN app : Differ = {k} /\ k < i => crc # ref

IInv == TypeOK /\ Shape /\ Registers

(* The bytes before i are all of them once i has left the message.         *)
LEMMA AllBefore ==
    ASSUME IInv, i \notin DOMAIN data, NEW k \in DOMAIN data
    PROVE  k < i
<1>1. PICK n \in 0 .. MaxSize : DOMAIN data = 0 .. n - 1
    BY CrcAssumption DEF IInv, TypeOK
<1>2. i \in Nat /\ ~ (i < n)
    BY <1>1, CrcAssumption DEF IInv, TypeOK
<1> QED
    BY <1>1, <1>2, CrcAssumption

(* One byte: the registers after it agree if and only if the registers     *)
(* before it, each xored with its byte, did.                               *)
LEMMA ByteLemma ==
    ASSUME IInv, NextByte
    PROVE  /\ app[i] \in Byte /\ data[i] \in Byte /\ i \in DOMAIN app
           /\ crc' \in Word /\ ref' \in Word
           /\ crc' = ref' <=> Xor(crc, data[i]) = Xor(ref, app[i])
<1>1. app[i] \in Byte /\ data[i] \in Byte /\ i \in DOMAIN app
    BY CrcAssumption DEF IInv, TypeOK, Shape, NextByte
<1>2. crc \in Word /\ ref \in Word /\ TableReady
    BY DEF IInv, TypeOK, Shape, NextByte
<1>3. crc' = EightBits(Xor(crc, data[i]))
    BY <1>1, <1>2, TableLemma DEF NextByte
<1>4. ref' = EightBits(Xor(ref, app[i]))
    BY <1>1, <1>2, RefLemma DEF NextByte
<1>5. Xor(crc, data[i]) \in Word /\ Xor(ref, app[i]) \in Word
    BY <1>1, <1>2, XorType, ByteInWord
<1> QED
    BY <1>1, <1>3, <1>4, <1>5, EightBitsType, EightBitsInjective

LEMMA InitIInv == Init => IInv
<1> SUFFICES ASSUME Init PROVE IInv
    OBVIOUS
<1>1. TypeOK
    BY DEF Init, TypeOK, Ones, Word
<1>2. Shape
    BY DEF Init, Shape
<1>3. Registers
    <2>1. \A k \in DOMAIN app : ~ (k < i)
        <3>1. PICK n \in 0 .. MaxSize : DOMAIN app = 0 .. n - 1
            BY CrcAssumption DEF Init
        <3> QED
            BY <3>1, CrcAssumption DEF Init
    <2> QED
        BY <2>1 DEF Init, Registers
<1> QED
    BY <1>1, <1>2, <1>3 DEF IInv

LEMMA StepIInv == IInv /\ [Next]_vars => IInv'
<1> SUFFICES ASSUME IInv, [Next]_vars PROVE IInv'
    OBVIOUS
<1>1. CASE crc32_init_table
    <2>1. table' \in [Byte -> Word]
        BY <1>1, ByteInWord, EightBitsType DEF crc32_init_table
    <2> QED
        BY <1>1, <2>1 DEF crc32_init_table, IInv, TypeOK, Shape, Registers, Differ,
           TableReady
<1>2. CASE NextByte
    <2>1. TypeOK'
        BY <1>2, ByteLemma DEF NextByte, IInv, TypeOK
    <2>2. Shape'
        BY <1>2 DEF NextByte, IInv, TypeOK, Shape, TableReady
    <2>3. UNCHANGED <<app, data, Differ>> /\ i' = i + 1 /\ i \in Nat
        BY <1>2 DEF NextByte, Differ, IInv, TypeOK
    <2>4. DOMAIN app \subseteq Nat
        BY CrcAssumption DEF IInv, TypeOK
    <2>5. \A x, y, z : Xor(x, z) = Xor(y, z) => x = y
        BY DEF Xor
    <2>6. \A x, y, z : Xor(z, x) = Xor(z, y) => x = y
        BY DEF Xor
    <2>7. ASSUME \A k \in DOMAIN app : k < i' => app[k] = data[k]
          PROVE  crc' = ref'
        <3>1. \A k \in DOMAIN app : k < i => app[k] = data[k]
            BY <2>3, <2>4, <2>7
        <3>2. app[i] = data[i]
            BY <1>2, <2>3, <2>7, ByteLemma
        <3> QED
            BY <1>2, <3>1, <3>2, ByteLemma DEF IInv, Registers
    <2>8. ASSUME NEW k \in DOMAIN app, Differ = {k}, k < i'
          PROVE  crc' # ref'
        <3>1. CASE k < i
            <4>1. app[i] = data[i]
                BY <1>2, <2>4, <2>8, <3>1, ByteLemma DEF Differ
            <4>2. crc # ref
                BY <2>8, <3>1 DEF IInv, Registers
            <4> QED
                BY <1>2, <2>5, <4>1, <4>2, ByteLemma
        <3>2. CASE k = i
            <4>1. crc = ref
                BY <2>4, <2>8, <3>2 DEF IInv, Registers, Differ
            <4>2. app[i] # data[i]
                BY <2>8, <3>2 DEF Differ
            <4> QED
                BY <1>2, <2>6, <4>1, <4>2, ByteLemma
        <3> QED
            BY <2>3, <2>4, <2>8, <3>1, <3>2
    <2>9. Registers'
        BY <2>3, <2>7, <2>8 DEF Registers
    <2> QED
        BY <2>1, <2>2, <2>9 DEF IInv
<1>3. CASE Finish
    <2>1. \A x, y \in Word : Xor(x, Ones) = Xor(y, Ones) => x = y
        BY DEF Xor
    <2>2. Ones \in Word
        BY DEF Ones, Word
    <2>3. TypeOK'
        BY <1>3, <2>2, XorType DEF Finish, IInv, TypeOK
    <2> QED
        BY <1>3, <2>1, <2>3 DEF Finish, IInv, TypeOK, Shape, Registers, Differ,
           TableReady
<1>4. CASE UNCHANGED vars
    BY <1>4 DEF vars, IInv, TypeOK, Shape, Registers, Differ, TableReady
<1> QED
    BY <1>1, <1>2, <1>3, <1>4 DEF Next

LEMMA IInvAlways == Spec => []IInv
BY InitIInv, StepIInv, PTL DEF Spec

(* The registers keep their width.                                         *)
THEOREM TypeCorrect == Spec => []TypeOK
BY IInvAlways, PTL DEF IInv

(* The bootloader's table-driven CRC of an intact image is the CRC the     *)
(* flash was programmed with, for images of every length.                  *)
THEOREM IntactImagePasses == Spec => []IntactCopyPasses
<1>1. IInv => IntactCopyPasses
    BY DEF IInv, Registers, IntactCopyPasses
<1> QED
    BY <1>1, IInvAlways, PTL

(* An image with exactly one wrong byte is always refused: no value and no *)
(* position of the byte makes the two CRCs agree.                          *)
THEOREM OneWrongByteRefused == Spec => []WrongByteRefused
<1>1. IInv => WrongByteRefused
    <2> SUFFICES ASSUME IInv, pc = "done", NEW k \in DOMAIN app, Differ = {k}
                 PROVE  crc # ref
        BY DEF WrongByteRefused
    <2>1. k < i
        BY AllBefore DEF IInv, Shape
    <2> QED
        BY <2>1 DEF IInv, Registers
<1> QED
    BY <1>1, IInvAlways, PTL
=============================================================================
