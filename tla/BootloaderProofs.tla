-------------------------- MODULE BootloaderProofs --------------------------
(***************************************************************************)
(* Proofs about Bootloader and, after them, SimulateFlash: for every set   *)
(* of images, every CRC function, every size of the load region and every  *)
(* content of SRAM at reset.                                               *)
(***************************************************************************)
EXTENDS SimulateFlash, TLAPS

(* What has been checked stays checked until the jump.                     *)
Verified ==
    /\ pc \in {"check size", "copy", "handoff", "firmware", "smashed"} =>
         magic = EXPECTED_MAGIC
    /\ pc \in {"handoff", "firmware"} => crc32(Loaded) = stored_crc
    /\ pc = "firmware" => ~ spi

IInv == TypeOK /\ Verified
-----------------------------------------------------------------------------
(* Whole words in n bytes.                                                 *)
LEMMA DivLemma ==
    \A n \in Nat : /\ n \div 4 \in Nat
                   /\ 4 * (n \div 4) <= n
                   /\ n < 4 * (n \div 4) + 4
OBVIOUS

(* One copied word: the four bytes of word i change, the others do not.    *)
LEMMA CopyLemma ==
    ASSUME TypeOK, CopyWord
    PROVE  /\ i < size \div WordBytes
           /\ i' = i + 1
           /\ sram' \in [LoadRegion -> Byte]
           /\ \A k \in LoadRegion : k \div WordBytes # i => sram'[k] = sram[k]
           /\ ~ Glitch => \A k \in LoadRegion :
                            k \div WordBytes = i => sram'[k] = flash.payload[k]
<1> USE DEF WordBytes
<1>1. PICK w \in PayloadRead(i) :
         sram' = [k \in LoadRegion |->
                    IF k \div WordBytes = i THEN w[k % WordBytes] ELSE sram[k]]
    BY DEF CopyWord
<1>2. size \in 1 .. MAX_PAYLOAD_SIZE /\ i < size \div 4 /\ i \in Nat
    BY DEF TypeOK, CopyWord
<1>3. flash.payload \in [LoadRegion -> Byte]
    BY BootAssumption DEF TypeOK, LoadRegion
<1>4. \A b \in 0 .. 3 : 4 * i + b \in LoadRegion
    BY <1>2, BootAssumption DEF LoadRegion
<1>5. PayloadWord(i) \in [0 .. 3 -> Byte]
    BY <1>3, <1>4 DEF PayloadWord
<1>6. w \in [0 .. 3 -> Byte]
    BY <1>5 DEF PayloadRead, Reachable
<1>7. \A k \in LoadRegion : k % 4 \in 0 .. 3
    BY BootAssumption DEF LoadRegion
<1>8. sram' \in [LoadRegion -> Byte]
    BY <1>1, <1>6, <1>7 DEF TypeOK
<1>9. ASSUME ~ Glitch, NEW k \in LoadRegion, k \div 4 = i
      PROVE  sram'[k] = flash.payload[k]
    <2>1. w = PayloadWord(i)
        BY <1>9 DEF PayloadRead, Reachable
    <2>2. 4 * i + (k % 4) = k
        BY <1>2, <1>9, BootAssumption DEF LoadRegion
    <2>3. w[k % 4] = flash.payload[k]
        BY <2>1, <2>2, <1>7 DEF PayloadWord
    <2> QED
        BY <1>1, <1>9, <2>3
<1> QED
    BY <1>1, <1>2, <1>8, <1>9 DEF CopyWord

(* At reset the invariant holds.                                           *)
LEMMA InitIInv == Init => IInv
<1> SUFFICES ASSUME Init PROVE IInv
    OBVIOUS
<1>1. flash.magic \in Magic /\ flash.crc \in Crc
    BY BootAssumption DEF Init
<1>2. magic \in Magic /\ stored_crc \in Crc
    BY <1>1 DEF Init
<1> QED
    BY <1>2, BootAssumption DEF Init, IInv, TypeOK, Verified, LoadRegion

(* Every step of main, or a pause, keeps it.                               *)
LEMMA StepIInv == IInv /\ [Next]_vars => IInv'
<1> SUFFICES ASSUME IInv, [Next]_vars PROVE IInv'
    OBVIOUS
<1>1. TypeOK'
    <2>1. CASE SetUp
        BY <2>1 DEF SetUp, IInv, TypeOK, header
    <2>2. CASE ReadMagic
        <3>1. flash.magic \in Magic
            BY BootAssumption DEF IInv, TypeOK
        <3>2. MagicRead \subseteq Magic
            BY <3>1 DEF MagicRead, Reachable
        <3> QED
            BY <2>2, <3>2 DEF ReadMagic, IInv, TypeOK
    <2>3. CASE ReadSize
        <3>1. flash.size \in Nat /\ \A img \in Image : img.size \in Nat
            BY BootAssumption DEF IInv, TypeOK
        <3>2. SizeRead \subseteq Nat
            BY <3>1 DEF SizeRead, Reachable
        <3> QED
            BY <2>3, <3>2 DEF ReadSize, IInv, TypeOK
    <2>4. CASE ReadCrc
        <3>1. flash.crc \in Crc
            BY BootAssumption DEF IInv, TypeOK
        <3>2. CrcRead \subseteq Crc
            BY <3>1 DEF CrcRead, Reachable
        <3> QED
            BY <2>4, <3>2 DEF ReadCrc, IInv, TypeOK
    <2>5. CASE CheckMagic
        BY <2>5 DEF CheckMagic, bootloader_panic, IInv, TypeOK, header
    <2>6. CASE CheckSize
        <3>1. /\ i' = 0 /\ UNCHANGED <<flash, sram, spi, magic, size, stored_crc>>
              /\ \/ pc' = "panic" /\ message' = "SIZE BAD"
                 \/ pc' = "copy" /\ message' = message /\ ~ SizeBad
            BY <2>6 DEF CheckSize, bootloader_panic, header
        <3>2. size \in Nat
            BY DEF IInv, TypeOK
        <3>3. ~ SizeBad => size \in 1 .. MAX_PAYLOAD_SIZE
            BY <3>2, BootAssumption DEF SizeBad
        <3>4. 0 <= size \div WordBytes
            BY <3>2 DEF WordBytes
        <3> QED
            BY <3>1, <3>3, <3>4 DEF IInv, TypeOK
    <2>7. CASE CopyWord
        <3>1. sram' \in [LoadRegion -> Byte] /\ i' = i + 1 /\ i < size \div WordBytes
            BY <2>7, CopyLemma DEF IInv
        <3>2. /\ pc = "copy" /\ pc' \in {"copy", "smashed"}
              /\ UNCHANGED <<flash, spi, magic, size, stored_crc, message>>
            BY <2>7 DEF CopyWord, header
        <3>3. size \in 1 .. MAX_PAYLOAD_SIZE /\ i' <= size \div WordBytes /\ i' \in Nat
            <4>1. size \in 1 .. MAX_PAYLOAD_SIZE /\ i \in Nat
                BY <3>2 DEF IInv, TypeOK
            <4>2. size \div WordBytes \in Int
                BY <4>1, BootAssumption DEF WordBytes
            <4> QED
                BY <4>1, <4>2, <3>1
        <3> QED
            BY <3>1, <3>2, <3>3 DEF IInv, TypeOK
    <2>8. CASE VerifyCrc
        BY <2>8 DEF VerifyCrc, bootloader_panic, IInv, TypeOK, header
    <2>9. CASE Jump
        BY <2>9 DEF Jump, IInv, TypeOK, header
    <2>10. CASE UNCHANGED vars
        BY <2>10 DEF vars, IInv, TypeOK
    <2> QED
        BY <2>1, <2>2, <2>3, <2>4, <2>5, <2>6, <2>7, <2>8, <2>9, <2>10
           DEF Next, Step
<1>2. Verified'
    <2>1. CASE SetUp \/ ReadMagic \/ ReadSize \/ ReadCrc
        BY <2>1 DEF SetUp, ReadMagic, ReadSize, ReadCrc, Verified
    <2>2. CASE CheckMagic
        BY <2>2 DEF CheckMagic, bootloader_panic, IInv, Verified, header
    <2>3. CASE CheckSize
        BY <2>3 DEF CheckSize, bootloader_panic, IInv, Verified, header
    <2>4. CASE CopyWord
        BY <2>4 DEF CopyWord, IInv, Verified, header
    <2>5. CASE VerifyCrc
        BY <2>5 DEF VerifyCrc, bootloader_panic, IInv, Verified, header, Loaded
    <2>6. CASE Jump
        BY <2>6 DEF Jump, IInv, Verified, header, Loaded
    <2>7. CASE UNCHANGED vars
        BY <2>7 DEF vars, IInv, Verified, Loaded
    <2> QED
        BY <2>1, <2>2, <2>3, <2>4, <2>5, <2>6, <2>7 DEF Next, Step
<1> QED
    BY <1>1, <1>2 DEF IInv

(* So it holds in every state, on any bus.                                 *)
LEMMA IInvAlways == Safe => []IInv
BY InitIInv, StepIInv, PTL DEF Safe

(* main is well typed, and the copy never passes the checked size.         *)
THEOREM TypeCorrect == Safe => []TypeOK
BY IInvAlways, PTL DEF IInv

(* Whatever a faulty bus returned, only code that was verified in SRAM is  *)
(* run, with the SPI host off.                                             *)
THEOREM OnlyVerifiedRuns == Safe => []JumpOnlyVerified
<1>1. IInv => JumpOnlyVerified
    BY DEF IInv, TypeOK, Verified, JumpOnlyVerified
<1> QED
    BY <1>1, IInvAlways, PTL
-----------------------------------------------------------------------------
(* The refinement, for a bus that returns what is in the flash and images  *)
(* of whole words.                                                         *)
Faithful ==
    /\ ~ Glitch
    /\ \A img \in Image : img.size <= MAX_PAYLOAD_SIZE => img.size % WordBytes = 0

HeaderCopied ==
    /\ pc \notin {"reset", "magic"} => magic = flash.magic
    /\ pc \notin {"reset", "magic", "size"} => size = flash.size
    /\ pc \notin {"reset", "magic", "size", "crc"} => stored_crc = flash.crc

PayloadCopied ==
    /\ pc \in {"copy", "handoff", "firmware"} =>
         \A k \in 0 .. WordBytes * i - 1 : sram[k] = flash.payload[k]
    /\ pc \in {"handoff", "firmware"} => i = size \div WordBytes

(* What has been copied ends below the stack, or the boot is lost.         *)
BelowStack == pc \in {"copy", "handoff", "firmware"} => WordBytes * i <= StackOffset

FInv == IInv /\ HeaderCopied /\ PayloadCopied /\ BelowStack

(* A word stored above the stack's lowest address loses the boot.          *)
LEMMA StackStep ==
    ASSUME TypeOK, CopyWord
    PROVE  /\ BelowStack'
           /\ pc' = "smashed" => size > StackOffset
<1>1. /\ size \in 1 .. MAX_PAYLOAD_SIZE /\ size \in Nat /\ i \in Nat /\ i < size \div 4
      /\ i' = i + 1 /\ StackOffset \in Nat
      /\ pc' = IF 4 * (i + 1) > StackOffset THEN "smashed" ELSE "copy"
    BY BootAssumption DEF CopyWord, TypeOK, WordBytes
<1>2. 4 * (i + 1) <= size
    <2>1. size \div 4 \in Nat /\ 4 * (size \div 4) <= size
        BY <1>1, DivLemma
    <2> QED
        BY <1>1, <2>1
<1>3. CASE 4 * (i + 1) > StackOffset
    BY <1>1, <1>2, <1>3 DEF BelowStack
<1>4. CASE ~ (4 * (i + 1) > StackOffset)
    BY <1>1, <1>4 DEF BelowStack, WordBytes
<1> QED
    BY <1>3, <1>4

(* One more word of the payload is in place.                               *)
LEMMA CopyStep ==
    ASSUME TypeOK, PayloadCopied, ~ Glitch, CopyWord
    PROVE  PayloadCopied'
<1>1. /\ size \in 1 .. MAX_PAYLOAD_SIZE /\ i \in Nat /\ pc = "copy"
      /\ i < size \div 4 /\ i' = i + 1 /\ flash' = flash
      /\ \A k \in LoadRegion : k \div 4 # i => sram'[k] = sram[k]
      /\ \A k \in LoadRegion : k \div 4 = i => sram'[k] = flash.payload[k]
    BY CopyLemma DEF CopyWord, TypeOK, WordBytes
<1>2. ASSUME NEW k \in 0 .. 4 * (i + 1) - 1
      PROVE  sram'[k] = flash.payload[k]
    <2>1. k \in LoadRegion
        BY <1>1, BootAssumption DEF LoadRegion
    <2>2. CASE k \div 4 = i
        BY <1>1, <2>1, <2>2
    <2>3. CASE k \div 4 # i
        <3>1. k \in 0 .. 4 * i - 1
            <4>1. /\ k \in Nat /\ k \div 4 \in Nat
                  /\ 4 * (k \div 4) <= k /\ k < 4 * (k \div 4) + 4
                BY <1>1, DivLemma
            <4> QED
                BY <1>1, <2>3, <4>1
        <3>2. sram[k] = flash.payload[k]
            BY <1>1, <3>1 DEF PayloadCopied, WordBytes
        <3> QED
            BY <1>1, <2>1, <2>3, <3>2
    <2> QED
        BY <2>2, <2>3
<1>3. pc' \in {"copy", "smashed"}
    BY DEF CopyWord
<1> QED
    BY <1>1, <1>2, <1>3 DEF PayloadCopied, WordBytes

(* The CRC is computed when the last word is.                              *)
LEMMA VerifyStep ==
    ASSUME TypeOK, PayloadCopied, VerifyCrc
    PROVE  PayloadCopied'
<1>1. /\ pc = "copy" /\ i >= size \div WordBytes /\ pc' \in {"handoff", "panic"}
      /\ UNCHANGED <<flash, sram, i, size>>
    BY DEF VerifyCrc, bootloader_panic, header
<1>2. i = size \div WordBytes
    <2>1. size \in Nat /\ i \in Nat /\ i <= size \div WordBytes
        BY <1>1 DEF TypeOK
    <2>2. size \div WordBytes \in Nat
        BY <2>1, DivLemma DEF WordBytes
    <2> QED
        BY <1>1, <2>1, <2>2
<1> QED
    BY <1>1, <1>2 DEF PayloadCopied

(* Every step keeps the copy faithful.                                     *)
LEMMA StepFInv == ~ Glitch /\ FInv /\ [Next]_vars => FInv'
<1> SUFFICES ASSUME ~ Glitch, FInv, [Next]_vars PROVE FInv'
    OBVIOUS
<1>1. IInv'
    BY StepIInv DEF FInv
<1>2. flash' = flash
    BY DEF vars, Next, Step, SetUp, ReadMagic, ReadSize, ReadCrc, CheckMagic,
       CheckSize, CopyWord, VerifyCrc, Jump
<1>3. HeaderCopied'
    <2>1. CASE ReadMagic
        BY <2>1 DEF ReadMagic, MagicRead, Reachable, FInv, HeaderCopied
    <2>2. CASE ReadSize
        BY <2>2 DEF ReadSize, SizeRead, Reachable, FInv, HeaderCopied
    <2>3. CASE ReadCrc
        BY <2>3 DEF ReadCrc, CrcRead, Reachable, FInv, HeaderCopied
    <2>4. CASE UNCHANGED vars
        BY <2>4 DEF vars, FInv, HeaderCopied
    <2> QED
        BY <2>1, <2>2, <2>3, <2>4
           DEF Next, Step, SetUp, CheckMagic, CheckSize, CopyWord, VerifyCrc, Jump,
               bootloader_panic, header, FInv, HeaderCopied
<1>4. PayloadCopied'
    <2>1. CASE CheckSize
        <3>1. i' = 0 /\ pc' \in {"copy", "panic"}
            BY <2>1 DEF CheckSize, bootloader_panic
        <3>2. 0 .. WordBytes * i' - 1 = {}
            BY <3>1 DEF WordBytes
        <3> QED
            BY <3>1, <3>2 DEF PayloadCopied
    <2>2. CASE CopyWord
        BY <2>2, CopyStep DEF FInv, IInv
    <2>3. CASE VerifyCrc
        BY <2>3, VerifyStep DEF FInv, IInv
    <2>4. CASE Jump
        BY <2>4 DEF Jump, header, FInv, PayloadCopied
    <2>5. CASE UNCHANGED vars
        BY <2>5 DEF vars, FInv, PayloadCopied
    <2> QED
        BY <2>1, <2>2, <2>3, <2>4, <2>5
           DEF Next, Step, SetUp, ReadMagic, ReadSize, ReadCrc, CheckMagic,
               bootloader_panic, PayloadCopied
<1>5. BelowStack'
    <2>1. CASE CheckSize
        <3>1. i' = 0 /\ StackOffset \in Nat
            BY <2>1, BootAssumption DEF CheckSize
        <3>2. WordBytes * i' <= StackOffset
            BY <3>1 DEF WordBytes
        <3> QED
            BY <3>2 DEF BelowStack, WordBytes
    <2>2. CASE CopyWord
        BY <2>2, StackStep DEF FInv, IInv
    <2>3. CASE VerifyCrc \/ Jump
        BY <2>3 DEF VerifyCrc, Jump, bootloader_panic, header, FInv, BelowStack
    <2>4. CASE UNCHANGED vars
        BY <2>4 DEF vars, FInv, BelowStack
    <2> QED
        BY <2>1, <2>2, <2>3, <2>4
           DEF Next, Step, SetUp, ReadMagic, ReadSize, ReadCrc, CheckMagic,
               bootloader_panic, BelowStack
<1> QED
    BY <1>1, <1>3, <1>4, <1>5 DEF FInv

(* The copy of an intact flash is right in every state.                    *)
LEMMA FInvAlways == ASSUME ~ Glitch PROVE Safe => []FInv
<1>1. Init => FInv
    BY InitIInv DEF Init, FInv, HeaderCopied, PayloadCopied, BelowStack
<1>2. FInv /\ [Next]_vars => FInv'
    BY StepFInv
<1> QED
    BY <1>1, <1>2, PTL DEF Safe

(* Once the copy is over, SRAM holds the payload.                          *)
LEMMA PayloadLemma ==
    ASSUME TypeOK, PayloadCopied, pc \in {"copy", "handoff"}, i >= size \div WordBytes,
           size = flash.size, size % WordBytes = 0
    PROVE  Loaded = Boot!Payload(flash)
<1>1. size \in Nat /\ size % 4 = 0
    BY DEF TypeOK, WordBytes
<1>2. 4 * (size \div 4) = size
    BY <1>1
<1>3. i \in Nat /\ i = size \div 4
    <2>1. i \in Nat /\ i <= size \div WordBytes
        BY DEF TypeOK
    <2>2. size \div 4 \in Nat
        BY <1>1, DivLemma
    <2> QED
        BY <2>1, <2>2 DEF WordBytes
<1>4. \A k \in 0 .. size - 1 : sram[k] = flash.payload[k]
    BY <1>1, <1>2, <1>3 DEF PayloadCopied, WordBytes
<1> QED
    BY <1>4 DEF Loaded, Boot!Payload

(* A copy that is over and has not lost the boot ends below the stack.     *)
LEMMA RoomLemma ==
    ASSUME TypeOK, BelowStack, pc \in {"copy", "handoff"}, i >= size \div WordBytes,
           size % WordBytes = 0
    PROVE  size <= StackOffset
<1>1. /\ size \in Nat /\ size % 4 = 0 /\ i \in Nat /\ i >= size \div 4
      /\ StackOffset \in Nat /\ 4 * i <= StackOffset
    BY BootAssumption DEF TypeOK, WordBytes, BelowStack
<1>2. 4 * (size \div 4) = size /\ size \div 4 \in Nat
    BY <1>1, DivLemma
<1> QED
    BY <1>1, <1>2

(* So it does for bootloader.c, on an image of whole words.                *)
LEMMA WholeCopy ==
    ASSUME FInv, flash.size % WordBytes = 0, pc \in {"copy", "handoff"},
           i >= size \div WordBytes
    PROVE  Loaded = Boot!Payload(flash) /\ size <= StackOffset
<1>1. size = flash.size /\ TypeOK /\ PayloadCopied /\ BelowStack
    BY DEF FInv, HeaderCopied, IInv
<1> QED
    BY <1>1, PayloadLemma, RoomLemma

(* An image that passes the size check is of whole words.                  *)
LEMMA WholeWords ==
    ASSUME FInv, Faithful, pc \in {"copy", "handoff"}
    PROVE  flash.size % WordBytes = 0
<1>1. size = flash.size /\ size \in 1 .. MAX_PAYLOAD_SIZE /\ flash \in Image
    BY DEF FInv, HeaderCopied, IInv, TypeOK
<1> QED
    BY <1>1, BootAssumption DEF Faithful, WordBytes

(* What the refusals and the jump know of the image.                       *)
LEMMA PanicMeansBad ==
    ASSUME FInv, Faithful, Step, pc' = "panic"
    PROVE  ~ Boot!Good(flash) /\ ~ Boot!Overruns(flash)
<1> USE DEF Boot!Good, Boot!Overruns, Boot!Accepted
<1>1. CASE CheckMagic
    BY <1>1 DEF CheckMagic, FInv, HeaderCopied
<1>2. CASE CheckSize
    <2>1. pc = "check size" /\ SizeBad /\ size = flash.size /\ size \in Nat
        BY <1>2 DEF CheckSize, FInv, HeaderCopied, IInv, TypeOK
    <2>2. size \notin 1 .. MAX_PAYLOAD_SIZE
        <3>1. MAX_PAYLOAD_SIZE \in Nat
            BY BootAssumption
        <3>2. size \in Nat /\ (size = 0 \/ size > MAX_PAYLOAD_SIZE)
            BY <2>1 DEF SizeBad
        <3> HIDE <2>1
        <3> QED
            BY <3>1, <3>2
    <2> QED
        BY <2>1, <2>2
<1>3. CASE VerifyCrc
    <2>1. /\ Loaded = Boot!Payload(flash) /\ size <= StackOffset
          /\ crc32(Loaded) # stored_crc /\ stored_crc = flash.crc /\ size = flash.size
          /\ size \in Nat /\ StackOffset \in Nat
        BY <1>3, WholeCopy, WholeWords, BootAssumption
           DEF VerifyCrc, FInv, HeaderCopied, IInv, TypeOK
    <2>2. ~ (flash.size > StackOffset)
        BY <2>1
    <2> QED
        BY <2>1, <2>2
<1> QED
    BY <1>1, <1>2, <1>3 DEF Step, SetUp, ReadMagic, ReadSize, ReadCrc, CopyWord, Jump

(* The outcome changes only at a refusal, at the jump and at the store     *)
(* that overwrites the stack.                                              *)
LEMMA StepRefines ==
    ASSUME FInv, Faithful, [Next]_vars
    PROVE  [Boot!BootNext]_(Boot!bootVars)
<1> DEFINE code == IF pc = "firmware" THEN Loaded ELSE [k \in {} |-> k]
<1>1. flash' = flash
    BY DEF vars, Next, Step, SetUp, ReadMagic, ReadSize, ReadCrc, CheckMagic,
       CheckSize, CopyWord, VerifyCrc, Jump
<1>2. CASE UNCHANGED vars
    BY <1>2 DEF vars, Boot!bootVars, Outcome, Loaded
<1>3. CASE Step /\ pc' \notin {"panic", "firmware", "smashed"}
    <2>1. pc \notin {"panic", "firmware", "smashed"}
        BY <1>3 DEF Step, SetUp, ReadMagic, ReadSize, ReadCrc, CheckMagic,
           CheckSize, CopyWord, VerifyCrc, Jump
    <2> QED
        BY <1>1, <1>3, <2>1 DEF Boot!bootVars, Outcome
<1>4. CASE Step /\ pc' = "panic"
    <2>1. pc \notin {"panic", "firmware", "smashed"}
        BY <1>4 DEF Step, SetUp, ReadMagic, ReadSize, ReadCrc, CheckMagic,
           CheckSize, CopyWord, VerifyCrc, Jump
    <2>2. Boot!Refuse
        BY <1>1, <1>4, <2>1, PanicMeansBad DEF Boot!Refuse, Outcome
    <2> QED
        BY <2>2 DEF Boot!BootNext
<1>5. CASE Step /\ pc' = "firmware"
    <2>1. /\ pc = "handoff" /\ UNCHANGED <<sram, size>>
        BY <1>5 DEF Step, SetUp, ReadMagic, ReadSize, ReadCrc, CheckMagic,
           CheckSize, CopyWord, VerifyCrc, Jump, bootloader_panic, header
    <2>2. Loaded = Boot!Payload(flash) /\ size <= StackOffset
        <3>1. i = size \div WordBytes /\ i \in Nat
            BY <2>1 DEF FInv, IInv, TypeOK, PayloadCopied
        <3>2. i >= size \div WordBytes
            BY <3>1
        <3> QED
            BY <2>1, <3>2, WholeCopy, WholeWords
    <2>3. Boot!Good(flash)
        BY <2>1, <2>2 DEF FInv, IInv, TypeOK, Verified, HeaderCopied, Boot!Good, Boot!Accepted
    <2>4. Loaded' = Loaded
        BY <2>1 DEF Loaded
    <2>5. Boot!Run
        BY <1>1, <1>5, <2>1, <2>2, <2>3, <2>4 DEF Boot!Run, Outcome
    <2> QED
        BY <2>5 DEF Boot!BootNext
<1>6. CASE Step /\ pc' = "smashed"
    <2>1. CopyWord
        BY <1>6 DEF Step, SetUp, ReadMagic, ReadSize, ReadCrc, CheckMagic,
           CheckSize, VerifyCrc, Jump, bootloader_panic
    <2>2. /\ pc = "copy" /\ size > StackOffset /\ size = flash.size
          /\ size \in 1 .. MAX_PAYLOAD_SIZE /\ flash.magic = EXPECTED_MAGIC
        BY <1>6, <2>1, StackStep DEF CopyWord, FInv, IInv, TypeOK, Verified, HeaderCopied
    <2>3. Boot!Lose
        BY <1>1, <1>6, <2>2 DEF Boot!Lose, Boot!Overruns, Boot!Accepted, Outcome
    <2> QED
        BY <2>3 DEF Boot!BootNext
<1> QED
    BY <1>2, <1>3, <1>4, <1>5, <1>6 DEF Next

(* For every set of images of whole words, whatever their number, size and *)
(* content, a boot does what BootSpec says: the images that overwrite the  *)
(* loader's stack are those accepted that reach it, and no other.          *)
THEOREM BootImplements == ASSUME Faithful PROVE Safe => Boot!BootSafe
<1>1. Safe => []FInv
    BY Faithful, FInvAlways DEF Faithful
<1>2. Init => Boot!BootInit
    BY DEF Init, Boot!BootInit, Boot!NoCode, Outcome
<1>3. FInv /\ [Next]_vars => [Boot!BootNext]_(Boot!bootVars)
    BY Faithful, StepRefines
<1> QED
    BY <1>1, <1>2, <1>3, PTL DEF Safe, Boot!BootSafe

(* README: a CRC mismatch "means the flash data was corrupted".  Not       *)
(* always: bootloader.c accepts a size of broken words, copies whole words *)
(* and takes the CRC over bytes it never wrote.                            *)
CrcBadMeansCorruptOrBroken ==
    message = "CRC BAD" =>
        \/ flash.crc # crc32(Boot!Payload(flash))
        \/ flash.size % WordBytes # 0

(* That is the only exception: for images of every size, bootloader.c      *)
(* blames the CRC of an intact image only if its size is of broken words.  *)
THEOREM CrcBadIsCorruptOrBroken ==
    ASSUME ~ Glitch PROVE Safe => []CrcBadMeansCorruptOrBroken
<1>1. Init => CrcBadMeansCorruptOrBroken
    BY DEF Init, CrcBadMeansCorruptOrBroken
<1>2. FInv /\ CrcBadMeansCorruptOrBroken /\ [Next]_vars => CrcBadMeansCorruptOrBroken'
    <2> SUFFICES ASSUME FInv, CrcBadMeansCorruptOrBroken, [Next]_vars
                 PROVE  CrcBadMeansCorruptOrBroken'
        OBVIOUS
    <2>1. flash' = flash
        BY DEF vars, Next, Step, SetUp, ReadMagic, ReadSize, ReadCrc, CheckMagic,
           CheckSize, CopyWord, VerifyCrc, Jump
    <2>2. CASE VerifyCrc
        <3>1. stored_crc = flash.crc
            BY <2>2 DEF VerifyCrc, FInv, HeaderCopied
        <3>2. flash.size % WordBytes = 0 => Loaded = Boot!Payload(flash)
            BY <2>2, WholeCopy DEF VerifyCrc
        <3> QED
            BY <2>1, <2>2, <3>1, <3>2 DEF VerifyCrc, bootloader_panic,
               CrcBadMeansCorruptOrBroken, Boot!Payload, WordBytes
    <2>3. CASE ~ VerifyCrc
        <3>1. message' = message \/ message' \in {"MAGIC BAD", "SIZE BAD"}
            BY <2>3 DEF vars, Next, Step, SetUp, ReadMagic, ReadSize, ReadCrc, CheckMagic,
               CheckSize, CopyWord, Jump, bootloader_panic
        <3> QED
            BY <2>1, <3>1 DEF CrcBadMeansCorruptOrBroken, Boot!Payload, WordBytes
    <2> QED
        BY <2>2, <2>3
<1> QED
    BY <1>1, <1>2, FInvAlways, PTL DEF Safe
-----------------------------------------------------------------------------
(* SimulateFlash: the same copy, with its own checks, and images of whole  *)
(* words or not.                                                           *)
SimSafe == SimInit /\ [][SimNext]_simVars

(* Each check holds from where it is passed to the jump.                   *)
SimVerified ==
    /\ pc \in {"size", "check size", "crc", "copy", "handoff", "firmware"} =>
         magic = EXPECTED_MAGIC
    /\ pc \in {"crc", "copy", "handoff", "firmware"} => ~ SimSizeBad
    /\ pc \in {"handoff", "firmware"} => crc32(Loaded) = stored_crc
    /\ pc = "firmware" => ~ spi

SimIInv == TypeOK /\ SimVerified
-----------------------------------------------------------------------------
(* A size that was not refused is of whole words and fits.                 *)
LEMMA SizeLemma ==
    ASSUME size \in Nat, ~ SimSizeBad
    PROVE  size \in 1 .. MAX_PAYLOAD_SIZE /\ size % WordBytes = 0
BY BootAssumption DEF SimSizeBad

(* The steps of main, one by one.                                          *)
LEMMA SimCases ==
    ASSUME [SimNext]_simVars
    PROVE  \/ SimSetUp \/ SimReadMagic \/ SimCheckMagic \/ SimReadSize
           \/ SimCheckSize \/ SimReadCrc \/ CopyWord \/ VerifyCrc \/ Jump
           \/ UNCHANGED vars
BY DEF SimNext, SimStep, ClearDebugWait, simVars

(* Every step keeps the types and what was verified.                       *)
LEMMA SimStepIInv == SimIInv /\ [SimNext]_simVars => SimIInv'
<1> SUFFICES ASSUME SimIInv, [SimNext]_simVars PROVE SimIInv'
    OBVIOUS
<1>1. TypeOK /\ SimVerified /\ size \in Nat /\ MAX_PAYLOAD_SIZE \in Nat
    BY BootAssumption DEF SimIInv, TypeOK
<1>2. CASE SimSetUp
    BY <1>2 DEF SimSetUp, SetUp, SimIInv, TypeOK, SimVerified, header
<1>3. CASE SimReadMagic
    <2>1. flash.magic \in Magic
        BY <1>1, BootAssumption DEF TypeOK
    <2>2. MagicRead \subseteq Magic
        BY <2>1 DEF MagicRead, Reachable
    <2> QED
        BY <1>3, <2>2 DEF SimReadMagic, SimIInv, TypeOK, SimVerified
<1>4. CASE SimCheckMagic
    BY <1>4 DEF SimCheckMagic, bootloader_panic, SimIInv, TypeOK, SimVerified, header
<1>5. CASE SimReadSize
    <2>1. flash.size \in Nat /\ \A img \in Image : img.size \in Nat
        BY <1>1, BootAssumption DEF TypeOK
    <2>2. SizeRead \subseteq Nat
        BY <2>1 DEF SizeRead, Reachable
    <2> QED
        BY <1>5, <2>2 DEF SimReadSize, SimIInv, TypeOK, SimVerified
<1>6. CASE SimCheckSize
    <2>1. SimSizeBad' <=> SimSizeBad
        BY <1>6 DEF SimCheckSize, header, SimSizeBad
    <2> QED
        BY <1>6, <2>1 DEF SimCheckSize, bootloader_panic, SimIInv, TypeOK, SimVerified,
           header
<1>7. CASE SimReadCrc
    <2>1. flash.crc \in Crc
        BY <1>1, BootAssumption DEF TypeOK
    <2>2. CrcRead \subseteq Crc
        BY <2>1 DEF CrcRead, Reachable
    <2>3. size \in 1 .. MAX_PAYLOAD_SIZE /\ 0 <= size \div WordBytes
        BY <1>1, <1>7, SizeLemma DEF SimReadCrc, SimVerified, WordBytes
    <2>4. SimSizeBad' <=> SimSizeBad
        BY <1>7 DEF SimReadCrc, SimSizeBad
    <2> QED
        BY <1>7, <2>2, <2>3, <2>4 DEF SimReadCrc, SimIInv, TypeOK, SimVerified
<1>8. CASE CopyWord
    <2>1. sram' \in [LoadRegion -> Byte] /\ i' = i + 1 /\ i < size \div WordBytes
        BY <1>1, <1>8, CopyLemma
    <2>2. /\ pc = "copy" /\ pc' \in {"copy", "smashed"}
          /\ UNCHANGED <<flash, spi, magic, size, stored_crc, message>>
        BY <1>8 DEF CopyWord, header
    <2>3. size \in 1 .. MAX_PAYLOAD_SIZE /\ i' <= size \div WordBytes /\ i' \in Nat
        <3>1. size \in 1 .. MAX_PAYLOAD_SIZE /\ i \in Nat
            BY <1>1, <2>2 DEF TypeOK
        <3>2. size \div WordBytes \in Int
            BY <1>1, DivLemma DEF WordBytes
        <3> QED
            BY <2>1, <3>1, <3>2
    <2>4. SimSizeBad' <=> SimSizeBad
        BY <2>2 DEF SimSizeBad
    <2> QED
        BY <2>1, <2>2, <2>3, <2>4 DEF SimIInv, TypeOK, SimVerified
<1>9. CASE VerifyCrc
    <2>1. (SimSizeBad' <=> SimSizeBad) /\ Loaded' = Loaded
        BY <1>9 DEF VerifyCrc, header, SimSizeBad, Loaded
    <2> QED
        BY <1>9, <2>1 DEF VerifyCrc, bootloader_panic, SimIInv, TypeOK, SimVerified, header
<1>10. CASE Jump
    <2>1. (SimSizeBad' <=> SimSizeBad) /\ Loaded' = Loaded
        BY <1>10 DEF Jump, header, SimSizeBad, Loaded
    <2> QED
        BY <1>10, <2>1 DEF Jump, SimIInv, TypeOK, SimVerified, header
<1>11. CASE UNCHANGED vars
    BY <1>11 DEF vars, SimIInv, TypeOK, SimVerified, SimSizeBad, Loaded
<1> QED
    BY <1>2, <1>3, <1>4, <1>5, <1>6, <1>7, <1>8, <1>9, <1>10, <1>11, SimCases

(* The invariant holds in every state, on any bus.                         *)
LEMMA SimIInvAlways == SimSafe => []SimIInv
<1>1. SimInit => SimIInv
    BY InitIInv DEF SimInit, Init, IInv, SimIInv, SimVerified
<1> QED
    BY <1>1, SimStepIInv, PTL DEF SimSafe

(* Whatever a faulty bus returned, simulate_flash too runs only code that  *)
(* was verified in SRAM, with the SPI host off.                            *)
THEOREM SimOnlyVerifiedRuns == SimSafe => []JumpOnlyVerified
<1>1. SimIInv => JumpOnlyVerified
    BY DEF SimIInv, TypeOK, SimVerified, JumpOnlyVerified
<1> QED
    BY <1>1, SimIInvAlways, PTL
-----------------------------------------------------------------------------
(* The refinement, for a bus that returns what is in the flash, and images *)
(* of every size.                                                          *)
SimHeader ==
    /\ pc \in {"check magic", "size", "check size", "crc", "copy", "handoff", "firmware"} =>
         magic = flash.magic
    /\ pc \in {"check size", "crc", "copy", "handoff", "firmware"} => size = flash.size
    /\ pc \in {"copy", "handoff", "firmware"} => stored_crc = flash.crc

SimFInv == /\ SimIInv /\ BelowStack /\ SimHeader /\ PayloadCopied
           /\ CrcBadMeansCorrupt

(* Once the copy is over, SRAM holds the payload.                          *)
LEMMA SimWholeCopy ==
    ASSUME SimFInv, pc \in {"copy", "handoff"}, i >= size \div WordBytes
    PROVE  /\ Loaded = Boot!Payload(flash)
           /\ magic = flash.magic /\ stored_crc = flash.crc /\ magic = EXPECTED_MAGIC
           /\ size = flash.size /\ size \in 1 .. MAX_PAYLOAD_SIZE /\ size % WordBytes = 0
           /\ size <= StackOffset
<1>1. /\ TypeOK /\ PayloadCopied /\ BelowStack /\ size \in Nat /\ ~ SimSizeBad
      /\ magic = flash.magic /\ stored_crc = flash.crc /\ magic = EXPECTED_MAGIC
      /\ size = flash.size
    BY DEF SimFInv, SimIInv, TypeOK, SimVerified, SimHeader
<1>2. size \in 1 .. MAX_PAYLOAD_SIZE /\ size % WordBytes = 0
    BY <1>1, SizeLemma
<1> QED
    BY <1>1, <1>2, PayloadLemma, RoomLemma

(* Every step keeps the copy faithful.                                     *)
LEMMA SimStepFInv == ~ Glitch /\ SimFInv /\ [SimNext]_simVars => SimFInv'
<1> SUFFICES ASSUME ~ Glitch, SimFInv, [SimNext]_simVars PROVE SimFInv'
    OBVIOUS
<1>1. SimIInv'
    BY SimStepIInv DEF SimFInv
<1>2. flash' = flash
    BY SimCases DEF vars, SimSetUp, SetUp, SimReadMagic, SimCheckMagic, SimReadSize,
       SimCheckSize, SimReadCrc, CopyWord, VerifyCrc, Jump
<1>3. BelowStack'
    <2>1. CASE SimReadCrc
        <3>1. i' = 0 /\ StackOffset \in Nat
            BY <2>1, BootAssumption DEF SimReadCrc
        <3>2. WordBytes * i' <= StackOffset
            BY <3>1 DEF WordBytes
        <3> QED
            BY <3>2 DEF BelowStack, WordBytes
    <2>2. CASE CopyWord
        BY <2>2, StackStep DEF SimFInv, SimIInv
    <2>3. CASE VerifyCrc \/ Jump
        BY <2>3 DEF VerifyCrc, Jump, bootloader_panic, header, SimFInv, BelowStack
    <2>4. CASE UNCHANGED vars
        BY <2>4 DEF vars, SimFInv, BelowStack
    <2>5. CASE SimSetUp \/ SimReadMagic \/ SimCheckMagic \/ SimReadSize \/ SimCheckSize
        BY <2>5 DEF SimSetUp, SetUp, SimReadMagic, SimCheckMagic, SimReadSize,
           SimCheckSize, bootloader_panic, BelowStack
    <2> QED
        BY <2>1, <2>2, <2>3, <2>4, <2>5, SimCases
<1>4. SimHeader'
    <2>1. CASE SimReadMagic
        BY <2>1 DEF SimReadMagic, MagicRead, Reachable, SimHeader
    <2>2. CASE SimReadSize
        BY <2>2 DEF SimReadSize, SizeRead, Reachable, SimFInv, SimHeader
    <2>3. CASE SimReadCrc
        BY <2>3 DEF SimReadCrc, CrcRead, Reachable, SimFInv, SimHeader
    <2>4. CASE SimSetUp
        BY <2>4 DEF SimSetUp, SetUp, SimHeader
    <2>5. CASE SimCheckMagic \/ SimCheckSize
        BY <2>5 DEF SimCheckMagic, SimCheckSize, bootloader_panic, header, SimFInv, SimHeader
    <2>6. CASE CopyWord \/ VerifyCrc \/ Jump
        BY <2>6 DEF CopyWord, VerifyCrc, Jump, bootloader_panic, header, SimFInv, SimHeader
    <2>7. CASE UNCHANGED vars
        BY <2>7 DEF vars, SimFInv, SimHeader
    <2> QED
        BY <2>1, <2>2, <2>3, <2>4, <2>5, <2>6, <2>7, SimCases
<1>5. PayloadCopied'
    <2>1. CASE SimReadCrc
        <3>1. i' = 0 /\ pc' = "copy"
            BY <2>1 DEF SimReadCrc
        <3>2. 0 .. WordBytes * i' - 1 = {}
            BY <3>1 DEF WordBytes
        <3> QED
            BY <3>1, <3>2 DEF PayloadCopied
    <2>2. CASE CopyWord
        BY <2>2, CopyStep DEF SimFInv, SimIInv
    <2>3. CASE VerifyCrc
        BY <2>3, VerifyStep DEF SimFInv, SimIInv
    <2>4. CASE Jump
        BY <2>4 DEF Jump, header, SimFInv, PayloadCopied
    <2>5. CASE UNCHANGED vars
        BY <2>5 DEF vars, SimFInv, PayloadCopied
    <2>6. CASE SimSetUp \/ SimReadMagic \/ SimCheckMagic \/ SimReadSize \/ SimCheckSize
        BY <2>6 DEF SimSetUp, SetUp, SimReadMagic, SimCheckMagic, SimReadSize,
           SimCheckSize, bootloader_panic, PayloadCopied
    <2> QED
        BY <2>1, <2>2, <2>3, <2>4, <2>5, <2>6, SimCases
<1>6. CrcBadMeansCorrupt'
    <2>1. CASE VerifyCrc
        <3>1. stored_crc = flash.crc /\ Loaded = Boot!Payload(flash)
            BY <2>1, SimWholeCopy DEF VerifyCrc
        <3> QED
            BY <1>2, <2>1, <3>1 DEF VerifyCrc, bootloader_panic, SimFInv,
               CrcBadMeansCorrupt, Boot!Payload
    <2>2. CASE ~ VerifyCrc
        <3>1. message' = message \/ message' \in {"MAGIC BAD", "SIZE BAD"}
            BY <2>2, SimCases DEF vars, SimSetUp, SetUp, SimReadMagic, SimCheckMagic,
               SimReadSize, SimCheckSize, SimReadCrc, CopyWord, Jump, bootloader_panic
        <3> QED
            BY <1>2, <3>1 DEF SimFInv, CrcBadMeansCorrupt, Boot!Payload
    <2> QED
        BY <2>1, <2>2
<1> QED
    BY <1>1, <1>3, <1>4, <1>5, <1>6 DEF SimFInv

(* A refusal is right.                                                     *)
LEMMA SimPanicMeansBad ==
    ASSUME SimFInv, [SimNext]_simVars, pc # "panic", pc' = "panic"
    PROVE  ~ SimBoot!Good(flash) /\ ~ SimBoot!Overruns(flash)
<1> USE DEF SimBoot!Good, SimBoot!Overruns, SimBoot!Accepted
<1>1. CASE SimCheckMagic
    BY <1>1 DEF SimCheckMagic, SimFInv, SimHeader
<1>2. CASE SimCheckSize
    <2>1. SimSizeBad /\ size = flash.size /\ size \in Nat
        BY <1>2 DEF SimCheckSize, SimFInv, SimHeader, SimIInv, TypeOK
    <2>2. size \notin {n \in 1 .. MAX_PAYLOAD_SIZE : n % WordBytes = 0}
        BY <2>1, BootAssumption DEF SimSizeBad
    <2> QED
        BY <2>1, <2>2
<1>3. CASE VerifyCrc
    <2>1. stored_crc = flash.crc /\ Loaded = Boot!Payload(flash) /\ crc32(Loaded) # stored_crc
        BY <1>3, SimWholeCopy DEF VerifyCrc
    <2>2. SimBoot!Payload(flash) = Boot!Payload(flash)
        BY DEF SimBoot!Payload, Boot!Payload
    <2>3. ~ (flash.size > StackOffset)
        <3>1. size <= StackOffset /\ size = flash.size /\ size \in Nat /\ StackOffset \in Nat
            BY <1>3, SimWholeCopy, BootAssumption DEF VerifyCrc, SimFInv, SimIInv, TypeOK
        <3> QED
            BY <3>1
    <2> QED
        BY <2>1, <2>2, <2>3
<1> QED
    BY <1>1, <1>2, <1>3, SimCases DEF vars, SimSetUp, SetUp, SimReadMagic, SimReadSize,
       SimReadCrc, CopyWord, Jump

(* The outcome changes only at a refusal, at the jump and at the store     *)
(* that overwrites the stack.                                              *)
LEMMA SimStepRefines ==
    ASSUME SimFInv, [SimNext]_simVars
    PROVE  [SimBoot!BootNext]_(SimBoot!bootVars)
<1>1. flash' = flash
    BY SimCases DEF vars, SimSetUp, SetUp, SimReadMagic, SimCheckMagic, SimReadSize,
       SimCheckSize, SimReadCrc, CopyWord, VerifyCrc, Jump
<1>2. CASE UNCHANGED vars
    BY <1>2 DEF vars, SimBoot!bootVars, Outcome, Loaded
<1>3. CASE ~ UNCHANGED vars
    <2>1. pc \notin {"panic", "firmware", "smashed"}
        BY <1>3, SimCases DEF SimSetUp, SetUp, SimReadMagic, SimCheckMagic, SimReadSize,
           SimCheckSize, SimReadCrc, CopyWord, VerifyCrc, Jump
    <2>2. CASE pc' \notin {"panic", "firmware", "smashed"}
        BY <1>1, <2>1, <2>2 DEF SimBoot!bootVars, Outcome
    <2>3. CASE pc' = "panic"
        <3>1. SimBoot!Refuse
            BY <1>1, <2>1, <2>3, SimPanicMeansBad DEF SimBoot!Refuse, Outcome
        <3> QED
            BY <3>1 DEF SimBoot!BootNext
    <2>4. CASE pc' = "firmware"
        <3>1. pc = "handoff" /\ UNCHANGED <<sram, size>>
            BY <1>3, <2>4, SimCases DEF SimSetUp, SetUp, SimReadMagic, SimCheckMagic,
               SimReadSize, SimCheckSize, SimReadCrc, CopyWord, VerifyCrc, Jump,
               bootloader_panic, header
        <3>2. i >= size \div WordBytes
            <4>1. i = size \div WordBytes /\ i \in Nat
                BY <3>1 DEF SimFInv, SimIInv, TypeOK, PayloadCopied
            <4> QED
                BY <4>1
        <3>3. /\ Loaded = SimBoot!Payload(flash) /\ Loaded' = Loaded
              /\ stored_crc = flash.crc /\ crc32(Loaded) = stored_crc
              /\ flash.magic = EXPECTED_MAGIC
              /\ flash.size \in 1 .. MAX_PAYLOAD_SIZE /\ flash.size % WordBytes = 0
              /\ flash.size <= StackOffset
            <4>1. Loaded = Boot!Payload(flash) /\ Loaded' = Loaded
                BY <3>1, <3>2, SimWholeCopy DEF Loaded
            <4>2. SimBoot!Payload(flash) = Boot!Payload(flash)
                BY DEF SimBoot!Payload, Boot!Payload
            <4> QED
                BY <3>1, <3>2, <4>1, <4>2, SimWholeCopy DEF SimFInv, SimIInv, SimVerified
        <3>4. SimBoot!Good(flash)
            BY <3>3 DEF SimBoot!Good, SimBoot!Accepted
        <3>5. SimBoot!Run
            BY <1>1, <2>1, <2>4, <3>3, <3>4 DEF SimBoot!Run, Outcome
        <3> QED
            BY <3>5 DEF SimBoot!BootNext
    <2>5. CASE pc' = "smashed"
        <3>1. CopyWord
            BY <1>3, <2>5, SimCases DEF SimSetUp, SetUp, SimReadMagic, SimCheckMagic,
               SimReadSize, SimCheckSize, SimReadCrc, VerifyCrc, Jump, bootloader_panic
        <3>2. /\ pc = "copy" /\ size > StackOffset /\ size = flash.size /\ size \in Nat
              /\ ~ SimSizeBad /\ flash.magic = EXPECTED_MAGIC
            BY <2>5, <3>1, StackStep DEF CopyWord, SimFInv, SimIInv, TypeOK, SimVerified,
               SimHeader
        <3>3. size \in 1 .. MAX_PAYLOAD_SIZE /\ size % WordBytes = 0
            BY <3>2, SizeLemma
        <3>4. SimBoot!Overruns(flash)
            BY <3>2, <3>3 DEF SimBoot!Overruns, SimBoot!Accepted
        <3>5. SimBoot!Lose
            BY <1>1, <2>5, <3>2, <3>4 DEF SimBoot!Lose, Outcome
        <3> QED
            BY <3>5 DEF SimBoot!BootNext
    <2> QED
        BY <2>2, <2>3, <2>4, <2>5
<1> QED
    BY <1>2, <1>3

(* The copy is faithful in every state.                                    *)
LEMMA SimFInvAlways == ASSUME ~ Glitch PROVE SimSafe => []SimFInv
<1>1. SimInit => SimFInv
    <2>1. Init => SimIInv
        BY InitIInv DEF Init, IInv, SimIInv, SimVerified
    <2> QED
        BY <2>1 DEF SimInit, Init, SimFInv, BelowStack, SimHeader, PayloadCopied,
           CrcBadMeansCorrupt
<1>2. SimFInv /\ [SimNext]_simVars => SimFInv'
    BY SimStepFInv
<1> QED
    BY <1>1, <1>2, PTL DEF SimSafe

(* For every set of images, of every size: an image that ends below the    *)
(* stack boots if and only if its magic, its size and its CRC are right,   *)
(* and then SRAM holds it byte for byte; an accepted one that does not end *)
(* there overwrites the stack, and no other does.                          *)
THEOREM SimBootImplements == ASSUME ~ Glitch PROVE SimSafe => SimBootRefinement
<1>1. SimInit => SimBoot!BootInit
    BY DEF SimInit, Init, SimBoot!BootInit, SimBoot!NoCode, Outcome
<1>2. SimFInv /\ [SimNext]_simVars => [SimBoot!BootNext]_(SimBoot!bootVars)
    BY SimStepRefines
<1> QED
    BY <1>1, <1>2, SimFInvAlways, PTL DEF SimSafe, SimBootRefinement, SimBoot!BootSafe

(* README: a CRC mismatch "means the flash data was corrupted".  For       *)
(* simulate_flash, unlike bootloader.c, that holds of images of any size,  *)
(* in every boot that has not overwritten its own stack.                   *)
THEOREM SimCrcBadIsCorruption == ASSUME ~ Glitch PROVE SimSafe => []CrcBadMeansCorrupt
<1>1. SimFInv => CrcBadMeansCorrupt
    BY DEF SimFInv
<1> QED
    BY <1>1, SimFInvAlways, PTL
=============================================================================
