----------------------------- MODULE Bootloader -----------------------------
(***************************************************************************)
(* main of Task_3/sw/bootloader.c: read the header from the SPI flash,     *)
(* check it, copy the payload to SRAM word by word, check its CRC there,   *)
(* give the flash bus up and jump.                                         *)
(*                                                                         *)
(* flash_read_word is one step here; how it gets the word over the bus is  *)
(* the matter of SpiFlash.  The bytes of the load region from StackOffset  *)
(* on are the bootloader's own stack: link.ld puts it at the top of the    *)
(* same 64 KiB.  A payload store that lands there overwrites live frames   *)
(* and the model promises nothing after it (pc "smashed").                 *)
(***************************************************************************)
EXTENDS Integers

CONSTANTS Image,             \* flash contents: [magic, size, crc, payload]
          Byte, Crc, Magic,  \* values of the bytes and of the header words
          MAX_PAYLOAD_SIZE,  \* 0x10000 in the code
          StackOffset,       \* lowest address of the stack - SRAM_LOAD_ADDR
          EXPECTED_MAGIC,
          PowerUp,           \* what SRAM may hold at reset
          Glitch,            \* a read over the bus may return any word
          crc32(_)           \* crc32_compute of the bytes 0 .. size - 1

WordBytes == 4

(* The flash is larger than any payload the code reads from it.            *)
ASSUME BootAssumption ==
    /\ MAX_PAYLOAD_SIZE \in Nat \ {0}
    /\ StackOffset \in Nat
    /\ Glitch \in BOOLEAN
    /\ PowerUp \subseteq [0 .. MAX_PAYLOAD_SIZE - 1 -> Byte]
    /\ Image \subseteq [magic : Magic, size : Nat, crc : Crc,
                        payload : [0 .. MAX_PAYLOAD_SIZE - 1 -> Byte]]

VARIABLES flash,                  \* what the flash holds
          sram,                   \* the load region from SRAM_LOAD_ADDR on
          spi,                    \* the SPI host is enabled
          pc,
          magic, size, stored_crc, i,   \* main's locals
          message                 \* what bootloader_panic printed

vars == <<flash, sram, spi, pc, magic, size, stored_crc, i, message>>

header == <<magic, size, stored_crc>>

LoadRegion == 0 .. MAX_PAYLOAD_SIZE - 1

Reachable(v, values) == IF Glitch THEN values ELSE {v}

(* flash_read_word of the three header words and of payload word n.        *)
MagicRead == Reachable(flash.magic, Magic)

SizeRead == Reachable(flash.size, {img.size : img \in Image})

CrcRead == Reachable(flash.crc, Crc)

PayloadWord(n) == [b \in 0 .. WordBytes - 1 |-> flash.payload[WordBytes * n + b]]

PayloadRead(n) == Reachable(PayloadWord(n), [0 .. WordBytes - 1 -> Byte])

(* What the CRC is computed over, and what is run: bytes of SRAM.          *)
Loaded == [k \in 0 .. size - 1 |-> sram[k]]
-----------------------------------------------------------------------------
bootloader_panic(text) ==
    /\ pc' = "panic"
    /\ message' = text

(* uart_init, spi_init, flash_power_up *)
SetUp ==
    /\ pc = "reset"
    /\ spi' = TRUE
    /\ pc' = "magic"
    /\ UNCHANGED <<flash, sram, header, i, message>>

ReadMagic ==
    /\ pc = "magic"
    /\ magic' \in MagicRead
    /\ pc' = "size"
    /\ UNCHANGED <<flash, sram, spi, size, stored_crc, i, message>>

ReadSize ==
    /\ pc = "size"
    /\ size' \in SizeRead
    /\ pc' = "crc"
    /\ UNCHANGED <<flash, sram, spi, magic, stored_crc, i, message>>

ReadCrc ==
    /\ pc = "crc"
    /\ stored_crc' \in CrcRead
    /\ pc' = "check magic"
    /\ UNCHANGED <<flash, sram, spi, magic, size, i, message>>

CheckMagic ==
    /\ pc = "check magic"
    /\ \/ magic = EXPECTED_MAGIC /\ pc' = "check size" /\ UNCHANGED message
       \/ magic # EXPECTED_MAGIC /\ bootloader_panic("MAGIC BAD")
    /\ UNCHANGED <<flash, sram, spi, header, i>>

MutSizeBad == size > MAX_PAYLOAD_SIZE  \* an empty image passes

SizeBad == size = 0 \/ size > MAX_PAYLOAD_SIZE

CheckSize ==
    /\ pc = "check size"
    /\ \/ SizeBad /\ bootloader_panic("SIZE BAD")
       \/ ~ SizeBad /\ pc' = "copy" /\ UNCHANGED message
    /\ i' = 0
    /\ UNCHANGED <<flash, sram, spi, header>>

MutCopyPast ==  \* <= in the loop test
    /\ pc = "copy"
    /\ i <= size \div WordBytes
    /\ \E w \in PayloadRead(i) :
         sram' = [k \in LoadRegion |->
                    IF k \div WordBytes = i THEN w[k % WordBytes] ELSE sram[k]]
    /\ i' = i + 1
    /\ pc' = IF WordBytes * (i + 1) > StackOffset THEN "smashed" ELSE "copy"
    /\ UNCHANGED <<flash, spi, header, message>>

MutCopyStuck ==  \* no i++
    /\ pc = "copy"
    /\ i < size \div WordBytes
    /\ \E w \in PayloadRead(i) :
         sram' = [k \in LoadRegion |->
                    IF k \div WordBytes = i THEN w[k % WordBytes] ELSE sram[k]]
    /\ i' = i
    /\ pc' = IF WordBytes * (i + 1) > StackOffset THEN "smashed" ELSE "copy"
    /\ UNCHANGED <<flash, spi, header, message>>

CopyWord ==
    /\ pc = "copy"
    /\ i < size \div WordBytes
    /\ \E w \in PayloadRead(i) :
         sram' = [k \in LoadRegion |->
                    IF k \div WordBytes = i THEN w[k % WordBytes] ELSE sram[k]]
    /\ i' = i + 1
    /\ pc' = IF WordBytes * (i + 1) > StackOffset THEN "smashed" ELSE "copy"
    /\ UNCHANGED <<flash, spi, header, message>>

VerifyCrc ==
    /\ pc = "copy"
    /\ i >= size \div WordBytes
    /\ \/ crc32(Loaded) = stored_crc /\ pc' = "handoff" /\ UNCHANGED message
       \/ crc32(Loaded) # stored_crc /\ bootloader_panic("CRC BAD")
    /\ UNCHANGED <<flash, sram, spi, header, i>>

MutJump ==  \* the SPI host is left on
    /\ pc = "handoff"
    /\ pc' = "firmware"
    /\ UNCHANGED <<flash, sram, spi, header, i, message>>

Jump ==
    /\ pc = "handoff"
    /\ spi' = FALSE
    /\ pc' = "firmware"
    /\ UNCHANGED <<flash, sram, header, i, message>>

Step == \/ SetUp \/ ReadMagic \/ ReadSize \/ ReadCrc \/ CheckMagic \/ CheckSize
        \/ CopyWord \/ VerifyCrc \/ Jump

(* The processor is in while (1), or in the firmware.                      *)
Halted == pc \in {"panic", "firmware", "smashed"}

Init ==
    /\ flash \in Image
    /\ sram \in PowerUp
    /\ spi = FALSE
    /\ pc = "reset"
    /\ magic = CHOOSE m \in Magic : TRUE        \* locals are not initialised
    /\ stored_crc = CHOOSE c \in Crc : TRUE
    /\ size = 0 /\ i = 0
    /\ message = "none"

Next == Step \/ (Halted /\ UNCHANGED vars)

Safe == Init /\ [][Next]_vars

(* The processor keeps executing. *)
Spec == Safe /\ WF_vars(Step)
-----------------------------------------------------------------------------
Outcome == CASE pc = "firmware" -> "running"
             [] pc = "panic"    -> "refused"
             [] pc = "smashed"  -> "lost"
             [] OTHER           -> "booting"

Boot == INSTANCE BootSpec
        WITH image <- flash, outcome <- Outcome,
             code <- IF pc = "firmware" THEN Loaded ELSE [k \in {} |-> k],
             AcceptedSize <- 1 .. MAX_PAYLOAD_SIZE, Room <- StackOffset

(* On a bus that returns what the flash holds, an image of whole words     *)
(* that stays clear of the stack boots if and only if its header and its   *)
(* CRC are right, and then SRAM holds it byte for byte; one whose size     *)
(* reaches the stack and passes the check is the only one to overwrite it; *)
(* and a boot always ends in one of the three ways.                        *)
BootRefinement == Boot!BootFair

(* Type correctness; the copy stays within the size of the header, which   *)
(* the check has bounded by then.                                          *)
TypeOK ==
    /\ flash \in Image
    /\ sram \in [LoadRegion -> Byte]
    /\ spi \in BOOLEAN
    /\ pc \in {"reset", "magic", "size", "crc", "check magic", "check size",
               "copy", "handoff", "firmware", "panic", "smashed"}
    /\ magic \in Magic /\ size \in Nat /\ stored_crc \in Crc
    /\ i \in Nat
    /\ pc \in {"copy", "handoff", "firmware", "smashed"} =>
         size \in 1 .. MAX_PAYLOAD_SIZE /\ i <= size \div WordBytes
    /\ message \in {"none", "MAGIC BAD", "SIZE BAD", "CRC BAD"}

(* Whatever the bus returned, and whatever SRAM held before: the code that *)
(* is run has the CRC the header gave and a size that fits, so it is the   *)
(* copy that was checked and not the source; and the SPI host is off.      *)
JumpOnlyVerified ==
    pc = "firmware" =>
        /\ magic = EXPECTED_MAGIC
        /\ size \in 1 .. MAX_PAYLOAD_SIZE
        /\ crc32(Loaded) = stored_crc
        /\ ~ spi

(* README: the load region is "safely above the bootloader's own code,     *)
(* stack, and BSS", so no payload store lands on the stack.                *)
LoadAvoidsStack == pc # "smashed"

(* README: a CRC mismatch "means the flash data was corrupted".  So an     *)
(* image whose stored CRC is that of its payload is never refused for it,  *)
(* by a loader that has not overwritten its stack (what one that has may   *)
(* print is not modelled: its last state is "smashed").                    *)
CrcBadMeansCorrupt == message = "CRC BAD" => flash.crc # crc32(Boot!Payload(flash))
=============================================================================
