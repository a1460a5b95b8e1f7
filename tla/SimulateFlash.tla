--------------------------- MODULE SimulateFlash ---------------------------
(***************************************************************************)
(* main of Task_3/sw/simulate_flash.c, the other boot loader of the tree.  *)
(* It has the state of bootloader.c, and its copy, its CRC check and its   *)
(* jump are the same statements; what differs is the start (a DEBUG build  *)
(* waits for the debugger), that each header word is checked before the    *)
(* next is read, and that a size of broken words is refused.               *)
(***************************************************************************)
EXTENDS Bootloader

CONSTANT DEBUG   \* the build waits until the debugger clears _debug_wait

ASSUME SimAssumption == DEBUG \in BOOLEAN

VARIABLE debug_wait

simVars == <<vars, debug_wait>>

ClearDebugWait ==
    /\ debug_wait
    /\ debug_wait' = FALSE
    /\ UNCHANGED vars

SimSetUp == ~ debug_wait /\ SetUp

SimReadMagic ==
    /\ pc = "magic"
    /\ magic' \in MagicRead
    /\ pc' = "check magic"
    /\ UNCHANGED <<flash, sram, spi, size, stored_crc, i, message>>

SimCheckMagic ==
    /\ pc = "check magic"
    /\ \/ magic = EXPECTED_MAGIC /\ pc' = "size" /\ UNCHANGED message
       \/ magic # EXPECTED_MAGIC /\ bootloader_panic("MAGIC BAD")
    /\ UNCHANGED <<flash, sram, spi, header, i>>

SimReadSize ==
    /\ pc = "size"
    /\ size' \in SizeRead
    /\ pc' = "check size"
    /\ UNCHANGED <<flash, sram, spi, magic, stored_crc, i, message>>

MutSimSizeBad == size = 0 \/ size > MAX_PAYLOAD_SIZE  \* as in bootloader.c

MutSimSizeOdd ==  \* >= for >
    size = 0 \/ size >= MAX_PAYLOAD_SIZE \/ size % WordBytes # 0

SimSizeBad == size = 0 \/ size > MAX_PAYLOAD_SIZE \/ size % WordBytes # 0

SimCheckSize ==
    /\ pc = "check size"
    /\ \/ SimSizeBad /\ bootloader_panic("SIZE BAD")
       \/ ~ SimSizeBad /\ pc' = "crc" /\ UNCHANGED message
    /\ UNCHANGED <<flash, sram, spi, header, i>>

SimReadCrc ==
    /\ pc = "crc"
    /\ stored_crc' \in CrcRead
    /\ i' = 0
    /\ pc' = "copy"
    /\ UNCHANGED <<flash, sram, spi, magic, size, message>>

SimStep == \/ SimSetUp \/ SimReadMagic \/ SimCheckMagic \/ SimReadSize
           \/ SimCheckSize \/ SimReadCrc \/ CopyWord \/ VerifyCrc \/ Jump

SimInit == Init /\ debug_wait = DEBUG

SimNext == \/ SimStep /\ UNCHANGED debug_wait
           \/ ClearDebugWait
           \/ Halted /\ UNCHANGED simVars

(* The processor keeps executing.  Nothing makes the debugger act.         *)
SimSpec == SimInit /\ [][SimNext]_simVars
                   /\ WF_simVars(SimStep /\ UNCHANGED debug_wait)

SimBoot == INSTANCE BootSpec
           WITH image <- flash, outcome <- Outcome,
                code <- IF pc = "firmware" THEN Loaded ELSE [k \in {} |-> k],
                AcceptedSize <- {n \in 1 .. MAX_PAYLOAD_SIZE : n % WordBytes = 0},
                Room <- StackOffset

(* On a bus that returns what the flash holds, an image that ends below    *)
(* the stack boots if and only if its magic, its size (whole words) and    *)
(* its CRC are right, and then SRAM holds it byte for byte; an accepted    *)
(* size beyond that, which link.ld allows here as in bootloader.c, always  *)
(* overwrites the loader's stack, and no other image does.                 *)
SimBootRefinement == SimBoot!BootSafe

(* Once the debugger has let it go, the boot ends: in the firmware, in a   *)
(* refusal or on its own stack.                                            *)
ReleasedBootEnds == ~ debug_wait ~> Halted
=============================================================================
