------------------------------ MODULE BootSpec ------------------------------
(***************************************************************************)
(* What a boot promises, without headers, words, copies or a bus: the      *)
(* image in the flash alone decides the outcome.  A good image is handed   *)
(* the processor, byte for byte as it was programmed; one that is accepted *)
(* and does not fit below the loader's own stack loses the boot, and       *)
(* nothing is promised of it from there on; any other is refused.          *)
(***************************************************************************)
EXTENDS Integers

CONSTANTS Image,           \* the flash contents considered
          EXPECTED_MAGIC,
          AcceptedSize,    \* the sizes, in bytes, that are not refused
          Room,            \* bytes of the load region below the stack
          crc32(_)         \* of a function from 0 .. n - 1 to bytes

VARIABLES image,     \* what is in the flash
          outcome,   \* "booting", "refused", "running" or "lost"
          code       \* what the processor was handed

bootVars == <<image, outcome, code>>

Payload(img) == [k \in 0 .. img.size - 1 |-> img.payload[k]]

NoCode == [k \in {} |-> k]

Accepted(img) == img.magic = EXPECTED_MAGIC /\ img.size \in AcceptedSize

Overruns(img) == Accepted(img) /\ img.size > Room

Good(img) ==
    /\ Accepted(img) /\ img.size <= Room
    /\ img.crc = crc32(Payload(img))

Run ==
    /\ outcome = "booting" /\ Good(image)
    /\ outcome' = "running" /\ code' = Payload(image)
    /\ UNCHANGED image

Refuse ==
    /\ outcome = "booting" /\ ~ Good(image) /\ ~ Overruns(image)
    /\ outcome' = "refused"
    /\ UNCHANGED <<image, code>>

Lose ==
    /\ outcome = "booting" /\ Overruns(image)
    /\ outcome' = "lost"
    /\ UNCHANGED <<image, code>>

BootInit == image \in Image /\ outcome = "booting" /\ code = NoCode

BootNext == Run \/ Refuse \/ Lose

BootSafe == BootInit /\ [][BootNext]_bootVars

BootFair == BootSafe /\ WF_bootVars(BootNext)
=============================================================================
