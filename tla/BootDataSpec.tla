---------------------------- MODULE BootDataSpec ----------------------------
(***************************************************************************)
(* What boot_data_read and boot_data_write promise: one cell, written      *)
(* atomically.  A write that is cut short by a reset or a flash error may  *)
(* or may not have taken effect, and one that returned kErrorOk has.       *)
(***************************************************************************)
CONSTANTS Value, None

VARIABLES cell,   \* what boot_data_read returns; None if there is no entry
          pend,   \* the value being written, None if there is no write
          ret     \* what the last boot_data_write returned

Begin == /\ pend = None
         /\ pend' \in Value
         /\ ret' = "none"
         /\ UNCHANGED cell

Commit == /\ pend # None
          /\ cell' = pend
          /\ UNCHANGED <<pend, ret>>

Finish == /\ pend # None
          /\ pend' = None
          /\ ret' = "ok" /\ cell = pend
          /\ UNCHANGED cell

(* The write ends without kErrorOk: the error is returned, or the chip is  *)
(* reset.  Its last effect may be the commit.                              *)
Cut == /\ pend # None
       /\ pend' = None
       /\ ret' = "error"
       /\ cell' \in {cell, pend}

Init == cell \in Value \cup {None} /\ pend = None /\ ret = "none"

Next == Begin \/ Commit \/ Finish \/ Cut

Spec == Init /\ [][Next]_<<cell, pend, ret>>
=============================================================================
