----------------------------- MODULE MCBootData -----------------------------
EXTENDS BootData

(* A version 1 entry has no slot: it reads as the value with slot A. *)
MCas_v2(v) == IF v = "old" THEN "a" ELSE v
=============================================================================
