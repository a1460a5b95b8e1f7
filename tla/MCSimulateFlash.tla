-------------------------- MODULE MCSimulateFlash --------------------------
(* SimulateFlash on the images of MCBootloader.                             *)
EXTENDS SimulateFlash, MCBootloader
=============================================================================
