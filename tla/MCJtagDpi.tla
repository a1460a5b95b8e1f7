----------------------------- MODULE MCJtagDpi -----------------------------
EXTENDS JtagDpi

(* Both levels of each pin, a read, a reset, an idle command and the end.   *)
MCSends == {Write(0, 0, 1), Write(1, 1, 0), Read, ResetCmd(1, 0),
            ResetCmd(0, 1), Blink, Quit}
=============================================================================
