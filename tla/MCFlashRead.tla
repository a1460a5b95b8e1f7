---------------------------- MODULE MCFlashRead ----------------------------
EXTENDS FlashRead

(* Bytes that tell neighbours, pages and both nibbles apart.               *)
MCmemory(a) == (37 * a + 11 * (a \div 256) + 193) % 256

(* The first header word and the last word of the largest payload.         *)
MCAddr == {0, 65544}
=============================================================================
