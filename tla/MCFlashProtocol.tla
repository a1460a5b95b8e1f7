-------------------------- MODULE MCFlashProtocol --------------------------
EXTENDS FlashProtocol

(* Bytes that tell neighbours, pages and both nibbles apart.               *)
MCmemory(a) == (37 * a + 11 * (a \div 256) + 193) % 256

MCStarts == {0, 66051, FlashSize - 1}
=============================================================================
