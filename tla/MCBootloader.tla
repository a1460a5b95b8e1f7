---------------------------- MODULE MCBootloader ----------------------------
(* Bootloader on a load region of a few words, with a short checksum in the *)
(* place of the CRC: it is not injective, so a wrong image can pass.        *)
EXTENDS Bootloader, FiniteSetsExt

CONSTANTS Size   \* the sizes headers carry

MCByte == {0, 1}
MCCrc == 0 .. 3

(* position-weighted sum, modulo 4 *)
MCcrc32(d) == (1 + MapThenSumSet(LAMBDA k : (k + 1) * d[k], DOMAIN d)) % 4

MCPayload == {[k \in LoadRegion |-> IF k % m = r THEN 1 ELSE 0] :
                m \in {1, 3, 5}, r \in {0, 1}}

(* Both magics, every size, every stored CRC: right ones and wrong ones.    *)
MCImage == [magic : Magic, size : Size, crc : MCCrc, payload : MCPayload]

MCPowerUp == {[k \in LoadRegion |-> b] : b \in MCByte}
=============================================================================
