------------------------------ MODULE MCCrc32 -------------------------------
(* The CRC of the code, at its full width, on messages of up to MCLen bytes *)
(* taken from a few values.                                                  *)
EXTENDS Crc32

CONSTANT MCLen   \* length of the messages enumerated

(* 0xEDB88320 *)
MCPoly == {5, 8, 9, 15, 19, 20, 21, 23, 24, 26, 27, 29, 30, 31}

(* 0x00, 0xFF, 0x80 and 0xCA *)
MCBytes == {{}, 0 .. 7, {7}, {1, 3, 6, 7}}

MCMessage == UNION {[0 .. n - 1 -> MCBytes] : n \in 0 .. MCLen}

(* 0xCAFEBABE, little-endian, the application of the README's example, and  *)
(* the CRC the README gives for it, 0xE5AE7AEE.                              *)
MCSample ==
    [k \in 0 .. 3 |-> CASE k = 0 -> {1, 2, 3, 4, 5, 7}
                        [] k = 1 -> {1, 3, 4, 5, 7}
                        [] k = 2 -> {1, 2, 3, 4, 5, 6, 7}
                        [] k = 3 -> {1, 3, 6, 7}]

MCSampleCrc == {1, 2, 3, 5, 6, 7, 9, 11, 12, 13, 14, 17, 18, 19, 21, 23, 24, 26,
                29, 30, 31}

(* Short messages, the sample, and the sample with one byte replaced.        *)
MCAll == MCMessage \cup {MCSample}
         \cup {[MCSample EXCEPT ![k] = b] : k \in 0 .. 3, b \in MCBytes}

(* The example of the README: crc32_compute of the bytes BE BA FE CA is      *)
(* 0xE5AE7AEE.                                                               *)
SampleCrc == pc = "done" /\ data = MCSample => crc = MCSampleCrc
=============================================================================
