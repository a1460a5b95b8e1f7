------------------------------ MODULE MCRescue ------------------------------
(* An instance of Rescue: frames of one or three units, a buffer of six, two *)
(* pages in a slot.                                                          *)
EXTENDS Rescue

\* Two frames and a padded block; two blocks, the second padded; one block
\* more than the region has.
ShortImage == <<"a1", "a2", "a3", "a4">>
LongImage  == [i \in 1..7 |-> <<"b1", "b2", "b3", "b4", "b5", "b6", "b7">>[i]]
HugeImage  == [i \in 1..13 |-> "h"]
Owner      == [i \in 1..6 |-> "o"]

MCStaged == [OPG0 |-> <<"p1", "p2", "p3", "p4">>, OTID |-> <<"id">>]

MCJobs == {[mode |-> "RESQ", image |-> LongImage],
           [mode |-> "RESB", image |-> ShortImage],
           [mode |-> "RESQ", image |-> HugeImage],
           [mode |-> "OWNR", image |-> Owner],
           [mode |-> "BREQ", image |-> <<"minsec", "1">>],
           [mode |-> "BREQ", image |-> <<"unlock", "1">>],
           [mode |-> "OPG0", image |-> <<>>],
           [mode |-> "OTID", image |-> <<>>],
           [mode |-> "WAIT", image |-> <<>>],
           [mode |-> "REBO", image |-> <<>>],
           [mode |-> "BAUD", image |-> <<>>]}

\* One owner forbids nothing but a boot service; the other forbids firmware
\* rescue, and no transfer of ownership is under way.
MCConfigs == {[allowed |-> Modes \cup {"minsec"}, ownable |-> TRUE],
              [allowed |-> {"OPG0", "OWNR", "BREQ", "minsec"}, ownable |-> FALSE]}
=============================================================================
