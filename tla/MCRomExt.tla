------------------------------ MODULE MCRomExt ------------------------------
EXTENDS RomExt

(* Two owners.  The first starts with a configuration it may update by     *)
(* version or by unlock_update; the newer one opens the chip to transfers  *)
(* and lowers the minimum version; its newest does not parse.  The second  *)
(* owner's firmware has the higher version.                                *)
MCOwner == {"Alice", "Bob"}

AliceSelfVersion == [owner |-> "Alice", version |-> 1, update_mode |-> "SelfVersion",
                     min_sec |-> -1, parses |-> TRUE]
AliceOpen == [AliceSelfVersion EXCEPT !.version = 2, !.update_mode = "Open",
                                      !.min_sec = 0]
AliceBroken == [AliceOpen EXCEPT !.version = 3, !.parses = FALSE]
BobNewVersion == [owner |-> "Bob", version |-> 3, update_mode |-> "NewVersion",
                  min_sec |-> 0, parses |-> TRUE]

MCConfigs == {AliceSelfVersion, AliceOpen, AliceBroken, BobNewVersion}

MCImage == [s \in Slot |-> IF s = "A" THEN [version |-> 1, key |-> "Alice"]
                                      ELSE [version |-> 2, key |-> "Bob"]]

MCRequests(n) ==
    [type : {"OwnershipUnlock"}, mode : {"Any", "Update"}, nonce : {n}, signer : {"Alice"}]
    \cup [type : {"OwnershipUnlock"}, mode : {"Abort"}, nonce : {n}, signer : MCOwner]
    \cup [type : {"OwnershipUnlock"}, mode : {"Endorsed"}, nonce : {n},
          signer : {SiliconCreator}, next_owner : {"Bob"}]
    \cup [type : {"OwnershipActivate"}, nonce : {n}, signer : MCOwner, primary : {"B"}]
    \cup [type : {"MinBl0SecVer"}, version : {2}]
    \cup [type : {"NextBl0Slot"}, primary : {"B", "Unspecified"}, next : {"A"}]
    \cup {[type |-> "EnterRescue"]}
=============================================================================
