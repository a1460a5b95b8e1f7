----------------------------- MODULE OwnerBlock -----------------------------
(***************************************************************************)
(* The rules of silicon_creator/lib/ownership: what an owner page is, when *)
(* it counts as sealed or signed, and whose signature a request needs.     *)
(*                                                                         *)
(* A key is the party that holds it: the owner, unlock and activate keys   *)
(* of a configuration are its owner's.  A configuration is abstracted to   *)
(* the fields the ownership code decides on.                               *)
(***************************************************************************)
EXTENDS Integers

CONSTANTS Owner,         \* the parties that may own the chip
          SiliconCreator,  \* the holder of kNoOwnerRecoveryKey
          None

ASSUME OwnerAssumption == SiliconCreator \notin Owner /\ None \notin Owner

Slot == {"A", "B"}

UpdateMode == {"Open", "Self", "NewVersion", "SelfVersion"}

UnlockedState == {"UnlockedSelf", "UnlockedAny", "UnlockedEndorsed"}

OwnershipState == UnlockedState \cup {"LockedOwner", "Recovery"}

(* min_sec is -1 for UINT32_MAX; parses is what owner_block_parse says.    *)
Config == [owner : Owner, version : Nat, update_mode : UpdateMode,
           min_sec : Nat \cup {-1}, parses : BOOLEAN]

(* The 0x5a or 0xff the RAM copy of a bad page is filled with.             *)
NoConfig == [owner |-> None, version |-> 0, update_mode |-> "None",
             min_sec |-> -1, parses |-> FALSE]

(* A page in flash: a configuration its owner signed, sealed to this chip  *)
(* or not yet; or anything else.                                           *)
Signed(c) == [config |-> c, sealed |-> FALSE]
Sealed(c) == [config |-> c, sealed |-> TRUE]
Bad == Signed(NoConfig)

FlashPage == {Bad} \cup [config : Config, sealed : BOOLEAN]

owner_page_validity_check(page) ==
    CASE page.sealed -> "Sealed"
      [] ~ page.sealed /\ page # Bad -> "Signed"
      [] OTHER -> "Invalid"

owner_block_newversion_mode(config, valid) ==
    /\ valid[0] = "Sealed"
    /\ config[0].update_mode \in {"NewVersion", "SelfVersion"}

owner_block_page1_valid_for_transfer(bootdata, config, valid) ==
    \/ bootdata.state = "LockedOwner" /\ valid[1] = "Sealed"
    \/ /\ valid[1] = "Signed"
       /\ \/ bootdata.state = "UnlockedAny"
          \/ bootdata.state = "UnlockedSelf" /\ config[0].owner = config[1].owner
          \/ bootdata.state = "UnlockedEndorsed" /\ config[1].owner = bootdata.next_owner

(* The key algorithm is that of the page, whoever's key is tried: on a bad *)
(* page no signature passes, the silicon creator's neither.                *)
ownership_key_validate(config, recovery, signer) ==
    /\ config # NoConfig
    /\ \/ signer = config.owner
       \/ recovery /\ signer = SiliconCreator

(* do_unlock's state for a mode, None for one it does not know.            *)
UnlockedBy(mode) == CASE mode = "Any"      -> "UnlockedAny"
                      [] mode = "Endorsed" -> "UnlockedEndorsed"
                      [] mode = "Update"   -> "UnlockedSelf"
                      [] OTHER             -> None

(* unlock, unlock_update and unlock_abort: whether a request is granted.   *)
unlock(req, bootdata, config) ==
    /\ \/ /\ bootdata.state = "LockedOwner"
          /\ config[0].update_mode = "Open"
       \/ bootdata.state = "Recovery"
    /\ ownership_key_validate(config[0], TRUE, req.signer)
    /\ req.nonce = bootdata.nonce

unlock_update(req, bootdata, config) ==
    /\ bootdata.state = "LockedOwner"
    /\ config[0].update_mode # "NewVersion"
    /\ ownership_key_validate(config[0], FALSE, req.signer)
    /\ req.nonce = bootdata.nonce

unlock_abort(req, bootdata, config) ==
    /\ bootdata.state \in UnlockedState
    /\ ownership_key_validate(config[0], FALSE, req.signer)
    /\ req.nonce = bootdata.nonce

unlock_granted(req, bootdata, config) ==
    CASE req.mode \in {"Any", "Endorsed"} -> unlock(req, bootdata, config)
      [] req.mode = "Update" -> unlock_update(req, bootdata, config)
      [] req.mode = "Abort" -> unlock_abort(req, bootdata, config)
      [] OTHER -> FALSE

(* What a granted request leaves in the RAM copy of the boot data.         *)
Unlocked(req, bootdata) ==
    [bootdata EXCEPT
        !.state = IF req.mode = "Abort" THEN "LockedOwner" ELSE UnlockedBy(req.mode),
        !.next_owner = IF req.mode = "Endorsed" THEN req.next_owner ELSE @,
        !.nonce = @ + 1]

(* activate_handler's checks, and ownership_activate's parse.              *)
activate_granted(req, bootdata, config, valid) ==
    /\ bootdata.state \in UnlockedState
    /\ owner_block_page1_valid_for_transfer(bootdata, config, valid)
    /\ ownership_key_validate(config[1], FALSE, req.signer)
    /\ req.nonce = bootdata.nonce
    /\ config[1].parses

MutNewVersion(config, valid) ==  \* by anyone
    /\ valid[0] = "Sealed" /\ valid[1] = "Signed"
    /\ owner_block_newversion_mode(config, valid)
    /\ config[1].version > config[0].version
    /\ config[1].parses

(* locked_owner_init's condition for an update without an unlock.          *)
newversion_update(config, valid) ==
    /\ valid[0] = "Sealed" /\ valid[1] = "Signed"
    /\ owner_block_newversion_mode(config, valid)
    /\ config[1].version > config[0].version
    /\ config[1].owner = config[0].owner
    /\ config[1].parses
=============================================================================
