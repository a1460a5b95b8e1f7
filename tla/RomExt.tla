------------------------------- MODULE RomExt -------------------------------
(***************************************************************************)
(* One boot after the other of silicon_creator/rom_ext: ownership_init,    *)
(* the boot service request in retention RAM, then rescue or the next      *)
(* stage.  Flash operations on the owner pages are steps of their own      *)
(* (todo); each may fail, and power may be cut before, in or after any of  *)
(* them.  boot_data_write is one step that may not take effect: that the   *)
(* log in flash behaves so is BootData's refinement.                       *)
(*                                                                         *)
(* What the owner's firmware and the rescue host do is the environment:    *)
(* they leave requests and write page 1 where the code lets them.          *)
(***************************************************************************)
EXTENDS OwnerBlock, Sequences

CONSTANTS Configs,     \* the signed configurations in circulation
          Initial,     \* the one the chip was provisioned with
          Image,       \* the owner firmware in slots A and B: its version
                       \* and whose application key signed it
          Requests(_), \* the requests of the environment, for a nonce
          MaxNonce,    \* bound on the nonces of requests
          MaxFaults    \* bound on flash errors and cut boots

ASSUME RomExtAssumption ==
    /\ Configs \subseteq Config /\ Initial \in Configs /\ Initial.parses
    /\ Image \in [Slot -> [version : Nat, key : Owner]]
    /\ MaxNonce \in Nat /\ MaxFaults \in Nat
    /\ \A n \in 0 .. MaxNonce : \A r \in Requests(n) :
         /\ r.type = "OwnershipUnlock" /\ r.mode = "Endorsed" => r.next_owner \in Owner
         /\ r.type = "MinBl0SecVer" => r.version \in Nat

VARIABLES
    bd, page, secret,      \* flash: boot data, owner pages, OwnerSecret readable
    msg,                   \* retention RAM
    pc,
    ram,                   \* boot_data of rom_ext_main
    owner_page, owner_page_valid, keyring, rescue_requested,
    skip_boot_svc,
    todo,                  \* operations on owner pages under way
    faults,
    installed,             \* history: the last configuration sealed in page 0,
    past,                  \* every one this chip has sealed,
    exposed                \* and whether the chip was left to a fault below

nvm == <<bd, page, secret>>
boot == <<owner_page, owner_page_valid, keyring, rescue_requested, skip_boot_svc>>
vars == <<bd, page, secret, msg, pc, ram, owner_page, owner_page_valid, keyring,
          rescue_requested, skip_boot_svc, todo, faults, installed, past, exposed>>

hist == <<installed, past, exposed>>

NoMsg == [type |-> "None"]

(* The reply written over the request: nothing looks at it again, so that  *)
(* it is as good as no message.                                            *)
Response == NoMsg

BootData == [state : OwnershipState, nonce : Nat, next_owner : Owner \cup {None},
             primary : Slot, min_sec : Nat]

Erase(p) == [page |-> p, to |-> Bad]
Write(p, x) == [page |-> p, to |-> x]
Rewrite(p, x) == <<Erase(p), Write(p, x)>>

(* Exposed: from here on the chip depends on what it cannot know.  The     *)
(* three faults are a seal that failed unnoticed (ownership_seal_page), an *)
(* abort granted on an unsealed page 0 (ownership_unlock_handler) and the  *)
(* loss of a page without a copy (PageLost).                               *)
Exposes(fault) == exposed' = (exposed \/ fault)

(* x is what the RAM copy of c becomes.  The result of the call is not     *)
(* looked at: a page that could not be sealed is written all the same.     *)
ownership_seal_page(c, x) ==
    \/ x = Sealed(c) /\ UNCHANGED <<faults, exposed>>
    \/ /\ x = Signed(c)
       /\ faults < MaxFaults /\ faults' = faults + 1
       /\ Exposes(TRUE)
-----------------------------------------------------------------------------
(* rom_ext_init, and the reads of ownership_init.                          *)
PowerOn ==
    /\ pc = "off"
    /\ ram' = bd
    /\ owner_page' = [p \in 0 .. 1 |-> page[p].config]
    /\ owner_page_valid' = [p \in 0 .. 1 |-> owner_page_validity_check(page[p])]
    /\ pc' = "init"
    /\ UNCHANGED <<nvm, msg, keyring, rescue_requested, skip_boot_svc, todo, faults,
                   hist>>

MutRedundancyFix(config, valid) ==  \* a signed page 1 passes for good
    \/ /\ valid[0] = "Sealed" /\ valid[1] # "Invalid"
       /\ owner_page' = config /\ owner_page_valid' = valid
       /\ keyring' = {config[0].owner}
       /\ pc' = "svc"
       /\ UNCHANGED <<bd, todo, faults>>
    \/ \E p \in 0 .. 1 :
         /\ valid[p] = "Sealed" /\ valid[1 - p] = "Invalid"
         /\ owner_page' = [config EXCEPT ![1 - p] = config[p]]
         /\ owner_page_valid' = valid
         /\ todo' = Rewrite(1 - p, page[p])
         /\ pc' = "fix"
         /\ UNCHANGED <<bd, keyring, faults>>

MutKeyring(config, valid) ==  \* the keys of both pages, as when unlocked
    \/ /\ valid[0] = "Sealed" /\ valid[1] = "Sealed"
       /\ owner_page' = config /\ owner_page_valid' = valid
       /\ keyring' = {config[0].owner, config[1].owner}
       /\ pc' = "svc"
       /\ UNCHANGED <<bd, todo, faults>>
    \/ \E p \in 0 .. 1 :
         /\ valid[p] = "Sealed" /\ valid[1 - p] # "Sealed"
         /\ owner_page' = [config EXCEPT ![1 - p] = config[p]]
         /\ owner_page_valid' = valid
         /\ todo' = Rewrite(1 - p, page[p])
         /\ pc' = "fix"
         /\ UNCHANGED <<bd, keyring, faults>>

(* The second half of locked_owner_init, for the statuses and RAM copies   *)
(* it finds.  The copy of a page taken for sealed is what flash holds: it  *)
(* was read from there, or written there by ownership_activate.  Neither   *)
(* page good is the way to Recovery.                                       *)
RedundancyFix(config, valid) ==
    \/ /\ valid[0] = "Sealed" /\ valid[1] = "Sealed"
       /\ owner_page' = config /\ owner_page_valid' = valid
       /\ keyring' = {config[0].owner}
       /\ pc' = "svc"
       /\ UNCHANGED <<bd, todo, faults>>
    \/ \E p \in 0 .. 1 :
         /\ valid[p] = "Sealed" /\ valid[1 - p] # "Sealed"
         /\ owner_page' = [config EXCEPT ![1 - p] = config[p]]
         /\ owner_page_valid' = valid
         /\ todo' = Rewrite(1 - p, page[p])
         /\ pc' = "fix"
         /\ UNCHANGED <<bd, keyring, faults>>

GoToRecovery == [ram EXCEPT !.state = "Recovery", !.nonce = @ + 1]

(* HARDENED_RETURN_IF_ERROR(boot_data_write(bootdata)) *)
WriteBootData(new) ==
    \/ bd' = new /\ UNCHANGED faults
    \/ bd' \in {bd, new} /\ faults < MaxFaults /\ faults' = faults + 1

MutLockedOwnerInit ==  \* the new version goes to page 0 first
    /\ pc = "init" /\ ram.state = "LockedOwner"
    /\ \/ /\ newversion_update(owner_page, owner_page_valid)
          /\ ram' = IF owner_page[1].min_sec = -1 THEN ram
                    ELSE [ram EXCEPT !.min_sec = owner_page[1].min_sec]
          /\ \E x \in {Sealed(owner_page[1]), Signed(owner_page[1])} :
               /\ ownership_seal_page(owner_page[1], x)
               /\ todo' = Rewrite(0, x)
          /\ pc' = "newversion"
          /\ UNCHANGED <<bd, owner_page, owner_page_valid, keyring>>
       \/ /\ ~ newversion_update(owner_page, owner_page_valid)
          /\ RedundancyFix(owner_page, owner_page_valid)
          /\ UNCHANGED <<ram, exposed>>
       \/ /\ \A p \in 0 .. 1 : owner_page_valid[p] # "Sealed"
          /\ ram' = GoToRecovery
          /\ WriteBootData(GoToRecovery)
          /\ pc' = "svc"
          /\ UNCHANGED <<owner_page, owner_page_valid, keyring, todo, exposed>>
    /\ UNCHANGED <<page, secret, msg, rescue_requested, skip_boot_svc, installed, past>>

locked_owner_init ==
    /\ pc = "init" /\ ram.state = "LockedOwner"
    /\ \/ /\ newversion_update(owner_page, owner_page_valid)
          /\ ram' = IF owner_page[1].min_sec = -1 THEN ram
                    ELSE [ram EXCEPT !.min_sec = owner_page[1].min_sec]
          /\ \E x \in {Sealed(owner_page[1]), Signed(owner_page[1])} :
               /\ ownership_seal_page(owner_page[1], x)
               /\ todo' = Rewrite(1, x)
          /\ pc' = "newversion"
          /\ UNCHANGED <<bd, owner_page, owner_page_valid, keyring>>
       \/ /\ ~ newversion_update(owner_page, owner_page_valid)
          /\ RedundancyFix(owner_page, owner_page_valid)
          /\ UNCHANGED <<ram, exposed>>
       \/ /\ \A p \in 0 .. 1 : owner_page_valid[p] # "Sealed"
          /\ ram' = GoToRecovery
          /\ WriteBootData(GoToRecovery)
          /\ pc' = "svc"
          /\ UNCHANGED <<owner_page, owner_page_valid, keyring, todo, exposed>>
    /\ UNCHANGED <<page, secret, msg, rescue_requested, skip_boot_svc, installed, past>>

(* A sealed page has been parsed before it was sealed.                     *)
unlocked_init ==
    /\ pc = "init" /\ ram.state \in UnlockedState
    /\ \/ /\ ram.state = "UnlockedSelf" /\ owner_page_valid[0] # "Sealed"
          /\ ram' = GoToRecovery
          /\ WriteBootData(GoToRecovery)
          /\ UNCHANGED keyring
       \/ /\ ~ (ram.state = "UnlockedSelf" /\ owner_page_valid[0] # "Sealed")
          /\ keyring' = {owner_page[p].owner : p \in
                {q \in 0 .. 1 :
                   \/ q = 0 /\ owner_page_valid[0] = "Sealed"
                   \/ /\ q = 1 /\ owner_page[1].parses
                      /\ owner_block_page1_valid_for_transfer(ram, owner_page, owner_page_valid)}}
          /\ UNCHANGED <<bd, ram, faults>>
    /\ pc' = "svc"
    /\ UNCHANGED <<page, secret, msg, owner_page, owner_page_valid, rescue_requested,
                   skip_boot_svc, todo, hist>>

(* ownership_init in the Recovery state: kErrorOwnershipNoOwner.           *)
NoOwnerInit ==
    /\ pc = "init" /\ ram.state = "Recovery"
    /\ pc' = "svc"
    /\ UNCHANGED <<nvm, msg, ram, boot, todo, faults, hist>>
-----------------------------------------------------------------------------
(* History: what is sealed now. *)
Record ==
    /\ installed' = IF page'[0].sealed THEN page'[0].config ELSE installed
    /\ past' = past \cup {page'[p].config : p \in {q \in 0 .. 1 : page'[q].sealed}}

(* One operation on an owner page, done.                                   *)
Operate ==
    /\ todo # <<>>
    /\ page' = [page EXCEPT ![Head(todo).page] = Head(todo).to]
    /\ todo' = Tail(todo)
    /\ Record
    /\ UNCHANGED <<bd, secret, msg, pc, ram, boot, faults, exposed>>

(* What an operation that failed or was cut short may leave.  The seal is  *)
(* the last field of a page: it may be missing where the signature before  *)
(* it has been written, or has not been erased.                            *)
PageAfter(o) ==
    {[page EXCEPT ![o.page] = x] :
        x \in {page[o.page], Bad, o.to, Signed(page[o.page].config), Signed(o.to.config)}}

(* It failed: HARDENED_RETURN_IF_ERROR in each of the three places.        *)
OperateFails ==
    /\ todo # <<>>
    /\ faults < MaxFaults /\ faults' = faults + 1
    /\ page' \in PageAfter(Head(todo))
    /\ Record
    /\ \/ /\ pc = "newversion"        \* page 0 will be copied over page 1
          /\ owner_page' = [owner_page EXCEPT ![1] = owner_page[0]]
          /\ todo' = Rewrite(1, page[0])
          /\ pc' = "fix"
          /\ UNCHANGED msg
       \/ /\ pc = "fix"               \* no key is enumerated
          /\ todo' = <<>>
          /\ pc' = "svc"
          /\ UNCHANGED <<msg, owner_page>>
       \/ /\ pc = "activate"          \* the error goes into the reply
          /\ todo' = <<>>
          /\ msg' = Response
          /\ pc' = "boot"
          /\ UNCHANGED owner_page
    /\ UNCHANGED <<bd, secret, ram, owner_page_valid, keyring, rescue_requested,
                   skip_boot_svc, exposed>>

(* ownership_activate has returned kErrorOk: page 0 is taken for invalid.  *)
NewVersionDone ==
    /\ pc = "newversion" /\ todo = <<>>
    /\ RedundancyFix(owner_page, [p \in 0 .. 1 |-> IF p = 0 THEN "Invalid" ELSE "Sealed"])
    /\ UNCHANGED <<page, secret, msg, ram, rescue_requested, skip_boot_svc, hist>>

FixDone ==
    /\ pc = "fix" /\ todo = <<>>
    /\ owner_page_valid' = [p \in 0 .. 1 |-> "Sealed"]
    /\ keyring' = {owner_page[0].owner}
    /\ pc' = "svc"
    /\ UNCHANGED <<nvm, msg, ram, owner_page, rescue_requested, skip_boot_svc, todo,
                   faults, hist>>
-----------------------------------------------------------------------------
(* handle_boot_svc *)
Handles(type) == pc = "svc" /\ ~ skip_boot_svc /\ msg.type = type

(* No request, a reply or an unknown message, or a wake-up from sleep.     *)
SkipBootSvc ==
    /\ pc = "svc"
    /\ skip_boot_svc \/ msg = NoMsg
    /\ pc' = "boot"
    /\ UNCHANGED <<nvm, msg, ram, boot, todo, faults, hist>>

rescue_enter_handler ==
    /\ Handles("EnterRescue")
    /\ rescue_requested' = TRUE
    /\ msg' = Response /\ pc' = "boot"
    /\ UNCHANGED <<nvm, ram, owner_page, owner_page_valid, keyring, skip_boot_svc, todo,
                   faults, hist>>

MutNextSlot ==  \* the requested slot is not validated
    /\ Handles("NextBl0Slot")
    /\ LET asked == [ram EXCEPT !.primary = msg.primary]
           next  == [asked EXCEPT !.primary = IF msg.next \in Slot THEN msg.next ELSE @]
       IN  \/ /\ bd' = IF asked = ram THEN bd ELSE asked
              /\ ram' = next
              /\ msg' = Response
              /\ UNCHANGED faults
           \/ /\ asked # ram             \* the write fails: no reply
              /\ faults < MaxFaults /\ faults' = faults + 1
              /\ bd' \in {bd, asked}
              /\ ram' = asked
              /\ UNCHANGED msg
    /\ pc' = "boot"
    /\ UNCHANGED <<page, secret, boot, todo, hist>>

(* The primary slot is written; the next slot overrides the RAM copy only. *)
boot_svc_next_boot_bl0_slot_handler ==
    /\ Handles("NextBl0Slot")
    /\ LET asked == [ram EXCEPT !.primary = IF msg.primary \in Slot THEN msg.primary ELSE @]
           next  == [asked EXCEPT !.primary = IF msg.next \in Slot THEN msg.next ELSE @]
       IN  \/ /\ bd' = IF asked = ram THEN bd ELSE asked
              /\ ram' = next
              /\ msg' = Response
              /\ UNCHANGED faults
           \/ /\ asked # ram             \* the write fails: no reply
              /\ faults < MaxFaults /\ faults' = faults + 1
              /\ bd' \in {bd, asked}
              /\ ram' = asked
              /\ UNCHANGED msg
    /\ pc' = "boot"
    /\ UNCHANGED <<page, secret, boot, todo, hist>>

(* rom_ext_verify of the image in a slot. *)
rom_ext_verify(s, bootdata) ==
    Image[s].version >= bootdata.min_sec /\ Image[s].key \in keyring

VerifiedVersions == {Image[s].version : s \in {t \in Slot : rom_ext_verify(t, ram)}}

boot_svc_min_sec_ver_handler ==
    /\ Handles("MinBl0SecVer")
    /\ LET new == [ram EXCEPT !.min_sec = msg.version]
           ok  == msg.version > ram.min_sec /\ \E v \in VerifiedVersions : msg.version <= v
       IN  \/ /\ ok
              /\ bd' = new /\ ram' = new /\ msg' = Response
              /\ UNCHANGED faults
           \/ /\ ok
              /\ faults < MaxFaults /\ faults' = faults + 1
              /\ bd' \in {bd, new} /\ ram' = new
              /\ UNCHANGED msg
           \/ /\ ~ ok
              /\ msg' = Response
              /\ UNCHANGED <<bd, ram, faults>>
    /\ pc' = "boot"
    /\ UNCHANGED <<page, secret, boot, todo, hist>>

(* kErrorWriteBootdataThenReboot, or an error in the reply.  An abort asks *)
(* for the key of page 0, not for its seal.                                *)
ownership_unlock_handler ==
    /\ Handles("OwnershipUnlock")
    /\ msg' = Response
    /\ \/ /\ unlock_granted(msg, ram, owner_page)
          /\ ram' = Unlocked(msg, ram)
          /\ pc' = "reboot"
          /\ Exposes(msg.mode = "Abort" /\ ~ page[0].sealed)
       \/ /\ ~ unlock_granted(msg, ram, owner_page)
          /\ pc' = "boot"
          /\ UNCHANGED <<ram, exposed>>
    /\ UNCHANGED <<nvm, boot, todo, faults, installed, past>>

ActivateOps(x) == Rewrite(1, x) \o Rewrite(0, x)

(* The request stays in retention RAM until the handler has its result.    *)
ownership_activate_handler ==
    /\ Handles("OwnershipActivate")
    /\ \/ /\ activate_granted(msg, ram, owner_page, owner_page_valid)
          /\ ram' = IF owner_page[1].min_sec = -1 THEN ram
                    ELSE [ram EXCEPT !.min_sec = owner_page[1].min_sec]
          /\ \E x \in {Sealed(owner_page[1]), Signed(owner_page[1])} :
               /\ ownership_seal_page(owner_page[1], x)
               /\ todo' = ActivateOps(x)
          /\ pc' = "activate"
          /\ UNCHANGED msg
       \/ /\ ~ activate_granted(msg, ram, owner_page, owner_page_valid)
          /\ msg' = Response
          /\ pc' = "boot"
          /\ UNCHANGED <<ram, todo, faults, exposed>>
    /\ UNCHANGED <<nvm, boot, installed, past>>

(* The rest of activate_handler once both pages are written; a transfer    *)
(* also renews the OwnerSecret page, which must be readable.               *)
ActivateDone ==
    /\ pc = "activate" /\ todo = <<>>
    /\ LET ready == [ram EXCEPT !.primary = IF msg.primary = "B" THEN "B" ELSE "A"]
           locked == [ready EXCEPT !.state = "LockedOwner", !.nonce = @ + 1,
                                   !.next_owner = None]
       IN  \/ /\ ram.state = "UnlockedSelf" \/ secret
              /\ ram' = locked
              /\ pc' = "reboot"
              /\ UNCHANGED <<secret, faults>>
           \/ /\ ram.state # "UnlockedSelf"
              /\ \/ ~ secret /\ UNCHANGED <<secret, faults>>
                 \/ secret /\ faults < MaxFaults /\ faults' = faults + 1
                      /\ secret' \in BOOLEAN
              /\ ram' = ready
              /\ pc' = "boot"
    /\ msg' = Response
    /\ UNCHANGED <<bd, page, boot, todo, hist>>

(* boot_data_write and shutdown_finalize of rom_ext_main.                  *)
WriteBootdataThenReboot ==
    /\ pc = "reboot"
    /\ WriteBootData(ram)
    /\ pc' = "halt"
    /\ UNCHANGED <<page, secret, msg, ram, boot, todo, hist>>
-----------------------------------------------------------------------------
(* rescue_detect_entry: a request, or the break or pin of the host.        *)
EnterRescue ==
    /\ pc = "boot"
    /\ pc' = "rescue"
    /\ UNCHANGED <<nvm, msg, ram, boot, todo, faults, hist>>

(* The primary slot, else the other one, else shutdown_finalize.           *)
rom_ext_try_next_stage ==
    /\ pc = "boot" /\ ~ rescue_requested
    /\ pc' = IF \E s \in Slot : rom_ext_verify(s, ram) THEN "run" ELSE "halt"
    /\ UNCHANGED <<nvm, msg, ram, boot, todo, faults, hist>>

(* What main RAM holds is not used again. *)
SwitchOff ==
    /\ pc' = "off" /\ todo' = <<>>
    /\ ram' = bd'
    /\ owner_page' = [p \in 0 .. 1 |-> NoConfig]
    /\ owner_page_valid' = [p \in 0 .. 1 |-> "Invalid"]
    /\ keyring' = {} /\ rescue_requested' = FALSE

Reset ==
    /\ pc = "halt"
    /\ skip_boot_svc' = FALSE
    /\ UNCHANGED <<nvm, msg, faults, hist>>
    /\ SwitchOff

(* ownership_pages_lockdown, and flash_owner_block in rescue.              *)
Page1Writable ==
    \/ ram.state \in UnlockedState \/ (ram.state = "Recovery" /\ pc = "run")
    \/ /\ ram.state = "LockedOwner"
       /\ owner_block_newversion_mode(owner_page, owner_page_valid)

(* Environment: the firmware or the rescue host writes page 1, with a page *)
(* an owner signed, one this chip sealed before (page 0 can be read), or   *)
(* anything else.                                                          *)
HostWritesPage1 ==
    /\ pc \in {"run", "rescue"} /\ Page1Writable
    /\ \E x \in {Signed(c) : c \in Configs} \cup {Sealed(c) : c \in past} \cup {Bad} :
         page' = [page EXCEPT ![1] = x]
    /\ UNCHANGED <<bd, secret, msg, pc, ram, boot, todo, faults, hist>>

(* Environment: a request is left and the chip is reset, or it wakes up    *)
(* from sleep, or power is switched off and on, which clears the RAM.      *)
HostResets ==
    /\ pc \in {"run", "rescue"}
    /\ \/ /\ \/ \E n \in 0 .. bd.nonce : bd.nonce < MaxNonce /\ msg' \in Requests(n)
             \/ UNCHANGED msg
             \/ msg' = NoMsg
          /\ skip_boot_svc' = FALSE
       \/ pc = "run" /\ skip_boot_svc' = TRUE /\ UNCHANGED msg
    /\ UNCHANGED <<nvm, faults, hist>>
    /\ SwitchOff

(* Power is cut, or a watchdog resets the chip, while the ROM_EXT runs.    *)
Cut ==
    /\ pc \notin {"off", "run", "rescue", "halt"}
    /\ faults < MaxFaults /\ faults' = faults + 1
    /\ IF todo = <<>> THEN UNCHANGED page ELSE page' \in PageAfter(Head(todo))
    /\ Record
    /\ IF pc = "reboot" THEN bd' \in {bd, ram} ELSE UNCHANGED bd
    /\ IF pc = "activate" /\ todo = <<>> /\ ram.state # "UnlockedSelf"
         THEN secret' \in {secret, FALSE} ELSE UNCHANGED secret
    /\ msg' \in {msg, NoMsg}
    /\ skip_boot_svc' = FALSE
    /\ UNCHANGED exposed
    /\ SwitchOff

(* Page p is the one locked_owner_init goes by, and the other no copy.     *)
OnlyCopy(p) == page[p].sealed /\ IF p = 0 THEN page[1] # page[0] ELSE ~ page[0].sealed

(* A page becomes unreadable.                                              *)
PageLost ==
    /\ pc = "off"
    /\ faults < MaxFaults /\ faults' = faults + 1
    /\ \E p \in 0 .. 1 : /\ page' = [page EXCEPT ![p] = Bad]
                         /\ Exposes(bd.state = "LockedOwner" /\ OnlyCopy(p))
    /\ UNCHANGED <<bd, secret, msg, pc, ram, boot, todo, installed, past>>
-----------------------------------------------------------------------------
Init ==
    /\ bd = [state |-> "LockedOwner", nonce |-> 0, next_owner |-> None,
             primary |-> "A", min_sec |-> 0]
    /\ page = [p \in 0 .. 1 |-> Sealed(Initial)]
    /\ secret = TRUE /\ msg = NoMsg
    /\ pc = "off" /\ ram = bd
    /\ owner_page = [p \in 0 .. 1 |-> NoConfig]
    /\ owner_page_valid = [p \in 0 .. 1 |-> "Invalid"]
    /\ keyring = {} /\ rescue_requested = FALSE /\ skip_boot_svc = FALSE
    /\ todo = <<>> /\ faults = 0
    /\ installed = Initial /\ past = {Initial} /\ exposed = FALSE

Boot ==
    \/ PowerOn \/ locked_owner_init \/ unlocked_init \/ NoOwnerInit
    \/ Operate \/ NewVersionDone \/ FixDone
    \/ SkipBootSvc \/ rescue_enter_handler \/ boot_svc_next_boot_bl0_slot_handler
    \/ boot_svc_min_sec_ver_handler \/ ownership_unlock_handler
    \/ ownership_activate_handler \/ ActivateDone \/ WriteBootdataThenReboot
    \/ EnterRescue \/ rom_ext_try_next_stage \/ Reset

Next == Boot \/ OperateFails \/ Cut \/ PageLost \/ HostWritesPage1 \/ HostResets

(* The processor runs, and a chip that shut down is reset.                 *)
Spec == Init /\ [][Next]_vars /\ WF_vars(Boot)
-----------------------------------------------------------------------------
(* Type correctness. *)
TypeOK ==
    /\ bd \in BootData /\ ram \in BootData
    /\ page \in [0 .. 1 -> FlashPage]
    /\ secret \in BOOLEAN
    /\ pc \in {"off", "init", "newversion", "fix", "svc", "activate", "reboot", "boot",
               "run", "rescue", "halt"}
    /\ owner_page \in [0 .. 1 -> Config \cup {NoConfig}]
    /\ owner_page_valid \in [0 .. 1 -> {"Sealed", "Signed", "Invalid"}]
    /\ keyring \subseteq Owner
    /\ rescue_requested \in BOOLEAN /\ skip_boot_svc \in BOOLEAN
    /\ todo \in Seq([page : 0 .. 1, to : FlashPage])
    /\ faults \in 0 .. MaxFaults
    /\ installed \in Config /\ past \subseteq Config /\ exposed \in BOOLEAN

(* What may be sealed in page 0 after the configuration old.               *)
Permitted(old, new) ==
    \/ new = old
    \/ bd.state = "UnlockedAny"
    \/ bd.state = "UnlockedEndorsed" /\ new.owner = bd.next_owner
    \/ bd.state = "UnlockedSelf" /\ new.owner = old.owner
    \/ /\ bd.state = "LockedOwner" /\ new.owner = old.owner
       /\ new.version > old.version
       /\ old.update_mode \in {"NewVersion", "SelfVersion"}

(* The configuration in page 0 is replaced only as the ownership state in  *)
(* the boot data allows, whatever was cut short or torn on the way: by any *)
(* owner, by the endorsed one, by the same one, or by a newer version of   *)
(* itself.  The three faults of Exposes are the only way round it.         *)
ConfigPermitted ==
    [][page'[0].sealed /\ ~ exposed => Permitted(installed, page'[0].config)]_vars

(* Neither a cut, nor a failing or torn flash operation, nor the loss of a *)
(* page that has its copy, nor an old page replayed into page 1 takes an   *)
(* owned chip to Recovery; only the three faults of Exposes can.           *)
LockedNeverLost ==
    [][bd.state = "LockedOwner" /\ ~ exposed => bd'.state # "Recovery"]_vars

(* A locked chip runs firmware of the owner in page 0 and of no other,     *)
(* even when page 1 is sealed for someone else: after a transfer cut short *)
(* and aborted, or with a page of an earlier owner written back.           *)
LockedRunsOwners ==
    bd.state = "LockedOwner" /\ pc \in {"svc", "boot", "run", "rescue"} =>
        keyring \subseteq {page[0].config.owner}

(* An owned chip that boots with one good page, and no new version in the  *)
(* other, has two equal pages again, or is unlocked, or is held in rescue  *)
(* by the host.                                                            *)
BackupRestored ==
    (/\ pc = "init" /\ bd.state = "LockedOwner"
     /\ \E p \in 0 .. 1 : page[p].sealed /\ ~ page[1 - p].sealed
     /\ ~ newversion_update(owner_page, owner_page_valid))
        ~> (\/ page[0].sealed /\ page[1] = page[0]
            \/ bd.state # "LockedOwner" \/ pc = "rescue")
=============================================================================
