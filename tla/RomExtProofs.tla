---------------------------- MODULE RomExtProofs ----------------------------
(***************************************************************************)
(* Proofs about RomExt: for every set of owners, configurations, images    *)
(* and requests, and any number of boots, power cuts and flash errors.     *)
(*                                                                         *)
(* The invariant has two halves.  TInv, the types and what they rest on,   *)
(* holds in every history.  SInv, what keeps the owner and the backup,     *)
(* holds until one of the three faults of Exposes has happened.            *)
(***************************************************************************)
EXTENDS RomExt, SequenceTheorems, TLAPS

Op == [page : 0 .. 1, to : FlashPage]

(* The request in retention RAM is one of the environment's.               *)
MsgOK ==
    \/ msg \in {NoMsg, Response}
    \/ \E n \in 0 .. MaxNonce : msg \in Requests(n)

(* Where the RAM copy of a page is a configuration.                        *)
RamTypes ==
    /\ \A p \in 0 .. 1 : owner_page_valid[p] # "Invalid" => owner_page[p] \in Config
    /\ pc \in {"newversion", "fix"} => owner_page[0] \in Config
    /\ pc \in {"newversion", "fix", "activate"} => owner_page[1] \in Config

TInv == TypeOK /\ MsgOK /\ RamTypes

(* A configuration that may follow old without an unlock, and old itself.  *)
Successor(old, new) ==
    \/ new = old
    \/ /\ new.owner = old.owner
       /\ new.version > old.version
       /\ old.update_mode \in {"NewVersion", "SelfVersion"}

(* What is sealed in page 0 was installed last.                            *)
PageZero == page[0].sealed => page[0] = Sealed(installed)

(* An owned chip without page 0 has page 1, with the same configuration or *)
(* one that may follow it.                                                 *)
Backup ==
    bd.state = "LockedOwner" /\ ~ page[0].sealed =>
        page[1].sealed /\ Successor(installed, page[1].config)

(* How the RAM copy of the boot data differs from the one in flash.        *)
RamState ==
    /\ pc \in {"init", "newversion", "fix", "activate"} => ram.state = bd.state
    /\ pc \notin {"reboot", "halt"} =>
         /\ ram.next_owner = bd.next_owner
         /\ ram.state = bd.state \/ (ram.state = "Recovery" /\ bd.state # "LockedOwner")
    /\ pc = "reboot" =>
         /\ ram.state # "Recovery"
         /\ ram.state = "LockedOwner" => page[0].sealed

(* The RAM copies of the owner pages are those of the flash.               *)
PagesRead ==
    \A p \in 0 .. 1 : /\ owner_page[p] = page[p].config
                      /\ owner_page_valid[p] = owner_page_validity_check(page[p])

(* What the RAM copies and statuses say of the flash, by place.            *)
RamPages ==
    /\ pc = "init" => PagesRead
    /\ pc = "svc" /\ ram.state \in UnlockedState =>
         PagesRead /\ (ram.state = "UnlockedSelf" => page[0].sealed)
    /\ pc \in {"svc", "boot", "run", "rescue"} /\ bd.state = "LockedOwner"
         /\ owner_page_valid[0] = "Sealed" => page[0].sealed

(* The two operations of a rewrite, under way: c goes into page p, sealed. *)
Rewriting(p, c) ==
    \/ todo = Rewrite(p, Sealed(c))
    \/ todo = <<Write(p, Sealed(c))>>
    \/ todo = <<>> /\ page[p] = Sealed(c)

(* Operations on the owner pages, and what they rest on.                   *)
UnderWay ==
    /\ pc \notin {"newversion", "fix", "activate"} => todo = <<>>
    /\ pc = "newversion" =>
         /\ bd.state = "LockedOwner"
         /\ page[0].sealed /\ owner_page[0] = installed
         /\ owner_page_valid[0] = "Sealed"
         /\ Successor(installed, owner_page[1])
         /\ Rewriting(1, owner_page[1])
    /\ pc = "fix" =>
         /\ bd.state = "LockedOwner"
         /\ owner_page[0] = owner_page[1]
         /\ \E p \in 0 .. 1 :
              /\ page[p] = Sealed(owner_page[p])
              /\ p = 1 => /\ owner_page_valid[0] # "Sealed"
                          /\ Successor(installed, owner_page[1])
              /\ Rewriting(1 - p, owner_page[p])
    /\ pc = "activate" =>
         /\ bd.state \in UnlockedState
         /\ bd.state = "UnlockedSelf" => owner_page[1].owner = installed.owner
         /\ bd.state = "UnlockedEndorsed" => owner_page[1].owner = bd.next_owner
         /\ \/ todo = ActivateOps(Sealed(owner_page[1]))
            \/ todo = <<Write(1, Sealed(owner_page[1]))>> \o Rewrite(0, Sealed(owner_page[1]))
            \/ Rewriting(0, owner_page[1])

SInv == PageZero /\ Backup /\ RamState /\ RamPages /\ UnderWay

IInv == TInv /\ (exposed \/ SInv)
-----------------------------------------------------------------------------
(* What is known of a page in flash from its seal and from its status.     *)
LEMMA PageLemma ==
    /\ Bad \in FlashPage /\ Bad.config = NoConfig /\ Bad.sealed = FALSE
    /\ NoConfig \notin Config
    /\ \A c : /\ Sealed(c).config = c /\ Sealed(c).sealed = TRUE
              /\ Signed(c).config = c /\ Signed(c).sealed = FALSE
              /\ Sealed(c) # Bad
    /\ \A c \in Config : Sealed(c) \in FlashPage /\ Signed(c) \in FlashPage
    /\ \A x \in FlashPage :
         /\ x.sealed \in BOOLEAN
         /\ x.config \in Config \cup {NoConfig}
         /\ x # Bad => x.config \in Config
         /\ x.sealed => x = Sealed(x.config) /\ x.config \in Config
         /\ Signed(x.config) \in FlashPage
         /\ owner_page_validity_check(x) \in {"Sealed", "Signed", "Invalid"}
         /\ owner_page_validity_check(x) = "Sealed" <=> x.sealed
         /\ owner_page_validity_check(x) = "Signed" => x # Bad
<1>1. /\ Bad \in FlashPage /\ Bad.config = NoConfig /\ Bad.sealed = FALSE
      /\ \A c : /\ Sealed(c).config = c /\ Sealed(c).sealed = TRUE
                /\ Signed(c).config = c /\ Signed(c).sealed = FALSE
                /\ Sealed(c) # Bad
    BY DEF Bad, FlashPage, Signed, Sealed
<1>2. NoConfig \notin Config
    <2>1. NoConfig.owner = None
        BY DEF NoConfig
    <2> QED
        BY <2>1, OwnerAssumption DEF Config
<1>3. \A c \in Config : Sealed(c) \in FlashPage /\ Signed(c) \in FlashPage
    BY DEF FlashPage, Signed, Sealed
<1>4. ASSUME NEW x \in FlashPage
      PROVE  /\ x.sealed \in BOOLEAN
             /\ x.config \in Config \cup {NoConfig}
             /\ x # Bad => x.config \in Config
             /\ x.sealed => x = Sealed(x.config) /\ x.config \in Config
    BY <1>1 DEF FlashPage, Sealed
<1>6. ASSUME NEW x \in FlashPage
      PROVE  Signed(x.config) \in FlashPage
    <2>1. CASE x.config \in Config
        BY <1>3, <2>1
    <2>2. CASE x.config = NoConfig
        BY <1>1, <2>2 DEF Bad
    <2> QED
        BY <1>4, <2>1, <2>2
<1>5. ASSUME NEW x \in FlashPage
      PROVE  /\ owner_page_validity_check(x) \in {"Sealed", "Signed", "Invalid"}
             /\ owner_page_validity_check(x) = "Sealed" <=> x.sealed
             /\ owner_page_validity_check(x) = "Signed" => x # Bad
    <2>1. CASE x.sealed
        BY <2>1, <1>1 DEF owner_page_validity_check
    <2>2. CASE ~ x.sealed /\ x # Bad
        BY <2>2 DEF owner_page_validity_check
    <2>3. CASE x = Bad
        BY <2>3, <1>1 DEF owner_page_validity_check
    <2> QED
        BY <2>1, <2>2, <2>3
<1> QED
    BY <1>1, <1>2, <1>3, <1>4, <1>5, <1>6

(* A granted unlock takes the chip to an unlocked state; only an abort     *)
(* takes it back, and then the page 0 it was checked with is in RAM.       *)
LEMMA UnlockLemma ==
    ASSUME NEW req, NEW b \in BootData, NEW config,
           req.mode = "Endorsed" => req.next_owner \in Owner,
           unlock_granted(req, b, config)
    PROVE  /\ Unlocked(req, b) \in BootData
           /\ \/ Unlocked(req, b).state \in UnlockedState
              \/ /\ Unlocked(req, b).state = "LockedOwner"
                 /\ b.state \in UnlockedState
                 /\ config[0] # NoConfig
<1>1. /\ b.state \in OwnershipState /\ b.nonce \in Nat /\ b.nonce + 1 \in Nat
      /\ b.next_owner \in Owner \cup {None} /\ b.primary \in Slot /\ b.min_sec \in Nat
    BY DEF BootData
<1>2. /\ Unlocked(req, b).state =
            IF req.mode = "Abort" THEN "LockedOwner" ELSE UnlockedBy(req.mode)
      /\ UnlockedBy(req.mode) \in UnlockedState => Unlocked(req, b) \in BootData
      /\ req.mode = "Abort" => Unlocked(req, b) \in BootData
    BY <1>1 DEF Unlocked, BootData, OwnershipState, UnlockedState
<1>3. CASE req.mode = "Abort"
    <2>1. unlock_abort(req, b, config)
        BY <1>3 DEF unlock_granted
    <2> QED
        BY <1>2, <1>3, <2>1 DEF unlock_abort, ownership_key_validate
<1>4. CASE req.mode \in {"Any", "Endorsed", "Update"}
    <2>1. UnlockedBy(req.mode) \in UnlockedState
        BY <1>4 DEF UnlockedBy, UnlockedState
    <2> QED
        BY <1>2, <1>4, <2>1
<1>5. req.mode \in {"Any", "Endorsed", "Update", "Abort"}
    <2> SUFFICES ASSUME req.mode \notin {"Any", "Endorsed", "Update", "Abort"}
                 PROVE  FALSE
        OBVIOUS
    <2> QED
        BY DEF unlock_granted
<1> QED
    BY <1>3, <1>4, <1>5

(* The sequences of operations: a rewrite is an erase and then a write,    *)
(* and an activation rewrites page 1 before page 0.                        *)
LEMMA OpsLemma ==
    ASSUME NEW p \in 0 .. 1, NEW x \in FlashPage
    PROVE  /\ Rewrite(p, x) \in Seq(Op) /\ Rewrite(p, x) # <<>>
           /\ Head(Rewrite(p, x)) = Erase(p)
           /\ Tail(Rewrite(p, x)) = <<Write(p, x)>>
           /\ <<Write(p, x)>> \in Seq(Op) /\ <<Write(p, x)>> # <<>>
           /\ Head(<<Write(p, x)>>) = Write(p, x)
           /\ Tail(<<Write(p, x)>>) = <<>>
           /\ Erase(p).page = p /\ Erase(p).to = Bad
           /\ Write(p, x).page = p /\ Write(p, x).to = x
<1>1. Erase(p) \in Op /\ Write(p, x) \in Op
    BY PageLemma DEF Erase, Write, Op
<1>2. /\ Erase(p).page = p /\ Erase(p).to = Bad
      /\ Write(p, x).page = p /\ Write(p, x).to = x
    BY DEF Erase, Write
<1>3. ASSUME NEW a \in Op, NEW b \in Op
      PROVE  /\ <<a, b>> \in Seq(Op) /\ <<a, b>> # <<>>
             /\ Head(<<a, b>>) = a /\ Tail(<<a, b>>) = <<b>>
             /\ <<b>> \in Seq(Op) /\ <<b>> # <<>>
             /\ Head(<<b>>) = b /\ Tail(<<b>>) = <<>>
    OBVIOUS
<1>4. /\ Rewrite(p, x) \in Seq(Op) /\ Rewrite(p, x) # <<>>
      /\ Head(Rewrite(p, x)) = Erase(p)
      /\ Tail(Rewrite(p, x)) = <<Write(p, x)>>
      /\ <<Write(p, x)>> \in Seq(Op) /\ <<Write(p, x)>> # <<>>
      /\ Head(<<Write(p, x)>>) = Write(p, x)
      /\ Tail(<<Write(p, x)>>) = <<>>
    BY <1>1, <1>3 DEF Rewrite
<1> QED
    BY <1>2, <1>4

(* As OpsLemma, for the four operations of an activation.                  *)
LEMMA ActivateOpsLemma ==
    ASSUME NEW pg \in FlashPage
    PROVE  LET all == ActivateOps(pg)
               rest == <<Write(1, pg)>> \o Rewrite(0, pg)
           IN  /\ all \in Seq(Op) /\ all # <<>>
               /\ Head(all) = Erase(1) /\ Tail(all) = rest
               /\ rest \in Seq(Op) /\ rest # <<>>
               /\ Head(rest) = Write(1, pg) /\ Tail(rest) = Rewrite(0, pg)
<1>1. \A p \in 0 .. 1 : Erase(p) \in Op /\ Write(p, pg) \in Op
    BY PageLemma DEF Erase, Write, Op
<1>2. ASSUME NEW a \in Op, NEW b \in Op, NEW d \in Op, NEW e \in Op
      PROVE  /\ <<a, b>> \o <<d, e>> = <<a, b, d, e>>
             /\ <<b>> \o <<d, e>> = <<b, d, e>>
    <2>1. <<a, b>> \o <<d, e>> = <<a, b, d, e>>
        <3> DEFINE x == <<a, b>> \o <<d, e>>
                   y == <<a, b, d, e>>
        <3>1. /\ x \in Seq(Op) /\ Len(x) = 4
              /\ x[1] = a /\ x[2] = b /\ x[3] = d /\ x[4] = e
            OBVIOUS
        <3>2. /\ y \in Seq(Op) /\ Len(y) = 4
              /\ y[1] = a /\ y[2] = b /\ y[3] = d /\ y[4] = e
            OBVIOUS
        <3> HIDE DEF x, y
        <3>3. \A k \in 1 .. Len(x) : x[k] = y[k]
            BY <3>1, <3>2
        <3>4. x = y
            BY <3>1, <3>2, <3>3, SeqEqual
        <3> QED
            BY <3>4 DEF x, y
    <2>2. <<b>> \o <<d, e>> = <<b, d, e>>
        <3> DEFINE x == <<b>> \o <<d, e>>
                   y == <<b, d, e>>
        <3>1. x \in Seq(Op) /\ Len(x) = 3 /\ x[1] = b /\ x[2] = d /\ x[3] = e
            OBVIOUS
        <3>2. y \in Seq(Op) /\ Len(y) = 3 /\ y[1] = b /\ y[2] = d /\ y[3] = e
            OBVIOUS
        <3> HIDE DEF x, y
        <3>3. \A k \in 1 .. Len(x) : x[k] = y[k]
            BY <3>1, <3>2
        <3>4. x = y
            BY <3>1, <3>2, <3>3, SeqEqual
        <3> QED
            BY <3>4 DEF x, y
    <2> QED
        BY <2>1, <2>2
<1>3. ASSUME NEW a \in Op, NEW b \in Op, NEW d \in Op, NEW e \in Op
      PROVE  /\ <<a, b, d, e>> \in Seq(Op) /\ <<a, b, d, e>> # <<>>
             /\ Head(<<a, b, d, e>>) = a /\ Tail(<<a, b, d, e>>) = <<b, d, e>>
             /\ <<b, d, e>> \in Seq(Op) /\ <<b, d, e>> # <<>>
             /\ Head(<<b, d, e>>) = b /\ Tail(<<b, d, e>>) = <<d, e>>
    OBVIOUS
<1>4. /\ ActivateOps(pg) = <<Erase(1), Write(1, pg), Erase(0), Write(0, pg)>>
      /\ <<Write(1, pg)>> \o Rewrite(0, pg) = <<Write(1, pg), Erase(0), Write(0, pg)>>
    BY <1>1, <1>2 DEF Rewrite, ActivateOps
<1>5. Erase(1) \in Op /\ Write(1, pg) \in Op /\ Erase(0) \in Op /\ Write(0, pg) \in Op
    BY <1>1
<1>6. LET x == <<Erase(1), Write(1, pg), Erase(0), Write(0, pg)>>
          y == <<Write(1, pg), Erase(0), Write(0, pg)>>
      IN  /\ x \in Seq(Op) /\ x # <<>> /\ Head(x) = Erase(1) /\ Tail(x) = y
          /\ y \in Seq(Op) /\ y # <<>> /\ Head(y) = Write(1, pg) /\ Tail(y) = Rewrite(0, pg)
    BY <1>5 DEF Rewrite
<1> QED
    BY <1>4, <1>6, Zenon

-----------------------------------------------------------------------------
(* History variables keep their types whatever the pages come to hold.     *)
LEMMA RecordTypes ==
    ASSUME TypeOK, Record, page' \in [0 .. 1 -> FlashPage]
    PROVE  installed' \in Config /\ past' \subseteq Config
<1>1. \A p \in 0 .. 1 : page'[p].sealed => page'[p].config \in Config
    BY PageLemma
<1> QED
    BY <1>1 DEF Record, TypeOK

(* A failed or cut operation leaves pages.                                 *)
LEMMA AfterTypes ==
    ASSUME TypeOK, todo # <<>>, page' \in PageAfter(Head(todo))
    PROVE  page' \in [0 .. 1 -> FlashPage]
<1> DEFINE o == Head(todo)
<1>1. o \in Op
    <2>1. todo \in Seq(Op)
        BY DEF TypeOK, Op
    <2> QED
        BY <2>1
<1>2. o.page \in 0 .. 1 /\ o.to \in FlashPage
    BY <1>1 DEF Op
<1>3. page \in [0 .. 1 -> FlashPage]
    BY DEF TypeOK
<1> HIDE DEF o
<1>4. PICK x \in {page[o.page], Bad, o.to, Signed(page[o.page].config), Signed(o.to.config)} :
         page' = [page EXCEPT ![o.page] = x]
    BY DEF PageAfter, o
<1>5. page[o.page] \in FlashPage
    BY <1>2, <1>3
<1>6. Signed(page[o.page].config) \in FlashPage /\ Signed(o.to.config) \in FlashPage
    BY <1>2, <1>5, PageLemma
<1>7. x \in FlashPage
    BY <1>2, <1>4, <1>5, <1>6, PageLemma
<1> QED
    BY <1>3, <1>4, <1>7

(* The initial state has the types.                                        *)
LEMMA InitTInv == Init => TInv
<1> SUFFICES ASSUME Init PROVE TInv
    OBVIOUS
<1>1. Initial \in Config
    BY RomExtAssumption
<1>2. TypeOK
    <2>1. bd \in BootData
        BY DEF Init, BootData, OwnershipState, Slot
    <2>2. page \in [0 .. 1 -> FlashPage]
        BY <1>1, PageLemma DEF Init
    <2>3. /\ owner_page \in [0 .. 1 -> Config \cup {NoConfig}]
          /\ owner_page_valid \in [0 .. 1 -> {"Sealed", "Signed", "Invalid"}]
        BY DEF Init
    <2>4. todo \in Seq([page : 0 .. 1, to : FlashPage])
        BY DEF Init
    <2>5. /\ secret \in BOOLEAN /\ rescue_requested \in BOOLEAN /\ skip_boot_svc \in BOOLEAN
          /\ exposed \in BOOLEAN
        BY DEF Init
    <2>6. faults \in 0 .. MaxFaults
        BY RomExtAssumption DEF Init
    <2> QED
        BY <1>1, <2>1, <2>2, <2>3, <2>4, <2>5, <2>6 DEF Init, TypeOK
<1>3. MsgOK
    BY DEF Init, MsgOK
<1>4. RamTypes
    BY DEF Init, RamTypes
<1> QED
    BY <1>2, <1>3, <1>4 DEF TInv

(* The sealing of page 1: what is written is a page, sealed unless it is   *)
(* recorded that the seal failed.                                          *)
LEMMA SealLemma ==
    ASSUME TypeOK, NEW c \in Config, NEW x, ownership_seal_page(c, x)
    PROVE  /\ x \in FlashPage /\ faults' \in 0 .. MaxFaults /\ exposed' \in BOOLEAN
           /\ ~ exposed' => x = Sealed(c) /\ faults' = faults
<1>1. faults \in 0 .. MaxFaults /\ MaxFaults \in Nat /\ exposed \in BOOLEAN
    BY RomExtAssumption DEF TypeOK
<1>2. CASE x = Sealed(c) /\ UNCHANGED <<faults, exposed>>
    BY <1>1, <1>2, PageLemma
<1>3. CASE x = Signed(c) /\ faults < MaxFaults /\ faults' = faults + 1 /\ Exposes(TRUE)
    BY <1>1, <1>3, PageLemma DEF Exposes
<1> QED
    BY <1>2, <1>3 DEF ownership_seal_page

(* rom_ext_init and the reads of ownership_init keep the types.            *)
LEMMA PowerOnTypes == ASSUME TInv, PowerOn PROVE TInv'
<1> USE DEF TInv
<1>1. /\ owner_page' = [p \in 0 .. 1 |-> page[p].config]
      /\ owner_page_valid' = [p \in 0 .. 1 |-> owner_page_validity_check(page[p])]
      /\ ram' = bd /\ pc' = "init"
      /\ UNCHANGED <<bd, page, secret, msg, keyring, rescue_requested, skip_boot_svc,
                     faults, installed, past, exposed, todo>>
    BY DEF PowerOn, nvm, hist
<1>2. \A p \in 0 .. 1 :
        /\ page[p].config \in Config \cup {NoConfig}
        /\ owner_page_validity_check(page[p]) \in {"Sealed", "Signed", "Invalid"}
        /\ owner_page_validity_check(page[p]) # "Invalid" => page[p].config \in Config
    BY PageLemma DEF TypeOK
<1>3. TypeOK'
    BY <1>1, <1>2 DEF TypeOK
<1>4. RamTypes' /\ MsgOK'
    BY <1>1, <1>2 DEF RamTypes, MsgOK
<1> QED
    BY <1>3, <1>4

(* Steps that leave the RAM copies of the pages alone and do not enter an  *)
(* operation on them.                                                      *)
LEMMA CopiesKept ==
    ASSUME RamTypes, UNCHANGED <<owner_page, owner_page_valid>>,
           pc' \notin {"newversion", "fix", "activate"}
    PROVE  RamTypes'
BY DEF RamTypes

(* GoToRecovery is boot data, and so is what a reset minimum version makes *)
(* of it.                                                                  *)
LEMMA BootDataLemma ==
    ASSUME TypeOK
    PROVE  /\ GoToRecovery \in BootData
           /\ GoToRecovery.state = "Recovery"
           /\ GoToRecovery.next_owner = ram.next_owner
           /\ \A v \in Nat : [ram EXCEPT !.min_sec = v] \in BootData
<1>1. ram \in BootData /\ ram.nonce \in Nat /\ ram.nonce + 1 \in Nat
    BY DEF TypeOK, BootData
<1>2. "Recovery" \in OwnershipState
    BY DEF OwnershipState
<1> QED
    BY <1>1, <1>2 DEF GoToRecovery, BootData

(* boot_data_write leaves one of two boot data.                            *)
LEMMA WriteTypes ==
    ASSUME TypeOK, NEW new \in BootData, WriteBootData(new)
    PROVE  bd' \in {bd, new} /\ bd' \in BootData /\ faults' \in 0 .. MaxFaults
BY RomExtAssumption DEF WriteBootData, TypeOK

(* Both pages good, or one copied over the other: the types are kept.      *)
LEMMA FixTypes ==
    ASSUME TInv, NEW valid \in [0 .. 1 -> {"Sealed", "Signed", "Invalid"}],
           \A p \in 0 .. 1 : valid[p] # "Invalid" => owner_page[p] \in Config,
           RedundancyFix(owner_page, valid), UNCHANGED ram,
           UNCHANGED <<page, secret, msg, rescue_requested, skip_boot_svc, installed,
                       past, exposed>>
    PROVE  TInv'
<1> USE DEF TInv
<1>0. owner_page \in [0 .. 1 -> Config \cup {NoConfig}]
    BY DEF TypeOK
<1>1. bd' = bd /\ faults' = faults /\ owner_page_valid' = valid /\ MsgOK'
    BY DEF RedundancyFix, MsgOK
<1>2. CASE /\ valid[0] = "Sealed" /\ owner_page' = owner_page
           /\ keyring' = {owner_page[0].owner} /\ pc' = "svc" /\ todo' = todo
    <2>1. keyring' \subseteq Owner
        BY <1>2 DEF Config
    <2>2. TypeOK'
        BY <1>1, <1>2, <2>1 DEF TypeOK
    <2>3. RamTypes'
        BY <1>1, <1>2 DEF RamTypes
    <2> QED
        BY <1>1, <2>2, <2>3
<1>3. ASSUME NEW p \in 0 .. 1, valid[p] = "Sealed",
             owner_page' = [owner_page EXCEPT ![1 - p] = owner_page[p]],
             todo' = Rewrite(1 - p, page[p]),
             pc' = "fix", keyring' = keyring
      PROVE  TInv'
    <2>1. 1 - p \in 0 .. 1 /\ page[p] \in FlashPage /\ owner_page[p] \in Config
        BY <1>3 DEF TypeOK
    <2>2. /\ owner_page' \in [0 .. 1 -> Config \cup {NoConfig}]
          /\ owner_page'[0] \in Config /\ owner_page'[1] \in Config
        BY <1>0, <1>3, <2>1
    <2>3. todo' \in Seq(Op)
        BY <1>3, <2>1, OpsLemma
    <2>4. TypeOK'
        BY <1>1, <1>3, <2>2, <2>3 DEF TypeOK, Op
    <2>5. RamTypes'
        BY <2>2 DEF RamTypes
    <2> QED
        BY <1>1, <2>4, <2>5
<1> QED
    BY <1>2, <1>3 DEF RedundancyFix

(* locked_owner_init keeps the types.                                      *)
LEMMA LockedInitTypes == ASSUME TInv, locked_owner_init PROVE TInv'
<1> USE DEF TInv
<1>1. /\ pc = "init"
      /\ UNCHANGED <<page, secret, msg, rescue_requested, skip_boot_svc, installed, past>>
    BY DEF locked_owner_init
<1>2. \A p \in 0 .. 1 : owner_page_valid[p] # "Invalid" => owner_page[p] \in Config
    BY DEF RamTypes
<1>3. CASE /\ newversion_update(owner_page, owner_page_valid)
           /\ ram' = IF owner_page[1].min_sec = -1 THEN ram
                     ELSE [ram EXCEPT !.min_sec = owner_page[1].min_sec]
           /\ \E x \in {Sealed(owner_page[1]), Signed(owner_page[1])} :
                /\ ownership_seal_page(owner_page[1], x)
                /\ todo' = Rewrite(1, x)
           /\ pc' = "newversion"
           /\ UNCHANGED <<bd, owner_page, owner_page_valid, keyring>>
    <2>1. owner_page[0] \in Config /\ owner_page[1] \in Config /\ 1 \in 0 .. 1
        BY <1>2, <1>3 DEF newversion_update
    <2>2. ram' \in BootData
        <3>1. owner_page[1].min_sec # -1 => owner_page[1].min_sec \in Nat
            BY <2>1 DEF Config
        <3> QED
            BY <1>3, <3>1, BootDataLemma DEF TypeOK
    <2>3. PICK x : ownership_seal_page(owner_page[1], x) /\ todo' = Rewrite(1, x)
        BY <1>3
    <2>4. x \in FlashPage /\ faults' \in 0 .. MaxFaults /\ exposed' \in BOOLEAN
        BY <2>1, <2>3, SealLemma
    <2>5. todo' \in Seq(Op)
        BY <2>1, <2>3, <2>4, OpsLemma
    <2>6. TypeOK'
        BY <1>1, <1>3, <2>2, <2>4, <2>5 DEF TypeOK, Op
    <2>7. RamTypes' /\ MsgOK'
        BY <1>1, <1>2, <1>3, <2>1 DEF RamTypes, MsgOK
    <2> QED
        BY <2>6, <2>7
<1>4. CASE RedundancyFix(owner_page, owner_page_valid) /\ UNCHANGED <<ram, exposed>>
    <2>1. owner_page_valid \in [0 .. 1 -> {"Sealed", "Signed", "Invalid"}]
        BY DEF TypeOK
    <2> QED
        BY <1>1, <1>2, <1>4, <2>1, FixTypes
<1>5. CASE /\ ram' = GoToRecovery /\ WriteBootData(GoToRecovery) /\ pc' = "svc"
           /\ UNCHANGED <<owner_page, owner_page_valid, keyring, todo, exposed>>
    <2>1. ram' \in BootData /\ bd' \in BootData /\ faults' \in 0 .. MaxFaults
        BY <1>5, BootDataLemma, WriteTypes
    <2>2. TypeOK'
        BY <1>1, <1>5, <2>1 DEF TypeOK
    <2>3. RamTypes' /\ MsgOK'
        BY <1>1, <1>5, CopiesKept DEF MsgOK
    <2> QED
        BY <2>2, <2>3
<1> QED
    BY <1>3, <1>4, <1>5 DEF locked_owner_init

(* unlocked_init keeps the types: the keys it enumerates are owners'.      *)
LEMMA UnlockedInitTypes == ASSUME TInv, unlocked_init PROVE TInv'
<1> USE DEF TInv
<1>1. /\ pc' = "svc" /\ todo' = todo
      /\ UNCHANGED <<page, secret, msg, owner_page, owner_page_valid, rescue_requested,
                     skip_boot_svc, installed, past, exposed>>
    BY DEF unlocked_init, hist
<1>2. RamTypes' /\ MsgOK'
    BY <1>1, CopiesKept DEF MsgOK
<1>3. CASE ram' = GoToRecovery /\ WriteBootData(GoToRecovery) /\ UNCHANGED keyring
    <2>1. ram' \in BootData /\ bd' \in BootData /\ faults' \in 0 .. MaxFaults
        BY <1>3, BootDataLemma, WriteTypes
    <2> QED
        BY <1>1, <1>2, <1>3, <2>1 DEF TypeOK
<1>4. CASE /\ keyring' = {owner_page[p].owner : p \in
                {q \in 0 .. 1 :
                   \/ q = 0 /\ owner_page_valid[0] = "Sealed"
                   \/ /\ q = 1 /\ owner_page[1].parses
                      /\ owner_block_page1_valid_for_transfer(ram, owner_page, owner_page_valid)}}
           /\ UNCHANGED <<bd, ram, faults>>
    <2>1. \A p \in 0 .. 1 : owner_page_valid[p] \in {"Sealed", "Signed"} =>
             owner_page[p].owner \in Owner
        BY DEF RamTypes, Config
    <2>2. owner_block_page1_valid_for_transfer(ram, owner_page, owner_page_valid) =>
             owner_page_valid[1] \in {"Sealed", "Signed"}
        BY DEF owner_block_page1_valid_for_transfer
    <2>3. keyring' \subseteq Owner
        BY <1>4, <2>1, <2>2
    <2> QED
        BY <1>1, <1>2, <1>4, <2>3 DEF TypeOK
<1> QED
    BY <1>3, <1>4 DEF unlocked_init

(* The steps that only move on: no owner, no request, rescue, or the next  *)
(* stage.                                                                  *)
MovesOn ==
    NoOwnerInit \/ SkipBootSvc \/ rescue_enter_handler \/ EnterRescue
        \/ rom_ext_try_next_stage

LEMMA MoveOnLemma ==
    ASSUME MovesOn
    PROVE  /\ UNCHANGED <<bd, page, secret, ram, owner_page, owner_page_valid, keyring,
                          skip_boot_svc, todo, faults, installed, past, exposed>>
           /\ msg' \in {msg, Response}
           /\ rescue_requested' \in {rescue_requested, TRUE}
           /\ \/ pc = "init" /\ pc' = "svc" /\ ram.state = "Recovery"
              \/ pc = "svc" /\ pc' = "boot"
              \/ pc = "boot" /\ pc' \in {"rescue", "run", "halt"}
BY DEF MovesOn, NoOwnerInit, SkipBootSvc, rescue_enter_handler, EnterRescue,
       rom_ext_try_next_stage, nvm, boot, hist, Handles

LEMMA MoveOnTypes == ASSUME TInv, MovesOn PROVE TInv'
<1> USE DEF TInv
<1>1. TypeOK'
    BY MoveOnLemma DEF TypeOK
<1>2. MsgOK' /\ RamTypes'
    BY MoveOnLemma, CopiesKept DEF MsgOK
<1> QED
    BY <1>1, <1>2

(* The steps on the owner pages keep the types, done or failed.            *)
LEMMA OperateTypes == ASSUME TInv, Operate PROVE TInv'
<1> USE DEF TInv
<1>1. /\ todo # <<>> /\ todo' = Tail(todo) /\ Record
      /\ page' = [page EXCEPT ![Head(todo).page] = Head(todo).to]
      /\ UNCHANGED <<bd, secret, msg, pc, ram, owner_page, owner_page_valid, keyring,
                     rescue_requested, skip_boot_svc, faults, exposed>>
    BY DEF Operate, boot
<1>2. page' \in PageAfter(Head(todo))
    BY <1>1 DEF PageAfter
<1>3. page' \in [0 .. 1 -> FlashPage] /\ installed' \in Config /\ past' \subseteq Config
    BY <1>1, <1>2, AfterTypes, RecordTypes
<1>4. todo' \in Seq(Op)
    <2>1. todo \in Seq(Op)
        BY DEF TypeOK, Op
    <2> QED
        BY <1>1, <2>1
<1>5. TypeOK'
    BY <1>1, <1>3, <1>4 DEF TypeOK, Op
<1>6. MsgOK' /\ RamTypes'
    BY <1>1 DEF MsgOK, RamTypes
<1> QED
    BY <1>5, <1>6

LEMMA OperateFailsTypes == ASSUME TInv, OperateFails PROVE TInv'
<1> USE DEF TInv
<1>1. /\ todo # <<>> /\ faults' \in 0 .. MaxFaults /\ Record
      /\ page' \in PageAfter(Head(todo))
      /\ UNCHANGED <<bd, secret, ram, owner_page_valid, keyring, rescue_requested,
                     skip_boot_svc, exposed>>
    BY RomExtAssumption DEF OperateFails, TypeOK
<1>2. page' \in [0 .. 1 -> FlashPage] /\ installed' \in Config /\ past' \subseteq Config
    BY <1>1, AfterTypes, RecordTypes
<1>3. /\ page[0] \in FlashPage /\ owner_page \in [0 .. 1 -> Config \cup {NoConfig}]
      /\ 1 \in 0 .. 1
    BY DEF TypeOK
<1>4. CASE /\ pc = "newversion"
           /\ owner_page' = [owner_page EXCEPT ![1] = owner_page[0]]
           /\ todo' = Rewrite(1, page[0])
           /\ pc' = "fix"
           /\ UNCHANGED msg
    <2>1. owner_page[0] \in Config
        BY <1>4 DEF RamTypes
    <2>2. /\ owner_page' \in [0 .. 1 -> Config \cup {NoConfig}]
          /\ owner_page'[0] \in Config /\ owner_page'[1] \in Config
        BY <1>3, <1>4, <2>1
    <2>3. todo' \in Seq(Op)
        BY <1>3, <1>4, OpsLemma
    <2>4. TypeOK'
        BY <1>1, <1>2, <1>4, <2>2, <2>3 DEF TypeOK, Op
    <2>5. RamTypes' /\ MsgOK'
        BY <1>4, <2>2 DEF RamTypes, MsgOK
    <2> QED
        BY <2>4, <2>5
<1>5. CASE /\ todo' = <<>> /\ pc' \in {"svc", "boot"} /\ msg' \in {msg, Response}
           /\ UNCHANGED owner_page
    <2>1. TypeOK'
        BY <1>1, <1>2, <1>5 DEF TypeOK
    <2>2. RamTypes' /\ MsgOK'
        BY <1>1, <1>5, CopiesKept DEF MsgOK
    <2> QED
        BY <2>1, <2>2
<1> QED
    BY <1>4, <1>5 DEF OperateFails

LEMMA NewVersionDoneTypes == ASSUME TInv, NewVersionDone PROVE TInv'
<1> DEFINE valid == [p \in 0 .. 1 |-> IF p = 0 THEN "Invalid" ELSE "Sealed"]
<1>1. /\ pc = "newversion" /\ RedundancyFix(owner_page, valid) /\ UNCHANGED ram
      /\ UNCHANGED <<page, secret, msg, rescue_requested, skip_boot_svc, installed,
                     past, exposed>>
    BY DEF NewVersionDone, hist
<1>2. /\ valid \in [0 .. 1 -> {"Sealed", "Signed", "Invalid"}]
      /\ valid[0] = "Invalid" /\ valid[1] = "Sealed"
    OBVIOUS
<1> HIDE DEF valid
<1>3. \A p \in 0 .. 1 : valid[p] # "Invalid" => owner_page[p] \in Config
    BY <1>1, <1>2 DEF TInv, RamTypes
<1> QED
    BY <1>1, <1>2, <1>3, FixTypes

LEMMA FixDoneTypes == ASSUME TInv, FixDone PROVE TInv'
<1> USE DEF TInv
<1>1. /\ pc = "fix" /\ pc' = "svc"
      /\ owner_page_valid' = [p \in 0 .. 1 |-> "Sealed"]
      /\ keyring' = {owner_page[0].owner}
      /\ UNCHANGED <<bd, page, secret, msg, ram, owner_page, rescue_requested,
                     skip_boot_svc, todo, faults, installed, past, exposed>>
    BY DEF FixDone, nvm, hist
<1>2. owner_page[0] \in Config /\ owner_page[1] \in Config
    BY <1>1 DEF RamTypes
<1>3. keyring' \subseteq Owner
    BY <1>1, <1>2 DEF Config
<1>4. TypeOK'
    BY <1>1, <1>3 DEF TypeOK
<1>5. RamTypes' /\ MsgOK'
    BY <1>1, <1>2 DEF RamTypes, MsgOK
<1> QED
    BY <1>4, <1>5

(* A boot service that leaves the flash pages and their copies alone.      *)
LEMMA SvcTypes ==
    ASSUME TInv, pc' \in {"boot", "reboot", "halt"},
           UNCHANGED <<page, owner_page, owner_page_valid, keyring, rescue_requested,
                       skip_boot_svc, todo, installed, past>>,
           msg' \in {msg, Response}, secret' \in BOOLEAN, faults' \in 0 .. MaxFaults,
           ram' \in BootData, bd' \in BootData, exposed' \in BOOLEAN
    PROVE  TInv'
<1>1. TypeOK'
    BY DEF TInv, TypeOK
<1>2. RamTypes' /\ MsgOK'
    BY CopiesKept DEF TInv, MsgOK
<1> QED
    BY <1>1, <1>2 DEF TInv

(* What the handlers of NextBl0Slot and MinBl0SecVer do: the slot and the  *)
(* minimum version change, in RAM or in flash too.                         *)
SlotOrVersion == boot_svc_next_boot_bl0_slot_handler \/ boot_svc_min_sec_ver_handler

LEMMA NextSlotLemma ==
    ASSUME TInv, boot_svc_next_boot_bl0_slot_handler
    PROVE  /\ ram' \in BootData /\ bd' \in BootData
           /\ ram'.state = ram.state /\ ram'.next_owner = ram.next_owner
           /\ bd' = bd \/ (bd'.state = ram.state /\ bd'.next_owner = ram.next_owner)
<1> DEFINE asked == [ram EXCEPT !.primary = IF msg.primary \in Slot THEN msg.primary ELSE @]
           next == [asked EXCEPT !.primary = IF msg.next \in Slot THEN msg.next ELSE @]
<1>1. bd' \in {bd, asked} /\ ram' \in {asked, next}
    BY DEF boot_svc_next_boot_bl0_slot_handler
<1>2. /\ asked \in BootData /\ asked.state = ram.state /\ asked.next_owner = ram.next_owner
      /\ next \in BootData /\ next.state = ram.state /\ next.next_owner = ram.next_owner
    BY DEF TInv, TypeOK, BootData
<1>3. bd \in BootData
    BY DEF TInv, TypeOK
<1> HIDE DEF asked, next
<1> QED
    BY <1>1, <1>2, <1>3

LEMMA MinSecLemma ==
    ASSUME TInv, boot_svc_min_sec_ver_handler
    PROVE  /\ ram' \in BootData /\ bd' \in BootData
           /\ ram'.state = ram.state /\ ram'.next_owner = ram.next_owner
           /\ bd' = bd \/ (bd'.state = ram.state /\ bd'.next_owner = ram.next_owner)
<1> DEFINE new == [ram EXCEPT !.min_sec = msg.version]
<1>1. msg.type = "MinBl0SecVer" /\ bd' \in {bd, new} /\ ram' \in {ram, new}
    BY DEF boot_svc_min_sec_ver_handler, Handles
<1>2. msg.version \in Nat
    <2>1. msg \notin {NoMsg, Response}
        BY <1>1 DEF NoMsg, Response
    <2> QED
        BY <1>1, <2>1, RomExtAssumption DEF TInv, MsgOK
<1>3. /\ new \in BootData /\ new.state = ram.state /\ new.next_owner = ram.next_owner
      /\ ram \in BootData /\ bd \in BootData
    BY <1>2 DEF TInv, TypeOK, BootData
<1> HIDE DEF new
<1> QED
    BY <1>1, <1>3

LEMMA SlotOrVersionLemma ==
    ASSUME TInv, SlotOrVersion
    PROVE  /\ pc = "svc" /\ pc' = "boot" /\ msg' \in {msg, Response}
           /\ faults' \in 0 .. MaxFaults
           /\ ram' \in BootData /\ bd' \in BootData
           /\ ram'.state = ram.state /\ ram'.next_owner = ram.next_owner
           /\ bd' = bd \/ (bd'.state = ram.state /\ bd'.next_owner = ram.next_owner)
           /\ UNCHANGED <<page, secret, owner_page, owner_page_valid, keyring,
                          rescue_requested, skip_boot_svc, todo, installed, past, exposed>>
<1>1. CASE boot_svc_next_boot_bl0_slot_handler
    BY <1>1, NextSlotLemma, RomExtAssumption
       DEF boot_svc_next_boot_bl0_slot_handler, Handles, boot, hist, TInv, TypeOK
<1>2. CASE boot_svc_min_sec_ver_handler
    BY <1>2, MinSecLemma, RomExtAssumption
       DEF boot_svc_min_sec_ver_handler, Handles, boot, hist, TInv, TypeOK
<1> QED
    BY <1>1, <1>2 DEF SlotOrVersion

LEMMA SlotOrVersionTypes == ASSUME TInv, SlotOrVersion PROVE TInv'
<1>1. secret' \in BOOLEAN /\ exposed' \in BOOLEAN
    BY SlotOrVersionLemma DEF TInv, TypeOK
<1> QED
    BY <1>1, SlotOrVersionLemma, SvcTypes

(* The handler of OwnershipUnlock keeps the types.                         *)
LEMMA UnlockTypes == ASSUME TInv, ownership_unlock_handler PROVE TInv'
<1>1. /\ msg.type = "OwnershipUnlock" /\ msg' = Response /\ pc' \in {"boot", "reboot"}
      /\ UNCHANGED <<bd, page, secret, owner_page, owner_page_valid, keyring,
                     rescue_requested, skip_boot_svc, todo, faults, installed, past>>
    BY DEF ownership_unlock_handler, Handles, nvm, boot
<1>2. /\ bd \in BootData /\ ram \in BootData /\ secret \in BOOLEAN /\ exposed \in BOOLEAN
      /\ faults \in 0 .. MaxFaults
    BY DEF TInv, TypeOK
<1>3. exposed' \in BOOLEAN
    <2>1. CASE exposed' = exposed
        BY <1>2, <2>1
    <2>2. CASE Exposes(msg.mode = "Abort" /\ ~ page[0].sealed)
        BY <2>2 DEF Exposes
    <2> QED
        BY <2>1, <2>2 DEF ownership_unlock_handler
<1>4. msg.mode = "Endorsed" => msg.next_owner \in Owner
    <2>1. msg \notin {NoMsg, Response}
        BY <1>1 DEF NoMsg, Response
    <2> QED
        BY <1>1, <2>1, RomExtAssumption DEF TInv, MsgOK
<1>5. ram' \in BootData
    <2>1. CASE ram' = ram
        BY <1>2, <2>1
    <2>2. CASE unlock_granted(msg, ram, owner_page) /\ ram' = Unlocked(msg, ram)
        BY <1>2, <1>4, <2>2, UnlockLemma
    <2> QED
        BY <2>1, <2>2 DEF ownership_unlock_handler
<1> QED
    BY <1>1, <1>2, <1>3, <1>5, SvcTypes

(* The handler of OwnershipActivate keeps the types: page 1 is one that    *)
(* was read as signed.                                                     *)
LEMMA ActivateTypes == ASSUME TInv, ownership_activate_handler PROVE TInv'
<1> USE DEF TInv
<1>1. UNCHANGED <<bd, page, secret, owner_page, owner_page_valid, keyring,
                  rescue_requested, skip_boot_svc, installed, past>>
    BY DEF ownership_activate_handler, nvm, boot
<1>2. CASE msg' = Response /\ pc' = "boot" /\ UNCHANGED <<ram, todo, faults, exposed>>
    BY <1>1, <1>2, SvcTypes DEF TypeOK
<1>3. CASE /\ activate_granted(msg, ram, owner_page, owner_page_valid)
           /\ ram' = IF owner_page[1].min_sec = -1 THEN ram
                     ELSE [ram EXCEPT !.min_sec = owner_page[1].min_sec]
           /\ \E x \in {Sealed(owner_page[1]), Signed(owner_page[1])} :
                /\ ownership_seal_page(owner_page[1], x)
                /\ todo' = ActivateOps(x)
           /\ pc' = "activate"
           /\ UNCHANGED msg
    <2>1. owner_page[1] \in Config
        BY <1>3 DEF activate_granted, owner_block_page1_valid_for_transfer, RamTypes
    <2>2. ram' \in BootData
        <3>1. owner_page[1].min_sec # -1 => owner_page[1].min_sec \in Nat
            BY <2>1 DEF Config
        <3> QED
            BY <1>3, <3>1, BootDataLemma DEF TypeOK
    <2>3. PICK x : ownership_seal_page(owner_page[1], x) /\ todo' = ActivateOps(x)
        BY <1>3
    <2>4. x \in FlashPage /\ faults' \in 0 .. MaxFaults /\ exposed' \in BOOLEAN
        BY <2>1, <2>3, SealLemma
    <2>5. todo' \in Seq(Op)
        BY <2>3, <2>4, ActivateOpsLemma, Zenon
    <2>6. TypeOK'
        BY <1>1, <1>3, <2>2, <2>4, <2>5 DEF TypeOK, Op
    <2>7. RamTypes' /\ MsgOK'
        BY <1>1, <1>3, <2>1 DEF RamTypes, MsgOK
    <2> QED
        BY <2>6, <2>7
<1> QED
    BY <1>2, <1>3 DEF ownership_activate_handler

(* The end of an activation: what it leaves in RAM and in flash.           *)
LEMMA ActivateDoneLemma ==
    ASSUME TInv, ActivateDone
    PROVE  /\ pc = "activate" /\ todo = <<>> /\ msg' = Response
           /\ \/ ram'.state = "LockedOwner" /\ pc' = "reboot"
              \/ /\ ram'.state = ram.state /\ ram'.next_owner = ram.next_owner
                 /\ pc' = "boot"
           /\ ram' \in BootData /\ secret' \in BOOLEAN /\ faults' \in 0 .. MaxFaults
           /\ UNCHANGED <<bd, page, owner_page, owner_page_valid, keyring,
                          rescue_requested, skip_boot_svc, todo, installed, past, exposed>>
<1> USE DEF TInv
<1> DEFINE ready == [ram EXCEPT !.primary = IF msg.primary = "B" THEN "B" ELSE "A"]
           locked == [ready EXCEPT !.state = "LockedOwner", !.nonce = @ + 1,
                                   !.next_owner = None]
<1>1. /\ pc = "activate" /\ todo = <<>> /\ msg' = Response
      /\ \/ ram' = locked /\ pc' = "reboot"
         \/ ram' = ready /\ pc' = "boot"
      /\ secret' \in BOOLEAN /\ faults' \in 0 .. MaxFaults
      /\ UNCHANGED <<bd, page, owner_page, owner_page_valid, keyring, rescue_requested,
                     skip_boot_svc, todo, installed, past, exposed>>
    BY RomExtAssumption DEF ActivateDone, boot, hist, TypeOK
<1>2. ready \in BootData /\ ready.state = ram.state /\ ready.next_owner = ram.next_owner
    BY DEF TypeOK, BootData, Slot
<1>3. ready.nonce \in Nat /\ ready.nonce + 1 \in Nat /\ "LockedOwner" \in OwnershipState
    BY <1>2 DEF BootData, OwnershipState
<1>4. locked \in BootData /\ locked.state = "LockedOwner"
    <2> HIDE DEF ready
    <2> QED
        BY <1>2, <1>3 DEF BootData
<1> HIDE DEF ready, locked
<1> QED
    BY <1>1, <1>2, <1>4

LEMMA ActivateDoneTypes == ASSUME TInv, ActivateDone PROVE TInv'
<1>1. bd' \in BootData /\ exposed' \in BOOLEAN
    BY ActivateDoneLemma DEF TInv, TypeOK
<1> QED
    BY <1>1, ActivateDoneLemma, SvcTypes

LEMMA RebootTypes == ASSUME TInv, WriteBootdataThenReboot PROVE TInv'
<1>1. /\ pc' = "halt" /\ WriteBootData(ram)
      /\ UNCHANGED <<page, secret, msg, ram, owner_page, owner_page_valid, keyring,
                     rescue_requested, skip_boot_svc, todo, installed, past, exposed>>
    BY DEF WriteBootdataThenReboot, boot, hist
<1>2. ram \in BootData /\ secret \in BOOLEAN /\ exposed \in BOOLEAN
    BY DEF TInv, TypeOK
<1>3. bd' \in BootData /\ faults' \in 0 .. MaxFaults
    BY <1>1, <1>2, WriteTypes DEF TInv
<1> QED
    BY <1>1, <1>2, <1>3, SvcTypes

(* Once the chip is off, only what is in flash and retention RAM counts.   *)
LEMMA OffTypes ==
    ASSUME SwitchOff, bd' \in BootData, page' \in [0 .. 1 -> FlashPage],
           secret' \in BOOLEAN, skip_boot_svc' \in BOOLEAN, faults' \in 0 .. MaxFaults,
           installed' \in Config, past' \subseteq Config, exposed' \in BOOLEAN, MsgOK'
    PROVE  TInv'
<1>1. TypeOK'
    <2>1. /\ owner_page' \in [0 .. 1 -> Config \cup {NoConfig}]
          /\ owner_page_valid' \in [0 .. 1 -> {"Sealed", "Signed", "Invalid"}]
          /\ keyring' \subseteq Owner
        BY DEF SwitchOff
    <2>2. todo' \in Seq([page : 0 .. 1, to : FlashPage])
        BY DEF SwitchOff
    <2>3. rescue_requested' \in BOOLEAN
        BY DEF SwitchOff
    <2> QED
        BY <2>1, <2>2, <2>3 DEF SwitchOff, TypeOK
<1>2. RamTypes'
    BY DEF SwitchOff, RamTypes
<1> QED
    BY <1>1, <1>2 DEF TInv

LEMMA ResetTypes == ASSUME TInv, Reset \/ HostResets PROVE TInv'
<1>1. /\ UNCHANGED <<bd, page, secret, faults, installed, past, exposed>>
      /\ skip_boot_svc' \in BOOLEAN /\ SwitchOff
    BY DEF Reset, HostResets, nvm, hist
<1>2. MsgOK'
    <2>1. CASE msg' \in {msg, NoMsg}
        BY <2>1 DEF TInv, MsgOK
    <2>2. ASSUME NEW n \in 0 .. bd.nonce, bd.nonce < MaxNonce, msg' \in Requests(n)
          PROVE  MsgOK'
        <3>1. n \in 0 .. MaxNonce
            BY <2>2, RomExtAssumption DEF TInv, TypeOK, BootData
        <3> QED
            BY <2>2, <3>1 DEF MsgOK
    <2> QED
        BY <2>1, <2>2 DEF Reset, HostResets
<1> QED
    BY <1>1, <1>2, OffTypes DEF TInv, TypeOK

(* A cut may leave the boot data written or not, and a torn page.          *)
LEMMA CutTypes ==
    ASSUME TInv, Cut
    PROVE  TInv' /\ bd' \in BootData /\ page' \in [0 .. 1 -> FlashPage] /\ exposed' = exposed
<1> USE DEF TInv
<1>1. /\ skip_boot_svc' = FALSE /\ SwitchOff /\ faults' \in 0 .. MaxFaults
      /\ msg' \in {msg, NoMsg} /\ exposed' = exposed /\ exposed \in BOOLEAN
    BY RomExtAssumption DEF Cut, TypeOK
<1>2. secret' \in BOOLEAN
    BY DEF Cut, TypeOK
<1>3. MsgOK'
    BY <1>1 DEF MsgOK
<1>4. bd' \in BootData
    BY DEF Cut, TypeOK
<1>5. page' \in [0 .. 1 -> FlashPage]
    <2>1. CASE todo = <<>>
        BY <2>1 DEF Cut, TypeOK
    <2>2. CASE todo # <<>>
        BY <2>2, AfterTypes DEF Cut
    <2> QED
        BY <2>1, <2>2
<1>6. installed' \in Config /\ past' \subseteq Config
    BY <1>5, RecordTypes DEF Cut
<1> QED
    BY <1>1, <1>2, <1>3, <1>4, <1>5, <1>6, OffTypes

LEMMA HostWriteTypes ==
    ASSUME TInv, HostWritesPage1
    PROVE  TInv' /\ page'[0] = page[0]
<1> USE DEF TInv
<1>1. UNCHANGED <<bd, secret, msg, pc, ram, owner_page, owner_page_valid, keyring,
                  rescue_requested, skip_boot_svc, todo, faults, installed, past, exposed>>
    BY DEF HostWritesPage1, boot, hist
<1>2. PICK x \in {Signed(c) : c \in Configs} \cup {Sealed(c) : c \in past} \cup {Bad} :
         page' = [page EXCEPT ![1] = x]
    BY DEF HostWritesPage1
<1>3. x \in FlashPage
    BY PageLemma, RomExtAssumption DEF TypeOK
<1>4. page' \in [0 .. 1 -> FlashPage] /\ page'[0] = page[0]
    BY <1>2, <1>3 DEF TypeOK
<1>5. TypeOK'
    BY <1>1, <1>4 DEF TypeOK
<1>6. MsgOK' /\ RamTypes'
    BY <1>1 DEF MsgOK, RamTypes
<1> QED
    BY <1>4, <1>5, <1>6

LEMMA PageLostTypes == ASSUME TInv, PageLost PROVE TInv'
<1> USE DEF TInv
<1>1. /\ faults' \in 0 .. MaxFaults
      /\ UNCHANGED <<bd, secret, msg, pc, ram, owner_page, owner_page_valid, keyring,
                     rescue_requested, skip_boot_svc, todo, installed, past>>
    BY RomExtAssumption DEF PageLost, boot, TypeOK
<1>2. PICK p \in 0 .. 1 : /\ page' = [page EXCEPT ![p] = Bad]
                          /\ Exposes(bd.state = "LockedOwner" /\ OnlyCopy(p))
    BY DEF PageLost
<1>3. page' \in [0 .. 1 -> FlashPage]
    BY <1>2, PageLemma DEF TypeOK
<1>4. exposed' \in BOOLEAN
    BY <1>2 DEF Exposes
<1>5. TypeOK'
    BY <1>1, <1>3, <1>4 DEF TypeOK
<1>6. MsgOK' /\ RamTypes'
    BY <1>1 DEF MsgOK, RamTypes
<1> QED
    BY <1>5, <1>6

(* TInv is inductive by itself: the types hold in every history, after the *)
(* three faults of Exposes too.                                            *)
LEMMA StepTInv == TInv /\ [Next]_vars => TInv'
<1> SUFFICES ASSUME TInv, [Next]_vars PROVE TInv'
    OBVIOUS
<1>1. CASE UNCHANGED vars
    BY <1>1 DEF vars, TInv, TypeOK, MsgOK, RamTypes
<1>2. CASE Boot
    BY <1>2, PowerOnTypes, LockedInitTypes, UnlockedInitTypes, MoveOnTypes,
       OperateTypes, NewVersionDoneTypes, FixDoneTypes, SlotOrVersionTypes,
       UnlockTypes, ActivateTypes, ActivateDoneTypes, RebootTypes, ResetTypes
       DEF Boot, MovesOn, SlotOrVersion
<1>3. CASE OperateFails \/ Cut \/ PageLost \/ HostWritesPage1 \/ HostResets
    BY <1>3, OperateFailsTypes, CutTypes, PageLostTypes, HostWriteTypes, ResetTypes
<1> QED
    BY <1>1, <1>2, <1>3 DEF Next

-----------------------------------------------------------------------------
(* A chip leaves provisioning locked, with both pages sealed.              *)
LEMMA InitSInv == Init => SInv
<1> SUFFICES ASSUME Init PROVE SInv
    OBVIOUS
<1>1. PageZero /\ Backup
    BY RomExtAssumption, PageLemma DEF Init, PageZero, Backup
<1>2. RamState /\ RamPages /\ UnderWay
    BY DEF Init, RamState, RamPages, UnderWay
<1> QED
    BY <1>1, <1>2 DEF SInv

(* What is not in flash does not bear on page 0 and its backup.            *)
LEMMA FlashFrame ==
    ASSUME PageZero, Backup, UNCHANGED <<bd, page, installed>>
    PROVE  PageZero' /\ Backup'
BY DEF PageZero, Backup, Successor

(* rom_ext_init and the reads of ownership_init keep the owner.            *)
LEMMA PowerOnStep == ASSUME TInv, SInv, PowerOn PROVE SInv'
<1> USE DEF TInv, SInv
<1>1. /\ owner_page' = [p \in 0 .. 1 |-> page[p].config]
      /\ owner_page_valid' = [p \in 0 .. 1 |-> owner_page_validity_check(page[p])]
      /\ ram' = bd /\ pc' = "init" /\ todo' = todo /\ pc = "off"
      /\ UNCHANGED <<bd, page, installed>>
    BY DEF PowerOn, nvm, hist
<1>2. PageZero' /\ Backup'
    BY <1>1, FlashFrame
<1>3. PagesRead'
    BY <1>1 DEF PagesRead
<1>4. RamState' /\ RamPages' /\ UnderWay'
    BY <1>1, <1>3 DEF RamState, RamPages, UnderWay
<1> QED
    BY <1>2, <1>4

(* The steps that only move on keep it.                                    *)
LEMMA MoveOnStep == ASSUME TInv, SInv, MovesOn PROVE SInv'
<1> USE DEF TInv, SInv
<1>1. /\ UNCHANGED <<bd, page, ram, owner_page, owner_page_valid, todo, installed>>
      /\ \/ pc = "init" /\ pc' = "svc" /\ ram.state = "Recovery"
         \/ pc = "svc" /\ pc' = "boot"
         \/ pc = "boot" /\ pc' \in {"rescue", "run", "halt"}
    BY MoveOnLemma
<1>2. PageZero' /\ Backup'
    BY <1>1, FlashFrame
<1>3. RamState'
    BY <1>1 DEF RamState
<1>4. RamPages'
    BY <1>1 DEF RamPages, RamState, PagesRead, UnlockedState
<1>5. UnderWay'
    BY <1>1 DEF UnderWay
<1> QED
    BY <1>2, <1>3, <1>4, <1>5

(* The half of locked_owner_init that restores the backup keeps the owner: *)
(* with both pages good it goes on, and the page it copies is sealed.      *)
LEMMA RedundancyFixStep ==
    ASSUME TInv, SInv, NEW valid \in [0 .. 1 -> {"Sealed", "Signed", "Invalid"}],
           pc \in {"init", "newversion"}, bd.state = "LockedOwner",
           todo = <<>>,
           valid[0] = "Sealed" => page[0] = Sealed(owner_page[0]),
           valid[1] = "Sealed" => page[1] = Sealed(owner_page[1]),
           valid[0] # "Sealed" /\ valid[1] = "Sealed" =>
              Successor(installed, owner_page[1]),
           RedundancyFix(owner_page, valid),
           UNCHANGED <<page, ram, installed>>
    PROVE  SInv'
<1> USE DEF TInv, SInv
<1>1. /\ owner_page \in [0 .. 1 -> Config \cup {NoConfig}]
      /\ \A p \in 0 .. 1 : valid[p] = "Sealed" => /\ page[p] = Sealed(owner_page[p])
                                                  /\ page[p].sealed
                                                  /\ owner_page[p] \in Config
    BY PageLemma DEF TypeOK
<1>2. bd' = bd /\ owner_page_valid' = valid
    BY DEF RedundancyFix
<1>3. PageZero' /\ Backup'
    BY <1>2, FlashFrame
<1>4. ram.state = "LockedOwner" /\ ram.next_owner = bd.next_owner
    BY DEF RamState
<1>5. CASE /\ valid[0] = "Sealed" /\ owner_page' = owner_page
           /\ pc' = "svc" /\ todo' = todo
    <2>1. RamState' /\ RamPages' /\ UnderWay'
        BY <1>1, <1>2, <1>4, <1>5
           DEF RamState, RamPages, UnderWay, UnlockedState
    <2> QED
        BY <1>3, <2>1
<1>6. ASSUME NEW p \in 0 .. 1,
             valid[p] = "Sealed" /\ valid[1 - p] # "Sealed",
             owner_page' = [owner_page EXCEPT ![1 - p] = owner_page[p]],
             todo' = Rewrite(1 - p, page[p]),
             pc' = "fix"
      PROVE  SInv'
    <2>1. 1 - p \in 0 .. 1
        OBVIOUS
    <2>2. owner_page'[0] = owner_page[p] /\ owner_page'[1] = owner_page[p]
        BY <1>1, <1>6
    <2>3. RamState' /\ RamPages'
        BY <1>2, <1>4, <1>6 DEF RamState, RamPages
    <2>4. /\ page'[p] = Sealed(owner_page'[p])
          /\ Rewriting(1 - p, owner_page[p])'
          /\ p = 1 => /\ owner_page_valid'[0] # "Sealed"
                      /\ Successor(installed, owner_page[1])
        BY <1>1, <1>2, <1>6, <2>2 DEF Rewriting
    <2>5. UnderWay'
        <3>1. /\ bd'.state = "LockedOwner"
              /\ owner_page'[0] = owner_page'[1]
            BY <1>2, <2>2
        <3>2. p = 1 => /\ owner_page_valid'[0] # "Sealed"
                       /\ Successor(installed, owner_page[1])'
            BY <2>2, <2>4 DEF Successor
        <3> QED
            BY <1>6, <2>4, <3>1, <3>2 DEF UnderWay
    <2> QED
        BY <1>3, <2>3, <2>5
<1> QED
    BY <1>5, <1>6 DEF RedundancyFix

(* locked_owner_init keeps the owner, unless a seal fails.  Its way to     *)
(* Recovery is closed: a chip without page 0 has a sealed page 1.          *)
LEMMA LockedInitStep ==
    ASSUME TInv, SInv, locked_owner_init, ~ exposed' PROVE SInv'
<1> USE DEF TInv, SInv
<1>1. /\ pc = "init" /\ ram.state = "LockedOwner" /\ bd.state = "LockedOwner"
      /\ ram.next_owner = bd.next_owner
      /\ UNCHANGED <<page, installed>>
    BY DEF locked_owner_init, RamState
<1>2. \A p \in 0 .. 1 : /\ owner_page[p] = page[p].config
                        /\ owner_page_valid[p] = owner_page_validity_check(page[p])
                        /\ page[p] \in FlashPage
    BY <1>1 DEF RamPages, PagesRead, TypeOK
<1>3. /\ owner_page_valid[0] = "Sealed" =>
           page[0] = Sealed(owner_page[0]) /\ owner_page[0] = installed
      /\ owner_page_valid[1] = "Sealed" => page[1] = Sealed(owner_page[1])
      /\ owner_page_valid[0] # "Sealed" =>
           owner_page_valid[1] = "Sealed" /\ Successor(installed, owner_page[1])
    BY <1>1, <1>2, PageLemma DEF PageZero, Backup
<1>4. todo = <<>>
    BY <1>1 DEF UnderWay
<1>5. CASE /\ newversion_update(owner_page, owner_page_valid)
           /\ ram' = IF owner_page[1].min_sec = -1 THEN ram
                     ELSE [ram EXCEPT !.min_sec = owner_page[1].min_sec]
           /\ \E x \in {Sealed(owner_page[1]), Signed(owner_page[1])} :
                /\ ownership_seal_page(owner_page[1], x)
                /\ todo' = Rewrite(1, x)
           /\ pc' = "newversion"
           /\ UNCHANGED <<bd, owner_page, owner_page_valid, keyring>>
    <2>1. owner_page[1] \in Config
        BY <1>2, <1>5, PageLemma DEF newversion_update
    <2>2. ram'.state = ram.state /\ ram'.next_owner = ram.next_owner
        BY <1>5 DEF TypeOK, BootData
    <2>3. PICK x : ownership_seal_page(owner_page[1], x) /\ todo' = Rewrite(1, x)
        BY <1>5
    <2>4. todo' = Rewrite(1, Sealed(owner_page[1]))
        BY <2>1, <2>3, SealLemma
    <2>5. PageZero' /\ Backup'
        BY <1>1, <1>5, FlashFrame
    <2>6. RamState' /\ RamPages'
        BY <1>1, <1>5, <2>2 DEF RamState, RamPages
    <2>7. Successor(installed, owner_page[1])
        BY <1>3, <1>5 DEF Successor, newversion_update, owner_block_newversion_mode
    <2>8. owner_page_valid[0] = "Sealed" /\ page[0].sealed
        BY <1>3, <1>5, PageLemma DEF newversion_update
    <2>9. UnderWay'
        BY <1>1, <1>3, <1>5, <2>1, <2>4, <2>7, <2>8 DEF UnderWay, Rewriting, Successor
    <2> QED
        BY <2>5, <2>6, <2>9
<1>6. CASE RedundancyFix(owner_page, owner_page_valid) /\ UNCHANGED ram
    <2>1. owner_page_valid \in [0 .. 1 -> {"Sealed", "Signed", "Invalid"}]
        BY DEF TypeOK
    <2> QED
        BY <1>1, <1>3, <1>4, <1>6, <2>1, RedundancyFixStep
<1>7. ~ \A p \in 0 .. 1 : owner_page_valid[p] # "Sealed"
    BY <1>3
<1> QED
    BY <1>5, <1>6, <1>7 DEF locked_owner_init

(* unlocked_init keeps it, Recovery for want of page 0 included.           *)
LEMMA UnlockedInitStep == ASSUME TInv, SInv, unlocked_init PROVE SInv'
<1> USE DEF TInv, SInv
<1>1. /\ pc = "init" /\ ram.state \in UnlockedState /\ bd.state = ram.state
      /\ ram.next_owner = bd.next_owner
      /\ pc' = "svc" /\ todo = <<>> /\ todo' = todo
      /\ UNCHANGED <<page, owner_page, owner_page_valid, installed>>
    BY DEF unlocked_init, RamState, UnderWay, hist
<1>2. PagesRead
    BY <1>1 DEF RamPages
<1>3. UnderWay'
    BY <1>1 DEF UnderWay
<1>4. CASE ram' = GoToRecovery /\ WriteBootData(GoToRecovery)
    <2>1. /\ GoToRecovery \in BootData /\ GoToRecovery.state = "Recovery"
          /\ GoToRecovery.next_owner = ram.next_owner
        BY BootDataLemma
    <2>2. bd' \in {bd, GoToRecovery}
        BY <1>4, <2>1, WriteTypes
    <2>3. bd'.state # "LockedOwner"
        BY <1>1, <2>1, <2>2 DEF UnlockedState
    <2>4. PageZero' /\ Backup'
        BY <1>1, <2>3 DEF PageZero, Backup
    <2>5. RamState' /\ RamPages'
        BY <1>1, <1>4, <2>1, <2>2, <2>3 DEF RamState, RamPages, UnlockedState
    <2> QED
        BY <1>3, <2>4, <2>5
<1>5. CASE /\ ~ (ram.state = "UnlockedSelf" /\ owner_page_valid[0] # "Sealed")
           /\ UNCHANGED <<bd, ram>>
    <2>1. PageZero' /\ Backup'
        BY <1>1, <1>5, FlashFrame
    <2>2. ram.state = "UnlockedSelf" => page[0].sealed
        BY <1>2, <1>5, PageLemma DEF PagesRead, TypeOK
    <2>3. RamState' /\ RamPages'
        BY <1>1, <1>2, <1>5, <2>2 DEF RamState, RamPages, PagesRead, UnlockedState
    <2> QED
        BY <1>3, <2>1, <2>3
<1> QED
    BY <1>4, <1>5 DEF unlocked_init

(* The operation under way erases page p or writes c to it, sealed, and    *)
(* what the place in the boot says about p and c.                          *)
LEMMA HeadLemma ==
    ASSUME TInv, SInv, todo # <<>>
    PROVE  \E p \in 0 .. 1, c \in Config :
             /\ Head(todo) \in {Erase(p), Write(p, Sealed(c))}
             /\ \/ /\ pc = "newversion" /\ p = 1
                \/ /\ pc = "fix" /\ page[1 - p] = Sealed(c)
                   /\ p = 0 => /\ Successor(installed, c)
                               /\ owner_page_valid[0] # "Sealed"
                \/ /\ pc = "activate" /\ bd.state \in UnlockedState
                   /\ bd.state = "UnlockedSelf" => c.owner = installed.owner
                   /\ bd.state = "UnlockedEndorsed" => c.owner = bd.next_owner
<1> USE DEF TInv, SInv
<1>1. ASSUME NEW p \in 0 .. 1, NEW c \in Config, Rewriting(p, c)
      PROVE  Head(todo) \in {Erase(p), Write(p, Sealed(c))}
    <2>1. Sealed(c) \in FlashPage
        BY PageLemma
    <2> QED
        BY <1>1, <2>1, OpsLemma DEF Rewriting
<1>2. CASE pc = "newversion"
    <2>1. owner_page[1] \in Config /\ Rewriting(1, owner_page[1]) /\ 1 \in 0 .. 1
        BY <1>2 DEF UnderWay, RamTypes
    <2> QED
        BY <1>1, <1>2, <2>1
<1>3. CASE pc = "fix"
    <2>1. PICK p \in 0 .. 1 : /\ page[p] = Sealed(owner_page[p])
                              /\ p = 1 => /\ Successor(installed, owner_page[1])
                                          /\ owner_page_valid[0] # "Sealed"
                              /\ Rewriting(1 - p, owner_page[p])
        BY <1>3 DEF UnderWay
    <2>2. owner_page[p] \in Config
        BY <1>3 DEF RamTypes
    <2>3. 1 - p \in 0 .. 1 /\ 1 - (1 - p) = p /\ (1 - p = 0 => p = 1)
        OBVIOUS
    <2>4. Head(todo) \in {Erase(1 - p), Write(1 - p, Sealed(owner_page[p]))}
        BY <1>1, <2>1, <2>2, <2>3
    <2> QED
        BY <1>3, <2>1, <2>2, <2>3, <2>4
<1>4. CASE pc = "activate"
    <2> DEFINE pg == Sealed(owner_page[1])
    <2>1. /\ owner_page[1] \in Config /\ 0 \in 0 .. 1 /\ 1 \in 0 .. 1
          /\ bd.state \in UnlockedState
          /\ bd.state = "UnlockedSelf" => owner_page[1].owner = installed.owner
          /\ bd.state = "UnlockedEndorsed" => owner_page[1].owner = bd.next_owner
        BY <1>4 DEF UnderWay, RamTypes
    <2>2. pg \in FlashPage
        BY <2>1, PageLemma
    <2>3. \/ Head(todo) \in {Erase(1), Write(1, pg)}
          \/ Head(todo) \in {Erase(0), Write(0, pg)}
        <3>1. CASE todo = ActivateOps(pg)
            BY <2>2, <3>1, ActivateOpsLemma
        <3>2. CASE todo = <<Write(1, pg)>> \o Rewrite(0, pg)
            BY <2>2, <3>2, ActivateOpsLemma
        <3>3. CASE Rewriting(0, owner_page[1])
            BY <1>1, <2>1, <3>3
        <3> QED
            BY <1>4, <3>1, <3>2, <3>3 DEF UnderWay
    <2> QED
        BY <1>4, <2>1, <2>3
<1> QED
    BY <1>2, <1>3, <1>4 DEF UnderWay

(* Whatever an operation under way leaves of its page, torn ones that lost *)
(* their seal included, an owned chip keeps a sealed page, and what comes  *)
(* to be sealed in page 0 was permitted.                                   *)
LEMMA PageChange ==
    ASSUME TInv, SInv, todo # <<>>, page' \in PageAfter(Head(todo)), Record,
           bd' = bd
    PROVE  /\ PageZero' /\ Backup'
           /\ page'[0].sealed => Permitted(installed, page'[0].config)
           /\ pc = "newversion" => page'[0] = page[0] /\ installed' = installed
           /\ pc = "fix" /\ owner_page_valid[0] = "Sealed" => page'[0].sealed
<1> USE DEF TInv, SInv
<1>0. installed' = IF page'[0].sealed THEN page'[0].config ELSE installed
    BY DEF Record
<1>1. PICK p \in 0 .. 1, c \in Config :
         /\ Head(todo) \in {Erase(p), Write(p, Sealed(c))}
         /\ \/ /\ pc = "newversion" /\ p = 1
            \/ /\ pc = "fix" /\ page[1 - p] = Sealed(c)
               /\ p = 0 => /\ Successor(installed, c)
                           /\ owner_page_valid[0] # "Sealed"
            \/ /\ pc = "activate" /\ bd.state \in UnlockedState
               /\ bd.state = "UnlockedSelf" => c.owner = installed.owner
               /\ bd.state = "UnlockedEndorsed" => c.owner = bd.next_owner
    BY HeadLemma
<1>2. Head(todo).page = p /\ Head(todo).to \in {Bad, Sealed(c)}
    <2>1. Sealed(c) \in FlashPage
        BY PageLemma
    <2> QED
        BY <1>1, <2>1, OpsLemma
<1>3. PICK x : /\ page' = [page EXCEPT ![p] = x]
               /\ x \in {page[p], Bad, Sealed(c)} \/ x.sealed = FALSE
    <2>1. PICK x \in {page[p], Bad, Head(todo).to, Signed(page[p].config),
                      Signed(Head(todo).to.config)} : page' = [page EXCEPT ![p] = x]
        BY <1>2 DEF PageAfter
    <2>2. \A d : Signed(d).sealed = FALSE
        BY PageLemma
    <2>3. x \in {page[p], Bad, Sealed(c)} \/ x.sealed = FALSE
        BY <1>2, <2>1, <2>2
    <2> QED
        BY <2>1, <2>3
<1>4. page \in [0 .. 1 -> FlashPage]
    BY DEF TypeOK
<1>5. page'[p] = x /\ page'[1 - p] = page[1 - p]
    BY <1>3, <1>4
<1>6. CASE p = 1
    <2>1. page'[0] = page[0]
        BY <1>5, <1>6
    <2>2. installed' = installed /\ PageZero'
        BY <1>0, <2>1, PageLemma DEF PageZero
    <2>3. Backup'
        <3>1. CASE pc = "newversion"
            BY <2>1, <3>1 DEF UnderWay, Backup
        <3>2. CASE pc = "fix"
            <4>1. 1 - p = 0
                BY <1>6
            <4>2. page[0] = Sealed(c)
                BY <1>1, <3>2, <4>1
            <4>3. page'[0].sealed
                BY <2>1, <4>2, PageLemma
            <4> QED
                BY <4>3 DEF Backup
        <3>3. CASE pc = "activate"
            BY <1>1, <3>3 DEF Backup, UnlockedState
        <3> QED
            BY <1>1, <3>1, <3>2, <3>3
    <2>4. page'[0].sealed => Permitted(installed, page'[0].config)
        BY <2>1, PageLemma DEF PageZero, Permitted
    <2>5. pc = "fix" => page'[0].sealed
        <3>1. 1 - p = 0
            BY <1>6
        <3> QED
            BY <1>1, <2>1, <3>1, PageLemma
    <2> QED
        BY <2>1, <2>2, <2>3, <2>4, <2>5
<1>7. CASE p = 0
    <2>1. /\ page'[0] \in {page[0], Bad, Sealed(c)} \/ page'[0].sealed = FALSE
          /\ page'[1] = page[1]
        BY <1>3, <1>5, <1>7
    <2>2. PageZero' /\ (page'[0].sealed => page'[0].config \in {installed, c})
        BY <1>0, <2>1, PageLemma DEF PageZero
    <2>3. pc # "newversion"
        BY <1>1, <1>7
    <2>4. CASE pc = "fix"
        <3>1. /\ page[1] = Sealed(c) /\ Successor(installed, c)
              /\ owner_page_valid[0] # "Sealed"
            BY <1>1, <1>7, <2>4
        <3>2. bd.state = "LockedOwner"
            BY <2>4 DEF UnderWay
        <3>3. page'[0].sealed => Permitted(installed, page'[0].config)
            BY <2>2, <3>1, <3>2 DEF Permitted, Successor
        <3>4. Backup'
            <4>1. CASE ~ page'[0].sealed
                <5>1. installed' = installed
                    BY <1>0, <4>1
                <5>2. page'[1].sealed /\ page'[1].config = c
                    BY <2>1, <3>1, PageLemma
                <5> QED
                    BY <3>1, <5>1, <5>2 DEF Backup, Successor
            <4>2. CASE page'[0].sealed
                BY <4>2 DEF Backup
            <4> QED
                BY <4>1, <4>2
        <3> QED
            BY <2>2, <2>3, <3>1, <3>3, <3>4
    <2>5. CASE pc = "activate"
        <3>1. Backup'
            BY <1>1, <2>5 DEF Backup, UnlockedState
        <3>2. page'[0].sealed => Permitted(installed, page'[0].config)
            BY <1>1, <2>2, <2>5 DEF Permitted, UnlockedState
        <3> QED
            BY <2>2, <2>3, <2>5, <3>1, <3>2
    <2> QED
        BY <1>1, <2>3, <2>4, <2>5
<1> QED
    BY <1>6, <1>7

(* One operation of a rewrite takes it one step on.                        *)
LEMMA RewritingLemma ==
    ASSUME NEW p \in 0 .. 1, NEW c \in Config, Rewriting(p, c), todo # <<>>,
           page \in [0 .. 1 -> FlashPage],
           page' = [page EXCEPT ![Head(todo).page] = Head(todo).to],
           todo' = Tail(todo)
    PROVE  /\ todo' = <<Write(p, Sealed(c))>> \/ (todo' = <<>> /\ page'[p] = Sealed(c))
           /\ page'[p] \in {Bad, Sealed(c)}
           /\ page'[1 - p] = page[1 - p]
<1>0. Sealed(c) \in FlashPage
    BY PageLemma
<1>1. Head(todo).page = p =>
         page'[p] = Head(todo).to /\ page'[1 - p] = page[1 - p]
    <2>1. 1 - p \in 0 .. 1 /\ 1 - p # p
        OBVIOUS
    <2> QED
        BY <2>1
<1>2. CASE todo = Rewrite(p, Sealed(c))
    <2>1. Head(todo) = Erase(p) /\ todo' = <<Write(p, Sealed(c))>>
        BY <1>0, <1>2, OpsLemma
    <2>2. Erase(p).page = p /\ Erase(p).to = Bad
        BY DEF Erase
    <2> QED
        BY <1>1, <2>1, <2>2
<1>3. CASE todo = <<Write(p, Sealed(c))>>
    <2>1. Head(todo).page = p /\ Head(todo).to = Sealed(c) /\ todo' = <<>>
        BY <1>0, <1>3, OpsLemma
    <2> QED
        BY <1>1, <2>1
<1> QED
    BY <1>2, <1>3 DEF Rewriting

(* An operation on an owner page keeps the owner: the rewrite or the       *)
(* activation it belongs to is one step further.                           *)
LEMMA OperateStep == ASSUME TInv, SInv, Operate PROVE SInv'
<1> USE DEF TInv, SInv
<1>1. /\ todo # <<>> /\ todo' = Tail(todo) /\ Record
      /\ page' = [page EXCEPT ![Head(todo).page] = Head(todo).to]
      /\ installed' = IF page'[0].sealed THEN page'[0].config ELSE installed
      /\ UNCHANGED <<bd, pc, ram, owner_page, owner_page_valid>>
      /\ page \in [0 .. 1 -> FlashPage]
    BY DEF Operate, Record, boot, TypeOK
<1>2. page' \in PageAfter(Head(todo))
    BY <1>1 DEF PageAfter
<1>3. /\ PageZero' /\ Backup'
      /\ pc = "newversion" => page'[0] = page[0] /\ installed' = installed
    BY <1>1, <1>2, PageChange
<1>5. pc \in {"newversion", "fix", "activate"}
    BY <1>1 DEF UnderWay
<1>6. RamState' /\ RamPages'
    BY <1>1, <1>5 DEF RamState, RamPages
<1>7. CASE pc = "newversion"
    <2>1. /\ bd.state = "LockedOwner"
          /\ page[0].sealed /\ owner_page[0] = installed
          /\ owner_page_valid[0] = "Sealed"
          /\ owner_page[1] \in Config /\ Successor(installed, owner_page[1])
          /\ Rewriting(1, owner_page[1]) /\ 1 \in 0 .. 1
        BY <1>7 DEF UnderWay, RamTypes
    <2>2. Rewriting(1, owner_page[1])'
        BY <1>1, <2>1, RewritingLemma DEF Rewriting
    <2> QED
        BY <1>1, <1>3, <1>6, <1>7, <2>1, <2>2 DEF UnderWay, Successor
<1>8. CASE pc = "fix"
    <2>1. /\ bd.state = "LockedOwner"
          /\ owner_page[0] = owner_page[1]
        BY <1>8 DEF UnderWay
    <2>2. PICK p \in 0 .. 1 :
              /\ page[p] = Sealed(owner_page[p])
              /\ p = 1 => /\ owner_page_valid[0] # "Sealed"
                          /\ Successor(installed, owner_page[1])
              /\ Rewriting(1 - p, owner_page[p])
        BY <1>8 DEF UnderWay
    <2>3. /\ owner_page[p] \in Config /\ 1 - p \in 0 .. 1 /\ 1 - (1 - p) = p
          /\ owner_page[p] = owner_page[1]
        BY <1>8, <2>1 DEF RamTypes
    <2>4. /\ \/ todo' = <<Write(1 - p, Sealed(owner_page[p]))>>
             \/ todo' = <<>> /\ page'[1 - p] = Sealed(owner_page[p])
          /\ page'[1 - p] \in {Bad, Sealed(owner_page[p])}
          /\ page'[p] = page[p]
        BY <1>1, <2>2, <2>3, RewritingLemma
    <2>5. /\ page'[p] = Sealed(owner_page[p])'
          /\ Rewriting(1 - p, owner_page[p])'
        BY <1>1, <2>2, <2>4 DEF Rewriting
    <2>6. p = 1 => Successor(installed, owner_page[1])'
        <3> SUFFICES ASSUME p = 1 PROVE Successor(installed, owner_page[1])'
            OBVIOUS
        <3>1. page'[0] \in {Bad, Sealed(owner_page[1])}
            BY <2>4
        <3>2. installed' \in {installed, owner_page[1]}
            BY <1>1, <3>1, PageLemma
        <3> QED
            BY <1>1, <2>2, <3>2 DEF Successor
    <2>7. UnderWay'
        BY <1>1, <1>8, <2>1, <2>2, <2>5, <2>6 DEF UnderWay
    <2> QED
        BY <1>3, <1>6, <2>7
<1>9. CASE pc = "activate"
    <2> DEFINE c == owner_page[1]
    <2>1. /\ bd.state \in UnlockedState /\ c \in Config
          /\ bd.state = "UnlockedSelf" => c.owner = installed.owner
          /\ bd.state = "UnlockedEndorsed" => c.owner = bd.next_owner
          /\ 0 \in 0 .. 1 /\ Sealed(c) \in FlashPage
        BY <1>9, PageLemma DEF UnderWay, RamTypes
    <2>2. c' = c
        BY <1>1
    <2>3. /\ \/ todo' = <<Write(1, Sealed(c))>> \o Rewrite(0, Sealed(c))
             \/ todo' = Rewrite(0, Sealed(c))
             \/ todo' = <<Write(0, Sealed(c))>>
             \/ todo' = <<>> /\ page'[0] = Sealed(c)
          /\ page'[0] \in {page[0], Bad, Sealed(c)}
        <3>1. Head(todo).page = 1 => page'[0] = page[0]
            BY <1>1
        <3>2. CASE todo = ActivateOps(Sealed(c))
            <4>1. /\ Head(todo) = Erase(1)
                  /\ todo' = <<Write(1, Sealed(c))>> \o Rewrite(0, Sealed(c))
                BY <1>1, <2>1, <3>2, ActivateOpsLemma
            <4> QED
                BY <3>1, <4>1 DEF Erase
        <3>3. CASE todo = <<Write(1, Sealed(c))>> \o Rewrite(0, Sealed(c))
            <4>1. Head(todo) = Write(1, Sealed(c)) /\ todo' = Rewrite(0, Sealed(c))
                BY <1>1, <2>1, <3>3, ActivateOpsLemma
            <4> QED
                BY <3>1, <4>1 DEF Write
        <3>4. CASE Rewriting(0, c)
            BY <1>1, <2>1, <3>4, RewritingLemma
        <3> QED
            BY <1>9, <3>2, <3>3, <3>4 DEF UnderWay
    <2>4. installed' \in {installed, c}
        BY <1>1, <2>3, PageLemma DEF PageZero
    <2>5. UnderWay'
        BY <1>1, <1>9, <2>1, <2>2, <2>3, <2>4 DEF UnderWay, Rewriting
    <2> QED
        BY <1>3, <1>6, <2>5
<1> QED
    BY <1>5, <1>7, <1>8, <1>9

(* A failing operation keeps it: a new version that could not be written   *)
(* is replaced by page 0 again.                                            *)
LEMMA OperateFailsStep == ASSUME TInv, SInv, OperateFails PROVE SInv'
<1> USE DEF TInv, SInv
<1>1. /\ todo # <<>> /\ page' \in PageAfter(Head(todo)) /\ Record
      /\ UNCHANGED <<bd, ram, owner_page_valid>>
    BY DEF OperateFails
<1>2. /\ PageZero' /\ Backup'
      /\ pc = "newversion" => page'[0] = page[0] /\ installed' = installed
      /\ pc = "fix" /\ owner_page_valid[0] = "Sealed" => page'[0].sealed
    BY <1>1, PageChange
<1>3. CASE /\ pc = "newversion"
           /\ owner_page' = [owner_page EXCEPT ![1] = owner_page[0]]
           /\ todo' = Rewrite(1, page[0])
           /\ pc' = "fix"
    <2>1. /\ bd.state = "LockedOwner" /\ page[0].sealed /\ owner_page[0] = installed
        BY <1>3 DEF UnderWay
    <2>2. page[0] = Sealed(owner_page[0])
        BY <2>1 DEF PageZero
    <2>3. owner_page'[0] = owner_page[0] /\ owner_page'[1] = owner_page[0]
        BY <1>3 DEF TypeOK
    <2>4. RamState' /\ RamPages'
        BY <1>1, <1>3 DEF RamState, RamPages
    <2>5. UnderWay'
        <3>1. /\ page'[0] = Sealed(owner_page'[0])
              /\ Rewriting(1 - 0, owner_page[0])'
            BY <1>2, <1>3, <2>2, <2>3 DEF Rewriting
        <3>2. bd'.state = "LockedOwner" /\ owner_page'[0] = owner_page'[1]
            BY <1>1, <2>1, <2>3
        <3> QED
            BY <1>3, <3>1, <3>2 DEF UnderWay
    <2> QED
        BY <1>2, <2>4, <2>5
<1>4. CASE pc = "fix" /\ todo' = <<>> /\ pc' = "svc" /\ UNCHANGED owner_page
    <2>1. bd.state = "LockedOwner"
        BY <1>4 DEF UnderWay
    <2>2. RamState' /\ UnderWay'
        BY <1>1, <1>4, <2>1 DEF RamState, UnderWay
    <2>3. RamPages'
        BY <1>1, <1>2, <1>4, <2>1 DEF RamPages, RamState, UnlockedState
    <2> QED
        BY <1>2, <2>2, <2>3
<1>5. CASE pc = "activate" /\ todo' = <<>> /\ pc' = "boot" /\ UNCHANGED owner_page
    <2>1. bd.state # "LockedOwner"
        BY <1>5 DEF UnderWay, UnlockedState
    <2>2. RamState' /\ UnderWay' /\ RamPages'
        BY <1>1, <1>5, <2>1 DEF RamState, UnderWay, RamPages
    <2> QED
        BY <1>2, <2>2
<1> QED
    BY <1>3, <1>4, <1>5 DEF OperateFails

(* Once page 1 holds the new version, page 0 is rewritten from it.         *)
LEMMA NewVersionDoneStep == ASSUME TInv, SInv, NewVersionDone PROVE SInv'
<1> USE DEF TInv, SInv
<1> DEFINE valid == [p \in 0 .. 1 |-> IF p = 0 THEN "Invalid" ELSE "Sealed"]
<1>1. /\ pc = "newversion" /\ todo = <<>>
      /\ UNCHANGED <<page, ram, installed>>
      /\ RedundancyFix(owner_page, valid)
    BY DEF NewVersionDone, hist
<1>2. /\ bd.state = "LockedOwner"
      /\ Successor(installed, owner_page[1])
      /\ Rewriting(1, owner_page[1])
      /\ owner_page[1] \in Config /\ 1 \in 0 .. 1
      /\ Sealed(owner_page[1]) \in FlashPage
    BY <1>1, PageLemma DEF UnderWay, RamTypes
<1>3. page[1] = Sealed(owner_page[1])
    BY <1>1, <1>2, OpsLemma DEF Rewriting
<1>4. /\ valid \in [0 .. 1 -> {"Sealed", "Signed", "Invalid"}]
      /\ valid[0] = "Invalid" /\ valid[1] = "Sealed"
    OBVIOUS
<1> HIDE DEF valid
<1> QED
    BY <1>1, <1>2, <1>3, <1>4, RedundancyFixStep

(* Once the copy is made, both pages are sealed with the one configuration.*)
LEMMA FixDoneStep == ASSUME TInv, SInv, FixDone PROVE SInv'
<1> USE DEF TInv, SInv
<1>1. /\ pc = "fix" /\ todo = <<>> /\ pc' = "svc"
      /\ owner_page_valid' = [p \in 0 .. 1 |-> "Sealed"]
      /\ UNCHANGED <<bd, page, ram, owner_page, todo, installed>>
    BY DEF FixDone, nvm, hist
<1>2. PICK p \in 0 .. 1 : /\ page[p] = Sealed(owner_page[p])
                          /\ Rewriting(1 - p, owner_page[p])
    BY <1>1 DEF UnderWay
<1>3. /\ owner_page[0] = owner_page[p] /\ owner_page[p] \in Config
      /\ bd.state = "LockedOwner" /\ Sealed(owner_page[p]) \in FlashPage
    BY <1>1, <1>2, PageLemma DEF UnderWay, RamTypes
<1>4. page[1 - p] = Sealed(owner_page[p])
    <2>1. 1 - p \in 0 .. 1
        OBVIOUS
    <2>2. /\ todo # Rewrite(1 - p, Sealed(owner_page[p]))
          /\ todo # <<Write(1 - p, Sealed(owner_page[p]))>>
        BY <1>1, <1>3, <2>1, OpsLemma
    <2> QED
        BY <1>2, <2>2 DEF Rewriting
<1>5. page[0] = Sealed(owner_page[0])
    BY <1>2, <1>3, <1>4
<1>6. PageZero' /\ Backup' /\ RamState' /\ UnderWay'
    BY <1>1, <1>3, FlashFrame DEF RamState, UnderWay
<1>7. RamPages'
    BY <1>1, <1>3, <1>5, PageLemma DEF RamPages, RamState, UnlockedState
<1> QED
    BY <1>6, <1>7

(* A boot service that changes at most the slot and the minimum version,   *)
(* in RAM or in flash too, keeps the owner.                                *)
LEMMA SvcStep ==
    ASSUME TInv, SInv, pc = "svc", pc' = "boot",
           UNCHANGED <<page, owner_page, owner_page_valid, todo, installed>>,
           ram'.state = ram.state, ram'.next_owner = ram.next_owner,
           bd' = bd \/ (bd'.state = ram.state /\ bd'.next_owner = ram.next_owner)
    PROVE  SInv'
<1> USE DEF TInv, SInv
<1>1. UnderWay'
    BY DEF UnderWay
<1>2. bd'.state = "LockedOwner" => bd.state = "LockedOwner"
    BY DEF RamState
<1>3. PageZero' /\ Backup'
    BY <1>2 DEF PageZero, Backup, Successor
<1>4. RamState' /\ RamPages'
    BY <1>2 DEF RamState, RamPages
<1> QED
    BY <1>1, <1>3, <1>4

LEMMA SlotOrVersionStep == ASSUME TInv, SInv, SlotOrVersion PROVE SInv'
BY SlotOrVersionLemma, SvcStep

(* The handler of OwnershipUnlock keeps it, unless an abort is granted on  *)
(* an unsealed page 0.                                                     *)
LEMMA UnlockStep ==
    ASSUME TInv, SInv, ownership_unlock_handler, ~ exposed' PROVE SInv'
<1> USE DEF TInv, SInv
<1>1. /\ pc = "svc" /\ msg.type = "OwnershipUnlock"
      /\ UNCHANGED <<bd, page, owner_page, owner_page_valid, todo, installed>>
    BY DEF ownership_unlock_handler, Handles, nvm, boot
<1>2. CASE pc' = "boot" /\ ram' = ram
    BY <1>1, <1>2, SvcStep
<1>3. CASE /\ unlock_granted(msg, ram, owner_page)
           /\ ram' = Unlocked(msg, ram) /\ pc' = "reboot"
           /\ Exposes(msg.mode = "Abort" /\ ~ page[0].sealed)
    <2>1. msg.mode = "Endorsed" => msg.next_owner \in Owner
        <3>1. msg \notin {NoMsg, Response}
            BY <1>1 DEF NoMsg, Response
        <3> QED
            BY <1>1, <3>1, RomExtAssumption DEF MsgOK
    <2>2. ram \in BootData
        BY DEF TypeOK
    <2>3. ram'.state \in UnlockedState \/ ram'.state = "LockedOwner"
        BY <1>3, <2>1, <2>2, UnlockLemma
    <2>4. ram'.state = "LockedOwner" => msg.mode = "Abort"
        <3>1. Unlocked(msg, ram).state =
                IF msg.mode = "Abort" THEN "LockedOwner" ELSE UnlockedBy(msg.mode)
            BY <2>2 DEF Unlocked, BootData
        <3>2. msg.mode # "Abort" => UnlockedBy(msg.mode) \in UnlockedState
            <4>1. msg.mode \in {"Any", "Endorsed", "Update", "Abort"}
                <5> SUFFICES ASSUME msg.mode \notin {"Any", "Endorsed", "Update", "Abort"}
                             PROVE  FALSE
                    OBVIOUS
                <5> QED
                    BY <1>3 DEF unlock_granted
            <4> QED
                BY <4>1 DEF UnlockedBy, UnlockedState
        <3> QED
            BY <1>3, <3>1, <3>2 DEF UnlockedState
    <2>5. msg.mode = "Abort" => page[0].sealed
        BY <1>3 DEF Exposes
    <2>6. PageZero' /\ Backup' /\ UnderWay'
        BY <1>1, <1>3, FlashFrame DEF UnderWay
    <2>7. RamState' /\ RamPages'
        BY <1>1, <1>3, <2>3, <2>4, <2>5 DEF RamState, RamPages, UnlockedState
    <2> QED
        BY <2>6, <2>7
<1> QED
    BY <1>2, <1>3 DEF ownership_unlock_handler

(* The handler of OwnershipActivate keeps it, unless a seal fails: the     *)
(* page 1 it is about to seal is one the ownership state in flash allows.  *)
LEMMA ActivateStep ==
    ASSUME TInv, SInv, ownership_activate_handler, ~ exposed' PROVE SInv'
<1> USE DEF TInv, SInv
<1>1. /\ pc = "svc"
      /\ UNCHANGED <<bd, page, owner_page, owner_page_valid, installed>>
    BY DEF ownership_activate_handler, Handles, nvm, boot
<1>2. CASE pc' = "boot" /\ UNCHANGED <<ram, todo>>
    BY <1>1, <1>2, SvcStep
<1>3. CASE /\ activate_granted(msg, ram, owner_page, owner_page_valid)
           /\ ram' = IF owner_page[1].min_sec = -1 THEN ram
                     ELSE [ram EXCEPT !.min_sec = owner_page[1].min_sec]
           /\ \E x \in {Sealed(owner_page[1]), Signed(owner_page[1])} :
                /\ ownership_seal_page(owner_page[1], x)
                /\ todo' = ActivateOps(x)
           /\ pc' = "activate"
    <2>1. ram.state \in UnlockedState /\ bd.state = ram.state /\ ram.next_owner = bd.next_owner
        BY <1>1, <1>3 DEF activate_granted, RamState, UnlockedState
    <2>2. PagesRead /\ (ram.state = "UnlockedSelf" => page[0].sealed)
        BY <1>1, <2>1 DEF RamPages
    <2>3. /\ owner_page_valid[1] = "Signed"
          /\ ram.state = "UnlockedSelf" => owner_page[0].owner = owner_page[1].owner
          /\ ram.state = "UnlockedEndorsed" => owner_page[1].owner = ram.next_owner
        BY <1>3, <2>1
           DEF activate_granted, owner_block_page1_valid_for_transfer, UnlockedState
    <2>4. owner_page[1] \in Config
        BY <2>3 DEF RamTypes
    <2>5. ram.state = "UnlockedSelf" => owner_page[1].owner = installed.owner
        BY <2>2, <2>3, PageLemma DEF PagesRead, PageZero
    <2>6. ram'.state = ram.state /\ ram'.next_owner = ram.next_owner
        BY <1>3 DEF TypeOK, BootData
    <2>7. PICK x : ownership_seal_page(owner_page[1], x) /\ todo' = ActivateOps(x)
        BY <1>3
    <2>8. todo' = ActivateOps(Sealed(owner_page[1]))
        BY <2>4, <2>7, SealLemma
    <2>9. PageZero' /\ Backup'
        BY <1>1, FlashFrame
    <2>10. RamState' /\ RamPages'
        BY <1>1, <1>3, <2>1, <2>6 DEF RamState, RamPages
    <2>11. UnderWay'
        BY <1>1, <1>3, <2>1, <2>3, <2>5, <2>8 DEF UnderWay
    <2> QED
        BY <2>9, <2>10, <2>11
<1> QED
    BY <1>2, <1>3 DEF ownership_activate_handler

(* The end of an activation keeps it: page 0 is sealed before the RAM copy *)
(* says LockedOwner.                                                       *)
LEMMA ActivateDoneStep == ASSUME TInv, SInv, ActivateDone PROVE SInv'
<1> USE DEF TInv, SInv
<1>1. /\ pc = "activate" /\ todo = <<>>
      /\ \/ ram'.state = "LockedOwner" /\ pc' = "reboot"
         \/ /\ ram'.state = ram.state /\ ram'.next_owner = ram.next_owner
            /\ pc' = "boot"
      /\ UNCHANGED <<bd, page, owner_page, owner_page_valid, todo, installed>>
    BY ActivateDoneLemma
<1>2. page[0].sealed
    <2> DEFINE pg == Sealed(owner_page[1])
    <2>1. owner_page[1] \in Config /\ pg \in FlashPage /\ 0 \in 0 .. 1
        BY <1>1, PageLemma DEF RamTypes
    <2>2. ActivateOps(pg) # <<>> /\ <<Write(1, pg)>> \o Rewrite(0, pg) # <<>>
        BY <2>1, ActivateOpsLemma, Zenon
    <2>3. Rewriting(0, owner_page[1])
        BY <1>1, <2>2 DEF UnderWay
    <2>4. Rewrite(0, pg) # <<>> /\ <<Write(0, pg)>> # <<>>
        BY <2>1, OpsLemma
    <2>5. page[0] = pg
        BY <1>1, <2>3, <2>4 DEF Rewriting
    <2> QED
        BY <2>5, PageLemma
<1>3. ram.state = bd.state /\ ram.next_owner = bd.next_owner /\ bd.state # "LockedOwner"
    BY <1>1 DEF RamState, UnderWay, UnlockedState
<1>4. PageZero' /\ Backup' /\ UnderWay'
    BY <1>1, FlashFrame DEF UnderWay
<1>5. RamState' /\ RamPages'
    BY <1>1, <1>2, <1>3 DEF RamState, RamPages
<1> QED
    BY <1>4, <1>5

(* The boot data an unlock or an activation left in RAM is written or not; *)
(* if it says LockedOwner, page 0 is sealed by then.                       *)
LEMMA RebootLemma ==
    ASSUME SInv, pc = "reboot", bd' \in {bd, ram}, UNCHANGED <<page, installed>>
    PROVE  PageZero' /\ Backup' /\ (bd.state = "LockedOwner" => bd'.state # "Recovery")
<1> USE DEF SInv
<1>1. ram.state # "Recovery" /\ (ram.state = "LockedOwner" => page[0].sealed)
    BY DEF RamState
<1>2. PageZero'
    BY DEF PageZero
<1>3. Backup'
    <2>1. CASE bd' = bd
        BY <2>1, FlashFrame
    <2>2. CASE bd' = ram
        BY <1>1, <2>2 DEF Backup
    <2> QED
        BY <2>1, <2>2
<1> QED
    BY <1>1, <1>2, <1>3

(* boot_data_write before the reboot keeps it.                             *)
LEMMA RebootStep == ASSUME TInv, SInv, WriteBootdataThenReboot PROVE SInv'
<1> USE DEF TInv, SInv
<1>1. /\ pc = "reboot" /\ pc' = "halt" /\ bd' \in {bd, ram}
      /\ UNCHANGED <<page, ram, owner_page, owner_page_valid, todo, installed>>
    BY DEF WriteBootdataThenReboot, WriteBootData, boot, hist
<1>2. PageZero' /\ Backup'
    BY <1>1, RebootLemma
<1>3. UnderWay' /\ RamState' /\ RamPages'
    BY <1>1 DEF UnderWay, RamState, RamPages
<1> QED
    BY <1>2, <1>3

(* Once the chip is off, only page 0 and its backup count.                 *)
LEMMA OffStep == ASSUME SwitchOff, PageZero', Backup' PROVE SInv'
BY DEF SInv, SwitchOff, RamState, RamPages, UnderWay

(* A reset after a shutdown, or by the host with or without a request.     *)
LEMMA ResetStep == ASSUME SInv, Reset \/ HostResets PROVE SInv'
<1>1. UNCHANGED <<bd, page, installed>> /\ SwitchOff
    BY DEF Reset, HostResets, nvm, hist
<1>2. PageZero' /\ Backup'
    BY <1>1, FlashFrame DEF SInv
<1> QED
    BY <1>1, <1>2, OffStep

(* What a cut leaves in flash, whatever it cut short.                      *)
LEMMA CutLemma ==
    ASSUME TInv, SInv, Cut
    PROVE  /\ PageZero' /\ Backup'
           /\ page'[0].sealed => Permitted(installed, page'[0].config)
           /\ bd.state = "LockedOwner" => bd'.state # "Recovery"
<1> USE DEF TInv, SInv
<1>1. Record /\ installed' = IF page'[0].sealed THEN page'[0].config ELSE installed
    BY DEF Cut, Record
<1>2. CASE todo # <<>>
    <2>1. pc # "reboot"
        BY <1>2 DEF UnderWay
    <2>2. bd' = bd /\ page' \in PageAfter(Head(todo))
        BY <1>2, <2>1 DEF Cut
    <2> QED
        BY <1>1, <1>2, <2>2, PageChange
<1>3. CASE todo = <<>>
    <2>1. page' = page
        BY <1>3 DEF Cut
    <2>2. /\ installed' = installed
          /\ page'[0].sealed => Permitted(installed, page'[0].config)
        BY <1>1, <2>1, PageLemma DEF PageZero, Permitted
    <2>3. CASE pc = "reboot"
        <3>1. bd' \in {bd, ram}
            BY <2>3 DEF Cut
        <3> QED
            BY <2>1, <2>2, <2>3, <3>1, RebootLemma
    <2>4. CASE pc # "reboot"
        <3>1. bd' = bd
            BY <2>4 DEF Cut
        <3> QED
            BY <2>1, <2>2, <3>1, FlashFrame
    <2> QED
        BY <2>3, <2>4
<1> QED
    BY <1>2, <1>3

LEMMA CutStep == ASSUME TInv, SInv, Cut PROVE SInv'
BY CutLemma, OffStep DEF Cut

(* The environment's writes to page 1, replayed pages included, keep it:   *)
(* an owned chip lets page 1 be written only while its page 0 is sealed.   *)
LEMMA HostWriteStep == ASSUME TInv, SInv, HostWritesPage1 PROVE SInv'
<1> USE DEF TInv, SInv
<1>1. /\ pc \in {"run", "rescue"} /\ Page1Writable
      /\ UNCHANGED <<bd, pc, ram, owner_page, owner_page_valid, todo, installed>>
    BY DEF HostWritesPage1, boot, hist
<1>2. page'[0] = page[0]
    BY HostWriteTypes
<1>3. PageZero'
    BY <1>1, <1>2 DEF PageZero
<1>4. bd.state = "LockedOwner" => page[0].sealed
    BY <1>1 DEF Page1Writable, RamState, RamPages, UnlockedState,
                owner_block_newversion_mode
<1>5. Backup'
    BY <1>1, <1>2, <1>4 DEF Backup
<1>6. RamState' /\ RamPages' /\ UnderWay'
    BY <1>1, <1>2 DEF RamState, RamPages, UnderWay
<1> QED
    BY <1>3, <1>5, <1>6

(* The loss of a page keeps it, unless it was the only copy of an owned    *)
(* chip.                                                                   *)
LEMMA PageLostStep == ASSUME TInv, SInv, PageLost, ~ exposed' PROVE SInv'
<1> USE DEF TInv, SInv
<1>1. /\ pc = "off"
      /\ UNCHANGED <<bd, pc, ram, owner_page, owner_page_valid, todo, installed>>
    BY DEF PageLost, boot
<1>2. PICK p \in 0 .. 1 : /\ page' = [page EXCEPT ![p] = Bad]
                          /\ Exposes(bd.state = "LockedOwner" /\ OnlyCopy(p))
    BY DEF PageLost
<1>3. ~ (bd.state = "LockedOwner" /\ OnlyCopy(p))
    BY <1>2 DEF Exposes
<1>4. page'[p] = Bad /\ page'[1 - p] = page[1 - p] /\ Bad.sealed = FALSE
    BY <1>2, PageLemma DEF TypeOK
<1>5. CASE p = 0
    <2>1. page'[0].sealed = FALSE /\ page'[1] = page[1]
        BY <1>4, <1>5
    <2>2. PageZero'
        BY <2>1 DEF PageZero
    <2>3. Backup'
        <3> SUFFICES ASSUME bd.state = "LockedOwner"
                     PROVE  page[1].sealed /\ Successor(installed, page[1].config)
            BY <1>1, <2>1 DEF Backup, Successor
        <3>1. CASE ~ page[0].sealed
            BY <3>1 DEF Backup
        <3>2. CASE page[0].sealed
            <4>1. page[1] = page[0]
                BY <1>3, <1>5, <3>2 DEF OnlyCopy
            <4> QED
                BY <3>2, <4>1, PageLemma DEF PageZero, Successor
        <3> QED
            BY <3>1, <3>2
    <2> QED
        BY <1>1, <2>2, <2>3 DEF RamState, RamPages, UnderWay
<1>6. CASE p = 1
    <2>1. page'[0] = page[0]
        BY <1>4, <1>6
    <2>2. PageZero'
        BY <1>1, <2>1 DEF PageZero
    <2>3. Backup'
        <3>1. bd.state = "LockedOwner" => page[0].sealed
            BY <1>3, <1>6 DEF OnlyCopy, Backup
        <3> QED
            BY <1>1, <2>1, <3>1 DEF Backup
    <2> QED
        BY <1>1, <2>2, <2>3 DEF RamState, RamPages, UnderWay
<1> QED
    BY <1>5, <1>6

(* A chip once exposed stays so.                                           *)
LEMMA ExposedStays == ASSUME TInv, [Next]_vars, exposed PROVE exposed'
<1> USE DEF Exposes
<1>1. CASE UNCHANGED exposed
    BY <1>1
<1>2. CASE locked_owner_init \/ ownership_unlock_handler \/ ownership_activate_handler
           \/ PageLost
    BY <1>2 DEF locked_owner_init, ownership_unlock_handler, ownership_activate_handler,
                PageLost, ownership_seal_page
<1>3. CASE SlotOrVersion \/ MovesOn \/ ActivateDone \/ Cut
    BY <1>1, <1>3, SlotOrVersionLemma, MoveOnLemma, ActivateDoneLemma, CutTypes
<1>4. CASE \/ PowerOn \/ unlocked_init \/ Operate \/ NewVersionDone \/ FixDone
           \/ WriteBootdataThenReboot \/ Reset
           \/ OperateFails \/ HostWritesPage1 \/ HostResets \/ UNCHANGED vars
    BY <1>1, <1>4 DEF PowerOn, unlocked_init, Operate, NewVersionDone, FixDone,
       WriteBootdataThenReboot, Reset, OperateFails, HostWritesPage1, HostResets,
       vars, hist
<1> QED
    BY <1>2, <1>3, <1>4 DEF Next, Boot, SlotOrVersion, MovesOn

(* SInv is kept by every step after which the chip is not exposed.         *)
LEMMA StepSInv == ASSUME TInv, SInv, [Next]_vars, ~ exposed' PROVE SInv'
<1>1. CASE UNCHANGED vars
    BY <1>1 DEF vars, SInv, PageZero, Backup, Successor, RamState, RamPages, PagesRead,
                UnderWay, Rewriting
<1>2. CASE Boot
    BY <1>2, PowerOnStep, LockedInitStep, UnlockedInitStep, MoveOnStep, OperateStep,
       NewVersionDoneStep, FixDoneStep, SlotOrVersionStep, UnlockStep,
       ActivateStep, ActivateDoneStep, RebootStep, ResetStep DEF Boot, MovesOn, SlotOrVersion
<1>3. CASE OperateFails \/ Cut \/ PageLost \/ HostWritesPage1 \/ HostResets
    BY <1>3, OperateFailsStep, CutStep, PageLostStep, HostWriteStep, ResetStep
<1> QED
    BY <1>1, <1>2, <1>3 DEF Next

(* IInv is inductive.                                                      *)
LEMMA StepIInv == IInv /\ [Next]_vars => IInv'
<1> SUFFICES ASSUME IInv, [Next]_vars PROVE IInv'
    OBVIOUS
<1>1. TInv'
    BY StepTInv DEF IInv
<1>2. CASE exposed
    BY <1>1, <1>2, ExposedStays DEF IInv
<1>3. CASE ~ exposed /\ ~ exposed'
    BY <1>1, <1>3, StepSInv DEF IInv
<1> QED
    BY <1>1, <1>2, <1>3 DEF IInv

(* The inductive invariant holds in every reachable state.                 *)
LEMMA InductiveInvariant == Spec => []IInv
<1>1. Init => IInv
    BY InitTInv, InitSInv DEF IInv
<1> QED
    BY <1>1, StepIInv, PTL DEF Spec
-----------------------------------------------------------------------------
(* Every variable of the boot flow keeps its type, whatever fails: every   *)
(* operation under way is on one of the two pages, and what the unlock and *)
(* the slot handlers write is boot data.                                   *)
THEOREM TypeCorrect == Spec => []TypeOK
<1>1. IInv => TypeOK
    BY DEF IInv, TInv
<1> QED
    BY <1>1, InductiveInvariant, PTL

(* The steps that leave the owner pages alone.                             *)
LEMMA PagesKept ==
    ASSUME TInv, [Next]_vars,
           ~ (Operate \/ OperateFails \/ Cut \/ HostWritesPage1 \/ PageLost)
    PROVE  page' = page
<1>1. CASE SlotOrVersion \/ MovesOn \/ ActivateDone
    BY <1>1, SlotOrVersionLemma, MoveOnLemma, ActivateDoneLemma
<1>2. CASE \/ PowerOn \/ locked_owner_init \/ unlocked_init \/ NewVersionDone \/ FixDone
           \/ ownership_unlock_handler \/ ownership_activate_handler
           \/ WriteBootdataThenReboot \/ Reset \/ HostResets \/ UNCHANGED vars
    BY <1>2 DEF PowerOn, locked_owner_init, unlocked_init, NewVersionDone, FixDone,
       ownership_unlock_handler, ownership_activate_handler, WriteBootdataThenReboot,
       Reset, HostResets, nvm, vars
<1> QED
    BY <1>1, <1>2 DEF Next, Boot, SlotOrVersion, MovesOn

(* Page 0 changes under an operation of a boot or a cut only; what is      *)
(* sealed in it otherwise is what was installed last.                      *)
LEMMA PermittedStep ==
    ASSUME TInv, SInv, [Next]_vars
    PROVE  page'[0].sealed => Permitted(installed, page'[0].config)
<1>1. CASE page'[0] \in {page[0], Bad}
    BY <1>1, PageLemma DEF SInv, PageZero, Permitted
<1>2. CASE Operate
    <2>1. todo # <<>> /\ page' \in PageAfter(Head(todo)) /\ bd' = bd /\ Record
        BY <1>2 DEF Operate, PageAfter
    <2> QED
        BY <2>1, PageChange
<1>3. CASE OperateFails
    BY <1>3, PageChange DEF OperateFails
<1>4. CASE Cut
    BY <1>4, CutLemma
<1>5. CASE HostWritesPage1 \/ PageLost
    <2>1. page'[0] \in {page[0], Bad}
        BY <1>5 DEF HostWritesPage1, PageLost, TInv, TypeOK
    <2> QED
        BY <1>1, <2>1
<1> QED
    BY <1>1, <1>2, <1>3, <1>4, <1>5, PagesKept

(* Page 0 is replaced only as the ownership state in flash allows, however *)
(* many cuts, flash errors, torn and replayed pages there are, until one   *)
(* of the three faults of Exposes: locked_owner_init, the redundancy fix   *)
(* and ownership_activate seal no configuration that nobody agreed to.     *)
THEOREM OnlyPermitted == Spec => ConfigPermitted
<1>1. ASSUME IInv, [Next]_vars
      PROVE  page'[0].sealed /\ ~ exposed => Permitted(installed, page'[0].config)
    BY <1>1, PermittedStep DEF IInv
<1>2. IInv /\ [Next]_vars =>
        [page'[0].sealed /\ ~ exposed => Permitted(installed, page'[0].config)]_vars
    BY <1>1
<1> QED
    BY <1>2, InductiveInvariant, PTL DEF Spec, ConfigPermitted

(* The boot data goes from LockedOwner to Recovery in no step: the one     *)
(* place of locked_owner_init that writes Recovery is not reached.         *)
LEMMA LockedStep ==
    ASSUME TInv, SInv, [Next]_vars, bd.state = "LockedOwner"
    PROVE  bd'.state # "Recovery"
<1> USE DEF TInv, SInv
<1>1. CASE bd' = bd
    BY <1>1
<1>2. CASE locked_owner_init
    <2>1. pc = "init" /\ PagesRead
        BY <1>2 DEF locked_owner_init, RamPages
    <2>2. ~ \A p \in 0 .. 1 : owner_page_valid[p] # "Sealed"
        <3>1. page[0].sealed \/ page[1].sealed
            BY DEF Backup
        <3> QED
            BY <2>1, <3>1, PageLemma DEF PagesRead, TypeOK
    <2>3. bd' = bd
        BY <1>2, <2>2 DEF locked_owner_init, RedundancyFix
    <2> QED
        BY <1>1, <2>3
<1>3. CASE unlocked_init
    BY <1>3 DEF unlocked_init, RamState, UnlockedState
<1>4. CASE SlotOrVersion
    <2>1. pc = "svc" /\ (bd' = bd \/ bd'.state = ram.state)
        BY <1>4, SlotOrVersionLemma
    <2> QED
        BY <2>1 DEF RamState
<1>5. CASE WriteBootdataThenReboot
    BY <1>5, RebootLemma DEF WriteBootdataThenReboot, WriteBootData, hist
<1>6. CASE Cut
    BY <1>6, CutLemma
<1>7. CASE MovesOn \/ ActivateDone
    BY <1>1, <1>7, MoveOnLemma, ActivateDoneLemma
<1>8. CASE \/ PowerOn \/ Operate \/ NewVersionDone \/ FixDone
           \/ ownership_unlock_handler \/ ownership_activate_handler \/ Reset
           \/ OperateFails \/ PageLost \/ HostWritesPage1 \/ HostResets
           \/ UNCHANGED vars
    <2>1. bd' = bd
        BY <1>8 DEF PowerOn, Operate, NewVersionDone, RedundancyFix,
              FixDone, ownership_unlock_handler, ownership_activate_handler, Reset,
              OperateFails, PageLost, HostWritesPage1, HostResets, nvm, vars
    <2> QED
        BY <1>1, <2>1
<1> QED
    BY <1>2, <1>3, <1>4, <1>5, <1>6, <1>7, <1>8 DEF Next, Boot, SlotOrVersion, MovesOn

(* No sequence of cuts, flash errors, torn and replayed pages and losses   *)
(* of pages that have their copy takes an owned chip to Recovery, where    *)
(* its owner would have to be set anew.                                    *)
THEOREM NeverLost == Spec => LockedNeverLost
<1>1. ASSUME IInv, [Next]_vars
      PROVE  bd.state = "LockedOwner" /\ ~ exposed => bd'.state # "Recovery"
    BY <1>1, LockedStep DEF IInv
<1>2. IInv /\ [Next]_vars =>
        [bd.state = "LockedOwner" /\ ~ exposed => bd'.state # "Recovery"]_vars
    BY <1>1
<1> QED
    BY <1>2, InductiveInvariant, PTL DEF Spec, LockedNeverLost
=============================================================================
