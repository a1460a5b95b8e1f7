------------------------------ MODULE BootData ------------------------------
(***************************************************************************)
(* silicon_creator/lib/boot_data.c: the boot data is a log over two flash  *)
(* info pages.  boot_data_write appends the next entry, erasing the other  *)
(* page when the active one is full, checks it, and then invalidates the   *)
(* entry before; boot_data_read returns the newest valid entry.  Any flash *)
(* operation may fail or be cut short by a reset.                          *)
(*                                                                         *)
(* An entry is its three parts in flash: the digest, the is_valid words    *)
(* (TRUE while erased) and the body (identifier, version, counter and the  *)
(* rest).  SHA-256 is taken to be injective: a digest is the body it is of.*)
(***************************************************************************)
EXTENDS Integers, Sequences, FiniteSets, FiniteSetsExt

CONSTANTS Value,        \* the data an entry carries
          Version1,       \* those of Value in the version 1 format
          as_v2(_),       \* boot_data_as_v2
          DefaultAllowed, \* life cycle state and OTP allow default boot data
          DefaultValue,
          None,
          Entries,        \* kBootDataEntriesPerPage
          MaxCounter      \* bound on the counter of entries

ASSUME BootDataAssumption ==
    /\ Version1 \subseteq Value
    /\ \A v \in Value : as_v2(v) \in Value \ Version1
    /\ \A v \in Value \ Version1 : as_v2(v) = v
    /\ DefaultAllowed \in BOOLEAN /\ DefaultValue \in Value \ Version1
    /\ None \notin Value
    /\ Entries \in Nat \ {0} /\ MaxCounter \in Nat \ {0}

VARIABLES flash,   \* the two pages
          todo,    \* flash operations boot_data_write still has to do
          ret,     \* what the last boot_data_write returned
          arg      \* its argument while it runs, else None

vars == <<flash, todo, ret, arg>>

Page == 0 .. 1
Index == 0 .. Entries - 1

Body == [counter : 1 .. MaxCounter, value : Value]

(* A part that is erased, and one an operation did not complete on.        *)
kErased == [counter |-> 0, value |-> None]
kTorn == [counter |-> -1, value |-> None]

Part == Body \cup {kErased, kTorn}
Entry == [digest : Part, is_valid : BOOLEAN, body : Part]

EmptyEntry == [digest |-> kErased, is_valid |-> TRUE, body |-> kErased]
-----------------------------------------------------------------------------
(* Reading.  A digest that is not of the whole entry fails the check, and  *)
(* it covers is_valid.                                                     *)

boot_data_is_empty(e) == e = EmptyEntry

boot_data_check(e) == e.is_valid /\ e.body \in Body /\ e.digest = e.body

(* The forward search for the first empty entry, and the backward search   *)
(* from there for the last valid one (counter 0 where there is none).      *)
boot_data_page_info_update(p) ==
    LET first == Min({i \in Index : boot_data_is_empty(flash[p][i])} \cup {Entries})
        valid == {i \in 0 .. first - 1 : boot_data_check(flash[p][i])}
    IN  [page |-> p, first_empty_index |-> first, has_valid_entry |-> valid # {},
         last_valid_index |-> IF valid = {} THEN Entries ELSE Max(valid),
         body |-> IF valid = {} THEN kErased ELSE flash[p][Max(valid)].body]

(* The page whose last valid entry has the greater counter.                *)
boot_data_active_page_find ==
    LET a == boot_data_page_info_update(0)
        b == boot_data_page_info_update(1)
    IN  IF b.body.counter > a.body.counter THEN b ELSE a

boot_data_default_get == IF DefaultAllowed THEN DefaultValue ELSE None

boot_data_read ==
    LET a == boot_data_active_page_find
    IN  IF a.has_valid_entry THEN as_v2(a.body.value) ELSE boot_data_default_get
-----------------------------------------------------------------------------
(* Writing.  The operations of a call, in order. *)

Op(name, p, i, b) == [op |-> name, page |-> p, index |-> i, body |-> b]

boot_data_entry_write(p, i, b, erase) ==
    (IF erase THEN <<Op("erase", p, i, b)>> ELSE <<>>)
        \o <<Op("digest", p, i, b), Op("body", p, i, b), Op("check", p, i, b)>>

boot_data_entry_invalidate(p, i, b) == <<Op("invalidate", p, i, b)>>

MutWriteOps(v) ==  \* the old entry is invalidated first
    LET a == boot_data_active_page_find
        b == [counter |-> a.body.counter + 1, value |-> v]
    IN  (IF a.has_valid_entry
           THEN boot_data_entry_invalidate(a.page, a.last_valid_index, b) ELSE <<>>)
        \o (IF a.has_valid_entry /\ a.first_empty_index < Entries
              THEN boot_data_entry_write(a.page, a.first_empty_index, b, FALSE)
              ELSE boot_data_entry_write(IF a.has_valid_entry THEN 1 - a.page ELSE 0,
                                         0, b, TRUE))

(* The operations that append a value with the given counter. *)
AppendOps(v, counter) ==
    LET a == boot_data_active_page_find
        b == [counter |-> counter, value |-> v]
    IN  CASE ~ a.has_valid_entry -> boot_data_entry_write(0, 0, b, TRUE)
          [] a.has_valid_entry /\ a.first_empty_index < Entries ->
               boot_data_entry_write(a.page, a.first_empty_index, b, FALSE)
               \o boot_data_entry_invalidate(a.page, a.last_valid_index, b)
          [] OTHER ->
               boot_data_entry_write(1 - a.page, 0, b, TRUE)
               \o boot_data_entry_invalidate(a.page, a.last_valid_index, b)

LastCounter == boot_data_active_page_find.body.counter

MutWriteOpsZero(v) ==  \* the counter is incremented after it is stored
    AppendOps(v, LastCounter)

MutWriteOpsCounter(v) ==  \* the counter of an entry is not incremented
    AppendOps(v, Max({LastCounter, 1}))

WriteOps(v) == AppendOps(v, LastCounter + 1)

CounterLeft == LastCounter < MaxCounter

boot_data_write(v) ==
    /\ arg = None
    /\ CounterLeft
    /\ arg' = v
    /\ todo' = WriteOps(v)
    /\ ret' = "none"
    /\ UNCHANGED flash
-----------------------------------------------------------------------------
(* What a completed flash operation does.  Programming only clears bits.   *)
Erase(p) == [flash EXCEPT ![p] = [i \in Index |-> EmptyEntry]]

ProgramPart(old, new) == IF old = kErased THEN new ELSE kTorn

Done(o) ==
    LET e == flash[o.page][o.index]
        f == [e EXCEPT !.digest   = IF o.op = "digest" THEN ProgramPart(@, o.body) ELSE @,
                       !.body     = IF o.op = "body" THEN ProgramPart(@, o.body) ELSE @,
                       !.is_valid = @ /\ o.op # "invalidate"]
    IN  IF o.op = "erase" THEN Erase(o.page)
                          ELSE [flash EXCEPT ![o.page][o.index] = f]

(* What an erase that was cut short may leave: entries as they were, blank *)
(* ones, damaged ones, and ones whose is_valid words read as erased again. *)
HalfErased(p) ==
    LET half(d) == {d, [d EXCEPT !.is_valid = TRUE], EmptyEntry,
                    [digest |-> kTorn, is_valid |-> TRUE, body |-> kTorn]}
    IN  {[flash EXCEPT ![p] = g] :
           g \in {g \in [Index -> UNION {half(flash[p][i]) : i \in Index}] :
                    \A i \in Index : g[i] \in half(flash[p][i])}}

(* What programming that was cut short may leave of the entry. *)
Torn(o) ==
    LET e == flash[o.page][o.index]
    IN  {e} \cup (IF o.op = "digest" THEN {[e EXCEPT !.digest = kTorn]} ELSE {})
            \cup (IF o.op = "body" THEN {[e EXCEPT !.body = kTorn]} ELSE {})

Undone(o) == IF o.op = "erase" THEN HalfErased(o.page)
             ELSE {[flash EXCEPT ![o.page][o.index] = d] : d \in Torn(o)}

(* The read-back of the new entry. *)
Checked(o) == o.op = "check" => LET e == flash[o.page][o.index]
                                IN  boot_data_check(e) /\ e.body = o.body

Operate ==
    /\ todo # <<>>
    /\ Checked(Head(todo))
    /\ flash' = Done(Head(todo))
    /\ todo' = Tail(todo)
    /\ UNCHANGED <<ret, arg>>

(* Programming that did not take and that the driver does not report, the  *)
(* case the read-back is for.  An erase is not read back: the driver is    *)
(* taken to report one that fails.                                         *)
Unreported ==
    /\ todo # <<>> /\ Head(todo).op \in {"digest", "body"}
    /\ flash' \in Undone(Head(todo))
    /\ todo' = Tail(todo)
    /\ UNCHANGED <<ret, arg>>

WriteCheckFails ==
    /\ todo # <<>>
    /\ ~ Checked(Head(todo))
    /\ todo' = <<>> /\ arg' = None /\ ret' = "error"
    /\ UNCHANGED flash

(* RETURN_IF_ERROR of the flash driver, or a reset.                        *)
CutShort ==
    /\ todo # <<>>
    /\ flash' \in Undone(Head(todo)) \cup {Done(Head(todo))}
    /\ todo' = <<>> /\ arg' = None /\ ret' = "error"

Return ==
    /\ arg # None /\ todo = <<>>
    /\ arg' = None /\ ret' = "ok"
    /\ UNCHANGED <<flash, todo>>

(* Blank storage, or one entry of an earlier version.                      *)
Init ==
    /\ \E e \in {EmptyEntry} \cup
               {LET b == [counter |-> 1, value |-> v]
                IN  [digest |-> b, is_valid |-> TRUE, body |-> b] : v \in Version1} :
         flash = [p \in Page |-> [i \in Index |-> IF p = 0 /\ i = 0 THEN e ELSE EmptyEntry]]
    /\ todo = <<>> /\ ret = "none" /\ arg = None

Next == \/ \E v \in Value \ Version1 : boot_data_write(v)
        \/ Operate \/ Unreported \/ WriteCheckFails \/ CutShort \/ Return

Spec == Init /\ [][Next]_vars
-----------------------------------------------------------------------------
(* Type correctness. *)
TypeOK ==
    /\ flash \in [Page -> [Index -> Entry]]
    /\ ret \in {"none", "ok", "error"}
    /\ arg \in Value \cup {None}

Atomic == INSTANCE BootDataSpec WITH cell <- boot_data_read, pend <- arg

(* Whatever operation is cut short, and however often, what boot_data_read *)
(* returns changes only to the value being written, and once boot_data_    *)
(* write has returned kErrorOk it is that value: the two pages behave as   *)
(* one atomic cell.                                                        *)
AtomicRefinement == Atomic!Spec

(* The hardened check of the page search never fires: two valid entries    *)
(* never carry the same counter, although an interrupted write leaves its  *)
(* predecessor valid and a cut erase may make old entries readable again.  *)
CountersDiffer ==
    \A p, q \in Page : \A i, j \in Index :
        /\ boot_data_check(flash[p][i]) /\ boot_data_check(flash[q][j])
        /\ flash[p][i].body.counter = flash[q][j].body.counter
        => p = q /\ i = j
=============================================================================
