--------------------------- MODULE BootDataProofs ---------------------------
(***************************************************************************)
(* Proofs about BootData: for pages of any size, any number of writes, and *)
(* a cut, an error or an unreported failure in any operation.              *)
(***************************************************************************)
EXTENDS BootData, SequenceTheorems, WellFoundedInduction, TLAPS

FlashOK == flash \in [Page -> [Index -> Entry]]

(* An entry whose digest is of its body: valid unless it was invalidated,  *)
(* and readable again when a cut erase restores its is_valid words.        *)
Whole(e) == e.body \in Body /\ e.digest = e.body

NoWhole == \A p \in Page, i \in Index : ~ Whole(flash[p][i])

(* Whole entries of a page are in the order of their counters, and those   *)
(* of different pages do not share one.                                    *)
Ordered ==
    \A p, q \in Page, i, j \in Index :
        Whole(flash[p][i]) /\ Whole(flash[q][j]) =>
          /\ p = q /\ i < j => flash[p][i].body.counter < flash[q][j].body.counter
          /\ p # q => flash[p][i].body.counter # flash[q][j].body.counter

(* No entry of the page follows an empty one.                              *)
Packed(p) ==
    \A i, j \in Index : i < j /\ flash[p][i] = EmptyEntry => flash[p][j] = EmptyEntry

(* The entry boot_data_read is to find: valid, in a page without gaps, and *)
(* with the greatest counter of all whole entries, invalidated ones too.   *)
Newest(p, i) ==
    /\ Whole(flash[p][i]) /\ flash[p][i].is_valid
    /\ Packed(p)
    /\ \A q \in Page, j \in Index :
         Whole(flash[q][j]) /\ <<q, j>> # <<p, i>> =>
           flash[q][j].body.counter < flash[p][i].body.counter

Log == NoWhole \/ \E p \in Page, i \in Index : Newest(p, i)

(* What boot_data_read returns of a log.                                   *)
ReadsNewest ==
    /\ NoWhole => boot_data_read = boot_data_default_get /\ LastCounter = 0
    /\ \A p \in Page, i \in Index : Newest(p, i) =>
         /\ boot_data_read = as_v2(flash[p][i].body.value)
         /\ LastCounter = flash[p][i].body.counter

(* Entry i of page p is the one to be written: the page is full below it   *)
(* and empty above it.                                                     *)
Room(p, i) ==
    \A j \in Index : /\ j < i => flash[p][j] # EmptyEntry
                     /\ j > i => flash[p][j] = EmptyEntry

Invalidations(b) ==
    {<<>>} \cup {boot_data_entry_invalidate(q, k, b) : q \in Page, k \in Index}

(* The entry before the one being written, and its invalidation to come.   *)
Predecessor(b, inv) ==
    \/ /\ NoWhole
       /\ inv = <<>> /\ b.counter = 1
    \/ \E q \in Page, k \in Index :
         /\ Newest(q, k)
         /\ inv = boot_data_entry_invalidate(q, k, b)
         /\ b.counter = flash[q][k].body.counter + 1

(* The write of b as entry i of page p has not taken effect yet.           *)
Pending(p, i, b, inv) ==
    /\ Predecessor(b, inv)
    /\ \/ /\ todo = boot_data_entry_write(p, i, b, TRUE) \o inv
          /\ i = 0
          /\ \A k \in Index : ~ Newest(p, k)
       \/ /\ todo = boot_data_entry_write(p, i, b, FALSE) \o inv
          /\ Room(p, i) /\ flash[p][i] = EmptyEntry
       \/ /\ todo = <<Op("body", p, i, b), Op("check", p, i, b)>> \o inv
          /\ Room(p, i)
          /\ flash[p][i].body = kErased /\ flash[p][i].is_valid
          /\ flash[p][i].digest \in {b, kTorn, kErased}
       \/ /\ todo = <<Op("check", p, i, b)>> \o inv
          /\ ~ Whole(flash[p][i])

(* It has: the new entry is the newest, and only an older one is           *)
(* invalidated.                                                            *)
Written(p, i, b, inv) ==
    /\ Newest(p, i) /\ flash[p][i].body = b
    /\ \A q \in Page, k \in Index :
         inv = boot_data_entry_invalidate(q, k, b) =>
           Whole(flash[q][k]) /\ <<q, k>> # <<p, i>>
    /\ todo \in {<<Op("check", p, i, b)>> \o inv, inv, <<>>}

Writing ==
    \E p \in Page, i \in Index, b \in Body : \E inv \in Invalidations(b) :
        /\ b.value = arg
        /\ Pending(p, i, b, inv) \/ Written(p, i, b, inv)

IInv ==
    /\ TypeOK /\ arg \notin Version1
    /\ Ordered /\ Log
    /\ arg = None => todo = <<>>
    /\ arg # None => Writing
-----------------------------------------------------------------------------
(* The least of a set of numbers is in it.                                 *)
LEMMA MinLemma ==
    ASSUME NEW S \in SUBSET Nat, S # {}
    PROVE  Min(S) \in S /\ \A y \in S : Min(S) <= y
<1> DEFINE R == OpToRel(<, Nat)
<1>1. IsWellFoundedOn(R, Nat)
    BY NatLessThanWellFounded
<1>2. \A x, y \in Nat : <<y, x>> \in R <=> y < x
    BY DEF OpToRel
<1> HIDE DEF R
<1>3. \E x \in S : \A y \in S : ~ (<<y, x>> \in R)
    BY <1>1, WFMin
<1>4. \E x \in S : \A y \in S : x <= y
    <2>1. PICK x \in S : \A y \in S : ~ (<<y, x>> \in R)
        BY <1>3
    <2>2. \A y \in S : y \in Nat /\ ~ (y < x)
        BY <1>2, <2>1, Zenon
    <2> QED
        BY <2>2
<1> QED
    BY <1>4 DEF Min

(* The greatest of a bounded set of numbers is in it.                      *)
LEMMA MaxLemma ==
    ASSUME NEW n \in Nat, NEW S \in SUBSET (0 .. n), S # {}
    PROVE  Max(S) \in S /\ \A y \in S : Max(S) >= y
<1> DEFINE T == {n - x : x \in S}
<1>1. T \in SUBSET Nat /\ T # {}
    <2>1. \A x \in S : n - x \in Nat
        OBVIOUS
    <2> QED
        BY <2>1, Zenon
<1>2. PICK m \in T : \A y \in T : m <= y
    BY <1>1, MinLemma
<1>3. PICK x \in S : m = n - x
    OBVIOUS
<1>4. \A y \in S : x >= y
    <2> TAKE y \in S
    <2>1. n - y \in T
        OBVIOUS
    <2>2. n - x <= n - y /\ x \in 0 .. n /\ y \in 0 .. n
        BY <1>2, <1>3, <2>1
    <2> QED
        BY <2>2
<1> QED
    BY <1>4 DEF Max

(* What is erased or torn is no body, and an empty entry is not whole.     *)
LEMMA PartLemma ==
    /\ kErased \notin Body /\ kTorn \notin Body /\ kErased # kTorn
    /\ kErased.counter = 0
    /\ kErased \in Part /\ kTorn \in Part /\ Body \subseteq Part
    /\ EmptyEntry \in Entry /\ ~ Whole(EmptyEntry)
    /\ \A e \in Entry : Whole(e) => /\ e.body.counter \in 1 .. MaxCounter
                                    /\ e.body.value \in Value
                                    /\ e # EmptyEntry
<1>1. kErased.counter = 0 /\ kTorn.counter = -1
    BY DEF kErased, kTorn
<1>2. kErased \notin Body /\ kTorn \notin Body /\ kErased # kTorn
    BY <1>1 DEF Body
<1>3. kErased \in Part /\ kTorn \in Part /\ Body \subseteq Part
    BY DEF Part
<1>4. EmptyEntry \in Entry /\ EmptyEntry.body = kErased
    BY <1>3 DEF EmptyEntry, Entry
<1> QED
    BY <1>1, <1>2, <1>3, <1>4 DEF Whole, Body

(* What the search of one page finds: its first empty entry, and before    *)
(* that its last valid one.                                                *)
LEMMA PageInfoLemma ==
    ASSUME FlashOK, NEW p \in Page
    PROVE  LET info == boot_data_page_info_update(p)
               first == info.first_empty_index
               last == info.last_valid_index
           IN  /\ info.page = p /\ info.has_valid_entry \in BOOLEAN
               /\ first \in 0 .. Entries
               /\ \A j \in Index : j < first => flash[p][j] # EmptyEntry
               /\ first < Entries => first \in Index /\ flash[p][first] = EmptyEntry
               /\ ~ info.has_valid_entry =>
                    /\ info.body = kErased
                    /\ \A j \in Index : j < first => ~ boot_data_check(flash[p][j])
               /\ info.has_valid_entry =>
                    /\ last \in Index /\ last < first
                    /\ boot_data_check(flash[p][last]) /\ info.body = flash[p][last].body
                    /\ \A j \in Index :
                         j < first /\ boot_data_check(flash[p][j]) => j <= last
<1> DEFINE empty == {i \in Index : boot_data_is_empty(flash[p][i])} \cup {Entries}
           first == Min(empty)
           valid == {i \in 0 .. first - 1 : boot_data_check(flash[p][i])}
<1>1. empty \in SUBSET Nat /\ empty # {} /\ empty \subseteq 0 .. Entries
    BY BootDataAssumption DEF Index
<1>2. first \in empty /\ \A y \in empty : first <= y
    BY <1>1, MinLemma
<1>3. first \in 0 .. Entries /\ first \in Nat /\ Entries \in Nat
    BY <1>1, <1>2, BootDataAssumption
<1>4. \A j \in Index : j < first => flash[p][j] # EmptyEntry
    <2> SUFFICES ASSUME NEW j \in Index, j < first, flash[p][j] = EmptyEntry
                 PROVE  FALSE
        OBVIOUS
    <2>1. j \in empty
        BY DEF boot_data_is_empty
    <2>2. first <= j /\ j \in Nat
        BY <1>2, <2>1, BootDataAssumption DEF Index
    <2> QED
        BY <1>3, <2>2
<1>5. first < Entries => first \in Index /\ flash[p][first] = EmptyEntry
    BY <1>2, <1>3 DEF boot_data_is_empty
<1>6. \A j \in Index : j < first /\ boot_data_check(flash[p][j]) => j \in valid
    BY <1>3, BootDataAssumption DEF Index
<1>7. valid # {} => /\ Max(valid) \in Index /\ Max(valid) < first
                    /\ boot_data_check(flash[p][Max(valid)])
                    /\ \A y \in valid : y <= Max(valid)
    <2> SUFFICES ASSUME valid # {}
                 PROVE  /\ Max(valid) \in Index /\ Max(valid) < first
                        /\ boot_data_check(flash[p][Max(valid)])
                        /\ \A y \in valid : y <= Max(valid)
        OBVIOUS
    <2>1. valid \in SUBSET (0 .. Entries) /\ valid \subseteq 0 .. first - 1
        BY <1>3
    <2>2. Max(valid) \in valid /\ \A y \in valid : Max(valid) >= y
        BY <1>3, <2>1, MaxLemma
    <2>3. \A y \in valid : y \in Nat /\ y < first /\ y \in Index
        BY <1>3, <2>1, BootDataAssumption DEF Index
    <2>4. boot_data_check(flash[p][Max(valid)])
        BY <2>2
    <2> QED
        BY <1>3, <2>2, <2>3, <2>4
<1> HIDE DEF empty
<1>8. boot_data_page_info_update(p) =
        [page |-> p, first_empty_index |-> first, has_valid_entry |-> valid # {},
         last_valid_index |-> IF valid = {} THEN Entries ELSE Max(valid),
         body |-> IF valid = {} THEN kErased ELSE flash[p][Max(valid)].body]
    BY DEF boot_data_page_info_update, empty
<1> HIDE DEF first, valid
<1>9. /\ boot_data_page_info_update(p).page = p
      /\ boot_data_page_info_update(p).first_empty_index = first
      /\ boot_data_page_info_update(p).has_valid_entry = (valid # {})
      /\ boot_data_page_info_update(p).last_valid_index =
           IF valid = {} THEN Entries ELSE Max(valid)
      /\ boot_data_page_info_update(p).body =
           IF valid = {} THEN kErased ELSE flash[p][Max(valid)].body
    BY <1>8
<1>10. CASE valid = {}
    BY <1>3, <1>4, <1>5, <1>6, <1>9, <1>10
<1>11. CASE valid # {}
    BY <1>3, <1>4, <1>5, <1>6, <1>7, <1>9, <1>11
<1> QED
    BY <1>10, <1>11

(* Without a whole entry the search finds no valid one.                    *)
LEMMA FindNone ==
    ASSUME FlashOK, NoWhole
    PROVE  /\ ~ boot_data_active_page_find.has_valid_entry
           /\ boot_data_active_page_find.body = kErased
<1>1. ASSUME NEW p \in Page
      PROVE  /\ ~ boot_data_page_info_update(p).has_valid_entry
             /\ boot_data_page_info_update(p).body = kErased
    <2>1. \A j \in Index : ~ boot_data_check(flash[p][j])
        BY DEF NoWhole, Whole, boot_data_check
    <2> QED
        BY <2>1, PageInfoLemma
<1>2. 0 \in Page /\ 1 \in Page
    BY DEF Page
<1> QED
    BY <1>1, <1>2 DEF boot_data_active_page_find

(* The search finds the newest entry, whatever is left of the other page.  *)
LEMMA FindNewest ==
    ASSUME FlashOK, Ordered, NEW p \in Page, NEW i \in Index, Newest(p, i)
    PROVE  /\ boot_data_active_page_find = boot_data_page_info_update(p)
           /\ boot_data_active_page_find.page = p
           /\ boot_data_active_page_find.has_valid_entry
           /\ boot_data_active_page_find.last_valid_index = i
           /\ boot_data_active_page_find.body = flash[p][i].body
<1> DEFINE info(q) == boot_data_page_info_update(q)
<1>1. /\ flash[p][i] \in Entry /\ Whole(flash[p][i]) /\ flash[p][i] # EmptyEntry
      /\ flash[p][i].body.counter \in 1 .. MaxCounter
      /\ boot_data_check(flash[p][i])
    BY PartLemma DEF FlashOK, Newest, Whole, boot_data_check
<1>2. /\ info(p).page = p /\ info(p).has_valid_entry
      /\ info(p).last_valid_index = i
      /\ info(p).body = flash[p][i].body
    <2> DEFINE first == info(p).first_empty_index
               last == info(p).last_valid_index
    <2>1. /\ info(p).page = p /\ info(p).has_valid_entry \in BOOLEAN
          /\ first \in 0 .. Entries
          /\ first < Entries => first \in Index /\ flash[p][first] = EmptyEntry
          /\ ~ info(p).has_valid_entry =>
               \A j \in Index : j < first => ~ boot_data_check(flash[p][j])
          /\ info(p).has_valid_entry =>
                /\ last \in Index /\ last < first
                /\ boot_data_check(flash[p][last]) /\ info(p).body = flash[p][last].body
                /\ \A j \in Index :
                     j < first /\ boot_data_check(flash[p][j]) => j <= last
        BY PageInfoLemma
    <2> HIDE DEF info
    <2>2. i < first
        <3>1. i \in Nat /\ i < Entries /\ Entries \in Nat
            BY BootDataAssumption DEF Index
        <3>2. first < i => flash[p][i] = EmptyEntry
            BY <2>1, <3>1 DEF Newest, Packed
        <3> QED
            BY <1>1, <2>1, <3>1, <3>2
    <2>3. info(p).has_valid_entry /\ i <= last /\ last \in Index
        BY <1>1, <2>1, <2>2
    <2>4. ~ (i < last)
        <3> SUFFICES ASSUME i < last PROVE FALSE
            OBVIOUS
        <3>1. Whole(flash[p][last]) /\ flash[p][last] \in Entry
            BY <2>1, <2>3 DEF boot_data_check, Whole, FlashOK
        <3>2. flash[p][i].body.counter < flash[p][last].body.counter
            BY <1>1, <2>3, <3>1 DEF Ordered
        <3>3. flash[p][last].body.counter < flash[p][i].body.counter
            <4>1. last # i
                BY <2>3 DEF Index
            <4>2. <<p, last>> # <<p, i>>
                BY <4>1
            <4> QED
                BY <2>3, <3>1, <4>2 DEF Newest
        <3> QED
            BY <1>1, <3>1, <3>2, <3>3, PartLemma
    <2>5. last = i
        BY <2>3, <2>4 DEF Index
    <2> QED
        BY <2>1, <2>3, <2>5
<1>3. /\ 1 - p \in Page /\ 1 - p # p
      /\ info(1 - p).body.counter \in Nat
      /\ info(1 - p).body.counter < flash[p][i].body.counter
    <2>1. 1 - p \in Page /\ 1 - p # p
        BY DEF Page
    <2>2. CASE ~ info(1 - p).has_valid_entry
        <3>1. info(1 - p).body = kErased
            BY <2>1, <2>2, PageInfoLemma
        <3> QED
            BY <1>1, <2>1, <3>1, PartLemma
    <2>3. CASE info(1 - p).has_valid_entry
        <3> DEFINE last == info(1 - p).last_valid_index
        <3>1. /\ last \in Index
              /\ boot_data_check(flash[1 - p][last])
              /\ info(1 - p).body = flash[1 - p][last].body
            BY <2>1, <2>3, PageInfoLemma
        <3> HIDE DEF last, info
        <3>2. Whole(flash[1 - p][last]) /\ flash[1 - p][last] \in Entry
            BY <2>1, <3>1 DEF boot_data_check, Whole, FlashOK
        <3>3. <<1 - p, last>> # <<p, i>>
            BY <2>1
        <3>4. flash[1 - p][last].body.counter < flash[p][i].body.counter
            BY <2>1, <3>1, <3>2, <3>3 DEF Newest
        <3> QED
            BY <2>1, <3>1, <3>2, <3>4, PartLemma
    <2> QED
        BY <2>1, <2>2, <2>3
<1>4. boot_data_active_page_find =
        IF info(1).body.counter > info(0).body.counter THEN info(1) ELSE info(0)
    BY DEF boot_data_active_page_find
<1> HIDE DEF info
<1>5. boot_data_active_page_find = info(p)
    <2>1. CASE p = 0
        BY <1>1, <1>2, <1>3, <1>4, <2>1
    <2>2. CASE p = 1
        BY <1>1, <1>2, <1>3, <1>4, <2>2
    <2> QED
        BY <2>1, <2>2 DEF Page
<1> QED
    BY <1>2, <1>5 DEF info

(* boot_data_read returns the newest entry, or the default without one.    *)
LEMMA ReadLemma == FlashOK /\ Ordered => ReadsNewest
<1> SUFFICES ASSUME FlashOK, Ordered PROVE ReadsNewest
    OBVIOUS
<1>1. NoWhole => boot_data_read = boot_data_default_get /\ LastCounter = 0
    BY FindNone, PartLemma DEF boot_data_read, LastCounter
<1>2. ASSUME NEW p \in Page, NEW i \in Index, Newest(p, i)
      PROVE  /\ boot_data_read = as_v2(flash[p][i].body.value)
             /\ LastCounter = flash[p][i].body.counter
    BY <1>2, FindNewest DEF boot_data_read, LastCounter
<1> QED
    BY <1>1, <1>2 DEF ReadsNewest
-----------------------------------------------------------------------------
(* The initial storage is a log, of one entry or of none.                  *)
LEMMA InitIInv == Init => IInv
<1> SUFFICES ASSUME Init PROVE IInv
    OBVIOUS
<1>1. PICK e \in {EmptyEntry} \cup
               {LET b == [counter |-> 1, value |-> v]
                IN  [digest |-> b, is_valid |-> TRUE, body |-> b] : v \in Version1} :
         flash = [p \in Page |-> [i \in Index |-> IF p = 0 /\ i = 0 THEN e ELSE EmptyEntry]]
    BY DEF Init
<1>2. todo = <<>> /\ ret = "none" /\ arg = None
    BY DEF Init
<1>3. e \in Entry /\ (e = EmptyEntry \/ (Whole(e) /\ e.is_valid))
    <2>1. CASE e = EmptyEntry
        BY <2>1, PartLemma
    <2>2. ASSUME NEW v \in Version1,
                 e = [digest |-> [counter |-> 1, value |-> v], is_valid |-> TRUE,
                      body |-> [counter |-> 1, value |-> v]]
          PROVE  e \in Entry /\ Whole(e) /\ e.is_valid
        <3>1. [counter |-> 1, value |-> v] \in Body
            BY BootDataAssumption DEF Body
        <3> QED
            BY <2>2, <3>1 DEF Entry, Part, Whole
    <2> QED
        BY <2>1, <2>2
<1>4. \A p \in Page, i \in Index :
         flash[p][i] = IF p = 0 /\ i = 0 THEN e ELSE EmptyEntry
    BY <1>1
<1>5. TypeOK /\ arg \notin Version1
    <2>1. flash \in [Page -> [Index -> Entry]]
        BY <1>1, <1>3, PartLemma
    <2> QED
        BY <1>2, <2>1, BootDataAssumption DEF TypeOK
<1>6. \A p \in Page, i \in Index : Whole(flash[p][i]) => p = 0 /\ i = 0
    BY <1>4, PartLemma
<1>7. Ordered
    BY <1>6 DEF Ordered
<1>8. Log
    <2>1. CASE e = EmptyEntry
        BY <1>4, <2>1, PartLemma DEF Log, NoWhole
    <2>2. CASE Whole(e) /\ e.is_valid
        <3>1. 0 \in Page /\ 0 \in Index
            BY BootDataAssumption DEF Page, Index
        <3>2. flash[0][0] = e
            BY <1>4, <3>1
        <3>3. e # EmptyEntry
            BY <2>2, PartLemma
        <3>4. Packed(0)
            BY <1>4, <3>1, <3>2, <3>3 DEF Packed, Index
        <3>5. Newest(0, 0)
            BY <1>6, <2>2, <3>2, <3>4 DEF Newest
        <3> QED
            BY <3>1, <3>5 DEF Log
    <2> QED
        BY <1>3, <2>1, <2>2
<1> QED
    BY <1>2, <1>5, <1>7, <1>8 DEF IInv

(* The rest of the flash is left alone when one entry changes.             *)
OneEntry(p, i, e) ==
    /\ e \in Entry
    /\ flash' = [flash EXCEPT ![p][i] = e]

(* Such a change leaves the flash well typed and every other entry as is.  *)
LEMMA OneEntryLemma ==
    ASSUME FlashOK, NEW p \in Page, NEW i \in Index, NEW e, OneEntry(p, i, e)
    PROVE  /\ flash' \in [Page -> [Index -> Entry]]
           /\ flash'[p][i] = e
           /\ \A q \in Page, j \in Index :
                <<q, j>> # <<p, i>> => flash'[q][j] = flash[q][j]
BY DEF FlashOK, OneEntry

(* A change to the entry being written that does not make it whole leaves  *)
(* the log as it is.                                                       *)
LEMMA NotYetLemma ==
    ASSUME FlashOK, Ordered, NEW p \in Page, NEW i \in Index, NEW e, OneEntry(p, i, e),
           Room(p, i), ~ Whole(flash[p][i]), ~ Whole(e)
    PROVE  /\ Ordered' /\ Room(p, i)' /\ (NoWhole => NoWhole')
           /\ \A q \in Page, k \in Index : Newest(q, k) =>
                /\ Newest(q, k)' /\ flash'[q][k] = flash[q][k]
                /\ <<q, k>> # <<p, i>>
<1>1. /\ flash'[p][i] = e
      /\ \A q \in Page, j \in Index : <<q, j>> # <<p, i>> => flash'[q][j] = flash[q][j]
    BY OneEntryLemma
<1>2. \A q \in Page, j \in Index : Whole(flash[q][j]) \/ Whole(flash'[q][j]) =>
         flash'[q][j] = flash[q][j] /\ <<q, j>> # <<p, i>>
    BY <1>1
<1>3. Ordered' /\ (NoWhole => NoWhole')
    BY <1>2 DEF Ordered, NoWhole, Whole
<1>4. Room(p, i)'
    <2>1. \A j \in Index : j < i \/ j > i => <<p, j>> # <<p, i>>
        BY DEF Index
    <2> QED
        BY <1>1, <2>1 DEF Room
<1>5. ASSUME NEW q \in Page, NEW k \in Index, Newest(q, k)
      PROVE  /\ Newest(q, k)' /\ flash'[q][k] = flash[q][k] /\ <<q, k>> # <<p, i>>
    <2>1. flash'[q][k] = flash[q][k] /\ <<q, k>> # <<p, i>>
        BY <1>2, <1>5 DEF Newest
    <2>2. Packed(q)'
        <3>1. CASE q = p
            BY <1>4, <3>1 DEF Room, Packed, Index
        <3>2. CASE q # p
            <4>1. \A j \in Index : flash'[q][j] = flash[q][j]
                BY <1>1, <3>2
            <4> QED
                BY <1>5, <4>1 DEF Newest, Packed
        <3> QED
            BY <3>1, <3>2
    <2>3. (Whole(flash[q][k]) /\ flash[q][k].is_valid)'
        BY <1>5, <2>1 DEF Newest, Whole
    <2>4. \A r \in Page, j \in Index :
            Whole(flash'[r][j]) /\ <<r, j>> # <<q, k>> =>
              flash'[r][j].body.counter < flash'[q][k].body.counter
        BY <1>2, <1>5, <2>1 DEF Newest
    <2> QED
        BY <2>1, <2>2, <2>3, <2>4 DEF Newest, Whole
<1> QED
    BY <1>3, <1>4, <1>5

(* An entry that becomes whole with a counter above all others is the      *)
(* newest.                                                                 *)
LEMMA CommitLemma ==
    ASSUME FlashOK, Ordered, NEW p \in Page, NEW i \in Index, NEW e, OneEntry(p, i, e),
           Room(p, i), ~ Whole(flash[p][i]), Whole(e), e.is_valid,
           \A q \in Page, j \in Index :
             Whole(flash[q][j]) => flash[q][j].body.counter < e.body.counter
    PROVE  Ordered' /\ Newest(p, i)'
<1>1. /\ flash'[p][i] = e
      /\ \A q \in Page, j \in Index : <<q, j>> # <<p, i>> => flash'[q][j] = flash[q][j]
    BY OneEntryLemma
<1>2. \A j \in Index : j > i => ~ Whole(flash'[p][j])
    <2>1. \A j \in Index : j > i => <<p, j>> # <<p, i>>
        BY DEF Index
    <2> QED
        BY <1>1, <2>1, PartLemma DEF Room
<1>3. \A q \in Page, j \in Index : Whole(flash'[q][j]) /\ <<q, j>> # <<p, i>> =>
         flash'[q][j].body.counter < flash'[p][i].body.counter
    BY <1>1
<1>4. \A q \in Page, j \in Index :
         flash[q][j] \in Entry /\ flash'[q][j] \in Entry
    BY OneEntryLemma DEF FlashOK
<1>5. Packed(p)'
    <2>1. \A j \in Index : /\ j < i => flash'[p][j] # EmptyEntry
                           /\ j > i => flash'[p][j] = EmptyEntry
        BY <1>1 DEF Room, Index
    <2>2. flash'[p][i] # EmptyEntry
        BY <1>1, PartLemma
    <2> QED
        BY <2>1, <2>2 DEF Packed, Index
<1>6. Newest(p, i)'
    BY <1>1, <1>3, <1>5 DEF Newest, Whole
<1>7. Ordered'
    <2> SUFFICES ASSUME NEW q \in Page, NEW r \in Page, NEW j \in Index, NEW k \in Index,
                        Whole(flash'[q][j]), Whole(flash'[r][k])
                 PROVE  /\ q = r /\ j < k =>
                             flash'[q][j].body.counter < flash'[r][k].body.counter
                        /\ q # r => flash'[q][j].body.counter # flash'[r][k].body.counter
        BY DEF Ordered, Whole
    <2>1. flash'[q][j].body.counter \in Nat /\ flash'[r][k].body.counter \in Nat
        BY <1>4, PartLemma
    <2>2. CASE <<q, j>> # <<p, i>> /\ <<r, k>> # <<p, i>>
        BY <1>1, <2>2 DEF Ordered
    <2>3. CASE q = p /\ j = i
        BY <1>2, <1>3, <2>1, <2>3 DEF Index
    <2>4. CASE r = p /\ k = i
        BY <1>2, <1>3, <2>1, <2>4 DEF Index
    <2> QED
        BY <2>2, <2>3, <2>4
<1> QED
    BY <1>6, <1>7

(* Erasing a page without the newest entry, or cutting that short, leaves  *)
(* the log as it is: what is whole afterwards was so before, and older.    *)
LEMMA EraseLemma ==
    ASSUME FlashOK, Ordered, NEW p \in Page, \A k \in Index : ~ Newest(p, k),
           \A q \in Page, j \in Index : q # p => flash'[q][j] = flash[q][j],
           \A j \in Index : Whole(flash'[p][j]) =>
             Whole(flash[p][j]) /\ flash'[p][j].body = flash[p][j].body
    PROVE  /\ Ordered' /\ (NoWhole => NoWhole')
           /\ \A q \in Page, k \in Index : Newest(q, k) =>
                Newest(q, k)' /\ flash'[q][k] = flash[q][k]
<1>1. \A q \in Page, j \in Index : Whole(flash'[q][j]) =>
         Whole(flash[q][j]) /\ flash'[q][j].body = flash[q][j].body
    OBVIOUS
<1>2. Ordered' /\ (NoWhole => NoWhole')
    BY <1>1 DEF Ordered, NoWhole, Whole
<1>3. ASSUME NEW q \in Page, NEW k \in Index, Newest(q, k)
      PROVE  Newest(q, k)' /\ flash'[q][k] = flash[q][k]
    <2>1. q # p
        BY <1>3
    <2>2. \A j \in Index : flash'[q][j] = flash[q][j]
        BY <2>1
    <2>3. (Whole(flash[q][k]) /\ flash[q][k].is_valid)' /\ Packed(q)'
        BY <1>3, <2>2 DEF Newest, Whole, Packed
    <2>4. \A r \in Page, j \in Index :
            Whole(flash'[r][j]) /\ <<r, j>> # <<q, k>> =>
              flash'[r][j].body.counter < flash'[q][k].body.counter
        BY <1>1, <1>3, <2>2 DEF Newest
    <2> QED
        BY <2>2, <2>3, <2>4 DEF Newest, Whole
<1> QED
    BY <1>2, <1>3

(* Invalidating another whole entry leaves the newest one the newest.      *)
LEMMA InvalidateLemma ==
    ASSUME FlashOK, Ordered, NEW p \in Page, NEW i \in Index, Newest(p, i),
           NEW q \in Page, NEW k \in Index, <<q, k>> # <<p, i>>, Whole(flash[q][k]),
           OneEntry(q, k, [flash[q][k] EXCEPT !.is_valid = FALSE])
    PROVE  Ordered' /\ Newest(p, i)' /\ flash'[p][i] = flash[p][i]
<1>1. flash[q][k] \in Entry
    BY DEF FlashOK
<1>2. /\ flash'[q][k].body = flash[q][k].body /\ flash'[q][k].digest = flash[q][k].digest
      /\ flash'[q][k] # EmptyEntry /\ flash[q][k] # EmptyEntry
      /\ \A r \in Page, j \in Index : <<r, j>> # <<q, k>> => flash'[r][j] = flash[r][j]
    <2>1. /\ flash'[q][k] = [flash[q][k] EXCEPT !.is_valid = FALSE]
          /\ \A r \in Page, j \in Index : <<r, j>> # <<q, k>> => flash'[r][j] = flash[r][j]
        BY OneEntryLemma
    <2>2. flash'[q][k].body = flash[q][k].body /\ flash'[q][k].digest = flash[q][k].digest
        BY <1>1, <2>1 DEF Entry
    <2>3. Whole(flash'[q][k])
        BY <2>2 DEF Whole
    <2> QED
        BY <1>1, <2>1, <2>2, <2>3, PartLemma
<1>3. \A r \in Page, j \in Index :
         /\ flash'[r][j].body = flash[r][j].body /\ flash'[r][j].digest = flash[r][j].digest
         /\ flash'[r][j] = EmptyEntry <=> flash[r][j] = EmptyEntry
    BY <1>2
<1>4. Ordered'
    BY <1>3 DEF Ordered, Whole
<1>5. flash'[p][i] = flash[p][i]
    BY <1>2
<1>6. Packed(p)'
    BY <1>3 DEF Newest, Packed
<1>7. Newest(p, i)'
    BY <1>3, <1>5, <1>6 DEF Newest, Whole
<1> QED
    BY <1>4, <1>5, <1>7

(* What each operation does to the flash when it is done.                  *)
LEMMA DoneLemma ==
    ASSUME FlashOK, NEW p \in Page, NEW i \in Index, NEW b \in Body
    PROVE  LET e == flash[p][i]
               Put(f) == [flash EXCEPT ![p][i] = f]
           IN  /\ Done(Op("erase", p, i, b)) = Erase(p)
               /\ Done(Op("digest", p, i, b)) =
                    Put([e EXCEPT !.digest = ProgramPart(e.digest, b)])
               /\ Done(Op("body", p, i, b)) =
                    Put([e EXCEPT !.body = ProgramPart(e.body, b)])
               /\ Done(Op("check", p, i, b)) = flash
               /\ Done(Op("invalidate", p, i, b)) = Put([e EXCEPT !.is_valid = FALSE])
<1> DEFINE e == flash[p][i]
           Put(f) == [flash EXCEPT ![p][i] = f]
           After(o) == [e EXCEPT
                          !.digest   = IF o.op = "digest" THEN ProgramPart(@, o.body) ELSE @,
                          !.body     = IF o.op = "body" THEN ProgramPart(@, o.body) ELSE @,
                          !.is_valid = @ /\ o.op # "invalidate"]
<1>1. e \in Entry /\ flash \in [Page -> [Index -> Entry]]
    BY DEF FlashOK
<1>2. ASSUME NEW name
      PROVE  /\ Op(name, p, i, b).op = name /\ Op(name, p, i, b).page = p
             /\ Op(name, p, i, b).index = i /\ Op(name, p, i, b).body = b
    BY DEF Op
<1>3. ASSUME NEW name, name # "erase"
      PROVE  Done(Op(name, p, i, b)) = Put(After(Op(name, p, i, b)))
    BY <1>2, <1>3 DEF Done
<1>4. Done(Op("erase", p, i, b)) = Erase(p)
    BY <1>2 DEF Done
<1>5. /\ After(Op("digest", p, i, b)) = [e EXCEPT !.digest = ProgramPart(e.digest, b)]
      /\ After(Op("body", p, i, b)) = [e EXCEPT !.body = ProgramPart(e.body, b)]
      /\ After(Op("check", p, i, b)) = e
      /\ After(Op("invalidate", p, i, b)) = [e EXCEPT !.is_valid = FALSE]
    <2> HIDE DEF e
    <2>1. e = [digest |-> e.digest, is_valid |-> e.is_valid, body |-> e.body]
          /\ e.is_valid \in BOOLEAN
        BY <1>1 DEF Entry
    <2>2. After(Op("digest", p, i, b)) = [e EXCEPT !.digest = ProgramPart(e.digest, b)]
        BY <1>1, <1>2, <2>1 DEF Entry
    <2>3. After(Op("body", p, i, b)) = [e EXCEPT !.body = ProgramPart(e.body, b)]
        BY <1>1, <1>2, <2>1 DEF Entry
    <2>4. After(Op("check", p, i, b)) = e
        <3>1. (e.is_valid /\ "check" # "invalidate") = e.is_valid
            BY <2>1, Zenon
        <3>2. After(Op("check", p, i, b)) =
                [e EXCEPT !.digest = e.digest, !.body = e.body, !.is_valid = e.is_valid]
            BY <1>2, <3>1, Zenon
        <3> HIDE DEF After
        <3> QED
            BY <2>1, <3>2
    <2>5. After(Op("invalidate", p, i, b)) = [e EXCEPT !.is_valid = FALSE]
        BY <1>1, <1>2, <2>1 DEF Entry
    <2> QED
        BY <2>2, <2>3, <2>4, <2>5
<1>6. Put(e) = flash
    BY <1>1
<1> HIDE DEF e, Put, After
<1> QED
    BY <1>3, <1>4, <1>5, <1>6 DEF e, Put

(* What each operation that was cut short may leave.                       *)
LEMMA UndoneLemma ==
    ASSUME FlashOK, NEW p \in Page, NEW i \in Index, NEW b \in Body
    PROVE  LET e == flash[p][i]
               Put(f) == [flash EXCEPT ![p][i] = f]
           IN  /\ Undone(Op("digest", p, i, b)) = {flash, Put([e EXCEPT !.digest = kTorn])}
               /\ Undone(Op("body", p, i, b)) = {flash, Put([e EXCEPT !.body = kTorn])}
               /\ Undone(Op("check", p, i, b)) = {flash}
               /\ Undone(Op("invalidate", p, i, b)) = {flash}
<1> DEFINE e == flash[p][i]
           Put(f) == [flash EXCEPT ![p][i] = f]
<1>1. Put(e) = flash
    BY DEF FlashOK
<1>2. ASSUME NEW name
      PROVE  /\ Op(name, p, i, b).op = name /\ Op(name, p, i, b).page = p
             /\ Op(name, p, i, b).index = i
    BY DEF Op
<1>3. /\ Torn(Op("digest", p, i, b)) = {e, [e EXCEPT !.digest = kTorn]}
      /\ Torn(Op("body", p, i, b)) = {e, [e EXCEPT !.body = kTorn]}
      /\ Torn(Op("check", p, i, b)) = {e}
      /\ Torn(Op("invalidate", p, i, b)) = {e}
    BY <1>2 DEF Torn
<1>4. ASSUME NEW name, name # "erase"
      PROVE  Undone(Op(name, p, i, b)) = {Put(f) : f \in Torn(Op(name, p, i, b))}
    <2> DEFINE o == Op(name, p, i, b)
    <2>1. o.op # "erase" /\ o.page = p /\ o.index = i
        BY <1>2, <1>4
    <2>2. Undone(o) = {[flash EXCEPT ![o.page][o.index] = d] : d \in Torn(o)}
        BY <2>1, Zenon DEF Undone
    <2> HIDE DEF o
    <2> QED
        BY <2>1, <2>2 DEF o
<1> HIDE DEF Put, e
<1>5. \A f : {Put(g) : g \in {e, f}} = {flash, Put(f)}
    BY <1>1
<1>6. {Put(g) : g \in {e}} = {flash}
    BY <1>1
<1> QED
    BY <1>3, <1>4, <1>5, <1>6 DEF Put, e
-----------------------------------------------------------------------------
(* The first of the operations to do, and the others.                      *)
LEMMA ConcatLemma ==
    ASSUME NEW S, NEW s \in Seq(S), s # <<>>, NEW t \in Seq(S)
    PROVE  /\ s \o t \in Seq(S) /\ s \o t # <<>>
           /\ Head(s \o t) = Head(s)
           /\ Tail(s \o t) = Tail(s) \o t
<1>1. /\ s \o t \in Seq(S) /\ Len(s \o t) = Len(s) + Len(t)
      /\ \A k \in 1 .. Len(s) + Len(t) :
           (s \o t)[k] = IF k <= Len(s) THEN s[k] ELSE t[k - Len(s)]
    BY ConcatProperties
<1>2. Len(s) \in Nat /\ Len(s) > 0 /\ Len(t) \in Nat
    BY EmptySeq, LenProperties
<1>3. s \o t # <<>> /\ Head(s \o t) = Head(s)
    BY <1>1, <1>2
<1>4. /\ Tail(s \o t) \in Seq(S) /\ Len(Tail(s \o t)) = Len(s) + Len(t) - 1
      /\ \A k \in 1 .. Len(s) + Len(t) - 1 : Tail(s \o t)[k] = (s \o t)[k + 1]
    BY <1>1, <1>2, <1>3, HeadTailProperties
<1>5. /\ Tail(s) \in Seq(S) /\ Len(Tail(s)) = Len(s) - 1
      /\ \A k \in 1 .. Len(s) - 1 : Tail(s)[k] = s[k + 1]
    BY <1>2, HeadTailProperties
<1>6. /\ Tail(s) \o t \in Seq(S) /\ Len(Tail(s) \o t) = Len(s) - 1 + Len(t)
      /\ \A k \in 1 .. Len(s) - 1 + Len(t) :
           (Tail(s) \o t)[k] = IF k <= Len(s) - 1 THEN Tail(s)[k] ELSE t[k - (Len(s) - 1)]
    BY <1>5, ConcatProperties
<1>7. \A k \in 1 .. Len(Tail(s \o t)) : Tail(s \o t)[k] = (Tail(s) \o t)[k]
    <2> SUFFICES ASSUME NEW k \in 1 .. Len(s) + Len(t) - 1
                 PROVE  Tail(s \o t)[k] = (Tail(s) \o t)[k]
        BY <1>4
    <2>1. Tail(s \o t)[k] = IF k + 1 <= Len(s) THEN s[k + 1] ELSE t[k + 1 - Len(s)]
        BY <1>1, <1>2, <1>4
    <2>2. (Tail(s) \o t)[k] = IF k <= Len(s) - 1 THEN s[k + 1] ELSE t[k - (Len(s) - 1)]
        BY <1>2, <1>5, <1>6
    <2>3. /\ k + 1 <= Len(s) <=> k <= Len(s) - 1
          /\ k + 1 - Len(s) = k - (Len(s) - 1)
        BY <1>2
    <2> QED
        BY <2>1, <2>2, <2>3
<1>8. Tail(s \o t) = Tail(s) \o t
    <2>1. Len(Tail(s \o t)) = Len(Tail(s) \o t)
        BY <1>2, <1>4, <1>6
    <2> QED
        BY <1>4, <1>6, <1>7, <2>1, SeqEqual
<1> QED
    BY <1>1, <1>3, <1>8

(* The five operations of a write in order, the erase and the last one     *)
(* only where they are needed.                                             *)
LEMMA TodoLemma ==
    ASSUME NEW p \in Page, NEW i \in Index, NEW b \in Body,
           NEW inv \in Invalidations(b)
    PROVE  LET erase == boot_data_entry_write(p, i, b, TRUE) \o inv
               digest == boot_data_entry_write(p, i, b, FALSE) \o inv
               body == <<Op("body", p, i, b), Op("check", p, i, b)>> \o inv
               check == <<Op("check", p, i, b)>> \o inv
           IN  /\ erase # <<>> /\ Head(erase) = Op("erase", p, i, b) /\ Tail(erase) = digest
               /\ digest # <<>> /\ Head(digest) = Op("digest", p, i, b) /\ Tail(digest) = body
               /\ body # <<>> /\ Head(body) = Op("body", p, i, b) /\ Tail(body) = check
               /\ check # <<>> /\ Head(check) = Op("check", p, i, b) /\ Tail(check) = inv
               /\ inv # <<>> => \E q \in Page, k \in Index :
                    /\ inv = boot_data_entry_invalidate(q, k, b)
                    /\ Head(inv) = Op("invalidate", q, k, b) /\ Tail(inv) = <<>>
<1> DEFINE S == {Op(n, q, k, b) : n \in {"erase", "digest", "body", "check", "invalidate"},
                                  q \in Page, k \in Index}
           e == Op("erase", p, i, b)
           d == Op("digest", p, i, b)
           y == Op("body", p, i, b)
           c == Op("check", p, i, b)
<1>1. e \in S /\ d \in S /\ y \in S /\ c \in S
    OBVIOUS
<1>2. \A q \in Page, k \in Index : Op("invalidate", q, k, b) \in S
    OBVIOUS
<1> HIDE DEF S, e, d, y, c
<1>3. /\ <<e, d, y, c>> \in Seq(S) /\ <<e, d, y, c>> # <<>>
      /\ Head(<<e, d, y, c>>) = e /\ Tail(<<e, d, y, c>>) = <<d, y, c>>
    BY <1>1
<1>4. /\ <<d, y, c>> \in Seq(S) /\ <<d, y, c>> # <<>>
      /\ Head(<<d, y, c>>) = d /\ Tail(<<d, y, c>>) = <<y, c>>
    BY <1>1
<1>5. /\ <<y, c>> \in Seq(S) /\ <<y, c>> # <<>>
      /\ Head(<<y, c>>) = y /\ Tail(<<y, c>>) = <<c>>
    BY <1>1
<1>6. /\ <<c>> \in Seq(S) /\ <<c>> # <<>>
      /\ Head(<<c>>) = c /\ Tail(<<c>>) = <<>>
    BY <1>1
<1>7. ASSUME NEW q \in Page, NEW k \in Index, inv = boot_data_entry_invalidate(q, k, b)
      PROVE  /\ inv \in Seq(S)
             /\ Head(inv) = Op("invalidate", q, k, b) /\ Tail(inv) = <<>>
    <2> DEFINE x == Op("invalidate", q, k, b)
    <2>1. x \in S /\ inv = <<x>>
        BY <1>2, <1>7 DEF boot_data_entry_invalidate
    <2> HIDE DEF x
    <2>2. inv \in Seq(S) /\ Head(inv) = x /\ Tail(inv) = <<>>
        BY <2>1
    <2> QED
        BY <2>2 DEF x
<1>8. inv = <<>> \/ \E q \in Page, k \in Index : inv = boot_data_entry_invalidate(q, k, b)
    BY DEF Invalidations
<1>9. inv \in Seq(S)
    <2>1. CASE inv = <<>>
        BY <2>1
    <2> QED
        BY <1>7, <1>8, <2>1
<1>10. /\ boot_data_entry_write(p, i, b, TRUE) = <<e, d, y, c>>
       /\ boot_data_entry_write(p, i, b, FALSE) = <<d, y, c>>
    <2>1. <<d, y, c>> \in Seq(S) /\ <<e>> \in Seq(S)
        BY <1>1
    <2>2. <<>> \o <<d, y, c>> = <<d, y, c>>
        BY <2>1, ConcatEmptySeq
    <2>3. <<e>> \o <<d, y, c>> = <<e, d, y, c>>
        <3> DEFINE u == <<e>> \o <<d, y, c>>
                   w == <<e, d, y, c>>
        <3>1. u \in Seq(S) /\ Len(u) = 4 /\ u[1] = e /\ u[2] = d /\ u[3] = y /\ u[4] = c
            BY <1>1
        <3>2. w \in Seq(S) /\ Len(w) = 4 /\ w[1] = e /\ w[2] = d /\ w[3] = y /\ w[4] = c
            BY <1>1
        <3> HIDE DEF u, w
        <3>3. \A k \in 1 .. Len(u) : u[k] = w[k]
            BY <3>1, <3>2
        <3>4. u = w
            BY <3>1, <3>2, <3>3, SeqEqual
        <3> QED
            BY <3>4 DEF u, w
    <2> QED
        BY <2>2, <2>3, Zenon DEF boot_data_entry_write, e, d, y, c
<1>11. Tail(<<c>>) \o inv = inv
    BY <1>6, <1>9, ConcatEmptySeq
<1>12. /\ <<e, d, y, c>> \o inv # <<>> /\ Head(<<e, d, y, c>> \o inv) = e
       /\ Tail(<<e, d, y, c>> \o inv) = <<d, y, c>> \o inv
    BY <1>3, <1>9, ConcatLemma
<1>13. /\ <<d, y, c>> \o inv # <<>> /\ Head(<<d, y, c>> \o inv) = d
       /\ Tail(<<d, y, c>> \o inv) = <<y, c>> \o inv
    BY <1>4, <1>9, ConcatLemma
<1>14. /\ <<y, c>> \o inv # <<>> /\ Head(<<y, c>> \o inv) = y
       /\ Tail(<<y, c>> \o inv) = <<c>> \o inv
    BY <1>5, <1>9, ConcatLemma
<1>15. /\ <<c>> \o inv # <<>> /\ Head(<<c>> \o inv) = c /\ Tail(<<c>> \o inv) = inv
    BY <1>6, <1>9, <1>11, ConcatLemma
<1> QED
    BY <1>7, <1>8, <1>10, <1>12, <1>13, <1>14, <1>15, Zenon DEF e, d, y, c
-----------------------------------------------------------------------------
(* The predecessor of a new entry is older than it.                        *)
LEMMA OlderLemma ==
    ASSUME FlashOK, NEW b \in Body, NEW inv, Predecessor(b, inv)
    PROVE  /\ Log
           /\ \A q \in Page, j \in Index :
                Whole(flash[q][j]) => flash[q][j].body.counter < b.counter
<1>1. CASE NoWhole
    BY <1>1 DEF NoWhole, Log
<1>2. ASSUME NEW q \in Page, NEW k \in Index, Newest(q, k),
             b.counter = flash[q][k].body.counter + 1
      PROVE  /\ Log
             /\ \A r \in Page, j \in Index :
                  Whole(flash[r][j]) => flash[r][j].body.counter < b.counter
    <2>1. \A r \in Page, j \in Index : Whole(flash[r][j]) =>
             flash[r][j].body.counter \in Nat /\ b.counter \in Nat
        BY PartLemma DEF FlashOK, Body
    <2>2. Whole(flash[q][k])
        BY <1>2 DEF Newest
    <2>3. ASSUME NEW r \in Page, NEW j \in Index, Whole(flash[r][j])
          PROVE  flash[r][j].body.counter < b.counter
        <3>1. CASE <<r, j>> = <<q, k>>
            BY <1>2, <2>1, <2>2, <3>1
        <3>2. CASE <<r, j>> # <<q, k>>
            BY <1>2, <2>1, <2>2, <2>3, <3>2 DEF Newest
        <3> QED
            BY <3>1, <3>2
    <2> QED
        BY <1>2, <2>3 DEF Log
<1> QED
    BY <1>1, <1>2 DEF Predecessor

(* A step that leaves the newest entry alone changes neither what          *)
(* boot_data_read returns nor the predecessor of the entry being written.  *)
LEMMA SameLemma ==
    ASSUME FlashOK, Ordered, FlashOK', Ordered',
           NEW b \in Body, NEW inv, Predecessor(b, inv),
           NoWhole => NoWhole',
           \A q \in Page, k \in Index : Newest(q, k) =>
             Newest(q, k)' /\ flash'[q][k] = flash[q][k]
    PROVE  /\ Predecessor(b, inv)' /\ Log'
           /\ boot_data_read' = boot_data_read
<1>1. ReadsNewest /\ ReadsNewest'
    BY ReadLemma, PTL
<1>2. boot_data_default_get' = boot_data_default_get
    BY DEF boot_data_default_get
<1>3. CASE NoWhole /\ inv = <<>> /\ b.counter = 1
    <2>1. Predecessor(b, inv)' /\ Log'
        BY <1>3 DEF Predecessor, Log
    <2>2. NoWhole'
        BY <1>3
    <2> QED
        BY <1>1, <1>2, <1>3, <2>1, <2>2 DEF ReadsNewest
<1>4. ASSUME NEW q \in Page, NEW k \in Index, Newest(q, k),
             inv = boot_data_entry_invalidate(q, k, b),
             b.counter = flash[q][k].body.counter + 1
      PROVE  Predecessor(b, inv)' /\ Log' /\ boot_data_read' = boot_data_read
    <2>1. Newest(q, k)' /\ flash'[q][k] = flash[q][k]
        BY <1>4
    <2>2. Predecessor(b, inv)' /\ Log'
        BY <1>4, <2>1 DEF Predecessor, Log
    <2>3. /\ boot_data_read = as_v2(flash[q][k].body.value)
          /\ boot_data_read' = as_v2(flash'[q][k].body.value)
        BY <1>1, <1>4, <2>1 DEF ReadsNewest
    <2> QED
        BY <2>1, <2>2, <2>3
<1> QED
    BY <1>3, <1>4 DEF Predecessor

(* The erase of the other page, done or cut short: the log is as before,   *)
(* and once it is done entry 0 is the one to be written.                   *)
LEMMA EraseStep ==
    ASSUME FlashOK, Ordered, NEW p \in Page, NEW i \in Index, NEW b \in Body, NEW inv,
           Predecessor(b, inv), \A k \in Index : ~ Newest(p, k),
           flash' \in {Erase(p)} \cup HalfErased(p)
    PROVE  /\ FlashOK' /\ Ordered' /\ Log' /\ Predecessor(b, inv)'
           /\ boot_data_read' = boot_data_read
           /\ flash' = Erase(p) => Room(p, 0)' /\ flash'[p][i] = EmptyEntry
<1> DEFINE torn == [digest |-> kTorn, is_valid |-> TRUE, body |-> kTorn]
           half(d) == {d, [d EXCEPT !.is_valid = TRUE], EmptyEntry, torn}
<1>1. torn \in Entry /\ ~ Whole(torn)
    BY PartLemma DEF Entry, Whole
<1>2. ASSUME NEW d \in Entry, NEW f \in half(d)
      PROVE  f \in Entry /\ (Whole(f) => Whole(d) /\ f.body = d.body)
    <2>1. CASE f = [d EXCEPT !.is_valid = TRUE]
        <3>1. f \in Entry /\ f.body = d.body /\ f.digest = d.digest
            BY <2>1 DEF Entry
        <3> QED
            BY <3>1 DEF Whole
    <2> QED
        BY <1>1, <2>1, PartLemma
<1>3. \E g \in [Index -> Entry] :
         /\ flash' = [flash EXCEPT ![p] = g]
         /\ \A j \in Index : g[j] \in half(flash[p][j])
    <2>1. CASE flash' = Erase(p)
        <3> DEFINE g == [j \in Index |-> EmptyEntry]
        <3>1. g \in [Index -> Entry] /\ \A j \in Index : g[j] \in half(flash[p][j])
            BY PartLemma
        <3>2. flash' = [flash EXCEPT ![p] = g]
            BY <2>1 DEF Erase
        <3> HIDE DEF g
        <3> QED
            BY <3>1, <3>2, Zenon
    <2>2. CASE flash' \in HalfErased(p)
        <3>1. PICK g \in [Index -> UNION {half(flash[p][j]) : j \in Index}] :
                 /\ flash' = [flash EXCEPT ![p] = g]
                 /\ \A j \in Index : g[j] \in half(flash[p][j])
            BY <2>2, Zenon DEF HalfErased
        <3> HIDE DEF half
        <3>2. \A j \in Index : g[j] \in Entry
            BY <1>2, <3>1 DEF FlashOK
        <3>3. g \in [Index -> Entry]
            BY <3>1, <3>2
        <3> QED
            BY <3>1, <3>3
    <2> QED
        BY <2>1, <2>2
<1>4. PICK g \in [Index -> Entry] : /\ flash' = [flash EXCEPT ![p] = g]
                                    /\ \A j \in Index : g[j] \in half(flash[p][j])
    BY <1>3
<1> HIDE DEF half
<1>5. FlashOK' /\ flash'[p] = g /\ \A q \in Page : q # p => flash'[q] = flash[q]
    BY <1>4 DEF FlashOK
<1>6. \A j \in Index : Whole(flash'[p][j]) =>
         Whole(flash[p][j]) /\ flash'[p][j].body = flash[p][j].body
    BY <1>2, <1>4, <1>5 DEF FlashOK
<1>7. /\ Ordered' /\ (NoWhole => NoWhole')
      /\ \A q \in Page, k \in Index : Newest(q, k) =>
           Newest(q, k)' /\ flash'[q][k] = flash[q][k]
    BY <1>5, <1>6, EraseLemma
<1>8. flash' = Erase(p) => Room(p, 0)' /\ flash'[p][i] = EmptyEntry
    <2> SUFFICES ASSUME flash' = Erase(p) PROVE Room(p, 0)' /\ flash'[p][i] = EmptyEntry
        OBVIOUS
    <2>1. \A j \in Index : flash'[p][j] = EmptyEntry
        BY DEF Erase, FlashOK
    <2>2. \A j \in Index : ~ (j < 0)
        BY DEF Index
    <2> QED
        BY <2>1, <2>2 DEF Room
<1>9. /\ Predecessor(b, inv)' /\ Log' /\ boot_data_read' = boot_data_read
    BY <1>5, <1>7, SameLemma
<1> QED
    BY <1>5, <1>7, <1>8, <1>9

(* The digest of the new entry, written or torn: the log is as before.     *)
LEMMA DigestStep ==
    ASSUME FlashOK, Ordered, NEW p \in Page, NEW i \in Index, NEW b \in Body, NEW inv,
           Predecessor(b, inv), Room(p, i), flash[p][i] = EmptyEntry,
           flash' \in {Done(Op("digest", p, i, b))} \cup Undone(Op("digest", p, i, b))
    PROVE  /\ FlashOK' /\ Ordered' /\ Log' /\ Predecessor(b, inv)'
           /\ boot_data_read' = boot_data_read
           /\ Room(p, i)' /\ flash'[p][i].body = kErased /\ flash'[p][i].is_valid
           /\ flash'[p][i].digest \in {b, kTorn, kErased}
<1>1. /\ EmptyEntry \in Entry /\ EmptyEntry.body = kErased /\ EmptyEntry.digest = kErased
      /\ EmptyEntry.is_valid = TRUE
    BY PartLemma DEF EmptyEntry
<1>2. PICK e \in {EmptyEntry, [EmptyEntry EXCEPT !.digest = b],
                  [EmptyEntry EXCEPT !.digest = kTorn]} :
         flash' = [flash EXCEPT ![p][i] = e]
    <2>1. flash = [flash EXCEPT ![p][i] = EmptyEntry]
        BY DEF FlashOK
    <2>2. Done(Op("digest", p, i, b)) =
            [flash EXCEPT ![p][i] = [EmptyEntry EXCEPT !.digest = b]]
        BY <1>1, DoneLemma DEF ProgramPart
    <2>3. Undone(Op("digest", p, i, b)) =
            {flash, [flash EXCEPT ![p][i] = [EmptyEntry EXCEPT !.digest = kTorn]]}
        BY UndoneLemma
    <2> QED
        BY <2>1, <2>2, <2>3
<1>3. /\ e \in Entry /\ e.body = kErased /\ e.is_valid = TRUE
      /\ e.digest \in {b, kTorn, kErased}
    BY <1>1, PartLemma DEF EmptyEntry, Entry
<1>4. OneEntry(p, i, e) /\ ~ Whole(e) /\ ~ Whole(flash[p][i])
    BY <1>2, <1>3, PartLemma DEF OneEntry, Whole
<1>5. FlashOK' /\ flash'[p][i] = e
    BY <1>4, OneEntryLemma DEF FlashOK
<1>6. /\ Ordered' /\ Room(p, i)' /\ (NoWhole => NoWhole')
      /\ \A q \in Page, k \in Index : Newest(q, k) =>
           Newest(q, k)' /\ flash'[q][k] = flash[q][k]
    BY <1>4, NotYetLemma
<1>7. Predecessor(b, inv)' /\ Log' /\ boot_data_read' = boot_data_read
    BY <1>5, <1>6, SameLemma
<1> QED
    BY <1>3, <1>5, <1>6, <1>7

(* The body of the new entry: with its digest in place this is what makes  *)
(* the entry the newest, else the log is as before.                        *)
LEMMA BodyStep ==
    ASSUME FlashOK, Ordered, NEW p \in Page, NEW i \in Index, NEW b \in Body, NEW inv,
           b.value \in Value \ Version1,
           Predecessor(b, inv), Room(p, i),
           flash[p][i].body = kErased, flash[p][i].is_valid,
           flash[p][i].digest \in {b, kTorn, kErased},
           flash' \in {Done(Op("body", p, i, b))} \cup Undone(Op("body", p, i, b))
    PROVE  /\ FlashOK' /\ Ordered' /\ Log'
           /\ \/ /\ Predecessor(b, inv)' /\ ~ Whole(flash'[p][i])
                 /\ boot_data_read' = boot_data_read
              \/ /\ Newest(p, i)' /\ flash'[p][i].body = b
                 /\ boot_data_read' = b.value
                 /\ \A q \in Page, k \in Index :
                      inv = boot_data_entry_invalidate(q, k, b) =>
                        Whole(flash'[q][k]) /\ <<q, k>> # <<p, i>>
<1> DEFINE old == flash[p][i]
<1>1. old \in Entry /\ ~ Whole(old)
    BY PartLemma DEF FlashOK, Whole
<1>2. PICK e \in {old, [old EXCEPT !.body = b], [old EXCEPT !.body = kTorn]} :
         flash' = [flash EXCEPT ![p][i] = e]
    <2>1. flash = [flash EXCEPT ![p][i] = old]
        BY DEF FlashOK
    <2>2. Done(Op("body", p, i, b)) = [flash EXCEPT ![p][i] = [old EXCEPT !.body = b]]
        BY DoneLemma DEF ProgramPart
    <2>3. Undone(Op("body", p, i, b)) =
            {flash, [flash EXCEPT ![p][i] = [old EXCEPT !.body = kTorn]]}
        BY UndoneLemma
    <2> QED
        BY <2>1, <2>2, <2>3
<1>3. /\ e \in Entry /\ e.digest = old.digest /\ e.is_valid
      /\ e.body \in {kErased, b, kTorn}
    <2> HIDE DEF old
    <2>1. old.body = kErased /\ old.is_valid
        BY DEF old
    <2> QED
        BY <1>1, <2>1, PartLemma DEF Entry
<1>4. OneEntry(p, i, e)
    BY <1>2, <1>3 DEF OneEntry
<1>5. FlashOK' /\ flash'[p][i] = e
    BY <1>4, OneEntryLemma DEF FlashOK
<1>6. CASE ~ Whole(e)
    <2>1. /\ Ordered' /\ (NoWhole => NoWhole')
          /\ \A q \in Page, k \in Index : Newest(q, k) =>
               Newest(q, k)' /\ flash'[q][k] = flash[q][k]
        BY <1>1, <1>4, <1>6, NotYetLemma
    <2>2. Predecessor(b, inv)' /\ Log' /\ boot_data_read' = boot_data_read
        BY <1>5, <2>1, SameLemma
    <2> QED
        BY <1>5, <1>6, <2>1, <2>2
<1>7. CASE Whole(e)
    <2>1. e.body = b
        BY <1>3, <1>7, PartLemma DEF Whole
    <2>2. \A q \in Page, j \in Index :
             Whole(flash[q][j]) => flash[q][j].body.counter < e.body.counter
        BY <2>1, OlderLemma
    <2>3. Ordered' /\ Newest(p, i)'
        BY <1>1, <1>3, <1>4, <1>7, <2>2, CommitLemma
    <2>4. Log'
        BY <2>3 DEF Log
    <2>5. boot_data_read' = b.value
        <3>1. ReadsNewest'
            BY <1>5, <2>3, ReadLemma, PTL
        <3>2. boot_data_read' = as_v2(flash'[p][i].body.value)
            BY <2>3, <3>1 DEF ReadsNewest
        <3> QED
            BY <1>5, <2>1, <3>2, BootDataAssumption
    <2>6. ASSUME NEW q \in Page, NEW k \in Index,
                 inv = boot_data_entry_invalidate(q, k, b)
          PROVE  Whole(flash'[q][k]) /\ <<q, k>> # <<p, i>>
        <3>1. Newest(q, k)
            <4>1. inv # <<>>
                BY <2>6 DEF boot_data_entry_invalidate
            <4>2. PICK r \in Page, j \in Index :
                     Newest(r, j) /\ inv = boot_data_entry_invalidate(r, j, b)
                BY <4>1 DEF Predecessor
            <4>3. Op("invalidate", q, k, b) = Op("invalidate", r, j, b)
                BY <2>6, <4>2 DEF boot_data_entry_invalidate
            <4>4. q = r /\ k = j
                BY <4>3 DEF Op
            <4> QED
                BY <4>2, <4>4
        <3>2. Whole(flash[q][k]) /\ <<q, k>> # <<p, i>>
            BY <1>1, <3>1 DEF Newest
        <3>3. flash'[q][k] = flash[q][k]
            BY <1>4, <3>2, OneEntryLemma
        <3> QED
            BY <3>2, <3>3
    <2> QED
        BY <1>5, <2>1, <2>3, <2>4, <2>5, <2>6
<1> QED
    BY <1>6, <1>7

(* What is read is a matter of the flash alone.                            *)
LEMMA SameFlash ==
    ASSUME FlashOK, Ordered, Log, flash' = flash
    PROVE  /\ FlashOK' /\ Ordered' /\ Log' /\ boot_data_read' = boot_data_read
           /\ \A p \in Page, i \in Index : Newest(p, i) => Newest(p, i)'
<1>1. FlashOK' /\ Ordered'
    BY DEF FlashOK, Ordered, Whole
<1>2. /\ NoWhole => NoWhole'
      /\ \A p \in Page, i \in Index : Newest(p, i) => Newest(p, i)'
    BY DEF NoWhole, Newest, Whole, Packed
<1>3. Log'
    BY <1>2 DEF Log
<1>4. ReadsNewest /\ ReadsNewest'
    BY <1>1, ReadLemma, PTL
<1>5. boot_data_default_get' = boot_data_default_get
    BY DEF boot_data_default_get
<1>6. boot_data_read' = boot_data_read
    <2>1. CASE NoWhole
        BY <1>2, <1>4, <1>5, <2>1 DEF ReadsNewest
    <2>2. ASSUME NEW p \in Page, NEW i \in Index, Newest(p, i)
          PROVE  boot_data_read' = boot_data_read
        BY <1>2, <1>4, <2>2 DEF ReadsNewest
    <2> QED
        BY <2>1, <2>2 DEF Log
<1> QED
    BY <1>1, <1>2, <1>3, <1>6

(* The write goes on: its operation is done, or the failure not reported.  *)
Progress ==
    \/ Checked(Head(todo)) /\ flash' = Done(Head(todo))
    \/ Head(todo).op \in {"digest", "body"}

(* One operation of a write, done or not: the log stays a log, what        *)
(* boot_data_read returns is as before or the new value, and when the      *)
(* write goes on its next operation finds what it needs.                   *)
LEMMA OpLemma ==
    ASSUME IInv, todo # <<>>,
           flash' \in {Done(Head(todo))} \cup Undone(Head(todo))
    PROVE  /\ FlashOK' /\ Ordered' /\ Log'
           /\ boot_data_read' \in {boot_data_read, arg}
           /\ arg' = arg /\ todo' = Tail(todo) /\ Progress => Writing'
<1>1. FlashOK /\ Ordered /\ Log /\ arg # None /\ Writing /\ arg \in Value \ Version1
    BY DEF IInv, TypeOK, FlashOK
<1>2. PICK p \in Page, i \in Index, b \in Body : \E inv \in Invalidations(b) :
         b.value = arg /\ (Pending(p, i, b, inv) \/ Written(p, i, b, inv))
    BY <1>1 DEF Writing
<1>3. PICK inv \in Invalidations(b) :
         b.value = arg /\ (Pending(p, i, b, inv) \/ Written(p, i, b, inv))
    BY <1>2
<1>4. ASSUME arg' = arg, Pending(p, i, b, inv)' \/ Written(p, i, b, inv)'
      PROVE  Writing'
    <2>1. b.value = arg'
        BY <1>3, <1>4
    <2>2. \E x \in Page, y \in Index, z \in Body : \E w \in Invalidations(z) :
             z.value = arg' /\ (Pending(x, y, z, w)' \/ Written(x, y, z, w)')
        BY <1>4, <2>1
    <2> QED
        BY <2>2 DEF Writing
<1>5. \A name : Op(name, p, i, b).op = name
    BY DEF Op
<1>6. CASE /\ Predecessor(b, inv)
           /\ todo = boot_data_entry_write(p, i, b, TRUE) \o inv
           /\ i = 0 /\ \A k \in Index : ~ Newest(p, k)
    <2>1. /\ Head(todo) = Op("erase", p, i, b)
          /\ Tail(todo) = boot_data_entry_write(p, i, b, FALSE) \o inv
        BY <1>6, TodoLemma
    <2>2. Done(Head(todo)) = Erase(p) /\ Undone(Head(todo)) = HalfErased(p)
        <3>1. Op("erase", p, i, b).page = p
            BY DEF Op
        <3> QED
            BY <1>1, <1>5, <2>1, <3>1, DoneLemma DEF Undone
    <2>3. /\ FlashOK' /\ Ordered' /\ Log' /\ Predecessor(b, inv)'
          /\ boot_data_read' = boot_data_read
          /\ flash' = Erase(p) => Room(p, 0)' /\ flash'[p][i] = EmptyEntry
        BY <1>1, <1>6, <2>2, EraseStep
    <2>4. ASSUME arg' = arg, todo' = Tail(todo), Progress
          PROVE  Writing'
        <3>1. flash' = Erase(p)
            BY <1>5, <2>1, <2>2, <2>4 DEF Progress
        <3>2. Pending(p, i, b, inv)'
            BY <1>6, <2>1, <2>3, <2>4, <3>1 DEF Pending
        <3> QED
            BY <1>4, <2>4, <3>2
    <2> QED
        BY <2>3, <2>4
<1>7. CASE /\ Predecessor(b, inv)
           /\ todo = boot_data_entry_write(p, i, b, FALSE) \o inv
           /\ Room(p, i) /\ flash[p][i] = EmptyEntry
    <2>1. /\ Head(todo) = Op("digest", p, i, b)
          /\ Tail(todo) = <<Op("body", p, i, b), Op("check", p, i, b)>> \o inv
        BY <1>7, TodoLemma
    <2>2. /\ FlashOK' /\ Ordered' /\ Log' /\ Predecessor(b, inv)'
          /\ boot_data_read' = boot_data_read
          /\ Room(p, i)' /\ flash'[p][i].body = kErased /\ flash'[p][i].is_valid
          /\ flash'[p][i].digest \in {b, kTorn, kErased}
        BY <1>1, <1>7, <2>1, DigestStep
    <2>3. ASSUME arg' = arg, todo' = Tail(todo) PROVE Writing'
        <3>1. Pending(p, i, b, inv)'
            BY <2>1, <2>2, <2>3 DEF Pending
        <3> QED
            BY <1>4, <2>3, <3>1
    <2> QED
        BY <2>2, <2>3
<1>8. CASE /\ Predecessor(b, inv)
           /\ todo = <<Op("body", p, i, b), Op("check", p, i, b)>> \o inv
           /\ Room(p, i)
           /\ flash[p][i].body = kErased /\ flash[p][i].is_valid
           /\ flash[p][i].digest \in {b, kTorn, kErased}
    <2>1. Head(todo) = Op("body", p, i, b) /\ Tail(todo) = <<Op("check", p, i, b)>> \o inv
        BY <1>8, TodoLemma
    <2>2. /\ FlashOK' /\ Ordered' /\ Log'
          /\ \/ /\ Predecessor(b, inv)' /\ ~ Whole(flash'[p][i])
                /\ boot_data_read' = boot_data_read
             \/ /\ Newest(p, i)' /\ flash'[p][i].body = b
                /\ boot_data_read' = b.value
                /\ \A q \in Page, k \in Index :
                     inv = boot_data_entry_invalidate(q, k, b) =>
                       Whole(flash'[q][k]) /\ <<q, k>> # <<p, i>>
        BY <1>1, <1>3, <1>8, <2>1, BodyStep
    <2>3. ASSUME arg' = arg, todo' = Tail(todo) PROVE Writing'
        <3>1. CASE Predecessor(b, inv)' /\ ~ Whole(flash'[p][i])
            <4>1. Pending(p, i, b, inv)'
                BY <2>1, <2>3, <3>1 DEF Pending, Whole
            <4> QED
                BY <1>4, <2>3, <4>1
        <3>2. CASE /\ Newest(p, i)' /\ flash'[p][i].body = b
                   /\ \A q \in Page, k \in Index :
                        inv = boot_data_entry_invalidate(q, k, b) =>
                          Whole(flash'[q][k]) /\ <<q, k>> # <<p, i>>
            <4>1. Written(p, i, b, inv)'
                BY <2>1, <2>3, <3>2 DEF Written, Whole
            <4> QED
                BY <1>4, <2>3, <4>1
        <3> QED
            BY <2>2, <3>1, <3>2
    <2> QED
        BY <1>3, <2>2, <2>3
<1>9. CASE /\ todo = <<Op("check", p, i, b)>> \o inv
           /\ ~ Whole(flash[p][i])
    <2>1. Head(todo) = Op("check", p, i, b)
        BY <1>9, TodoLemma
    <2>2. flash' = flash
        BY <1>1, <2>1, DoneLemma, UndoneLemma
    <2>3. ~ Progress
        <3>1. Op("check", p, i, b).page = p /\ Op("check", p, i, b).index = i
            BY DEF Op
        <3> QED
            BY <1>5, <1>9, <2>1, <3>1 DEF Progress, Checked, boot_data_check, Whole
    <2> QED
        BY <1>1, <2>2, <2>3, SameFlash
<1>10. CASE Written(p, i, b, inv) /\ todo = <<Op("check", p, i, b)>> \o inv
    <2>1. Head(todo) = Op("check", p, i, b) /\ Tail(todo) = inv
        BY <1>10, TodoLemma
    <2>2. flash' = flash
        BY <1>1, <2>1, DoneLemma, UndoneLemma
    <2>3. /\ FlashOK' /\ Ordered' /\ Log' /\ boot_data_read' = boot_data_read
          /\ Newest(p, i)'
        BY <1>1, <1>10, <2>2, SameFlash DEF Written
    <2>4. ASSUME arg' = arg, todo' = Tail(todo) PROVE Writing'
        <3>1. Written(p, i, b, inv)'
            BY <1>10, <2>1, <2>2, <2>3, <2>4 DEF Written, Whole
        <3> QED
            BY <1>4, <2>4, <3>1
    <2> QED
        BY <2>3, <2>4
<1>11. CASE Written(p, i, b, inv) /\ todo = inv
    <2>1. PICK q \in Page, k \in Index :
             /\ inv = boot_data_entry_invalidate(q, k, b)
             /\ Head(todo) = Op("invalidate", q, k, b) /\ Tail(todo) = <<>>
        <3>1. inv # <<>> => \E q \in Page, k \in Index :
                 /\ inv = boot_data_entry_invalidate(q, k, b)
                 /\ Head(inv) = Op("invalidate", q, k, b) /\ Tail(inv) = <<>>
            BY TodoLemma, Zenon
        <3> QED
            BY <1>11, <3>1
    <2>2. Newest(p, i) /\ Whole(flash[q][k]) /\ <<q, k>> # <<p, i>> /\ flash[p][i].body = b
        BY <1>11, <2>1 DEF Written
    <2> DEFINE f == [flash[q][k] EXCEPT !.is_valid = FALSE]
    <2>3. f \in Entry
        <3>1. flash[q][k] \in Entry
            BY <1>1 DEF FlashOK
        <3> QED
            BY <3>1 DEF Entry
    <2>4. flash' = flash \/ OneEntry(q, k, f)
        BY <1>1, <2>1, <2>3, DoneLemma, UndoneLemma DEF OneEntry
    <2> HIDE DEF f
    <2>5. FlashOK' /\ Ordered' /\ Newest(p, i)' /\ flash'[p][i] = flash[p][i]
        <3>1. CASE flash' = flash
            BY <1>1, <2>2, <3>1, SameFlash
        <3>2. CASE OneEntry(q, k, f)
            <4>1. FlashOK'
                BY <1>1, <3>2, OneEntryLemma DEF FlashOK
            <4>2. Ordered' /\ Newest(p, i)' /\ flash'[p][i] = flash[p][i]
                BY <1>1, <2>2, <3>2, InvalidateLemma DEF f
            <4> QED
                BY <4>1, <4>2
        <3> QED
            BY <2>4, <3>1, <3>2
    <2>6. Log'
        BY <2>5 DEF Log
    <2>7. boot_data_read' = boot_data_read
        <3>1. ReadsNewest /\ ReadsNewest'
            BY <1>1, <2>5, ReadLemma, PTL
        <3> QED
            BY <2>2, <2>5, <3>1 DEF ReadsNewest
    <2>8. ASSUME arg' = arg, todo' = Tail(todo) PROVE Writing'
        <3>1. <<>> \in Invalidations(b)
            BY DEF Invalidations
        <3>2. \A r \in Page, j \in Index : <<>> # boot_data_entry_invalidate(r, j, b)
            BY DEF boot_data_entry_invalidate
        <3>3. Written(p, i, b, <<>>)'
            BY <2>1, <2>2, <2>5, <2>8, <3>2 DEF Written
        <3>4. b.value = arg'
            BY <1>3, <2>8
        <3>5. \E x \in Page, y \in Index, z \in Body : \E w \in Invalidations(z) :
                 z.value = arg' /\ Written(x, y, z, w)'
            BY <3>1, <3>3, <3>4
        <3> QED
            BY <3>5 DEF Writing
    <2> QED
        BY <2>5, <2>6, <2>7, <2>8
<1> QED
    BY <1>3, <1>6, <1>7, <1>8, <1>9, <1>10, <1>11 DEF Pending, Written

(* The operations a write chooses, by what the search of the pages found.  *)
LEMMA AppendLemma ==
    ASSUME NEW v, NEW c, NEW b, b = [counter |-> c, value |-> v]
    PROVE  LET a == boot_data_active_page_find
           IN  /\ ~ a.has_valid_entry =>
                    AppendOps(v, c) = boot_data_entry_write(0, 0, b, TRUE)
               /\ a.has_valid_entry /\ a.first_empty_index < Entries =>
                    AppendOps(v, c) =
                      boot_data_entry_write(a.page, a.first_empty_index, b, FALSE)
                        \o boot_data_entry_invalidate(a.page, a.last_valid_index, b)
               /\ a.has_valid_entry /\ ~ (a.first_empty_index < Entries) =>
                    AppendOps(v, c) =
                      boot_data_entry_write(1 - a.page, 0, b, TRUE)
                        \o boot_data_entry_invalidate(a.page, a.last_valid_index, b)
<1> DEFINE a == boot_data_active_page_find
<1>1. AppendOps(v, c) =
        CASE ~ a.has_valid_entry -> boot_data_entry_write(0, 0, b, TRUE)
          [] a.has_valid_entry /\ a.first_empty_index < Entries ->
               boot_data_entry_write(a.page, a.first_empty_index, b, FALSE)
               \o boot_data_entry_invalidate(a.page, a.last_valid_index, b)
          [] OTHER ->
               boot_data_entry_write(1 - a.page, 0, b, TRUE)
               \o boot_data_entry_invalidate(a.page, a.last_valid_index, b)
    BY Zenon DEF AppendOps
<1> HIDE DEF a
<1> QED
    BY <1>1 DEF a

(* A call of boot_data_write starts as IInv says, and changes nothing yet. *)
LEMMA WriteStep ==
    ASSUME IInv, NEW v \in Value \ Version1, boot_data_write(v)
    PROVE  IInv' /\ boot_data_read' = boot_data_read
<1>0. PICK b : b = [counter |-> LastCounter + 1, value |-> v]
    OBVIOUS
<1>1. FlashOK /\ Ordered /\ Log /\ v # None
    BY BootDataAssumption DEF IInv, TypeOK, FlashOK
<1>2. /\ arg' = v /\ todo' = AppendOps(v, LastCounter + 1) /\ ret' = "none"
      /\ flash' = flash /\ LastCounter < MaxCounter
    BY DEF boot_data_write, WriteOps, CounterLeft
<1>3. /\ FlashOK' /\ Ordered' /\ Log' /\ boot_data_read' = boot_data_read
      /\ \A p \in Page, i \in Index : Newest(p, i) => Newest(p, i)'
    BY <1>1, <1>2, SameFlash
<1>4. ReadsNewest
    BY <1>1, ReadLemma
<1>5. b.counter = LastCounter + 1 /\ b.value = v
    BY <1>0
<1>6. 0 \in Page /\ 0 \in Index
    BY BootDataAssumption DEF Page, Index
<1>7. ASSUME NoWhole PROVE Writing'
    <2>1. LastCounter = 0 /\ ~ boot_data_active_page_find.has_valid_entry
        BY <1>1, <1>4, <1>7, FindNone DEF ReadsNewest
    <2>2. b \in Body
        BY <1>0, <2>1, BootDataAssumption DEF Body
    <2>3. todo' = boot_data_entry_write(0, 0, b, TRUE)
        BY <1>0, <1>2, <2>1, AppendLemma
    <2>4. todo' = boot_data_entry_write(0, 0, b, TRUE) \o <<>>
        <3> DEFINE S == {Op(n, 0, 0, b) : n \in {"erase", "digest", "body", "check"}}
        <3>1. /\ Op("erase", 0, 0, b) \in S /\ Op("digest", 0, 0, b) \in S
              /\ Op("body", 0, 0, b) \in S /\ Op("check", 0, 0, b) \in S
            OBVIOUS
        <3> HIDE DEF S
        <3>2. boot_data_entry_write(0, 0, b, TRUE) \in Seq(S)
            BY <3>1 DEF boot_data_entry_write
        <3> QED
            BY <2>3, <3>2, ConcatEmptySeq
    <2>5. Predecessor(b, <<>>)' /\ \A k \in Index : ~ Newest(0, k)'
        <3>1. NoWhole'
            BY <1>2, <1>7 DEF NoWhole, Whole
        <3> QED
            BY <1>5, <1>6, <2>1, <3>1 DEF Predecessor, NoWhole, Newest, Whole
    <2>6. Pending(0, 0, b, <<>>)' /\ <<>> \in Invalidations(b)
        <3>1. <<>> \in Invalidations(b)
            BY DEF Invalidations
        <3>2. Pending(0, 0, b, <<>>)'
            BY <2>4, <2>5, Zenon DEF Pending
        <3> QED
            BY <3>1, <3>2
    <2>7. \E x \in Page, y \in Index, z \in Body : \E w \in Invalidations(z) :
             z.value = arg' /\ Pending(x, y, z, w)'
        BY <1>2, <1>5, <1>6, <2>2, <2>6
    <2> QED
        BY <2>7 DEF Writing
<1>8. ASSUME NEW q \in Page, NEW k \in Index, Newest(q, k)
      PROVE  Writing'
    <2> DEFINE a == boot_data_active_page_find
    <2>0. PICK inv : inv = boot_data_entry_invalidate(q, k, b)
        OBVIOUS
    <2>1. /\ a.page = q /\ a.has_valid_entry /\ a.last_valid_index = k
          /\ a = boot_data_page_info_update(q)
        BY <1>1, <1>8, FindNewest
    <2>2. LastCounter = flash[q][k].body.counter /\ LastCounter \in Nat
        BY <1>1, <1>4, <1>8, PartLemma DEF ReadsNewest, FlashOK, Newest
    <2>3. b \in Body
        BY <1>0, <1>2, <2>2, BootDataAssumption DEF Body
    <2>4. /\ a.first_empty_index \in 0 .. Entries
          /\ \A j \in Index : j < a.first_empty_index => flash[q][j] # EmptyEntry
          /\ a.first_empty_index < Entries =>
               /\ a.first_empty_index \in Index
               /\ flash[q][a.first_empty_index] = EmptyEntry
        BY <1>1, <2>1, PageInfoLemma
    <2>5. Predecessor(b, inv)' /\ inv \in Invalidations(b)
        <3>1. Newest(q, k)' /\ b.counter = flash'[q][k].body.counter + 1
            BY <1>2, <1>3, <1>5, <1>8, <2>2
        <3> QED
            BY <2>0, <3>1 DEF Predecessor, Invalidations
    <2> HIDE DEF a
    <2>6. CASE a.first_empty_index < Entries
        <3>0. PICK i : i = a.first_empty_index
            OBVIOUS
        <3>1. todo' = boot_data_entry_write(q, i, b, FALSE) \o inv
            BY <1>0, <1>2, <2>0, <2>1, <2>6, <3>0, AppendLemma DEF a
        <3>2. i \in Index /\ flash[q][i] = EmptyEntry /\ Room(q, i)
            <4>1. \A j \in Index : j > i => flash[q][j] = EmptyEntry
                BY <1>8, <2>4, <2>6, <3>0 DEF Newest, Packed, Index
            <4> QED
                BY <2>4, <2>6, <3>0, <4>1 DEF Room
        <3>3. Room(q, i)' /\ flash'[q][i] = EmptyEntry
            BY <1>2, <3>2 DEF Room
        <3>4. Pending(q, i, b, inv)'
            BY <2>5, <3>1, <3>3 DEF Pending
        <3>5. \E x \in Page, y \in Index, z \in Body : \E w \in Invalidations(z) :
                 z.value = arg' /\ Pending(x, y, z, w)'
            BY <1>2, <1>5, <2>3, <2>5, <3>2, <3>4
        <3> QED
            BY <3>5 DEF Writing
    <2>7. CASE ~ (a.first_empty_index < Entries)
        <3>1. todo' = boot_data_entry_write(1 - q, 0, b, TRUE) \o inv
            BY <1>0, <1>2, <2>0, <2>1, <2>7, AppendLemma DEF a
        <3>2. 1 - q \in Page /\ 1 - q # q
            BY DEF Page
        <3>3. \A j \in Index : ~ Newest(1 - q, j)'
            <4> SUFFICES ASSUME NEW j \in Index, Newest(1 - q, j)' PROVE FALSE
                OBVIOUS
            <4>1. <<1 - q, j>> # <<q, k>> /\ <<q, k>> # <<1 - q, j>>
                BY <3>2
            <4>2. Whole(flash[q][k]) /\ Whole(flash[1 - q][j])
                BY <1>2, <1>8 DEF Newest, Whole
            <4>3. flash[1 - q][j].body.counter < flash[q][k].body.counter
                BY <1>8, <3>2, <4>1, <4>2 DEF Newest
            <4>4. flash[q][k].body.counter < flash[1 - q][j].body.counter
                BY <1>2, <3>2, <4>1, <4>2 DEF Newest, Whole
            <4>5. flash[q][k].body.counter \in Nat /\ flash[1 - q][j].body.counter \in Nat
                BY <1>1, <3>2, <4>2, PartLemma DEF FlashOK
            <4> QED
                BY <4>3, <4>4, <4>5
        <3>4. Pending(1 - q, 0, b, inv)'
            BY <2>5, <3>1, <3>3 DEF Pending
        <3>5. \E x \in Page, y \in Index, z \in Body : \E w \in Invalidations(z) :
                 z.value = arg' /\ Pending(x, y, z, w)'
            BY <1>2, <1>5, <1>6, <2>3, <2>5, <3>2, <3>4
        <3> QED
            BY <3>5 DEF Writing
    <2> QED
        BY <2>6, <2>7
<1>9. Writing'
    BY <1>1, <1>7, <1>8 DEF Log
<1>10. TypeOK' /\ arg' \notin Version1 /\ arg' # None
    BY <1>1, <1>2, <1>3 DEF TypeOK, FlashOK
<1> QED
    BY <1>3, <1>9, <1>10 DEF IInv

(* When nothing is left to do, the value is in place.                      *)
LEMMA DoneMeansRead ==
    ASSUME IInv, arg # None, todo = <<>>
    PROVE  boot_data_read = arg
<1>1. FlashOK /\ Ordered /\ Writing /\ arg \in Value \ Version1
    BY DEF IInv, TypeOK, FlashOK
<1>2. PICK p \in Page, i \in Index, b \in Body : \E inv \in Invalidations(b) :
         b.value = arg /\ (Pending(p, i, b, inv) \/ Written(p, i, b, inv))
    BY <1>1 DEF Writing
<1>3. PICK inv \in Invalidations(b) :
         b.value = arg /\ (Pending(p, i, b, inv) \/ Written(p, i, b, inv))
    BY <1>2
<1>4. ~ Pending(p, i, b, inv)
    BY TodoLemma DEF Pending
<1>5. Newest(p, i) /\ flash[p][i].body.value = arg
    BY <1>3, <1>4 DEF Written
<1>6. boot_data_read = as_v2(arg)
    BY <1>1, <1>5, ReadLemma DEF ReadsNewest
<1> QED
    BY <1>1, <1>6, BootDataAssumption

(* Every step keeps the invariant, and is a step of the atomic cell.       *)
LEMMA StepLemma ==
    ASSUME IInv, [Next]_vars
    PROVE  IInv' /\ [Atomic!Next]_<<boot_data_read, arg, ret>>
<1>1. FlashOK /\ Ordered /\ Log
    BY DEF IInv, TypeOK, FlashOK
<1>2. todo # <<>> => arg # None /\ Writing
    BY DEF IInv
<1>3. ASSUME NEW v \in Value \ Version1, boot_data_write(v)
      PROVE  IInv' /\ Atomic!Begin
    BY <1>3, WriteStep DEF boot_data_write, Atomic!Begin
<1>4. ASSUME todo # <<>>, flash' \in {Done(Head(todo))} \cup Undone(Head(todo)),
             todo' = Tail(todo), Progress, UNCHANGED <<ret, arg>>
      PROVE  IInv' /\ (Atomic!Commit \/ UNCHANGED <<boot_data_read, arg, ret>>)
    <2>1. /\ FlashOK' /\ Ordered' /\ Log' /\ Writing'
          /\ boot_data_read' \in {boot_data_read, arg}
        BY <1>4, OpLemma
    <2>2. IInv'
        BY <1>2, <1>4, <2>1 DEF IInv, TypeOK, FlashOK
    <2> QED
        BY <1>2, <1>4, <2>1, <2>2 DEF Atomic!Commit
<1>5. CASE Operate
    <2>1. flash' \in {Done(Head(todo))} \cup Undone(Head(todo)) /\ Progress
        BY <1>5 DEF Operate, Progress
    <2> QED
        BY <1>4, <1>5, <2>1 DEF Operate, Atomic!Next
<1>6. CASE Unreported
    <2>1. flash' \in {Done(Head(todo))} \cup Undone(Head(todo)) /\ Progress
        BY <1>6 DEF Unreported, Progress
    <2> QED
        BY <1>4, <1>6, <2>1 DEF Unreported, Atomic!Next
<1>7. ASSUME todo' = <<>>, arg' = None, FlashOK', Ordered', Log',
             ret' \in {"ok", "error"}
      PROVE  IInv'
    BY <1>7, BootDataAssumption DEF IInv, TypeOK, FlashOK
<1>8. CASE WriteCheckFails
    <2>1. FlashOK' /\ Ordered' /\ Log' /\ boot_data_read' = boot_data_read
        BY <1>1, <1>8, SameFlash DEF WriteCheckFails
    <2>2. Atomic!Cut
        BY <1>2, <1>8, <2>1 DEF WriteCheckFails, Atomic!Cut
    <2> QED
        BY <1>7, <1>8, <2>1, <2>2 DEF WriteCheckFails, Atomic!Next
<1>9. CASE CutShort
    <2>1. FlashOK' /\ Ordered' /\ Log' /\ boot_data_read' \in {boot_data_read, arg}
        BY <1>9, OpLemma DEF CutShort
    <2>2. Atomic!Cut
        BY <1>2, <1>9, <2>1 DEF CutShort, Atomic!Cut
    <2> QED
        BY <1>7, <1>9, <2>1, <2>2 DEF CutShort, Atomic!Next
<1>10. CASE Return
    <2>1. FlashOK' /\ Ordered' /\ Log' /\ boot_data_read' = boot_data_read
        BY <1>1, <1>10, SameFlash DEF Return
    <2>2. Atomic!Finish
        BY <1>10, <2>1, DoneMeansRead DEF Return, Atomic!Finish
    <2> QED
        BY <1>7, <1>10, <2>1, <2>2 DEF Return, Atomic!Next
<1>11. CASE UNCHANGED vars
    <2>1. FlashOK' /\ Ordered' /\ Log' /\ boot_data_read' = boot_data_read
        BY <1>1, <1>11, SameFlash DEF vars
    <2>2. Writing => Writing'
        <3>1. flash' = flash /\ todo' = todo /\ arg' = arg
            BY <1>11 DEF vars
        <3>2. \A p, i : Newest(p, i) <=> Newest(p, i)'
            BY <3>1 DEF Newest, Whole, Packed
        <3>3. ASSUME NEW p, NEW i, NEW b, NEW inv
              PROVE  /\ Pending(p, i, b, inv) => Pending(p, i, b, inv)'
                     /\ Written(p, i, b, inv) => Written(p, i, b, inv)'
            <4>1. Predecessor(b, inv) => Predecessor(b, inv)'
                BY <3>1, <3>2 DEF Predecessor, NoWhole, Whole
            <4>2. Pending(p, i, b, inv) => Pending(p, i, b, inv)'
                BY <3>1, <3>2, <4>1 DEF Pending, Room, Whole
            <4>3. Written(p, i, b, inv) => Written(p, i, b, inv)'
                BY <3>1, <3>2 DEF Written, Whole
            <4> QED
                BY <4>2, <4>3
        <3> QED
            BY <3>1, <3>3 DEF Writing
    <2>3. IInv'
        BY <1>11, <2>1, <2>2 DEF IInv, TypeOK, vars, FlashOK
    <2> QED
        BY <1>11, <2>1, <2>3 DEF vars
<1> QED
    BY <1>3, <1>5, <1>6, <1>8, <1>9, <1>10, <1>11 DEF Next, Atomic!Next

(* The invariant holds in every state.                                     *)
LEMMA InductiveInvariant == Spec => []IInv
<1>1. IInv /\ [Next]_vars => IInv'
    BY StepLemma
<1> QED
    BY InitIInv, <1>1, PTL DEF Spec

(* The two pages hold entries of their format, and nothing else, whatever  *)
(* flash operation was cut short.                                          *)
THEOREM TypeCorrect == Spec => []TypeOK
<1>1. IInv => TypeOK
    BY DEF IInv
<1> QED
    BY <1>1, InductiveInvariant, PTL

(* For pages of any size and any number of writes, cut short anywhere, no  *)
(* two valid entries carry one counter: the hardened check of the page     *)
(* search (boot_data_active_page_find) cannot fire.                        *)
THEOREM CountersAlwaysDiffer == Spec => []CountersDiffer
<1>1. IInv => CountersDiffer
    <2> SUFFICES ASSUME IInv, NEW p \in Page, NEW q \in Page,
                        NEW i \in Index, NEW j \in Index,
                        boot_data_check(flash[p][i]), boot_data_check(flash[q][j]),
                        flash[p][i].body.counter = flash[q][j].body.counter
                 PROVE  p = q /\ i = j
        BY DEF CountersDiffer
    <2>1. Whole(flash[p][i]) /\ Whole(flash[q][j])
        BY DEF boot_data_check, Whole
    <2>2. flash[p][i].body.counter \in Nat
        BY <2>1, PartLemma DEF IInv, TypeOK
    <2>3. p = q
        BY <2>1 DEF IInv, Ordered
    <2>4. ~ (i < j)
        BY <2>1, <2>2, <2>3 DEF IInv, Ordered
    <2>5. ~ (j < i)
        BY <2>1, <2>2, <2>3 DEF IInv, Ordered
    <2> QED
        BY <2>3, <2>4, <2>5 DEF Index
<1> QED
    BY <1>1, InductiveInvariant, PTL

(* The two pages implement one atomic cell: what boot_data_read returns    *)
(* changes only to the value being written, and is that value when         *)
(* boot_data_write returns kErrorOk.                                       *)
THEOREM LogIsAtomic == Spec => AtomicRefinement
<1>1. Init => Atomic!Init
    <2> SUFFICES ASSUME Init PROVE Atomic!Init
        OBVIOUS
    <2>1. IInv
        BY InitIInv
    <2>2. FlashOK /\ Log /\ ReadsNewest
        BY <2>1, ReadLemma DEF IInv, TypeOK, FlashOK
    <2>3. CASE NoWhole
        BY <2>2, <2>3, BootDataAssumption
           DEF ReadsNewest, boot_data_default_get, Init, Atomic!Init
    <2>4. ASSUME NEW p \in Page, NEW i \in Index, Newest(p, i)
          PROVE  boot_data_read \in Value
        <3>1. flash[p][i].body.value \in Value
            BY <2>2, <2>4, PartLemma DEF Newest, FlashOK
        <3> QED
            BY <2>2, <2>4, <3>1, BootDataAssumption DEF ReadsNewest
    <2> QED
        BY <2>2, <2>3, <2>4 DEF Log, Init, Atomic!Init
<1>2. IInv /\ [Next]_vars => [Atomic!Next]_<<boot_data_read, arg, ret>>
    BY StepLemma
<1> QED
    BY <1>1, <1>2, InductiveInvariant, PTL DEF Spec, AtomicRefinement, Atomic!Spec
=============================================================================
