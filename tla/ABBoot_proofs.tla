---------------------------- MODULE ABBoot_proofs ----------------------------
(* Proofs about ABBoot, for every set of images and of update threads, and  *)
(* every number of power cuts and of Boot#### variables:                    *)
(*   - BootTypeCorrect: the variables keep their types (Base).              *)
(*   - OneSlotIsWhole: one slot always holds a whole image; the active slot *)
(*     is overwritten only when the inactive one is whole (Intact).         *)
(*   - CommitStaysBootable: BootOrder reaches a loadable slot through every *)
(*     step of a commit. A slot that has an entry has one in BootOrder, and *)
(*     the old pair is there until the fresh one is (Reached, Kept).        *)
(*   - ArmsWhatItWrote: an armed BootNext names the inactive slot when      *)
(*     several updates run, and never the slot in use when the entry of     *)
(*     another disk cannot be deleted (Written, Own).                       *)
(*   - PowerCutIsSafe: power that fails at any moment leaves a device that  *)
(*     starts a proven image. Either both slots are proven, or the entries  *)
(*     are repaired and begin with a proven slot (Anchored); what is not    *)
(*     proven is started only through BootNext.                             *)
(* Each theorem excludes the faults under which TLC finds its property      *)
(* violated.                                                                *)
EXTENDS ABBoot, FiniteSetTheorems, WellFoundedInduction, TLAPS

(* Each process is at a stage of its own chain, and fix_entries returns to  *)
(* the caller.                                                              *)
Roles ==
  /\ stage["boot"] \in BootStages
  /\ \A u \in Updater : stage[u] \in UpdateStages /\ after[u] = "number"
  /\ after["boot"] \in {"check", "count"}

(* Nothing runs without power.                                              *)
Awake ==
  /\ mounted = "off" <=> stage["boot"] = "off"
  /\ mounted = "off" => \A u \in Updater : stage[u] = "idle"
  /\ mounted # "off" => running \in Version

(* The entries a commit has created so far.                                 *)
Made ==
  /\ stage["boot"] = "new_b" => fresh.new["a"] \in Num
  /\ stage["boot"] \in {"reorder", "del_a", "del_b", "verify"} =>
       \A s \in Slot : fresh.new[s] \in Num

Base == TypeOK /\ Roles /\ Awake /\ Made

-----------------------------------------------------------------------------
(* What the operators on the UEFI variables do.                             *)
LEMMA Least ==
  ASSUME NEW S \in SUBSET Nat, S # {}
  PROVE  Min(S) \in S /\ \A y \in S : Min(S) <= y
<1>1. \E x \in S : \A y \in S : ~ (<<y, x>> \in OpToRel(<, Nat))
  BY WFMin, NatLessThanWellFounded, Zenon
<1>2. PICK x \in S : \A y \in S : ~ (<<y, x>> \in OpToRel(<, Nat))
  BY <1>1
<1>3. \A y \in S : ~ (y < x)
  BY <1>2, Zenon DEF OpToRel
<1>4. \A y \in S : x <= y
  BY <1>3
<1> QED
  BY <1>4 DEF Min

LEMMA LeastNum ==
  ASSUME NEW S \in SUBSET Num, S # {}
  PROVE  Min(S) \in S
BY Least DEF Num

(* w is v with an entry at the free number n, which comes first in BootOrder. *)
Added(v, w, n, l, s) ==
  /\ w \in Nvram /\ n \in Num /\ v.entry[n] = NoEntry
  /\ w.entry = [v.entry EXCEPT ![n] = [label |-> l, slot |-> s]]
  /\ w.order = <<n>> \o v.order /\ w.next = v.next

(* efibootmgr -c puts the new entry at a free number and first in           *)
(* BootOrder.                                                               *)
LEMMA CreatedNv ==
  ASSUME NEW v \in Nvram, NEW l \in {"a", "b", "auto"}, NEW s \in Slot \cup {"gone"},
         FreeNumbers(v) # {}
  PROVE  \E n \in Num : Added(v, Created(v, l, s), n, l, s)
<1> DEFINE n == Min(FreeNumbers(v))
           e == [label |-> l, slot |-> s]
<1>1. n \in FreeNumbers(v) /\ n \in Num
  BY LeastNum DEF FreeNumbers
<1>2. e \in Entry
  BY DEF Entry
<1>3. v.entry \in [Num -> Entry] /\ v.order \in Seq(Num) /\ v.next \in Num \cup {NoNum}
      /\ v = [entry |-> v.entry, order |-> v.order, next |-> v.next]
  BY DEF Nvram
<1>4. Created(v, l, s) = [entry |-> [v.entry EXCEPT ![n] = e], order |-> <<n>> \o v.order,
                          next |-> v.next]
  <2>1. Created(v, l, s) = [v EXCEPT !.entry = [v.entry EXCEPT ![n] = e], !.order = <<n>> \o @]
    BY DEF Created
  <2> HIDE DEF n, e
  <2> QED
    BY <1>3, <2>1
<1> HIDE DEF n, e
<1>5. [v.entry EXCEPT ![n] = e] \in [Num -> Entry]
  BY <1>2, <1>3
<1>6. <<n>> \o v.order \in Seq(Num)
  BY <1>1, <1>3
<1>7. Created(v, l, s) \in Nvram
  <2> DEFINE en == [v.entry EXCEPT ![n] = e]
             od == <<n>> \o v.order
  <2>1. Created(v, l, s) = [entry |-> en, order |-> od, next |-> v.next]
        /\ en \in [Num -> Entry] /\ od \in Seq(Num)
    BY <1>4, <1>5, <1>6
  <2> HIDE DEF en, od
  <2> QED
    BY <1>3, <2>1 DEF Nvram
<1>8. /\ Created(v, l, s).entry = [v.entry EXCEPT ![n] = e]
      /\ Created(v, l, s).order = <<n>> \o v.order
      /\ Created(v, l, s).next = v.next
  BY <1>4
<1>9. v.entry[n] = NoEntry
  BY <1>1 DEF FreeNumbers
<1> QED
  BY <1>1, <1>7, <1>8, <1>9 DEF e, Added

(* efibootmgr -B removes one entry, from BootOrder as well, and keeps the   *)
(* order of the others.                                                     *)
LEMMA DeletedNv ==
  ASSUME NEW v \in Nvram, NEW n \in Num \cup {NoNum}
  PROVE  /\ Deleted(v, n) \in Nvram
         /\ Deleted(v, n).entry = [v.entry EXCEPT ![n] = NoEntry]
         /\ Deleted(v, n).next = v.next
         /\ \A m \in Range(v.order) : m # n => m \in Range(Deleted(v, n).order)
<1> DEFINE s == v.order
           i == CHOOSE i \in DOMAIN s : s[i] = n
           r == IF n \in Range(s) THEN RemoveAt(s, i) ELSE s
<1>1. v.entry \in [Num -> Entry] /\ s \in Seq(Num) /\ v.next \in Num \cup {NoNum}
      /\ v = [entry |-> v.entry, order |-> v.order, next |-> v.next]
  BY DEF Nvram
<1>2. Deleted(v, n) = [entry |-> [v.entry EXCEPT ![n] = NoEntry], order |-> r, next |-> v.next]
  <2>1. Deleted(v, n) = [v EXCEPT !.entry = [v.entry EXCEPT ![n] = NoEntry], !.order = r]
    BY DEF Deleted
  <2> HIDE DEF r
  <2> QED
    BY <1>1, <2>1
<1>3. [v.entry EXCEPT ![n] = NoEntry] \in [Num -> Entry]
  BY <1>1 DEF Entry
<1>4. r \in Seq(Num) /\ \A m \in Range(s) : m # n => m \in Range(r)
  <2>1. CASE n \notin Range(s)
    BY <1>1, <2>1
  <2>2. CASE n \in Range(s)
    <3>1. i \in 1..Len(s) /\ s[i] = n
      BY <1>1, <2>2 DEF Range
    <3> DEFINE p == SubSeq(s, 1, i - 1)
               q == SubSeq(s, i + 1, Len(s))
    <3>2. r = p \o q
      BY <2>2 DEF RemoveAt
    <3> HIDE DEF i, r
    <3> DEFINE k == Len(s)
    <3>3. s \in [1..k -> Num] /\ k \in Nat /\ i \in 1..k
      BY <1>1, <3>1
    <3>4. p \in Seq(Num) /\ Len(p) = i - 1 /\ \A j \in 1..(i - 1) : p[j] = s[j]
      BY <1>1, <3>3
    <3>5. q \in Seq(Num) /\ Len(q) = k - i /\ \A j \in 1..(k - i) : q[j] = s[i + j]
      BY <1>1, <3>3
    <3> HIDE DEF p, q, s
    <3>6. /\ r \in Seq(Num) /\ DOMAIN r = 1..(k - 1)
          /\ \A j \in 1..Len(p) : r[j] = p[j]
          /\ \A j \in 1..Len(q) : r[Len(p) + j] = q[j]
      <4>1. p \in Seq(Num) /\ q \in Seq(Num) /\ r = p \o q
        BY <3>2, <3>4, <3>5
      <4>2. r \in Seq(Num) /\ Len(r) = Len(p) + Len(q) /\ DOMAIN r = 1..Len(r)
        BY <4>1
      <4>3. Len(p) + Len(q) = k - 1
        BY <3>3, <3>4, <3>5
      <4>4. \A j \in 1..Len(p) : r[j] = p[j]
        BY <4>1
      <4>5. \A j \in 1..Len(q) : r[Len(p) + j] = q[j]
        BY <4>1
      <4> QED
        BY <4>2, <4>3, <4>4, <4>5
    <3>7. \A j \in 1..(i - 1) : r[j] = s[j] /\ j \in DOMAIN r
      BY <3>3, <3>4, <3>6
    <3>8. \A j \in (i + 1)..k : r[j - 1] = s[j] /\ j - 1 \in DOMAIN r
      <4> SUFFICES ASSUME NEW j \in (i + 1)..k
                   PROVE  r[j - 1] = s[j] /\ j - 1 \in DOMAIN r
        OBVIOUS
      <4>1. /\ j - i \in 1..(k - i) /\ j - 1 = Len(p) + (j - i) /\ i + (j - i) = j
            /\ j - 1 \in 1..(k - 1)
        BY <3>3, <3>4
      <4>2. q[j - i] = s[i + (j - i)] /\ r[Len(p) + (j - i)] = q[j - i]
        BY <3>5, <3>6, <4>1
      <4> QED
        BY <3>6, <4>1, <4>2
    <3>9. ASSUME NEW j \in 1..k, s[j] # n
          PROVE  s[j] \in Range(r)
      <4>1. j # i
        BY <3>1, <3>9
      <4>2. CASE j < i
        <5>1. j \in 1..(i - 1)
          BY <3>3, <4>2
        <5> QED
          BY <3>7, <5>1 DEF Range
      <4>3. CASE j > i
        <5>1. j \in (i + 1)..k
          BY <3>3, <4>3
        <5> QED
          BY <3>8, <5>1 DEF Range
      <4> QED
        BY <3>3, <4>1, <4>2, <4>3
    <3> QED
      BY <3>3, <3>6, <3>9 DEF Range
  <2> QED
    BY <2>1, <2>2
<1>5. Deleted(v, n) \in Nvram
  BY <1>1, <1>2, <1>3, <1>4 DEF Nvram
<1>6. Deleted(v, n).entry = [v.entry EXCEPT ![n] = NoEntry] /\ Deleted(v, n).next = v.next
      /\ Deleted(v, n).order = r
  <2> HIDE DEF r
  <2> QED
    BY <1>2
<1> HIDE DEF r
<1> QED
  BY <1>4, <1>5, <1>6

(* The number that efi_entry_num finds is one with the label, if there is   *)
(* any.                                                                     *)
LEMMA NumberOf ==
  ASSUME NEW v \in Nvram, NEW s \in Slot
  PROVE  /\ BootNumber(v, s) \in Num \cup {NoNum}
         /\ BootNumber(v, s) # NoNum <=> Labelled(v, s) # {}
         /\ BootNumber(v, s) # NoNum => BootNumber(v, s) \in Labelled(v, s)
<1>1. Labelled(v, s) \in SUBSET Num /\ NoNum \notin Num
  BY NumAssumption DEF Labelled, Num
<1> QED
  BY <1>1, LeastNum DEF BootNumber

(* A slot with one valid entry has the number that commit picks.            *)
LEMMA OneNumber ==
  ASSUME NEW v \in Nvram, NEW s \in Slot, Cardinality(ValidNumbers(v, s)) = 1
  PROVE  /\ Min(ValidNumbers(v, s)) \in Num
         /\ ValidNumbers(v, s) = {Min(ValidNumbers(v, s))}
<1>1. ValidNumbers(v, s) \in SUBSET Num
  BY DEF ValidNumbers, Labelled
<1>2. IsFiniteSet(ValidNumbers(v, s))
  <2>1. IsFiniteSet(Num)
    BY NumAssumption, FS_Interval DEF Num
  <2> QED
    BY <1>1, <2>1, FS_Subset
<1>3. PICK x : ValidNumbers(v, s) = {x}
  BY <1>2, FS_Singleton
<1>4. Min(ValidNumbers(v, s)) \in ValidNumbers(v, s)
  BY <1>1, <1>3, LeastNum
<1> QED
  BY <1>1, <1>3, <1>4

-----------------------------------------------------------------------------
(* The steps, with what they do to the variables of the firmware.           *)
LEMMA Processes ==
  /\ "boot" \in Process /\ \A u \in Updater : u \in Process /\ u # "boot"
  /\ NoNum \notin Num
BY BootAssumption, NumAssumption DEF Process, Num

(* What the firmware and the boot scripts leave when the device starts.     *)
LEMMA PowerOnSteps ==
  ASSUME Base, PowerOn
  PROVE  /\ mounted' \in Loadable /\ mounted' \in Slot
         /\ nv' \in Nvram /\ nv'.next = NoNum
         /\ \E v \in Nvram :
              /\ v.entry = nv.entry /\ v.order = nv.order
              /\ \/ nv' = v
                 \/ /\ \A i \in DOMAIN nv.order : nv.entry[nv.order[i]].slot \notin Loadable
                    /\ \E n \in Num : Added(v, nv', n, "auto", mounted')
<1> DEFINE list == (IF nv.next = NoNum THEN <<>> ELSE <<nv.next>>) \o nv.order
           known == \E i \in DOMAIN list : nv.entry[list[i]].slot \in Loadable
           consumed == [nv EXCEPT !.next = NoNum]
<1>1. PICK s \in FirmwareChoice(nv, list, Loadable) :
        /\ mounted' = s
        /\ nv' = IF known \/ FreeNumbers(nv) = {} THEN consumed ELSE Created(consumed, "auto", s)
  BY DEF PowerOn
<1>2. nv \in Nvram
  BY DEF Base, TypeOK
<1>3. consumed \in Nvram /\ consumed.entry = nv.entry /\ consumed.order = nv.order
      /\ consumed.next = NoNum
  BY <1>2 DEF Nvram
<1>4. s \in Loadable /\ s \in Slot
  <2> DEFINE good == {i \in DOMAIN list : nv.entry[list[i]].slot \in Loadable}
  <2>1. FirmwareChoice(nv, list, Loadable) =
          IF good = {} THEN Loadable ELSE {nv.entry[list[Min(good)]].slot}
    BY DEF FirmwareChoice
  <2>2. list \in Seq(Num)
    BY <1>2 DEF Nvram
  <2> HIDE DEF list
  <2>3. good \in SUBSET Nat
    BY <2>2
  <2>4. good # {} => Min(good) \in good
    BY <2>3, Least
  <2> HIDE DEF good
  <2>5. good # {} => nv.entry[list[Min(good)]].slot \in Loadable
    BY <2>4 DEF good
  <2> QED
    BY <1>1, <2>1, <2>5 DEF Loadable
<1> HIDE DEF known, consumed, list
<1>5. CASE nv' = consumed
  BY <1>1, <1>3, <1>4, <1>5
<1>6. CASE ~known /\ FreeNumbers(nv) # {} /\ nv' = Created(consumed, "auto", s)
  <2>1. FreeNumbers(consumed) = FreeNumbers(nv)
    BY <1>3 DEF FreeNumbers
  <2>2. s \in Slot \cup {"gone"} /\ FreeNumbers(consumed) # {}
    BY <1>4, <1>6, <2>1
  <2>3. PICK n \in Num : Added(consumed, nv', n, "auto", s)
    BY <1>3, <1>6, <2>2, CreatedNv
  <2>4. ASSUME NEW i \in DOMAIN nv.order
        PROVE  \E j \in DOMAIN list : list[j] = nv.order[i]
    <3>1. nv.order \in Seq(Num)
      BY <1>2 DEF Nvram
    <3>2. CASE nv.next = NoNum
      <4>1. list = nv.order
        BY <3>1, <3>2 DEF list
      <4> QED
        BY <4>1
    <3>3. CASE nv.next # NoNum
      <4>1. list = <<nv.next>> \o nv.order
        BY <3>3 DEF list
      <4>2. i + 1 \in DOMAIN list /\ list[i + 1] = nv.order[i]
        BY <3>1, <4>1
      <4> QED
        BY <4>2
    <3> QED
      BY <3>2, <3>3
  <2>5. \A i \in DOMAIN nv.order : nv.entry[nv.order[i]].slot \notin Loadable
    BY <1>6, <2>4 DEF known
  <2> QED
    BY <1>1, <1>3, <1>4, <2>3, <2>5 DEF Added
<1> QED
  BY <1>1, <1>5, <1>6

(* What each step of fix_entries does with the entries.                     *)
LEMMA CleanSteps ==
  ASSUME Base, NEW p \in Process, CleanEntries(p)
  PROVE  /\ nv' \in Nvram /\ stage[p] = "clean"
         /\ \/ \E n \in WrongEntries : n \in Num /\ nv' = Deleted(nv, n) /\ UNCHANGED stage
            \/ UNCHANGED nv /\ GoTo(p, "create_a") /\ (WrongEntries = {} \/ "clean" \in Faults)
<1>1. WrongEntries \in SUBSET Num /\ nv \in Nvram
  BY DEF WrongEntries, Base, TypeOK
<1>2. CASE WrongEntries # {} /\ nv' = Deleted(nv, Min(WrongEntries)) /\ UNCHANGED stage
  BY <1>1, <1>2, LeastNum, DeletedNv DEF CleanEntries
<1>3. CASE UNCHANGED nv /\ GoTo(p, "create_a") /\ (WrongEntries = {} \/ "clean" \in Faults)
  BY <1>1, <1>3 DEF CleanEntries
<1> QED
  BY <1>2, <1>3 DEF CleanEntries

LEMMA Adds ==
  ASSUME nv \in Nvram, NEW s \in Slot, FreeNumbers(nv) # {}, nv' = Created(nv, s, s)
  PROVE  nv' \in Nvram /\ \E n \in Num : Added(nv, nv', n, s, s)
<1>1. s \in {"a", "b", "auto"} /\ s \in Slot \cup {"gone"}
  BY DEF Slot
<1>2. PICK n \in Num : Added(nv, Created(nv, s, s), n, s, s)
  BY <1>1, CreatedNv
<1> QED
  BY <1>2 DEF Added

LEMMA CreateSteps ==
  ASSUME Base, NEW p \in Process, NEW s \in Slot, NEW here, NEW next,
         CreateMissing(p, s, here, next)
  PROVE  /\ nv' \in Nvram /\ stage[p] = here /\ GoTo(p, next)
         /\ \/ /\ UNCHANGED nv
               /\ Labelled(nv, s) # {} \/ FreeNumbers(nv) = {} \/ "create" \in Faults
            \/ Labelled(nv, s) = {} /\ \E n \in Num : Added(nv, nv', n, s, s)
<1>1. nv \in Nvram
  BY DEF Base, TypeOK
<1>2. CASE UNCHANGED nv /\ (Labelled(nv, s) # {} \/ FreeNumbers(nv) = {} \/ "create" \in Faults)
  BY <1>1, <1>2 DEF CreateMissing
<1>3. CASE Labelled(nv, s) = {} /\ FreeNumbers(nv) # {} /\ nv' = Created(nv, s, s)
  BY <1>1, <1>3, Adds DEF CreateMissing
<1> QED
  BY <1>2, <1>3 DEF CreateMissing, Works

LEMMA OrderSteps ==
  ASSUME Base, NEW p \in Process, FixOrder(p)
  PROVE  /\ nv' \in Nvram /\ stage[p] = "order" /\ GoTo(p, after[p])
         /\ nv'.entry = nv.entry /\ nv'.next = nv.next
         /\ \/ /\ UNCHANGED nv
               /\ \/ "order" \in Faults \/ \E s \in Slot : Labelled(nv, s) = {}
                  \/ nv.order # <<>> /\ \E s \in Slot : Head(nv.order) = BootNumber(nv, s)
            \/ /\ \A s \in Slot : Labelled(nv, s) # {}
               /\ nv'.order = <<BootNumber(nv, "a"), BootNumber(nv, "b")>>
<1> DEFINE a == BootNumber(nv, "a")
           b == BootNumber(nv, "b")
           astray == a # NoNum /\ b # NoNum /\ (nv.order = <<>> \/ Head(nv.order) \notin {a, b})
<1>1. nv \in Nvram
  BY DEF Base, TypeOK
<1>2. a \in Num \cup {NoNum} /\ (a # NoNum <=> Labelled(nv, "a") # {})
      /\ b \in Num \cup {NoNum} /\ (b # NoNum <=> Labelled(nv, "b") # {})
  BY <1>1, NumberOf DEF Slot
<1>3. stage[p] = "order" /\ GoTo(p, after[p])
      /\ \E ok \in Works("order") : nv' = IF astray /\ ok THEN [nv EXCEPT !.order = <<a, b>>] ELSE nv
  BY DEF FixOrder
<1>4. CASE ~astray /\ nv' = nv
  BY <1>1, <1>2, <1>3, <1>4 DEF Slot
<1>5. CASE "order" \in Faults /\ nv' = nv
  BY <1>1, <1>3, <1>5
<1>6. CASE astray /\ nv' = [nv EXCEPT !.order = <<a, b>>]
  <2>1. a \in Num /\ b \in Num
    BY <1>2, <1>6
  <2> HIDE DEF a, b
  <2>2. <<a, b>> \in Seq(Num)
    BY <2>1
  <2>3. nv' \in Nvram /\ nv'.entry = nv.entry /\ nv'.next = nv.next /\ nv'.order = <<a, b>>
    BY <1>1, <1>6, <2>2 DEF Nvram
  <2> QED
    BY <1>2, <1>3, <1>6, <2>3 DEF Slot, a, b
<1> QED
  BY <1>3, <1>4, <1>5, <1>6 DEF Works

(* What each step of commit does with the entries.                          *)
LEMMA FreshSteps ==
  ASSUME Base, NEW s \in Slot, NEW here, NEW next, FreshEntry(s, here, next),
         s = "b" => fresh.new["a"] \in Num
  PROVE  /\ nv' \in Nvram /\ stage["boot"] = here
         /\ fresh' \in [old : [Slot -> Num \cup {NoNum}], new : [Slot -> Num \cup {NoNum}]]
         /\ fresh'.old = fresh.old
         /\ \/ /\ GoTo("boot", next) /\ Added(nv, nv', fresh'.new[s], s, s) /\ fresh'.new[s] \in Num
               /\ \A t \in Slot : t # s => fresh'.new[t] = fresh.new[t]
            \/ /\ GoTo("boot", "failed") /\ UNCHANGED fresh
               /\ nv' = IF s = "b" THEN Deleted(nv, fresh.new["a"]) ELSE nv
<1>1. nv \in Nvram
      /\ fresh \in [old : [Slot -> Num \cup {NoNum}], new : [Slot -> Num \cup {NoNum}]]
  BY DEF Base, TypeOK
<1>2. CASE GoTo("boot", "failed") /\ UNCHANGED fresh
           /\ nv' = IF s = "b" THEN Deleted(nv, fresh.new["a"]) ELSE nv
  <2>1. nv' \in Nvram
    BY <1>1, <1>2, DeletedNv
  <2> QED
    BY <1>1, <1>2, <2>1 DEF FreshEntry
<1>3. CASE /\ FreeNumbers(nv) # {} /\ nv' = Created(nv, s, s) /\ GoTo("boot", next)
           /\ fresh' = [fresh EXCEPT !.new[s] = Min(ValidNumbers(nv', s) \ ValidNumbers(nv, s))]
  <2>1. nv' \in Nvram /\ \E n \in Num : Added(nv, nv', n, s, s)
    BY <1>1, <1>3, Adds
  <2>2. PICK n \in Num : Added(nv, nv', n, s, s)
    BY <2>1
  <2>3. ValidNumbers(nv', s) \ ValidNumbers(nv, s) = {n}
    <3>1. nv.entry \in [Num -> Entry] /\ s # "free"
      BY <1>1 DEF Nvram, Slot
    <3> QED
      BY <2>2, <3>1 DEF Added, ValidNumbers, Labelled, NoEntry
  <2>4. Min({n}) = n
    BY LeastNum
  <2>5. fresh' = [fresh EXCEPT !.new = [fresh.new EXCEPT ![s] = n]]
    BY <1>3, <2>3, <2>4
  <2>6. [fresh.new EXCEPT ![s] = n] \in [Slot -> Num \cup {NoNum}]
    BY <1>1
  <2>7. fresh' \in [old : [Slot -> Num \cup {NoNum}], new : [Slot -> Num \cup {NoNum}]]
        /\ fresh'.old = fresh.old /\ fresh'.new = [fresh.new EXCEPT ![s] = n]
    BY <1>1, <2>5, <2>6
  <2>8. fresh'.new[s] = n /\ \A t \in Slot : t # s => fresh'.new[t] = fresh.new[t]
    BY <1>1, <2>7
  <2> QED
    BY <1>3, <2>1, <2>2, <2>7, <2>8 DEF FreshEntry
<1> QED
  BY <1>2, <1>3 DEF FreshEntry

LEMMA ReorderSteps ==
  ASSUME Base, ReorderFresh
  PROVE  /\ nv' \in Nvram /\ stage["boot"] = "reorder" /\ mounted \in Slot /\ UNCHANGED fresh
         /\ \A s \in Slot : fresh.new[s] \in Num
         /\ \/ /\ GoTo("boot", "del_a") /\ nv'.entry = nv.entry /\ nv'.next = nv.next
               /\ nv'.order = <<fresh.new[mounted], fresh.new[Inactive]>>
            \/ /\ GoTo("boot", "failed") /\ "order" \in Faults
               /\ Deleted(nv, fresh.new["a"]) \in Nvram
               /\ nv' = Deleted(Deleted(nv, fresh.new["a"]), fresh.new["b"])
<1>1. nv \in Nvram /\ stage["boot"] = "reorder" /\ mounted \in Slot /\ UNCHANGED fresh
      /\ \A s \in Slot : fresh.new[s] \in Num
  BY DEF Base, TypeOK, Awake, Made, ReorderFresh
<1>2. CASE nv' = [nv EXCEPT !.order = <<fresh.new[mounted], fresh.new[Inactive]>>]
           /\ GoTo("boot", "del_a")
  <2> DEFINE x == fresh.new[mounted]
             y == fresh.new[Inactive]
  <2>1. x \in Num /\ y \in Num
    BY <1>1 DEF Inactive, Other, Slot
  <2> HIDE DEF x, y
  <2>2. <<x, y>> \in Seq(Num)
    BY <2>1
  <2>3. nv' = [nv EXCEPT !.order = <<x, y>>]
    BY <1>2 DEF x, y
  <2>4. nv' \in Nvram /\ nv'.entry = nv.entry /\ nv'.next = nv.next /\ nv'.order = <<x, y>>
    BY <1>1, <2>2, <2>3 DEF Nvram
  <2> QED
    BY <1>1, <1>2, <2>4 DEF x, y
<1>3. CASE /\ GoTo("boot", "failed") /\ "order" \in Faults
           /\ nv' = Deleted(Deleted(nv, fresh.new["a"]), fresh.new["b"])
  <2>1. Deleted(nv, fresh.new["a"]) \in Nvram
    BY <1>1, DeletedNv DEF Slot
  <2>2. nv' \in Nvram
    BY <1>1, <1>3, <2>1, DeletedNv DEF Slot
  <2> QED
    BY <1>1, <1>3, <2>1, <2>2
<1> QED
  BY <1>2, <1>3 DEF ReorderFresh

LEMMA DeleteSteps ==
  ASSUME Base, NEW s \in Slot, NEW here, NEW next, DeleteOld(s, here, next)
  PROVE  /\ nv' \in Nvram /\ stage["boot"] = here /\ GoTo("boot", next) /\ UNCHANGED fresh
         /\ fresh.old[s] \in Num \cup {NoNum}
         /\ nv' = Deleted(nv, fresh.old[s]) \/ ("delete" \in Faults /\ nv' = nv)
<1>1. nv \in Nvram /\ fresh.old[s] \in Num \cup {NoNum}
  BY DEF Base, TypeOK
<1>2. stage["boot"] = here /\ GoTo("boot", next) /\ UNCHANGED fresh
  BY DEF DeleteOld
<1>3. \E ok \in Works("delete") : nv' = IF ok THEN Deleted(nv, fresh.old[s]) ELSE nv
  BY DEF DeleteOld
<1>4. CASE nv' = Deleted(nv, fresh.old[s])
  <2>1. Deleted(nv, fresh.old[s]) \in Nvram
    BY <1>1, DeletedNv
  <2>2. nv' \in Nvram
    BY <1>4, <2>1
  <2>3. nv' = Deleted(nv, fresh.old[s]) \/ ("delete" \in Faults /\ nv' = nv)
    BY <1>4
  <2> QED
    BY <1>1, <1>2, <2>2, <2>3, Zenon
<1>5. CASE "delete" \in Faults /\ nv' = nv
  BY <1>1, <1>2, <1>5
<1> QED
  BY <1>4, <1>5, <1>3 DEF Works

(* Process p has gone to stage "next"; the others are where they were.      *)
Moved(p, next) ==
  /\ stage' \in [Process -> BootStages \cup UpdateStages]
  /\ stage'[p] = next /\ \A q \in Process : q # p => stage'[q] = stage[q]

(* Which stages a step leads to, and that the process invariants survive    *)
(* the move.                                                                *)
LEMMA Moves ==
  ASSUME Base, NEW p \in Process, NEW next \in BootStages \cup UpdateStages, GoTo(p, next)
  PROVE  Moved(p, next)
<1>1. stage \in [Process -> BootStages \cup UpdateStages]
  BY DEF Base, TypeOK
<1> QED
  BY <1>1 DEF GoTo, Moved

LEMMA ThreadMoves ==
  ASSUME Base, NEW u \in Updater, NEW next \in UpdateStages, GoTo(u, next),
         mounted # "off" \/ stage[u] # "idle", UNCHANGED <<mounted, running, after, fresh>>
  PROVE  Moved(u, next) /\ Roles' /\ Awake' /\ Made' /\ mounted # "off"
<1>1. Moved(u, next) /\ u \in Process /\ "boot" \in Process /\ u # "boot"
  BY Moves, Processes
<1>2. mounted # "off" /\ stage'["boot"] = stage["boot"]
  BY <1>1 DEF Base, Awake, Moved
<1>3. Roles'
  <2> HIDE DEF BootStages, UpdateStages
  <2> QED
    BY <1>1, <1>2, Processes DEF Base, Roles, Moved
<1> QED
  BY <1>1, <1>2, <1>3 DEF Base, Awake, Made

LEMMA BootMoves ==
  ASSUME Base, NEW next \in BootStages \ {"off"}, GoTo("boot", next),
         stage["boot"] # "off", UNCHANGED <<mounted, running>>,
         UNCHANGED after \/ after' = [after EXCEPT !["boot"] = "count"]
  PROVE  Moved("boot", next) /\ Roles' /\ Awake' /\ mounted # "off"
<1>1. Moved("boot", next)
  BY Moves, Processes
<1>2. mounted # "off" /\ stage'["boot"] = next /\ \A u \in Updater : stage'[u] = stage[u]
  BY <1>1, Processes DEF Base, Awake, Moved
<1>3. after \in [Process -> {"check", "count", "number"}]
  BY DEF Base, TypeOK
<1>4. after'["boot"] \in {"check", "count"} /\ \A u \in Updater : after'[u] = "number"
  BY <1>3, Processes DEF Base, Roles
<1> QED
  BY <1>1, <1>2, <1>4 DEF Roles, Base, Awake

(* Every way down leaves a device on which nothing runs.                    *)
LEMMA PowerIsOff ==
  ASSUME Base, Down, cuts' \in 0..MaxCuts
  PROVE  Base'
<1>1. stage' = [p \in Process |-> IF p = "boot" THEN "off" ELSE "idle"]
  BY DEF Down
<1>2. stage' \in [Process -> BootStages \cup UpdateStages]
      /\ stage'["boot"] = "off" /\ \A u \in Updater : stage'[u] = "idle"
  BY <1>1, Processes DEF BootStages, UpdateStages
<1>3. "off" \in BootStages /\ "idle" \in UpdateStages
  BY DEF BootStages, UpdateStages
<1>4. TypeOK'
  <2> HIDE DEF BootStages, UpdateStages
  <2> QED
    BY <1>2 DEF Base, TypeOK, Down
<1>5. Roles' /\ Awake'
  BY <1>2, <1>3 DEF Base, Roles, Awake, Down
<1>6. Made'
  BY <1>2 DEF Made
<1> QED
  BY <1>4, <1>5, <1>6 DEF Base

LEMMA FixMoves ==
  ASSUME Base, NEW p \in Process, NEW next \in FixStages \cup {after[p]}, GoTo(p, next),
         stage[p] \in FixStages, FixKeeps
  PROVE  Moved(p, next) /\ Roles' /\ Awake' /\ Made' /\ mounted # "off"
<1>1. after["boot"] \in {"check", "count"} /\ \A u \in Updater : after[u] = "number"
  BY DEF Base, Roles
<1>2. CASE p = "boot"
  <2>1. next \in BootStages \ {"off"} /\ stage["boot"] # "off"
        /\ next \notin {"new_b", "reorder", "del_a", "del_b", "verify"}
    BY <1>1, <1>2 DEF BootStages, FixStages, CommitStages
  <2>2. Moved("boot", next) /\ Roles' /\ Awake' /\ mounted # "off"
    BY <1>2, <2>1, BootMoves DEF FixKeeps
  <2> QED
    BY <1>2, <2>1, <2>2 DEF Made, Moved
<1>3. CASE p \in Updater
  <2>1. next \in UpdateStages /\ stage[p] # "idle"
    BY <1>1, <1>3 DEF UpdateStages, FixStages
  <2> QED
    BY <1>3, <2>1, ThreadMoves DEF FixKeeps
<1> QED
  BY <1>2, <1>3 DEF Process

-----------------------------------------------------------------------------
(* Every step keeps Base.                                                   *)

(* An update thread is past reading the number of the inactive slot only    *)
(* with a number in hand.                                                   *)
Numbered ==
  \A u \in Updater : stage[u] \in {"mkfs", "copy", "arm", "over", "overcopy"} => number[u] \in Num

LEMMA PowerSteps ==
  ASSUME Base, PowerLoss \/ LoseEntries \/ WatchdogReboots \/ \E u \in Updater : UpdateReboots(u)
  PROVE  Base'
<1>1. CASE PowerLoss
  BY <1>1, PowerIsOff, BootAssumption DEF PowerLoss, Base, TypeOK
<1>2. CASE WatchdogReboots
  BY <1>2, PowerIsOff DEF WatchdogReboots, Base, TypeOK
<1>3. CASE \E u \in Updater : UpdateReboots(u)
  BY <1>3, PowerIsOff DEF UpdateReboots, Base, TypeOK
<1>4. CASE LoseEntries
  <2>1. EmptyNvram \in Nvram
    BY DEF EmptyNvram, Nvram, Entry
  <2> HIDE DEF EmptyNvram, BootStages, UpdateStages
  <2> QED
    BY <1>4, <2>1 DEF Base, TypeOK, Roles, Awake, Made, LoseEntries
<1> QED
  BY <1>1, <1>2, <1>3, <1>4

(* Each group of actions keeps Base.                                        *)
LEMMA PowerOnBase ==
  ASSUME Base, PowerOn
  PROVE  Base'
<1>1. nv' \in Nvram /\ mounted' \in Slot
  BY PowerOnSteps
<1>2. running' \in Version
  <2>1. running' = image[mounted'] /\ mounted' \in Loadable
    BY PowerOnSteps DEF PowerOn
  <2> QED
    BY <2>1 DEF Base, TypeOK, Loadable
<1>3. Moved("boot", "clean")
  <2>1. "clean" \in BootStages \cup UpdateStages /\ GoTo("boot", "clean")
    BY DEF PowerOn, BootStages, FixStages
  <2> QED
    BY <2>1, Moves, Processes
<1>4. after' \in [Process -> {"check", "count", "number"}] /\ after'["boot"] = "check"
      /\ \A u \in Updater : after'[u] = "number"
  BY Processes DEF PowerOn, Base, TypeOK, Roles
<1>5. \A u \in Updater : stage'[u] = stage[u]
  BY <1>3, Processes DEF Moved
<1>6. Numbered'
  BY <1>5 DEF Numbered, PowerOn, Base, TypeOK
<1>7. TypeOK'
  <2> HIDE DEF BootStages, UpdateStages
  <2> QED
    BY <1>1, <1>2, <1>3, <1>4, <1>6 DEF Numbered, Moved, PowerOn, Base, TypeOK
<1>8. Roles'
  <2>1. "clean" \in BootStages
    BY DEF BootStages, FixStages
  <2> QED
    BY <1>3, <1>4, <1>5, <2>1 DEF Moved, Base, Roles
<1>9. Awake' /\ Made'
  BY <1>1, <1>2, <1>3 DEF Awake, Made, Moved, Slot
<1> QED
  BY <1>7, <1>8, <1>9 DEF Base

LEMMA FixBase ==
  ASSUME Base, NEW p \in Process, FixEntries(p)
  PROVE  /\ Base' /\ stage[p] \in FixStages /\ FixKeeps
         /\ UNCHANGED stage \/ \E next \in FixStages \cup {after[p]} : Moved(p, next)
<1>1. nv' \in Nvram /\ stage[p] \in FixStages /\ FixKeeps
      /\ (UNCHANGED stage \/ \E next \in FixStages \cup {after[p]} : GoTo(p, next))
  <2>1. CASE CleanEntries(p)
    BY <2>1, CleanSteps DEF CleanEntries, FixStages
  <2>2. ASSUME NEW s \in Slot, NEW here \in FixStages, NEW next \in FixStages,
               CreateMissing(p, s, here, next)
        PROVE  nv' \in Nvram /\ stage[p] \in FixStages /\ FixKeeps /\ GoTo(p, next)
    BY <2>2, CreateSteps DEF CreateMissing
  <2>3. CASE FixOrder(p)
    BY <2>3, OrderSteps DEF FixOrder, FixStages
  <2>4. "a" \in Slot /\ "b" \in Slot /\ {"create_a", "create_b", "order"} \subseteq FixStages
    BY DEF Slot, FixStages
  <2> QED
    BY <2>1, <2>2, <2>3, <2>4 DEF FixEntries
<1>2. CASE UNCHANGED stage
  <2> HIDE DEF BootStages, UpdateStages
  <2> QED
    BY <1>1, <1>2 DEF Base, TypeOK, Roles, Awake, Made, FixKeeps
<1>3. ASSUME NEW next \in FixStages \cup {after[p]}, GoTo(p, next)
      PROVE  Base' /\ Moved(p, next)
  <2>1. Moved(p, next) /\ Roles' /\ Awake' /\ Made'
    BY <1>1, <1>3, FixMoves
  <2>2. next \notin {"mkfs", "copy", "arm", "over", "overcopy"}
    BY <1>3 DEF FixStages, Base, TypeOK
  <2>3. Numbered'
    BY <1>1, <2>1, <2>2, Processes DEF Numbered, Moved, FixKeeps, Base, TypeOK
  <2>4. TypeOK'
    <3> HIDE DEF BootStages, UpdateStages
    <3> QED
      BY <1>1, <2>1, <2>3 DEF Numbered, Moved, FixKeeps, Base, TypeOK
  <2> QED
    BY <2>1, <2>4 DEF Base
<1> QED
  BY <1>1, <1>2, <1>3

LEMMA BootBase ==
  ASSUME Base, CheckHealth \/ Commit
  PROVE  /\ Base' /\ \E next \in BootStages \ {"off"} : Moved("boot", next)
         /\ UNCHANGED <<image, mounted, running, wanted, number, file, lock, sent, cuts>>
<1> DEFINE Fresh == [old : [Slot -> Num \cup {NoNum}], new : [Slot -> Num \cup {NoNum}]]
           Done  == {"reorder", "del_a", "del_b", "verify"}
<1>1. \A u \in Updater : u \in Process /\ u # "boot"
  BY Processes
<1>2. ASSUME NEW next \in BootStages \ {"off"}, GoTo("boot", next), stage["boot"] # "off",
             UNCHANGED <<image, mounted, running, wanted, number, file, lock, sent, cuts>>,
             UNCHANGED after \/ after' = [after EXCEPT !["boot"] = "count"],
             nv' \in Nvram, fresh' \in Fresh, proven' \subseteq Version,
             next = "new_b" => fresh'.new["a"] \in Num,
             next \in Done => \A s \in Slot : fresh'.new[s] \in Num
      PROVE  /\ Base' /\ Moved("boot", next)
             /\ UNCHANGED <<image, mounted, running, wanted, number, file, lock, sent, cuts>>
  <2>1. Moved("boot", next) /\ Roles' /\ Awake'
    BY <1>2, BootMoves
  <2>2. Made'
    BY <1>2, <2>1 DEF Made, Moved
  <2>3. Numbered'
    BY <1>1, <1>2, <2>1 DEF Numbered, Moved, Base, TypeOK
  <2>4. after' \in [Process -> {"check", "count", "number"}]
    BY <1>2 DEF Base, TypeOK
  <2>5. TypeOK'
    <3> HIDE DEF BootStages, UpdateStages
    <3> QED
      BY <1>2, <2>1, <2>3, <2>4 DEF Numbered, Moved, Base, TypeOK
  <2> QED
    BY <1>2, <2>1, <2>2, <2>5 DEF Base
<1>3. nv \in Nvram /\ fresh \in Fresh /\ proven \subseteq Version
  BY DEF Base, TypeOK
<1>4. CASE CheckHealth
  <2>1. proven' \subseteq Version
    <3>1. running \in Version
      BY <1>4 DEF CheckHealth, Base, Awake
    <3> QED
      BY <1>3, <1>4, <3>1 DEF CheckHealth
  <2>2. {"settled", "clean", "failed"} \subseteq BootStages \ {"off"}
    BY DEF BootStages, FixStages
  <2>3. \E next \in {"settled", "clean", "failed"} : GoTo("boot", next)
    BY <1>4 DEF CheckHealth
  <2> QED
    BY <1>2, <1>3, <1>4, <2>1, <2>2, <2>3 DEF CheckHealth
<1>5. CASE CountEntries
  <2>1. fresh' \in Fresh
    <3>1. CASE \A s \in Slot : Cardinality(ValidNumbers(nv, s)) = 1
      <4> DEFINE f == [s \in Slot |-> Min(ValidNumbers(nv, s))]
      <4>1. f \in [Slot -> Num \cup {NoNum}]
        BY <1>3, <3>1, OneNumber
      <4> HIDE DEF f
      <4>2. fresh' = [NoFresh EXCEPT !.old = f]
        BY <1>5, <3>1 DEF CountEntries, f
      <4> QED
        BY <4>1, <4>2 DEF NoFresh
    <3>2. CASE UNCHANGED fresh
      BY <1>3, <3>2
    <3> QED
      BY <1>5, <3>1, <3>2 DEF CountEntries
  <2>2. {"new_a", "failed"} \subseteq BootStages \ {"off"}
    BY DEF BootStages, CommitStages
  <2>3. \E next \in {"new_a", "failed"} : GoTo("boot", next)
    BY <1>5 DEF CountEntries
  <2> QED
    BY <1>2, <1>3, <1>5, <2>1, <2>2, <2>3 DEF CountEntries, CommitKeeps
<1>6. CASE FreshEntry("a", "new_a", "new_b")
  <2>1. /\ nv' \in Nvram /\ fresh' \in Fresh /\ stage["boot"] = "new_a"
        /\ (GoTo("boot", "new_b") /\ fresh'.new["a"] \in Num) \/ GoTo("boot", "failed")
    BY <1>6, FreshSteps DEF Slot
  <2>2. {"new_b", "failed"} \subseteq BootStages \ {"off"}
    BY DEF BootStages, CommitStages
  <2> QED
    BY <1>2, <1>3, <1>6, <2>1, <2>2 DEF FreshEntry, CommitKeeps
<1>7. CASE FreshEntry("b", "new_b", "reorder")
  <2>1. fresh.new["a"] \in Num
    BY <1>7 DEF FreshEntry, Base, Made
  <2>2. /\ nv' \in Nvram /\ fresh' \in Fresh /\ stage["boot"] = "new_b"
        /\ \/ GoTo("boot", "reorder") /\ \A s \in Slot : fresh'.new[s] \in Num
           \/ GoTo("boot", "failed")
    BY <1>7, <2>1, FreshSteps DEF Slot
  <2>3. {"reorder", "failed"} \subseteq BootStages \ {"off"}
    BY DEF BootStages, CommitStages
  <2> QED
    BY <1>2, <1>3, <1>7, <2>2, <2>3 DEF FreshEntry, CommitKeeps
<1>8. CASE ReorderFresh
  <2>1. {"del_a", "failed"} \subseteq BootStages \ {"off"}
    BY DEF BootStages, CommitStages
  <2>2. \E next \in {"del_a", "failed"} : GoTo("boot", next)
    BY <1>8 DEF ReorderFresh
  <2>3. nv' \in Nvram /\ UNCHANGED fresh /\ \A s \in Slot : fresh.new[s] \in Num
    BY <1>8, ReorderSteps
  <2> QED
    BY <1>2, <1>3, <1>8, <2>1, <2>2, <2>3 DEF ReorderFresh, CommitKeeps
<1>9. ASSUME NEW s \in Slot, NEW here \in Done, NEW next \in Done, DeleteOld(s, here, next)
      PROVE  /\ Base' /\ \E r \in BootStages \ {"off"} : Moved("boot", r)
             /\ UNCHANGED <<image, mounted, running, wanted, number, file, lock, sent, cuts>>
  <2>1. nv' \in Nvram /\ UNCHANGED fresh /\ stage["boot"] = here /\ GoTo("boot", next)
    BY <1>9, DeleteSteps
  <2>2. Done \subseteq BootStages \ {"off"} /\ "new_b" \notin Done
    BY DEF BootStages, CommitStages
  <2>3. \A r \in Slot : fresh.new[r] \in Num
    BY <1>9, <2>1 DEF Base, Made
  <2> QED
    BY <1>2, <1>3, <1>9, <2>1, <2>2, <2>3 DEF DeleteOld, CommitKeeps
<1>10. CASE VerifyCommit
  <2>1. {"settled", "failed"} \subseteq BootStages \ {"off"}
    BY DEF BootStages
  <2>2. \E next \in {"settled", "failed"} : GoTo("boot", next)
    BY <1>10 DEF VerifyCommit
  <2> QED
    BY <1>2, <1>3, <1>10, <2>1, <2>2 DEF VerifyCommit, CommitKeeps
<1> QED
  BY <1>4, <1>5, <1>6, <1>7, <1>8, <1>9, <1>10 DEF Commit, Slot

(* What an update thread does between two stages.                           *)
UpdateStep(u) ==
  \/ Command(u) \/ Fetch(u) \/ FetchFails(u) \/ StartUpdate(u) \/ ReadNumber(u) \/ Format(u)
  \/ Copy(u) \/ WriteFails(u) \/ ArmBootNext(u) \/ Truncate(u) \/ Overwrite(u) \/ UpdateStays(u)

LEMMA UpdateBase ==
  ASSUME Base, NEW u \in Updater, UpdateStep(u)
  PROVE  /\ Base' /\ \E next \in UpdateStages : Moved(u, next)
         /\ mounted # "off" /\ UNCHANGED <<mounted, running, after, fresh>>
<1> DEFINE Writing == {"mkfs", "copy", "arm", "over", "overcopy"}
           File == [version : Version, owner : Updater \cup {Nobody},
                    whole : BOOLEAN, there : BOOLEAN]
<1>1. u \in Process /\ u # "boot" /\ \A v \in Updater : v \in Process
  BY Processes
<1>2. ASSUME NEW next \in UpdateStages, GoTo(u, next), mounted # "off" \/ stage[u] # "idle",
             UNCHANGED <<mounted, running, after, fresh, cuts, proven>>,
             image' \in [Slot -> Version \cup {Blank}], nv' \in Nvram,
             wanted' \in [Updater -> Version], sent' \subseteq Version,
             number' \in [Updater -> Num \cup {NoNum}],
             \A v \in Updater : v # u => number'[v] = number[v],
             next \in Writing => number'[u] \in Num,
             file' \in File, lock' \in Updater \cup {Nobody}
      PROVE  /\ Base' /\ Moved(u, next)
             /\ mounted # "off" /\ UNCHANGED <<mounted, running, after, fresh>>
  <2>1. Moved(u, next) /\ Roles' /\ Awake' /\ Made'
    BY <1>2, ThreadMoves
  <2>2. mounted # "off"
    BY <1>2, ThreadMoves
  <2>3. Numbered'
    BY <1>1, <1>2, <2>1 DEF Numbered, Moved, Base, TypeOK
  <2>4. TypeOK'
    <3> HIDE DEF BootStages, UpdateStages
    <3> QED
      BY <1>2, <2>1, <2>3 DEF Numbered, Moved, Base, TypeOK
  <2> QED
    BY <1>2, <2>1, <2>4, <2>2 DEF Base
<1>3. /\ image \in [Slot -> Version \cup {Blank}] /\ nv \in Nvram /\ wanted \in [Updater -> Version]
      /\ sent \subseteq Version /\ number \in [Updater -> Num \cup {NoNum}]
      /\ file \in File /\ lock \in Updater \cup {Nobody}
      /\ (stage[u] \in Writing => number[u] \in Num)
  BY DEF Base, TypeOK
<1>4. UpdateStages = {"idle", "fetch", "fetched", "number", "mkfs", "copy", "arm", "over",
                      "overcopy", "armed", "clean", "create_a", "create_b", "order"}
  BY DEF UpdateStages, FixStages
<1>5. [file EXCEPT !.there = FALSE] \in File /\ [file EXCEPT !.whole = TRUE] \in File
  BY <1>3
<1>6. stage[u] # "idle" => mounted \in Slot
  BY DEF Base, Awake, TypeOK
<1>7. \A s \in Slot : \A v \in Version \cup {Blank} :
        [image EXCEPT ![s] = v] \in [Slot -> Version \cup {Blank}]
  BY <1>3
<1>8. stage[u] # "idle" => Inactive \in Slot
  BY DEF Inactive, Other, Slot
<1>9. Copied \in Version \cup {Blank}
  BY <1>3 DEF Copied
<1> HIDE DEF File, UpdateStages
<1>10. CASE Command(u)
  <2>1. PICK v \in Version : /\ wanted' = [wanted EXCEPT ![u] = v] /\ sent' = sent \cup {v}
                            /\ file' = [version |-> v, owner |-> u, whole |-> FALSE, there |-> TRUE]
    BY <1>10 DEF Command
  <2>2. file' \in File /\ wanted' \in [Updater -> Version] /\ sent' \subseteq Version
    BY <1>3, <2>1 DEF File
  <2> QED
    BY <1>2, <1>3, <1>4, <1>10, <2>2 DEF Command, StorageDone
<1>11. CASE Fetch(u)
  BY <1>2, <1>3, <1>4, <1>5, <1>11 DEF Fetch, UpdateKeeps
<1>12. CASE FetchFails(u)
  BY <1>2, <1>3, <1>4, <1>5, <1>12 DEF FetchFails, GiveUp, UpdateKeeps
<1>13. CASE StartUpdate(u)
  BY <1>2, <1>3, <1>4, <1>5, <1>13 DEF StartUpdate, GiveUp, UpdateKeeps
<1>14. CASE ReadNumber(u)
  <2> DEFINE n == BootNumber(nv, Inactive)
  <2>1. n \in Num \cup {NoNum}
    BY <1>3, <1>6, <1>8, <1>14, NumberOf DEF ReadNumber
  <2>2. number' = [number EXCEPT ![u] = n] /\ stage[u] = "number"
    BY <1>14 DEF ReadNumber
  <2> HIDE DEF n
  <2>3. number' \in [Updater -> Num \cup {NoNum}] /\ number'[u] = n
        /\ \A v \in Updater : v # u => number'[v] = number[v]
    BY <1>3, <2>1, <2>2
  <2>4. CASE n = NoNum
    BY <1>2, <1>3, <1>4, <1>5, <1>14, <2>2, <2>3, <2>4 DEF n, ReadNumber, GiveUp, UpdateKeeps
  <2>5. CASE n # NoNum
    BY <1>2, <1>3, <1>4, <1>14, <2>1, <2>2, <2>3, <2>5 DEF n, ReadNumber, UpdateKeeps
  <2> QED
    BY <2>4, <2>5
<1>15. CASE Format(u)
  BY <1>2, <1>3, <1>4, <1>7, <1>8, <1>15 DEF Format, UpdateKeeps
<1>16. CASE Copy(u)
  <2>1. CASE file.there
    BY <1>2, <1>3, <1>4, <1>7, <1>8, <1>9, <1>16, <2>1 DEF Copy, UpdateKeeps
  <2>2. CASE ~file.there
    BY <1>2, <1>3, <1>4, <1>5, <1>16, <2>2 DEF Copy, GiveUp, UpdateKeeps
  <2> QED
    BY <2>1, <2>2
<1>17. CASE WriteFails(u)
  BY <1>2, <1>3, <1>4, <1>5, <1>7, <1>8, <1>9, <1>17 DEF WriteFails, GiveUp, UpdateKeeps
<1>18. CASE ArmBootNext(u)
  <2>1. stage[u] = "arm" /\ number[u] \in Num
    BY <1>3, <1>18 DEF ArmBootNext
  <2>2. CASE GiveUp(u) /\ lock' = Nobody /\ UNCHANGED nv
    BY <1>2, <1>3, <1>4, <1>5, <1>18, <2>1, <2>2 DEF ArmBootNext, GiveUp, UpdateKeeps
  <2>3. CASE /\ nv' = [nv EXCEPT !.next = number[u]]
             /\ GoTo(u, "armed") /\ lock' = Nobody /\ UNCHANGED file
    <3>1. nv' \in Nvram
      BY <1>3, <2>1, <2>3 DEF Nvram
    <3> QED
      BY <1>2, <1>3, <1>4, <1>18, <2>1, <2>3, <3>1 DEF ArmBootNext, UpdateKeeps
  <2>4. CASE GoTo(u, "over") /\ UNCHANGED <<nv, file, lock>>
    BY <1>2, <1>3, <1>4, <1>18, <2>1, <2>4 DEF ArmBootNext, UpdateKeeps
  <2> QED
    BY <1>18, <2>2, <2>3, <2>4 DEF ArmBootNext
<1>19. CASE Truncate(u)
  <2>1. nv' = [nv EXCEPT !.next = NoNum] /\ stage[u] = "over"
    BY <1>19 DEF Truncate
  <2>2. nv' \in Nvram
    BY <1>3, <2>1 DEF Nvram
  <2>3. CASE file.there
    BY <1>2, <1>3, <1>4, <1>6, <1>7, <1>19, <2>1, <2>2, <2>3 DEF Truncate, UpdateKeeps
  <2>4. CASE ~file.there
    BY <1>2, <1>3, <1>4, <1>5, <1>19, <2>1, <2>2, <2>4 DEF Truncate, GiveUp, UpdateKeeps
  <2> QED
    BY <2>3, <2>4
<1>20. CASE Overwrite(u)
  BY <1>2, <1>3, <1>4, <1>5, <1>6, <1>7, <1>9, <1>20 DEF Overwrite, UpdateKeeps
<1>21. CASE UpdateStays(u)
  BY <1>2, <1>3, <1>4, <1>21 DEF UpdateStays, UpdateKeeps
<1> QED
  BY <1>10, <1>11, <1>12, <1>13, <1>14, <1>15, <1>16, <1>17, <1>18, <1>19, <1>20, <1>21
     DEF UpdateStep

(* Base is inductive.                                                       *)
LEMMA BaseInit == Init => Base
<1> SUFFICES ASSUME Init
             PROVE  Base
  OBVIOUS
<1>1. nv \in Nvram
  <2>1. EmptyNvram \in Nvram
    BY DEF EmptyNvram, Nvram, Entry
  <2>2. FreeNumbers(EmptyNvram) # {}
    BY NumAssumption DEF FreeNumbers, EmptyNvram, Num
  <2>3. "a" \in {"a", "b", "auto"} /\ "gone" \in Slot \cup {"gone"}
    OBVIOUS
  <2>4. Created(EmptyNvram, "a", "gone") \in Nvram
    BY <2>1, <2>2, <2>3, CreatedNv DEF Added
  <2> QED
    BY <2>1, <2>4 DEF Init
<1>2. /\ stage \in [Process -> BootStages \cup UpdateStages]
      /\ stage["boot"] = "off" /\ \A u \in Updater : stage[u] = "idle"
  BY Processes DEF Init, BootStages, UpdateStages
<1>3. /\ after \in [Process -> {"check", "count", "number"}]
      /\ after["boot"] = "check" /\ \A u \in Updater : after[u] = "number"
  BY Processes DEF Init
<1>4. fresh \in [old : [Slot -> Num \cup {NoNum}], new : [Slot -> Num \cup {NoNum}]]
  BY DEF Init, NoFresh
<1>5. file \in [version : Version, owner : Updater \cup {Nobody}, whole : BOOLEAN, there : BOOLEAN]
  BY BootAssumption DEF Init, NoFile
<1>6. "off" \in BootStages /\ "idle" \in UpdateStages
  BY DEF BootStages, UpdateStages
<1>7. TypeOK
  <2> HIDE DEF BootStages, UpdateStages
  <2> QED
    BY <1>1, <1>2, <1>3, <1>4, <1>5, BootAssumption DEF Init, TypeOK
<1> QED
  BY <1>2, <1>3, <1>6, <1>7 DEF Init, Base, Roles, Awake, Made

(* A thread moves alone.                                                    *)
LEMMA ThreadGoes ==
  ASSUME Base, NEW u \in Updater, NEW next \in UpdateStages, GoTo(u, next)
  PROVE  /\ stage'[u] = next /\ stage'["boot"] = stage["boot"]
         /\ \A v \in Updater : v # u => stage'[v] = stage[v]
<1>1. Moved(u, next)
  BY Moves, Processes
<1> QED
  BY <1>1, Processes DEF Moved

(* The steps of the system, in the groups the proofs treat.                 *)
LEMMA Steps ==
  ASSUME Next
  PROVE  \/ PowerLoss \/ LoseEntries \/ WatchdogReboots
         \/ \E u \in Updater : UpdateReboots(u)
         \/ PowerOn
         \/ \E p \in Process : FixEntries(p)
         \/ CheckHealth \/ Commit
         \/ \E u \in Updater : UpdateStep(u)
BY DEF Next, BootChain, Process, RunUpdate, UpdateStep

LEMMA BaseStep == Base /\ [Next]_vars => Base'
<1> SUFFICES ASSUME Base, [Next]_vars
             PROVE  Base'
  OBVIOUS
<1>1. CASE Next
  BY <1>1, Steps, PowerSteps, PowerOnBase, FixBase, BootBase, UpdateBase
<1>2. CASE UNCHANGED vars
  <2> HIDE DEF BootStages, UpdateStages
  <2> QED
    BY <1>2 DEF vars, Base, TypeOK, Roles, Awake, Made
<1> QED
  BY <1>1, <1>2

(* The variables of the firmware and of the update path keep their types,   *)
(* and an update writes only with the number of an entry in hand.           *)
THEOREM BootTypeCorrect == Spec => []TypeOK
<1>1. Base => TypeOK
  BY DEF Base
<1> QED
  BY <1>1, BaseInit, BaseStep, PTL DEF Spec

-----------------------------------------------------------------------------
(* One slot holds a whole image, whatever the update path.                  *)
(* The slot in use is whole, but for the time in which it is overwritten.   *)
(* The path without BootNext is taken only when the firmware may drop it;   *)
(* the download then belongs to the only thread there is, and is whole once *)
(* fetched, so that what was copied to the inactive slot is whole as well.  *)
Intact ==
  /\ mounted \in Slot /\ image[mounted] = Blank =>
       \E u \in Updater : stage[u] = "overcopy" /\ image[Inactive] # Blank
  /\ \A u \in Updater :
       /\ stage[u] \in {"over", "overcopy"} => "next" \in Faults
       /\ Alone /\ stage[u] # "idle" => file.owner = u
       /\ Alone /\ stage[u] \notin {"idle", "fetch"} => file.whole
       /\ Alone /\ stage[u] \in {"arm", "over", "overcopy"} => image[Inactive] # Blank

InvA == NeverBricked /\ Intact

(* An update never leaves both slots in pieces: it formats the inactive     *)
(* slot while the active one is whole, and overwrites the active one from a *)
(* whole inactive slot.                                                     *)
LEMMA IntactUpdate ==
  ASSUME "overwrite" \notin Faults, "next" \in Faults => Alone,
         Base, Intact, NEW u \in Updater, UpdateStep(u)
  PROVE  Intact'
<1>1. /\ image \in [Slot -> Version \cup {Blank}] /\ mounted \in Slot \cup {"off"}
      /\ file \in [version : Version, owner : Updater \cup {Nobody},
                   whole : BOOLEAN, there : BOOLEAN]
  BY DEF Base, TypeOK
<1>2. mounted \in Slot /\ Inactive \in Slot /\ Inactive # mounted /\ UNCHANGED <<mounted, Inactive>>
  BY <1>1, UpdateBase DEF Inactive, Other, Slot
<1>3. UpdateStages = {"idle", "fetch", "fetched", "number", "mkfs", "copy", "arm", "over",
                      "overcopy", "armed", "clean", "create_a", "create_b", "order"}
  BY DEF UpdateStages, FixStages
<1>4. ASSUME NEW next \in UpdateStages, GoTo(u, next)
      PROVE  stage'[u] = next /\ \A v \in Updater : v # u => stage'[v] = stage[v]
  BY <1>4, ThreadGoes
<1>5. "next" \in Faults \/ \A v \in Updater : stage[v] \notin {"over", "overcopy"}
  BY DEF Intact
<1>6. file.version # Blank
  BY <1>1, BootAssumption
<1> HIDE DEF Inactive, UpdateStages, Alone
<1> USE <1>1, <1>2, <1>3, <1>4, <1>5 DEF Intact, UpdateKeeps
<1>7. CASE Command(u)
  BY <1>7 DEF Command, Alone
<1>8. CASE Fetch(u)
  BY <1>8 DEF Fetch, Alone
<1>9. CASE FetchFails(u)
  BY <1>9 DEF FetchFails, GiveUp
<1>10. CASE StartUpdate(u)
  BY <1>10 DEF StartUpdate, GiveUp
<1>11. CASE ReadNumber(u)
  BY <1>11 DEF ReadNumber, GiveUp
<1>12. CASE Format(u)
  BY <1>12 DEF Format, Alone
<1>13. CASE Copy(u)
  BY <1>6, <1>13 DEF Copy, GiveUp, Copied, Alone
<1>14. CASE WriteFails(u)
  BY <1>14 DEF WriteFails, GiveUp, Alone
<1>15. CASE ArmBootNext(u)
  BY <1>15 DEF ArmBootNext, GiveUp, Works
<1>16. CASE Truncate(u)
  BY <1>16 DEF Truncate, GiveUp
<1>17. CASE Overwrite(u)
  BY <1>6, <1>17 DEF Overwrite, Copied, Alone
<1>18. CASE UpdateStays(u)
  BY <1>18 DEF UpdateStays
<1> QED
  BY <1>7, <1>8, <1>9, <1>10, <1>11, <1>12, <1>13, <1>14, <1>15, <1>16, <1>17, <1>18
     DEF UpdateStep

LEMMA IntactStep ==
  ASSUME "overwrite" \notin Faults, "next" \in Faults => Alone, Base, InvA, [Next]_vars
  PROVE  InvA'
<1>1. Base'
  BY BaseStep
<1>2. CASE PowerLoss \/ WatchdogReboots \/ \E u \in Updater : UpdateReboots(u)
  <2>1. mounted' = "off" /\ UNCHANGED image /\ \A u \in Updater : stage'[u] = "idle"
    BY <1>2, Processes DEF PowerLoss, WatchdogReboots, UpdateReboots, Down
  <2> QED
    BY <2>1 DEF InvA, NeverBricked, Loadable, Intact, Slot
<1>3. CASE LoseEntries
  BY <1>3 DEF LoseEntries, InvA, NeverBricked, Loadable, Intact, Inactive
<1>4. CASE PowerOn
  <2>1. mounted' \in Loadable /\ UNCHANGED image /\ mounted = "off"
    BY <1>4, PowerOnSteps DEF PowerOn
  <2>2. \A u \in Updater : stage'[u] = "idle"
    BY <1>4, <2>1, Moves, Processes DEF PowerOn, GoTo, Base, TypeOK, Awake
  <2> QED
    BY <2>1, <2>2 DEF InvA, NeverBricked, Loadable, Intact
<1>5. ASSUME NEW p \in Process, FixEntries(p)
      PROVE  InvA'
  <2>1. UNCHANGED <<image, mounted, file>> /\ stage[p] \in FixStages
        /\ (UNCHANGED stage \/ \E next \in FixStages \cup {after[p]} : Moved(p, next))
    BY <1>5, FixBase DEF FixKeeps
  <2>2. \A next \in FixStages \cup {after[p]} :
          next \notin {"idle", "fetch", "arm", "over", "overcopy"}
    BY DEF FixStages, Base, TypeOK
  <2>3. \A u \in Updater : \/ stage'[u] = stage[u]
                           \/ /\ stage[u] \in FixStages
                              /\ stage'[u] \notin {"idle", "fetch", "arm", "over", "overcopy"}
    BY <2>1, <2>2, Processes DEF Moved
  <2>4. UNCHANGED Inactive /\ UNCHANGED Loadable
    BY <2>1 DEF Inactive, Loadable
  <2> QED
    BY <2>1, <2>3, <2>4 DEF InvA, NeverBricked, Intact, FixStages
<1>6. CASE CheckHealth \/ Commit
  <2>1. UNCHANGED <<image, mounted, file>> /\ \A u \in Updater : stage'[u] = stage[u]
    BY <1>6, BootBase, Processes DEF Moved
  <2> QED
    BY <2>1 DEF InvA, NeverBricked, Loadable, Intact, Inactive
<1>7. CASE \E u \in Updater : UpdateStep(u)
  <2>1. Intact'
    BY <1>7, IntactUpdate DEF InvA
  <2>2. mounted' # "off"
    BY <1>7, UpdateBase
  <2>3. NeverBricked'
    <3>1. mounted' \in Slot /\ Inactive' \in Slot
      BY <1>1, <2>2 DEF Base, TypeOK, Inactive, Other, Slot
    <3> QED
      BY <2>1, <3>1 DEF Intact, NeverBricked, Loadable
  <2> QED
    BY <2>1, <2>3 DEF InvA
<1>8. CASE UNCHANGED vars
  BY <1>8 DEF vars, InvA, NeverBricked, Loadable, Intact, Inactive
<1> QED
  BY <1>2, <1>3, <1>4, <1>5, <1>6, <1>7, <1>8, Steps

(* One slot always holds a whole image (NeverBricked), as long as           *)
(* overwriting the active slot does not fail, and two updates do not run at *)
(* once where the firmware drops BootNext.                                  *)
THEOREM OneSlotIsWhole ==
  ASSUME "overwrite" \notin Faults, "next" \in Faults => Alone
  PROVE  Spec => []NeverBricked
<1>1. Init => Base /\ InvA
  <2>1. Init => \A u \in Updater : stage[u] = "idle"
    BY Processes DEF Init
  <2> QED
    BY <2>1, BaseInit, BootAssumption DEF Init, InvA, NeverBricked, Loadable, Intact, Slot
<1>2. Base /\ InvA /\ [Next]_vars => (Base /\ InvA)'
  BY BaseStep, IntactStep
<1>3. InvA => NeverBricked
  BY DEF InvA
<1> QED
  BY <1>1, <1>2, <1>3, PTL DEF Spec

-----------------------------------------------------------------------------
(* While a commit runs, BootOrder reaches a loadable slot.                  *)

(* Entry n of v is for slot s, and BootOrder names it.                      *)
InOrder(v, n, s) == n \in ValidNumbers(v, s) /\ n \in Range(v.order)

(* A slot that has an entry has one in BootOrder.                           *)
Reached(v) ==
  \A s \in Slot : ValidNumbers(v, s) # {} => \E n \in Num : InOrder(v, n, s)

(* No entry is wrong: each label names its own slot.                        *)
Right(v) ==
  \A n \in Num : /\ v.entry[n].label = "auto" => v.entry[n].slot \notin Slot
                 /\ v.entry[n].label \in Slot => v.entry[n].slot = v.entry[n].label

(* A label names entries of its slot only, or wrong ones only: with one of  *)
(* either kind at hand fix_entries creates no other.                        *)
Pure(v) ==
  \A s \in Slot : ValidNumbers(v, s) = {} \/ Labelled(v, s) \subseteq ValidNumbers(v, s)

Fit(v) == Pure(v) /\ ("clean" \notin Faults => Right(v))

(* How creating, deleting and ordering entries change what BootOrder        *)
(* reaches.                                                                 *)
LEMMA RightMeans == Right(nv) <=> WrongEntries = {}
BY DEF Right, WrongEntries

LEMMA AddedRange ==
  ASSUME NEW v \in Nvram, NEW w, NEW n, NEW l, NEW t, Added(v, w, n, l, t)
  PROVE  Range(w.order) = Range(v.order) \cup {n}
<1>1. v.order \in Seq(Num) /\ n \in Num /\ w.order = <<n>> \o v.order
  BY DEF Nvram, Added
<1>2. w.order \in Seq(Num) /\ Len(w.order) = Len(v.order) + 1 /\ w.order[1] = n
      /\ \A i \in 1..Len(v.order) : w.order[i + 1] = v.order[i]
  BY <1>1
<1>3. n \in Range(w.order)
  BY <1>1, <1>2 DEF Range
<1>4. ASSUME NEW m \in Range(w.order), m # n
      PROVE  m \in Range(v.order)
  <2>1. PICK i \in DOMAIN w.order : w.order[i] = m
    BY DEF Range
  <2>2. i - 1 \in 1..Len(v.order) /\ (i - 1) + 1 = i
    BY <1>1, <1>2, <1>4, <2>1
  <2> QED
    BY <1>1, <1>2, <2>1, <2>2 DEF Range
<1>5. ASSUME NEW m \in Range(v.order)
      PROVE  m \in Range(w.order)
  <2>1. PICK i \in DOMAIN v.order : v.order[i] = m
    BY DEF Range
  <2>2. i \in 1..Len(v.order) /\ i + 1 \in 1..Len(w.order)
    BY <1>1, <1>2
  <2> QED
    BY <1>2, <2>1, <2>2 DEF Range
<1> QED
  BY <1>3, <1>4, <1>5

LEMMA AddedKeeps ==
  ASSUME NEW v \in Nvram, NEW w, NEW n, NEW l, NEW t, Added(v, w, n, l, t),
         NEW m \in Num, NEW s \in Slot, InOrder(v, m, s)
  PROVE  InOrder(w, m, s) /\ m # n
<1>1. v.entry \in [Num -> Entry] /\ v.entry[n] = NoEntry
      /\ w.entry = [v.entry EXCEPT ![n] = [label |-> l, slot |-> t]]
  BY DEF Nvram, Added
<1> QED
  BY <1>1, AddedRange DEF InOrder, ValidNumbers, Labelled, NoEntry, Slot

LEMMA AddedInOrder ==
  ASSUME NEW v \in Nvram, NEW w, NEW n, NEW l \in {"a", "b", "auto"}, NEW t \in Slot,
         Added(v, w, n, l, t)
  PROVE  /\ l = t => InOrder(w, n, t)
         /\ Reached(v) => Reached(w)
         /\ Right(v) /\ l = t => Right(w)
<1>1. /\ v.entry \in [Num -> Entry] /\ n \in Num /\ v.entry[n] = NoEntry
      /\ w.entry = [v.entry EXCEPT ![n] = [label |-> l, slot |-> t]]
  BY DEF Nvram, Added
<1>2. l = t => InOrder(w, n, t)
  BY <1>1, AddedRange DEF InOrder, ValidNumbers, Labelled
<1>3. ASSUME Reached(v), NEW s \in Slot, ValidNumbers(w, s) # {}
      PROVE  \E m \in Num : InOrder(w, m, s)
  <2>1. CASE ValidNumbers(v, s) # {}
    BY <1>3, <2>1, AddedKeeps DEF Reached
  <2>2. CASE ValidNumbers(v, s) = {}
    <3>1. l = s /\ t = s
      BY <1>1, <1>3, <2>2 DEF ValidNumbers, Labelled
    <3> QED
      BY <1>1, <1>2, <3>1
  <2> QED
    BY <2>1, <2>2
<1>4. Right(v) /\ l = t => Right(w)
  BY <1>1 DEF Right, Slot
<1> QED
  BY <1>2, <1>3, <1>4 DEF Reached

LEMMA AddedPure ==
  ASSUME NEW v \in Nvram, NEW w, NEW n, NEW l \in {"a", "b", "auto"}, NEW t \in Slot,
         Added(v, w, n, l, t), Pure(v),
         l \in Slot => l = t /\ Labelled(v, t) \subseteq ValidNumbers(v, t)
  PROVE  Pure(w)
<1>1. /\ v.entry \in [Num -> Entry] /\ n \in Num /\ v.entry[n] = NoEntry
      /\ w.entry = [v.entry EXCEPT ![n] = [label |-> l, slot |-> t]]
  BY DEF Nvram, Added
<1>2. \A s \in Slot : /\ l # s => Labelled(w, s) = Labelled(v, s)
                      /\ Labelled(w, s) \subseteq Labelled(v, s) \cup {n}
  BY <1>1 DEF Labelled, NoEntry, Slot
<1>3. \A s \in Slot : /\ ValidNumbers(v, s) \subseteq ValidNumbers(w, s)
                      /\ l # s => ValidNumbers(w, s) = ValidNumbers(v, s)
                      /\ l = s => n \in ValidNumbers(w, s)
  BY <1>1 DEF ValidNumbers, Labelled, NoEntry, Slot
<1>4. ASSUME NEW s \in Slot
      PROVE  ValidNumbers(w, s) = {} \/ Labelled(w, s) \subseteq ValidNumbers(w, s)
  <2>1. CASE l = s
    BY <1>2, <1>3, <2>1
  <2>2. CASE l # s
    BY <1>2, <1>3, <2>2 DEF Pure
  <2> QED
    BY <2>1, <2>2
<1> QED
  BY <1>4 DEF Pure

LEMMA DeletedInOrder ==
  ASSUME NEW v \in Nvram, NEW n \in Num \cup {NoNum}
  PROVE  /\ \A m \in Num, s \in Slot : InOrder(v, m, s) /\ m # n => InOrder(Deleted(v, n), m, s)
         /\ \A s \in Slot : ValidNumbers(Deleted(v, n), s) \subseteq ValidNumbers(v, s) \ {n}
         /\ Right(v) => Right(Deleted(v, n))
         /\ Pure(v) => Pure(Deleted(v, n))
<1> DEFINE w == Deleted(v, n)
<1>1. /\ v.entry \in [Num -> Entry] /\ w.entry = [v.entry EXCEPT ![n] = NoEntry]
      /\ \A m \in Range(v.order) : m # n => m \in Range(w.order)
  BY DeletedNv DEF Nvram
<1> HIDE DEF w
<1>2. \A m \in Num, s \in Slot : InOrder(v, m, s) /\ m # n => InOrder(w, m, s)
  BY <1>1 DEF InOrder, ValidNumbers, Labelled
<1>3. \A s \in Slot : ValidNumbers(w, s) \subseteq ValidNumbers(v, s) \ {n}
  BY <1>1 DEF ValidNumbers, Labelled, NoEntry, Slot
<1>4. Right(v) => Right(w)
  BY <1>1 DEF Right, NoEntry, Slot
<1>5. Pure(v) => Pure(w)
  <2>1. \A s \in Slot : /\ Labelled(w, s) = Labelled(v, s) \ {n}
                        /\ ValidNumbers(w, s) = ValidNumbers(v, s) \ {n}
    BY <1>1 DEF ValidNumbers, Labelled, NoEntry, Slot
  <2> QED
    BY <2>1 DEF Pure
<1> QED
  BY <1>2, <1>3, <1>4, <1>5 DEF w

LEMMA OrderedPair ==
  ASSUME NEW v \in Nvram, NEW w, NEW x \in Num, NEW y \in Num,
         w.entry = v.entry, w.order = <<x, y>>
  PROVE  /\ \A s \in Slot : ValidNumbers(w, s) = ValidNumbers(v, s)
         /\ \A s \in Slot, n \in {x, y} : n \in ValidNumbers(v, s) => InOrder(w, n, s)
         /\ Right(w) <=> Right(v)
         /\ Pure(w) <=> Pure(v)
<1>1. x \in Range(w.order) /\ y \in Range(w.order)
  BY DEF Range
<1> QED
  BY <1>1 DEF InOrder, ValidNumbers, Labelled, Right, Pure

(* Updates run on a confirmed slot only.                                    *)
Quiet ==
  /\ \A u \in Updater : stage[u] # "idle" => stage["boot"] = "settled"
  /\ mounted \in Slot /\ stage["boot"] # "settled" => image[mounted] # Blank

(* What the commit has found and made is valid and in BootOrder: the old    *)
(* pair until BootOrder is written, the fresh one from then on.             *)
Kept ==
  LET here == stage["boot"]
      Done(s) == InOrder(nv, fresh.new[s], s) /\ \A t \in Slot : fresh.new[s] # fresh.old[t]
  IN /\ here \in {"new_a", "new_b", "reorder"} => \A s \in Slot : InOrder(nv, fresh.old[s], s)
     /\ here = "new_b" => Done("a")
     /\ here \in {"reorder", "del_a", "del_b", "verify"} => \A s \in Slot : Done(s)

(* Once the boot has cleaned them, no entries are wrong.                    *)
Cleaned ==
  /\ Pure(nv)
  /\ "clean" \notin Faults /\ stage["boot"] \notin {"off", "clean"} => Right(nv)

InvC == Quiet /\ Cleaned /\ Reached(nv) /\ Kept

(* Where a slot can be reached through BootOrder, BootOrder is bootable.    *)
LEMMA CommitReaches ==
  ASSUME Base, InvC
  PROVE  OrderBootable
<1> SUFFICES ASSUME stage["boot"] \in CommitStages \ {"count"}
             PROVE  \E i \in DOMAIN nv.order : nv.entry[nv.order[i]].slot \in Loadable
  BY DEF OrderBootable
<1>1. mounted \in Slot /\ image[mounted] # Blank
  BY DEF CommitStages, Base, TypeOK, Awake, InvC, Quiet
<1>2. \E n \in Num : InOrder(nv, n, mounted)
  BY <1>1 DEF CommitStages, InvC, Kept, InOrder, ValidNumbers, Labelled
<1> QED
  BY <1>1, <1>2 DEF InOrder, ValidNumbers, Labelled, Loadable, Range

(* No update runs beside the repair and the commit of the entries.          *)
LEMMA QuietStep ==
  ASSUME "trial_update" \notin Faults, Base, Quiet, [Next]_vars
  PROVE  Quiet'
<1>1. CASE PowerLoss \/ WatchdogReboots \/ \E u \in Updater : UpdateReboots(u)
  <2>1. mounted' = "off" /\ \A u \in Updater : stage'[u] = "idle"
    BY <1>1, Processes DEF PowerLoss, WatchdogReboots, UpdateReboots, Down
  <2> QED
    BY <2>1 DEF Quiet, Slot
<1>2. CASE LoseEntries
  BY <1>2 DEF LoseEntries, Quiet
<1>3. CASE PowerOn
  <2>1. mounted' \in Loadable /\ UNCHANGED image /\ mounted = "off"
    BY <1>3, PowerOnSteps DEF PowerOn
  <2>2. \A u \in Updater : stage'[u] = "idle"
    BY <1>3, <2>1, Processes DEF PowerOn, GoTo, Base, TypeOK, Awake
  <2> QED
    BY <2>1, <2>2 DEF Quiet, Loadable
<1>4. ASSUME NEW p \in Process, FixEntries(p)
      PROVE  Quiet'
  <2>1. stage[p] \in FixStages /\ UNCHANGED <<image, mounted>>
        /\ (UNCHANGED stage \/ \E next \in FixStages \cup {after[p]} : Moved(p, next))
    BY <1>4, FixBase DEF FixKeeps
  <2>2. p = "boot" => /\ \A u \in Updater : stage'[u] = stage[u] /\ stage[u] = "idle"
                      /\ stage["boot"] # "settled"
    BY <2>1, Processes DEF Moved, Quiet, FixStages
  <2>3. p \in Updater => stage["boot"] = "settled" /\ stage'["boot"] = "settled"
    BY <2>1, Processes DEF Moved, Quiet, FixStages
  <2> QED
    BY <2>1, <2>2, <2>3 DEF Quiet, Process
<1>5. CASE CheckHealth \/ Commit
  <2>1. UNCHANGED <<image, mounted>> /\ \A u \in Updater : stage'[u] = stage[u]
    BY <1>5, BootBase, Processes DEF Moved
  <2>2. stage["boot"] # "settled"
    BY <1>5 DEF CheckHealth, Commit, CountEntries, FreshEntry, ReorderFresh, DeleteOld, VerifyCommit
  <2> QED
    BY <2>1, <2>2 DEF Quiet
<1>6. ASSUME NEW u \in Updater, UpdateStep(u)
      PROVE  Quiet'
  <2>1. stage["boot"] = "settled"
    <3>1. CASE Command(u)
      BY <3>1 DEF Command, Confirmed
    <3>2. CASE stage[u] # "idle"
      BY <3>2 DEF Quiet
    <3> QED
      BY <1>6, <3>1, <3>2 DEF UpdateStep, Fetch, FetchFails, StartUpdate, ReadNumber, Format, Copy,
             WriteFails, ArmBootNext, Truncate, Overwrite, UpdateStays
  <2>2. stage'["boot"] = "settled"
    BY <1>6, <2>1, UpdateBase, Processes DEF Moved
  <2> QED
    BY <2>2 DEF Quiet
<1>7. CASE UNCHANGED vars
  BY <1>7 DEF vars, Quiet
<1> QED
  BY <1>1, <1>2, <1>3, <1>4, <1>5, <1>6, <1>7, Steps

(* Repairing the entries keeps a valid one in BootOrder.                    *)
LEMMA FixReaches ==
  ASSUME Base, InvC, NEW p \in Process, FixEntries(p)
  PROVE  Cleaned' /\ Reached(nv') /\ Kept'
<1>1. stage[p] \in FixStages /\ nv \in Nvram /\ nv' \in Nvram /\ Reached(nv) /\ Pure(nv)
      /\ (UNCHANGED stage \/ \E next \in FixStages \cup {after[p]} : Moved(p, next))
  BY FixBase DEF Base, TypeOK, InvC, Cleaned
<1>2. stage[p] # "clean" => Fit(nv)
  <2>1. p \in Updater => stage["boot"] = "settled"
    BY <1>1 DEF InvC, Quiet, FixStages
  <2> QED
    BY <1>1, <2>1 DEF InvC, Cleaned, Process, FixStages, Fit
<1>3. Kept'
  <2>1. stage'["boot"] \in FixStages \cup {"check", "count", "settled"}
    BY <1>1, Processes DEF Moved, InvC, Quiet, FixStages, Base, Roles, Process
  <2> QED
    BY <2>1 DEF Kept, FixStages
<1>4. /\ Reached(nv') /\ Pure(nv') /\ (Right(nv) => Right(nv'))
      /\ stage'[p] # "clean" => Fit(nv')
  <2>1. CASE CleanEntries(p)
    <3>1. CASE UNCHANGED nv /\ (WrongEntries = {} \/ "clean" \in Faults)
      BY <1>1, <3>1, RightMeans DEF Fit
    <3>2. ASSUME NEW n \in WrongEntries, n \in Num, nv' = Deleted(nv, n), UNCHANGED stage
          PROVE  /\ Reached(nv') /\ Pure(nv') /\ (Right(nv) => Right(nv'))
                 /\ stage'[p] = "clean"
      <4>1. \A s \in Slot : n \notin ValidNumbers(nv, s)
        BY <3>2 DEF WrongEntries, ValidNumbers, Labelled, Slot
      <4>2. \A s \in Slot : /\ ValidNumbers(nv', s) \subseteq ValidNumbers(nv, s)
                            /\ \A m \in Num : InOrder(nv, m, s) => InOrder(nv', m, s)
        BY <1>1, <3>2, <4>1, DeletedInOrder DEF InOrder
      <4>3. Pure(nv') /\ (Right(nv) => Right(nv'))
        BY <1>1, <3>2, DeletedInOrder
      <4>4. Reached(nv')
        BY <1>1, <4>2 DEF Reached
      <4> QED
        BY <2>1, <3>2, <4>3, <4>4, CleanSteps
    <3> QED
      BY <2>1, <3>1, <3>2, CleanSteps
  <2>2. ASSUME NEW s \in Slot, NEW here \in {"create_a", "create_b"}, NEW next,
               CreateMissing(p, s, here, next)
        PROVE  Reached(nv') /\ Fit(nv') /\ (Right(nv) => Right(nv'))
    <3>1. stage[p] = here
          /\ \/ UNCHANGED nv
             \/ Labelled(nv, s) = {} /\ \E n \in Num : Added(nv, nv', n, s, s)
      BY <2>2, CreateSteps
    <3>2. s \in {"a", "b", "auto"} /\ Fit(nv)
      BY <1>2, <3>1 DEF Slot
    <3>3. CASE UNCHANGED nv
      BY <1>1, <3>2, <3>3
    <3>4. ASSUME NEW n \in Num, Added(nv, nv', n, s, s), Labelled(nv, s) = {}
          PROVE  Reached(nv') /\ Fit(nv') /\ (Right(nv) => Right(nv'))
      <4>1. Pure(nv')
        BY <1>1, <3>2, <3>4, AddedPure
      <4>2. Reached(nv') /\ (Right(nv) => Right(nv'))
        BY <1>1, <3>2, <3>4, AddedInOrder
      <4> QED
        BY <3>2, <4>1, <4>2 DEF Fit
    <3> QED
      BY <3>1, <3>3, <3>4
  <2>3. CASE FixOrder(p)
    <3>1. stage[p] = "order" /\ nv'.entry = nv.entry
          /\ \/ UNCHANGED nv
             \/ /\ \A s \in Slot : Labelled(nv, s) # {}
                /\ nv'.order = <<BootNumber(nv, "a"), BootNumber(nv, "b")>>
      BY <2>3, OrderSteps
    <3>2. Fit(nv)
      BY <1>2, <3>1
    <3>3. CASE UNCHANGED nv
      BY <1>1, <3>2, <3>3
    <3>4. CASE /\ \A s \in Slot : Labelled(nv, s) # {}
               /\ nv'.order = <<BootNumber(nv, "a"), BootNumber(nv, "b")>>
      <4>1. \A s \in Slot : BootNumber(nv, s) \in Num /\ BootNumber(nv, s) \in Labelled(nv, s)
        BY <1>1, <3>4, NumberOf DEF Labelled
      <4>2. \A s \in Slot : ValidNumbers(nv, s) # {} =>
                             BootNumber(nv, s) \in ValidNumbers(nv, s)
        BY <3>2, <4>1 DEF Fit, Pure
      <4>3. "a" \in Slot /\ "b" \in Slot /\ \A s \in Slot : s = "a" \/ s = "b"
        BY DEF Slot
      <4>4. /\ Fit(nv') /\ (Right(nv) => Right(nv'))
            /\ \A s \in Slot : /\ ValidNumbers(nv', s) = ValidNumbers(nv, s)
                               /\ ValidNumbers(nv, s) # {} =>
                                    InOrder(nv', BootNumber(nv, s), s)
        BY <1>1, <3>1, <3>2, <3>4, <4>1, <4>2, <4>3, OrderedPair DEF Fit
      <4> QED
        BY <4>1, <4>4 DEF Reached, Fit
    <3> QED
      BY <3>1, <3>3, <3>4
  <2> QED
    BY <2>1, <2>2, <2>3 DEF FixEntries, Slot, Fit
<1>5. Cleaned'
  BY <1>1, <1>4, Processes DEF Cleaned, InvC, Moved, Process, Quiet, FixStages, Fit
<1> QED
  BY <1>3, <1>4, <1>5

(* A commit deletes the old entries after the fresh ones are in BootOrder.  *)
LEMMA CommitKept ==
  ASSUME Base, InvC, Commit
  PROVE  Cleaned' /\ Reached(nv') /\ Kept'
<1> DEFINE Done(s) == InOrder(nv, fresh.new[s], s) /\ \A t \in Slot : fresh.new[s] # fresh.old[t]
           Stages == {"reorder", "del_a", "del_b", "verify"}
           Old == {"new_a", "new_b", "reorder"}
<1>1. /\ nv \in Nvram /\ Reached(nv)
      /\ fresh \in [old : [Slot -> Num \cup {NoNum}], new : [Slot -> Num \cup {NoNum}]]
      /\ "a" \in Slot /\ "b" \in Slot /\ \A s \in Slot : s \in {"a", "b", "auto"}
  BY DEF Base, TypeOK, InvC, Slot
<1>2. stage["boot"] \in CommitStages /\ Fit(nv)
  BY DEF CommitStages, InvC, Cleaned, Commit, CountEntries, FreshEntry, ReorderFresh, DeleteOld,
         VerifyCommit, Fit
<1>3. \A n, s : InOrder(nv, n, s) => n \in Num /\ nv.entry[n].label = s /\ n \in ValidNumbers(nv, s)
  BY DEF InOrder, ValidNumbers, Labelled
<1>4. /\ stage["boot"] \in Old => \A s \in Slot : InOrder(nv, fresh.old[s], s)
      /\ stage["boot"] = "new_b" => Done("a")
      /\ stage["boot"] \in Stages => \A s \in Slot : Done(s)
  BY DEF InvC, Kept
<1>5. \A next \in CommitStages \cup {"failed", "settled"} :
        GoTo("boot", next) => stage'["boot"] = next
  BY Moves, Processes DEF Moved, BootStages
<1>6. ASSUME Fit(nv'), Reached(nv'), stage'["boot"] \in {"failed", "settled"}
      PROVE  Cleaned' /\ Reached(nv') /\ Kept'
  BY <1>6 DEF Cleaned, Kept, Fit
<1>7. ASSUME Fit(nv'), Reached(nv'), NEW next \in CommitStages, stage'["boot"] = next,
             next \in Old => \A s \in Slot : InOrder(nv', fresh'.old[s], s),
             next = "new_b" => Done("a")', next \in Stages => \A s \in Slot : Done(s)'
      PROVE  Cleaned' /\ Reached(nv') /\ Kept'
  BY <1>7 DEF Cleaned, Kept, Fit
<1> HIDE DEF Old
<1>8. CASE CountEntries
  <2>1. CASE \A s \in Slot : Cardinality(ValidNumbers(nv, s)) = 1
    <3> DEFINE f == [s \in Slot |-> Min(ValidNumbers(nv, s))]
    <3>1. \A s \in Slot : ValidNumbers(nv, s) = {f[s]}
      BY <1>1, <2>1, OneNumber
    <3>2. \A s \in Slot : InOrder(nv, f[s], s)
      BY <1>1, <3>1 DEF Reached, InOrder
    <3> HIDE DEF f
    <3>3. fresh' = [NoFresh EXCEPT !.old = f] /\ UNCHANGED nv /\ GoTo("boot", "new_a")
      BY <1>8, <2>1 DEF CountEntries, f
    <3>4. fresh'.old = f
      BY <3>3 DEF NoFresh
    <3>5. "new_a" \in CommitStages /\ stage'["boot"] = "new_a"
      BY <1>5, <3>3 DEF CommitStages
    <3> QED
      BY <1>1, <1>2, <1>7, <3>2, <3>3, <3>4, <3>5
  <2>2. CASE GoTo("boot", "failed")
    BY <1>1, <1>2, <1>5, <1>6, <1>8, <2>2 DEF CountEntries
  <2> QED
    BY <1>8, <2>1, <2>2 DEF CountEntries
<1>9. ASSUME NEW s \in Slot, NEW here \in {"new_a", "new_b"}, NEW next \in {"new_b", "reorder"},
              FreshEntry(s, here, next), s = "a" <=> here = "new_a", s = "a" <=> next = "new_b"
       PROVE  Cleaned' /\ Reached(nv') /\ Kept'
  <2>1. stage["boot"] = here /\ \A t \in Slot : InOrder(nv, fresh.old[t], t)
        /\ (s = "b" => Done("a"))
    BY <1>4, <1>9 DEF FreshEntry, Old, Slot
  <2>2. s = "b" => fresh.new["a"] \in Num
    BY <1>3, <2>1
  <2>3. CASE /\ GoTo("boot", next) /\ Added(nv, nv', fresh'.new[s], s, s) /\ fresh'.new[s] \in Num
             /\ \A t \in Slot : t # s => fresh'.new[t] = fresh.new[t]
    <3>1. /\ \A m \in Num, t \in Slot : InOrder(nv, m, t) => InOrder(nv', m, t) /\ m # fresh'.new[s]
          /\ InOrder(nv', fresh'.new[s], s) /\ Reached(nv') /\ Fit(nv')
      <4>1. PICK n \in Num : n = fresh'.new[s]
        BY <2>3
      <4>2. Added(nv, nv', n, s, s) /\ s \in {"a", "b", "auto"} /\ nv \in Nvram
            /\ Reached(nv) /\ Fit(nv)
        BY <1>1, <1>2, <2>3, <4>1
      <4>3. \A m \in Num, t \in Slot : InOrder(nv, m, t) => InOrder(nv', m, t) /\ m # n
        BY <4>2, AddedKeeps
      <4>4. InOrder(nv', n, s) /\ Reached(nv') /\ (Right(nv) => Right(nv'))
        BY <4>2, AddedInOrder
      <4>5. Labelled(nv, s) \subseteq ValidNumbers(nv, s)
        BY <2>1, <4>2 DEF Fit, Pure, InOrder
      <4>6. Pure(nv')
        BY <4>2, <4>5, AddedPure DEF Fit
      <4> QED
        BY <4>1, <4>2, <4>3, <4>4, <4>6 DEF Fit
    <3>2. fresh'.old = fresh.old /\ stage'["boot"] = next /\ next \in CommitStages
      BY <1>5, <1>9, <2>2, <2>3, FreshSteps DEF CommitStages
    <3>3. \A t \in Slot : InOrder(nv', fresh'.old[t], t)
      BY <1>3, <2>1, <3>1, <3>2
    <3>4. Done(s)'
      BY <1>3, <2>1, <3>1, <3>2
    <3>5. s = "b" => Done("a")'
      BY <1>1, <1>3, <2>1, <2>3, <3>1, <3>2
    <3>6. next = "new_b" => Done("a")'
      BY <1>9, <3>4
    <3>7. next \in Stages => \A t \in Slot : Done(t)'
      BY <1>9, <3>4, <3>5 DEF Slot
    <3> HIDE DEF Done
    <3> QED
      BY <1>7, <3>1, <3>2, <3>3, <3>6, <3>7
  <2>4. CASE /\ GoTo("boot", "failed") /\ UNCHANGED fresh
             /\ nv' = IF s = "b" THEN Deleted(nv, fresh.new["a"]) ELSE nv
    <3>1. CASE s = "a"
      BY <1>1, <1>2, <1>5, <1>6, <2>4, <3>1
    <3>2. CASE s = "b"
      <4>1. fresh.new["a"] \in Num /\ nv' = Deleted(nv, fresh.new["a"])
            /\ \A t \in Slot : fresh.new["a"] # fresh.old[t]
        BY <2>1, <2>2, <2>4, <3>2
      <4>2. Fit(nv') /\ \A t \in Slot : InOrder(nv', fresh.old[t], t)
        BY <1>1, <1>2, <1>3, <2>1, <4>1, DeletedInOrder DEF Fit
      <4>3. Reached(nv')
        BY <1>3, <2>1, <4>2 DEF Reached
      <4> QED
        BY <1>5, <1>6, <2>4, <4>2, <4>3
    <3> QED
      BY <3>1, <3>2 DEF Slot
  <2> QED
    BY <1>9, <2>2, <2>3, <2>4, FreshSteps
<1>10. CASE ReorderFresh
  <2>1. /\ stage["boot"] = "reorder" /\ UNCHANGED fresh /\ mounted \in Slot
        /\ \A s \in Slot : fresh.new[s] \in Num /\ Done(s) /\ InOrder(nv, fresh.old[s], s)
    BY <1>4, <1>10, ReorderSteps DEF Old
  <2>2. CASE /\ GoTo("boot", "del_a") /\ nv'.entry = nv.entry
             /\ nv'.order = <<fresh.new[mounted], fresh.new[Inactive]>>
    <3>1. Inactive \in Slot /\ \A s \in Slot : s \in {mounted, Inactive}
      BY <2>1 DEF Inactive, Other, Slot
    <3> DEFINE x == fresh.new[mounted]
               y == fresh.new[Inactive]
    <3>2. x \in Num /\ y \in Num /\ nv'.order = <<x, y>>
          /\ \A s \in Slot : fresh.new[s] \in {x, y} /\ fresh.new[s] \in ValidNumbers(nv, s)
      BY <1>3, <2>1, <2>2, <3>1
    <3> HIDE DEF x, y
    <3>3. Fit(nv') /\ \A s \in Slot : InOrder(nv', fresh.new[s], s)
      BY <1>1, <1>2, <2>2, <3>2, OrderedPair DEF Fit
    <3>4. \A s \in Slot : Done(s)'
      BY <2>1, <3>3
    <3>5. Reached(nv')
      BY <2>1, <3>3 DEF Reached
    <3>6. "del_a" \in CommitStages /\ "del_a" # "new_b" /\ "del_a" \notin Old
      BY DEF CommitStages, Old
    <3> QED
      BY <1>5, <1>7, <2>2, <3>3, <3>4, <3>5, <3>6
  <2>3. CASE /\ GoTo("boot", "failed") /\ Deleted(nv, fresh.new["a"]) \in Nvram
             /\ nv' = Deleted(Deleted(nv, fresh.new["a"]), fresh.new["b"])
    <3> DEFINE v == Deleted(nv, fresh.new["a"])
    <3>1. Fit(v) /\ \A t \in Slot : InOrder(v, fresh.old[t], t)
      BY <1>1, <1>2, <1>3, <2>1, DeletedInOrder DEF Fit
    <3>2. v \in Nvram /\ nv' = Deleted(v, fresh.new["b"])
      BY <2>3
    <3> HIDE DEF v
    <3>3. Fit(nv') /\ \A t \in Slot : InOrder(nv', fresh.old[t], t)
      BY <1>1, <1>3, <2>1, <3>1, <3>2, DeletedInOrder DEF Fit
    <3>4. Reached(nv')
      BY <1>3, <2>1, <3>3 DEF Reached
    <3> QED
      BY <1>5, <1>6, <2>3, <3>3, <3>4
  <2> QED
    BY <1>10, <2>2, <2>3, ReorderSteps
<1>11. ASSUME NEW s \in Slot, NEW here \in {"del_a", "del_b"}, NEW next \in {"del_b", "verify"},
              DeleteOld(s, here, next)
       PROVE  Cleaned' /\ Reached(nv') /\ Kept'
  <2>1. /\ stage["boot"] = here /\ GoTo("boot", next) /\ UNCHANGED fresh
        /\ fresh.old[s] \in Num \cup {NoNum}
        /\ nv' = Deleted(nv, fresh.old[s]) \/ UNCHANGED nv
    BY <1>11, DeleteSteps
  <2>2. \A t \in Slot : Done(t) /\ fresh.new[t] # fresh.old[s]
    BY <1>4, <1>11, <2>1
  <2>3. Fit(nv') /\ \A t \in Slot : InOrder(nv', fresh.new[t], t)
    <3>1. CASE UNCHANGED nv
      BY <1>2, <2>2, <3>1
    <3>2. CASE nv' = Deleted(nv, fresh.old[s])
      BY <1>1, <1>2, <1>3, <2>1, <2>2, <3>2, DeletedInOrder DEF Fit
    <3> QED
      BY <2>1, <3>1, <3>2
  <2>4. Reached(nv')
    BY <1>3, <2>2, <2>3 DEF Reached
  <2>5. \A t \in Slot : Done(t)'
    BY <2>1, <2>2, <2>3
  <2>6. next \in CommitStages /\ next # "new_b" /\ next \notin Old /\ stage'["boot"] = next
    BY <1>5, <1>11, <2>1 DEF CommitStages, Old
  <2> HIDE DEF Done
  <2> QED
    BY <1>7, <2>3, <2>4, <2>5, <2>6
<1>12. CASE VerifyCommit
  <2>1. stage'["boot"] \in {"failed", "settled"} /\ UNCHANGED nv
    BY <1>5, <1>12 DEF VerifyCommit
  <2> QED
    BY <1>1, <1>2, <1>6, <2>1
<1> QED
  BY <1>1, <1>8, <1>9, <1>10, <1>11, <1>12 DEF Commit

LEMMA CommitStep ==
  ASSUME "trial_update" \notin Faults, Base, InvC, [Next]_vars
  PROVE  InvC'
<1>1. Quiet'
  BY QuietStep DEF InvC
<1>2. Cleaned' /\ Reached(nv') /\ Kept'
  <2>1. CASE PowerLoss \/ WatchdogReboots \/ \E u \in Updater : UpdateReboots(u)
    <3>1. UNCHANGED nv /\ stage'["boot"] = "off"
      BY <2>1, Processes DEF PowerLoss, WatchdogReboots, UpdateReboots, Down
    <3> QED
      BY <3>1 DEF InvC, Cleaned, Kept
  <2>2. CASE LoseEntries
    <3>1. nv' = EmptyNvram /\ UNCHANGED stage /\ stage["boot"] = "off"
      BY <2>2 DEF LoseEntries, Base, Awake
    <3>2. \A s \in Slot : ValidNumbers(nv', s) = {}
      BY <3>1 DEF EmptyNvram, NoEntry, ValidNumbers, Labelled, Slot
    <3> QED
      BY <3>1, <3>2 DEF Cleaned, Kept, Reached, Pure
  <2>3. CASE PowerOn
    <3>1. stage'["boot"] = "clean"
      BY <2>3, Moves, Processes DEF PowerOn, BootStages, FixStages, Moved
    <3>2. nv \in Nvram /\ Reached(nv) /\ Pure(nv)
      BY DEF Base, TypeOK, InvC, Cleaned
    <3>3. PICK v \in Nvram :
            /\ v.entry = nv.entry /\ v.order = nv.order
            /\ nv' = v \/ \E n \in Num : Added(v, nv', n, "auto", mounted')
      BY <2>3, PowerOnSteps
    <3>4. mounted' \in Slot /\ Reached(v) /\ Pure(v) /\ "auto" \notin Slot
      BY <2>3, <3>2, <3>3, PowerOnSteps
         DEF Reached, InOrder, Pure, ValidNumbers, Labelled, Slot
    <3>5. Reached(nv') /\ Pure(nv')
      BY <3>3, <3>4, AddedInOrder, AddedPure
    <3> QED
      BY <3>1, <3>5 DEF Cleaned, Kept
  <2>4. CASE \E p \in Process : FixEntries(p)
    BY <2>4, FixReaches
  <2>5. CASE CheckHealth
    <3>1. UNCHANGED nv /\ Fit(nv) /\ Reached(nv)
          /\ \E next \in {"settled", "clean", "failed"} : GoTo("boot", next)
      BY <2>5 DEF CheckHealth, InvC, Cleaned, Fit
    <3>2. stage'["boot"] \in {"settled", "clean", "failed"}
      BY <3>1, Moves, Processes DEF Moved, BootStages, FixStages
    <3> QED
      BY <3>1, <3>2 DEF Cleaned, Kept, Fit
  <2>6. CASE Commit
    BY <2>6, CommitKept
  <2>7. ASSUME NEW u \in Updater, UpdateStep(u)
        PROVE  Cleaned' /\ Reached(nv') /\ Kept'
    <3>1. stage["boot"] = "settled" /\ stage'["boot"] = "settled"
      <4>1. stage'["boot"] = stage["boot"]
        BY <2>7, UpdateBase, Processes DEF Moved
      <4>2. stage[u] # "idle" \/ Command(u)
        BY <2>7 DEF UpdateStep, Fetch, FetchFails, StartUpdate, ReadNumber, Format, Copy,
               WriteFails, ArmBootNext, Truncate, Overwrite, UpdateStays
      <4> QED
        BY <4>1, <4>2 DEF InvC, Quiet, Command, Confirmed
    <3>2. nv'.entry = nv.entry /\ nv'.order = nv.order
      <4>1. UNCHANGED nv \/ \E x : nv' = [nv EXCEPT !.next = x]
        BY <2>7 DEF UpdateStep, Command, Fetch, FetchFails, StartUpdate, ReadNumber, Format, Copy,
               WriteFails, ArmBootNext, Truncate, Overwrite, UpdateStays, UpdateKeeps
      <4> QED
        BY <4>1 DEF Base, TypeOK, Nvram
    <3> QED
      BY <3>1, <3>2 DEF InvC, Cleaned, Kept, Pure, Right, Reached, InOrder, ValidNumbers,
                           Labelled
  <2>8. CASE UNCHANGED vars
    BY <2>8 DEF vars, InvC, Cleaned, Kept
  <2> QED
    BY <2>1, <2>2, <2>3, <2>4, <2>5, <2>6, <2>7, <2>8, Steps
<1> QED
  BY <1>1, <1>2 DEF InvC

LEMMA CommitInit == Init => InvC
<1>1. Init => stage["boot"] = "off" /\ \A u \in Updater : stage[u] = "idle"
  BY Processes DEF Init
<1>2. Init => \A s \in Slot : ValidNumbers(nv, s) = {}
  <2>1. ASSUME nv = EmptyNvram, NEW s \in Slot
        PROVE  ValidNumbers(nv, s) = {}
    BY <2>1 DEF EmptyNvram, NoEntry, ValidNumbers, Labelled, Slot
  <2>2. ASSUME nv = Created(EmptyNvram, "a", "gone"), NEW s \in Slot
        PROVE  ValidNumbers(nv, s) = {}
    BY <2>2 DEF Created, EmptyNvram, NoEntry, ValidNumbers, Labelled, Slot
  <2> QED
    BY <2>1, <2>2 DEF Init
<1> QED
  BY <1>1, <1>2 DEF Init, InvC, Quiet, Cleaned, Pure, Reached, Kept, Slot

(* Through every step of a commit BootOrder names a slot that can be loaded *)
(* (OrderBootable), where no update arrives before the running slot is      *)
(* confirmed.                                                               *)
THEOREM CommitStaysBootable ==
  ASSUME "trial_update" \notin Faults
  PROVE  Spec => []OrderBootable
<1>1. Base /\ InvC /\ [Next]_vars => (Base /\ InvC)'
  BY BaseStep, CommitStep
<1>2. Base /\ InvC => OrderBootable
  BY CommitReaches
<1> QED
  BY <1>1, <1>2, BaseInit, CommitInit, PTL DEF Spec

-----------------------------------------------------------------------------
(* BootNext, once armed, names the slot that was written.                   *)

(* A label names its own slot or a partition that is gone, never the other  *)
(* slot of this disk.                                                       *)
Own(v) == \A n \in Num : v.entry[n].label \in Slot =>
                           v.entry[n].slot \in {v.entry[n].label, "gone"}

LEMMA OwnStep ==
  ASSUME Base, Own(nv), [Next]_vars
  PROVE  Own(nv')
<1>1. nv \in Nvram
  BY DEF Base, TypeOK
<1>2. ASSUME NEW v \in Nvram, Own(v), NEW n \in Num \cup {NoNum}
      PROVE  Own(Deleted(v, n))
  <2>1. v.entry \in [Num -> Entry] /\ Deleted(v, n).entry = [v.entry EXCEPT ![n] = NoEntry]
    BY DeletedNv DEF Nvram
  <2> QED
    BY <1>2, <2>1 DEF Own, NoEntry, Slot
<1>3. ASSUME NEW v \in Nvram, Own(v), NEW n \in Num, NEW w, NEW l, NEW s, Added(v, w, n, l, s),
             l \in Slot => l = s
      PROVE  Own(w)
  <2>1. v.entry \in [Num -> Entry]
        /\ w.entry = [v.entry EXCEPT ![n] = [label |-> l, slot |-> s]]
    BY <1>3 DEF Nvram, Added
  <2> QED
    BY <1>3, <2>1 DEF Own
<1>4. ASSUME nv'.entry = nv.entry
      PROVE  Own(nv')
  BY <1>4 DEF Own
<1>5. CASE PowerLoss \/ WatchdogReboots \/ \E u \in Updater : UpdateReboots(u)
  BY <1>4, <1>5 DEF PowerLoss, WatchdogReboots, UpdateReboots, Down
<1>6. CASE LoseEntries
  BY <1>6 DEF LoseEntries, EmptyNvram, NoEntry, Own, Slot
<1>7. CASE PowerOn
  <2>1. PICK v \in Nvram :
          /\ v.entry = nv.entry
          /\ nv' = v \/ \E n \in Num : Added(v, nv', n, "auto", mounted')
    BY <1>7, PowerOnSteps
  <2>2. Own(v) /\ "auto" \notin Slot
    BY <2>1 DEF Own, Slot
  <2> QED
    BY <1>3, <2>1, <2>2
<1>8. ASSUME NEW p \in Process, FixEntries(p)
      PROVE  Own(nv')
  <2>1. CASE CleanEntries(p)
    BY <1>1, <1>2, <1>4, <2>1, CleanSteps
  <2>2. ASSUME NEW s \in Slot, NEW here, NEW next, CreateMissing(p, s, here, next)
        PROVE  Own(nv')
    BY <1>1, <1>3, <1>4, <2>2, CreateSteps
  <2>3. CASE FixOrder(p)
    BY <1>4, <2>3, OrderSteps
  <2> QED
    BY <1>8, <2>1, <2>2, <2>3 DEF FixEntries, Slot
<1>9. CASE CheckHealth \/ CountEntries \/ VerifyCommit
  BY <1>4, <1>9 DEF CheckHealth, CountEntries, VerifyCommit
<1>10. ASSUME NEW s \in Slot, NEW here \in {"new_a", "new_b"}, NEW next,
              FreshEntry(s, here, next), s = "b" => here = "new_b"
       PROVE  Own(nv')
  <2>1. s = "b" => fresh.new["a"] \in Num
    BY <1>10 DEF FreshEntry, Base, Made
  <2>2. CASE Added(nv, nv', fresh'.new[s], s, s) /\ fresh'.new[s] \in Num
    BY <1>1, <1>3, <2>2
  <2>3. CASE nv' = IF s = "b" THEN Deleted(nv, fresh.new["a"]) ELSE nv
    BY <1>1, <1>2, <2>1, <2>3
  <2> QED
    BY <1>10, <2>1, <2>2, <2>3, FreshSteps
<1>11. CASE ReorderFresh
  <2>1. \A s \in Slot : fresh.new[s] \in Num
    BY <1>11, ReorderSteps
  <2>2. Deleted(nv, fresh.new["a"]) \in Nvram /\ Own(Deleted(nv, fresh.new["a"]))
    BY <1>1, <1>2, <2>1, DeletedNv DEF Slot
  <2>3. Own(Deleted(Deleted(nv, fresh.new["a"]), fresh.new["b"]))
    BY <1>2, <2>1, <2>2 DEF Slot
  <2> QED
    BY <1>4, <1>11, <2>3, ReorderSteps
<1>12. ASSUME NEW s \in Slot, NEW here, NEW next, DeleteOld(s, here, next)
       PROVE  Own(nv')
  BY <1>1, <1>2, <1>12, DeleteSteps
<1>13. CASE Commit
  BY <1>9, <1>10, <1>11, <1>12, <1>13 DEF Commit, Slot
<1>14. ASSUME NEW u \in Updater, UpdateStep(u)
       PROVE  Own(nv')
  <2>1. UNCHANGED nv \/ \E x : nv' = [nv EXCEPT !.next = x]
    BY <1>14 DEF UpdateStep, Command, Fetch, FetchFails, StartUpdate, ReadNumber, Format, Copy,
           WriteFails, ArmBootNext, Truncate, Overwrite, UpdateStays, UpdateKeeps
  <2> QED
    BY <1>1, <1>4, <2>1 DEF Nvram
<1>15. CASE UNCHANGED vars
  BY <1>4, <1>15 DEF vars
<1> QED
  BY <1>5, <1>6, <1>7, <1>8, <1>9, <1>13, <1>14, <1>15, Steps

(* The entries an update may arm: those it may find for the inactive slot.  *)
Candidates ==
  IF "clean" \in Faults THEN Labelled(nv, Inactive) ELSE ValidNumbers(nv, Inactive)

(* How far an update has come: the entry it found for the inactive slot and *)
(* what BootNext names. The thread that is alone also has its own download, *)
(* and the inactive slot holds what it wrote.                               *)
Numbers(u) ==
  /\ stage[u] \in {"mkfs", "copy", "arm", "over", "overcopy", "armed"} =>
       number[u] \in Candidates
  /\ stage[u] \in {"overcopy", "armed"} => nv.next \in Candidates \cup {NoNum}

Writes(u) ==
  /\ stage[u] # "idle" => file.owner = u /\ file.version = wanted[u]
  /\ stage[u] \notin {"idle", "fetch"} => file.whole
  /\ stage[u] \in {"arm", "over", "overcopy", "armed"} => image[Inactive] = wanted[u]

Written ==
  /\ Alone \/ "clean" \notin Faults => \A u \in Updater : Numbers(u)
  /\ Alone => \A u \in Updater : Writes(u)

(* A step of an update keeps what every other one has found: it leaves the  *)
(* entries alone, and arms only candidates.                                 *)
LEMMA NumbersUpdate ==
  ASSUME Base, InvC, \A v \in Updater : Numbers(v), NEW u \in Updater, UpdateStep(u)
  PROVE  \A v \in Updater : Numbers(v)'
<1>1. number \in [Updater -> Num \cup {NoNum}] /\ nv \in Nvram
  BY DEF Base, TypeOK
<1>2. mounted \in Slot /\ Inactive \in Slot /\ UNCHANGED <<mounted, Inactive>>
  BY UpdateBase DEF Base, TypeOK, Inactive, Other, Slot
<1>3. UpdateStages = {"idle", "fetch", "fetched", "number", "mkfs", "copy", "arm", "over",
                      "overcopy", "armed", "clean", "create_a", "create_b", "order"}
  BY DEF UpdateStages, FixStages
<1>4. Candidates' = Candidates
  <2>1. UNCHANGED nv \/ \E x : nv' = [nv EXCEPT !.next = x]
    BY DEF UpdateStep, Command, Fetch, FetchFails, StartUpdate, ReadNumber, Format, Copy,
           WriteFails, ArmBootNext, Truncate, Overwrite, UpdateStays, UpdateKeeps
  <2>2. nv'.entry = nv.entry
    BY <1>1, <2>1 DEF Nvram
  <2> QED
    BY <1>2, <2>2 DEF Candidates, ValidNumbers, Labelled
<1>5. stage[u] = "number" => Right(nv) \/ "clean" \in Faults
  BY DEF InvC, Quiet, Cleaned
<1> DEFINE Num6 == {"mkfs", "copy", "arm", "over", "overcopy", "armed"}
<1>6. ASSUME NEW next \in UpdateStages, GoTo(u, next), UNCHANGED number,
             next \in Num6 => stage[u] \in Num6,
             \/ UNCHANGED nv /\ (next \in {"overcopy", "armed"} => stage[u] \in {"overcopy", "armed"})
             \/ nv'.next \in Candidates \cup {NoNum}
      PROVE  \A v \in Updater : Numbers(v)'
  <2>1. /\ stage'[u] = next /\ \A v \in Updater : v # u => stage'[v] = stage[v]
    BY <1>6, ThreadGoes
  <2> HIDE DEF Candidates
  <2> QED
    BY <1>4, <1>6, <2>1 DEF Numbers
<1> HIDE DEF Inactive, UpdateStages, Candidates
<1>7. CASE Command(u)
  BY <1>3, <1>6, <1>7 DEF Command
<1>8. CASE Fetch(u)
  BY <1>3, <1>6, <1>8 DEF Fetch
<1>9. CASE (FetchFails(u) \/ WriteFails(u))
  BY <1>3, <1>6, <1>9 DEF FetchFails, WriteFails, GiveUp
<1>10. CASE StartUpdate(u)
  BY <1>3, <1>6, <1>10 DEF StartUpdate, GiveUp
<1>11. CASE ReadNumber(u)
  <2>1. stage[u] = "number" /\ number' = [number EXCEPT ![u] = BootNumber(nv, Inactive)]
        /\ UNCHANGED nv
    BY <1>11 DEF ReadNumber
  <2>2. CASE GoTo(u, "idle")
    <3>1. stage'[u] = "idle" /\ \A v \in Updater : v # u => stage'[v] = stage[v]
      BY <1>3, <2>2, ThreadGoes
    <3>2. \A v \in Updater : v # u => number'[v] = number[v]
      BY <1>1, <2>1
    <3> QED
      BY <1>4, <2>1, <3>1, <3>2 DEF Numbers
  <2>3. CASE BootNumber(nv, Inactive) # NoNum /\ GoTo(u, "mkfs")
    <3>1. stage'[u] = "mkfs" /\ \A v \in Updater : v # u => stage'[v] = stage[v]
      BY <1>3, <2>3, ThreadGoes
    <3>2. BootNumber(nv, Inactive) \in Candidates
      BY <1>1, <1>2, <1>5, <2>1, <2>3, NumberOf DEF Candidates, Right, ValidNumbers, Labelled
    <3>3. number'[u] \in Candidates /\ \A v \in Updater : v # u => number'[v] = number[v]
      BY <1>1, <2>1, <3>2
    <3> QED
      BY <1>4, <2>1, <3>1, <3>3 DEF Numbers
  <2> QED
    BY <1>11, <2>2, <2>3 DEF ReadNumber, GiveUp
<1>12. CASE Format(u)
  BY <1>3, <1>6, <1>12 DEF Format
<1>13. CASE Copy(u)
  BY <1>3, <1>6, <1>13 DEF Copy, GiveUp
<1>14. CASE ArmBootNext(u)
  <2>1. stage[u] = "arm" /\ UNCHANGED number /\ number[u] \in Candidates
    BY <1>14 DEF ArmBootNext, Numbers
  <2>2. CASE nv' = [nv EXCEPT !.next = number[u]] /\ GoTo(u, "armed")
    <3>1. nv'.next = number[u]
      BY <1>1, <2>2 DEF Nvram
    <3> QED
      BY <1>3, <1>6, <2>1, <2>2, <3>1
  <2>3. CASE (GoTo(u, "over") \/ GoTo(u, "idle")) /\ UNCHANGED nv
    BY <1>3, <1>6, <2>1, <2>3
  <2> QED
    BY <1>14, <2>2, <2>3 DEF ArmBootNext, GiveUp
<1>15. CASE Truncate(u)
  <2>1. stage[u] = "over" /\ UNCHANGED number /\ nv' = [nv EXCEPT !.next = NoNum]
        /\ (GoTo(u, "overcopy") \/ GoTo(u, "idle"))
    BY <1>15 DEF Truncate, GiveUp
  <2>2. nv'.next = NoNum
    BY <1>1, <2>1 DEF Nvram
  <2> QED
    BY <1>3, <1>6, <2>1, <2>2
<1>16. CASE Overwrite(u)
  BY <1>3, <1>6, <1>16 DEF Overwrite
<1>17. CASE UpdateStays(u)
  BY <1>3, <1>6, <1>17 DEF UpdateStays
<1> QED
  BY <1>7, <1>8, <1>9, <1>10, <1>11, <1>12, <1>13, <1>14, <1>15, <1>16, <1>17 DEF UpdateStep

(* The slot an update has written stays as it is until the reboot, when     *)
(* there is no other update.                                                *)
LEMMA WritesUpdate ==
  ASSUME Alone, Base, \A v \in Updater : Writes(v), NEW u \in Updater, UpdateStep(u)
  PROVE  \A v \in Updater : Writes(v)'
<1>1. /\ image \in [Slot -> Version \cup {Blank}] /\ wanted \in [Updater -> Version]
      /\ file \in [version : Version, owner : Updater \cup {Nobody},
                   whole : BOOLEAN, there : BOOLEAN]
  BY DEF Base, TypeOK
<1>2. mounted \in Slot /\ Inactive \in Slot /\ Inactive # mounted /\ UNCHANGED <<mounted, Inactive>>
  BY UpdateBase DEF Base, TypeOK, Inactive, Other, Slot
<1>3. UpdateStages = {"idle", "fetch", "fetched", "number", "mkfs", "copy", "arm", "over",
                      "overcopy", "armed", "clean", "create_a", "create_b", "order"}
  BY DEF UpdateStages, FixStages
<1> DEFINE Slot4 == {"arm", "over", "overcopy", "armed"}
<1>4. /\ stage[u] # "idle" => file.owner = u /\ file.version = wanted[u]
      /\ stage[u] \notin {"idle", "fetch"} => file.whole
      /\ stage[u] \in Slot4 => image[Inactive] = wanted[u]
  BY DEF Writes
<1>5. ASSUME NEW next \in UpdateStages, GoTo(u, next),
             next # "idle" => file'.owner = u /\ file'.version = wanted'[u],
             next \notin {"idle", "fetch"} => file'.whole,
             next \in Slot4 => image'[Inactive] = wanted'[u]
      PROVE  \A v \in Updater : Writes(v)'
  <2>1. stage'[u] = next /\ \A v \in Updater : v = u
    BY <1>5, ThreadGoes DEF Alone
  <2> QED
    BY <1>2, <1>5, <2>1 DEF Writes
<1> HIDE DEF Inactive, UpdateStages
<1>6. CASE Command(u)
  BY <1>1, <1>3, <1>5, <1>6 DEF Command
<1>7. CASE Fetch(u)
  BY <1>1, <1>3, <1>4, <1>5, <1>7 DEF Fetch
<1>8. CASE GiveUp(u)
  BY <1>3, <1>5, <1>8 DEF GiveUp
<1>9. CASE StartUpdate(u) /\ ~GiveUp(u)
  BY <1>3, <1>4, <1>5, <1>9 DEF StartUpdate
<1>10. CASE ReadNumber(u) /\ ~GiveUp(u)
  BY <1>3, <1>4, <1>5, <1>10 DEF ReadNumber
<1>11. CASE Format(u)
  BY <1>1, <1>2, <1>3, <1>4, <1>5, <1>11 DEF Format
<1>12. CASE Copy(u) /\ ~GiveUp(u)
  BY <1>1, <1>2, <1>3, <1>4, <1>5, <1>12 DEF Copy, Copied
<1>13. CASE ArmBootNext(u) /\ ~GiveUp(u)
  <2>1. stage[u] = "arm" /\ UNCHANGED <<image, wanted>> /\ (GoTo(u, "armed") \/ GoTo(u, "over"))
        /\ UNCHANGED file
    BY <1>13 DEF ArmBootNext
  <2> QED
    BY <1>3, <1>4, <1>5, <2>1
<1>14. CASE Truncate(u) /\ ~GiveUp(u)
  <2>1. stage[u] = "over" /\ UNCHANGED <<wanted, file>> /\ GoTo(u, "overcopy")
        /\ image' = [image EXCEPT ![mounted] = Blank]
    BY <1>14 DEF Truncate
  <2>2. image'[Inactive] = image[Inactive]
    BY <1>1, <1>2, <2>1
  <2> QED
    BY <1>3, <1>4, <1>5, <2>1, <2>2
<1>15. CASE Overwrite(u)
  BY <1>1, <1>2, <1>3, <1>4, <1>5, <1>15 DEF Overwrite
<1>16. CASE UpdateStays(u)
  BY <1>3, <1>5, <1>16 DEF UpdateStays
<1> QED
  BY <1>6, <1>7, <1>8, <1>9, <1>10, <1>11, <1>12, <1>13, <1>14, <1>15, <1>16
     DEF UpdateStep, FetchFails, WriteFails

(* The entries are repaired for one update while others go on: nothing is   *)
(* wrong by then, and what is created adds to the candidates.               *)
LEMMA WrittenFix ==
  ASSUME Base, InvC, Written, NEW p \in Process, FixEntries(p)
  PROVE  Written'
<1>1. /\ stage[p] \in FixStages /\ UNCHANGED <<image, mounted, Inactive, file, wanted, number>>
      /\ UNCHANGED stage \/ \E next \in FixStages \cup {after[p]} : Moved(p, next)
  BY FixBase DEF FixKeeps, Inactive
<1>2. CASE p = "boot"
  <2>1. \A u \in Updater : stage'[u] = "idle"
    BY <1>1, <1>2, Processes DEF Moved, InvC, Quiet, FixStages
  <2> QED
    BY <2>1 DEF Written, Numbers, Writes
<1>3. ASSUME p \in Updater
      PROVE  Written'
  <2>1. /\ stage'[p] \in FixStages \cup {"number"}
        /\ \A u \in Updater : u # p => stage'[u] = stage[u]
    <3>1. after[p] = "number" /\ \A u \in Updater : u \in Process
      BY <1>3, Processes DEF Base, Roles
    <3> QED
      BY <1>1, <3>1 DEF Moved
  <2>2. Alone => \A u \in Updater : Writes(u)'
    BY <1>1, <1>3, <2>1 DEF Alone, Written, Writes, FixStages
  <2>3. Alone => \A u \in Updater : Numbers(u)'
    BY <1>3, <2>1 DEF Alone, Numbers, FixStages
  <2>4. ASSUME "clean" \notin Faults
        PROVE  \A u \in Updater : Numbers(u)'
    <3>1. WrongEntries = {} /\ nv \in Nvram /\ mounted \in Slot /\ Inactive \in Slot
      <4>1. stage["boot"] = "settled"
        BY <1>1, <1>3 DEF InvC, Quiet, FixStages
      <4> QED
        BY <2>4, <4>1, RightMeans DEF InvC, Cleaned, Base, TypeOK, Awake, Inactive, Other, Slot
    <3>2. ASSUME NEW n \in Num, NEW s, Added(nv, nv', n, s, s)
          PROVE  ValidNumbers(nv, Inactive) \subseteq ValidNumbers(nv', Inactive)
                 /\ nv'.next = nv.next
      BY <1>1, <3>1, <3>2 DEF Added, Nvram, ValidNumbers, Labelled, NoEntry, Slot
    <3>3. ASSUME NEW s \in Slot, NEW here, NEW next, CreateMissing(p, s, here, next)
          PROVE  ValidNumbers(nv, Inactive) \subseteq ValidNumbers(nv', Inactive)
                 /\ nv'.next = nv.next
      BY <1>1, <3>2, <3>3, CreateSteps DEF ValidNumbers, Labelled
    <3>5. ValidNumbers(nv, Inactive) \subseteq ValidNumbers(nv', Inactive) /\ nv'.next = nv.next
      <4>1. CASE CleanEntries(p) \/ FixOrder(p)
        <5>1. nv'.entry = nv.entry /\ nv'.next = nv.next
          BY <3>1, <4>1, CleanSteps, OrderSteps
        <5> QED
          BY <1>1, <5>1 DEF ValidNumbers, Labelled
      <4> QED
        BY <3>3, <4>1 DEF FixEntries, Slot
    <3>6. Candidates \subseteq Candidates'
      BY <1>1, <2>4, <3>5 DEF Candidates, ValidNumbers, Labelled
    <3>7. \A u \in Updater : Numbers(u)
      BY <2>4 DEF Written
    <3> QED
      BY <1>1, <2>1, <3>5, <3>6, <3>7 DEF Numbers, FixStages
  <2> QED
    BY <2>2, <2>3, <2>4 DEF Written, Alone
<1> QED
  BY <1>2, <1>3 DEF Process

LEMMA WrittenStep ==
  ASSUME Base, InvC, Written, [Next]_vars
  PROVE  Written'
<1>1. ASSUME \A u \in Updater : stage'[u] = "idle"
      PROVE  Written'
  BY <1>1 DEF Written, Numbers, Writes
<1>2. CASE PowerLoss \/ WatchdogReboots \/ \E u \in Updater : UpdateReboots(u)
  BY <1>1, <1>2, Processes DEF PowerLoss, WatchdogReboots, UpdateReboots, Down
<1>3. CASE LoseEntries
  BY <1>1, <1>3 DEF LoseEntries, Base, Awake
<1>4. CASE PowerOn
  <2>1. mounted = "off" /\ stage' = [stage EXCEPT !["boot"] = "clean"]
    BY <1>4 DEF PowerOn, GoTo
  <2> QED
    BY <1>1, <2>1, Processes DEF Base, TypeOK, Awake
<1>5. CASE CheckHealth \/ Commit
  <2>1. \A u \in Updater : stage'[u] = stage[u]
    BY <1>5, BootBase, Processes DEF Moved
  <2>2. stage["boot"] # "settled"
    BY <1>5 DEF CheckHealth, Commit, CountEntries, FreshEntry, ReorderFresh, DeleteOld, VerifyCommit
  <2> QED
    BY <1>1, <2>1, <2>2 DEF InvC, Quiet
<1>6. CASE \E u \in Updater : UpdateStep(u)
  BY <1>6, NumbersUpdate, WritesUpdate DEF Written, Alone
<1>7. CASE UNCHANGED vars
  BY <1>7 DEF vars, Written, Numbers, Writes, Candidates, ValidNumbers, Labelled, Inactive, Alone
<1> QED
  BY <1>2, <1>3, <1>4, <1>5, <1>6, <1>7, WrittenFix, Steps

(* What an update arms is what was written (ArmedSlotIsWritten), for any    *)
(* number of updates that race, any entries left by other disks, and any    *)
(* failing call, where none arrives before the running slot is confirmed.   *)
THEOREM ArmsWhatItWrote ==
  ASSUME "trial_update" \notin Faults
  PROVE  Spec => []ArmedSlotIsWritten
<1>1. Init => Written /\ Own(nv)
  <2>1. Init => Written
    BY Processes DEF Init, Written, Numbers, Writes
  <2>2. Own(EmptyNvram)
    BY DEF Own, EmptyNvram, NoEntry, Slot
  <2>3. Own(Created(EmptyNvram, "a", "gone"))
    BY DEF Own, Created, EmptyNvram, NoEntry, Slot
  <2> QED
    BY <2>1, <2>2, <2>3 DEF Init
<1>2. Base /\ InvC /\ Written /\ Own(nv) /\ [Next]_vars => (Base /\ InvC /\ Written /\ Own(nv))'
  BY BaseStep, CommitStep, WrittenStep, OwnStep
<1>3. Base /\ Written /\ Own(nv) => ArmedSlotIsWritten
  <2> SUFFICES ASSUME Base, Written, Own(nv), NEW u \in Updater,
                      stage[u] = "armed", nv.next # NoNum
               PROVE  /\ "clean" \notin Faults => nv.entry[nv.next].slot = Inactive
                      /\ Alone => /\ nv.entry[nv.next].slot # mounted
                                  /\ image[Inactive] = wanted[u]
    BY DEF ArmedSlotIsWritten
  <2>1. mounted \in Slot /\ Inactive \in Slot /\ Inactive # mounted /\ mounted # "gone"
    BY DEF Base, TypeOK, Awake, Inactive, Other, Slot
  <2>2. Alone \/ "clean" \notin Faults => nv.next \in Candidates
    BY DEF Written, Numbers
  <2>3. "clean" \notin Faults => nv.entry[nv.next].slot = Inactive
    BY <2>2 DEF Candidates, ValidNumbers
  <2>4. Alone => nv.entry[nv.next].slot \in {Inactive, "gone"}
    BY <2>1, <2>2 DEF Candidates, ValidNumbers, Labelled, Own
  <2>5. Alone => image[Inactive] = wanted[u]
    BY DEF Written, Writes
  <2> QED
    BY <2>1, <2>3, <2>4, <2>5
<1> QED
  BY <1>1, <1>2, <1>3, BaseInit, CommitInit, PTL DEF Spec

-----------------------------------------------------------------------------
(* A power cut ends on a proven image.                                      *)

(* Every slot that can be started holds an image that has come up before.   *)
AllProven == Loadable # {} /\ \A s \in Loadable : image[s] \in proven

(* fix_entries finds nothing to do: no entry is wrong, both slots have one, *)
(* and BootOrder begins with the first entry of a slot.                     *)
Repaired(v) ==
  /\ Right(v) /\ \A s \in Slot : Labelled(v, s) # {}
  /\ v.order # <<>> /\ \E s \in Slot : Head(v.order) = BootNumber(v, s)

LeadsTo(v, s) == Repaired(v) /\ v.entry[Head(v.order)].slot = s

(* Either both slots are proven, or the entries are in order and begin with *)
(* a proven slot.                                                           *)
Settled(s) == s \in Slot /\ LeadsTo(nv, s) /\ image[s] \in proven
Anchored == AllProven \/ \E s \in Slot : Settled(s)

(* A commit begins only when the slot in use has proven itself as well; an  *)
(* update, only when that slot is the default.                              *)
Progress ==
  LET here == stage["boot"]
  IN /\ here = "settled" => Settled(mounted)
     /\ here = "check" => Repaired(nv)
     /\ here \in CommitStages \/ (here \in FixStages /\ after["boot"] = "count") =>
          AllProven /\ image[mounted] \in proven
     /\ here \notin {"off", "settled"} => running = image[mounted]

(* There is always room for the entries fix_entries makes: a slot has at    *)
(* most the entry a commit found and the one it made.                       *)
Room ==
  LET here == stage["boot"]
      Alike(s) == \A m, n \in Labelled(nv, s) : m = n
  IN /\ \A n \in Num : nv.entry[n].label = "auto" => nv.entry[n].slot \in Slot
     /\ \A s \in Slot : \E x, y \in Num : Labelled(nv, s) \subseteq {x, y}
     /\ here = "new_a" => Alike("a") /\ Alike("b")
     /\ here = "new_b" => Alike("b")
     /\ here \in {"create_b", "order"} => Labelled(nv, "a") # {}
     /\ here = "order" => Labelled(nv, "b") # {}

NeverOver == \A u \in Updater : stage[u] \notin {"over", "overcopy"}

InvB == Anchored /\ Progress /\ Room /\ NeverOver

(* An anchored device falls back to a proven slot.                          *)
LEMMA AnchoredFalls ==
  ASSUME Base, Anchored
  PROVE  FallsBackToProven
<1> DEFINE good == {i \in DOMAIN nv.order : nv.entry[nv.order[i]].slot \in Loadable}
<1>1. FallsBackTo = IF good = {} THEN Loadable ELSE {nv.entry[nv.order[Min(good)]].slot}
  BY DEF FallsBackTo, FirmwareChoice
<1>2. nv.order \in Seq(Num) /\ good \in SUBSET Nat /\ good \subseteq 1..Len(nv.order)
  BY DEF Base, TypeOK, Nvram
<1>3. good # {} => Min(good) \in good /\ \A i \in good : Min(good) <= i
  BY <1>2, Least
<1> HIDE DEF good
<1>4. CASE AllProven
  <2>1. good # {} => nv.entry[nv.order[Min(good)]].slot \in Loadable
    BY <1>3 DEF good
  <2> QED
    BY <1>1, <1>4, <2>1 DEF AllProven, FallsBackToProven
<1>5. ASSUME NEW s \in Slot, Settled(s)
      PROVE  FallsBackToProven
  <2>1. s \in Loadable
    BY <1>5, BootAssumption DEF Settled, Loadable, Base, TypeOK
  <2>2. nv.order # <<>> /\ 1 \in DOMAIN nv.order /\ nv.entry[nv.order[1]].slot = s
    BY <1>2, <1>5 DEF Settled, LeadsTo, Repaired
  <2>3. 1 \in good
    BY <2>1, <2>2 DEF good
  <2>4. Min(good) = 1
    <3>1. Min(good) \in 1..Len(nv.order) /\ Min(good) <= 1
      BY <1>2, <1>3, <2>3
    <3>2. Len(nv.order) \in Nat
      BY <1>2
    <3> QED
      BY <3>1, <3>2
  <2>5. FallsBackTo = {s}
    BY <1>1, <2>2, <2>3, <2>4
  <2> QED
    BY <1>5, <2>5 DEF Settled, FallsBackToProven
<1> QED
  BY <1>4, <1>5 DEF Anchored, Settled

(* Numbers of a slot whose entries are right are valid ones.                *)
LEMMA RightIsValid ==
  ASSUME NEW v \in Nvram, Right(v), NEW s \in Slot
  PROVE  Labelled(v, s) = ValidNumbers(v, s)
BY DEF Right, Labelled, ValidNumbers

LEMMA RepairedStays ==
  ASSUME Base, Repaired(nv), NEW p \in Process, FixEntries(p)
  PROVE  UNCHANGED nv
<1>1. "a" \in Slot /\ "b" \in Slot /\ nv \in Nvram /\ \A s \in Slot : Labelled(nv, s) # {}
  BY DEF Slot, Repaired, Base, TypeOK
<1>2. CASE CleanEntries(p)
  BY <1>2, CleanSteps, RightMeans DEF Repaired
<1>3. ASSUME NEW s \in Slot, NEW here, NEW next, CreateMissing(p, s, here, next)
      PROVE  UNCHANGED nv
  BY <1>1, <1>3 DEF CreateMissing
<1>4. CASE FixOrder(p)
  <2>1. Head(nv.order) \in {BootNumber(nv, "a"), BootNumber(nv, "b")} /\ nv.order # <<>>
    BY DEF Repaired, Slot
  <2> QED
    BY <1>4, <2>1 DEF FixOrder
<1> QED
  BY <1>1, <1>2, <1>3, <1>4 DEF FixEntries

(* A slot without an entry gets one, since there is room.                   *)
LEMMA RoomToCreate ==
  ASSUME MaxNum >= 2, nv \in Nvram, Right(nv), Room, NEW s \in Slot, Labelled(nv, s) = {}
  PROVE  FreeNumbers(nv) # {}
<1> SUFFICES ASSUME FreeNumbers(nv) = {}
             PROVE  FALSE
  OBVIOUS
<1>1. PICK t \in Slot : \A r \in Slot : r = s \/ r = t
  BY DEF Slot
<1>2. PICK x \in Num, y \in Num : Labelled(nv, t) \subseteq {x, y}
  BY DEF Room
<1>3. \A n \in Num : n \in Labelled(nv, t)
  <2> SUFFICES ASSUME NEW n \in Num
               PROVE  n \in Labelled(nv, t)
    OBVIOUS
  <2>1. nv.entry[n] \in Entry /\ nv.entry[n] # NoEntry
    BY DEF FreeNumbers, Nvram
  <2>2. nv.entry[n].label \in {"a", "b", "auto"}
    BY <2>1 DEF Entry
  <2>3. nv.entry[n].label # "auto"
    BY DEF Room, Right
  <2> QED
    BY <1>1, <2>2, <2>3 DEF Labelled, Slot
<1>4. 0 \in Num /\ 1 \in Num /\ 2 \in Num
  BY NumAssumption DEF Num
<1> QED
  BY <1>2, <1>3, <1>4

(* What the operations on the entries do to the numbers of each slot.       *)
Fewer(v, w) == \A s \in Slot : Labelled(w, s) \subseteq Labelled(v, s)

(* What deleting and creating do to the labels.                             *)
LEMMA DeletedFewer ==
  ASSUME NEW v \in Nvram, NEW n \in Num \cup {NoNum}
  PROVE  /\ Fewer(v, Deleted(v, n))
         /\ \A m \in Num : Deleted(v, n).entry[m] \in {v.entry[m], NoEntry}
<1>1. v.entry \in [Num -> Entry] /\ Deleted(v, n).entry = [v.entry EXCEPT ![n] = NoEntry]
  BY DeletedNv DEF Nvram
<1> QED
  BY <1>1 DEF Fewer, Labelled, NoEntry, Slot

LEMMA AddedLabelled ==
  ASSUME NEW v \in Nvram, NEW w, NEW n, NEW l, NEW t, Added(v, w, n, l, t), NEW s \in Slot
  PROVE  Labelled(w, s) = IF l = s THEN Labelled(v, s) \cup {n} ELSE Labelled(v, s)
<1>1. /\ v.entry \in [Num -> Entry] /\ n \in Num /\ v.entry[n] = NoEntry
      /\ w.entry = [v.entry EXCEPT ![n] = [label |-> l, slot |-> t]]
  BY DEF Nvram, Added
<1> QED
  BY <1>1 DEF Labelled, NoEntry, Slot

(* The faults the run of FallsBackToProven leaves out are those under which *)
(* TLC finds it violated.                                                   *)
Dependable ==
  /\ MaxNum >= 2
  /\ \A f \in {"create", "clean", "order", "next", "entries_lost", "trial_update"} : f \notin Faults

LEMMA SameOrder ==
  ASSUME NEW v, NEW w, w.entry = v.entry, w.order = v.order
  PROVE  /\ Repaired(w) <=> Repaired(v)
         /\ \A s \in Slot : LeadsTo(w, s) <=> LeadsTo(v, s)
         /\ \A s \in Slot : Labelled(w, s) = Labelled(v, s)
<1>1. \A s \in Slot : Labelled(w, s) = Labelled(v, s)
  BY DEF Labelled
<1>2. \A s \in Slot : BootNumber(w, s) = BootNumber(v, s)
  BY <1>1 DEF BootNumber
<1>3. Repaired(w) <=> Repaired(v)
  BY <1>1, <1>2 DEF Repaired, Right
<1> QED
  BY <1>1, <1>3 DEF LeadsTo

(* Each group of actions keeps InvB.                                        *)
LEMMA DownAnchored ==
  ASSUME InvB, Down
  PROVE  InvB'
<1>1. stage'["boot"] = "off" /\ \A u \in Updater : stage'[u] = "idle"
  BY Processes DEF Down
<1>2. Anchored'
  BY DEF InvB, Anchored, AllProven, Loadable, Settled, Down
<1>3. Progress' /\ Room' /\ NeverOver'
  BY <1>1 DEF InvB, Progress, Room, NeverOver, Down, CommitStages, FixStages, Labelled
<1> QED
  BY <1>2, <1>3 DEF InvB

LEMMA PowerOnAnchored ==
  ASSUME Base, InvB, PowerOn
  PROVE  InvB'
<1>1. PICK v \in Nvram :
        /\ v.entry = nv.entry /\ v.order = nv.order
        /\ \/ nv' = v
           \/ /\ \A i \in DOMAIN nv.order : nv.entry[nv.order[i]].slot \notin Loadable
              /\ \E n \in Num : Added(v, nv', n, "auto", mounted')
  BY PowerOnSteps
<1>2. /\ UNCHANGED <<image, proven>> /\ mounted' \in Slot /\ nv.order \in Seq(Num)
      /\ image \in [Slot -> Version \cup {Blank}] /\ proven \subseteq Version
      /\ mounted = "off" /\ running' = image[mounted']
  BY PowerOnSteps DEF PowerOn, Base, TypeOK, Nvram
<1>3. stage'["boot"] = "clean" /\ \A u \in Updater : stage'[u] = "idle"
  BY <1>2, Processes DEF PowerOn, GoTo, Base, TypeOK, Awake
<1>4. after'["boot"] = "check"
  BY Processes DEF PowerOn, Base, TypeOK
<1>5. Anchored'
  <2>1. CASE AllProven
    BY <1>2, <2>1 DEF Anchored, AllProven, Loadable
  <2>2. ASSUME NEW s \in Slot, Settled(s)
        PROVE  Settled(s)'
    <3>1. s \in Loadable /\ 1 \in DOMAIN nv.order /\ nv.entry[nv.order[1]].slot = s
      BY <1>2, <2>2, BootAssumption DEF Settled, Loadable, LeadsTo, Repaired
    <3>2. nv' = v
      BY <1>1, <3>1
    <3>3. LeadsTo(nv', s)
      BY <1>1, <2>2, <3>2, SameOrder DEF Settled
    <3> QED
      BY <1>2, <2>2, <3>3 DEF Settled
  <2> QED
    BY <2>1, <2>2 DEF InvB, Anchored
<1>6. Progress'
  BY <1>2, <1>3, <1>4 DEF Progress, CommitStages, FixStages
<1>7. Room'
  <2>1. \A s \in Slot : Labelled(nv', s) = Labelled(nv, s)
    <3>1. \A s \in Slot : Labelled(v, s) = Labelled(nv, s) /\ s # "auto"
      BY <1>1 DEF Labelled, Slot
    <3> QED
      BY <1>1, <3>1, AddedLabelled
  <2>2. \A n \in Num : nv'.entry[n].label = "auto" => nv'.entry[n].slot \in Slot
    <3>1. CASE nv' = v
      BY <1>1, <3>1 DEF InvB, Room
    <3>2. ASSUME NEW m \in Num, Added(v, nv', m, "auto", mounted'), NEW n \in Num,
                 nv'.entry[n].label = "auto"
          PROVE  nv'.entry[n].slot \in Slot
      BY <1>1, <1>2, <3>2 DEF InvB, Room, Added, Nvram
    <3> QED
      BY <1>1, <3>1, <3>2
  <2> QED
    BY <1>3, <2>1, <2>2 DEF InvB, Room
<1> QED
  BY <1>3, <1>5, <1>6, <1>7 DEF InvB, NeverOver

LEMMA RoomFix ==
  ASSUME Dependable, Base, InvC, InvB, FixEntries("boot")
  PROVE  /\ Room' /\ stage'["boot"] \in {"clean", "create_a", "create_b", "order", after["boot"]}
         /\ stage'["boot"] \in {"check", "count"} => Repaired(nv')
<1>1. nv \in Nvram /\ nv' \in Nvram /\ after["boot"] \in {"check", "count"} /\ "boot" \in Process
      /\ "a" \in Slot /\ "b" \in Slot /\ \A s \in Slot : s = "a" \/ s = "b"
  BY FixBase, Processes DEF Base, TypeOK, Roles, Slot
<1>2. stage["boot"] # "clean" => Right(nv)
  <2>1. stage["boot"] # "off"
    BY FixBase, Processes DEF FixStages
  <2> QED
    BY <2>1 DEF InvC, Cleaned, Dependable
<1>3. ASSUME NEW next \in {"create_a", "create_b", "order", after["boot"]}, GoTo("boot", next)
      PROVE  stage'["boot"] = next
  BY <1>1, <1>3, Moves DEF BootStages, FixStages, CommitStages, Moved
<1>4. Room
  BY DEF InvB
<1>5. CASE CleanEntries("boot")
  <2>1. CASE UNCHANGED nv /\ stage'["boot"] = "create_a"
    BY <1>4, <2>1 DEF Room, Labelled
  <2>2. ASSUME NEW n \in Num, nv' = Deleted(nv, n), UNCHANGED stage, stage["boot"] = "clean"
        PROVE  Room'
    <3>1. Fewer(nv, nv') /\ \A m \in Num : nv'.entry[m] \in {nv.entry[m], NoEntry}
      BY <1>1, <2>2, DeletedFewer
    <3> QED
      BY <1>4, <2>2, <3>1 DEF Room, Fewer, NoEntry
  <2> QED
    BY <1>1, <1>3, <1>5, <2>1, <2>2, CleanSteps
<1>6. ASSUME NEW s \in Slot, NEW here \in {"create_a", "create_b"},
             NEW next \in {"create_b", "order"}, CreateMissing("boot", s, here, next),
             s = "a" <=> here = "create_a", s = "a" <=> next = "create_b"
      PROVE  Room' /\ stage'["boot"] = next
  <2>1. stage["boot"] = here /\ stage'["boot"] = next
    BY <1>1, <1>3, <1>6, CreateSteps
  <2>2. next = "order" => Labelled(nv, "a") # {}
    BY <1>1, <1>4, <1>6, <2>1 DEF Room
  <2>3. CASE UNCHANGED nv /\ Labelled(nv, s) # {}
    BY <1>1, <1>4, <1>6, <2>1, <2>2, <2>3 DEF Room
  <2>4. ASSUME NEW n \in Num, Added(nv, nv', n, s, s), Labelled(nv, s) = {}
        PROVE  Room'
    <3>1. Labelled(nv', s) = {n} /\ \A t \in Slot : t # s => Labelled(nv', t) = Labelled(nv, t)
      BY <1>1, <2>4, AddedLabelled
    <3>2. \A m \in Num : nv'.entry[m].label = "auto" => nv'.entry[m].slot \in Slot
      BY <1>1, <1>4, <2>4 DEF Room, Added, Nvram, Slot
    <3> QED
      BY <1>1, <1>4, <1>6, <2>1, <2>2, <3>1, <3>2 DEF Room
  <2>5. \/ UNCHANGED nv /\ Labelled(nv, s) # {}
        \/ Labelled(nv, s) = {} /\ \E n \in Num : Added(nv, nv', n, s, s)
    <3>1. Labelled(nv, s) = {} => FreeNumbers(nv) # {}
      BY <1>1, <1>2, <1>4, <2>1, RoomToCreate DEF Dependable
    <3> QED
      BY <1>1, <1>6, <3>1, CreateSteps DEF Dependable
  <2> QED
    BY <2>1, <2>3, <2>4, <2>5
<1>7. CASE FixOrder("boot")
  <2>1. /\ stage["boot"] = "order" /\ stage'["boot"] = after["boot"] /\ nv'.entry = nv.entry
        /\ \/ /\ UNCHANGED nv
              /\ \/ \E s \in Slot : Labelled(nv, s) = {}
                 \/ nv.order # <<>> /\ \E s \in Slot : Head(nv.order) = BootNumber(nv, s)
           \/ nv'.order = <<BootNumber(nv, "a"), BootNumber(nv, "b")>>
    BY <1>1, <1>3, <1>7, OrderSteps DEF Dependable
  <2>2. \A s \in Slot : Labelled(nv, s) # {}
    BY <1>1, <1>4, <2>1 DEF Room
  <2>3. Right(nv') /\ \A s \in Slot : Labelled(nv', s) = Labelled(nv, s)
    BY <1>2, <2>1 DEF Right, Labelled
  <2>4. nv'.order # <<>> /\ \E s \in Slot : Head(nv'.order) = BootNumber(nv', s)
    <3>1. \A s \in Slot : BootNumber(nv', s) = BootNumber(nv, s)
      BY <2>3 DEF BootNumber
    <3>2. CASE UNCHANGED nv /\ nv.order # <<>> /\ \E s \in Slot : Head(nv.order) = BootNumber(nv, s)
      BY <3>2
    <3>3. CASE nv'.order = <<BootNumber(nv, "a"), BootNumber(nv, "b")>>
      <4>1. nv'.order # <<>> /\ Head(nv'.order) = BootNumber(nv, "a")
        BY <3>3
      <4> QED
        BY <1>1, <3>1, <4>1
    <3> QED
      BY <2>1, <2>2, <3>2, <3>3
  <2>5. Repaired(nv')
    BY <2>2, <2>3, <2>4 DEF Repaired
  <2>6. Room'
    BY <1>1, <1>4, <2>1, <2>3 DEF Room
  <2> QED
    BY <2>1, <2>5, <2>6
<1> QED
  BY <1>1, <1>3, <1>5, <1>6, <1>7, CleanSteps DEF FixEntries

LEMMA FixAnchored ==
  ASSUME Dependable, Base, InvC, InvB, NEW p \in Process, FixEntries(p)
  PROVE  InvB'
<1>1. /\ stage[p] \in FixStages /\ UNCHANGED <<image, mounted, running, after, proven>>
      /\ UNCHANGED stage \/ \E next \in FixStages \cup {after[p]} : Moved(p, next)
  BY FixBase DEF FixKeeps
<1>2. Repaired(nv) => UNCHANGED nv
  BY RepairedStays
<1>3. Anchored'
  <2>1. CASE AllProven
    BY <1>1, <2>1 DEF Anchored, AllProven, Loadable
  <2>2. CASE \E s \in Slot : Settled(s)
    BY <1>1, <1>2, <2>2 DEF Anchored, Settled, LeadsTo
  <2> QED
    BY <2>1, <2>2 DEF InvB, Anchored
<1>4. CASE p \in Updater
  <2>1. stage["boot"] = "settled" /\ UNCHANGED nv
    BY <1>1, <1>2, <1>4 DEF InvC, Quiet, FixStages, InvB, Progress, Settled, LeadsTo
  <2>2. stage'["boot"] = "settled"
    BY <1>1, <1>4, <2>1, Processes DEF Moved
  <2>3. NeverOver'
    <3>1. after[p] = "number"
      BY <1>4 DEF Base, Roles
    <3> QED
      BY <1>1, <1>4, <3>1, Processes DEF Moved, InvB, NeverOver, FixStages
  <2>4. Progress' /\ Room'
    BY <1>1, <2>1, <2>2 DEF InvB, Progress, Room, Settled, CommitStages, FixStages, Labelled
  <2> QED
    BY <1>3, <2>3, <2>4 DEF InvB
<1>5. CASE p = "boot"
  <2>1. Room' /\ stage'["boot"] \in {"clean", "create_a", "create_b", "order", after["boot"]}
        /\ (stage'["boot"] \in {"check", "count"} => Repaired(nv'))
    BY <1>5, RoomFix
  <2>2. after["boot"] \in {"check", "count"}
    BY DEF Base, Roles
  <2>3. AllProven => AllProven'
    BY <1>1 DEF AllProven, Loadable
  <2>4. Progress'
    BY <1>1, <1>5, <2>1, <2>2, <2>3 DEF InvB, Progress, CommitStages, FixStages
  <2>5. NeverOver'
    BY <1>1, <1>5, Processes DEF Moved, InvB, NeverOver
  <2> QED
    BY <1>3, <2>1, <2>4, <2>5 DEF InvB
<1> QED
  BY <1>4, <1>5 DEF Process

LEMMA CheckAnchored ==
  ASSUME Base, InvC, InvB, CheckHealth
  PROVE  InvB'
<1>1. /\ stage["boot"] = "check" /\ Repaired(nv) /\ running = image[mounted]
      /\ UNCHANGED <<image, nv, mounted, running>> /\ proven \subseteq proven'
      /\ (Healthy => image[mounted] \in proven')
  BY DEF CheckHealth, InvB, Progress
<1>2. mounted \in Slot /\ image[mounted] # Blank /\ nv \in Nvram
  BY <1>1 DEF InvC, Quiet, Base, TypeOK, Awake
<1>3. \A s \in Slot : Settled(s) => Settled(s)'
  BY <1>1 DEF Settled
<1>4. Anchored'
  BY <1>1, <1>3 DEF InvB, Anchored, AllProven, Loadable
<1>5. Room' /\ NeverOver'
  <2>1. stage'["boot"] \in {"settled", "clean", "failed"} /\ \A u \in Updater : stage'[u] = stage[u]
    <3>1. \E next \in {"settled", "clean", "failed"} : GoTo("boot", next)
      BY DEF CheckHealth
    <3> QED
      BY <3>1, Moves, Processes DEF Moved, BootStages, FixStages
  <2> QED
    BY <1>1, <2>1 DEF InvB, Room, NeverOver, Labelled
<1>6. MountedIsDefault <=> LeadsTo(nv, mounted)
  <2>1. Head(nv.order) \in Num /\ nv.entry[Head(nv.order)].label \in Slot /\ nv.order # <<>>
    BY <1>1, <1>2, NumberOf DEF Repaired, Labelled, Nvram
  <2>2. nv.entry[Head(nv.order)] # NoEntry
    BY <2>1 DEF NoEntry, Slot
  <2> QED
    BY <1>1, <2>1, <2>2 DEF MountedIsDefault, DefaultSlot, LeadsTo
<1>7. CASE MountedIsDefault
  <2>1. stage'["boot"] = "settled"
    BY <1>7, Moves, Processes DEF CheckHealth, Moved, BootStages
  <2>2. LeadsTo(nv, mounted)
    BY <1>7, <1>6
  <2>3. image[mounted] \in proven
    BY <1>2, <2>2 DEF InvB, Anchored, AllProven, Loadable, Settled, LeadsTo
  <2>4. Settled(mounted)'
    BY <1>1, <1>2, <2>2, <2>3 DEF Settled
  <2> QED
    BY <1>4, <1>5, <2>1, <2>4 DEF InvB, Progress, CommitStages, FixStages
<1>8. CASE ~MountedIsDefault /\ Healthy
  <2>1. stage'["boot"] = "clean"
    BY <1>8, Moves, Processes DEF CheckHealth, Moved, BootStages, FixStages
  <2>2. AllProven'
    <3>1. CASE AllProven
      BY <1>1, <3>1 DEF AllProven, Loadable
    <3>2. ASSUME NEW s \in Slot, Settled(s)
          PROVE  AllProven'
      <4>1. s # mounted
        BY <1>8, <1>6, <3>2 DEF Settled
      <4>2. \A t \in Slot : t = s \/ t = mounted
        BY <1>2, <3>2, <4>1 DEF Slot
      <4> QED
        BY <1>1, <1>2, <1>8, <3>2, <4>2 DEF Settled, AllProven, Loadable
    <3> QED
      BY <3>1, <3>2 DEF InvB, Anchored
  <2> QED
    BY <1>1, <1>4, <1>5, <1>8, <2>1, <2>2 DEF InvB, Progress, CommitStages, FixStages
<1>9. CASE ~MountedIsDefault /\ ~Healthy
  <2>1. stage'["boot"] = "failed"
    BY <1>9, Moves, Processes DEF CheckHealth, Moved, BootStages
  <2> QED
    BY <1>1, <1>4, <1>5, <2>1 DEF InvB, Progress, CommitStages, FixStages
<1> QED
  BY <1>7, <1>8, <1>9

LEMMA CommitAnchored ==
  ASSUME Dependable, Base, InvC, InvB, Commit
  PROVE  InvB'
<1>1. /\ UNCHANGED <<image, mounted, running, proven>>
      /\ \A u \in Updater : stage'[u] = stage[u]
      /\ stage["boot"] \in CommitStages
  <2>1. UNCHANGED <<image, mounted, running>> /\ \A u \in Updater : stage'[u] = stage[u]
    BY BootBase, Processes DEF Moved
  <2>2. UNCHANGED proven /\ stage["boot"] \in CommitStages
    BY DEF CommitStages, Commit, CountEntries, FreshEntry, ReorderFresh, DeleteOld, VerifyCommit,
           CommitKeeps
  <2> QED
    BY <2>1, <2>2
<1>2. /\ AllProven /\ AllProven' /\ image[mounted] \in proven /\ running = image[mounted]
      /\ mounted \in Slot /\ Right(nv) /\ Room
      /\ nv \in Nvram /\ "a" \in Slot /\ "b" \in Slot
  <2>1. AllProven /\ image[mounted] \in proven /\ running = image[mounted] /\ Room
    BY <1>1 DEF InvB, Progress, CommitStages
  <2>2. mounted \in Slot /\ Right(nv) /\ nv \in Nvram
    BY <1>1 DEF Base, TypeOK, Awake, InvC, Cleaned, CommitStages, Dependable
  <2>3. AllProven'
    BY <1>1, <2>1 DEF AllProven, Loadable
  <2> QED
    BY <2>1, <2>2, <2>3 DEF Slot
<1>3. \A next \in CommitStages \cup {"failed", "settled"} :
        GoTo("boot", next) => stage'["boot"] = next
  BY Moves, Processes DEF Moved, BootStages
<1>4. Anchored' /\ NeverOver'
  BY <1>1, <1>2 DEF InvB, Anchored, NeverOver
<1>5. ASSUME stage'["boot"] \in (CommitStages \ {"count"}) \cup {"failed"}, Room'
      PROVE  InvB'
  <2>1. Progress'
    BY <1>1, <1>2, <1>5 DEF Progress, CommitStages, FixStages
  <2> QED
    BY <1>4, <1>5, <2>1 DEF InvB
<1>6. \A n \in Num : nv.entry[n].label = "auto" => nv.entry[n].slot \in Slot
  BY <1>2 DEF Room
(* An entry less, or two, leave room where there was some.                  *)
<1>7. ASSUME Fewer(nv, nv'), \A n \in Num : nv'.entry[n] \in {nv.entry[n], NoEntry},
             stage'["boot"] \in {"failed", "del_a", "del_b", "verify"}
      PROVE  Room'
  BY <1>2, <1>7 DEF Room, Fewer, NoEntry
<1>8. CASE CountEntries
  <2>1. CASE \A s \in Slot : Cardinality(ValidNumbers(nv, s)) = 1
    <3>1. \A s \in Slot : \A m, n \in Labelled(nv, s) : m = n
      BY <1>2, <2>1, RightIsValid, OneNumber
    <3>2. stage'["boot"] = "new_a" /\ UNCHANGED nv
      BY <1>3, <1>8, <2>1 DEF CountEntries, CommitStages
    <3>3. Room'
      BY <1>2, <3>1, <3>2 DEF Room, Labelled
    <3> QED
      BY <1>5, <3>2, <3>3 DEF CommitStages
  <2>2. CASE GoTo("boot", "failed")
    <3>1. UNCHANGED nv /\ stage'["boot"] = "failed"
      BY <1>3, <1>8, <2>2 DEF CountEntries
    <3>2. Room'
      BY <1>2, <3>1 DEF Room, Labelled
    <3> QED
      BY <1>5, <3>1, <3>2
  <2> QED
    BY <1>8, <2>1, <2>2 DEF CountEntries
<1>9. ASSUME NEW s \in Slot, NEW here \in {"new_a", "new_b"}, NEW next \in {"new_b", "reorder"},
              FreshEntry(s, here, next), s = "a" <=> here = "new_a", s = "a" <=> next = "new_b"
       PROVE  InvB'
  <2>1. stage["boot"] = here /\ (s = "b" => fresh.new["a"] \in Num)
    BY <1>9 DEF FreshEntry, Base, Made
  <2>2. CASE GoTo("boot", next) /\ \E n \in Num : Added(nv, nv', n, s, s)
    <3>1. PICK n \in Num : Added(nv, nv', n, s, s)
      BY <2>2
    <3>2. \A t \in Slot : Labelled(nv', t) = IF s = t THEN Labelled(nv, t) \cup {n}
                                                      ELSE Labelled(nv, t)
      BY <1>2, <3>1, AddedLabelled
    <3>3. \A m \in Num : nv'.entry[m].label = "auto" => nv'.entry[m].slot \in Slot
      BY <1>2, <1>6, <1>9, <3>1 DEF Added, Nvram, Slot
    <3>4. stage'["boot"] = next /\ next \in CommitStages \ {"count"}
      BY <1>3, <1>9, <2>2 DEF CommitStages
    <3>5. \A m, k \in Labelled(nv, s) : m = k
      BY <1>2, <1>9, <2>1 DEF Room, Slot
    <3>6. \E x, y \in Num : Labelled(nv', s) \subseteq {x, y}
      <4>1. CASE Labelled(nv, s) = {}
        BY <3>1, <3>2, <4>1
      <4>2. ASSUME NEW x \in Labelled(nv, s)
            PROVE  Labelled(nv', s) \subseteq {x, n} /\ x \in Num
        BY <3>1, <3>2, <3>5, <4>2 DEF Labelled
      <4> QED
        BY <3>1, <4>1, <4>2
    <3>7. \A t \in Slot : t # s => \E x, y \in Num : Labelled(nv', t) \subseteq {x, y}
      BY <1>2, <3>2 DEF Room
    <3>8. next = "new_b" => \A m, k \in Labelled(nv', "b") : m = k
      BY <1>2, <1>9, <2>1, <3>2 DEF Room, Slot
    <3>9. Room'
      BY <1>9, <3>3, <3>4, <3>6, <3>7, <3>8 DEF Room
    <3> QED
      BY <1>5, <3>4, <3>9
  <2>3. CASE GoTo("boot", "failed") /\ nv' = IF s = "b" THEN Deleted(nv, fresh.new["a"]) ELSE nv
    <3>1. Fewer(nv, nv') /\ \A n \in Num : nv'.entry[n] \in {nv.entry[n], NoEntry}
      <4>1. CASE s = "b"
        BY <1>2, <2>1, <2>3, <4>1, DeletedFewer
      <4>2. CASE s # "b"
        BY <2>3, <4>2 DEF Fewer
      <4> QED
        BY <4>1, <4>2
    <3> QED
      BY <1>3, <1>5, <1>7, <2>3, <3>1
  <2> QED
    BY <1>9, <2>1, <2>2, <2>3, FreshSteps
<1>10. CASE ReorderFresh
  <2>1. CASE GoTo("boot", "del_a") /\ nv'.entry = nv.entry
    BY <1>3, <1>5, <1>7, <2>1 DEF Fewer, Labelled, CommitStages
  <2>2. CASE /\ GoTo("boot", "failed") /\ Deleted(nv, fresh.new["a"]) \in Nvram
             /\ nv' = Deleted(Deleted(nv, fresh.new["a"]), fresh.new["b"])
    <3> DEFINE v == Deleted(nv, fresh.new["a"])
    <3>1. fresh.new["a"] \in Num /\ fresh.new["b"] \in Num
      BY <1>2, <1>10, ReorderSteps
    <3>2. Fewer(nv, v) /\ \A n \in Num : v.entry[n] \in {nv.entry[n], NoEntry}
      BY <1>2, <3>1, DeletedFewer
    <3>3. v \in Nvram /\ nv' = Deleted(v, fresh.new["b"])
      BY <2>2
    <3> HIDE DEF v
    <3>4. Fewer(v, nv') /\ \A n \in Num : nv'.entry[n] \in {v.entry[n], NoEntry}
      BY <3>1, <3>3, DeletedFewer
    <3>5. Fewer(nv, nv') /\ \A n \in Num : nv'.entry[n] \in {nv.entry[n], NoEntry}
      BY <3>2, <3>4 DEF Fewer
    <3> QED
      BY <1>3, <1>5, <1>7, <2>2, <3>5
  <2> QED
    BY <1>10, <2>1, <2>2, ReorderSteps
<1>11. ASSUME NEW s \in Slot, NEW here \in {"del_a", "del_b"}, NEW next \in {"del_b", "verify"},
              DeleteOld(s, here, next)
       PROVE  InvB'
  <2>1. /\ GoTo("boot", next) /\ fresh.old[s] \in Num \cup {NoNum}
        /\ nv' = Deleted(nv, fresh.old[s]) \/ UNCHANGED nv
    BY <1>11, DeleteSteps
  <2>2. Fewer(nv, nv') /\ \A n \in Num : nv'.entry[n] \in {nv.entry[n], NoEntry}
    <3>1. CASE UNCHANGED nv
      BY <3>1 DEF Fewer
    <3>2. CASE nv' = Deleted(nv, fresh.old[s])
      BY <1>2, <2>1, <3>2, DeletedFewer
    <3> QED
      BY <2>1, <3>1, <3>2
  <2>3. stage'["boot"] = next /\ next \in CommitStages \ {"count"}
    BY <1>3, <1>11, <2>1 DEF CommitStages
  <2> QED
    BY <1>5, <1>7, <1>11, <2>2, <2>3
<1>12. CASE VerifyCommit
  <2>1. UNCHANGED nv /\ stage["boot"] = "verify"
    BY <1>12 DEF VerifyCommit
  <2>2. CASE GoTo("boot", "failed")
    <3>1. stage'["boot"] = "failed" /\ Room'
      BY <1>2, <1>3, <2>1, <2>2 DEF Room, Labelled
    <3> QED
      BY <1>5, <3>1
  <2>3. CASE /\ GoTo("boot", "settled") /\ Len(nv.order) > 1 /\ nv.order[1] = fresh.new[mounted]
             /\ \A s \in Slot : ValidNumbers(nv, s) = {fresh.new[s]}
    <3>1. stage'["boot"] = "settled" /\ Room'
      BY <1>2, <1>3, <2>1, <2>3 DEF Room, Labelled
    <3>2. \A s \in Slot : fresh.new[s] \in Num /\ Labelled(nv, s) = {fresh.new[s]}
      BY <1>2, <2>1, <2>3, RightIsValid DEF Base, Made
    <3>3. \A s \in Slot : BootNumber(nv, s) = fresh.new[s]
      BY <3>2, LeastNum DEF BootNumber
    <3>4. nv.order \in Seq(Num) /\ nv.order # <<>> /\ Head(nv.order) = fresh.new[mounted]
      BY <1>2, <2>3 DEF Nvram
    <3>5. nv.entry[fresh.new[mounted]].slot = mounted
      BY <1>2, <2>3 DEF ValidNumbers
    <3>6. Settled(mounted)'
      BY <1>1, <1>2, <2>1, <3>2, <3>3, <3>4, <3>5 DEF Settled, LeadsTo, Repaired
    <3>7. Progress'
      BY <1>1, <1>2, <3>1, <3>6 DEF Progress, CommitStages, FixStages
    <3> QED
      BY <1>4, <3>1, <3>7 DEF InvB
  <2> QED
    BY <1>12, <2>2, <2>3 DEF VerifyCommit
<1> QED
  BY <1>2, <1>8, <1>9, <1>10, <1>11, <1>12 DEF Commit

LEMMA UpdateAnchored ==
  ASSUME Dependable, Base, InvC, InvB, NEW u \in Updater, UpdateStep(u)
  PROVE  InvB'
<1>1. /\ mounted \in Slot /\ Inactive # mounted /\ UNCHANGED <<mounted, running, after>>
      /\ image \in [Slot -> Version \cup {Blank}] /\ nv \in Nvram
      /\ \E next \in UpdateStages : Moved(u, next)
  BY UpdateBase DEF Base, TypeOK, Inactive, Other, Slot
<1>2. stage["boot"] = "settled" /\ stage'["boot"] = "settled" /\ stage[u] \notin {"over", "overcopy"}
  <2>1. stage'["boot"] = stage["boot"]
    BY <1>1, Processes DEF Moved
  <2>2. stage[u] # "idle" \/ Command(u)
    BY DEF UpdateStep, Fetch, FetchFails, StartUpdate, ReadNumber, Format, Copy,
           WriteFails, ArmBootNext, Truncate, Overwrite, UpdateStays
  <2> QED
    BY <2>1, <2>2 DEF InvC, Quiet, Command, Confirmed, Dependable, InvB, NeverOver
<1>3. nv'.entry = nv.entry /\ nv'.order = nv.order
  <2>1. UNCHANGED nv \/ \E x : nv' = [nv EXCEPT !.next = x]
    BY DEF UpdateStep, Command, Fetch, FetchFails, StartUpdate, ReadNumber, Format, Copy,
           WriteFails, ArmBootNext, Truncate, Overwrite, UpdateStays, UpdateKeeps
  <2> QED
    BY <1>1, <2>1 DEF Nvram
<1>4. image'[mounted] = image[mounted] /\ UNCHANGED proven
  <2>1. UNCHANGED image \/ \E x : image' = [image EXCEPT ![Inactive] = x]
    BY <1>2 DEF UpdateStep, Command, Fetch, FetchFails, StartUpdate, ReadNumber, Format, Copy,
           WriteFails, ArmBootNext, Truncate, Overwrite, UpdateStays, UpdateKeeps
  <2>2. UNCHANGED proven
    BY DEF UpdateStep, Command, Fetch, FetchFails, StartUpdate, ReadNumber, Format, Copy,
           WriteFails, ArmBootNext, Truncate, Overwrite, UpdateStays, UpdateKeeps
  <2> QED
    BY <1>1, <2>1, <2>2
<1>5. Settled(mounted)'
  <2>1. Settled(mounted)
    BY <1>2 DEF InvB, Progress
  <2>2. LeadsTo(nv', mounted)
    BY <1>1, <1>3, <2>1, SameOrder DEF Settled
  <2> QED
    BY <1>1, <1>4, <2>1, <2>2 DEF Settled
<1>6. Anchored' /\ Progress'
  BY <1>1, <1>2, <1>5 DEF Anchored, Progress, CommitStages, FixStages
<1>7. Room'
  BY <1>2, <1>3 DEF InvB, Room, Labelled
<1>8. NeverOver'
  <2>1. stage'[u] \notin {"over", "overcopy"}
    <3>1. ASSUME NEW next \in UpdateStages \ {"over", "overcopy"}, GoTo(u, next)
          PROVE  stage'[u] \notin {"over", "overcopy"}
      BY <3>1, ThreadGoes
    <3>2. \E next \in UpdateStages \ {"over", "overcopy"} : GoTo(u, next)
      BY <1>2 DEF UpdateStep, Command, Fetch, FetchFails, StartUpdate, ReadNumber, Format, Copy,
             WriteFails, ArmBootNext, Truncate, Overwrite, UpdateStays, GiveUp, Works,
             Dependable, UpdateStages, FixStages
    <3> QED
      BY <3>1, <3>2
  <2> QED
    BY <1>1, <2>1, Processes DEF Moved, InvB, NeverOver
<1> QED
  BY <1>6, <1>7, <1>8 DEF InvB

LEMMA AnchoredStep ==
  ASSUME Dependable, Base, InvC, InvB, [Next]_vars
  PROVE  InvB'
<1>1. CASE PowerLoss \/ WatchdogReboots \/ \E u \in Updater : UpdateReboots(u)
  BY <1>1, DownAnchored DEF PowerLoss, WatchdogReboots, UpdateReboots
<1>2. CASE LoseEntries
  BY <1>2 DEF LoseEntries, Dependable
<1>3. CASE PowerOn
  BY <1>3, PowerOnAnchored
<1>4. CASE \E p \in Process : FixEntries(p)
  BY <1>4, FixAnchored
<1>5. CASE CheckHealth
  BY <1>5, CheckAnchored
<1>6. CASE Commit
  BY <1>6, CommitAnchored
<1>7. CASE \E u \in Updater : UpdateStep(u)
  BY <1>7, UpdateAnchored
<1>8. CASE UNCHANGED vars
  BY <1>8 DEF vars, InvB, Anchored, AllProven, Loadable, Settled, Progress, Room, NeverOver
<1> QED
  BY <1>1, <1>2, <1>3, <1>4, <1>5, <1>6, <1>7, <1>8, Steps

LEMMA AnchoredInit == Dependable /\ Init => InvB
<1> SUFFICES ASSUME Dependable, Init
             PROVE  InvB
  OBVIOUS
<1>1. stage["boot"] = "off" /\ \A u \in Updater : stage[u] = "idle"
  BY Processes DEF Init
<1>2. AllProven
  BY BootAssumption DEF Init, AllProven, Loadable, Slot
<1>3. Room
  <2>1. CASE nv = EmptyNvram
    <3>1. \A n \in Num : nv.entry[n] = NoEntry
      BY <2>1 DEF EmptyNvram
    <3>2. 0 \in Num /\ \A s \in Slot : Labelled(nv, s) = {}
      BY <3>1, NumAssumption DEF Num, Labelled, NoEntry, Slot
    <3> QED
      BY <1>1, <3>1, <3>2 DEF Room, NoEntry
  <2>2. CASE nv = Created(EmptyNvram, "a", "gone")
    <3>1. EmptyNvram \in Nvram /\ FreeNumbers(EmptyNvram) # {}
      BY NumAssumption DEF EmptyNvram, Nvram, Entry, FreeNumbers, Num
    <3>2. "a" \in {"a", "b", "auto"} /\ "gone" \in Slot \cup {"gone"}
      OBVIOUS
    <3>3. PICK n \in Num : Added(EmptyNvram, nv, n, "a", "gone")
      BY <2>2, <3>1, <3>2, CreatedNv
    <3>4. nv.entry = [EmptyNvram.entry EXCEPT ![n] = [label |-> "a", slot |-> "gone"]]
          /\ EmptyNvram.entry = [m \in Num |-> NoEntry]
      BY <3>3 DEF Added, EmptyNvram
    <3>5. \A m \in Num : m # n => nv.entry[m] = NoEntry
      BY <3>4
    <3>6. nv.entry[n].label = "a" /\ \A s \in Slot : Labelled(nv, s) \subseteq {n}
      BY <3>4, <3>5 DEF Labelled, NoEntry, Slot
    <3> QED
      BY <1>1, <3>5, <3>6 DEF Room, NoEntry
  <2> QED
    BY <2>1, <2>2 DEF Init
<1>4. Progress /\ NeverOver
  BY <1>1 DEF Progress, NeverOver, CommitStages, FixStages
<1> QED
  BY <1>2, <1>3, <1>4 DEF InvB, Anchored

(* Power that fails at any moment leaves a device that starts a slot proven *)
(* before (FallsBackToProven), whatever updates are under way, on a         *)
(* firmware that keeps what efibootmgr writes.                              *)
THEOREM PowerCutIsSafe ==
  ASSUME Dependable
  PROVE  Spec => []FallsBackToProven
<1>1. "trial_update" \notin Faults /\ "clean" \notin Faults
  BY DEF Dependable
<1>2. Init => Base /\ InvC /\ InvB
  BY BaseInit, CommitInit, AnchoredInit
<1>3. Base /\ InvC /\ InvB /\ [Next]_vars => (Base /\ InvC /\ InvB)'
  BY <1>1, BaseStep, CommitStep, AnchoredStep
<1>4. Base /\ InvB => FallsBackToProven
  BY AnchoredFalls DEF InvB
<1> QED
  BY <1>2, <1>3, <1>4, PTL DEF Spec
==============================================================================
