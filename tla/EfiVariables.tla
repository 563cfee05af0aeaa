---------------------------- MODULE EfiVariables ----------------------------
(***************************************************************************)
(* The standard UEFI variables as reefy-efi reads and writes them through  *)
(* efibootmgr: Boot#### entries, BootOrder and BootNext. A value nv is a   *)
(* record [entry, order, next]; entry[n] is what Boot<n> holds, a label    *)
(* and the partition its device path names.                                *)
(***************************************************************************)
EXTENDS Integers, SequencesExt

CONSTANTS
  MaxNum,    \* Boot#### numbers are 0..MaxNum: the room firmware has
  NoNum      \* an unset BootNext

ASSUME NumAssumption == MaxNum \in Nat /\ NoNum \notin Nat

Num     == 0..MaxNum
Slot    == {"a", "b"}
NoEntry == [label |-> "free", slot |-> "gone"]

(* "auto" stands for any label firmware invents; "gone" for a partition    *)
(* that is not on this disk.                                               *)
Entry == [label : {"a", "b", "auto"}, slot : Slot \cup {"gone"}] \cup {NoEntry}

Nvram == [entry : [Num -> Entry], order : Seq(Num), next : Num \cup {NoNum}]

EmptyNvram == [entry |-> [n \in Num |-> NoEntry], order |-> <<>>, next |-> NoNum]

Other(s) == IF s = "a" THEN "b" ELSE "a"

FreeNumbers(nv) == {n \in Num : nv.entry[n] = NoEntry}

(* efibootmgr -c: the lowest free number, put in front of BootOrder.       *)
Created(nv, label, s) ==
  LET n == Min(FreeNumbers(nv))
  IN [nv EXCEPT !.entry[n] = [label |-> label, slot |-> s],
                !.order = <<n>> \o @]

(* efibootmgr -b n -B; BootOrder names no number twice.                    *)
Deleted(nv, n) ==
  [nv EXCEPT !.entry[n] = NoEntry,
             !.order = IF n \in Range(@) THEN RemoveAt(@, CHOOSE i \in DOMAIN @ : @[i] = n)
                       ELSE @]

(* boot_num_for_label: the first line of the listing with the label, or    *)
(* nothing. boot_nums_for_label_guid: all that also name the partition.    *)
Labelled(nv, s) == {n \in Num : nv.entry[n].label = s}
BootNumber(nv, s) == IF Labelled(nv, s) = {} THEN NoNum ELSE Min(Labelled(nv, s))
ValidNumbers(nv, s) == {n \in Labelled(nv, s) : nv.entry[n].slot = s}

(* The partition the first entry of BootOrder names.                       *)
DefaultSlot(nv) ==
  IF nv.order = <<>> \/ nv.entry[Head(nv.order)] = NoEntry
  THEN "unknown"
  ELSE nv.entry[Head(nv.order)].slot

(* The slots firmware may start: the first loadable entry of "candidates", *)
(* or any loadable slot by the removable-media path when none is.          *)
FirmwareChoice(nv, candidates, loadable) ==
  LET good == {i \in DOMAIN candidates : nv.entry[candidates[i]].slot \in loadable}
  IN IF good = {} THEN loadable ELSE {nv.entry[candidates[Min(good)]].slot}
=============================================================================
