----------------------------- MODULE VgMetadata -----------------------------
(* LVM metadata of the volume group `reefy' on a single physical volume:   *)
(* its offline recovery from surviving history (vg_recovery.py), which the *)
(* boot script runs when the group cannot be read, and the background      *)
(* maintenance of its second copy (pv_redundancy.py).  LVM, the thin pool  *)
(* and the damage are the environment.                                     *)
EXTENDS Integers, FiniteSets

CONSTANTS
  Persistent,  \* names of persistent thin volumes
  Snapshot,    \* names of snapshot volumes
  First, Other, Taken, \* two volumes and a snapshot that are there from the
               \* beginning; the first one stays
  Ring,        \* records the text ring of an area retains
  MaxTx,       \* transactions of the thin pool
  MaxSeq,      \* metadata records
  MaxFaults,   \* damages
  TornDamage   \* may damage hit the newer of two copies that differ?

ASSUME VgAssumption ==
  /\ Persistent \cap Snapshot = {} /\ First \in Persistent /\ Other \in Persistent \ {First} /\ Taken \in Snapshot
  /\ {Ring, MaxTx, MaxSeq, MaxFaults} \subseteq Nat \ {0} /\ TornDamage \in BOOLEAN

VARIABLES
  areas,   \* metadata areas of the PV: 1 on old devices, 2 on new ones
  ring,    \* the records in the first area that parse
  cur,     \* per area the committed record, and is its checksum right
  thin,    \* the pool's own metadata: transaction and devices
  lvm,     \* the LVM command that runs
  rec,     \* the recovery of this boot
  esp,     \* evidence on the ESP: none, partial, bundle or durable
  writes,  \* rewrites by the recovery, over all boots
  job,     \* the maintenance
  up,      \* off, boot, up or guarded
  faults   \* damages so far, and those since the last report of the job

disk == <<areas, ring, cur, thin>>
vars == <<disk, lvm, rec, esp, writes, job, up, faults>>

(* A volume has a name, a thin id, the transaction that created it, a size *)
(* and whether it is a snapshot; a device of the pool also has the content *)
(* it really holds and the size of the file system in it.                  *)
Volume(n, i, t, s) == [name |-> n, id |-> i, tx |-> t, size |-> s, snap |-> n \in Snapshot]
NoMsg == [kind |-> "none", vol |-> Volume(First, 1, 0, 1)]
Record0 == [seq |-> 1, tx |-> 3, msg |-> NoMsg,
            vols |-> {Volume(First, 1, 0, 1), Volume(Other, 2, 1, 1), Volume(Taken, 3, 2, 1)}]
IdleLvm == [step |-> "idle", new |-> Record0, area |-> 1]
IdleRec == [step |-> "off", plan |-> Record0, seen |-> 0]
IdleJob == [step |-> "idle", try |-> 0, saw |-> FALSE, rc |-> 0, out |-> "none"]

Area == 1..areas
Readable == \E i \in Area : cur[i].ok
(* LVM reads the newest copy with a right checksum.                        *)
Vg == LET good == {cur[i].rec : i \in {a \in Area : cur[a].ok}}
      IN  CHOOSE r \in good : \A q \in good : q.seq <= r.seq

(* The values the variables take.                                          *)
TypeOK ==
  /\ areas \in {1, 2} /\ DOMAIN cur = {1, 2} /\ thin.tx \in 1..(MaxTx + 1)
  /\ \A r \in ring \cup {cur[1].rec, cur[2].rec, lvm.new, rec.plan} :
       /\ r.seq \in 1..(MaxSeq + 3) /\ r.tx \in 1..(MaxTx + 1)
       /\ \A v \in r.vols : v.size \in {1, 2}
  /\ lvm.step \in {"idle", "text", "commit", "message"} /\ lvm.area \in {1, 2}
  /\ rec.step \in {"off", "preserve", "rename", "sync", "write"}
  /\ esp \in {"none", "partial", "bundle", "durable"} /\ writes \in Nat
  /\ job.step \in {"idle", "inspect", "vgck", "wait", "verify", "done"} /\ job.try \in 0..3
  /\ job.out \in {"none", "healthy", "repaired", "deferred", "degraded"}
  /\ up \in {"off", "boot", "up", "guarded"}
  /\ faults.all \in 0..MaxFaults /\ faults.since \in 0..faults.all

Init ==
  /\ areas \in {1, 2}
  /\ ring = IF areas = 1 THEN {Record0} ELSE {}
  /\ cur = [i \in 1..2 |-> [rec |-> Record0, ok |-> TRUE]]
  /\ thin = [tx |-> Record0.tx,
             dev |-> {[id |-> v.id, tx |-> v.tx, owner |-> v.name, fs |-> 1] : v \in Record0.vols}]
  /\ lvm = IdleLvm /\ rec = IdleRec /\ esp = "none" /\ writes = 0 /\ job = IdleJob
  /\ up = "off" /\ faults = [all |-> 0, since |-> 0]

-----------------------------------------------------------------------------
(* LVM: a command writes a record to one area after the other, first the   *)
(* text and then the pointer, sends the message in it to the pool and      *)
(* commits a record without the message.                                   *)

(* The history matters on a PV with one area only.                         *)
Appended(r) == IF areas = 2 THEN {}
               ELSE {q \in ring : q.seq < r.seq /\ q.seq > r.seq - Ring} \cup {r}
Ids == {d.id : d \in thin.dev}
NewId == CHOOSE i \in 1..(Cardinality(Ids) + 1) : i \notin Ids

Command(r) ==
  /\ Vg.seq < MaxSeq
  /\ lvm' = [step |-> "text", new |-> [r EXCEPT !.seq = Vg.seq + 1], area |-> 1]

(* Volumes are created, removed and extended by the data plane and the     *)
(* backups, when no other command holds the lock.                          *)
Free == up = "up" /\ lvm.step = "idle" /\ Readable /\ Vg.msg = NoMsg
Others == UNCHANGED <<disk, rec, esp, writes, job, up, faults>>
CreateVolume(n) ==
  /\ Free /\ thin.tx < MaxTx /\ \A v \in Vg.vols : v.name # n
  /\ LET v == Volume(n, NewId, thin.tx, 1)
     IN  Command([Vg EXCEPT !.vols = @ \cup {v}, !.tx = @ + 1,
                            !.msg = [kind |-> "create", vol |-> v]])
  /\ Others
RemoveVolume(v) ==
  /\ Free /\ thin.tx < MaxTx /\ v \in Vg.vols /\ v.name # First
  /\ Command([Vg EXCEPT !.vols = @ \ {v}, !.tx = @ + 1, !.msg = [kind |-> "delete", vol |-> v]])
  /\ Others
ExtendVolume(v) ==
  /\ Free /\ v \in Vg.vols /\ ~v.snap /\ v.size = 1
  /\ Command([Vg EXCEPT !.vols = (@ \ {v}) \cup {[v EXCEPT !.size = 2]}])
  /\ Others
GrowFs(d) ==
  /\ Free /\ d \in thin.dev /\ d.fs = 1
  /\ \E v \in Vg.vols : v.id = d.id /\ v.size = 2
  /\ thin' = [thin EXCEPT !.dev = (@ \ {d}) \cup {[d EXCEPT !.fs = 2]}]
  /\ UNCHANGED <<areas, ring, cur, lvm, rec, esp, writes, job, up, faults>>

LvmText ==
  /\ lvm.step = "text"
  /\ ring' = Appended(lvm.new)
  /\ lvm' = [lvm EXCEPT !.step = "commit"]
  /\ UNCHANGED <<areas, cur, thin, rec, esp, writes, job, up, faults>>
LvmCommit ==
  /\ lvm.step = "commit"
  /\ cur' = [cur EXCEPT ![lvm.area] = [rec |-> lvm.new, ok |-> TRUE]]
  /\ lvm' = IF lvm.area < areas THEN [lvm EXCEPT !.area = 2]
            ELSE IF lvm.new.msg = NoMsg THEN IdleLvm ELSE [lvm EXCEPT !.step = "message"]
  /\ UNCHANGED <<areas, ring, thin, rec, esp, writes, job, up, faults>>

(* The pool refuses a message for another transaction than its own.        *)
Sent(th, r) ==
  LET v == r.msg.vol
  IN  [tx |-> r.tx,
       dev |-> IF r.msg.kind = "create"
               THEN th.dev \cup {[id |-> v.id, tx |-> th.tx, owner |-> v.name, fs |-> 1]}
               ELSE {d \in th.dev : d.id # v.id}]
LvmMessage ==
  /\ lvm.step = "message"
  /\ thin' = IF lvm.new.tx = thin.tx + 1 THEN Sent(thin, lvm.new) ELSE thin
  /\ lvm' = [step |-> "text", area |-> 1,
             new |-> [lvm.new EXCEPT !.msg = NoMsg, !.seq = @ + 1]]
  /\ UNCHANGED <<areas, ring, cur, rec, esp, writes, job, up, faults>>

-----------------------------------------------------------------------------
(* recover of vg_recovery.py.                                              *)

(* candidate: the newest surviving record, if the pool holds exactly its   *)
(* devices and every persistent volume has the same definition in all the  *)
(* history and still is the device it was; a snapshot may be a newer one   *)
(* and becomes a volume under a name of its own, read-only.                *)
Latest == CHOOSE r \in ring : \A q \in ring : q.seq <= r.seq
Device(v) == CHOOSE d \in thin.dev : d.id = v.id
PersistentByName(v) == \A r \in ring : v \in r.vols                    \* mutant
SamePersistent(v) ==
  Device(v).tx = v.tx /\ \A r \in ring : v \in r.vols
PossibleSnapshot(v) == v.tx <= Device(v).tx /\ Device(v).tx <= thin.tx
Quarantined(v) == [v EXCEPT !.name = "recovered", !.tx = Device(v).tx, !.snap = FALSE]
Snaps(r) == {v \in r.vols : v.snap}
Fits(v) == Device(v).fs <= v.size                       \* xfs_geometry

Candidate(r) ==
  /\ thin.tx >= r.tx
  /\ Ids = {v.id : v \in r.vols}
  /\ \A v \in r.vols \ Snaps(r) : SamePersistent(v)
  /\ \A v \in Snaps(r) : PossibleSnapshot(v)
  /\ Snaps(r) # {} \/ thin.tx = r.tx
  /\ \A v \in r.vols : Fits(v)
CandidateOf(r) ==
  [seq |-> r.seq + 1, tx |-> thin.tx, msg |-> NoMsg,
   vols |-> (r.vols \ Snaps(r)) \cup {Quarantined(v) : v \in Snaps(r)}]

(* Only a PV with one area whose committed record is damaged.              *)
Recover ==
  /\ up = "boot" /\ ~Readable /\ rec.step = "off"
  /\ IF areas = 1 /\ ring # {} /\ Candidate(Latest)
     THEN /\ rec' = [step |-> "preserve", plan |-> CandidateOf(Latest), seen |-> faults.all]
          /\ UNCHANGED up
     ELSE up' = "guarded" /\ UNCHANGED rec
  /\ UNCHANGED <<disk, lvm, esp, writes, job, faults>>

(* preserve: refused when any evidence is there; written, renamed with its *)
(* marker, and made durable by the sync of the directory.                  *)
PreserveAgain ==                                                       \* mutant
  /\ rec.step = "preserve"
  /\ esp' = "partial" /\ rec' = [rec EXCEPT !.step = "rename"] /\ UNCHANGED up
  /\ UNCHANGED <<disk, lvm, writes, job, faults>>
Preserve ==
  /\ rec.step = "preserve"
  /\ IF esp = "none" THEN esp' = "partial" /\ rec' = [rec EXCEPT !.step = "rename"] /\ UNCHANGED up
                     ELSE rec' = IdleRec /\ up' = "guarded" /\ UNCHANGED esp
  /\ UNCHANGED <<disk, lvm, writes, job, faults>>
RenameBundle ==
  /\ rec.step = "rename"
  /\ esp' = "bundle" /\ rec' = [rec EXCEPT !.step = "sync"]
  /\ UNCHANGED <<disk, lvm, writes, job, up, faults>>
SyncDirectory ==
  /\ rec.step = "sync"
  /\ esp' = "durable" /\ rec' = [rec EXCEPT !.step = "write"]
  /\ UNCHANGED <<disk, lvm, writes, job, up, faults>>

(* The PV is compared with what was validated, then pvck writes the text   *)
(* and the pointer, and the group must be readable.                        *)
Pvck ==
  /\ rec.step = "write"
  /\ rec' = IdleRec
  /\ IF rec.seen # faults.all
     THEN up' = "guarded" /\ UNCHANGED <<ring, cur, writes>>
     ELSE \E whole \in BOOLEAN :
            /\ writes' = writes + 1
            /\ ring' = Appended(rec.plan)
            /\ cur' = IF whole THEN [cur EXCEPT ![1] = [rec |-> rec.plan, ok |-> TRUE]] ELSE cur
            /\ up' = IF whole THEN up ELSE "guarded"
  /\ UNCHANGED <<areas, thin, lvm, esp, job, faults>>

RecoveryFails ==
  /\ rec.step # "off"
  /\ rec' = IdleRec /\ up' = "guarded"
  /\ UNCHANGED <<disk, lvm, esp, writes, job, faults>>

-----------------------------------------------------------------------------
(* recover of pv_redundancy.py: once per boot, at most three attempts.     *)

Report(out) ==
  /\ job' = [job EXCEPT !.step = "done", !.out = out]
  /\ faults' = [faults EXCEPT !.since = 0]
Retry(out) == IF job.try < 3 THEN job' = [job EXCEPT !.try = @ + 1, !.step = "inspect"]
                             ELSE job' = [job EXCEPT !.step = "done", !.out = out]

StartJob ==
  /\ up = "up" /\ job.step = "idle" /\ areas = 2
  /\ job' = [IdleJob EXCEPT !.step = "inspect", !.try = 1]
  /\ UNCHANGED <<disk, lvm, rec, esp, writes, up, faults>>

(* inspect: two valid records must be equal and of two one must be valid.  *)
(* A PV with one area is passed over, the job changes nothing there.       *)
Valid == {i \in Area : cur[i].ok}
Refused == Valid = {} \/ (Valid = {1, 2} /\ cur[1].rec # cur[2].rec)
Damaged == Cardinality(Valid) = 1

Inspect ==
  /\ job.step = "inspect"
  /\ \/ /\ ~Refused /\ ~Damaged
        /\ Report(IF job.saw THEN "repaired" ELSE "healthy")
     \/ /\ ~Refused /\ Damaged
        /\ job' = [job EXCEPT !.step = "vgck", !.saw = TRUE] /\ UNCHANGED faults
     \/ Refused /\ Report("deferred")
     \/ Retry("deferred") /\ UNCHANGED faults          \* busy discovery
  /\ UNCHANGED <<disk, lvm, rec, esp, writes, up>>

(* vgck --updatemetadata, external: refused while the lock is taken; its   *)
(* exit status says nothing about what it wrote.                           *)
Vgck ==
  /\ job.step = "vgck"
  /\ \/ /\ lvm.step = "idle" /\ Readable /\ Command(Vg)
        /\ job' = [job EXCEPT !.step = "wait"]
     \/ /\ \E rc \in {0, 1} : job' = [job EXCEPT !.step = "verify", !.rc = rc]
        /\ UNCHANGED lvm
  /\ UNCHANGED <<disk, rec, esp, writes, up, faults>>
VgckEnds ==
  /\ job.step = "wait" /\ lvm.step = "idle"
  /\ \E rc \in {0, 1} : job' = [job EXCEPT !.step = "verify", !.rc = rc]
  /\ UNCHANGED <<disk, lvm, rec, esp, writes, up, faults>>

VerifyByStatus ==                                                      \* mutant
  /\ job.step = "verify"
  /\ IF job.rc = 0 THEN Report("repaired") ELSE Report("deferred")
  /\ UNCHANGED <<disk, lvm, rec, esp, writes, up>>
Verify ==
  /\ job.step = "verify"
  /\ IF Refused THEN Report("deferred")
     ELSE IF ~Damaged THEN Report("repaired")
     ELSE IF job.rc # 0 THEN Report("deferred")
     ELSE Retry("degraded") /\ UNCHANGED faults
  /\ UNCHANGED <<disk, lvm, rec, esp, writes, up>>

-----------------------------------------------------------------------------
(* Power and damage.                                                       *)

PowerOn ==
  /\ up = "off" /\ up' = "boot"
  /\ UNCHANGED <<disk, lvm, rec, esp, writes, job, faults>>

(* The pool is activated: its transaction is that of the record, or the    *)
(* message in the record still has to be sent or cleared.                  *)
Activate ==
  /\ up = "boot" /\ Readable /\ rec.step = "off"
  /\ IF Vg.tx = thin.tx \/ (Vg.msg # NoMsg /\ Vg.tx = thin.tx + 1)
     THEN /\ up' = "up"
          /\ lvm' = IF Vg.msg = NoMsg \/ Vg.seq >= MaxSeq THEN lvm
                    ELSE [step |-> "message", new |-> Vg, area |-> 1]
     ELSE up' = "guarded" /\ UNCHANGED lvm
  /\ UNCHANGED <<disk, rec, esp, writes, job, faults>>

(* What of the evidence was not synchronised may be lost.                  *)
PowerCut ==
  /\ up # "off" /\ up' = "off"
  /\ lvm' = IdleLvm /\ rec' = IdleRec /\ job' = IdleJob
  /\ esp' \in IF esp = "bundle" THEN {"none", "partial", "bundle"}
              ELSE IF esp = "partial" THEN {"none", "partial"} ELSE {esp}
  /\ UNCHANGED <<disk, writes, faults>>

(* A committed record loses its checksum, or its text and those of some    *)
(* before it.                                                              *)
Damage ==
  /\ faults.all < MaxFaults
  /\ faults' = [all |-> faults.all + 1, since |-> faults.since + 1]
  /\ \E i \in Area :
       /\ cur[i].ok /\ (TornDamage \/ areas = 1 \/ cur[1].rec = cur[2].rec)
       /\ cur' = [cur EXCEPT ![i].ok = FALSE]
  /\ \E s \in 1..(MaxSeq + 1) : ring' = {r \in ring : r.seq < s}
  /\ UNCHANGED <<areas, thin, lvm, rec, esp, writes, job, up>>

Next ==
  \/ \E n \in Persistent \cup Snapshot : CreateVolume(n)
  \/ Readable /\ \E v \in Vg.vols : RemoveVolume(v) \/ ExtendVolume(v)
  \/ \E d \in thin.dev : GrowFs(d)
  \/ LvmText \/ LvmCommit \/ LvmMessage
  \/ Recover \/ Preserve \/ RenameBundle \/ SyncDirectory \/ Pvck \/ RecoveryFails
  \/ StartJob \/ Inspect \/ Vgck \/ VgckEnds \/ Verify
  \/ PowerOn \/ Activate \/ PowerCut \/ Damage

Spec == Init /\ [][Next]_vars

-----------------------------------------------------------------------------
(* What LVM reads describes the pool: every device belongs to one volume,  *)
(* every persistent volume is the device that holds its data, and no file  *)
(* system is larger than its volume, after any sequence of damage, power   *)
(* cuts, recovery and maintenance (vg_recovery.py, "Thin metadata is never *)
(* repaired or assigned a different transaction").                         *)
Describes(r) ==
  LET th == IF r.tx = thin.tx + 1 /\ r.msg # NoMsg THEN Sent(thin, r) ELSE thin
  IN  /\ r.tx = th.tx
      /\ {d.id : d \in th.dev} = {v.id : v \in r.vols}
      /\ \A v \in r.vols, d \in th.dev : v.id = d.id =>
           (v.name = d.owner \/ v.name = "recovered") /\ d.fs <= v.size
InSync == Readable => Describes(Vg)

(* History is put back at most once, and the damaged original is durable   *)
(* on the ESP before ("never rotate away originals").                      *)
EvidenceFirst == writes > 0 => writes = 1 /\ esp = "durable"

(* After the maintenance reported two good copies one more damage does not *)
(* make the group unreadable, whatever else was written since              *)
(* (pv_redundancy.py, "independently verified").                           *)
RepairSurvivesFault ==
  job.out \in {"healthy", "repaired"} /\ faults.since <= 1 => Readable
=============================================================================
