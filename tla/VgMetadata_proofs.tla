-------------------------- MODULE VgMetadata_proofs --------------------------
(* Proofs about VgMetadata, for every set of volumes, every bound and any   *)
(* number of damages.                                                       *)
(*   - InSyncAlways: what LVM reads describes the thin pool, after any      *)
(*     sequence of commands, power cuts, damage, recovery and maintenance.  *)
(*     The idea is that every record that is or may become the committed    *)
(*     one is Sound for the pool: the committed record, the one a command   *)
(*     is about to write, and the plan of the recovery.  For the plan the   *)
(*     history on the PV has to be trusted as far as it still agrees with   *)
(*     the pool, which is what Remembered says.                             *)
(*   - EvidenceIsFirst and RepairSurvives, each by a small invariant of its *)
(*     own and for damage of every kind.                                    *)
EXTENDS VgMetadata, FiniteSetTheorems, WellFoundedInduction, TLAPS

(* The values of records and of the pool.                                   *)
Name   == Persistent \cup Snapshot \cup {"recovered"}
Vol    == [name : Name, id : Nat, tx : Nat, size : {1, 2}, snap : BOOLEAN]
Msg    == [kind : {"none", "create", "delete"}, vol : Vol]
Record == [seq : Nat, tx : Nat, msg : Msg, vols : SUBSET Vol]
Dev    == [id : Nat, tx : Nat, owner : Name, fs : {1, 2}]
Thin   == [tx : Nat, dev : SUBSET Dev]

UniqueIds(S) == \A v, w \in S : v.id = w.id => v = w

(* Devices have ids of their own and are older than the transaction to come. *)
Pool(th) ==
  /\ th \in Thin /\ UniqueIds(th.dev)
  /\ \A d \in th.dev : d.tx < th.tx

(* Has the pool still to receive the message of r, and how will it be then? *)
Coming(r, th) == r.tx = th.tx + 1 /\ r.msg # NoMsg
After(r, th)  == IF Coming(r, th) THEN Sent(th, r) ELSE th

(* r describes the pool as it will be when it has received its message.     *)
Sound(r, th) ==
  /\ r \in Record /\ UniqueIds(r.vols) /\ \A v \in r.vols : v.tx < r.tx
  /\ r.tx = After(r, th).tx
  /\ \A d \in After(r, th).dev : \E v \in r.vols : v.id = d.id
  /\ \A v \in r.vols : \E d \in After(r, th).dev : v.id = d.id
  /\ \A v \in r.vols, d \in After(r, th).dev : v.id = d.id =>
       v.name \in {d.owner, "recovered"} /\ d.fs <= v.size
  /\ Coming(r, th) /\ r.msg.kind = "create" => \A d \in th.dev : d.id # r.msg.vol.id

LEMMA NoMsgTyped == NoMsg \in Msg
BY VgAssumption DEF NoMsg, Msg, Volume, Vol, Name

LEMMA VolumeTyped ==
  ASSUME NEW n \in Persistent \cup Snapshot, NEW i \in Nat, NEW t \in Nat
  PROVE  Volume(n, i, t, 1) \in Vol
BY DEF Volume, Vol, Name

-----------------------------------------------------------------------------
(* The records the commands write are sound again.                          *)
LEMMA Renumbered ==
  ASSUME NEW r, NEW th, NEW s \in Nat, Sound(r, th)
  PROVE  Sound([r EXCEPT !.seq = s], th)
<1>1. [r EXCEPT !.seq = s] \in Record /\ [r EXCEPT !.seq = s].tx = r.tx
      /\ [r EXCEPT !.seq = s].msg = r.msg /\ [r EXCEPT !.seq = s].vols = r.vols
  BY DEF Sound, Record
<1> QED
  BY <1>1 DEF Sound, After, Coming, Sent

LEMMA SoundDescribes ==
  ASSUME NEW r, Pool(thin), Sound(r, thin)
  PROVE  Describes(r)
<1>1. After(r, thin) = IF r.tx = thin.tx + 1 /\ r.msg # NoMsg THEN Sent(thin, r) ELSE thin
  BY DEF After, Coming
<1>2. {d.id : d \in After(r, thin).dev} = {v.id : v \in r.vols}
  BY DEF Sound
<1> QED
  BY <1>1, <1>2 DEF Sound, Describes

(* A new volume has an id that no device has.                               *)
LEMMA CreateSound ==
  ASSUME NEW r, NEW th, NEW n \in Persistent \cup Snapshot, NEW i \in Nat,
         Pool(th), Sound(r, th), r.msg = NoMsg, \A d \in th.dev : d.id # i
  PROVE  LET v == Volume(n, i, th.tx, 1)
         IN  Sound([r EXCEPT !.vols = @ \cup {v}, !.tx = @ + 1,
                             !.msg = [kind |-> "create", vol |-> v]], th)
<1> DEFINE v == Volume(n, i, th.tx, 1)
           q == [r EXCEPT !.vols = @ \cup {v}, !.tx = @ + 1,
                          !.msg = [kind |-> "create", vol |-> v]]
<1>1. v \in Vol /\ v.id = i /\ v.tx = th.tx /\ v.name = n /\ v.size = 1
  BY VolumeTyped DEF Pool, Thin, Volume
<1>2. r.tx = th.tx /\ r \in Record /\ th \in Thin
  BY DEF Sound, After, Coming, Pool
<1>3. q \in Record /\ q.tx = th.tx + 1 /\ q.vols = r.vols \cup {v}
      /\ q.msg.kind = "create" /\ q.msg.vol = v
  <2> DEFINE m == [kind |-> "create", vol |-> v]
  <2>1. m \in Msg /\ m.kind = "create" /\ m.vol = v
    BY <1>1 DEF Msg
  <2>2. r.vols \cup {v} \in SUBSET Vol /\ r.tx + 1 \in Nat
    BY <1>1, <1>2 DEF Record
  <2> HIDE DEF v, m
  <2> QED
    BY <1>2, <2>1, <2>2 DEF Record, m
<1>4. q.msg # NoMsg
  BY <1>3 DEF NoMsg
<1>5. After(q, th) = [tx |-> q.tx,
        dev |-> th.dev \cup {[id |-> i, tx |-> th.tx, owner |-> n, fs |-> 1]}]
  BY <1>1, <1>3, <1>4 DEF After, Coming, Sent
<1>6. After(r, th) = th
  BY DEF After, Coming
<1> HIDE DEF q, v
<1>7. UniqueIds(q.vols) /\ \A w \in q.vols : w.tx < q.tx
  <2>1. \A w \in r.vols : w.id # i /\ w.tx < th.tx
    BY <1>2, <1>6 DEF Sound
  <2> QED
    BY <1>1, <1>2, <1>3, <2>1 DEF Sound, UniqueIds, Record, Vol, Thin
<1>8. /\ \A d \in After(q, th).dev : \E w \in q.vols : w.id = d.id
      /\ \A w \in q.vols : \E d \in After(q, th).dev : w.id = d.id
  <2> DEFINE e == [id |-> i, tx |-> th.tx, owner |-> n, fs |-> 1]
  <2>1. e.id = i /\ After(q, th).dev = th.dev \cup {e}
    BY <1>5
  <2> HIDE DEF e
  <2>2. \A d \in th.dev : \E w \in r.vols : w.id = d.id
    BY <1>6 DEF Sound
  <2>3. \A w \in r.vols : \E d \in th.dev : w.id = d.id
    BY <1>6 DEF Sound
  <2> QED
    BY <1>1, <1>3, <2>1, <2>2, <2>3
<1>9. \A w \in q.vols, d \in After(q, th).dev : w.id = d.id =>
        w.name \in {d.owner, "recovered"} /\ d.fs <= w.size
  <2>1. \A w \in r.vols : w.id # i
    BY <1>6 DEF Sound
  <2> QED
    BY <1>1, <1>3, <1>5, <1>6, <2>1 DEF Sound
<1> QED
  BY <1>1, <1>3, <1>5, <1>7, <1>8, <1>9 DEF Sound, q, v

LEMMA RemoveSound ==
  ASSUME NEW r, NEW th, NEW v \in r.vols, Pool(th), Sound(r, th), r.msg = NoMsg
  PROVE  Sound([r EXCEPT !.vols = @ \ {v}, !.tx = @ + 1,
                         !.msg = [kind |-> "delete", vol |-> v]], th)
<1> DEFINE q == [r EXCEPT !.vols = @ \ {v}, !.tx = @ + 1,
                          !.msg = [kind |-> "delete", vol |-> v]]
<1>2. r.tx = th.tx /\ r \in Record /\ th \in Thin
  BY DEF Sound, After, Coming, Pool
<1>3. q \in Record /\ q.tx = th.tx + 1 /\ q.vols = r.vols \ {v}
      /\ q.msg.kind = "delete" /\ q.msg.vol = v
  <2> DEFINE m == [kind |-> "delete", vol |-> v]
  <2>1. m \in Msg /\ m.kind = "delete" /\ m.vol = v
    BY <1>2 DEF Msg, Record
  <2>2. r.vols \ {v} \in SUBSET Vol /\ r.tx + 1 \in Nat
    BY <1>2 DEF Record
  <2> HIDE DEF m
  <2> QED
    BY <1>2, <2>1, <2>2 DEF Record, m
<1>4. q.msg # NoMsg
  BY <1>3 DEF NoMsg
<1>5. After(q, th) = [tx |-> q.tx, dev |-> {d \in th.dev : d.id # v.id}]
  BY <1>3, <1>4 DEF After, Coming, Sent
<1>6. After(r, th) = th
  BY DEF After, Coming
<1> HIDE DEF q
<1>7. UniqueIds(q.vols) /\ \A w \in q.vols : w.tx < q.tx
  BY <1>2, <1>3 DEF Sound, UniqueIds, Record, Vol, Thin
<1>8. /\ \A d \in After(q, th).dev : \E w \in q.vols : w.id = d.id
      /\ \A w \in q.vols : \E d \in After(q, th).dev : w.id = d.id
  BY <1>3, <1>5, <1>6 DEF Sound, UniqueIds
<1>9. \A w \in q.vols, d \in After(q, th).dev : w.id = d.id =>
        w.name \in {d.owner, "recovered"} /\ d.fs <= w.size
  BY <1>3, <1>5, <1>6 DEF Sound
<1> QED
  BY <1>3, <1>5, <1>7, <1>8, <1>9 DEF Sound, q

(* With no message under way, the record is judged against the pool as it is. *)
LEMMA RestSound ==
  ASSUME NEW r, NEW th, r \in Record, UniqueIds(r.vols), \A v \in r.vols : v.tx < r.tx,
         r.tx = th.tx, After(r, th) = th, ~Coming(r, th),
         \A d \in th.dev : \E v \in r.vols : v.id = d.id,
         \A v \in r.vols : \E d \in th.dev : v.id = d.id,
         \A v \in r.vols, d \in th.dev : v.id = d.id =>
           v.name \in {d.owner, "recovered"} /\ d.fs <= v.size
  PROVE  Sound(r, th)
BY DEF Sound

LEMMA ExtendSound ==
  ASSUME NEW r, NEW th, NEW v \in r.vols, Pool(th), Sound(r, th), r.msg = NoMsg
  PROVE  Sound([r EXCEPT !.vols = (@ \ {v}) \cup {[v EXCEPT !.size = 2]}], th)
<1> DEFINE u == [v EXCEPT !.size = 2]
           q == [r EXCEPT !.vols = (@ \ {v}) \cup {u}]
<1>1. r \in Record /\ th \in Thin /\ v \in Vol /\ After(r, th) = th
  BY DEF Sound, After, Coming, Pool, Record
<1>2. u \in Vol /\ u.id = v.id /\ u.tx = v.tx /\ u.name = v.name /\ u.size = 2
  BY <1>1 DEF Vol
<1>3. q \in Record /\ q.tx = r.tx /\ q.msg = r.msg /\ q.vols = (r.vols \ {v}) \cup {u}
  BY <1>1, <1>2 DEF Record
<1>4. After(q, th) = th
  BY <1>3 DEF After, Coming
<1>5. \A d \in th.dev : d.fs <= 2
  BY <1>1 DEF Thin, Dev
<1> HIDE DEF q, u
<1>6. UniqueIds(q.vols) /\ \A w \in q.vols : w.tx < q.tx
  BY <1>2, <1>3 DEF Sound, UniqueIds
<1>7. /\ \A d \in th.dev : \E w \in q.vols : w.id = d.id
      /\ \A w \in q.vols : \E d \in th.dev : w.id = d.id
  BY <1>1, <1>2, <1>3 DEF Sound
<1>8. \A w \in q.vols, d \in th.dev : w.id = d.id =>
        w.name \in {d.owner, "recovered"} /\ d.fs <= w.size
  <2> SUFFICES ASSUME NEW w \in q.vols, NEW d \in th.dev, w.id = d.id
               PROVE  w.name \in {d.owner, "recovered"} /\ d.fs <= w.size
    OBVIOUS
  <2>1. CASE w = u
    <3>1. v.name \in {d.owner, "recovered"}
      BY <1>1, <1>2, <2>1 DEF Sound
    <3> QED
      BY <1>2, <1>5, <2>1, <3>1
  <2>2. CASE w # u
    BY <1>1, <1>3, <2>2 DEF Sound
  <2> QED
    BY <2>1, <2>2
<1>9. r.tx = th.tx /\ ~Coming(q, th)
  BY <1>1, <1>3 DEF Sound, Coming
<1>10. Sound(q, th)
  BY <1>3, <1>4, <1>6, <1>7, <1>8, <1>9, RestSound
<1> QED
  BY <1>10 DEF q, u

(* Receiving the message keeps the record sound, with and without it.       *)
LEMMA SentSound ==
  ASSUME NEW r, NEW th, Pool(th), Sound(r, th)
  PROVE  /\ Pool(After(r, th)) /\ Sound(r, After(r, th))
         /\ Sound([r EXCEPT !.msg = NoMsg], After(r, th))
<1> DEFINE q == [r EXCEPT !.msg = NoMsg]
           a == After(r, th)
<1>1. q \in Record /\ q.tx = r.tx /\ q.vols = r.vols /\ q.msg = NoMsg /\ r \in Record
  BY NoMsgTyped DEF Sound, Record
<1>2. Pool(a) /\ r.tx = a.tx
  <2>1. CASE ~Coming(r, th)
    BY <2>1 DEF After, Sound
  <2>2. CASE Coming(r, th) /\ r.msg.kind = "create"
    <3> DEFINE d == [id |-> r.msg.vol.id, tx |-> th.tx, owner |-> r.msg.vol.name, fs |-> 1]
    <3>1. d \in Dev /\ d.id = r.msg.vol.id /\ d.tx = th.tx
      BY <1>1 DEF Record, Msg, Vol, Dev, Pool, Thin
    <3>2. a = [tx |-> r.tx, dev |-> th.dev \cup {d}]
      BY <2>2 DEF After, Sent
    <3> HIDE DEF a, d
    <3>3. a \in Thin /\ a.dev = th.dev \cup {d} /\ a.tx = r.tx /\ a.tx = th.tx + 1
      BY <1>1, <2>2, <3>1, <3>2 DEF Record, Thin, Pool, Coming
    <3>4. UniqueIds(a.dev)
      BY <2>2, <3>1, <3>3 DEF UniqueIds, Pool, Sound
    <3>5. \A e \in a.dev : e.tx < a.tx
      BY <3>1, <3>3 DEF Pool, Thin, Dev
    <3> QED
      BY <3>3, <3>4, <3>5 DEF Pool
  <2>3. CASE Coming(r, th) /\ r.msg.kind # "create"
    <3>2. a = [tx |-> r.tx, dev |-> {d \in th.dev : d.id # r.msg.vol.id}]
      BY <2>3 DEF After, Sent
    <3> HIDE DEF a
    <3>3. a \in Thin /\ a.dev \subseteq th.dev /\ a.tx = r.tx /\ a.tx = th.tx + 1
      BY <1>1, <2>3, <3>2 DEF Record, Thin, Pool, Coming
    <3>5. \A e \in a.dev : e.tx < a.tx
      BY <3>3 DEF Pool, Thin, Dev
    <3> QED
      BY <3>3, <3>5 DEF Pool, UniqueIds
  <2> QED
    BY <2>1, <2>2, <2>3
<1>3. After(r, a) = a /\ After(q, a) = a /\ ~Coming(r, a) /\ ~Coming(q, a)
  BY <1>1, <1>2 DEF After, Coming, Pool, Thin
<1> HIDE DEF q
<1> QED
  BY <1>1, <1>2, <1>3 DEF Sound, q

(* A file system grows into a volume that was extended before.              *)
LEMMA GrownSound ==
  ASSUME NEW r, NEW th, NEW d \in th.dev, NEW v \in r.vols, Pool(th), Sound(r, th), r.msg = NoMsg,
         v.id = d.id, v.size = 2
  PROVE  LET g == [th EXCEPT !.dev = (@ \ {d}) \cup {[d EXCEPT !.fs = 2]}]
         IN  Pool(g) /\ Sound(r, g)
<1> DEFINE e == [d EXCEPT !.fs = 2]
           g == [th EXCEPT !.dev = (@ \ {d}) \cup {e}]
<1>1. th \in Thin /\ d \in Dev /\ r \in Record /\ After(r, th) = th
  BY DEF Pool, Thin, Sound, After, Coming
<1>2. e \in Dev /\ e.id = d.id /\ e.tx = d.tx /\ e.owner = d.owner /\ e.fs = 2
  BY <1>1 DEF Dev
<1>3. g \in Thin /\ g.tx = th.tx /\ g.dev = (th.dev \ {d}) \cup {e}
  BY <1>1, <1>2 DEF Thin
<1> HIDE DEF e, g
<1>4. Pool(g)
  BY <1>2, <1>3 DEF Pool, UniqueIds
<1>5. After(r, g) = g /\ ~Coming(r, g)
  BY DEF After, Coming
<1>6. \A w \in r.vols : w.id = d.id => w = v
  BY DEF Sound, UniqueIds
<1>7. \A w \in r.vols, c \in g.dev : w.id = c.id =>
        w.name \in {c.owner, "recovered"} /\ c.fs <= w.size
  <2> SUFFICES ASSUME NEW w \in r.vols, NEW c \in g.dev, w.id = c.id
               PROVE  w.name \in {c.owner, "recovered"} /\ c.fs <= w.size
    OBVIOUS
  <2>1. CASE c = e
    <3>1. w = v /\ w.name \in {d.owner, "recovered"}
      BY <1>1, <1>2, <1>6, <2>1 DEF Sound
    <3> QED
      BY <1>2, <2>1, <3>1
  <2>2. CASE c # e
    BY <1>1, <1>3, <2>2 DEF Sound
  <2> QED
    BY <2>1, <2>2
<1>8. /\ \A c \in g.dev : \E w \in r.vols : w.id = c.id
      /\ \A w \in r.vols : \E c \in g.dev : w.id = c.id
  BY <1>1, <1>2, <1>3 DEF Sound
<1>9. r.tx = g.tx /\ UniqueIds(r.vols) /\ \A w \in r.vols : w.tx < r.tx
  BY <1>1, <1>3 DEF Sound
<1>10. Sound(r, g)
  BY <1>1, <1>5, <1>7, <1>8, <1>9, RestSound
<1> QED
  BY <1>4, <1>10 DEF g, e

(* Of n devices one of n + 1 ids is free.                                   *)
LEMMA NewIdIsNew ==
  ASSUME IsFiniteSet(Ids)
  PROVE  NewId \in Nat /\ NewId \notin Ids
<1> DEFINE n == Cardinality(Ids)
<1>1. n \in Nat
  BY FS_CardinalityType
<1>2. \E i \in 1..(n + 1) : i \notin Ids
  <2> SUFFICES ASSUME 1..(n + 1) \subseteq Ids PROVE FALSE
    OBVIOUS
  <2>1. Cardinality(1..(n + 1)) <= n
    BY FS_Subset
  <2>2. Cardinality(1..(n + 1)) = n + 1
    BY <1>1, FS_Interval
  <2> QED
    BY <1>1, <2>1, <2>2
<1>3. NewId \in 1..(n + 1) /\ NewId \notin Ids
  BY <1>2 DEF NewId
<1> QED
  BY <1>1, <1>3

(* Of records whose numbers have a bound there is a latest.                *)
LEMMA LatestExists ==
  ASSUME ring \subseteq Record, ring # {}, NEW k \in Nat, \A q \in ring : q.seq <= k
  PROVE  Latest \in ring /\ \A q \in ring : q.seq <= Latest.seq
<1> DEFINE T == {k - q.seq : q \in ring}
<1>1. T \subseteq Nat /\ T # {}
  BY DEF Record
<1>2. \E x \in T : \A y \in T : ~ (<<y, x>> \in OpToRel(<, Nat))
  BY <1>1, WFMin, NatLessThanWellFounded, Zenon
<1>3. \E x \in T : \A y \in T : x <= y
  <2>1. PICK x \in T : \A y \in T : ~ (<<y, x>> \in OpToRel(<, Nat))
    BY <1>2
  <2>2. \A y \in T : ~ (y < x)
    BY <1>1, <2>1, Zenon DEF OpToRel
  <2> HIDE DEF T
  <2>3. x \in Nat /\ \A y \in T : y \in Nat
    BY <1>1
  <2>4. \A y \in T : x <= y
    BY <2>2, <2>3
  <2> QED
    BY <2>4
<1>4. PICK r \in ring : \A y \in T : k - r.seq <= y
  BY <1>3
<1>5. \A q \in ring : q.seq <= r.seq
  <2> SUFFICES ASSUME NEW q \in ring PROVE q.seq <= r.seq
    OBVIOUS
  <2>1. k - q.seq \in T /\ q.seq \in Nat /\ r.seq \in Nat
    BY DEF Record
  <2> HIDE DEF T
  <2> QED
    BY <1>4, <2>1
<1> QED
  BY <1>5 DEF Latest

-----------------------------------------------------------------------------
(* The first area is written first: when the copies differ it is the newer  *)
(* one and has a right checksum, so what LVM reads is the first copy.       *)
Main == cur[1].rec
CurOK == cur \in [{1, 2} -> [rec : Record, ok : BOOLEAN]]
Copies ==
  areas = 2 /\ cur[1].rec # cur[2].rec => cur[1].ok /\ cur[2].rec.seq < Main.seq

LEMMA VgIsMain ==
  ASSUME areas \in {1, 2}, CurOK, Copies, Readable
  PROVE  Vg = Main
<1> DEFINE good == {cur[i].rec : i \in {a \in Area : cur[a].ok}}
<1>1. Area \subseteq {1, 2} /\ 1 \in Area /\ (2 \in Area <=> areas = 2)
  BY DEF Area
<1>2. Main \in good /\ \A q \in good : q = Main \/ q.seq < Main.seq
  BY <1>1 DEF Readable, Copies, CurOK, Main
<1>3. Main.seq \in Nat /\ \A q \in good : q.seq \in Nat
  BY <1>1 DEF CurOK, Main, Record
<1>4. \A r \in good : (\A q \in good : q.seq <= r.seq) <=> r = Main
  BY <1>2, <1>3
<1> HIDE DEF good
<1>5. (CHOOSE r \in good : \A q \in good : q.seq <= r.seq) = Main
  BY <1>2, <1>4
<1> QED
  BY <1>5 DEF Vg, good

(* What candidate accepts is sound: a persistent volume whose device was    *)
(* created by the same transaction is that device, and snapshots get a name *)
(* of their own.                                                            *)
LEMMA PlanSound ==
  ASSUME NEW r \in ring, Pool(thin), r \in Record, UniqueIds(r.vols),
         \A v \in r.vols : v.tx < r.tx,
         \A v \in r.vols, d \in thin.dev :
           v.id = d.id /\ v.tx = d.tx => v.name \in {d.owner, "recovered"},
         Candidate(r)
  PROVE  Sound(CandidateOf(r), thin) /\ CandidateOf(r).msg = NoMsg
         /\ CandidateOf(r).seq = r.seq + 1 /\ CandidateOf(r).tx = thin.tx
<1> DEFINE q == CandidateOf(r)
           kept == r.vols \ Snaps(r)
           moved == {Quarantined(v) : v \in Snaps(r)}
<1>1. Snaps(r) \subseteq r.vols /\ r.vols \subseteq Vol /\ thin \in Thin /\ thin.dev \subseteq Dev
  BY DEF Snaps, Record, Pool, Thin
<1>2. \A v \in r.vols : Device(v) \in thin.dev /\ Device(v).id = v.id
                        /\ \A d \in thin.dev : d.id = v.id => d = Device(v)
  <2> SUFFICES ASSUME NEW v \in r.vols
               PROVE  Device(v) \in thin.dev /\ Device(v).id = v.id
                      /\ \A d \in thin.dev : d.id = v.id => d = Device(v)
    OBVIOUS
  <2>1. \E d \in thin.dev : d.id = v.id
    BY DEF Candidate, Ids
  <2> QED
    BY <2>1 DEF Device, Pool, UniqueIds
<1>3. \A v \in Snaps(r) : /\ Quarantined(v) \in Vol /\ Quarantined(v).id = v.id
                          /\ Quarantined(v).name = "recovered" /\ Quarantined(v).size = v.size
                          /\ Quarantined(v).tx = Device(v).tx
  <2> SUFFICES ASSUME NEW v \in Snaps(r)
               PROVE  /\ Quarantined(v) \in Vol /\ Quarantined(v).id = v.id
                      /\ Quarantined(v).name = "recovered" /\ Quarantined(v).size = v.size
                      /\ Quarantined(v).tx = Device(v).tx
    OBVIOUS
  <2>1. v \in Vol /\ Device(v).tx \in Nat
    BY <1>1, <1>2 DEF Dev
  <2>2. "recovered" \in Name
    BY DEF Name
  <2> QED
    BY <2>1, <2>2 DEF Quarantined, Vol
<1>4. q = [seq |-> r.seq + 1, tx |-> thin.tx, msg |-> NoMsg, vols |-> kept \cup moved]
  BY DEF CandidateOf
<1> HIDE DEF q
<1>5. q \in Record /\ q.seq = r.seq + 1 /\ q.tx = thin.tx /\ q.msg = NoMsg /\ q.vols = kept \cup moved
  <2>1. kept \cup moved \in SUBSET Vol
    BY <1>1, <1>3
  <2> HIDE DEF kept, moved
  <2> QED
    BY <1>1, <1>4, <2>1, NoMsgTyped DEF Record, Thin
<1>6. After(q, thin) = thin /\ ~Coming(q, thin)
  BY <1>5 DEF After, Coming
<1>7. UniqueIds(q.vols)
  BY <1>1, <1>3, <1>5 DEF UniqueIds
<1>8. \A v \in q.vols : v.tx < q.tx
  BY <1>1, <1>2, <1>3, <1>5 DEF Candidate, SamePersistent, Pool
<1>9. \A v \in q.vols, d \in thin.dev : v.id = d.id =>
        v.name \in {d.owner, "recovered"} /\ d.fs <= v.size
  <2>1. \A v \in r.vols : Device(v).fs <= v.size
    BY DEF Candidate, Fits
  <2>2. \A v \in kept : v.name \in {Device(v).owner, "recovered"}
    BY <1>2 DEF Candidate, SamePersistent
  <2> QED
    BY <1>1, <1>2, <1>3, <1>5, <2>1, <2>2
<1>10. /\ \A d \in thin.dev : \E v \in q.vols : v.id = d.id
       /\ \A v \in q.vols : \E d \in thin.dev : v.id = d.id
  <2>1. \A d \in thin.dev : \E v \in r.vols : v.id = d.id
    BY DEF Candidate, Ids
  <2> QED
    BY <1>1, <1>2, <1>3, <1>5, <2>1
<1> QED
  BY <1>5, <1>6, <1>7, <1>8, <1>9, <1>10 DEF Sound, q

-----------------------------------------------------------------------------
(* The inductive invariant.                                                 *)
Typed ==
  /\ areas \in {1, 2} /\ ring \in SUBSET Record /\ CurOK
  /\ lvm \in [step : {"idle", "text", "commit", "message"}, new : Record, area : {1, 2}]
  /\ rec \in [step : {"off", "preserve", "rename", "sync", "write"}, plan : Record, seen : Nat]
  /\ up \in {"off", "boot", "up", "guarded"} /\ faults \in [all : Nat, since : Nat]

(* Who may run when.                                                        *)
Phases ==
  /\ lvm.step # "idle" => up \in {"up", "guarded"}
  /\ rec.step # "off" => up = "boot" /\ areas = 1
  /\ areas = 2 => ring = {}
  /\ job.step # "idle" => areas = 2 /\ up = "up"
  /\ lvm.step = "text" => lvm.area = 1
  /\ lvm.area = 2 => areas = 2

PoolInv == Pool(thin) /\ IsFiniteSet(Ids)

(* The LVM command that runs: what it writes is sound, follows the first    *)
(* copy, and is that copy once the second one is written.                   *)
Running ==
  /\ lvm.step \in {"text", "commit"} =>
       /\ Sound(lvm.new, thin)
       /\ lvm.area = 1 =>
            /\ lvm.new.seq = Main.seq + 1 /\ Main.tx <= lvm.new.tx
            /\ Main.tx = thin.tx \/ (lvm.new.vols = Main.vols /\ lvm.new.tx = Main.tx)
       /\ lvm.area = 2 => lvm.new = Main
  /\ lvm.step = "commit" /\ lvm.area = 1 =>
       \A q \in ring : q = lvm.new \/ q.seq < lvm.new.seq
  /\ lvm.step = "message" => lvm.new = Main /\ lvm.new.msg # NoMsg

(* A record of the history: where it has a volume of the same transaction   *)
(* as a device, it is the volume of that device; it is not ahead of the     *)
(* pool, but for the command that was interrupted last.                     *)
Remembered(q) ==
  /\ UniqueIds(q.vols) /\ \A v \in q.vols : v.tx < q.tx
  /\ \A v \in q.vols, d \in thin.dev :
       v.id = d.id /\ v.tx = d.tx => v.name \in {d.owner, "recovered"}
  /\ q.tx <= thin.tx + 1
  /\ q.seq <= Main.seq => q.tx <= Main.tx
  /\ q.tx > thin.tx /\ Main.tx > thin.tx => q.vols = Main.vols

History ==
  /\ \A q \in ring : Remembered(q)
  /\ \A p, q \in ring : q.seq <= p.seq => q.tx <= p.tx
  /\ \E k \in Nat : \A q \in ring : q.seq <= k

(* The plan of the recovery is sound and newer than the history.            *)
Planned ==
  rec.step # "off" =>
    /\ Sound(rec.plan, thin) /\ rec.plan.msg = NoMsg /\ rec.plan.tx = thin.tx
    /\ \A q \in ring : q.seq < rec.plan.seq /\ q.tx <= rec.plan.tx

DiskInv == Copies /\ PoolInv /\ Sound(Main, thin) /\ Running /\ History

ControlInv == Phases /\ Planned

Inv == Typed /\ DiskInv /\ ControlInv

(* Steps that write nothing keep what is said about the disk.               *)
LEMMA DiskKept ==
  ASSUME DiskInv, UNCHANGED disk, lvm' = lvm \/ lvm'.step = "idle"
  PROVE  DiskInv'
BY DEF DiskInv, disk, Copies, PoolInv, Running, History, Remembered, Main, Ids

LEMMA SoundNames ==
  ASSUME NEW r, NEW th, Pool(th), Sound(r, th)
  PROVE  /\ \A v \in r.vols, d \in th.dev : v.id = d.id => v.name \in {d.owner, "recovered"}
         /\ r.tx \in {th.tx, th.tx + 1} /\ (r.msg = NoMsg => r.tx = th.tx)
<1>1. CASE ~Coming(r, th)
  BY <1>1 DEF Sound, After
<1>2. CASE Coming(r, th) /\ r.msg.kind = "create"
  BY <1>2 DEF Sound, After, Sent, Coming
<1>3. CASE Coming(r, th) /\ r.msg.kind # "create"
  <2>1. After(r, th).dev = {d \in th.dev : d.id # r.msg.vol.id}
    BY <1>3 DEF After, Sent
  <2> QED
    BY <1>3, <2>1 DEF Sound, Coming
<1> QED
  BY <1>1, <1>2, <1>3

LEMMA MainFacts ==
  ASSUME Inv
  PROVE  /\ Main \in Record /\ (Readable => Vg = Main)
         /\ Main.tx \in {thin.tx, thin.tx + 1} /\ (Main.msg = NoMsg => Main.tx = thin.tx)
         /\ thin.tx \in Nat
BY VgIsMain, SoundNames DEF Inv, DiskInv, Typed, Sound, PoolInv, Pool, Thin

(* A command that starts with a sound record.                               *)
LEMMA Commanded ==
  ASSUME Inv, NEW r, Sound(r, thin), lvm.step = "idle", Readable, up = "up",
         Main.tx <= r.tx, Main.tx = thin.tx \/ (r.vols = Main.vols /\ r.tx = Main.tx),
         Command(r), UNCHANGED <<disk, rec, esp, writes, up, faults>>,
         job' = job \/ job.step # "idle"
  PROVE  /\ lvm' \in [step : {"idle", "text", "commit", "message"}, new : Record, area : {1, 2}]
         /\ DiskInv' /\ Phases' /\ Planned'
<1> DEFINE q == [r EXCEPT !.seq = Main.seq + 1]
<1>1. lvm' = [step |-> "text", new |-> q, area |-> 1]
  BY MainFacts DEF Command
<1>2. Main.seq + 1 \in Nat /\ Main.tx \in Nat
  BY MainFacts DEF Record
<1>3. Sound(q, thin) /\ q \in Record /\ q.seq = Main.seq + 1 /\ q.tx = r.tx /\ q.vols = r.vols
  <2>1. Sound(q, thin)
    BY <1>2, Renumbered
  <2>2. r \in Record
    BY DEF Sound
  <2> QED
    BY <1>2, <2>1, <2>2 DEF Record
<1> HIDE DEF q
<1>4. Running'
  BY <1>1, <1>3 DEF Running, Main, disk
<1>5. Copies' /\ PoolInv' /\ Sound(Main, thin)' /\ History'
  BY DEF Inv, DiskInv, Copies, PoolInv, History, Remembered, Main, Ids, disk
<1>6. rec.step = "off"
  BY DEF Inv, ControlInv, Phases
<1>7. Phases' /\ Planned'
  <2>1. Phases'
    BY <1>1, <1>6 DEF Inv, ControlInv, Phases, disk
  <2> QED
    BY <1>6, <2>1 DEF Inv, ControlInv, Planned
<1> QED
  BY <1>1, <1>3, <1>4, <1>5, <1>7 DEF DiskInv

-----------------------------------------------------------------------------
(* One lemma for each action.                                               *)
LEMMA Record0Typed == Record0 \in Record
<1>1. Volume(First, 1, 0, 1) \in Vol /\ Volume(Other, 2, 1, 1) \in Vol
      /\ Volume(Taken, 3, 2, 1) \in Vol
  BY VolumeTyped, VgAssumption
<1> QED
  BY <1>1, NoMsgTyped DEF Record0, Record

LEMMA CreateVolumeKeeps ==
  ASSUME Inv, NEW n \in Persistent \cup Snapshot, CreateVolume(n)
  PROVE  Inv'
<1> DEFINE v == Volume(n, NewId, thin.tx, 1)
           r == [Main EXCEPT !.vols = @ \cup {v}, !.tx = @ + 1,
                             !.msg = [kind |-> "create", vol |-> v]]
<1>1. Vg = Main /\ Main \in Record /\ Main.msg = NoMsg /\ Main.tx = thin.tx /\ thin.tx \in Nat
  BY MainFacts DEF CreateVolume, Free
<1>2. NewId \in Nat /\ \A d \in thin.dev : d.id # NewId
  BY NewIdIsNew DEF Inv, DiskInv, PoolInv, Ids
<1>3. Sound(r, thin)
  BY <1>1, <1>2, CreateSound DEF Inv, DiskInv, PoolInv
<1>4. r.tx = Main.tx + 1
  BY <1>1 DEF Record
<1>5. Command(r)
  BY <1>1 DEF CreateVolume
<1> HIDE DEF r
<1>6. /\ lvm' \in [step : {"idle", "text", "commit", "message"}, new : Record, area : {1, 2}]
      /\ DiskInv' /\ Phases' /\ Planned'
  BY <1>1, <1>3, <1>4, <1>5, Commanded DEF CreateVolume, Free, Others
<1>7. Typed'
  BY <1>6 DEF CreateVolume, Others, disk, Inv, Typed, CurOK
<1> QED
  BY <1>6, <1>7 DEF Inv, ControlInv

LEMMA RemoveVolumeKeeps ==
  ASSUME Inv, NEW v \in Vg.vols, Readable, RemoveVolume(v)
  PROVE  Inv'
<1> DEFINE r == [Main EXCEPT !.vols = @ \ {v}, !.tx = @ + 1,
                             !.msg = [kind |-> "delete", vol |-> v]]
<1>1. Vg = Main /\ Main \in Record /\ Main.msg = NoMsg /\ Main.tx = thin.tx /\ thin.tx \in Nat
  BY MainFacts DEF RemoveVolume, Free
<1>3. Sound(r, thin)
  BY <1>1, RemoveSound DEF Inv, DiskInv, PoolInv
<1>4. r.tx = Main.tx + 1
  BY <1>1 DEF Record
<1>5. Command(r)
  BY <1>1 DEF RemoveVolume
<1> HIDE DEF r
<1>6. /\ lvm' \in [step : {"idle", "text", "commit", "message"}, new : Record, area : {1, 2}]
      /\ DiskInv' /\ Phases' /\ Planned'
  BY <1>1, <1>3, <1>4, <1>5, Commanded DEF RemoveVolume, Free, Others
<1>7. Typed'
  BY <1>6 DEF RemoveVolume, Others, disk, Inv, Typed, CurOK
<1> QED
  BY <1>6, <1>7 DEF Inv, ControlInv

LEMMA ExtendVolumeKeeps ==
  ASSUME Inv, NEW v \in Vg.vols, Readable, ExtendVolume(v)
  PROVE  Inv'
<1> DEFINE r == [Main EXCEPT !.vols = (@ \ {v}) \cup {[v EXCEPT !.size = 2]}]
<1>1. Vg = Main /\ Main \in Record /\ Main.msg = NoMsg /\ Main.tx = thin.tx /\ thin.tx \in Nat
  BY MainFacts DEF ExtendVolume, Free
<1>3. Sound(r, thin)
  BY <1>1, ExtendSound DEF Inv, DiskInv, PoolInv
<1>4. r.tx = Main.tx
  BY <1>1 DEF Record
<1>5. Command(r)
  BY <1>1 DEF ExtendVolume
<1> HIDE DEF r
<1>6. /\ lvm' \in [step : {"idle", "text", "commit", "message"}, new : Record, area : {1, 2}]
      /\ DiskInv' /\ Phases' /\ Planned'
  BY <1>1, <1>3, <1>4, <1>5, Commanded DEF ExtendVolume, Free, Others
<1>7. Typed'
  BY <1>6 DEF ExtendVolume, Others, disk, Inv, Typed, CurOK
<1> QED
  BY <1>6, <1>7 DEF Inv, ControlInv

LEMMA GrowFsKeeps ==
  ASSUME Inv, NEW d \in thin.dev, GrowFs(d)
  PROVE  Inv'
<1>1. Vg = Main /\ Main.msg = NoMsg
  BY MainFacts DEF GrowFs, Free
<1>2. PICK v \in Main.vols : v.id = d.id /\ v.size = 2
  BY <1>1 DEF GrowFs
<1>3. Pool(thin') /\ Sound(Main, thin')
  BY <1>1, <1>2, GrownSound DEF Inv, DiskInv, PoolInv, GrowFs
<1>4. thin \in Thin /\ d \in Dev
  BY DEF Inv, DiskInv, PoolInv, Pool, Thin
<1>5. /\ thin'.tx = thin.tx
      /\ \A e \in thin'.dev : \E c \in thin.dev : c.id = e.id /\ c.tx = e.tx /\ c.owner = e.owner
      /\ \A c \in thin.dev : \E e \in thin'.dev : c.id = e.id
  <2> DEFINE g == [d EXCEPT !.fs = 2]
  <2>1. g.id = d.id /\ g.tx = d.tx /\ g.owner = d.owner
    BY <1>4 DEF Dev
  <2> HIDE DEF g
  <2>2. thin'.tx = thin.tx /\ thin'.dev = (thin.dev \ {d}) \cup {g}
    BY <1>4 DEF GrowFs, Thin, g
  <2> QED
    BY <2>1, <2>2
<1>6. Ids' = Ids
  BY <1>5 DEF Ids
<1>7. lvm.step = "idle" /\ rec.step = "off"
      /\ UNCHANGED <<areas, ring, cur, lvm, rec, esp, writes, job, up, faults>>
  BY DEF GrowFs, Free, Inv, ControlInv, Phases
<1>8. History'
  BY <1>5, <1>7 DEF Inv, DiskInv, History, Remembered, Main
<1>9. DiskInv'
  BY <1>3, <1>6, <1>7, <1>8 DEF Inv, DiskInv, Copies, PoolInv, Running, Main
<1>10. Typed' /\ ControlInv'
  BY <1>7 DEF Inv, Typed, CurOK, ControlInv, Phases, Planned
<1> QED
  BY <1>9, <1>10 DEF Inv

LEMMA LvmTextKeeps ==
  ASSUME Inv, LvmText
  PROVE  Inv'
<1> DEFINE r == lvm.new
<1>1. /\ lvm.area = 1 /\ Sound(r, thin) /\ r.seq = Main.seq + 1 /\ Main.tx <= r.tx
      /\ Main.tx = thin.tx \/ (r.vols = Main.vols /\ r.tx = Main.tx)
      /\ rec.step = "off" /\ r \in Record /\ Pool(thin)
  BY DEF LvmText, Inv, Typed, DiskInv, PoolInv, Running, ControlInv, Phases
<1>2. lvm' = [lvm EXCEPT !.step = "commit"]
      /\ UNCHANGED <<areas, cur, thin, rec, esp, writes, job, up, faults>>
  BY DEF LvmText
<1>3. Main \in Record /\ Main.tx \in {thin.tx, thin.tx + 1} /\ thin.tx \in Nat /\ Main.seq \in Nat
      /\ r.tx \in {thin.tx, thin.tx + 1} /\ r.tx \in Nat /\ Main.tx \in Nat
  BY <1>1, MainFacts, SoundNames DEF Record
<1>4. \A q \in ring' : q = r \/ (q \in ring /\ q.seq <= Main.seq)
  <2>1. \A q \in ring : q.seq \in Nat
    BY DEF Inv, Typed, Record
  <2> QED
    BY <1>1, <1>3, <2>1 DEF LvmText, Appended
<1>5. ring' \in SUBSET Record /\ (areas = 2 => ring' = {})
  BY <1>1 DEF LvmText, Appended, Inv, Typed
<1>6. Remembered(r)
  BY <1>1, <1>3, SoundNames DEF Remembered, Sound
<1>7. History'
  <2>1. \A q \in ring' : Remembered(q)
    BY <1>4, <1>6 DEF Inv, DiskInv, History
  <2>2. \A q \in ring' : Remembered(q)'
    BY <1>2, <2>1 DEF Remembered, Main
  <2>3. \A q \in ring' : q.tx \in Nat /\ q.seq \in Nat
    BY <1>5 DEF Record
  <2>4. \A p, q \in ring' : q.seq <= p.seq => q.tx <= p.tx
    BY <1>1, <1>3, <1>4, <2>1, <2>3 DEF Remembered, Inv, DiskInv, History
  <2>5. Main.seq + 1 \in Nat /\ \A q \in ring' : q.seq <= Main.seq + 1
    BY <1>1, <1>3, <1>4, <2>3
  <2> QED
    BY <2>2, <2>4, <2>5 DEF History
<1>8. Running'
  <2>1. \A q \in ring' : q = r \/ q.seq < r.seq
    BY <1>1, <1>3, <1>4, <1>5 DEF Record
  <2>2. lvm'.step = "commit" /\ lvm'.new = r /\ lvm'.area = 1
    BY <1>1, <1>2 DEF Inv, Typed
  <2> QED
    BY <1>1, <1>2, <2>1, <2>2 DEF Running, Main
<1>9. DiskInv'
  BY <1>2, <1>7, <1>8 DEF Inv, DiskInv, Copies, PoolInv, Ids, Main
<1>10. Typed'
  BY <1>2, <1>5 DEF Inv, Typed, CurOK
<1>11. ControlInv'
  BY <1>1, <1>2, <1>5 DEF Inv, Typed, LvmText, ControlInv, Phases, Planned
<1> QED
  BY <1>9, <1>10, <1>11 DEF Inv

LEMMA LvmCommitKeeps ==
  ASSUME Inv, LvmCommit
  PROVE  Inv'
<1> DEFINE r == lvm.new
<1>1. /\ Sound(r, thin) /\ r \in Record /\ Pool(thin) /\ lvm.area \in {1, 2} /\ areas \in {1, 2}
      /\ rec.step = "off" /\ CurOK /\ (lvm.area = 2 => areas = 2) /\ up \in {"up", "guarded"}
  BY DEF LvmCommit, Inv, Typed, DiskInv, PoolInv, Running, ControlInv, Phases
<1>2. UNCHANGED <<areas, ring, thin, rec, esp, writes, job, up, faults>>
  BY DEF LvmCommit
<1>3. /\ CurOK' /\ Main' = r /\ cur'[lvm.area].ok
      /\ \A i \in {1, 2} : i # lvm.area => cur'[i] = cur[i]
      /\ cur'[lvm.area].rec = r
  BY <1>1 DEF LvmCommit, CurOK, Main, Inv, DiskInv, Running
<1>4. Main \in Record /\ Main.tx \in {thin.tx, thin.tx + 1} /\ thin.tx \in Nat /\ Main.seq \in Nat
      /\ r.tx \in {thin.tx, thin.tx + 1} /\ r.tx \in Nat /\ Main.tx \in Nat /\ r.seq \in Nat
  BY <1>1, MainFacts, SoundNames DEF Record
<1>7. Copies' /\ History'
  <2>1. CASE lvm.area = 1
    <3>1. /\ r.seq = Main.seq + 1 /\ Main.tx <= r.tx
          /\ Main.tx = thin.tx \/ (r.vols = Main.vols /\ r.tx = Main.tx)
          /\ \A q \in ring : q = r \/ q.seq < r.seq
      BY <2>1 DEF LvmCommit, Inv, DiskInv, Running
    <3>2. Copies'
      <4>1. cur'[1].ok /\ cur'[2] = cur[2] /\ cur'[1].rec = r
        BY <1>3, <2>1
      <4>2. areas = 2 => cur[2].rec.seq <= Main.seq /\ cur[2].rec.seq \in Nat
        BY <1>1, <1>4 DEF Inv, DiskInv, Copies, CurOK, Record, Main
      <4>3. areas = 2 => cur[2].rec.seq < r.seq
        BY <1>4, <3>1, <4>2
      <4> QED
        BY <1>2, <1>3, <4>1, <4>3 DEF Copies
    <3>3. \A q \in ring : Remembered(q)'
      <4> SUFFICES ASSUME NEW q \in ring PROVE Remembered(q)'
        OBVIOUS
      <4>1. Remembered(q) /\ q.tx \in Nat /\ q.seq \in Nat
        BY DEF Inv, Typed, Record, DiskInv, History
      <4>2. q = r \/ q.seq <= Main.seq
        BY <1>4, <3>1, <4>1
      <4>3. q.tx <= r.tx /\ (q.tx > thin.tx /\ r.tx > thin.tx => q.vols = r.vols)
        BY <1>4, <3>1, <4>1, <4>2 DEF Remembered
      <4> QED
        BY <1>2, <1>3, <4>1, <4>3 DEF Remembered
    <3> QED
      BY <1>2, <3>2, <3>3 DEF Inv, DiskInv, History
  <2>2. CASE lvm.area = 2
    <3>1. r = Main
      BY <2>2 DEF LvmCommit, Inv, DiskInv, Running
    <3>2. Copies'
      BY <1>1, <1>2, <1>3, <2>2, <3>1 DEF Copies, Main
    <3>3. History'
      BY <1>2, <1>3, <3>1 DEF Inv, DiskInv, History, Remembered
    <3> QED
      BY <3>2, <3>3
  <2> QED
    BY <1>1, <2>1, <2>2
<1>8. lvm' \in [step : {"idle", "text", "commit", "message"}, new : Record, area : {1, 2}]
      /\ Running' /\ lvm'.step # "text" /\ (lvm'.area = 2 => areas = 2)
  <2>1. CASE lvm.area < areas
    <3>1. lvm' = [lvm EXCEPT !.area = 2] /\ areas = 2
      BY <1>1, <2>1 DEF LvmCommit
    <3>2. lvm' \in [step : {"idle", "text", "commit", "message"}, new : Record, area : {1, 2}]
          /\ lvm'.step = "commit" /\ lvm'.new = r /\ lvm'.area = 2
      BY <3>1 DEF LvmCommit, Inv, Typed
    <3> QED
      BY <1>1, <1>2, <1>3, <3>1, <3>2 DEF Running
  <2>2. CASE ~(lvm.area < areas) /\ r.msg = NoMsg
    <3>1. lvm' = IdleLvm
      BY <2>2 DEF LvmCommit
    <3>2. Record0 \in Record
      BY Record0Typed
    <3> QED
      BY <3>1, <3>2 DEF IdleLvm, Running
  <2>3. CASE ~(lvm.area < areas) /\ r.msg # NoMsg
    <3>1. lvm' = [lvm EXCEPT !.step = "message"]
      BY <2>3 DEF LvmCommit
    <3>2. lvm' \in [step : {"idle", "text", "commit", "message"}, new : Record, area : {1, 2}]
          /\ lvm'.step = "message" /\ lvm'.new = r /\ lvm'.area = lvm.area
      BY <3>1 DEF LvmCommit, Inv, Typed
    <3> QED
      BY <1>1, <1>3, <2>3, <3>2 DEF Running
  <2> QED
    BY <2>1, <2>2, <2>3
<1>9. DiskInv'
  BY <1>1, <1>2, <1>3, <1>7, <1>8 DEF Inv, DiskInv, PoolInv, Ids
<1>10. Typed'
  BY <1>2, <1>3, <1>8 DEF Inv, Typed
<1>12. ControlInv'
  BY <1>1, <1>2, <1>8 DEF Inv, ControlInv, Phases, Planned
<1> QED
  BY <1>9, <1>10, <1>12 DEF Inv

LEMMA LvmMessageKeeps ==
  ASSUME Inv, LvmMessage
  PROVE  Inv'
<1> DEFINE r == lvm.new
           q == [r EXCEPT !.msg = NoMsg]
           a == After(r, thin)
<1>1. r = Main /\ r.msg # NoMsg /\ r \in Record /\ Sound(r, thin) /\ Pool(thin) /\ rec.step = "off"
      /\ up \in {"up", "guarded"} /\ r.tx \in {thin.tx, thin.tx + 1} /\ thin.tx \in Nat
  BY SoundNames DEF LvmMessage, Inv, Typed, DiskInv, PoolInv, Pool, Thin, Running,
     ControlInv, Phases
<1>2. thin' = a
  BY <1>1 DEF LvmMessage, After, Coming
<1>3. UNCHANGED <<areas, ring, cur, rec, esp, writes, job, up, faults>>
  BY DEF LvmMessage
<1>4. Pool(a) /\ Sound(r, a) /\ Sound(q, a) /\ r.tx = a.tx
  <2>1. Pool(a) /\ Sound(r, a) /\ Sound(q, a)
    BY <1>1, SentSound
  <2>2. r.tx = a.tx
    BY <1>1 DEF Sound
  <2> QED
    BY <2>1, <2>2
<1>5. Sound([q EXCEPT !.seq = r.seq + 1], a)
  <2>1. r.seq + 1 \in Nat
    BY <1>1 DEF Record
  <2> HIDE DEF q, a
  <2> QED
    BY <1>4, <2>1, Renumbered
<1>6. lvm' \in [step : {"idle", "text", "commit", "message"}, new : Record, area : {1, 2}]
      /\ lvm'.step = "text" /\ lvm'.area = 1 /\ Sound(lvm'.new, a) /\ lvm'.new.seq = r.seq + 1
      /\ lvm'.new.tx = r.tx
  <2> DEFINE p == [q EXCEPT !.seq = r.seq + 1]
  <2>1. lvm' = [step |-> "text", area |-> 1, new |-> p]
    BY <1>1 DEF LvmMessage, Record
  <2>0. q \in Record /\ q.tx = r.tx
    BY <1>1, NoMsgTyped DEF Record
  <2>2. p \in Record /\ p.seq = r.seq + 1 /\ p.tx = r.tx
    <3> HIDE DEF q
    <3>1. r.seq + 1 \in Nat
      BY <1>1 DEF Record
    <3> QED
      BY <2>0, <3>1 DEF Record
  <2> HIDE DEF p
  <2> QED
    BY <1>5, <2>1, <2>2 DEF p
<1>7. Running'
  BY <1>1, <1>2, <1>3, <1>4, <1>6 DEF Running, Main, Record
<1>8. Ids' \subseteq Ids \cup {r.msg.vol.id}
  BY <1>2 DEF Ids, After, Sent
<1>9. IsFiniteSet(Ids')
  BY <1>8, FS_AddElement, FS_Subset DEF Inv, DiskInv, PoolInv
<1>10. History'
  <2>1. CASE ~Coming(r, thin)
    BY <1>2, <1>3, <2>1 DEF After, Inv, DiskInv, History, Remembered, Main
  <2>2. CASE Coming(r, thin)
    <3>1. a.tx = thin.tx + 1 /\ \A d \in a.dev : d \in thin.dev \/ (d.id = r.msg.vol.id /\ d.tx = thin.tx)
      BY <2>2, <1>4 DEF Coming, After, Sent
    <3>2. \A p \in ring : Remembered(p)'
      <4> SUFFICES ASSUME NEW p \in ring PROVE Remembered(p)'
        OBVIOUS
      <4>1. Remembered(p) /\ p.tx \in Nat
        BY DEF Inv, Typed, Record, DiskInv, History
      <4>2. ASSUME NEW v \in p.vols, NEW d \in a.dev, v.id = d.id, v.tx = d.tx
            PROVE  v.name \in {d.owner, "recovered"}
        <5>1. CASE d \in thin.dev
          BY <4>1, <4>2, <5>1 DEF Remembered
        <5>2. CASE d \notin thin.dev
          <6>1. v.tx = thin.tx /\ p.tx > thin.tx /\ r.tx > thin.tx
            BY <1>1, <2>2, <3>1, <4>1, <4>2, <5>2 DEF Remembered, Coming
          <6>2. v \in r.vols
            BY <1>1, <4>1, <6>1 DEF Remembered
          <6> QED
            BY <1>1, <4>2, <6>2 DEF Sound
        <5> QED
          BY <5>1, <5>2
      <4>3. p.tx <= a.tx + 1 /\ ~(p.tx > a.tx)
        BY <1>1, <3>1, <4>1 DEF Remembered
      <4> QED
        BY <1>2, <1>3, <4>1, <4>2, <4>3 DEF Remembered, Main
    <3> QED
      BY <1>3, <3>2 DEF Inv, DiskInv, History
  <2> QED
    BY <2>1, <2>2
<1>11. DiskInv'
  BY <1>1, <1>2, <1>3, <1>4, <1>7, <1>9, <1>10 DEF Inv, DiskInv, PoolInv, Copies, Main
<1>12. Typed'
  BY <1>3, <1>6 DEF Inv, Typed, CurOK
<1>13. ControlInv'
  BY <1>1, <1>3, <1>6 DEF Inv, ControlInv, Phases, Planned
<1> QED
  BY <1>11, <1>12, <1>13 DEF Inv

LEMMA IdleRecTyped ==
  /\ IdleRec \in [step : {"off", "preserve", "rename", "sync", "write"}, plan : Record, seen : Nat]
  /\ IdleRec.step = "off"
  /\ IdleLvm \in [step : {"idle", "text", "commit", "message"}, new : Record, area : {1, 2}]
  /\ IdleLvm.step = "idle" /\ IdleLvm.area = 1
BY Record0Typed DEF IdleRec, IdleLvm

LEMMA RecoverKeeps ==
  ASSUME Inv, Recover
  PROVE  Inv'
<1>1. UNCHANGED <<disk, lvm, esp, writes, job, faults>> /\ up = "boot" /\ lvm.step = "idle"
      /\ job.step = "idle" /\ rec.step = "off"
  BY DEF Recover, Inv, Typed, ControlInv, Phases
<1>2. DiskInv'
  BY <1>1, DiskKept DEF Inv
<1>3. CASE UNCHANGED rec /\ up' = "guarded"
  <2>1. Typed'
    BY <1>1, <1>3 DEF Inv, Typed, CurOK, disk
  <2>2. ControlInv'
    BY <1>1, <1>3 DEF Inv, ControlInv, Phases, Planned, disk
  <2> QED
    BY <1>2, <2>1, <2>2 DEF Inv
<1>4. CASE /\ areas = 1 /\ ring # {} /\ Candidate(Latest) /\ UNCHANGED up
           /\ rec' = [step |-> "preserve", plan |-> CandidateOf(Latest), seen |-> faults.all]
  <2> DEFINE r == Latest
             p == CandidateOf(r)
  <2>1. r \in ring /\ \A q \in ring : q.seq <= r.seq
    BY <1>4, LatestExists DEF Inv, Typed, DiskInv, History
  <2>2. r \in Record /\ Remembered(r) /\ Pool(thin) /\ thin.tx \in Nat
    BY <2>1 DEF Inv, Typed, DiskInv, History, PoolInv, Pool, Thin
  <2> HIDE DEF r
  <2>3. Sound(p, thin) /\ p.msg = NoMsg /\ p.seq = r.seq + 1 /\ p.tx = thin.tx
    BY <1>4, <2>1, <2>2, PlanSound DEF Remembered, r
  <2>4. p \in Record /\ faults.all \in Nat
    BY <2>3 DEF Sound, Inv, Typed
  <2> HIDE DEF p
  <2>5. rec'.step = "preserve" /\ rec'.plan = p
        /\ rec' \in [step : {"off", "preserve", "rename", "sync", "write"}, plan : Record, seen : Nat]
    BY <1>4, <2>4 DEF p, r
  <2>6. \A q \in ring : q.seq < p.seq /\ q.tx <= p.tx
    <3> SUFFICES ASSUME NEW q \in ring PROVE q.seq < p.seq /\ q.tx <= p.tx
      OBVIOUS
    <3>1. q.seq \in Nat /\ r.seq \in Nat /\ q.tx \in Nat /\ r.tx \in Nat
      BY <2>2 DEF Inv, Typed, Record
    <3>2. q.tx <= r.tx
      BY <2>1 DEF Inv, DiskInv, History
    <3>3. r.tx <= thin.tx
      BY <1>4 DEF Candidate, r
    <3> QED
      BY <2>1, <2>2, <2>3, <3>1, <3>2, <3>3
  <2>7. Planned'
    BY <1>1, <2>3, <2>5, <2>6 DEF Planned, disk
  <2>8. Typed'
    BY <1>1, <1>4, <2>5 DEF Inv, Typed, CurOK, disk
  <2>9. Phases'
    BY <1>1, <1>4, <2>5 DEF Inv, ControlInv, Phases, disk
  <2> QED
    BY <1>2, <2>7, <2>8, <2>9 DEF Inv, ControlInv
<1> QED
  BY <1>3, <1>4 DEF Recover

LEMMA PreserveKeeps ==
  ASSUME Inv, Preserve
  PROVE  Inv'
<1>1. UNCHANGED <<disk, lvm, writes, job, faults>> /\ up = "boot" /\ lvm.step = "idle"
      /\ job.step = "idle" /\ areas = 1
  BY DEF Preserve, Inv, Typed, ControlInv, Phases
<1>2. DiskInv'
  BY <1>1, DiskKept DEF Inv
<1>3. CASE esp = "none" /\ esp' = "partial" /\ rec' = [rec EXCEPT !.step = "rename"] /\ UNCHANGED up
  <2>1. rec'.step = "rename" /\ rec'.plan = rec.plan
        /\ rec' \in [step : {"off", "preserve", "rename", "sync", "write"}, plan : Record, seen : Nat]
    BY <1>3 DEF Inv, Typed
  <2>3. Planned'
    BY <1>1, <2>1 DEF Planned, disk, Inv, ControlInv, Preserve
  <2>4. Typed'
    BY <1>1, <1>3, <2>1 DEF Inv, Typed, CurOK, disk
  <2>5. Phases'
    BY <1>1, <1>3, <2>1 DEF Inv, ControlInv, Phases, disk
  <2> QED
    BY <1>2, <2>3, <2>4, <2>5 DEF Inv, ControlInv
<1>4. CASE rec' = IdleRec /\ up' = "guarded" /\ UNCHANGED esp
  <2>1. Typed'
    BY <1>1, <1>4, IdleRecTyped DEF Inv, Typed, CurOK, disk
  <2>2. ControlInv'
    BY <1>1, <1>4, IdleRecTyped DEF Inv, ControlInv, Phases, Planned, disk
  <2> QED
    BY <1>2, <2>1, <2>2 DEF Inv
<1> QED
  BY <1>3, <1>4 DEF Preserve

LEMMA RenameBundleKeeps ==
  ASSUME Inv, RenameBundle
  PROVE  Inv'
<1>1. UNCHANGED <<disk, lvm, writes, job, up, faults>> /\ up = "boot" /\ lvm.step = "idle"
  BY DEF RenameBundle, Inv, Typed, ControlInv, Phases
<1>2. rec'.step = "sync" /\ rec'.plan = rec.plan
      /\ rec' \in [step : {"off", "preserve", "rename", "sync", "write"}, plan : Record, seen : Nat]
  BY DEF RenameBundle, Inv, Typed
<1>3. DiskInv'
  BY <1>1, DiskKept DEF Inv
<1>4. Planned'
  BY <1>1, <1>2 DEF Planned, disk, Inv, ControlInv, RenameBundle
<1>5. Typed'
  BY <1>1, <1>2 DEF Inv, Typed, CurOK, disk
<1>6. Phases'
  BY <1>1, <1>2 DEF Inv, ControlInv, Phases, disk, RenameBundle
<1> QED
  BY <1>3, <1>4, <1>5, <1>6 DEF Inv, ControlInv

LEMMA SyncDirectoryKeeps ==
  ASSUME Inv, SyncDirectory
  PROVE  Inv'
<1>1. UNCHANGED <<disk, lvm, writes, job, up, faults>> /\ up = "boot" /\ lvm.step = "idle"
  BY DEF SyncDirectory, Inv, Typed, ControlInv, Phases
<1>2. rec'.step = "write" /\ rec'.plan = rec.plan
      /\ rec' \in [step : {"off", "preserve", "rename", "sync", "write"}, plan : Record, seen : Nat]
  BY DEF SyncDirectory, Inv, Typed
<1>3. DiskInv'
  BY <1>1, DiskKept DEF Inv
<1>4. Planned'
  BY <1>1, <1>2 DEF Planned, disk, Inv, ControlInv, SyncDirectory
<1>5. Typed'
  BY <1>1, <1>2 DEF Inv, Typed, CurOK, disk
<1>6. Phases'
  BY <1>1, <1>2 DEF Inv, ControlInv, Phases, disk, SyncDirectory
<1> QED
  BY <1>3, <1>4, <1>5, <1>6 DEF Inv, ControlInv

LEMMA RecoveryFailsKeeps ==
  ASSUME Inv, RecoveryFails
  PROVE  Inv'
<1>1. UNCHANGED <<disk, lvm, esp, writes, job, faults>> /\ up = "boot" /\ lvm.step = "idle"
      /\ rec' = IdleRec /\ up' = "guarded" /\ job.step = "idle"
  BY DEF RecoveryFails, Inv, Typed, ControlInv, Phases
<1>2. DiskInv'
  BY <1>1, DiskKept DEF Inv
<1>3. Typed'
  BY <1>1, IdleRecTyped DEF Inv, Typed, CurOK, disk
<1>4. ControlInv'
  BY <1>1, IdleRecTyped DEF Inv, ControlInv, Phases, Planned, disk
<1> QED
  BY <1>2, <1>3, <1>4 DEF Inv

LEMMA PvckKeeps ==
  ASSUME Inv, Pvck
  PROVE  Inv'
<1> DEFINE p == rec.plan
<1>1. /\ UNCHANGED <<areas, thin, lvm, esp, job, faults>> /\ up = "boot" /\ lvm.step = "idle" /\ areas = 1
      /\ job.step = "idle" /\ rec' = IdleRec /\ lvm.area # 2
  BY DEF Pvck, Inv, Typed, ControlInv, Phases
<1>2. /\ Sound(p, thin) /\ p.msg = NoMsg /\ p.tx = thin.tx /\ p \in Record /\ Pool(thin)
      /\ \A q \in ring : q.seq < p.seq /\ q.tx <= p.tx
  BY DEF Pvck, Inv, Typed, ControlInv, Planned, DiskInv, PoolInv
<1>3. CASE up' = "guarded" /\ UNCHANGED <<ring, cur, writes>>
  <2>1. DiskInv'
    BY <1>1, <1>3, DiskKept DEF Inv, disk
  <2>2. Typed'
    BY <1>1, <1>3, IdleRecTyped DEF Inv, Typed, CurOK
  <2>3. ControlInv'
    BY <1>1, <1>3, IdleRecTyped DEF Inv, ControlInv, Phases, Planned
  <2> QED
    BY <2>1, <2>2, <2>3 DEF Inv
<1>4. ASSUME NEW whole \in BOOLEAN, writes' = writes + 1, ring' = Appended(p),
             cur' = IF whole THEN [cur EXCEPT ![1] = [rec |-> p, ok |-> TRUE]] ELSE cur,
             up' = IF whole THEN up ELSE "guarded"
      PROVE  Inv'
  <2>1. CurOK' /\ Main' = (IF whole THEN p ELSE Main)
    BY <1>2, <1>4 DEF Inv, Typed, CurOK, Main
  <2>2. \A q \in ring' : q = p \/ (q \in ring /\ q.seq < p.seq)
    BY <1>1, <1>4 DEF Appended
  <2>3. ring' \in SUBSET Record
    BY <1>2, <2>2 DEF Inv, Typed
  <2>4. p.seq \in Nat /\ p.tx \in Nat /\ thin.tx \in Nat
        /\ Main \in Record /\ Main.tx \in {thin.tx, thin.tx + 1}
        /\ Main.seq \in Nat
    BY <1>2, MainFacts DEF Record
  <2>5. \A q \in ring' : q.tx \in Nat /\ q.seq \in Nat /\ q.tx <= p.tx /\ q.seq <= p.seq
    BY <1>2, <2>2, <2>3, <2>4 DEF Record
  <2>6. \A q \in ring' : Remembered(q)'
    <3> SUFFICES ASSUME NEW q \in ring' PROVE Remembered(q)'
      OBVIOUS
    <3>1. /\ UniqueIds(q.vols) /\ \A v \in q.vols : v.tx < q.tx
          /\ \A v \in q.vols, d \in thin.dev :
               v.id = d.id /\ v.tx = d.tx => v.name \in {d.owner, "recovered"}
      <4>1. CASE q = p
        BY <1>2, <4>1, SoundNames DEF Sound
      <4>2. CASE q \in ring
        BY <4>2 DEF Inv, DiskInv, History, Remembered
      <4> QED
        BY <2>2, <4>1, <4>2
    <3>2. q.tx <= thin.tx /\ q.tx \in Nat
      BY <1>2, <2>5
    <3>3. q.seq <= Main'.seq => q.tx <= Main'.tx
      BY <1>2, <2>1, <2>4, <3>2
    <3> QED
      BY <1>1, <2>4, <3>1, <3>2, <3>3 DEF Remembered
  <2>7. \A a, b \in ring' : b.seq <= a.seq => b.tx <= a.tx
    <3> SUFFICES ASSUME NEW a \in ring', NEW b \in ring', b.seq <= a.seq PROVE b.tx <= a.tx
      OBVIOUS
    <3>1. CASE a = p
      BY <2>5, <3>1
    <3>2. CASE a # p
      BY <2>2, <2>4, <2>5, <3>2 DEF Inv, DiskInv, History
    <3> QED
      BY <3>1, <3>2
  <2>8. History'
    BY <2>4, <2>5, <2>6, <2>7 DEF History
  <2>9. Sound(Main, thin)'
    BY <1>1, <1>2, <2>1 DEF Inv, DiskInv
  <2>10. DiskInv'
    BY <1>1, <2>8, <2>9 DEF Inv, DiskInv, Copies, Running, PoolInv, Ids
  <2>11. Typed'
    BY <1>1, <1>4, <2>1, <2>3, IdleRecTyped DEF Inv, Typed
  <2>12. Phases' /\ Planned'
    BY <1>1, <1>4, IdleRecTyped DEF Inv, ControlInv, Phases, Planned
  <2> QED
    BY <2>10, <2>11, <2>12 DEF Inv, ControlInv
<1> QED
  BY <1>3, <1>4 DEF Pvck

(* A step of the maintenance that writes nothing itself.                   *)
LEMMA JobStepKeeps ==
  ASSUME Inv, UNCHANGED <<disk, lvm, rec, up>>, areas = 2, up = "up",
         faults' \in [all : Nat, since : Nat]
  PROVE  Inv'
<1>1. DiskInv'
  BY DiskKept DEF Inv
<1>2. Typed'
  BY DEF Inv, Typed, CurOK, disk
<1>3. ControlInv'
  BY DEF Inv, ControlInv, Phases, Planned, disk
<1> QED
  BY <1>1, <1>2, <1>3 DEF Inv

LEMMA JobKeeps ==
  ASSUME Inv, StartJob \/ Inspect \/ VgckEnds \/ Verify
  PROVE  Inv'
<1>1. areas = 2 /\ up = "up"
  BY DEF StartJob, Inspect, VgckEnds, Verify, Inv, ControlInv, Phases
<1>2. UNCHANGED <<disk, lvm, rec, up>> /\ faults' \in {faults, [faults EXCEPT !.since = 0]}
  BY DEF StartJob, Inspect, VgckEnds, Verify, Report
<1> QED
  BY <1>1, <1>2, JobStepKeeps DEF Inv, Typed

LEMMA VgckKeeps ==
  ASSUME Inv, Vgck
  PROVE  Inv'
<1>1. areas = 2 /\ up = "up" /\ job.step = "vgck" /\ UNCHANGED <<disk, rec, esp, writes, up, faults>>
  BY DEF Vgck, Inv, ControlInv, Phases
<1>2. CASE lvm.step = "idle" /\ Readable /\ Command(Vg)
  <2>1. Vg = Main /\ Main.tx <= Main.tx
    BY <1>2, MainFacts
  <2>2. Sound(Main, thin)
    BY DEF Inv, DiskInv
  <2>3. /\ lvm' \in [step : {"idle", "text", "commit", "message"}, new : Record, area : {1, 2}]
        /\ DiskInv' /\ Phases' /\ Planned'
    BY <1>1, <1>2, <2>1, <2>2, Commanded
  <2>4. Typed'
    BY <1>1, <2>3 DEF disk, Inv, Typed, CurOK
  <2> QED
    BY <2>3, <2>4 DEF Inv, ControlInv
<1>3. CASE UNCHANGED lvm
  BY <1>1, <1>3, JobStepKeeps DEF Inv, Typed
<1> QED
  BY <1>2, <1>3 DEF Vgck

LEMMA PowerOnKeeps ==
  ASSUME Inv, PowerOn
  PROVE  Inv'
<1>1. DiskInv'
  BY DiskKept DEF Inv, PowerOn
<1>2. Typed'
  BY DEF PowerOn, Inv, Typed, CurOK, disk
<1>3. ControlInv'
  BY DEF PowerOn, Inv, ControlInv, Phases, Planned, disk
<1> QED
  BY <1>1, <1>2, <1>3 DEF Inv

LEMMA ActivateKeeps ==
  ASSUME Inv, Activate
  PROVE  Inv'
<1>1. /\ UNCHANGED <<disk, rec, esp, writes, job, faults>> /\ up = "boot" /\ rec.step = "off"
      /\ lvm.step = "idle" /\ job.step = "idle" /\ Vg = Main /\ Main \in Record /\ up' \in {"up", "guarded"}
  BY MainFacts DEF Activate, Inv, ControlInv, Phases
<1>2. \/ UNCHANGED lvm
      \/ Main.msg # NoMsg /\ lvm' = [step |-> "message", new |-> Main, area |-> 1]
  BY <1>1 DEF Activate
<1>3. /\ lvm' \in [step : {"idle", "text", "commit", "message"}, new : Record, area : {1, 2}]
      /\ lvm'.step # "text" /\ (lvm'.area = 2 => areas = 2)
  BY <1>1, <1>2 DEF Inv, Typed, ControlInv, Phases
<1>4. Running'
  BY <1>1, <1>2 DEF Running, Main, disk
<1>5. DiskInv'
  BY <1>1, <1>4 DEF Inv, DiskInv, disk, Copies, PoolInv, History, Remembered, Main, Ids
<1>6. Typed'
  BY <1>1, <1>3 DEF Inv, Typed, CurOK, disk
<1>7. ControlInv'
  BY <1>1, <1>3 DEF Inv, ControlInv, Phases, Planned, disk
<1> QED
  BY <1>5, <1>6, <1>7 DEF Inv

LEMMA PowerCutKeeps ==
  ASSUME Inv, PowerCut
  PROVE  Inv'
<1>1. UNCHANGED <<disk, faults>> /\ up' = "off" /\ lvm' = IdleLvm /\ rec' = IdleRec /\ job' = IdleJob
  BY DEF PowerCut
<1>2. IdleJob.step = "idle"
  BY DEF IdleJob
<1>3. DiskInv'
  BY <1>1, IdleRecTyped, DiskKept DEF Inv
<1>4. Typed'
  BY <1>1, IdleRecTyped DEF Inv, Typed, CurOK, disk
<1>5. ControlInv'
  BY <1>1, <1>2, IdleRecTyped DEF Inv, ControlInv, Phases, Planned, disk
<1> QED
  BY <1>3, <1>4, <1>5 DEF Inv

(* Damage leaves the copies as they are but for their checksums.           *)
LEMMA DamageKeeps ==
  ASSUME Inv, ~TornDamage, Damage
  PROVE  Inv'
<1>1. PICK i \in Area : /\ cur[i].ok /\ (areas = 1 \/ cur[1].rec = cur[2].rec)
                        /\ cur' = [cur EXCEPT ![i].ok = FALSE]
  BY DEF Damage
<1>2. /\ UNCHANGED <<areas, thin, lvm, rec, esp, writes, job, up>> /\ ring' \subseteq ring
      /\ faults' = [all |-> faults.all + 1, since |-> faults.since + 1] /\ areas \in {1, 2}
  BY DEF Damage, Inv, Typed
<1>3. i \in {1, 2}
  BY <1>2 DEF Area
<1>4. /\ CurOK' /\ cur'[1].rec = cur[1].rec /\ cur'[2].rec = cur[2].rec
      /\ \A j \in {1, 2} : j # i => cur'[j] = cur[j]
  BY <1>1, <1>3 DEF Inv, Typed, CurOK
<1>5. Main' = Main
  BY <1>4 DEF Main
<1>6. Copies'
  BY <1>1, <1>2, <1>4 DEF Copies
<1>7. History'
  BY <1>2, <1>5 DEF Inv, DiskInv, History, Remembered
<1>8. Running'
  BY <1>2, <1>5 DEF Inv, DiskInv, Running
<1>9. DiskInv'
  BY <1>2, <1>5, <1>6, <1>7, <1>8 DEF Inv, DiskInv, PoolInv, Ids
<1>10. Typed'
  BY <1>2, <1>4 DEF Inv, Typed
<1>11. ControlInv'
  BY <1>2 DEF Inv, ControlInv, Phases, Planned
<1> QED
  BY <1>9, <1>10, <1>11 DEF Inv

LEMMA Starts ==
  ASSUME Init
  PROVE  Inv
<1> DEFINE v1 == Volume(First, 1, 0, 1)
           v2 == Volume(Other, 2, 1, 1)
           v3 == Volume(Taken, 3, 2, 1)
<1>1. /\ v1 \in Vol /\ v1.id = 1 /\ v1.tx = 0 /\ v1.name = First /\ v1.size = 1
      /\ v2 \in Vol /\ v2.id = 2 /\ v2.tx = 1 /\ v2.name = Other /\ v2.size = 1
      /\ v3 \in Vol /\ v3.id = 3 /\ v3.tx = 2 /\ v3.name = Taken /\ v3.size = 1
  BY VolumeTyped, VgAssumption DEF Volume
<1>2. Record0 \in Record /\ Record0.vols = {v1, v2, v3} /\ Record0.tx = 3 /\ Record0.msg = NoMsg
      /\ Record0.seq = 1
  BY Record0Typed DEF Record0
<1> HIDE DEF v1, v2, v3
<1>3. /\ cur = [i \in 1..2 |-> [rec |-> Record0, ok |-> TRUE]] /\ 1..2 = {1, 2}
      /\ thin.tx = 3
      /\ thin.dev = {[id |-> v.id, tx |-> v.tx, owner |-> v.name, fs |-> 1] : v \in {v1, v2, v3}}
  BY <1>2 DEF Init
<1>4. CurOK /\ Main = Record0 /\ cur[1] = cur[2] /\ cur[1].ok
  BY <1>2, <1>3 DEF CurOK, Main
<1>5. /\ thin \in Thin /\ UniqueIds(thin.dev) /\ \A d \in thin.dev : d.tx < 3
      /\ \A d \in thin.dev : \E v \in {v1, v2, v3} : v.id = d.id
      /\ \A v \in {v1, v2, v3} : \E d \in thin.dev : v.id = d.id
  <2> DEFINE D(v) == [id |-> v.id, tx |-> v.tx, owner |-> v.name, fs |-> 1]
  <2>1. \A v \in Vol : D(v) \in Dev /\ D(v).id = v.id /\ D(v).tx = v.tx
    BY DEF Vol, Dev
  <2>2. thin.dev = {D(v1), D(v2), D(v3)}
    BY <1>3
  <2>3. thin = [tx |-> thin.tx, dev |-> thin.dev]
    BY DEF Init
  <2> HIDE DEF D
  <2> QED
    BY <1>1, <1>3, <2>1, <2>2, <2>3 DEF Thin, UniqueIds
<1>6. PoolInv
  <2>1. Ids \subseteq {1} \cup {2} \cup {3}
    BY <1>1, <1>3 DEF Ids
  <2>2. IsFiniteSet({1} \cup {2} \cup {3})
    BY FS_Singleton, FS_Union
  <2>3. IsFiniteSet(Ids)
    BY <2>1, <2>2, FS_Subset
  <2> QED
    BY <1>3, <1>5, <2>3 DEF PoolInv, Pool
<1>7. Sound(Record0, thin)
  <2>1. After(Record0, thin) = thin /\ ~Coming(Record0, thin)
    BY <1>2 DEF After, Coming
  <2>2. UniqueIds(Record0.vols) /\ \A v \in Record0.vols : v.tx < 3
    BY <1>1, <1>2 DEF UniqueIds
  <2>3. /\ \A d \in thin.dev : \E v \in Record0.vols : v.id = d.id
        /\ \A v \in Record0.vols : \E d \in thin.dev : v.id = d.id
    BY <1>2, <1>5
  <2>4. \A v \in Record0.vols, d \in thin.dev : v.id = d.id =>
          v.name \in {d.owner, "recovered"} /\ d.fs <= v.size
    BY <1>1, <1>2, <1>3
  <2> QED
    BY <1>2, <1>3, <2>1, <2>2, <2>3, <2>4 DEF Sound
<1>8. /\ areas \in {1, 2} /\ ring = (IF areas = 1 THEN {Record0} ELSE {}) /\ lvm = IdleLvm /\ rec = IdleRec
      /\ esp = "none" /\ writes = 0 /\ job = IdleJob /\ up = "off" /\ faults = [all |-> 0, since |-> 0]
  BY DEF Init
<1>9. History
  <2>1. \A q \in ring : q = Record0
    BY <1>8
  <2>2. Remembered(Record0)
    <3>1. \A v \in Record0.vols, d \in thin.dev : v.id = d.id => v.name \in {d.owner, "recovered"}
      BY <1>6, <1>7, SoundNames DEF PoolInv
    <3> QED
      BY <1>2, <1>3, <1>4, <1>7, <3>1 DEF Remembered, Sound
  <2> QED
    BY <1>2, <2>1, <2>2 DEF History
<1>10. DiskInv
  BY <1>4, <1>6, <1>7, <1>8, <1>9, IdleRecTyped DEF DiskInv, Copies, Running
<1>11. Typed
  BY <1>2, <1>4, <1>8, IdleRecTyped DEF Typed, IdleJob
<1>12. ControlInv
  BY <1>8, IdleRecTyped DEF ControlInv, Phases, Planned, IdleJob
<1> QED
  BY <1>10, <1>11, <1>12 DEF Inv

LEMMA Steps ==
  ASSUME ~TornDamage, Inv, [Next]_vars
  PROVE  Inv'
<1>1. CASE Next
  BY <1>1, CreateVolumeKeeps, RemoveVolumeKeeps, ExtendVolumeKeeps, GrowFsKeeps,
     LvmTextKeeps, LvmCommitKeeps, LvmMessageKeeps, RecoverKeeps, PreserveKeeps,
     RenameBundleKeeps, SyncDirectoryKeeps, PvckKeeps, RecoveryFailsKeeps, JobKeeps,
     VgckKeeps, PowerOnKeeps, ActivateKeeps, PowerCutKeeps, DamageKeeps DEF Next
<1>2. CASE UNCHANGED vars
  <2>1. DiskInv'
    BY <1>2, DiskKept DEF Inv, vars
  <2> QED
    BY <1>2, <2>1 DEF vars, disk, Inv, Typed, CurOK, ControlInv, Phases, Planned
<1> QED
  BY <1>1, <1>2

LEMMA Always ==
  ASSUME ~TornDamage
  PROVE  Spec => []Inv
<1>1. Init => Inv
  BY Starts
<1>2. Inv /\ [Next]_vars => Inv'
  BY Steps
<1> QED
  BY <1>1, <1>2, PTL DEF Spec

(* What LVM reads describes the pool (InSync), when damage does not hit the *)
(* newer of two copies that differ: with a second copy that is behind, LVM  *)
(* would read it (TornDamage, which the model excludes from the run too).   *)
THEOREM InSyncAlways ==
  ASSUME ~TornDamage
  PROVE  Spec => []InSync
<1>1. Inv => InSync
  BY MainFacts, SoundDescribes DEF InSync, Inv, DiskInv, PoolInv
<1> QED
  BY <1>1, Always, PTL

-----------------------------------------------------------------------------
(* The recovery writes only when the evidence is durable, and only once.    *)
Evidence ==
  /\ "step" \in DOMAIN rec /\ writes \in Nat
  /\ rec.step \in {"rename", "sync", "write"} => writes = 0
  /\ rec.step = "rename" => esp = "partial"
  /\ rec.step = "sync" => esp = "bundle"
  /\ rec.step = "write" => esp = "durable"

LEMMA EvidenceSteps ==
  ASSUME Evidence, EvidenceFirst, [Next]_vars
  PROVE  Evidence' /\ EvidenceFirst'
<1>1. CASE Recover
  BY <1>1 DEF Recover, Evidence, EvidenceFirst
<1>2. CASE Preserve
  BY <1>2 DEF Preserve, Evidence, EvidenceFirst, IdleRec
<1>3. CASE RenameBundle
  BY <1>3 DEF RenameBundle, Evidence, EvidenceFirst
<1>4. CASE SyncDirectory
  BY <1>4 DEF SyncDirectory, Evidence, EvidenceFirst
<1>5. CASE Pvck
  BY <1>5 DEF Pvck, Evidence, EvidenceFirst, IdleRec
<1>6. CASE RecoveryFails
  BY <1>6 DEF RecoveryFails, Evidence, EvidenceFirst, IdleRec
<1>7. CASE PowerCut
  BY <1>7 DEF PowerCut, Evidence, EvidenceFirst, IdleRec
<1>8. CASE UNCHANGED <<rec, esp, writes>>
  BY <1>8 DEF Evidence, EvidenceFirst
<1> QED
  BY <1>1, <1>2, <1>3, <1>4, <1>5, <1>6, <1>7, <1>8 DEF Next, vars, CreateVolume, RemoveVolume,
     ExtendVolume, Others, GrowFs, LvmText, LvmCommit, LvmMessage, StartJob, Inspect, Vgck,
     VgckEnds, Verify, PowerOn, Activate, Damage

(* History is put back at most once and never before the damaged original   *)
(* is durable on the ESP (preserve of vg_recovery.py).                      *)
THEOREM EvidenceIsFirst == Spec => []EvidenceFirst
<1>1. Init => Evidence /\ EvidenceFirst
  BY DEF Init, IdleRec, Evidence, EvidenceFirst
<1>2. Evidence /\ EvidenceFirst /\ [Next]_vars => Evidence' /\ EvidenceFirst'
  BY EvidenceSteps
<1> QED
  BY <1>1, <1>2, PTL DEF Spec

-----------------------------------------------------------------------------
(* Only damage takes a right checksum away, and a report of two good copies *)
(* is given only when both are read as good.                                *)
Job == [step : {"idle", "inspect", "vgck", "wait", "verify", "done"}, try : Nat,
        saw : BOOLEAN, rc : {0, 1},
        out : {"none", "healthy", "repaired", "deferred", "degraded"}]

TrustInv ==
  /\ areas \in {1, 2} /\ DOMAIN cur = {1, 2} /\ job \in Job /\ faults \in [all : Nat, since : Nat]
  /\ job.step # "idle" => areas = 2
  /\ job.out \in {"healthy", "repaired"} =>
       /\ areas = 2
       /\ faults.since = 0 => cur[1].ok /\ cur[2].ok
       /\ faults.since <= 1 => cur[1].ok \/ cur[2].ok

LEMMA HarmlessTrusts ==
  ASSUME TrustInv, UNCHANGED <<areas, job, faults>>, DOMAIN cur' = {1, 2},
         \A i \in {1, 2} : cur[i].ok => cur'[i].ok
  PROVE  TrustInv'
BY DEF TrustInv

LEMMA JobStepTrusts ==
  ASSUME TrustInv, UNCHANGED <<areas, cur>>, areas = 2, job' \in Job,
         \/ UNCHANGED faults /\ (job'.out \in {"healthy", "repaired"} => job'.out = job.out)
         \/ /\ faults' = [faults EXCEPT !.since = 0]
            /\ job'.out \in {"healthy", "repaired"} => cur[1].ok /\ cur[2].ok
  PROVE  TrustInv'
<1>1. CASE UNCHANGED faults /\ (job'.out \in {"healthy", "repaired"} => job'.out = job.out)
  BY <1>1 DEF TrustInv
<1>2. CASE /\ faults' = [faults EXCEPT !.since = 0]
           /\ job'.out \in {"healthy", "repaired"} => cur[1].ok /\ cur[2].ok
  BY <1>2 DEF TrustInv
<1> QED
  BY <1>1, <1>2

LEMMA BothGood ==
  ASSUME areas = 2, ~Refused, ~Damaged
  PROVE  cur[1].ok /\ cur[2].ok
<1>1. Area = {1, 2}
  BY DEF Area
<1>2. Valid \subseteq {1, 2} /\ Valid # {}
  BY <1>1 DEF Refused, Valid
<1>3. Valid # {1} /\ Valid # {2}
  BY FS_Singleton DEF Damaged
<1>4. 1 \in Valid /\ 2 \in Valid
  BY <1>2, <1>3
<1> QED
  BY <1>4 DEF Valid

LEMMA InspectTrusts ==
  ASSUME TrustInv, Inspect
  PROVE  TrustInv'
<1>1. job \in Job /\ areas = 2 /\ job.step = "inspect" /\ UNCHANGED <<areas, cur>>
  BY DEF Inspect, TrustInv, disk
<1>2. CASE ~Refused /\ ~Damaged /\ Report(IF job.saw THEN "repaired" ELSE "healthy")
  <2>1. cur[1].ok /\ cur[2].ok
    BY <1>1, <1>2, BothGood
  <2>2. job' \in Job /\ faults' = [faults EXCEPT !.since = 0]
    BY <1>1, <1>2 DEF Report, Job
  <2> QED
    BY <1>1, <2>1, <2>2, JobStepTrusts
<1>3. CASE job' = [job EXCEPT !.step = "vgck", !.saw = TRUE] /\ UNCHANGED faults
  <2>1. job' \in Job /\ job'.out = job.out
    BY <1>1, <1>3 DEF Job
  <2> QED
    BY <1>1, <1>3, <2>1, JobStepTrusts
<1>4. CASE Report("deferred")
  <2>1. job' \in Job /\ job'.out = "deferred" /\ faults' = [faults EXCEPT !.since = 0]
    BY <1>1, <1>4 DEF Report, Job
  <2> QED
    BY <1>1, <2>1, JobStepTrusts
<1>5. CASE Retry("deferred") /\ UNCHANGED faults
  <2>1. job' \in Job /\ job'.out \in {job.out, "deferred"}
    <3>1. job.try + 1 \in Nat
      BY <1>1 DEF Job
    <3>2. CASE job.try < 3
      BY <1>1, <1>5, <3>1, <3>2 DEF Retry, Job
    <3>3. CASE ~(job.try < 3)
      BY <1>1, <1>5, <3>3 DEF Retry, Job
    <3> QED
      BY <3>2, <3>3
  <2> QED
    BY <1>1, <1>5, <2>1, JobStepTrusts
<1> QED
  BY <1>2, <1>3, <1>4, <1>5 DEF Inspect

LEMMA VerifyTrusts ==
  ASSUME TrustInv, Verify
  PROVE  TrustInv'
<1>1. job \in Job /\ areas = 2 /\ job.step = "verify" /\ UNCHANGED <<areas, cur>>
  BY DEF Verify, TrustInv, disk
<1>2. CASE ~Refused /\ ~Damaged /\ Report("repaired")
  <2>1. cur[1].ok /\ cur[2].ok
    BY <1>1, <1>2, BothGood
  <2>2. job' \in Job /\ faults' = [faults EXCEPT !.since = 0]
    BY <1>1, <1>2 DEF Report, Job
  <2> QED
    BY <1>1, <2>1, <2>2, JobStepTrusts
<1>3. CASE Report("deferred")
  <2>1. job' \in Job /\ job'.out = "deferred" /\ faults' = [faults EXCEPT !.since = 0]
    BY <1>1, <1>3 DEF Report, Job
  <2> QED
    BY <1>1, <2>1, JobStepTrusts
<1>4. CASE Retry("degraded") /\ UNCHANGED faults
  <2>1. job' \in Job /\ job'.out \in {job.out, "degraded"}
    <3>1. job.try + 1 \in Nat
      BY <1>1 DEF Job
    <3>2. CASE job.try < 3
      BY <1>1, <1>4, <3>1, <3>2 DEF Retry, Job
    <3>3. CASE ~(job.try < 3)
      BY <1>1, <1>4, <3>3 DEF Retry, Job
    <3> QED
      BY <3>2, <3>3
  <2> QED
    BY <1>1, <1>4, <2>1, JobStepTrusts
<1> QED
  BY <1>2, <1>3, <1>4 DEF Verify

LEMMA DamageTrusts ==
  ASSUME TrustInv, Damage
  PROVE  TrustInv'
<1>1. PICK i \in Area : cur' = [cur EXCEPT ![i].ok = FALSE]
  BY DEF Damage
<1>2. /\ UNCHANGED <<areas, job>> /\ i \in {1, 2}
      /\ faults' = [all |-> faults.all + 1, since |-> faults.since + 1]
  BY DEF Damage, TrustInv, Area
<1>3. DOMAIN cur' = {1, 2} /\ \A j \in {1, 2} : j # i => cur'[j] = cur[j]
  BY <1>1, <1>2 DEF TrustInv
<1>4. faults' \in [all : Nat, since : Nat] /\ faults'.since # 0
      /\ (faults'.since <= 1 => faults.since = 0)
  BY <1>2 DEF TrustInv
<1> QED
  BY <1>2, <1>3, <1>4 DEF TrustInv

LEMMA TrustSteps ==
  ASSUME TrustInv, [Next]_vars
  PROVE  TrustInv'
<1>1. CASE UNCHANGED <<areas, cur, job, faults>>
  BY <1>1, HarmlessTrusts DEF TrustInv
<1>2. CASE LvmCommit
  <2>1. DOMAIN cur' = {1, 2} /\ \A i \in {1, 2} : cur[i].ok => cur'[i].ok
    BY <1>2 DEF LvmCommit, TrustInv
  <2> QED
    BY <1>2, <2>1, HarmlessTrusts DEF LvmCommit
<1>3. CASE Pvck
  <2>1. DOMAIN cur' = {1, 2} /\ \A i \in {1, 2} : cur[i].ok => cur'[i].ok
    BY <1>3 DEF Pvck, TrustInv
  <2> QED
    BY <1>3, <2>1, HarmlessTrusts DEF Pvck
<1>4. CASE StartJob
  <2>1. job' \in Job /\ job'.out = "none"
    BY <1>4 DEF StartJob, IdleJob, Job
  <2> QED
    BY <1>4, <2>1, JobStepTrusts DEF StartJob, disk
<1>5. CASE Inspect
  BY <1>5, InspectTrusts
<1>6. CASE Vgck \/ VgckEnds
  <2>1. areas = 2 /\ UNCHANGED <<areas, cur, faults>>
    BY <1>6 DEF Vgck, VgckEnds, TrustInv, disk
  <2>2. job' \in Job /\ job'.out = job.out
    <3>1. PICK rc \in {0, 1} : \/ job' = [job EXCEPT !.step = "wait"]
                               \/ job' = [job EXCEPT !.step = "verify", !.rc = rc]
      BY <1>6 DEF Vgck, VgckEnds
    <3> QED
      BY <3>1 DEF TrustInv, Job
  <2> QED
    BY <2>1, <2>2, JobStepTrusts
<1>7. CASE Verify
  BY <1>7, VerifyTrusts
<1>8. CASE PowerCut
  BY <1>8 DEF PowerCut, IdleJob, Job, disk, TrustInv
<1>9. CASE Damage
  BY <1>9, DamageTrusts
<1> QED
  BY <1>1, <1>2, <1>3, <1>4, <1>5, <1>6, <1>7, <1>8, <1>9 DEF Next, vars, disk, CreateVolume,
     RemoveVolume, ExtendVolume, Others, GrowFs, LvmText, LvmMessage, Recover, Preserve,
     RenameBundle, SyncDirectory, RecoveryFails, PowerOn, Activate

(* After a report of two good copies one more damage leaves the group       *)
(* readable (recover of pv_redundancy.py).                                  *)
THEOREM RepairSurvives == Spec => []RepairSurvivesFault
<1>1. Init => TrustInv
  BY DEF Init, IdleJob, TrustInv, Job
<1>2. TrustInv /\ [Next]_vars => TrustInv'
  BY TrustSteps
<1>3. TrustInv => RepairSurvivesFault
  BY DEF TrustInv, RepairSurvivesFault, Readable, Area
<1> QED
  BY <1>1, <1>2, <1>3, PTL DEF Spec
=============================================================================
