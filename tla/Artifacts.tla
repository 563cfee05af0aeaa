------------------------------ MODULE Artifacts ------------------------------
(***************************************************************************)
(* The store of digest-pinned artifacts: admission, mounting, provider     *)
(* activation and garbage collection (artifacts.py).                       *)
(*                                                                         *)
(* Every `reefy-artifacts prepare` is a process of its own, and several    *)
(* run at once beside `activate-cached` at boot.  They meet in file locks: *)
(* garbage-collection (shared by preparations), one per manifest, two      *)
(* transfer slots, one per blob, one per provider and host-activation.     *)
(* A lock is held exactly in the stages listed for it, so a killed process *)
(* lets go of all of them.                                                 *)
(***************************************************************************)
EXTENDS Naturals, FiniteSets, Sequences, SequencesExt

CONSTANTS
  Process,     \* reefy-artifacts processes that may run at once
  Artifact,    \* manifest digests
  Desirable,   \* the sets of digests a desired state may name
  Layers,      \* [Artifact -> SUBSET blob digests]
  Identity,    \* [Artifact -> kind/name/architecture]
  HostExt,     \* the artifacts of kind host-extension
  Parallel,    \* those whose activation hook is a known one
  Builds,      \* firmware builds that may run
  Build,       \* [HostExt -> the build it was made for]
  Retain,      \* recent versions kept per identity (3)
  Slots,       \* concurrent transfers (2)
  MaxFaults    \* bound on failures, kills and reboots together

ASSUME ArtifactsAssumption ==
  /\ HostExt \subseteq Artifact /\ Parallel \subseteq HostExt
  /\ "none" \notin Artifact
  /\ Retain \in Nat /\ Slots \in Nat \ {0}

VARIABLES
  desired,    \* digests named by desired-state-v2.json
  stage, art, \* [Process -> where it is], [Process -> what it prepares]
  cached,     \* processes of activate-cached: they never download
  todo,       \* [Process -> blobs to fetch, layers to mount, or digests to drop]
  retained,   \* [Process -> what its collection keeps]
  \* on disk
  manifest,   \* admitted digests
  recent,     \* the leases, oldest first
  blob,       \* blobs in the store
  \* of this boot
  build, mounted, active,
  \* what really happened, for the properties
  ready,      \* digests a preparation has leased, desired ever since
  hooked,     \* host extensions whose hook completed in this boot
  cut,        \* providers whose process died between the hook and its record
  faults      \* failures, kills and reboots so far

local == <<stage, art, cached, todo, retained>>
disk == <<manifest, recent, blob>>
boot == <<build, mounted, active>>
history == <<ready, hooked, cut>>
vars == <<desired, local, disk, boot, history, faults>>

NoArtifact == "none"
Name == {Identity[a] : a \in HostExt}
Blob == UNION {Layers[a] : a \in Artifact}

\* Two manifests that differ only in outer metadata.
SamePayload(a, b) == Identity[a] = Identity[b] /\ Layers[a] = Layers[b]
                       /\ Build[a] = Build[b]

-----------------------------------------------------------------------------
\* The locks, as the stages that hold them

Preparing == {"slot", "fetch", "mount", "hook", "hooked", "lease"}
Collecting == {"drop"}

InStage(set) == {p \in Process : stage[p] \in set}
Others(p, set) == InStage(set) \ {p}

MayPrepareUnlocked(p) == \A q \in Others(p, Preparing) : art[q] # art[p]
MayPrepare(p) ==
  /\ Others(p, Collecting) = {}
  /\ \A q \in Others(p, Preparing) : art[q] # art[p]
MayCollectBeside(p) == Others(p, Collecting) = {}
MayCollect(p) == Others(p, Collecting \cup Preparing) = {}
MayTransfer(p) == Cardinality(Others(p, {"fetch"})) < Slots
\* Provider processes of one name take turns; so do unknown hooks and all.
MayActivate(p) ==
  \A q \in Others(p, {"hook", "hooked"}) :
    Identity[art[q]] # Identity[art[p]]
MayHook(p) ==
  \A q \in Others(p, {"hook"}) : {art[p], art[q]} \subseteq Parallel

\* The values the variables take.
TypeOK ==
  /\ desired \cup manifest \cup ready \subseteq Artifact
  /\ stage \in [Process -> {"idle", "wait"} \cup Preparing \cup {"collect"} \cup Collecting]
  /\ art \in [Process -> Artifact \cup {NoArtifact}] /\ cached \subseteq Process
  /\ \A p \in Process : /\ todo[p] \subseteq Artifact \cup Blob
                        /\ retained[p] \subseteq Artifact \cup {NoArtifact}
  /\ recent \in Seq(Artifact) /\ blob \subseteq Blob /\ build \in Builds
  /\ mounted \subseteq Artifact \X Blob /\ active \in [Name -> HostExt \cup {NoArtifact}]
  /\ hooked \subseteq HostExt /\ cut \subseteq Name /\ faults \in 0..MaxFaults

-----------------------------------------------------------------------------
Init ==
  /\ desired = {} /\ stage = [p \in Process |-> "idle"]
  /\ art = [p \in Process |-> NoArtifact] /\ cached = {}
  /\ todo = [p \in Process |-> {}] /\ retained = [p \in Process |-> {}]
  /\ manifest = {} /\ recent = <<>> /\ blob = {}
  /\ build \in Builds /\ mounted = {} /\ active = [n \in Name |-> NoArtifact]
  /\ ready = {} /\ hooked = {} /\ cut = {}
  /\ faults = 0

Go(p, s) == stage' = [stage EXCEPT ![p] = s]
Todo(p, set) == todo' = [todo EXCEPT ![p] = set]
Idle(p) == /\ Go(p, "idle") /\ Todo(p, {}) /\ art' = [art EXCEPT ![p] = NoArtifact]
           /\ cached' = cached \ {p} /\ retained' = [retained EXCEPT ![p] = {}]
Fault == faults < MaxFaults /\ faults' = faults + 1

\* The data plane saves a desired state before it prepares anything for it.
Desire(set) ==
  /\ desired' = set /\ ready' = ready \cap set
  /\ UNCHANGED <<local, disk, boot, hooked, cut, faults>>

\* prepare --ref a, or one request of activate-cached
Start(p, a) ==
  /\ stage[p] = "idle" /\ a \in desired
  /\ Go(p, "wait") /\ art' = [art EXCEPT ![p] = a]
  /\ \/ cached' = cached \cup {p} \/ UNCHANGED cached
  /\ UNCHANGED <<desired, todo, retained, disk, boot, history, faults>>

\* Admission lasts, compatibility is of this boot.
Compatible(a) == a \in HostExt => Build[a] = build
CompatibleOnce(a) == TRUE
CompatibleNow(a) == Compatible(a)

\* An admitted artifact is used as it is; activate-cached ends here otherwise.
Enter(p) ==
  /\ stage[p] = "wait" /\ MayPrepare(p)
  /\ LET a == art[p] IN
       \/ /\ a \in manifest /\ CompatibleNow(a)
          /\ Go(p, "mount") /\ Todo(p, Layers[a])
          /\ UNCHANGED <<art, cached, retained>>
       \/ /\ a \notin manifest /\ p \notin cached
          /\ Go(p, "slot") /\ UNCHANGED <<art, cached, todo, retained>>
       \/ /\ IF a \in manifest THEN ~CompatibleNow(a) ELSE p \in cached
          /\ Idle(p)
  /\ UNCHANGED <<desired, disk, boot, history, faults>>

TakeSlot(p) ==
  /\ stage[p] = "slot" /\ MayTransfer(p)
  /\ IF Compatible(art[p])
     THEN /\ Go(p, "fetch") /\ Todo(p, Layers[art[p]])
          /\ UNCHANGED <<art, cached, retained>>
     ELSE Idle(p)
  /\ UNCHANGED <<desired, disk, boot, history, faults>>

\* One layer: kept when its bytes are valid, else downloaded and verified.
Fetch(p) ==
  /\ stage[p] = "fetch" /\ todo[p] # {}
  /\ LET b == CHOOSE x \in todo[p] : TRUE IN
       \/ /\ blob' = blob \cup {b} /\ Todo(p, todo[p] \ {b})
          /\ UNCHANGED <<stage, art, cached, retained, faults>>
       \/ b \notin blob /\ Fault /\ Idle(p) /\ UNCHANGED blob
  /\ UNCHANGED <<desired, manifest, recent, boot, history>>

Admit(p) ==
  /\ stage[p] = "fetch" /\ todo[p] = {}
  /\ manifest' = manifest \cup {art[p]}
  /\ Go(p, "mount") /\ Todo(p, Layers[art[p]])
  /\ UNCHANGED <<desired, art, cached, retained, recent, blob, boot,
                 history, faults>>

\* A layer already mounted is left alone; a missing blob cannot be mounted.
MountLayer(p) ==
  /\ stage[p] = "mount" /\ todo[p] # {}
  /\ LET b == CHOOSE x \in todo[p] : TRUE IN
       IF <<art[p], b>> \in mounted \/ b \in blob
       THEN /\ mounted' = mounted \cup {<<art[p], b>>}
            /\ Todo(p, todo[p] \ {b}) /\ UNCHANGED <<stage, art, cached, retained>>
       ELSE Idle(p) /\ UNCHANGED mounted
  /\ UNCHANGED <<desired, disk, build, active, history, faults>>

\* One payload per provider and boot: the same one is done already, another
\* has to wait for a reboot.
AlreadyActive(a) ==
  LET now == active[Identity[a]]
  IN  now = a \/ (now # NoArtifact /\ now \in manifest /\ SamePayload(now, a))
BusyIfAdmitted(a) == active[Identity[a]] \in desired
Busy(a) == active[Identity[a]] # NoArtifact
Activate(p) ==
  /\ stage[p] = "mount" /\ todo[p] = {}
  /\ art[p] \in HostExt => MayActivate(p)
  /\ \/ /\ (art[p] \notin HostExt \/ AlreadyActive(art[p])) /\ Go(p, "lease")
        /\ UNCHANGED <<art, cached, todo, retained>>
     \/ /\ art[p] \in HostExt /\ ~AlreadyActive(art[p]) /\ Busy(art[p])
        /\ Idle(p)
     \/ /\ art[p] \in HostExt /\ ~Busy(art[p]) /\ MayHook(p) /\ Go(p, "hook")
        /\ UNCHANGED <<art, cached, todo, retained>>
  /\ UNCHANGED <<desired, disk, boot, history, faults>>

Hook(p) ==
  /\ stage[p] = "hook"
  /\ \/ /\ hooked' = hooked \cup {art[p]} /\ Go(p, "hooked")
        /\ UNCHANGED <<art, cached, todo, retained, faults>>
     \/ Fault /\ Idle(p) /\ UNCHANGED hooked
  /\ UNCHANGED <<desired, disk, boot, ready, cut>>

RecordActive(p) ==
  /\ stage[p] = "hooked" /\ Go(p, "lease")
  /\ active' = [active EXCEPT ![Identity[art[p]]] = art[p]]
  /\ UNCHANGED <<desired, art, cached, todo, retained, disk, build, mounted,
                 history, faults>>

\* The lease makes it the most recent; what is reported ready got this far.
Lease(p) ==
  /\ stage[p] = "lease" /\ Go(p, "collect")
  /\ recent' = Append(SelectSeq(recent, LAMBDA a : a # art[p]), art[p])
  /\ ready' = ready \cup ({art[p]} \cap desired)
  /\ art' = [art EXCEPT ![p] = NoArtifact] /\ cached' = cached \ {p}
  /\ UNCHANGED <<desired, todo, retained, manifest, blob, boot,
                 hooked, cut, faults>>

-----------------------------------------------------------------------------
\* Garbage collection, after every preparation

Protected == desired \cup {active[n] : n \in Name}

\* Position in the leases; an artifact without one counts as oldest.
Rank(a) == IF Contains(recent, a)
           THEN CHOOSE i \in DOMAIN recent : recent[i] = a ELSE 0
Newest(a) ==
  Cardinality({b \in manifest : Identity[b] = Identity[a] /\ Rank(b) > Rank(a)})
    < Retain

Collect(p) ==
  /\ stage[p] = "collect" /\ MayCollect(p)
  /\ LET keep == Protected \cup {a \in manifest : Newest(a)} IN
       /\ retained' = [retained EXCEPT ![p] = keep]
       /\ Todo(p, manifest \ keep)
  /\ Go(p, "drop")
  /\ UNCHANGED <<desired, art, cached, disk, boot, history, faults>>

\* Unmount, then forget the manifest and its lease.  A failed unmount ends
\* the collection.  The preparation is then reported a success, or, if umount
\* timed out, a failure; either way what it made stays.
Drop(p) ==
  /\ stage[p] = "drop" /\ todo[p] # {}
  /\ \E a \in todo[p] :
       \/ /\ mounted' = {m \in mounted : m[1] # a}
          /\ manifest' = manifest \ {a}
          /\ recent' = SelectSeq(recent, LAMBDA b : b # a)
          /\ Todo(p, todo[p] \ {a})
          /\ UNCHANGED <<stage, art, cached, retained, faults>>
       \/ /\ Fault /\ Idle(p)
          /\ \E part \in SUBSET {m \in mounted : m[1] = a} :
               mounted' = mounted \ part
          /\ UNCHANGED <<manifest, recent>>
  /\ UNCHANGED <<desired, blob, build, active, history>>

\* Blobs no retained manifest refers to, partial downloads among them.
Referenced(p) == UNION {Layers[a] : a \in manifest \cap retained[p]}
Sweep(p) ==
  /\ stage[p] = "drop" /\ todo[p] = {}
  /\ \E kept \in SUBSET (blob \ Referenced(p)) :    \* removals that failed
       /\ kept # {} => faults < MaxFaults
       /\ faults' = IF kept = {} THEN faults ELSE faults + 1
       /\ blob' = (blob \cap Referenced(p)) \cup kept
  /\ Idle(p)
  /\ UNCHANGED <<desired, manifest, recent, boot, history>>

-----------------------------------------------------------------------------
\* The data plane restarts and takes its children with it.
Kill(p) ==
  /\ stage[p] # "idle" /\ Fault
  /\ cut' = IF stage[p] = "hooked" THEN cut \cup {Identity[art[p]]} ELSE cut
  /\ Idle(p)
  /\ UNCHANGED <<desired, disk, boot, ready, hooked>>

\* A reboot, perhaps into the other slot: mounts and records in /run go.
Reboot ==
  /\ Fault /\ build' \in Builds
  /\ mounted' = {} /\ active' = [n \in Name |-> NoArtifact]
  /\ ready' = {} /\ hooked' = {} /\ cut' = {}
  /\ stage' = [p \in Process |-> "idle"] /\ cached' = {}
  /\ art' = [p \in Process |-> NoArtifact]
  /\ todo' = [p \in Process |-> {}] /\ retained' = [p \in Process |-> {}]
  /\ UNCHANGED <<desired, disk>>

Step(p) ==
  \/ \E a \in Artifact : Start(p, a)
  \/ Enter(p) \/ TakeSlot(p) \/ Fetch(p) \/ Admit(p)
  \/ MountLayer(p) \/ Activate(p) \/ Hook(p)
  \/ RecordActive(p) \/ Lease(p) \/ Collect(p) \/ Drop(p) \/ Sweep(p) \/ Kill(p)

Next ==
  \/ \E set \in Desirable : Desire(set)
  \/ \E p \in Process : Step(p)
  \/ Reboot

Spec == Init /\ [][Next]_vars

-----------------------------------------------------------------------------
\* Properties

\* What a preparation has leased, and so all that is reported ready, stays
\* whole for as long as the desired state names it: admitted, every layer
\* mounted, every blob in the store, whatever other preparations and
\* collections do meanwhile (prepare, gc).
ReadyStaysWhole ==
  \A a \in ready : /\ a \in manifest /\ Layers[a] \subseteq blob
                   /\ \A b \in Layers[a] : <<a, b>> \in mounted

\* An admitted manifest never outlives its blobs, across kills and reboots:
\* the next boot mounts it without looking at them again (_mount).
AdmittedHasBlobs == \A a \in manifest : Layers[a] \subseteq blob

\* One payload per provider and boot: no second hook runs over the modules
\* of the first, unless the record of the first was cut off (_activate).
OneProviderPerBoot ==
  \A a, b \in hooked :
    Identity[a] = Identity[b] /\ Identity[a] \notin cut => SamePayload(a, b)

\* Whatever was activated was made for the build that runs, also when the
\* other slot's artifact is cached and asked for (prepare, _validate_config).
HookedFitsBoot == \A a \in hooked : Build[a] = build
=============================================================================
