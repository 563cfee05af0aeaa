-------------------------- MODULE Artifacts_proofs --------------------------
(***************************************************************************)
(* Proofs about the artifact store, for any number of processes, artifacts,*)
(* layers, builds, transfer slots, retained versions and faults.           *)
(***************************************************************************)
EXTENDS Artifacts, TLAPS

-----------------------------------------------------------------------------
(* The locks.  A collection that has begun is alone with the store, and    *)
(* two providers of one name are never activated at once.                  *)

CollectsAlone ==
  \A p \in Process : stage[p] \in Collecting =>
    \A q \in Process \ {p} : stage[q] \notin Preparing \cup Collecting

ActivatesAlone ==
  \A p, q \in InStage({"hook", "hooked"}) :
    Identity[art[p]] = Identity[art[q]] => p = q

(* What a preparation has done so far.                                     *)

FetchedSoFar ==
  \A p \in InStage({"fetch"}) : Layers[art[p]] \ todo[p] \subseteq blob

MountedSoFar ==
  \A p \in InStage({"mount", "hook", "hooked", "lease"}) :
    /\ art[p] \in manifest
    /\ \A b \in Layers[art[p]] :
         (stage[p] = "mount" /\ b \in todo[p]) \/ <<art[p], b>> \in mounted

FitsSoFar ==
  \A p \in InStage({"fetch", "mount", "hook"}) : Compatible(art[p])

(* A provider is activated while it has no record; what was hooked is      *)
(* recorded, or about to be, or its process was cut off.                   *)
HooksUnrecorded ==
  \A p \in InStage({"hook", "hooked"}) :
    art[p] \in HostExt /\ active[Identity[art[p]]] = NoArtifact

HookedRecorded ==
  \A a \in hooked : Identity[a] \notin cut =>
    \/ active[Identity[a]] = a
    \/ \E p \in InStage({"hooked"}) : art[p] = a

(* What a collection leaves: nothing it drops is ready, and every manifest *)
(* it does not drop is retained.                                           *)
DropsUnready ==
  \A p \in InStage(Collecting) :
    /\ todo[p] \cap ready = {}
    /\ manifest \subseteq retained[p] \cup todo[p]

Shapes ==
  /\ stage \in [Process -> {"idle", "wait"} \cup Preparing \cup {"collect"} \cup Collecting]
  /\ art \in [Process -> Artifact \cup {NoArtifact}]
  /\ \A p \in Process : stage[p] \in Preparing \cup {"wait"} => art[p] \in Artifact
  /\ DOMAIN todo = Process /\ DOMAIN retained = Process
  /\ DOMAIN active = Name
  /\ hooked \subseteq HostExt /\ ready \subseteq desired

(* The parts of the inductive invariant.                                   *)
Locks      == CollectsAlone /\ ActivatesAlone
Progress   == FetchedSoFar /\ MountedSoFar /\ FitsSoFar
Providers  == HooksUnrecorded /\ HookedRecorded /\ HookedFitsBoot
StoreWhole == DropsUnready /\ ReadyStaysWhole /\ AdmittedHasBlobs

Inv == Shapes /\ Locks /\ Progress /\ Providers /\ StoreWhole

LEMMA InitInv == Init => Inv
<1>. SUFFICES ASSUME Init PROVE Inv
  OBVIOUS
<1>1. \A p \in Process : stage[p] = "idle"
  BY DEF Init
<1>2. Shapes
  BY <1>1 DEF Init, Shapes, Preparing
<1>3. Locks /\ Progress
  BY <1>1 DEF Locks, CollectsAlone, ActivatesAlone, Progress, FetchedSoFar, MountedSoFar,
              FitsSoFar, InStage, Collecting
<1>4. Providers /\ StoreWhole
  BY <1>1 DEF Init, Providers, HooksUnrecorded, HookedRecorded, HookedFitsBoot,
              StoreWhole, DropsUnready, ReadyStaysWhole, AdmittedHasBlobs, InStage, Collecting
<1>5. QED
  BY <1>2, <1>3, <1>4 DEF Inv

-----------------------------------------------------------------------------
(* Every step keeps the invariant.                                         *)

LEMMA StartKeeps == ASSUME Inv, NEW p \in Process, NEW x \in Artifact, Start(p, x) PROVE Inv'
<1>1. Shapes'
  BY DEF Inv, Shapes, Go, Start, boot, history
<1>2. Locks'
  BY DEF Inv, InStage, Preparing, Collecting, Go, Locks, CollectsAlone, ActivatesAlone,
     Start
<1>3. Progress'
  BY DEF Inv, InStage, Go, Progress, FetchedSoFar, MountedSoFar, FitsSoFar, Compatible,
     Start, disk, boot
<1>4. Providers'
  BY DEF Inv, InStage, Go, Providers, HooksUnrecorded, HookedRecorded, HookedFitsBoot,
     Start, boot, history
<1>5. StoreWhole'
  BY DEF Inv, InStage, Collecting, Go, StoreWhole, DropsUnready, ReadyStaysWhole,
     AdmittedHasBlobs, Start, disk, boot, history
<1>6. QED
  BY <1>1, <1>2, <1>3, <1>4, <1>5 DEF Inv

LEMMA EnterKeeps == ASSUME Inv, NEW p \in Process, Enter(p) PROVE Inv'
<1>1. Shapes'
  BY DEF Inv, Shapes, Preparing, Go, Todo, Idle, Enter, boot, history
<1>2. Locks'
  BY DEF Inv, Shapes, InStage, Collecting, Go, Idle, Locks, CollectsAlone,
     ActivatesAlone, MayPrepare, Others, Enter
<1>3. Progress'
  BY DEF Inv, Shapes, InStage, Go, Todo, Idle, Progress, FetchedSoFar, MountedSoFar,
     FitsSoFar, Compatible, CompatibleNow, Enter, disk, boot
<1>4. Providers'
  BY DEF Inv, Shapes, InStage, Go, Idle, Providers, HooksUnrecorded, HookedRecorded,
     HookedFitsBoot, Enter, boot, history
<1>5. StoreWhole'
  BY DEF Inv, Shapes, InStage, Collecting, Go, Todo, Idle, StoreWhole, DropsUnready,
     ReadyStaysWhole, AdmittedHasBlobs, Enter, disk, boot, history
<1>6. QED
  BY <1>1, <1>2, <1>3, <1>4, <1>5 DEF Inv

LEMMA TakeSlotKeeps == ASSUME Inv, NEW p \in Process, TakeSlot(p) PROVE Inv'
<1>1. Shapes'
  BY DEF Inv, Shapes, Preparing, Go, Todo, Idle, TakeSlot, boot, history
<1>2. Locks'
  BY DEF Inv, Shapes, InStage, Collecting, Go, Idle, Locks, CollectsAlone,
     ActivatesAlone, TakeSlot
<1>3. Progress'
  BY DEF Inv, Shapes, InStage, Go, Todo, Idle, Progress, FetchedSoFar, MountedSoFar,
     FitsSoFar, Compatible, TakeSlot, disk, boot
<1>4. Providers'
  BY DEF Inv, Shapes, InStage, Go, Idle, Providers, HooksUnrecorded, HookedRecorded,
     HookedFitsBoot, TakeSlot, boot, history
<1>5. StoreWhole'
  BY DEF Inv, Shapes, InStage, Collecting, Go, Todo, Idle, StoreWhole, DropsUnready,
     ReadyStaysWhole, AdmittedHasBlobs, TakeSlot, disk, boot, history
<1>6. QED
  BY <1>1, <1>2, <1>3, <1>4, <1>5 DEF Inv

LEMMA FetchKeeps == ASSUME Inv, NEW p \in Process, Fetch(p) PROVE Inv'
<1>1. Shapes'
  BY DEF Inv, Shapes, Preparing, Go, Todo, Idle, Fetch, boot, history
<1>2. Locks'
  BY DEF Inv, Shapes, InStage, Collecting, Go, Idle, Locks, CollectsAlone,
     ActivatesAlone, Fetch
<1>3. Progress'
  BY DEF Inv, Shapes, InStage, Go, Todo, Idle, Progress, FetchedSoFar, MountedSoFar,
     FitsSoFar, Compatible, Fetch, boot
<1>4. Providers'
  BY DEF Inv, Shapes, InStage, Go, Idle, Providers, HooksUnrecorded, HookedRecorded,
     HookedFitsBoot, Fetch, boot, history
<1>5. StoreWhole'
  BY DEF Inv, Shapes, InStage, Collecting, Go, Todo, Idle, StoreWhole, DropsUnready,
     ReadyStaysWhole, AdmittedHasBlobs, Fetch, boot, history
<1>6. QED
  BY <1>1, <1>2, <1>3, <1>4, <1>5 DEF Inv

LEMMA AdmitKeeps == ASSUME Inv, NEW p \in Process, Admit(p) PROVE Inv'
<1>1. Shapes'
  BY DEF Inv, Shapes, Preparing, Go, Todo, Admit, boot, history
<1>2. Locks'
  BY DEF Inv, Shapes, InStage, Collecting, Go, Locks, CollectsAlone, ActivatesAlone,
     Admit
<1>3. Progress'
  BY DEF Inv, Shapes, InStage, Go, Todo, Progress, FetchedSoFar, MountedSoFar,
     FitsSoFar, Compatible, Admit, boot
<1>4. Providers'
  BY DEF Inv, InStage, Go, Providers, HooksUnrecorded, HookedRecorded, HookedFitsBoot,
     Admit, boot, history
<1>5. StoreWhole'
  BY DEF Inv, Shapes, InStage, Collecting, Go, StoreWhole, DropsUnready,
     ReadyStaysWhole, AdmittedHasBlobs, Progress, FetchedSoFar, Locks, CollectsAlone,
     Admit, boot, history
<1>6. QED
  BY <1>1, <1>2, <1>3, <1>4, <1>5 DEF Inv

LEMMA MountLayerKeeps == ASSUME Inv, NEW p \in Process, MountLayer(p) PROVE Inv'
<1>1. Shapes'
  BY DEF Inv, Shapes, Preparing, Go, Todo, Idle, MountLayer, history
<1>2. Locks'
  BY DEF Inv, Shapes, InStage, Collecting, Go, Idle, Locks, CollectsAlone,
     ActivatesAlone, MountLayer
<1>3. Progress'
  BY DEF Inv, Shapes, InStage, Go, Todo, Idle, Progress, FetchedSoFar, MountedSoFar,
     FitsSoFar, Compatible, MountLayer, disk
<1>4. Providers'
  BY DEF Inv, Shapes, InStage, Go, Idle, Providers, HooksUnrecorded, HookedRecorded,
     HookedFitsBoot, MountLayer, history
<1>5. StoreWhole'
  BY DEF Inv, Shapes, InStage, Collecting, Go, Todo, Idle, StoreWhole, DropsUnready,
     ReadyStaysWhole, AdmittedHasBlobs, MountLayer, disk, history
<1>6. QED
  BY <1>1, <1>2, <1>3, <1>4, <1>5 DEF Inv

LEMMA ActivateKeeps == ASSUME Inv, NEW p \in Process, Activate(p) PROVE Inv'
<1>1. Shapes'
  BY DEF Inv, Shapes, Preparing, Go, Todo, Idle, Activate, boot, history
<1>2. Locks'
  BY DEF Inv, Shapes, InStage, Collecting, Go, Idle, Locks, CollectsAlone,
     ActivatesAlone, MayActivate, Others, Activate
<1>3. Progress'
  BY DEF Inv, Shapes, InStage, Go, Todo, Idle, Progress, FetchedSoFar, MountedSoFar,
     FitsSoFar, Compatible, Activate, disk, boot
<1>4. Providers'
  BY DEF Inv, Shapes, InStage, Go, Idle, Providers, HooksUnrecorded, HookedRecorded,
     HookedFitsBoot, Busy, Activate, boot, history
<1>5. StoreWhole'
  BY DEF Inv, Shapes, InStage, Collecting, Go, Todo, Idle, StoreWhole, DropsUnready,
     ReadyStaysWhole, AdmittedHasBlobs, Activate, disk, boot, history
<1>6. QED
  BY <1>1, <1>2, <1>3, <1>4, <1>5 DEF Inv

LEMMA HookKeeps == ASSUME Inv, NEW p \in Process, Hook(p) PROVE Inv'
<1>1. Shapes'
  BY DEF Inv, Shapes, InStage, Preparing, Go, Todo, Idle, HooksUnrecorded, Providers,
     Hook, boot
<1>2. Locks'
  BY DEF Inv, Shapes, InStage, Collecting, Go, Idle, Locks, CollectsAlone,
     ActivatesAlone, Hook
<1>3. Progress'
  BY DEF Inv, Shapes, InStage, Go, Todo, Idle, Progress, FetchedSoFar, MountedSoFar,
     FitsSoFar, Compatible, Hook, disk, boot
<1>4. Providers'
  BY DEF Inv, Shapes, InStage, Go, Idle, Providers, HooksUnrecorded, HookedRecorded,
     HookedFitsBoot, Progress, FitsSoFar, Compatible, Hook, boot
<1>5. StoreWhole'
  BY DEF Inv, Shapes, InStage, Collecting, Go, Todo, Idle, StoreWhole, DropsUnready,
     ReadyStaysWhole, AdmittedHasBlobs, Hook, disk, boot
<1>6. QED
  BY <1>1, <1>2, <1>3, <1>4, <1>5 DEF Inv

LEMMA RecordActiveKeeps == ASSUME Inv, NEW p \in Process, RecordActive(p) PROVE Inv'
<1>1. Shapes'
  BY DEF Inv, Shapes, Preparing, Go, RecordActive, history
<1>2. Locks'
  BY DEF Inv, Shapes, InStage, Collecting, Go, Locks, CollectsAlone, ActivatesAlone,
     RecordActive
<1>3. Progress'
  BY DEF Inv, InStage, Go, Progress, FetchedSoFar, MountedSoFar, FitsSoFar, Compatible,
     RecordActive, disk
<1>4. Providers'
  <2>1. /\ stage[p] = "hooked" /\ art[p] \in HostExt /\ Identity[art[p]] \in Name
        /\ stage' = [stage EXCEPT ![p] = "lease"]
        /\ active' = [active EXCEPT ![Identity[art[p]]] = art[p]]
        /\ UNCHANGED <<art, build, hooked, cut>>
    BY DEF Inv, Providers, HooksUnrecorded, InStage, RecordActive, Go, Name, history
  <2>2. HooksUnrecorded'
    BY <2>1 DEF Inv, Shapes, Locks, ActivatesAlone, Providers, HooksUnrecorded, InStage
  <2>3. HookedRecorded'
    <3>1. SUFFICES ASSUME NEW a \in hooked, Identity[a] \notin cut
                   PROVE  \/ active'[Identity[a]] = a
                          \/ \E q \in InStage({"hooked"})' : art'[q] = a
      BY <2>1 DEF HookedRecorded
    <3>2. CASE active[Identity[a]] = a
      <4>1. a \in HostExt /\ a # NoArtifact /\ Identity[a] \in Name
        BY ArtifactsAssumption DEF Inv, Shapes, Name, NoArtifact
      <4>2. Identity[a] # Identity[art[p]]
        BY <2>1, <3>2, <4>1 DEF Inv, Providers, HooksUnrecorded, InStage
      <4>3. QED
        BY <2>1, <3>2, <4>1, <4>2 DEF Inv, Shapes
    <3>3. CASE \E q \in InStage({"hooked"}) : art[q] = a
      BY <2>1, <3>3 DEF Inv, Shapes, InStage
    <3>4. QED
      BY <3>1, <3>2, <3>3 DEF Inv, Providers, HookedRecorded
  <2>4. HookedFitsBoot'
    BY <2>1 DEF Inv, Providers, HookedFitsBoot
  <2>5. QED
    BY <2>2, <2>3, <2>4 DEF Providers
<1>5. StoreWhole'
  BY DEF Inv, InStage, Collecting, Go, StoreWhole, DropsUnready, ReadyStaysWhole,
     AdmittedHasBlobs, RecordActive, disk, history
<1>6. QED
  BY <1>1, <1>2, <1>3, <1>4, <1>5 DEF Inv

LEMMA LeaseKeeps == ASSUME Inv, NEW p \in Process, Lease(p) PROVE Inv'
<1>1. Shapes'
  BY DEF Inv, Shapes, Preparing, Go, Lease, boot
<1>2. Locks'
  BY DEF Inv, Shapes, InStage, Collecting, Go, Locks, CollectsAlone, ActivatesAlone,
     Lease
<1>3. Progress'
  BY DEF Inv, Shapes, InStage, Go, Progress, FetchedSoFar, MountedSoFar, FitsSoFar,
     Compatible, Lease, boot
<1>4. Providers'
  BY DEF Inv, InStage, Go, Providers, HooksUnrecorded, HookedRecorded, HookedFitsBoot,
     Lease, boot
<1>5. StoreWhole'
  BY DEF Inv, Shapes, InStage, Collecting, Go, StoreWhole, DropsUnready,
     ReadyStaysWhole, AdmittedHasBlobs, Progress, MountedSoFar, Locks, CollectsAlone,
     Lease, boot
<1>6. QED
  BY <1>1, <1>2, <1>3, <1>4, <1>5 DEF Inv

LEMMA CollectKeeps == ASSUME Inv, NEW p \in Process, Collect(p) PROVE Inv'
<1>1. Shapes'
  BY DEF Inv, Shapes, Preparing, Collecting, Go, Todo, Collect, boot, history
<1>2. Locks'
  BY DEF Inv, InStage, Go, Locks, CollectsAlone, ActivatesAlone, MayCollect, Others,
     Collect
<1>3. Progress'
  BY DEF Inv, InStage, Go, Todo, Progress, FetchedSoFar, MountedSoFar, FitsSoFar,
     Compatible, Collect, disk, boot
<1>4. Providers'
  BY DEF Inv, InStage, Go, Providers, HooksUnrecorded, HookedRecorded, HookedFitsBoot,
     Collect, boot, history
<1>5. StoreWhole'
  BY DEF Inv, Shapes, InStage, Go, Todo, StoreWhole, DropsUnready, ReadyStaysWhole,
     AdmittedHasBlobs, Protected, Collect, disk, boot, history
<1>6. QED
  BY <1>1, <1>2, <1>3, <1>4, <1>5 DEF Inv

LEMMA DropKeeps == ASSUME Inv, NEW p \in Process, Drop(p) PROVE Inv'
<1>1. Shapes'
  BY DEF Inv, Shapes, Preparing, Go, Todo, Idle, Drop, history
<1>2. Locks'
  BY DEF Inv, Shapes, InStage, Preparing, Go, Idle, Locks, CollectsAlone,
     ActivatesAlone, Drop
<1>3. Progress'
  BY DEF Inv, Shapes, InStage, Preparing, Go, Idle, Progress, FetchedSoFar,
     MountedSoFar, FitsSoFar, Locks, CollectsAlone, Drop
<1>4. Providers'
  BY DEF Inv, Shapes, InStage, Go, Idle, Providers, HooksUnrecorded, HookedRecorded,
     HookedFitsBoot, Drop, history
<1>5. StoreWhole'
  BY DEF Inv, Shapes, InStage, Collecting, Go, Todo, Idle, StoreWhole, DropsUnready,
     ReadyStaysWhole, AdmittedHasBlobs, Drop, history
<1>6. QED
  BY <1>1, <1>2, <1>3, <1>4, <1>5 DEF Inv

LEMMA SweepKeeps == ASSUME Inv, NEW p \in Process, Sweep(p) PROVE Inv'
<1>1. Shapes'
  BY DEF Inv, Shapes, Preparing, Go, Todo, Idle, Sweep, boot, history
<1>2. Locks'
  BY DEF Inv, Shapes, InStage, Preparing, Go, Idle, Locks, CollectsAlone,
     ActivatesAlone, Sweep
<1>3. Progress'
  BY DEF Inv, Shapes, InStage, Preparing, Go, Idle, Progress, FetchedSoFar,
     MountedSoFar, FitsSoFar, Locks, CollectsAlone, Sweep
<1>4. Providers'
  BY DEF Inv, InStage, Go, Idle, Providers, HooksUnrecorded, HookedRecorded,
     HookedFitsBoot, Sweep, boot, history
<1>5. StoreWhole'
  BY DEF Inv, Shapes, InStage, Collecting, Go, Todo, Idle, StoreWhole, DropsUnready,
     ReadyStaysWhole, AdmittedHasBlobs, Referenced, Sweep, boot, history
<1>6. QED
  BY <1>1, <1>2, <1>3, <1>4, <1>5 DEF Inv

LEMMA KillKeeps == ASSUME Inv, NEW p \in Process, Kill(p) PROVE Inv'
<1>1. Shapes'
  BY DEF Inv, Shapes, Preparing, Go, Todo, Idle, Kill, boot
<1>2. Locks'
  BY DEF Inv, Shapes, InStage, Preparing, Collecting, Go, Idle, Locks, CollectsAlone,
     ActivatesAlone, Kill
<1>3. Progress'
  BY DEF Inv, Shapes, InStage, Go, Todo, Idle, Progress, FetchedSoFar, MountedSoFar,
     FitsSoFar, Compatible, Kill, disk, boot
<1>4. Providers'
  BY DEF Inv, Shapes, InStage, Go, Idle, Providers, HooksUnrecorded, HookedRecorded,
     HookedFitsBoot, Kill, boot
<1>5. StoreWhole'
  BY DEF Inv, Shapes, InStage, Collecting, Go, Todo, Idle, StoreWhole, DropsUnready,
     ReadyStaysWhole, AdmittedHasBlobs, Kill, disk, boot
<1>6. QED
  BY <1>1, <1>2, <1>3, <1>4, <1>5 DEF Inv

LEMMA DesireKeeps == ASSUME Inv, NEW set \in Desirable, Desire(set) PROVE Inv'
<1>1. Shapes'
  BY DEF Inv, Shapes, Desire, local, boot
<1>2. Locks'
  BY DEF Inv, InStage, Locks, CollectsAlone, ActivatesAlone, Desire, local
<1>3. Progress'
  BY DEF Inv, InStage, Progress, FetchedSoFar, MountedSoFar, FitsSoFar, Compatible,
     Desire, local, disk, boot
<1>4. Providers'
  BY DEF Inv, InStage, Providers, HooksUnrecorded, HookedRecorded, HookedFitsBoot,
     Desire, local, boot
<1>5. StoreWhole'
  BY DEF Inv, InStage, StoreWhole, DropsUnready, ReadyStaysWhole, AdmittedHasBlobs,
     Desire, local, disk, boot
<1>6. QED
  BY <1>1, <1>2, <1>3, <1>4, <1>5 DEF Inv

LEMMA RebootKeeps == ASSUME Inv, Reboot PROVE Inv'
<1>1. Shapes'
  BY DEF Inv, Shapes, Preparing, Reboot
<1>2. Locks'
  BY DEF Inv, InStage, Collecting, Locks, CollectsAlone, ActivatesAlone, Reboot
<1>3. Progress'
  BY DEF Inv, InStage, Progress, FetchedSoFar, MountedSoFar, FitsSoFar, Reboot
<1>4. Providers'
  BY DEF Inv, InStage, Providers, HooksUnrecorded, HookedRecorded, HookedFitsBoot,
     Reboot
<1>5. StoreWhole'
  BY DEF Inv, InStage, Collecting, StoreWhole, DropsUnready, ReadyStaysWhole,
     AdmittedHasBlobs, Reboot, disk
<1>6. QED
  BY <1>1, <1>2, <1>3, <1>4, <1>5 DEF Inv

-----------------------------------------------------------------------------
(* What holds of every history.                                            *)

LEMMA StepKeeps == Inv /\ [Next]_vars => Inv'
<1>. SUFFICES ASSUME Inv, [Next]_vars PROVE Inv'
  OBVIOUS
<1>1. CASE UNCHANGED vars
  <2>1. Shapes' /\ Locks'
    BY <1>1 DEF Inv, vars, local, disk, boot, history, Shapes, Locks, CollectsAlone,
       ActivatesAlone, InStage
  <2>2. Progress'
    BY <1>1 DEF Inv, vars, local, disk, boot, Progress, FetchedSoFar, MountedSoFar,
       FitsSoFar, InStage, Compatible
  <2>3. Providers'
    BY <1>1 DEF Inv, vars, local, boot, history, Providers, HooksUnrecorded, HookedRecorded,
       HookedFitsBoot, InStage
  <2>4. StoreWhole'
    BY <1>1 DEF Inv, vars, local, disk, boot, history, StoreWhole, DropsUnready,
       ReadyStaysWhole, AdmittedHasBlobs, InStage
  <2>5. QED
    BY <2>1, <2>2, <2>3, <2>4 DEF Inv
<1>2. CASE \E set \in Desirable : Desire(set)
  BY <1>2, DesireKeeps
<1>3. CASE \E p \in Process : Step(p)
  BY <1>3, StartKeeps, EnterKeeps, TakeSlotKeeps,
     FetchKeeps, AdmitKeeps, MountLayerKeeps, ActivateKeeps, HookKeeps,
     RecordActiveKeeps, LeaseKeeps, CollectKeeps, DropKeeps, SweepKeeps, KillKeeps DEF Step
<1>4. QED
  BY <1>1, <1>2, <1>3, RebootKeeps DEF Next

(* The inductive invariant of the store: who holds which lock, what each   *)
(* preparation and collection has done so far, and the four properties.    *)
THEOREM StoreInvariant == Spec => []Inv
<1>1. QED
  BY InitInv, StepKeeps, PTL DEF Spec

(* A collection never takes anything from what was reported ready (prepare *)
(* and gc, which share nothing but file locks).                            *)
THEOREM ReadySurvives == Spec => []ReadyStaysWhole
<1>1. Inv => ReadyStaysWhole
  BY DEF Inv, StoreWhole
<1>2. QED
  BY <1>1, StoreInvariant, PTL

(* Manifests and blobs agree on disk in every state a cut can leave (gc).  *)
THEOREM ManifestsBacked == Spec => []AdmittedHasBlobs
<1>1. Inv => AdmittedHasBlobs
  BY DEF Inv, StoreWhole
<1>2. QED
  BY <1>1, StoreInvariant, PTL

(* A provider is activated once in a boot (_activate).                     *)
THEOREM ActivatedOnce == Spec => []OneProviderPerBoot
<1>1. ASSUME Inv, NEW a \in hooked, NEW b \in hooked,
             Identity[a] = Identity[b], Identity[a] \notin cut
      PROVE  a = b
  <2>1. a # NoArtifact /\ b # NoArtifact
    BY <1>1, ArtifactsAssumption DEF Inv, Shapes, NoArtifact
  <2>2. CASE active[Identity[a]] # NoArtifact
    BY <1>1, <2>2 DEF Inv, Providers, HookedRecorded, HooksUnrecorded, InStage
  <2>3. CASE active[Identity[a]] = NoArtifact
    BY <1>1, <2>1, <2>3 DEF Inv, Locks, ActivatesAlone, Providers, HookedRecorded, InStage
  <2>4. QED
    BY <2>2, <2>3
<1>2. Inv => OneProviderPerBoot
  BY <1>1 DEF OneProviderPerBoot, SamePayload
<1>3. QED
  BY <1>2, StoreInvariant, PTL

(* Nothing is activated that was made for another build (_validate_config).*)
THEOREM ActivatedFits == Spec => []HookedFitsBoot
<1>1. Inv => HookedFitsBoot
  BY DEF Inv, Providers
<1>2. QED
  BY <1>1, StoreInvariant, PTL
=============================================================================
