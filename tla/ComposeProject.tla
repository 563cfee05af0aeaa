--------------------------- MODULE ComposeProject ---------------------------
(***************************************************************************)
(* How the data plane executes the Compose project of one app: plan, pull  *)
(* every image, run the init services once per definition, start the       *)
(* required services, then the optional ones (dataplane.py, 1801-2890 and  *)
(* the failure records, 2947-3020).                                        *)
(*                                                                         *)
(* AppProject follows the life of an app and sees this as one step; here   *)
(* the services, their dependencies and the files that remember what ran   *)
(* and what failed are visible.  `docker compose` is modelled from how it  *)
(* is called: `run s` and `up s` also start what s depends on.             *)
(***************************************************************************)
EXTENDS Naturals, FiniteSets, Sequences, SequencesExt

CONSTANTS
  Order,        \* the services, in the order of the Compose document
  InitService,  \* services with lifecycle "init"
  Optional,     \* services labelled optional
  Depends,      \* [Service -> SUBSET Service], acyclic
  Definition,   \* [Compose -> [Service -> Nat \ {0}]], what each document says
  DocumentOf,   \* [Gen -> Compose], the document of each desired generation
  MaxAttempts,  \* COMPOSE_PULL_MAX_ATTEMPTS
  MaxFaults, MaxCrashes, MaxForces   \* bounds on the environment

Service == ToSet(Order)
Compose == DOMAIN Definition
Version == UNION {{Definition[c][s] : s \in Service} : c \in Compose}
Gen == DOMAIN DocumentOf

ASSUME ComposeAssumption ==
  /\ InitService \subseteq Service /\ Optional \subseteq Service
  /\ Depends \in [Service -> SUBSET Service]
  /\ \A g \in Gen : DocumentOf[g] \in Compose
  /\ MaxAttempts \in Nat \ {0}

VARIABLES
  want,       \* the generation desired; a newer one supersedes a running job
  job,        \* the generation being reconciled, 0 when idle
  stage,      \* where the reconcile is
  plan,       \* completed_init as the plan saw it
  ready, failures, skipped,  \* optional_ready, optional_failures, skipped_optional
  handled,    \* services removed from the execution compose so far
  todo,       \* optional items still to pull or to start
  attempt, wifiRetry,        \* of the pull or the start in progress
  \* on disk
  signature,  \* .init-<service>.sig: the definition that ran, 0 if none
  failed,     \* .failed-compose-sig: the set holding its record, if any
  failedOpt,  \* .failed-compose-sig.optional-<service>, likewise
  \* dockerd
  image,      \* <<service, definition>> pairs present locally
  running,    \* the definition each container runs, 0 if it was never started
  \* what really happened, for the properties
  done,       \* the definition each init service last completed
  unsigned,   \* init services whose last completion has no signature
  blamed,     \* documents one of whose required services failed
  reported,   \* the document last reported failed, unless forced since
  gaveUp,     \* the same, if the record of that failure reached the disk
  health, faults, crashes, forces

process == <<job, stage, plan, ready, failures, skipped, handled, todo,
             attempt, wifiRetry>>
disk == <<signature, failed, failedOpt>>
docker == <<image, running>>
history == <<done, unsigned, blamed, reported, gaveUp, health>>
environment == <<faults, crashes, forces>>
vars == <<want, process, disk, docker, history, environment>>

Doc == DocumentOf[job]
Def(s) == Definition[Doc][s]

-----------------------------------------------------------------------------
\* The plan

Runtime == Service \ InitService

\* The services reached from roots without passing through cut.
Reach(roots, cut, edges) ==
  LET step[n \in 0..Cardinality(Service)] ==
        IF n = 0 THEN roots \ cut
        ELSE LET near == step[n - 1]
             IN  near \cup (UNION {edges[s] : s \in near} \ cut)
  IN  step[Cardinality(Service)]

Closure(roots, cut) == Reach(roots, cut, Depends)

\* What `up` sees: the runtime document has lost its init services.
RuntimeClosure(roots) ==
  Reach(roots, {}, [s \in Service |-> Depends[s] \ InitService])

\* An init service is remembered by its own definition, so a change to
\* another service does not run it again.
DocumentSignature(s) == Doc
SignatureOf(s) == Def(s)
Completed == {s \in InitService : signature[s] = SignatureOf(s)}

RequiredRuntime == Runtime \ Optional
RequiredServices ==
  Closure(((InitService \ Optional) \ plan) \cup RequiredRuntime, plan)
RequiredByLabel == InitService \ (Optional \cup plan)
RequiredInit == RequiredServices \cap InitService

\* The optional items, init before runtime, each in document order.
OptionalItems ==
  LET items == (Optional \ plan) \ RequiredServices
  IN  SelectSeq(Order, LAMBDA s : s \in items \cap InitService)
        \o SelectSeq(Order, LAMBDA s : s \in items \cap Runtime)
ItemServices(s) == Closure({s}, plan)
InitDependencies(s) == (ItemServices(s) \ {s}) \cap InitService

-----------------------------------------------------------------------------
\* Failure records

Record(services) == [document |-> Doc, services |-> services]

\* A required failure stands for the document, whatever completed since:
\* the signature is computed again over the services the record names.
RequiredFailedNow == failed = {Record(RequiredServices)}
RequiredFailed == \E r \in failed : r = Record(r.services)

\* An optional failure stands for the services of the current plan.
OptionalFailed(s) == failedOpt[s] = {Record(ItemServices(s))}

-----------------------------------------------------------------------------
ZeroAll == [s \in Service |-> 0]
NoRecords == [s \in Service |-> {}]

\* The values the variables take.
TypeOK ==
  /\ want \in Gen /\ job \in Gen \cup {0}
  /\ stage \in {"idle", "plan", "force", "refused", "pull", "pullOptional", "init", "sign",
               "start", "startOptional"}
  /\ plan \cup ready \cup failures \cup skipped \cup handled \cup unsigned \subseteq Service
  /\ todo \in Seq(Service) /\ attempt \in 1..MaxAttempts /\ wifiRetry \in BOOLEAN
  /\ \A f \in {signature, running, done} : f \in [Service -> Version \cup {0}]
  /\ \A r \in failed \cup UNION {failedOpt[s] : s \in Service} :
       r.document \in Compose /\ r.services \subseteq Service
  /\ image \subseteq Service \X Version
  /\ blamed \cup reported \cup gaveUp \subseteq Compose /\ health \in {"none", "running", "failed"}
  /\ faults \in 0..MaxFaults /\ crashes \in 0..MaxCrashes /\ forces \in 0..MaxForces

Init ==
  /\ want = 1 /\ job = 0 /\ stage = "idle"
  /\ plan = {} /\ ready = {} /\ failures = {} /\ skipped = {} /\ handled = {}
  /\ todo = <<>> /\ attempt = 1 /\ wifiRetry = TRUE
  /\ signature = ZeroAll /\ failed = {} /\ failedOpt = NoRecords
  /\ image = {} /\ running = ZeroAll
  /\ done = ZeroAll /\ unsigned = {} /\ blamed = {}
  /\ reported = {} /\ gaveUp = {}
  /\ health = "none"
  /\ faults = 0 /\ crashes = 0 /\ forces = 0

Superseded == want # job

\* The job ends: its locals go, nothing else.
Leave ==
  /\ job' = 0 /\ stage' = "idle" /\ plan' = {} /\ ready' = {}
  /\ failures' = {} /\ skipped' = {} /\ handled' = {} /\ todo' = <<>>
  /\ attempt' = 1 /\ wifiRetry' = TRUE

\* The record of a failure may not reach the disk; that is not an error.
GiveUp ==
  /\ Leave /\ health' = "failed" /\ reported' = {Doc}
  /\ \/ failed' = {Record(RequiredServices)} /\ gaveUp' = {Doc}
     \/ UNCHANGED <<failed, gaveUp>>

\* A service failed for a reason of its own; whose fault that is follows
\* from the dependencies alone.
Needed == Closure(Service \ Optional, {})
Fault(services) ==
  /\ faults < MaxFaults /\ faults' = faults + 1
  /\ blamed' = IF services \cap Needed # {} THEN blamed \cup {Doc} ELSE blamed

-----------------------------------------------------------------------------
\* The server moves on to the next generation.
Desire ==
  /\ want + 1 \in Gen /\ want' = want + 1
  /\ UNCHANGED <<process, disk, docker, history, environment>>

\* A reconcile starts; it may be a forced retry.
TakeJob ==
  /\ stage = "idle" /\ job' = want
  /\ \/ stage' = "plan" /\ UNCHANGED forces
     \/ /\ forces < MaxForces /\ forces' = forces + 1
        /\ stage' = "force"
  /\ UNCHANGED <<want, plan, ready, failures, skipped, handled, todo, attempt,
                 wifiRetry, disk, docker, history, faults, crashes>>

\* The project is planned; a recorded failure of its required services
\* refuses it, unless the retry is forced and clears every record first.
Prepare ==
  /\ stage \in {"plan", "force"}
  /\ plan' = Completed
  /\ IF stage = "plan" /\ RequiredFailed
     THEN /\ stage' = "refused"
          /\ UNCHANGED <<failed, failedOpt, reported, gaveUp>>
     ELSE /\ stage' = "pull"
          /\ IF RequiredFailed
             THEN /\ failed' = {} /\ failedOpt' = NoRecords
                  /\ reported' = {} /\ gaveUp' = {}
             ELSE UNCHANGED <<failed, failedOpt, reported, gaveUp>>
  /\ UNCHANGED <<want, job, ready, failures, skipped, handled, todo, attempt,
                 wifiRetry, signature, docker, done, unsigned, blamed, health,
                 environment>>

Refused ==
  /\ stage = "refused" /\ Leave /\ health' = "failed"
  /\ UNCHANGED <<want, disk, docker, done, unsigned, blamed, reported,
                 gaveUp, environment>>

-----------------------------------------------------------------------------
\* Pulling

Images(services) == {<<s, Def(s)>> : s \in services}

\* Between attempts the job notices that it has been superseded.
Yield ==
  /\ stage \in {"pull", "pullOptional", "start"} /\ Superseded
  /\ Leave
  /\ UNCHANGED <<want, disk, docker, history, environment>>

\* After a failed attempt: wait for Wi-Fi once at no cost, try again, or not.
Retry(limit) ==
  /\ \/ /\ wifiRetry /\ stage \in {"pull", "pullOptional"}
        /\ wifiRetry' = FALSE /\ UNCHANGED attempt
     \/ /\ attempt < limit /\ attempt' = attempt + 1 /\ UNCHANGED wifiRetry
  /\ UNCHANGED <<job, stage, plan, ready, failures, skipped, handled, todo>>

PullRequired ==
  /\ stage = "pull" /\ ~Superseded
  /\ \/ /\ image' = image \cup Images(RequiredServices)
        /\ stage' = "pullOptional" /\ todo' = OptionalItems
        /\ attempt' = 1 /\ wifiRetry' = TRUE
        /\ UNCHANGED <<job, plan, ready, failures, skipped, handled, failed,
                       blamed, reported, gaveUp, health, faults>>
     \/ /\ Fault(RequiredServices)
        /\ \/ Retry(MaxAttempts) /\ UNCHANGED <<failed, reported, gaveUp, health>>
           \/ GiveUp
        /\ UNCHANGED image
  /\ UNCHANGED <<want, signature, failedOpt, running, done, unsigned,
                 crashes, forces>>

\* Whether init services this optional item needs are not to be had.
InitUnavailable(s) ==
  s \in Runtime /\ ~(InitDependencies(s) \subseteq RequiredInit \cup ready)

Recorded(services) ==
  [s \in Service |-> IF s \in services THEN {Record(ItemServices(s))}
                    ELSE failedOpt[s]]

NextItem == /\ todo' = Tail(todo) /\ attempt' = 1 /\ wifiRetry' = TRUE
            /\ UNCHANGED <<job, stage, plan, skipped, handled>>
OptionalFails(s) ==
  /\ failures' = failures \cup {s}
  /\ failedOpt' \in {failedOpt, Recorded({s})}

PullOptional ==
  /\ stage = "pullOptional" /\ todo # <<>>
  /\ LET s == Head(todo) IN
       \/ /\ OptionalFailed(s)
          /\ failures' = failures \cup {s}
          /\ NextItem /\ UNCHANGED <<ready, failedOpt, image, blamed, faults>>
       \/ /\ ~OptionalFailed(s) /\ InitUnavailable(s)
          /\ OptionalFails(s)
          /\ NextItem /\ UNCHANGED <<ready, image, blamed, faults>>
       \/ /\ ~OptionalFailed(s) /\ ~InitUnavailable(s) /\ ~Superseded
          /\ \/ /\ image' = image \cup Images(ItemServices(s))
                /\ ready' = ready \cup {s}
                /\ NextItem /\ UNCHANGED <<failures, failedOpt, blamed, faults>>
             \/ /\ Fault({s}) /\ UNCHANGED <<image, ready>>
                /\ \/ Retry(1) /\ UNCHANGED failedOpt
                   \/ OptionalFails(s) /\ NextItem
  /\ UNCHANGED <<want, signature, failed, running, done, unsigned, reported,
                 gaveUp, health, crashes, forces>>

NotReady == (ToSet(OptionalItems) \cap InitService) \ ready

\* Every image is here: _start_prepared_app_project begins.
StartPrepared ==
  /\ stage = "pullOptional" /\ todo = <<>> /\ ~Superseded
  /\ skipped' = NotReady
  /\ handled' = Completed \cup skipped'
  /\ stage' = "init"
  /\ UNCHANGED <<want, job, plan, ready, failures, todo, attempt, wifiRetry,
                 disk, docker, history, environment>>

-----------------------------------------------------------------------------
\* Init services.  The loop does not look for supersession.

PendingInit == InitService \ handled

\* Depth first in document order, along direct dependencies.
FirstOf(services) ==
  Order[CHOOSE i \in DOMAIN Order :
          /\ Order[i] \in services
          /\ \A j \in 1..(i - 1) : Order[j] \notin services]
NextInit ==
  LET down[s \in Service] ==
        LET deps == Depends[s] \cap PendingInit
        IN  IF deps = {} THEN s ELSE down[FirstOf(deps)]
  IN  down[FirstOf(PendingInit)]

Present(services) == Images(services) \subseteq image

\* The init services of this job that failed, all of them optional.
InitFailures == failures \cap ready \cap InitService

\* The failure records once the loop has ended: a new one for each service in
\* lost, except those the disk refuses, none for the init services that ran.
RecordsAfterInits(lost) ==
  LET ran == (ready \cap InitService) \ InitFailures
  IN  {[s \in Service |-> IF s \in ran THEN {} ELSE Recorded(written)[s]] :
         written \in SUBSET lost}

\* `docker compose run --pull never --rm s`, with what s still depends on.
InitRuns(s) == Closure({s}, handled)

RunInit ==
  /\ stage = "init" /\ PendingInit # {}
  /\ LET s == NextInit
     IN  \/ /\ Present(InitRuns(s))
            /\ done' = [t \in Service |->
                          IF t \in InitRuns(s) \cap InitService THEN Def(t)
                          ELSE done[t]]
            /\ running' = [t \in Service |->
                             IF t \in InitRuns(s) \cap Runtime THEN Def(t)
                             ELSE running[t]]
            /\ unsigned' = unsigned \cup (InitRuns(s) \cap InitService)
            /\ stage' = "sign" /\ todo' = <<s>>
            /\ UNCHANGED <<job, plan, ready, failures, skipped, handled,
                           attempt, wifiRetry, failed, failedOpt, blamed,
                           reported, gaveUp, health, faults>>
         \/ /\ Fault({s})
            /\ IF s \in Optional \ RequiredInit
               THEN /\ failures' = failures \cup {s}
                    /\ handled' = handled \cup {s}
                    /\ UNCHANGED <<job, stage, plan, ready, skipped, todo,
                                   attempt, wifiRetry, failed, failedOpt,
                                   reported, gaveUp, health>>
               ELSE GiveUp /\ failedOpt' \in RecordsAfterInits(InitFailures)
            /\ UNCHANGED <<done, running, unsigned>>
  /\ UNCHANGED <<want, signature, image, crashes, forces>>

\* The signature reaches the disk after the service ran.
Sign ==
  /\ stage = "sign"
  /\ LET s == Head(todo) IN
       /\ signature' = [signature EXCEPT ![s] = SignatureOf(s)]
       /\ unsigned' = unsigned \ {s}
       /\ handled' = handled \cup {s}
  /\ stage' = "init" /\ todo' = <<>>
  /\ UNCHANGED <<want, job, plan, ready, failures, skipped, attempt, wifiRetry,
                 failed, failedOpt, docker, done, blamed, reported, gaveUp,
                 health, environment>>

\* A file of the project cannot be written: its compose.json before the pulls,
\* before an init service or before the start, or a signature.  The error
\* leaves the reconcile, which has recorded nothing of its outcome.
WriteFails ==
  /\ stage \in {"plan", "force", "init", "sign"}
  /\ faults < MaxFaults /\ faults' = faults + 1
  /\ Leave
  /\ UNCHANGED <<want, disk, docker, history, crashes, forces>>

\* The loop is over; optional services whose init services are missing are
\* given up, then the runtime document replaces the full one.
InitsDone ==
  /\ stage = "init" /\ PendingInit = {}
  /\ LET lost == {s \in ToSet(OptionalItems) \cap Runtime :
                    InitDependencies(s) \cap (skipped \cup InitFailures) # {}}
     IN  /\ failures' = failures \cup lost /\ ready' = ready \ lost
         /\ failedOpt' \in RecordsAfterInits(lost \cup InitFailures)
  /\ stage' = "start"
  /\ UNCHANGED <<want, job, plan, skipped, handled, todo, attempt, wifiRetry,
                 signature, failed, docker, history, environment>>

-----------------------------------------------------------------------------
\* Starting

Run(services) ==
  running' = [s \in Service |-> IF s \in services THEN Def(s) ELSE running[s]]

UpRequired ==
  /\ stage = "start" /\ ~Superseded
  /\ LET services == RuntimeClosure(RequiredRuntime) IN
       \/ /\ Present(services) /\ Run(services)
          /\ failed' = {} /\ reported' = {} /\ gaveUp' = {}
          /\ stage' = "startOptional"
          /\ todo' = SelectSeq(OptionalItems,
                               LAMBDA s : s \in Runtime \cap ready)
          /\ attempt' = 1
          /\ UNCHANGED <<job, plan, ready, failures, skipped, handled,
                         wifiRetry, blamed, health, faults>>
       \/ /\ Fault(services) /\ UNCHANGED running
          /\ \/ Retry(MaxAttempts) /\ UNCHANGED <<failed, reported, gaveUp, health>>
             \/ GiveUp
  /\ UNCHANGED <<want, signature, failedOpt, image, done, unsigned, crashes,
                 forces>>

\* One attempt each.  A supersession noticed here counts as a failure.
UpOptional ==
  /\ stage = "startOptional" /\ todo # <<>>
  /\ LET s == Head(todo)
         services == RuntimeClosure({s})
     IN  \/ /\ ~Superseded /\ Present(services) /\ Run(services)
            /\ failures' = failures \ ItemServices(s)
            /\ failedOpt' = [t \in Service |->
                 IF t \in ItemServices(s) \cap ToSet(OptionalItems) THEN {}
                 ELSE failedOpt[t]]
            /\ UNCHANGED <<blamed, faults>>
         \/ /\ ~Superseded /\ Fault({s}) /\ OptionalFails(s)
            /\ UNCHANGED running
         \/ /\ Superseded /\ OptionalFails(s)
            /\ UNCHANGED <<running, blamed, faults>>
  /\ todo' = Tail(todo)
  /\ UNCHANGED <<want, job, stage, plan, ready, skipped, handled, attempt,
                 wifiRetry, signature, failed, image, done, unsigned,
                 reported, gaveUp, health, crashes, forces>>

Started ==
  /\ stage = "startOptional" /\ todo = <<>>
  /\ Leave /\ health' = "running"
  /\ UNCHANGED <<want, disk, docker, done, unsigned, blamed, reported,
                 gaveUp, environment>>

\* The data plane dies at any point; the next reconcile starts over.
Crash ==
  /\ stage # "idle" /\ crashes < MaxCrashes /\ crashes' = crashes + 1
  /\ Leave
  /\ UNCHANGED <<want, disk, docker, history, faults, forces>>

Next ==
  \/ Desire \/ TakeJob \/ Prepare \/ Refused \/ Yield \/ PullRequired
  \/ PullOptional \/ StartPrepared \/ RunInit \/ Sign \/ WriteFails
  \/ InitsDone \/ UpRequired \/ UpOptional \/ Started \/ Crash

Spec == Init /\ [][Next]_vars

-----------------------------------------------------------------------------
\* Properties

InitsBefore(s) == (Closure({s}, {}) \ {s}) \cap InitService

Starts(s) == running'[s] # running[s] \/ done'[s] # done[s]

\* A required service, init or not, starts only after every init service
\* below it has completed as this document defines it, whatever was skipped,
\* failed or superseded before; an optional one at least after those it names
\* (_run_app_init_services, _app_project_plan).  One exception: a run without
\* a signature of its own (cut off, refused by the disk, or made below another
\* service) leaves the older one, which answers for the document that wrote it.
StartsAfterInits ==
  [][\A s \in Service : Starts(s) =>
       \A i \in IF s \notin Optional THEN InitsBefore(s)
                ELSE IF s \in Runtime THEN Depends[s] \cap InitService ELSE {} :
         done'[i] = Def(i) \/ i \in unsigned]_vars

\* The same for all that an optional service rests on: "optional runtime does
\* not start after init dependency fails" (tests/test_dataplane.py).  Not so:
\* an optional init service runs although the one below it failed, and once
\* it is signed the next plan does not look past it.
OptionalAfterInits ==
  [][\A s \in Runtime : Starts(s) =>
       \A i \in InitsBefore(s) : done'[i] = Def(i)]_vars

\* An init service whose completion is signed is not run again for that
\* definition, neither by itself nor below another one, until it has run for
\* another definition: through changes to the other services, failures,
\* forced retries, unwritable files and crashes.
InitRunsOnce ==
  [][(stage = "init" /\ stage' = "sign") =>
       \A s \in InitRuns(NextInit) \cap InitService :
         done[s] # Def(s) \/ s \in unsigned]_vars

\* The same for every completion, signed or not.  Not so, even without any
\* failure: an init service written before the ones it depends on runs those
\* too, leaves them unsigned, and they run again in their turn.
InitNeverRepeats ==
  [][(stage = "init" /\ stage' = "sign") =>
       \A s \in InitRuns(NextInit) \cap InitService : done[s] # Def(s)]_vars

\* Once the failure of a document's required services is on disk, nothing is
\* pulled or started for it, whatever init services completed meanwhile, until
\* the document changes or the user forces a retry.
FailureSticks ==
  [][(stage = "plan" /\ stage' = "pull") => Doc \notin gaveUp]_vars

\* The same for every failure that was reported.  Not so: see GiveUp.
ReportedFailureSticks ==
  [][(stage = "plan" /\ stage' = "pull") => Doc \notin reported]_vars

\* Failures of optional services never fail the app: a document is reported
\* failed only when a service it cannot do without failed.
OptionalNeverFatal == reported \subseteq blamed

\* `run` and `up` never pull, so whatever they start, dependencies included,
\* was pulled before: the closures of the plan cover the execution.
PulledBeforeStart ==
  /\ (stage = "init" /\ PendingInit # {}) =>
       Present(Closure({NextInit}, handled))
  /\ stage = "start" => Present(RuntimeClosure(RequiredRuntime))
  /\ (stage = "startOptional" /\ todo # <<>>) =>
       Present(RuntimeClosure({Head(todo)}))

\* A record against an optional service names a failure that happened.  Not
\* so: see UpOptional.
OptionalRecordsEarned == faults = 0 => \A s \in Service : failedOpt[s] = {}
=============================================================================
