# Reefy OS in TLA+

Reefy OS turns a machine into a managed app host. Its device firmware is a set
of Python programs and shell scripts under
`src/board/reefy/reefy/rootfs-overlay/usr`. The parts that decide what happens
to a device are concurrent, are killed at any moment by a power cut, and talk
to a UEFI firmware, a Docker daemon and a server that all act on their own.
This directory models them in TLA+, checks small instances with TLC and proves
the most important results for every instance with TLAPS.

Paths below are relative to `rootfs-overlay/usr` unless they start with `docs/`
or `tests/` (`src/docs`, `src/board/reefy/reefy/tests`). "dataplane" is
`lib/reefy/reefy/dataplane.py`, "control" is `lib/reefy/reefy/control.py`.

## 1. Inventory

| Component | State it keeps | Operations | Talks to |
|---|---|---|---|
| Apply scheduler (dataplane 354-484, `apply_results.py`) | running and pending job, result records in memory and as files, project targets, retry timer | SubmitApply, SubmitReconcile, GetApply, WaitApply, worker, boot reconcile, timer, restart recovery | control over Varlink; saved desired state |
| App project lifecycle (dataplane 822-943, 1579-1724, 2136-2410, 2931-2944, 3266-3299) | compose.json, failure marker, project lock, container and its restart policy, health events | reconcile, stop, remove, RestartInstance, repair after a die event | Docker daemon; server through health events |
| Compose execution (dataplane 1801-2890, 2947-3020) | signatures of init services, failure records, images, containers | plan, pull, run init services, start required and optional ones, give up, force | Docker |
| Apps-v2 migration (dataplane 1219-1497, 2671-2929) | state files v1 and v2, legacy compose file, marker, containers of both kinds | prepare, hand over, commit, roll back | app projects |
| Control: commands and apply (control 919-1060, 1594-1720, 1994-2012) | results of 128 commands, running ids, latest request, retained hash | claim, run, respond, submit and wait, publish | MQTT server, data plane |
| Control: connection, provisioning (control 162-660, 2026-2167) | mode, client, certificates, disconnect time | connect, subscribe watchdog, provision, reset | MQTT server, files on the ESP |
| A/B update (`bin/reefy-efi`, `reefy-boot-confirm`, `reefy-boot-watchdog`, control 1502-1582) | two slots, UEFI variables, download, update lock | fix, confirm, update, watchdog reset | firmware, storage service |
| Storage provisioning (`storage.py` 236-1050, 2033-2310, control) | key partition, LUKS headers, volume group, default and state volumes | provision, grow, reset | LVM, cryptsetup, data plane |
| App volumes (`storage.py` 1064-2030, 2313-2440, dataplane) | volumes and their tags, mounts, data below a mount point, recovery area | boot mount, prepare, repair, reclaim | LVM, Docker |
| Boot storage supervisor (`storage_boot.py`, `storage_discovery.py`, `bin/boot-reefy-storage.sh`) | guard in /run, marker on the ESP | discover, activate, repair, mount, verify, interrupt, guarded reset | LVM, reefy-efi |
| LVM recovery (`vg_recovery*.py`, `pv_redundancy.py`) | metadata copies, evidence on the ESP | choose a candidate, preserve, rewrite; inspect and repair the second copy | raw disks, LVM |
| Slot creation (`boot_slots.py`) | GPT entry of slot B | create, fill, verify, publish | storage service |
| Artifact store (`artifacts.py`) | blobs, manifests, mounts, leases | prepare, admit, mount, activate, collect garbage | OCI registry, data plane |
| RPC client (`rpc.py`) | pending calls | call, receive | MQTT server |
| Wi-Fi (`wifi_bootstrap.py`, `wifi_apply.py`) | credentials, access point, retry policy | trial connection, set-up page, apply | wpa_supplicant |
| Infrastructure watchdog (`watchdog.py`) | failure count, cooldown | probe, restart | Docker |
| Backup (`bin/reefy-backup`) | snapshots, lock | create, recover, restore | Borg |
| Terminal bridge, log publisher | sessions, subscribers | open, close, time out | MQTT server |
| Bulk storage guard (`bulk_storage.py`) | throttles, ownership repair | pass, repair | cgroups |
| Metrics, journal, core dumps, host identity, build, tools | - | - | - |

How they interact. The server sends commands over MQTT to control. Control
runs each in a thread of its own; `apply_state` and the reconnect call the data
plane over a Unix socket (Varlink), which queues the request and lets one worker
carry it out, app by app in a pool of threads, through Docker. Docker's events
start repair threads, RestartInstance comes in beside the queue. Storage is
prepared before both start; firmware, storage service and update command share
the boot entries. Health, status and the state hash go back to the server.

What is hard here:
- *interleaving*: worker, repair threads, restart calls, waiters and the retry
  timer share locks, files and containers;
- *stale reads*: a state or a lock is looked at, let go and relied upon
  (RestartInstance, the state hash, the boot number of a slot);
- *crashes*: power is cut between two efibootmgr calls or between saving a state
  and finishing it; systemd restarts the processes, and files survive them;
- *supersession*: a newer desired state cancels older work through a target that
  is published before the state is saved;
- *partial failure*: Docker, efibootmgr, LVM and file writes fail one at a time,
  also the clean-up after a failure;
- *several processes on one store*: preparations and collections of artifacts meet
  in file locks only;
- *hardware that changes*: disks come late, are missing or renamed, metadata and
  file systems are damaged;
- *eventuality*: a waiter must be answered, a bad trial must be rolled back, an
  exited app must come up again.

`PROJECT.json` lists every hazard at its line with the properties that cover it.

What makes each component correct: a request accepted by the scheduler ends
exactly once and its waiter hears of it; a success means that the app runs; a
device that can boot a proven image never loses it; an app that was stopped
stays down, one that was deployed runs its newest document, one that was removed
is gone; the hash the server sees is of a state that was carried out; a migration
neither loses an app nor runs it twice; an init service completes before what
rests on it starts, and once; stored data is formatted by nobody, comes up when the
disks are whole, and is what an app sees; recovered metadata describes the pool;
an artifact reported ready stays whole.

## 2. Modules

| Module | Models | Extends |
|---|---|---|
| `ApplyQueue` | what the Varlink interface promises of a request (abstract) | - |
| `ApplyResults` | the result store: memory, files, pruning, loading | - |
| `ApplyScheduler` | submission, worker, waiters, timer, boot, crash | ApplyResults; implements ApplyQueue |
| `ApplyScheduler_proofs` | theorems about it | ApplyScheduler, TLAPS |
| `EfiVariables` | Boot####, BootOrder, BootNext, efibootmgr, firmware's choice | - |
| `ABBoot` | reefy-efi fix, confirm, update; confirm and watchdog services; update command | EfiVariables |
| `ABBoot_proofs` | theorems about it | ABBoot, TLAPS |
| `AppProject` | one Compose project and the threads that touch it | - |
| `AppProject_proofs` | theorems about it | AppProject, TLAPS |
| `ControlApply` | command and reconnect threads of control, over the contract of the data plane | ApplyQueue |
| `ControlApply_proofs` | theorems about it | ControlApply, TLAPS |
| `ComposeProject` | what happens inside a reconcile of one project: plan, pulls, init services, starts, records | - |
| `AppsMigration` | the move from the legacy project to one project per app | - |
| `AppsMigration_proofs` | theorems about it | AppsMigration, TLAPS |
| `StorageProvision` | keys, LUKS, volume group, provisioning, growth, resets | - |
| `BootStorage` | the boot's storage script and its supervisor, with power cuts and damage, composed with provisioning | StorageProvision |
| `VgMetadata` | LVM's metadata copies, the offline recovery, the maintenance of the second copy | - |
| `VgMetadata_proofs` | theorems about it | VgMetadata, TLAPS |
| `AppVolumes` | the dedicated volumes of apps at boot and at an apply | - |
| `Artifacts` | the artifact store: admission, mounts, activation, garbage collection | - |
| `Artifacts_proofs` | theorems about it | Artifacts, TLAPS |
| `MC*` | instances for TLC | the module of the same name |

### Apply scheduler

Everything the code does under `_job_condition` is one step (`Submit` with its
alternatives `Join`, `Reject`, `StartWorker`, `CannotStart`, `ReplacePending`;
`Drain`; `WaitApply`). The worker's result updates and its file writes happen
outside it and are steps (`Begin`, `RefuseState`, `SaveState`, `ApplyState`,
`Finish`). A result record is in memory and, when its write worked, on disk;
`Crash` keeps the files only, `Restart` loads them and `FailInterrupted` ends what
was left unfinished, one record at a time, before the socket is served.
`asleep` is the set of threads inside `Condition.wait`; each notify_all empties it.

Abstractions. A desired state carries one app, of which the generation matters;
carrying it out is one step (`AppProject` opens it). Times are a counter, so the
code's wall clock, which may go back, is taken as monotone: pruning by `updated_at`
after a clock step is not covered. A request id is used once.

`Strand` is what the code does with an apply of a state that cannot be read
(`Unreadable`): the record is created, `_set_project_targets` raises (dataplane
387-388), `_dp_submit_apply` answers with the error and the record stays "queued" with
no job until the data plane restarts. A state in `Malformed` is accepted and refused by
the worker. The fault "unlink" lets a prune forget a result whose file it could not
remove; it is on in SchedulerSafety.cfg and in the proofs.

### A/B boot

One image is a model value; a slot being formatted or half copied holds `Blank`.
`running` is the image that was started from the `mounted` slot: an update that
overwrites this slot does not change what runs, and it is what proves itself. Every
efibootmgr call that writes and every write to a slot is a step, so that power may be
cut between any two. `FirmwareChoice` is BootNext once, then the first loadable entry
of BootOrder, then removable media. Images in `Bad` never bring up all critical
services. `Faults` names what may go wrong: power cuts, failing efibootmgr calls
("create", "delete", "clean", "order"; "clean" is the deletion of a wrong entry, such
as one of another disk under the label of a slot), firmware that does not keep
BootNext ("next", for which `cmd_update` overwrites the running slot), a BIOS reset
("entries_lost"), failing writes to the inactive and to the running slot ("write",
"overwrite"), and an update before the running slot is confirmed ("trial_update").

Abstractions. The confirm service gives up before the watchdog fires (300 s and
360 s in the code); an earlier reset is a power cut. The marker
`storage-recovery-failed`, which suspends the rollback by design, is not set.
`fix` reads the current entries at each step instead of one listing. A failing
deletion is skipped, as `|| true` does. Updates come after storage is done
(reefy-control is ordered after reefy-storage); without "trial_update" the
server updates confirmed devices only. `efibootmgr -N` works. set-next, status
and the creation of slot B are not modelled.

### App project

One instance of the module is one app. `stage` is the place of each thread in
`_reconcile_v2_app`, `RestartInstance` or a repair; a step is what happens between
two points where the thread can be overtaken: the project lock is held through
"pull" and again from "start" to the end, and free between (`PrepareCompose` and
`StartProject` are separate critical sections). The generation of an app is the
number of desired states sent. A removed app gets a generation as well, as
`_set_project_targets` gives absent projects a target nothing equals.
`Superseded` is false in RestartInstance, which runs outside a reconcile context.
`box` is the container with its restart policy; `Exits` and `DockerRestarts` are
the daemon's. A die event with exit code 0 is kept until a repair thread takes it.
It is lost in a crash, after which the boot reconcile repairs, and with the fault
"watch" while the watcher of `docker events` reconnects (dataplane 3246-3264: a second's
sleep, no `--since`, no reconcile), after which nothing does. `missed` is the history of
that: the container is down and its event was lost, or its repair ended for want of
an artifact.

Abstractions. A reconcile is submitted only when nothing is pending (that one
displaces a pending apply is the scheduler's subject). Health events for older
generations are dropped, as the server's comparison of `observed_generation`
does. What happens inside the init and start steps is `ComposeProject`. Writing
the failure marker is one step with the failure, and files can be written
(`ComposeProject` has the writes that fail). The number of repair threads is
bounded by `Repairer`, and a restart is made at most once per desired state.

### Control

`local` is the place of each thread in `_submit_and_wait_apply` and what follows it:
lock, call, mark, wait, check the marker, read the hash, publish it, wait for the
tunnel, say "ready" or "error", answer. `Deliver` is `_handle_command` on the MQTT
thread; a command id that is delivered again finds its answer or its running thread.
`Call` is a Varlink submission that is answered, `LoseAnswer` one that the data plane
heard and control did not, after which the same call is made again, `Refused` one that
fails for good. `Announce` answers a command without a state (`NoState`) at once, with
the same "State applied" (control 1601-1604, 999-1007). The request is then in the
hands of the data plane, which is the abstract module `ApplyQueue` with the state each
request carries (`payload`) and the saved one (`doc`). That the scheduler keeps this
contract is proved (section 5), so nothing of its inside is repeated here. What the
contract leaves open and control depends on is added as in the scheduler: which
request a submission joins, that a finished result stays until `History` newer ones
have ended, that a state in `Unreadable` leaves a record and no job (`Mislay`), and
that results of an earlier run (`Leftover`) may be there.

Abstractions. Only `apply_state` and reconnects in device mode. The state hash is
the state itself. Warnings do not matter. The answers and stages that are
published arrive in order (one MQTT client). A wait fails only when the data plane
is down; a submission may fail at any time. A crash of control forgets all its
threads and remembered answers; the server's retained hash stays.

### Compose project

`AppProject` sees the pull, the init services and the start of a project as a step
each; here its services, their dependencies and labels are visible. `stage` is the
place in `_reconcile_app_project_once`; `plan` is the set of init services whose
signature matches, `handled` the ones already cut from the execution document, `todo`
the optional items in document order. `RequiredServices` is the closure the plan pulls
and `RuntimeClosure` the one `up` starts. `failed` and `failedOpt` are the failure
records: a record names the document and the services it was written for, because that
is what its signature is a hash of. A record that cannot be written is given up
silently, as `_write_failed_sig_path` does: `reported` is the document that was last
reported as failed, `gaveUp` the same if its record reached the disk. compose.json and
the signature of an init service raise instead (`WriteFails`), and the reconcile ends
with nothing recorded. `done` and `running` say what Docker really did, `unsigned`
which init services completed without a signature: `docker compose run` runs what a
service rests on as well and only the one it names is signed. `Crash` loses the locals
of the process and keeps files and containers.

Abstractions. A signature is the definition it hashes. Which class an error has,
back-off, pruning of images and the shared deadline decide only whether an attempt
is repeated; here an attempt fails or not, `MaxAttempts` times. A pull gets all
images or none. A service that was started counts as running.

### Apps-v2 migration

One apply is the chain of actions from `Prepare` to `RemoveFile`, with the exits to
`Rollback` where the code raises. `old` and `new` are the containers of the legacy
and the v2 projects, `file` the four files that decide where a restart takes up.
`torn` is history: power was cut in a handoff, or its clean-up failed, and neither
was made good since.

Abstractions. Apps are handed over one after another, in the code in threads: an
app touches no other app's containers. Supersession inside a handoff is left out.
A `stop` that times out has stopped the container or not, as `down` has removed any
part of the project.

### Storage

`StorageProvision` has one action per command that changes a disk: the key partition
is scrambled and then written, each target is wiped and then formatted, the group
is made or extended, volumes are created and then get a file system. A kernel name
is a number that each boot gives to the disks anew; `wish` keeps the names a user
selected and the disks they stood for at that time. `vg.data` says that an app has
stored something. `JobFails` ends any job between two commands.

`BootStorage` adds the boot: `storage_discovery.wait`, `setup_internal_storage`,
`setup_data_partition` and `verify_mount` as one action per stage, the supervisor
of `storage_boot.py` beside them with its deadline at any moment, the guard that
keeps provisioning away and the marker on the ESP that survives a reset. Its `Next`
is the boot's steps or a step of the provisioning, which runs only when
`pc = "up"`.

Abstractions. Sizes, sectors and the legacy layouts are left out, damage is one of
three (group metadata, pool, file system) and happens while power is off. The
recovery of group metadata is one step here and `VgMetadata` there. A damaged group
on partition 4 is excluded (`UsbVgFault`): the script ends there at `set -e` with no
guard, so that `Guarded` fails and a later provisioning may format, as
`DataKept` then shows.

`VgMetadata` is one physical volume with one metadata area (old devices) or two. An
LVM command is the steps `LvmText`, `LvmCommit` per area and `LvmMessage` to the pool,
and power may be cut between any two. `Recover` is the validation of
`vg_recovery_plan.py`: it compares the newest surviving record with what the pool
itself knows. The evidence is written by `Preserve`, `RenameBundle`, `SyncDirectory`,
of which a power cut keeps what was synchronised. `Inspect`, `Vgck` and `Verify` are
the attempts of `pv_redundancy.py`. Damage does not hit the newer of two copies that
differ, a state that lasts for the moment between two sector writes (`TornDamage`):
with it LVM reads the older copy and `InSync` fails, in LVM and not in this code.

### App volumes

`call` is a pass over the volumes, of the boot oneshot or of an apply, from
`NextVolume` through `_ensure_volume_lv` (look, create, mkfs, mount, tag, each with its
failure and the clean-up the code has for it) to Docker or to `Compose` and
`ReclaimVolume`. `dir` is data at the path while nothing is mounted there, `kept` data
moved to the recovery area; `run` is where the containers of the app write, which
is decided when they start. A failed repair is remembered for the boot (`tried`).

Abstractions. A cap is only whether there is one. An app has one volume.

### Artifacts

`stage` is the place of a `reefy-artifacts` process and `Preparing`, `Collecting`
and the `May...` operators say which file lock it holds there, so that a kill lets go
of exactly those. `Enter` is the look at an admitted manifest, `TakeSlot`, `Fetch` and
`Admit` the download, `MountLayer`, `Activate`, `Hook`, `RecordActive`, `Lease` the rest
of `prepare`, `Collect`, `Drop` and `Sweep` the collection after it. `ready`, `hooked` and
`cut` are history.

Abstractions. A digest is a model value; bytes are valid or the fetch fails. Two
manifests of one payload are two artifacts with the same layers. A `umount` that times
out in a collection (it is not caught, and the preparation before it is reported
failed) counts as one that failed and was skipped: `ready` are the digests a
preparation has leased, which it has by then. A process that is
killed between the hook and its record leaves a payload the store knows nothing of:
`OneProviderPerBoot` excepts the providers in `cut`.

## 3. Runs

All runs use every interleaving; the bounds say how much happens.

| Run | Shows | Bounds |
|---|---|---|
| scheduler | no live request is lost, no wake-up is lost, success means deployed, `ApplyQueue` is implemented, every waiter is answered, finished results are final across a crash | 3 requests, 1 client, 3 states (one refused, one unreadable), all four triggers, 4 kinds of failure, history of 1, 1 crash, fairness |
| boot_safety | BootNext never names the slot in use and the inactive one holds the command's image, BootOrder reaches a loadable slot during a commit, never two blank slots | 3 images, 1 bad, 1 updater, 8 kinds of fault, 1 cut |
| boot_live | the fallback is always a proven image, a bad trial ends on a proven image, a good one becomes the default | 3 images, 1 bad, 2 racing updates, failing writes, 2 cuts, fairness |
| app_project | stopped stays down, deployed runs the newest document, removed is gone, the last health is true, an exit with code 0 that was seen is repaired | 2 desired states, repair thread, restart call, 7 kinds of failure, 1 crash, fairness |
| control_apply | "State applied" is true of a command with a state, one final answer per command, only the newest request's thread publishes, every command thread ends | 4 commands (one empty, one unreadable), 1 reconnect thread, 2 requests, 2 arrivals, 1 lost answer, 1 crash of either process, 1 leftover result, history of 1, fairness |
| compose_safety | init services complete before what rests on them, no signed one runs again, a recorded failure is left alone | 7 services (4 init, 4 labelled optional), 3 generations of 2 documents, 2 failures (files included), 1 crash, 1 forced retry |
| migration_safety | one side or the other, no app lost, a commit is final | 2 apps and the system, any number of applies, failures and cuts |
| storage_safety | data is never formatted, a complete pool takes no disk, a healthy device mounts | 2 disks and partition 4, 2 boots, 2 keys, 1 damage |
| vg_safety | metadata describes the pool, evidence first, a reported repair survives a damage | 3 names and a snapshot, 5 transactions, 5 records, 2 damages |
| volume_safety | data of a volume in use is kept, fallback data is never hidden, apps see their data | 1 volume, any number of boots, applies, damages and cuts |
| artifact_safety | ready stays whole, admitted has its blobs, one payload per provider and boot, made for this build | 2 processes, 4 artifacts of 2 providers, made for one of 2 builds, 2 transfer slots, 1 version kept, 1 fault |

In storage_safety the two disks are symmetric, in migration_safety the two apps,
in artifact_safety the two processes. `MaxArrivals` counts deliveries, reconnects and
the reconciles the data plane starts itself. `GoodTrialKept` speaks of boots without
a power cut: a cut during a trial is a failed trial, by design. `StoppedStaysDown`
and its neighbours speak of histories in which no restart was accepted under an
older desired state (`NoStaleRestart`), or none at all (`NoRestart`), because the code
does not keep them otherwise (below).

Why the bounds are enough to be interesting: three requests are one running, one
pending and one that displaces it; two cuts are one in an update and one in its
recovery; three images are the factory image, one that is good and one that is bad; a
repair thread of the older generation meets the worker of the newer one and a restart
call; two commands that can be applied and a reconnect, with two requests to give, are
the newest request, the one it displaces and one that joins. The app of compose_safety
has an init chain, an init service on top of a running one, one that is labelled
optional and required all the same and written before the service it runs on, and an
optional service that needs both; its documents change, and change back. Two boots are
one that provisions and one that finds what the first, a cut or a lost disk left. Five
records are a creation with its message and a second command cut in the middle, on top
of the first record. Two processes are one preparation and one collection, or two
preparations of one provider.

One run is expected to be violated: storage_key states what a docstring says of the
keys and the code does not keep.

| Run | The code | Said in |
|---|---|---|
| storage_key | after a provisioning that failed half-way, one with another selection overwrites the key and extends the same group: its members need two keys and only one is left | storage.py:423 |

More configurations reproduce disagreements of the same kind. They are kept beside
the runs and are not part of them; `tlc -config X.cfg M` shows the trace.

| Configuration | Module | Violates | The code | Said in |
|---|---|---|---|---|
| SchedulerDrains.cfg | MCApplyScheduler | NewestPayloadDrained | a reconcile takes the place of a pending newest apply | docs/desired-state.md:112-114 |
| SchedulerReapplies.cfg | MCApplyScheduler | ReconcileReapplies | after a refused state, reconciles skip the app and succeed | io.reefy.Reconciler.varlink |
| BootDuplicates.cfg | MCABBoot | DuplicatesCleaned | duplicates left by a cut are never cleaned, and no later update can be confirmed | bin/reefy-efi:167 |
| BootUnproven.cfg | MCABBoot | RepairKeepsDefault | recreated entries make the other slot the default | docs/a-b-firmware-updates.md:11 |
| BootTrialUpdate.cfg | MCABBoot | PriorDefaultCanBoot | an update on a trial erases the fallback | docs/watchdog-architecture.md:10 |
| BootTwoUpdates.cfg | MCABBoot | CopiesTheNewImage | one update installs the other's half download | docs/a-b-firmware-updates.md:81 |
| BootStaleLabel.cfg | MCABBoot | ArmsOwnDisk | when a wrong entry cannot be deleted, BootNext is armed for an entry of another disk | docs/a-b-firmware-updates.md:38 |
| AppRevived.cfg | MCAppProject | StopOutlastsRestart | a restart undoes a Stop | dataplane 849-853, tests/test_dataplane.py:2945 |
| AppStaleCompose.cfg | MCAppProject | RestartRunsCurrentCompose | a superseded repair puts its older document back, a restart runs it | dataplane 829 |
| ControlClaims.cfg | MCControlApply | FailureClaimsNothing | an older command says "ready" after a newer reconcile failed | docs/desired-state.md:131-132 |
| ComposeInitTwice.cfg | MCComposeProject | InitNeverRepeats | `run` of an init service written before the ones below it runs those too, and they run again | dataplane 1885-1914 |

Stated in the modules and violated by the code in the same way, when the name is
put into the INVARIANTS or PROPERTIES of the configuration of the run, with the
constant that is given:

| Run | Violates | The code |
|---|---|---|
| app_project | RemovedIsGone, with "down" in `Faults` | a removed app's container lives on when `down` fails (docs/storage-architecture.md:180) |
| app_project | HealthIsAuthority | "running" for a container that has exited: its event was lost in a reconnect ("watch"), or its repair found no artifact just before another thread reported "running" ("artifact") (docs/desired-state.md:127) |
| app_project | EveryExitIsRepaired | an exit while the event watcher reconnects is not repaired (dataplane 3246-3264) |
| scheduler | EveryRecordScheduled | a state that cannot be read raises after its record was written: "queued", with no job, until a restart (dataplane 355, 381-388) |
| control_apply | SuccessNamesAState | a command without a state is answered "State applied" (control 1601-1604) |
| compose_safety | ReportedFailureSticks | when the failure record cannot be written, the failed document is pulled again (dataplane 3005-3011) |
| compose_safety | OptionalAfterInits | an optional init service runs although the one below it failed, and the service on top starts (tests/test_dataplane.py:1331) |
| compose_safety | OptionalRecordsEarned | a supersession noticed at an optional start is recorded as a failure of the service (dataplane 2375-2391) |
| migration_safety | NeverSplit | a cut in a handoff leaves both projects half up, and so it stays until the next apply |
| migration_safety | StoppedIsDown | a stopped app's legacy containers are brought back by a rollback |
| storage_safety | Guarded, with `UsbVgFault = TRUE` | the script ends at a damaged group on partition 4 with no guard |
| vg_safety | InSync, with `TornDamage = TRUE` | LVM falls back to the older of two copies |

`InitRunsOnce` and `FailureSticks` are what remains of the two compose properties above: a
signed completion is never repeated, a recorded failure is left alone. `HealthSettles`
says in its exceptions where health is not the truth: an exit in `missed`, and a restart
that failed (it leaves "starting" behind) or ran an older document. `SuccessWasApplied`
speaks of commands with a state, `LiveRequestsScheduled` of all records but those
of `Strand`.

Larger instances and further invariants are in SchedulerSafety.cfg (two clients,
failing unlinks, `HistoryKeepsNewest`), SchedulerLive.cfg (`EveryRequestEnds`),
AppSafety.cfg (three desired states, a bad document, two repair threads) and
ControlSafety.cfg (three requests and arrivals). They pass, as do `PulledBeforeStart`
(what starts was pulled) and `OptionalNeverFatal` in the instance of compose_safety.
Each module has a type invariant `TypeOK`; it holds in every instance and is proved
for ApplyScheduler, AppsMigration, AppProject and ABBoot.

With the fault "overwrite" `NeverBricked` fails too: after a failed overwrite of
the running slot, a retry formats the inactive slot, which by then holds the last
whole image.

`CHECK_DEADLOCK FALSE` is set where the system may stop: a device that is never
updated again (ABBoot), an app for which nothing more is sent (AppProject), a
server that sends no more commands (ControlApply), a machine that used up its
boots (BootStorage) or its records and transactions (VgMetadata).
ApplyScheduler has `Quiet` for its used-up requests and is checked for deadlock.

## 4. Fairness

- `ApplyScheduler`: weak fairness of the worker (a Python thread; every subprocess
  it runs has a timeout), of waking waiters, and of restart and recovery (systemd
  `Restart=always`, the recovery runs before anything is served). None for clients,
  who may never call, or for crashes.
- `ABBoot`: weak fairness of power-on, of the boot chain and of the watchdog (units
  wanted by multi-user.target, both with bounded waits) and of a started update.
  None for the command, whose arrival is the server's choice, or for power cuts.
- `AppProject`: weak fairness of the worker, of each thread that has begun, and of
  the thread that reads Docker's events (it reconnects in a loop, and what it missed is
  no longer an event). Taking the
  project lock is weakly fair only: the checked property needs no more. A restart
  call that has begun goes on; that one is made is nobody's duty.
- `ControlApply`: weak fairness of every thread (the tunnel wait and Varlink calls
  are bounded) and of the data plane, whose worker ends every job and which systemd
  restarts. None for deliveries, reconnects, lost answers, or crashes.

The storage, migration, compose and artifact modules state no fairness: their
properties say what may never happen, and a device may stay off for ever.

## 5. Proofs

### Apply scheduler

`ApplyScheduler_proofs` holds for all sets of requests, states and clients, every
history limit, set of faults and number of crashes. Assumptions are
`SchedulerAssumption` and `TerminalLimitAssumption`, evaluated by TLC in every run.

- `SchedulerInvariant`: `Spec => []Inv`. `Inv` is the inductive invariant:
  `TypeOK`, `LiveRequestsScheduled`, `NoLostWakeup`, and four parts they need.
  `FreshUnused`: a request without a job has no record, so a new one disturbs
  nothing. `JobsTyped`: running and pending requests have real jobs. 
  `HoldsNothingDown`: a process that is down runs nothing, so nothing is left for
  recovery but records. `OnlyCallersSleep`: only a client with a call sleeps.
  Neither safety property is inductive alone: a record may be "queued" with no job
  while the process is recovering, and a sleeper needs a worker to be woken by. A
  record of `Strand` is in neither job slot (`JobsTyped`), so it disturbs no other.
- `TypeCorrect`, `NoRequestLost`, `NoWakeupLost` follow.
- `ResultsDurable`: if file writes do not fail, finished results are final. It
  rests on `FilesLag` (memory and file of a record differ only in the ways a failed
  write or a prune allows).
- `SchedulerImplementsQueue`: the refinement. Every submission maps to an abstract
  submission, a join or a failure; `Begin`, `Finish`, `Drain`, `Crash` and recovery
  map to the abstract steps, `Strand` to the abstract `Strand`: a request that exists
  and was never accepted, which only a restart ends. The rest stutters. The mapping takes a missing record
  of a used request as "forgotten".

- `SuccessDeploys`: a success is never hollow. `DeployInv` says that what the
  generation check compares with (`Target`) belongs to the newest apply, that the
  last job of the queue is the newest one (`TailIsNewest`), and that the app is of
  the saved state once the last attempt at it has succeeded (`Deployed`). The
  property speaks of the moment when nothing is pending; what keeps it is that a
  submission changes the target and the newest apply in one step.

The store is used through lemmas about its operators only (`CreatedStore`,
`RecordedStore`, `PrunedStore`, `FinishedStore`): all that matters of a prune is
that it drops finished records.

### Apps-v2 migration

`AppsMigration_proofs` holds for any number of apps and applies, with or without
power cuts and failing stops (`MigrationAssumption`; the finiteness of `App` is not
used). `MigrationInvariant`: `Spec => []Inv`, of `TypeOK` and four parts.
`MarkerLast` says where the marker can exist, `LegacyGone` that the legacy project
is down before it does, `RollbackStops` what a clean rollback has stopped so far, and
`LegacyWhole` that a device before the move, with no fault behind it, runs the whole
legacy project and nothing of v2. The three properties of the run follow from
`LegacyGone` and `LegacyWhole` at once; neither is inductive, because the state between
two applies says nothing about a pass in the middle. The steps of the forward path
share the lemma `ForwardKeeps`: they touch neither files nor history and end on the
path or at the start of a rollback.

### Artifact store

`Artifacts_proofs` holds for any number of processes, artifacts, layers, builds,
slots and faults (`ArtifactsAssumption`). `StoreInvariant`: `Spec => []Inv`.
`Locks` is the meaning of the file locks (a collection is alone, providers of one
name are not activated at once), `Progress` what a preparation has done at its
stage, `Providers` that a hook runs only while its provider has no record and that
what was hooked is recorded, about to be, or cut off, `StoreWhole` that nothing
a collection drops is ready and that it has kept or is dropping every manifest. The
four properties of the run are part of it or follow; `ActivatedOnce` even gives
one digest, not one payload, per provider and boot, since a second digest of the same
payload finds the first already active. The order of the leases plays no part: the
number of versions kept matters to disk space only.

### App project

`AppProject_proofs` holds for any number of repair and restart threads, documents,
desired states and crashes (`AppAssumption`). `CoreInv` is inductive and carries
`AppTypeCorrect`, `StopLasts` and `ComposeIsCurrent`. Its heart is `Generations`: the
target is the newest generation or, in a fresh process, unset; no thread works for
a newer app than the saved one; without a target all work for the saved one. So a
thread of an older app is superseded before it raises a container. `Roles` ties a
stage to the app it can be reached with, `Held` is what the holder of the project
lock may rely on.

- `RemovalIsComplete` needs that `down` does what it reports (`"down" \notin
  Faults`): `_remove_absent_v2_projects` does not look at its result, and TLC shows
  the container that lives on. Beyond `CoreInv` it needs `FileInv`: a container has
  a compose.json, so that the removal finds it.
- `HealthIsTrue` has no hypothesis: artifacts fail, events are lost.
  `HealthInv` says who is still at work for the newest app as long as there is no
  final health, and that a "running" that was published, or is about to be, either
  runs, or has a thread or an event that attends to it, or is `missed`.

### LVM metadata

`VgMetadata_proofs` holds for all sets of volumes, every number of transactions,
records and damages (`VgAssumption`). `InSyncAlways` rests on one notion, `Sound(r,
th)`: record r describes pool th as it will be once the message of r has been
delivered. The committed record is sound (`DiskInv`), the record a command is about to
write is, and so is the plan of the recovery (`Planned`). For the plan the history on
the disk has to be trusted: a record of it agrees with the pool about every volume
whose transaction is that of a device (`Remembered`). Its hypothesis `~TornDamage` is
the one of the run. `EvidenceIsFirst` and `RepairSurvives` have small invariants of
their own and hold for damage of every kind.

### Control

`ControlApply_proofs` holds for all sets of commands, reconnect threads, requests and
states, any history limit and any number of lost answers and crashes
(`ControlAssumption`). One inductive invariant, `Inv`, carries the three theorems.
`SuccessIsTrue`: a waiting thread's request carries the thread's own job
(`Requests`), and what has succeeded carries a state that was applied (`Carried`);
a thread that joins a request of another one must have asked for the same. A request
left by `Mislay` is waited for by nobody.
`AnsweredOnce`: nothing is remembered of a command that runs, and what is remembered
is what was told (`Answered`). `PublishesInOrder`: requests are numbered as they are
accepted, and the lock covers submission and marker (`Order`, `Marked`), so that a
thread that finds its request to be the latest waits for the newest one. It is an
action property, from the same invariant.

### A/B boot

`ABBoot_proofs` holds for all images and update threads, any number of Boot####
variables and power cuts (`BootAssumption`, `NumAssumption`). `Base` is `TypeOK` with
the stages each process may be at (`Roles`), what holds without power (`Awake`) and
the entries a commit has created (`Made`). It carries `BootTypeCorrect` and is under
everything else. The actions are used through lemmas that say what each does with
the UEFI variables (`PowerOnSteps` to `DeleteSteps`).

- `OneSlotIsWhole` (`NeverBricked`): the mounted slot is whole, but while it is
  overwritten from a whole inactive one (`Intact`). Hypotheses: "overwrite" does not
  happen, and where the firmware may drop BootNext there is at most one update
  (`Alone`). With two, one thread may format the slot from which the other
  overwrites the running one. Power cuts and all failing efibootmgr calls are
  included.
- `CommitStaysBootable` (`OrderBootable`): a slot with a valid entry has one in
  BootOrder (`Reached`), and the old pair is there until the fresh one is written
  (`Kept`). That `fix_entries` goes by labels alone does no harm here, because a label
  never names valid and wrong entries together (`Pure`). Hypothesis: no update
  before the running slot is confirmed.
- `ArmsWhatItWrote` (`ArmedSlotIsWritten`): how far an update has come says what the
  inactive slot holds and which entry it will arm (`Written`). The property has a part
  for any number of racing updates, which arm the inactive slot of this disk where wrong
  entries can be deleted, and one for an update that is alone (`Alone`), which wrote
  what the command asked for and never arms the slot in use, even among entries of
  another disk that cannot be deleted: a label names its own slot or none of this disk
  (`Own`). The one hypothesis is that no update comes before the running slot is
  confirmed. BootTwoUpdates.cfg, BootTrialUpdate.cfg and BootStaleLabel.cfg show what
  goes wrong beyond: the other thread's image, the lost fallback, a BootNext that
  names an entry of another disk.
- `PowerCutIsSafe` (`FallsBackToProven`): a device is `Anchored`: all that can be
  started is proven, or the entries are repaired and begin with a proven slot. A
  commit begins only when both slots are proven, an update only when the running
  one is the default (`Progress`), and the entries the repair makes always find
  a free number (`Room`). The hypotheses (`Dependable`) are two Boot#### numbers or
  more, and none of the faults "create", "clean", "order", "next", "entries_lost" and
  "trial_update": power cuts, failing writes and deletions stay, with any
  number of racing updates.

For all four the run that checks the property is within the hypotheses, and TLC
finds the property violated under each of the faults that are excluded, and with a
second update where `Alone` excludes it.

### Not proved

Only model-checked: liveness (`EveryWaitAnswered`, `EveryCommandEnds`,
`ExitedComesBack`, `BadTrialRollsBack`, `GoodTrialKept`: fairness and ENABLED are
outside the prover's reach); `HistoryKeepsNewest` (cardinalities of a sorted prefix);
`TypeOK` of Artifacts (it speaks of sequences filtered by a recursive operator);
the properties of ComposeProject (its closures of dependencies are recursive, and
what they contain needs induction over data), of BootStorage and of AppVolumes
so far.

## 6. Plan and limits

Every component is checked by TLC. Proofs:

1. Done: ApplyQueue, ApplyResults, ApplyScheduler; AppsMigration; Artifacts;
   AppProject; VgMetadata; ControlApply; EfiVariables and ABBoot. All safety
   properties their runs check are theorems.
2. Next: BootStorage and StorageProvision, `DataKept` first (the key and the wipe
   of a disk are apart by a boot and a power cut), then `CompletePoolTakesNoDisk`;
   AppVolumes, `FallbackKept` and `VolumeDataKept`.

Not modelled:

- connection and provisioning of control (modes, certificates, reconnects), slot
  creation, bulk storage guard, RPC client, Wi-Fi, infrastructure watchdog, backup,
  terminal bridge and log publisher: each keeps little state and touches that of
  the modelled parts at one point only, which appears there as an action of the
  environment (a reconnect, a volume that exists, a restart of Docker);
- metrics and formatting, journal and core dumps, policies, boot scripts and host
  identity: straight sequences or rendering without shared state;
- build, packages, CI and developer tools, and the virtual machine collection,
  which run apart from the device's own state.
