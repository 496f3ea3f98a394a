# Verification of esxi-vm-backup-tool

TLA+ models of the backup service in `src/src/esxi_backup`, TLC runs that check them on
small instances, and TLAPS proofs of what matters most for every value of the constants.
Line numbers are those of the commit the project was written for; `PROJECT.json` maps
every definition to the lines it models.

## 1. The system

One Python process serves a web interface (FastAPI), runs scheduled jobs (APScheduler) and
backs up VMs of an ESXi host and volumes of Portainer containers into a deduplicating
repository on a mounted drive. A shell script installs updates over the running service.

| Component | State | Operations | Interacts with |
|---|---|---|---|
| Admission (`service.py` `_begin_backup`, `_end_backup`, `cancel_backup`, `prepare_update`, `cancel_update`) | `_active_vm_ids`, `_cancel_events`, `update_pending`, all under `_cancel_lock` | take or give back a slot, set a cancel event, close and open admission | every backup thread, web routes, installer |
| VM backup (`service.py` `backup`) | local variables of a thread, the snapshot on the host | create row, snapshot, export, last look at the cancel event, manifest, verdict, removal of the snapshot, release | admission, catalog, store, ESXi |
| Container backup (`service.py` `backup_container`) | as above, the paused container | pause, archive the volumes, unpause | admission, catalog, store, Portainer |
| Catalog (`repository.py`) | tables of one SQLite connection under `_db_lock` | rows of jobs, OVA builds, restores, schedules; migration at a start | everything |
| Chunk store (`repository.py` `store_stream`, `write_manifest`, `delete_vm`) | files under `chunks/` and `manifests/`, `chunk_index`; `_write_lock`, `_db_lock` | deduplicated writes, publication of a manifest, reclamation | backup threads, tasks, web routes |
| Mirror and failover (`repository.py` `sync_mirror`, `failover`, `_select_initial_root`) | two roots, the active one, `_mirror_lock` | copy chunks, manifests and catalog; switch to the copy | backup threads, schedules, routes, drives that go and come |
| Scheduler (`scheduler.py`) | tables of definitions, timers in memory, the configuration's exclusions | save, delete, rebuild at a start, run a policy | web routes, service |
| OVA builds and restores (`service.py` `export_ova_for_web`, `restore_to_esxi_for_web`) | rows `ova_exports`, `restores`, `exports/*.ova(.partial)` | background tasks | catalog, store, `delete_vm` |
| Hot export (`esxi.py` `export_hot`) | a lease, or a clone on the host with a process id file | lease, SSH clone, cancellation, clean-up | one backup thread, the host |
| Installer (`scripts/install.sh`) | its place in the script, an EXIT trap | poll `/update/prepare`, replace, restart, `/update/cancel` | admission |
| Notices and storage refresh (`web.py` `acknowledge_task_errors`, `queue_storage_refresh`) | `failed_jobs_acknowledged_at` in memory and in the file; a status under a lock | acknowledge, save settings; queue, run and settle a refresh behind a response | catalog, configuration, ESXi |
| A second service (`web.py` `update_settings`, `cli.py`) | slots, events and flag of its own over the same catalog and host | opened while backups of the first one run | catalog, admission |
| SMART labels (`esxi.py` `media_health`) | none | a score and a label from the counters of a device | storage refresh |
| Portainer cache, pages, configuration | a cache, none | mostly reads | |

### What is hard here

- **Interleaving.** Backup threads, tasks, routes, timers, mirror threads and the installer
  meet in three locks that each cover a part: `_cancel_lock`, `_write_lock`, `_db_lock`.
  `delete_vm` decides under the second catalog lock about files that are written under the
  first; `sync_mirror` takes neither but for the catalog.
- **Steps that are not one.** A failed backup records its failure, gives its slot back and
  removes its snapshot in three steps; a policy is saved by a look, a removal, a write and
  an addition; the configuration is read, copied, written and assigned without a lock.
- **Partial failure.** Catalog writes happen in exception handlers and `finally` blocks,
  where another exception takes the rest of the block with it.
- **Crashes.** Rows outlive threads; files outlive uncommitted rows; snapshots, clones and
  paused containers outlive the process.
- **Stale reads.** Timers carry the VM list they were made with, a policy its own, a
  restore the lookup of its point, a mirror the `self.root` of its first line.

### What makes each component correct

- *Admission*: no more slots than the limit; slots and cancel events describe the same
  holders; a pending update admits nobody, so what the installer was told stays true.
- *Backups*: a verdict is final and, for a success, has its manifest and no snapshot; one VM
  is worked on by one job; a job that is over has settled its slot, row, snapshot and pause.
- *Chunk store*: a manifest refers to chunks that exist; a deletion leaves the points of
  other VMs whole; a chunk is written once; uploads and deletions do not block one another.
- *Mirror*: what a catalog lists can be reconstructed beside it; a requested mirror is made.
- *Scheduler*: timers are those of the definitions; exclusions hold and are obeyed.
- *Tasks*: no deletion under a task, no row that runs without one, no short file served.
- *Hot export*: nothing stays on the host, and nothing is removed under a clone that runs.
- *Notices*: an acknowledged failure stays acknowledged and no other is kept quiet; of all
  requests one refresh runs, and it ends; a label does not depend on the order of a set.
- *Two services*: what one opens, marks and releases does not take a cancel event, a verdict
  or a manifest from the jobs of the other, but for the rows it marks as interrupted.

`PROJECT.json` lists the hazards line by line, with the property that covers each.

## 2. The modules

```
BackupIds ── Admission ─┐
        └── Catalog ────┴─ BackupJobs ─┬─ VmBackup ────────┐
              │                        └─ ContainerBackup ─┴─ BackupService ─┬─ UpdateDrain
              └─ ChunkStore                                                  └─ TwoServices
MediaHealth ── Monitoring
Mirror      Schedules      RecoveryTasks      HotExport

abstract:  SlotPool   (instantiated by BackupService)
           PointStore (instantiated by ChunkStore)
proofs:    x_proofs over x, for BackupService, ChunkStore, Mirror, Schedules, RecoveryTasks,
           HotExport, Monitoring (with MediaHealth); Compositions_proofs over UpdateDrain
           and TwoServices
```

Each `MCx` module gives constants for TLC and declares the symmetry; nothing else is
in them. Operators called *seeded bugs* in the modules are variants of the definition
below them that plausible mistakes would give; `PROJECT.json` pairs each with the property
that notices it. They are used by no specification.

**BackupIds** — jobs, targets, and the rule that a container's slot is `container:<id>`.

**Admission** — the three variables of `_cancel_lock`. Each operation is one action since the
code holds the lock throughout. `Refused` is the three refusals of `_begin_backup`;
`CancelBackup` without an event is not a step.

**Catalog** — `status` of each job and the set of `manifests`. A `_synchronized` method is one
step. `InterruptRunning` is the part of `_migrate` that fails the rows that were running.

**BackupJobs** — what both kinds of job have: program counters, targets, the outcome of the
body, `handle` (the thread has a handle of what it must undo), the fault classes:
`"catalog"` (a repository write raises), `"cleanup"` (a snapshot removal or an unpause
raises), `"reply"` (the host did what it was asked and the call raises all the same),
`"crash"`. A call to ESXi or Portainer may always raise.

**VmBackup**, **ContainerBackup** — the two bodies, one action per call that can raise or that
others can see, with every `except` and `finally` path. The export is one step that ends well, raises, or
is cancelled: its own steps are in `HotExport` and `ChunkStore`. Progress columns are left
out, except where the write of one raises and so takes a clean-up with it
(`service.py:427`). Two reads from the host lie between the admission and the `try` (`service.py:260`, `:270`):
`Create` and `Inspect` may end the thread there, with its slot taken and, after the second, its row running.

**BackupService** — all jobs of one process, the cancel and update requests, and `Restart`.

**SlotPool** — what admission promises, without sets, events and threads: at most `Limit`
holders, one for each target, none that enters while it is closed. `BackupService` maps its
holders and its flag to it (`SlotsFormPool`).

**TwoServices** — two services over one catalog and one host. `New` is `BackupService` with slots,
events and a flag of its own, and the jobs of `Second` are its jobs. `MakeSecond` is saved settings or a
command: opening the repository marks the rows that run as failed, whatever thread they belong to.

**UpdateDrain** — `install.sh` from its first poll to its EXIT trap, over `BackupService`.

**ChunkStore** — `consume` with its look, write, index row and position; the manifest; the
row; `delete_vm` unlink by unlink. `durable` is the catalog as of the last commit: index
rows are committed by whichever operation commits next on the shared connection. A chunk
is its digest; a stream is a sequence of digests. `torn` are manifests a crash cut off in the middle
(`write_manifest` writes in place).

**PointStore** — what a repository promises of recovery points: one that is there goes only by a
deletion of its own VM. `ChunkStore` maps its whole manifests to it (`PointsArePromised`).

**Mirror** — the two locations, the catalog `self.db` is open on (also one in memory, and one
whose file was replaced), backups in three steps, `sync_mirror` folder by folder, its
waiting threads, `failover` and the choice at a start.

**Schedules** — definitions (policies, and schedules of one VM), timers, two requests at a time
in the steps of the code, policies that run VM by VM, `delete_vm`'s part, the three
updates of the configuration, `Restart`, and the replacement of the service by new settings
(after which runs go on with the old one and its exclusions: `RunOld`, `oldConfig`).

**RecoveryTasks** — the two tables, the partial file, its rename, and background tasks of the web interface. The
route starts the row and the task starts it again, outside its `try` (`NotStarted`). A file
has a number, since names change under tasks that hold it open.

**HotExport** — client and host. The clone runs on the host by itself and the client knows of
it through the connection and a file with a process id, which survives from disk to disk.

**Monitoring** — the rows' times, the time of the last acknowledgement in memory and in the file, its
three updates, and the refresh: the mark under the lock, the response, the background task. A
clock that no two events read alike stands for `datetime.now`.

**MediaHealth** — `media_health`, the running score (`Scores`, a recursive function of the place in
the walk) over a sequence of counters; the order is quantified over.

History variables (`overlapped`, `raced`, `outdated`, `deleted`, `asked`, `hurt`, `removed`,
`unresumed`, `contended`, `wanted`, `breach`, `unseen`, `cutOff`, `broken`, `interrupted`, `dismissed`, `fresh`, `lost`) record what happened so
that a property can name the causes of an exception. No guard reads them.

## 3. The runs

| Run | Instance | What it shows |
|---|---|---|
| `service` | 3 jobs, 2 VMs, 1 container, limit 2, failing clean-ups and crashes | `TypeOK`, `SlotsMatchHolders`, `ExclusiveUse` |
| `drain` | 2 jobs, a VM and a container, limit 2, an installer, no faults | `ReadyStaysDrained`, `DoneIsSettled`, `PausedIsHeld`, `SlotsFormPool`; `DrainEnds`, `SlotReleased`, `CancelHonoured` |
| `swap` | a job of each of two services, a VM and a container, every fault, deletions | `SuccessIsComplete`, `LiveIsCancellable`, `ManifestHasRow`, `VerdictKept` |
| `chunks` | 2 jobs, 2 VMs, 2 chunks, crashes, one deletion that breaks off | `TypeOK`, `LossNeedsOverlap`, `TornNeverOffered`, `PointsArePromised`, `StoredOnce`; `UploadEnds` |
| `mirror` | 1 backup, 2 mirror threads, 5 drive events or restarts, copies that raise | `TypeOK`, `GapHasCause`; `Mirrored` |
| `schedules` | 1 policy, 2 VMs, 3 requests by 2 threads, deletions among them, a restart or replacement | `TypeOK`, `TimersFollowRows`, `ExclusionsKept`, `ExcludedAreSkipped` |
| `recovery_tasks` | 2 points, 4 tasks by 2 threads, files of 2 pieces | `TypeOK`, `RunningHasTask`, `ServedIsWhole`, `DeleteSparesTasks` |
| `hot_export` | 3 disks, broken connections, failing clones | `TypeOK`, `LeavesNothing`, `NothingPulledAway`; `CancelEnds` |
| `monitoring` | 2 backups, 2 requests, notices from the newest row, 4 readings of the clock, 750 SMART documents | `TypeOK`, `NoticesFollowUsers`, `RefreshIsOne`, `LabelFollowsDamage`; `RefreshEnds` |
| `double_release`, `chunk_loss`, `mirror_loss` | as small as the trace allows | violations, see section 6 |

Deadlock is not checked: the jobs, requests, tasks and events of an instance are finite in
number, and a system that has done them all stops. The liveness properties say what must
not stop before.

**Why the bounds are enough.** `Limit` 2 with three jobs and three targets has a job that is
refused for the limit and one that takes a place given back; two of the jobs may want one VM. A double
release needs a limit of one and three jobs on one VM (one that fails, one that loses its
slot, one admitted in excess). One job of each service is enough for `swap`, since the services share
rows and not slots. Two uploads and two chunks give every overlap of deduplication and
deletion; a stream of two chunks has a middle. One backup is enough for `GapHasCause`, which
relates one row, one manifest and one set of chunks; five events allow failover, return, and a
second failover. Three requests are two that overlap and a third, perhaps a deletion, that meets the result. Four
tasks are two that overlap on one point and two more afterwards. Three disks have a
first, a middle and a last clone, and so a stale process id file. Four readings of the clock
are the start and the end of one backup around an acknowledgement, and one more event; with `Newest` 1 a
failure can leave the list. Where there is a proof, the bounds do not matter to the property.

**Fairness.** Weak fairness only. `Upload(j)`, `DeleteStep`, `SyncStep`, `RefreshStep(r)`: a thread that can
run does; locks are Python locks given back on every path, and the models show that no lock is held for
ever. `JobStep(j)` likewise, **but not while the thread polls a task of the host** (`Polling`):
`wait_for_task` (`esxi.py:29`) has no limit, and nothing in the code makes the host answer.
`DrainEnds` and `SlotReleased` therefore assume `HostAnswers` of the jobs they depend on: one backup
whose task never ends holds the update up for ever, and its own slot and no other. So does a backup that
a read from the host strands before its `try` (`Stranded`): nothing gives its slot back, `SlotReleased`
names it, and an installer that drains then polls for ever (`DrainEnds`).
`Prepare(i)` while draining: the script loops. `HostLease`, `HostWrite`, `HostExit` in `HotExport`: the
host ends what it has begun. `ClientStep` there: a call on a connection returns or raises. No
fairness for drives, faults, cancels, requests or timers. `drain` has no faults: with catalog faults
a slot can be leaked for good (see the hazard at `service.py:421`), and `DrainEnds` and
`SlotReleased` are then false.

## 4. The proofs

Each `x_proofs` module proves theorems of the specification of `x` (`Compositions_proofs` of `UpdateDrain` and
`TwoServices`) for every value of its constants: any sets of jobs, VMs, containers, chunks, streams,
points, requests, policies and documents, any limit and bound. The assumptions on the constants are
named in the modules that declare them. A theorem that needs more says so in its `ASSUME`; the
inductive invariant is named and commented in each module. With the exception of liveness every
property that a passing run checks is stated by a theorem.

**BackupService** (invariants `JobKinds`, `BoundInv`, `SlotInv`, `RowInv`, `UseInv`, `UseOrTwice`)

- `TypeCorrect`, under every fault. Not inductive alone: `Pause` adds the target to the paused
  containers, so `JobKinds` says that a job in the body of a container backup has a container, and
  one in the body of a VM backup a VM.
- `AdmissionBounded` (`AdmissionBound`), under every fault, restart and double release: the set of slots grows
  only behind the look at its size. `AdmissionClosed` (`ClosedMeansClosed`).
- `SlotsAreHolders` (`SlotsMatchHolders`) and `UseIsExclusive` (`ExclusiveUse`), under every fault and restart. Where a
  failed backup could not remove its snapshot the code gives a slot back twice (`double_release`),
  and both properties end there (`ReleasedTwice`). What has to be shown is that nothing else breaks
  them. `SlotInv` says at which steps of its body a job has its event, so that nothing is
  released twice. The invariant is `UseOrTwice`: what the rows say (`RowInv`) always, what the slots and threads
  say (`UseInv`) until `ReleasedTwice`. That is a state until the next restart (`TwiceStays`); the restart empties
  slots and threads together, so `UseInv` holds again after it (`RestartRenews`), from the rows alone.
- `SlotsArePool` is the refinement: every step of the service is a step of `SlotPool` or none, **if
  `"cleanup"` is not among the faults**. With it the pool's promise is broken for good, as the pool
  has no step that takes a slot from its holder.
- `SuccessComplete` and `VerdictFinal` (`TerminalIsFinal`), under every fault, from `RowInv`: what the row, the
  manifest, the handle and the snapshot of a job are at each of its steps. Neither is inductive
  without it: they speak of a row and not of where its thread is.
- `CancelKept` (`CancelHonoured`), under every fault: once the event of a VM backup is set before the last look
  at it, the backup is `Doomed`, and no step takes it out of that.

**UpdateDrain** (in `Compositions_proofs`; `DrainInv`, `SettleInv`, `PauseInv`): with one installer,

- `DrainHolds` (`ReadyStaysDrained`) and `JobsSettle` (`DoneIsSettled`), **if no fault but `"reply"` happens**;
  `PauseHeld` (`PausedIsHeld`) **without faults**. A running row has a slot behind it, and a slot is given
  back after the verdict, or never by a job that was stranded; so what the installer saw empty has no running row, and a closed
  flag keeps it so. Two installers would take the flag from one another.

**TwoServices** (in `Compositions_proofs`; `TwoInv`), all under every fault, restart and deletion; which jobs
are those of the second service is any subset (`SecondAssumption`):

- `LiveCancellable` (`LiveIsCancellable`), `ManifestOwned` (`ManifestHasRow`), `VerdictOfThread` (`VerdictKept`) and
  `TwoSuccessComplete` (`SuccessIsComplete`, which `service` checks of one service). `RowInv` does not survive a second service:
  opening the repository fails the rows of the threads of the first, and a deletion may then
  take row and manifest from under a thread. `ToldOK` is what is left of it at each step of a
  thread: where `RowInv` has a running row, the row may also have been marked, and once marked it may be
  gone. `OwnEvent` ties a job to the service that admitted it, since each of the two has a set of events.

**ChunkStore** (`TypeInv`, `LockInv`, `PointInv`, `HeldInv`, `TornInv`)

- `TypeCorrect`, `StoredOnceHolds`, `TornFails`: under every fault. A thread between its look and its write
  holds `_write_lock`, so the chunk is not there.
- `SettledSurvive`, `KeepsPoints` and `LossTraced`, **if `"unreadable"` is not among the faults**: `delete_vm` skips a
  manifest it cannot read (`repository.py:777`) and then takes its chunks. While chunks are unlinked
  none of those left to go is referred to by any manifest, since the manifests were read under
  the lock that publishing takes. `KeepsPoints` is the refinement of `PointStore`; `HeldInv` says
  that what a backup has stored so far is on disk unless a deletion overlapped it.

**Mirror** (`MirrorInv`): `TypeCorrect`, under every fault; `GapTraced` (`GapHasCause`), **if no drive goes or comes
while a mirror thread exists** (with it the formula is false: `mirror_loss`). `ActiveInv` says what
the process has open, and that a mirror thread copies away from it; `BackupInv` how far a backup whose gaps
have no recorded cause has come, and how far the mirror thread has come with it: chunks before
manifests, manifests before the catalog, so a thread that ends anywhere leaves no row without its files.

**Schedules** (`SchedulesInv`): `TypeCorrect`, `TimersHold`, `ExclusionsHold`, `ExcludedSpared`. `KeyInv` is the state of one
definition between the steps of a request; `ConfigInv` says that the update under way, if it is the
only one, carries all that was answered; `BreachInv` that what the exclusions of a replaced service miss,
while policies go on on it, was excluded since.

**RecoveryTasks** (`TaskInv`, `FileInv`), under every fault: `RunningIsHeld` and `DeletionSpares`: a row follows the tasks
that work on it as long as there is one of them, and a task that leaves it running is recorded as cut off. `TypesKept` (`TypeOK`) and `ServedWhole` (`ServedIsWhole`) need `FileInv`:
`FilesCounted` counts the tasks that may still open a file apart from the files there are, so their
number stays within that of the requests; `FilesRight` says which file a thread writes, that two
threads share one only where two tasks have the same point, and what is in it at each step.

**HotExport** (`CleanupInv`): `TypeCorrect`, `NothingLeft`, `CloneUndisturbed`. What is on the host at each place of the
client, while the connection holds.

**Monitoring** (`MonitoringInv`): `TypeCorrect`, `OneRefresh`, `NoticesHold`. Nothing has a time still to come; a failure up to
the acknowledged time was recorded by then or had read the clock by then.

**MediaHealth** (in `Monitoring_proofs`): `LabelHolds` (`LabelFollowsDamage`), for documents of any finite number of counters
with any integers in them (`DocumentTypes`), where `monitoring` has those of three. The score is a
recursive function of the order of the walk, so this takes induction on the walk; the library's
rules of induction take an operator, which the provers cannot be given, so `Climb` states induction over
a set instead, from the library's theorem that finite sets are well-founded. By it `Recursion` (the
recursive function exists), then the two halves of the argument. If the device failed its test or any
counter reached its threshold, the score ends at 20 or less and the label is *Critical* (`CapHolds`). If
none did, the score is what is left of the start after all the losses (`ScoreIsRest`), whose sum is the
same in every order and no less for the worse device (`OneMore`, `LessIsTaken`). `Score` itself does
depend on the order: only the label does not.

`AdmissionBound`, `ClosedMeansClosed`, `TerminalIsFinal` and `SettledSurvives` are proved and in no run:
`SlotsFormPool`, `VerdictKept` and `PointsArePromised` say as much of the instances.

**Model-checked only.** All liveness (`DrainEnds`, `SlotReleased`, `UploadEnds`, `Mirrored`, `CancelEnds`,
`RefreshEnds`): liveness under fairness and ENABLED are beyond the prover. The three runs that expect a
violation have no theorem, as their properties are false.

## 5. What the properties leave out, and why

Several properties name the causes under which they may fail. Each cause is a real path
of the code, recorded by a history variable, and the property says there is no other:

- `SlotsMatchHolders`, `ExclusiveUse`: a backup whose snapshot removal raised has given its slot back twice
  (`ReleasedTwice`, `service.py:433`).
- `ExclusiveUse`: a failed backup releases before it removes its snapshot (`service.py:422`).
- `DoneIsSettled`: such a backup may be killed in between by the restart of an update.
- `DoneIsSettled`, `SlotReleased`, `DrainEnds`: the name or the configuration of the VM could not be read from the
  host between the admission and the `try` (`Stranded`, `service.py:260`, `:270`).
- `ReadyStaysDrained`: one service that stays up. Settings saved during the drain (`web.py:784`) make another, of
  which no update is pending; no run has both.
- `VerdictKept`, `ManifestHasRow`: a repository that is opened marks the rows of running threads as failed
  (`interrupted`, `repository.py:301`); such a row may be deleted, and the thread then finishes it.
- `LossNeedsOverlap`: a deletion overlapped the upload.
- `GapHasCause`: a mirror thread ran beside the backup; a failover split it; the mirror's
  source did not list the point (a restart preferred the old primary, `repository.py:115`).
- `TimersFollowRows`: overlapping or failed requests (`scheduler.py:73`); a deleted VM stays in
  timers (`repository.py:760`); a schedule made by the per-VM route gets no timer at a start.
- `ExclusionsKept`, `ExcludedAreSkipped`: unlocked updates of the configuration overlapped.
- `ExcludedAreSkipped`: a policy goes on on a service that was replaced, and keeps to its exclusions
  (`unseen`, `scheduler.py:111`).
- `RunningHasTask`: a restart, or a write that failed at the end of a task or when it started its row
  again (`service.py:497`, `:561`), left a row running, and nothing ever resets it; `delete_vm` then refuses
  for ever.
- `ServedIsWhole`, `DeleteSparesTasks`: two tasks for one point share its partial file and row.
- `LeavesNothing`, `NothingPulledAway`: the SSH connection broke.
- `NoticesFollowUsers`: updates of the configuration overlapped or were cut off (`contended`); a failure had read
  the clock before the acknowledgement and was recorded after it (`raced`).
- `RefreshIsOne`, `RefreshEnds`: a page that raises after it queued a refresh takes the task with it (`lost`,
  `web.py:98`), and no refresh is accepted until the next start.

## 6. Where the code departs from its documents

Each is the only property of a run that TLC must find violated.

- `double_release` (`service.py:422`, `:433`): a failed backup whose snapshot removal raises gives its
  slot back twice, the second time that of the next backup of the VM; then more jobs than
  the limit run. README.md:17 speaks of a host-wide limit.
- `chunk_loss` (`repository.py:783`): `delete_vm` refuses only for its own VM, and removes chunks a
  running backup of another VM has stored or deduplicated. docs/architecture.md:31.
- `mirror_loss` (`repository.py:157`): a source folder that has gone counts as empty, and the
  mirror's manifests are deleted as stale. README.md:141.

Met while modelling, and not the subject of a run:

- `service.py:427`: a progress write at the head of the `finally` block is outside the `try` that removes
  the snapshot; if it raises the snapshot stays. README.md:5 and docs/operations.md:24 say the
  removal always happens. `DoneIsSettled` is checked without catalog faults for this reason.
- `service.py:260`, `:270`: two reads from the host after the admission and before the `try`. If one raises, the
  slot stays taken until the next start, and after the second the row stays running.
- `web.py:784`, `scheduler.py:111`: a policy that runs while settings are saved does not see later exclusions;
  README.md:150 says excluded VMs are skipped by every schedule.
- `service.py:497`, `:561`: the task of a restore or an OVA starts its row again outside its `try`; if that
  raises, the row runs for ever.
- `web.py:612`: the Home Assistant route accepts the backup of an excluded VM with 202, and `service.py:252` refuses
  it in the background.
- Two updates of the configuration at once (`web.py:257`, `:784`) can lose an acknowledgement or an exclusion.
- `service.py:464`: every file with `nvram` in its name is restored to `vm.nvram`, so a second one replaces the first.

## 7. Not modelled

- The rest of the installer: a sequential script. Offline restore: sequential, its one hard point is the
  file names above. Pages, Home Assistant payloads and inventory: they read.
- Retention: no code reads the section. The Portainer cache changes what a page shows.
- `_backfill_*`: they run before any other thread exists. Validation of the configuration's fields.
- The choice of the datastore of a clone: an outcome of `MakeDirectory`.
- Restores and OVA builds of the command line (`cli.py:71`-`98`): they write no row, so `delete_vm` does not wait for them.
- Settings saved while an installer drains: `UpdateDrain` has one service, `TwoServices` no installer.
- Contents: hashing and compression are taken as injective, a chunk file as whole once it is
  renamed into place; SQLite as atomic per commit. Notices but for failed jobs.
- `ChunkStore` and `BackupService` are separate: the transfer of a job is one step in the second, and a
  job of the first has no slot. Mirror threads and `delete_vm` meet in `Mirror` only in
  steps of a whole point.

## 8. Plan

What would come next, in order:

1. The composition of `ChunkStore` and `Mirror`: a deletion unlink by unlink beside a mirror thread.
2. `_select_clone_datastore` and the file names of a restore, as pure algorithms over bounded inputs.
3. `SlotPool` with a step that takes a slot from its holder, so that the refinement covers a failed
   removal of a snapshot too; a refinement of the exclusions by `Schedules`.
4. `UpdateDrain` over `TwoServices`: an installer whose polls move to a service made by saved settings.
5. A container whose unpause failed, met by the next backup of it, across a restart.

Runs stay few: new properties join the run whose instance already reaches them.
