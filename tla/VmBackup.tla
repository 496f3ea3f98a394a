------------------------------ MODULE VmBackup -------------------------------
(***************************************************************************)
(* BackupService.backup: one VM backup, one action per step between two    *)
(* points where another thread can observe the job.  The download workers  *)
(* are one step: the pool is joined before the thread goes on, and an      *)
(* error of any worker is the error of the pool.                           *)
(***************************************************************************)
EXTENDS BackupJobs

VmPc == {"create", "inspect", "snapshot", "export", "check", "manifest",
         "fail", "release", "cancel", "cleanup", "remove", "cleanup_error",
         "late_fail", "close", "finish", "end"}

\* Where the thread polls a task or a lease of the host, without a limit.
Polling == {"snapshot", "export", "remove"}

HostAnswers(j) == []<>(pc[j] \notin Polling)

StartVm(j, t) == t \in VM /\ Admit(j, t, "create")

\* repository.create; a failed insert gives the slot back.  The name of the VM is read
\* from the host once more before it, and nothing catches an error of that.
Create(j) ==
    /\ \/ Goto(j, "create", "inspect") /\ CreateRow(j)
          /\ UNCHANGED admissionVars
       \/ "catalog" \in Faults /\ Goto(j, "create", "done") /\ EndJob(j)
          /\ UNCHANGED catalogVars
       \/ Goto(j, "create", "done") /\ UNCHANGED <<admissionVars, catalogVars>>
    /\ UNCHANGED <<target, outcome, handle, hostVars>>

\* The disks of the VM are read from the host before the try block, where nothing
\* catches an error.  In it, a VM that needs consolidation is refused, one that is powered off
\* is exported without a snapshot; the progress write may raise.
Inspect(j) ==
    /\ \E to \in {"done", "fail", "export", "snapshot"} : Goto(j, "inspect", to)
    /\ UNCHANGED <<admissionVars, catalogVars, target, outcome, handle, hostVars>>

\* A lost reply leaves a snapshot the thread has no handle to.
CreateSnapshot(j) ==
    /\ \/ Goto(j, "snapshot", "export") /\ handle' = handle \union {j}
          /\ snapshots' = snapshots \union {j}
       \/ Goto(j, "snapshot", "fail") /\ UNCHANGED <<handle, snapshots>>
       \/ "reply" \in Faults /\ Goto(j, "snapshot", "fail")
          /\ snapshots' = snapshots \union {j} /\ UNCHANGED handle
    /\ UNCHANGED <<admissionVars, catalogVars, target, outcome, paused>>

\* Clone or lease, then every download: complete, stopped by a worker that
\* saw the cancel event, or failed.
Export(j) ==
    /\ \/ Goto(j, "export", "check")
       \/ CancelRequested(j) /\ Goto(j, "export", "cancel")
       \/ Goto(j, "export", "fail")
    /\ UNCHANGED <<admissionVars, catalogVars, target, outcome, handle, hostVars>>

\* Seeded bug: the event is not looked at after the downloads.
FinalCheckBlind(j) ==
    /\ \/ Goto(j, "check", "manifest")
       \/ "catalog" \in Faults /\ Goto(j, "check", "fail")
    /\ UNCHANGED <<admissionVars, catalogVars, target, outcome, handle, hostVars>>

\* The last look at the cancel event, and the progress write after it.
FinalCheck(j) ==
    /\ \/ CancelRequested(j) /\ Goto(j, "check", "cancel")
       \/ ~CancelRequested(j) /\ Goto(j, "check", "manifest")
       \/ ~CancelRequested(j) /\ "catalog" \in Faults /\ Goto(j, "check", "fail")
    /\ UNCHANGED <<admissionVars, catalogVars, target, outcome, handle, hostVars>>

PublishManifest(j) ==
    /\ \/ Goto(j, "manifest", "cleanup") /\ WriteManifest(j) /\ Leave(j, "success")
       \/ "catalog" \in Faults /\ Goto(j, "manifest", "fail") /\ ManifestFault(j)
          /\ UNCHANGED outcome
    /\ UNCHANGED <<admissionVars, target, handle, hostVars>>

\* except Exception: repository.fail, then (RecordedFailure) _end_backup, and
\* only then the finally block.  A fail that raises skips the release.
RecordFailure(j) ==
    /\ Leave(j, "raised")
    /\ \/ Goto(j, "fail", "release") /\ FailRow(j)
       \/ "catalog" \in Faults /\ Goto(j, "fail", "cleanup") /\ UNCHANGED catalogVars
    /\ UNCHANGED <<admissionVars, target, handle, hostVars>>

ReleaseAfterFailure(j) ==
    /\ Goto(j, "release", "cleanup")
    /\ EndJob(j)
    /\ UNCHANGED <<catalogVars, target, outcome, handle, hostVars>>

\* Seeded bug: the slot is released in the handler, as it is for a failure.
RecordCancelReleasing(j) ==
    /\ Goto(j, "cancel", "cleanup") /\ CancelRow(j) /\ Leave(j, "cancelled")
    /\ EndJob(j)
    /\ UNCHANGED <<target, handle, hostVars>>

\* except BackupCancelled: repository.cancel; the slot is kept.
RecordCancel(j) ==
    /\ \/ Goto(j, "cancel", "cleanup") /\ CancelRow(j) /\ Leave(j, "cancelled")
       \/ "catalog" \in Faults /\ Goto(j, "cancel", "cleanup") /\ Leave(j, "raised")
          /\ UNCHANGED catalogVars
    /\ UNCHANGED <<admissionVars, target, handle, hostVars>>

\* The head of the finally block; the progress write of a successful backup
\* comes before remove_snapshot and outside its try.
Cleanup(j) ==
    /\ \/ j \notin handle /\ Goto(j, "cleanup", "close")
       \/ j \in handle /\ Goto(j, "cleanup", "remove")
       \/ j \in handle /\ outcome[j] = "success" /\ "catalog" \in Faults
          /\ Goto(j, "cleanup", "done")
    /\ UNCHANGED <<admissionVars, catalogVars, target, outcome, handle, hostVars>>

\* Seeded bug: an error of the removal is swallowed.
RemoveSnapshotQuiet(j) ==
    /\ Goto(j, "remove", "close") /\ handle' = handle \ {j}
    /\ \/ snapshots' = snapshots \ {j}
       \/ "cleanup" \in Faults /\ UNCHANGED snapshots
    /\ UNCHANGED <<admissionVars, catalogVars, target, outcome, paused>>

RemoveSnapshot(j) ==
    /\ \/ Goto(j, "remove", "close") /\ handle' = handle \ {j}
          /\ snapshots' = snapshots \ {j}
       \/ "cleanup" \in Faults /\ Goto(j, "remove", "cleanup_error")
          /\ snapshots' \in {snapshots, snapshots \ {j}} /\ UNCHANGED handle
    /\ UNCHANGED <<admissionVars, catalogVars, target, outcome, paused>>

\* except Exception as cleanup_error: _end_backup, a second time when the
\* backup had failed, and fail only for a backup that was successful.
ReleaseAfterCleanupError(j) ==
    /\ \/ outcome[j] = "success" /\ Goto(j, "cleanup_error", "late_fail")
       \/ outcome[j] # "success" /\ Goto(j, "cleanup_error", "done")
    /\ EndJob(j)
    /\ UNCHANGED <<catalogVars, target, outcome, handle, hostVars>>

RecordCleanupFailure(j) ==
    /\ Goto(j, "late_fail", "done")
    /\ \/ FailRow(j)
       \/ "catalog" \in Faults /\ UNCHANGED catalogVars
    /\ UNCHANGED <<admissionVars, target, outcome, handle, hostVars>>

\* Seeded bug: a cancelled backup returns before _end_backup.
CloseReturnsEarly(j) ==
    /\ \/ outcome[j] = "success" /\ Goto(j, "close", "finish")
       \/ outcome[j] # "success" /\ Goto(j, "close", "done")
    /\ UNCHANGED <<admissionVars, catalogVars, target, outcome, handle, hostVars>>

\* After the try statement: a pending exception leaves the function here.
Close(j) ==
    /\ \/ outcome[j] = "success" /\ Goto(j, "close", "finish")
       \/ outcome[j] = "cancelled" /\ Goto(j, "close", "end")
       \/ outcome[j] = "raised" /\ Goto(j, "close", "done")
    /\ UNCHANGED <<admissionVars, catalogVars, target, outcome, handle, hostVars>>

\* Seeded bug: a finished backup returns before _end_backup.
FinishReturnsEarly(j) ==
    /\ Goto(j, "finish", "done") /\ FinishRow(j)
    /\ UNCHANGED <<admissionVars, target, outcome, handle, hostVars>>

Finish(j) ==
    /\ \/ Goto(j, "finish", "end") /\ FinishRow(j)
       \/ "catalog" \in Faults /\ Goto(j, "finish", "done") /\ UNCHANGED catalogVars
    /\ UNCHANGED <<admissionVars, target, outcome, handle, hostVars>>

\* _end_backup on the normal path, of either kind of backup.
Release(j) ==
    /\ Goto(j, "end", "done")
    /\ EndJob(j)
    /\ UNCHANGED <<catalogVars, target, outcome, handle, hostVars>>

VmStep(j) ==
    \/ Create(j) \/ Inspect(j) \/ CreateSnapshot(j) \/ Export(j)
    \/ FinalCheck(j) \/ PublishManifest(j) \/ RecordFailure(j)
    \/ ReleaseAfterFailure(j) \/ RecordCancel(j) \/ Cleanup(j)
    \/ RemoveSnapshot(j) \/ ReleaseAfterCleanupError(j)
    \/ RecordCleanupFailure(j) \/ Close(j) \/ Finish(j) \/ Release(j)
=============================================================================
