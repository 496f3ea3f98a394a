--------------------------- MODULE ContainerBackup ---------------------------
(***************************************************************************)
(* BackupService.backup_container: the archive of a container's volumes,   *)
(* admitted through the same slots as the VM backups.                      *)
(***************************************************************************)
EXTENDS BackupJobs

ContainerPc == {"c_create", "c_pause", "c_archive", "c_report", "c_manifest",
                "c_finish", "c_fail", "c_cancel", "c_unpause", "c_end"}

StartContainer(j, t) == t \in Container /\ Admit(j, t, "c_create")

\* The insert is outside the try block: if it raises, nothing releases the slot.
CreateContainer(j) ==
    /\ \/ Goto(j, "c_create", "c_pause") /\ CreateRow(j)
       \/ "catalog" \in Faults /\ Goto(j, "c_create", "done") /\ UNCHANGED catalogVars
    /\ UNCHANGED <<admissionVars, target, outcome, handle, hostVars>>

\* `paused` is set after client.pause returns; a container that is stopped, or
\* kept running by the configuration, is archived as it is.
Pause(j) ==
    /\ \/ Goto(j, "c_pause", "c_archive") /\ UNCHANGED <<handle, paused>>
       \/ Goto(j, "c_pause", "c_archive") /\ handle' = handle \union {j}
          /\ paused' = paused \union {target[j]}
       \/ Goto(j, "c_pause", "c_fail") /\ UNCHANGED <<handle, paused>>
       \/ "reply" \in Faults /\ Goto(j, "c_pause", "c_fail")
          /\ paused' = paused \union {target[j]} /\ UNCHANGED handle
    /\ UNCHANGED <<admissionVars, catalogVars, target, outcome, snapshots>>

\* The mounts are archived one after the other.  A container without local
\* mounts never looks at the cancel event; one with mounts looks before and
\* during each, and a last time in the forced report of the last mount.
Archive(j) ==
    /\ \/ Goto(j, "c_archive", "c_manifest")
       \/ Goto(j, "c_archive", "c_report")
       \/ CancelRequested(j) /\ Goto(j, "c_archive", "c_cancel")
       \/ Goto(j, "c_archive", "c_fail")
    /\ UNCHANGED <<admissionVars, catalogVars, target, outcome, handle, hostVars>>

LastReport(j) ==
    /\ \/ CancelRequested(j) /\ Goto(j, "c_report", "c_cancel")
       \/ ~CancelRequested(j) /\ Goto(j, "c_report", "c_manifest")
       \/ ~CancelRequested(j) /\ "catalog" \in Faults /\ Goto(j, "c_report", "c_fail")
    /\ UNCHANGED <<admissionVars, catalogVars, target, outcome, handle, hostVars>>

PublishContainerManifest(j) ==
    /\ \/ Goto(j, "c_manifest", "c_finish") /\ WriteManifest(j)
       \/ "catalog" \in Faults /\ Goto(j, "c_manifest", "c_fail") /\ ManifestFault(j)
    /\ UNCHANGED <<admissionVars, target, outcome, handle, hostVars>>

\* finish is inside the try block here: the row is final before the container
\* runs again.
FinishContainer(j) ==
    /\ \/ Goto(j, "c_finish", "c_unpause") /\ FinishRow(j) /\ Leave(j, "success")
       \/ "catalog" \in Faults /\ Goto(j, "c_finish", "c_fail")
          /\ UNCHANGED <<catalogVars, outcome>>
    /\ UNCHANGED <<admissionVars, target, handle, hostVars>>

\* Seeded bug: the slot is released in the handler, before the unpause.
FailContainerReleasing(j) ==
    /\ Goto(j, "c_fail", "c_unpause")
    /\ FailRow(j) /\ EndJob(j) /\ Leave(j, "raised")
    /\ UNCHANGED <<target, handle, hostVars>>

\* repository.fail may raise in its handler; the finally block runs all the same.
FailContainer(j) ==
    /\ Goto(j, "c_fail", "c_unpause")
    /\ \/ FailRow(j)
       \/ "catalog" \in Faults /\ UNCHANGED catalogVars
    /\ Leave(j, "raised")
    /\ UNCHANGED <<admissionVars, target, handle, hostVars>>

CancelContainer(j) ==
    /\ Goto(j, "c_cancel", "c_unpause")
    /\ \/ CancelRow(j) /\ Leave(j, "cancelled")
       \/ "catalog" \in Faults /\ UNCHANGED catalogVars /\ Leave(j, "raised")
    /\ UNCHANGED <<admissionVars, target, handle, hostVars>>

\* An unpause that raises leaves the finally block before _end_backup.
Unpause(j) ==
    /\ \/ j \notin handle /\ Goto(j, "c_unpause", "c_end") /\ UNCHANGED <<handle, paused>>
       \/ j \in handle /\ Goto(j, "c_unpause", "c_end")
          /\ handle' = handle \ {j} /\ paused' = paused \ {target[j]}
       \/ j \in handle /\ "cleanup" \in Faults /\ Goto(j, "c_unpause", "done")
          /\ paused' \in {paused, paused \ {target[j]}} /\ UNCHANGED handle
    /\ UNCHANGED <<admissionVars, catalogVars, target, outcome, snapshots>>

ReleaseContainer(j) ==
    /\ Goto(j, "c_end", "done")
    /\ EndJob(j)
    /\ UNCHANGED <<catalogVars, target, outcome, handle, hostVars>>

ContainerStep(j) ==
    \/ CreateContainer(j) \/ Pause(j) \/ Archive(j) \/ LastReport(j)
    \/ PublishContainerManifest(j) \/ FinishContainer(j) \/ FailContainer(j)
    \/ CancelContainer(j) \/ Unpause(j) \/ ReleaseContainer(j)
=============================================================================
