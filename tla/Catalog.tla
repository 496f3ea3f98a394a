------------------------------- MODULE Catalog -------------------------------
(***************************************************************************)
(* The part of BackupRepository the backup jobs write: the status column   *)
(* of the `backups` table and the manifest files.  Each operation runs     *)
(* under `_db_lock` and commits before it returns.                         *)
(***************************************************************************)
EXTENDS BackupIds

VARIABLES
    status,         \* backups.status of each job, "absent" before its row
    manifests       \* the jobs whose manifest file is on disk

catalogVars == <<status, manifests>>

Status == {"absent", "running", "success", "failed", "cancelled"}

Terminal == {"success", "failed", "cancelled"}

CatalogInit ==
    /\ status = [j \in Job |-> "absent"]
    /\ manifests = {}

CreateRow(j) ==
    /\ status' = [status EXCEPT ![j] = "running"]
    /\ UNCHANGED manifests

\* An UPDATE ... WHERE id=? of the status: it does not look at the old value, and
\* does nothing when the row is gone.
SetStatus(j, s) ==
    /\ status' = [status EXCEPT ![j] = IF @ = "absent" THEN "absent" ELSE s]
    /\ UNCHANGED manifests

FinishRow(j) == SetStatus(j, "success")
FailRow(j) == SetStatus(j, "failed")
CancelRow(j) == SetStatus(j, "cancelled")

WriteManifest(j) ==
    /\ manifests' = manifests \union {j}
    /\ UNCHANGED status

\* write_manifest raises: the file is written before the counter is committed.
ManifestFault(j) ==
    /\ manifests' \in {manifests, manifests \union {j}}
    /\ UNCHANGED status

\* Seeded bug: every row that is not a success is marked.
InterruptAll ==
    /\ status' = [j \in Job |-> IF status[j] \in {"running", "cancelled"} THEN "failed"
                                                                     ELSE status[j]]
    /\ UNCHANGED manifests

\* _migrate, on every start: a row still running belongs to a dead process.
InterruptRunning ==
    /\ status' = [j \in Job |-> IF status[j] = "running" THEN "failed"
                                                       ELSE status[j]]
    /\ UNCHANGED manifests
=============================================================================
