----------------------------- MODULE BackupJobs ------------------------------
(***************************************************************************)
(* What a VM backup and a container backup share: the thread of each job,  *)
(* the two kinds of target, the state the jobs leave on the host, and the  *)
(* faults the environment may produce.                                     *)
(***************************************************************************)
EXTENDS Admission, Catalog

CONSTANT Faults     \* the kinds of fault that may happen

\* "catalog": a write to the repository raises (a full or removed volume, a
\*            catalog another process keeps locked);
\* "cleanup": remove_snapshot or unpause raises;
\* "reply":   the host carries a request out and the call still raises;
\* "crash":   the process is killed and started again.
FaultKinds == {"catalog", "cleanup", "reply", "crash"}

ASSUME FaultsAssumption == Faults \subseteq FaultKinds

VARIABLES
    pc,         \* where the thread of each job is
    target,     \* the identity the job backs up
    outcome,    \* `successful`, or how the try block was left
    handle,     \* jobs whose local `snapshot` (`paused`) is set
    snapshots,  \* jobs whose esxi-backup-* snapshot exists on the host
    paused      \* containers that are paused

jobVars == <<pc, target, outcome, handle>>
hostVars == <<snapshots, paused>>
vars == <<admissionVars, catalogVars, jobVars, hostVars>>

Outcome == {"none", "success", "cancelled", "raised"}

JobsInit ==
    /\ AdmissionInit
    /\ CatalogInit
    /\ pc = [j \in Job |-> "idle"]
    /\ target = [j \in Job |-> NoTarget]
    /\ outcome = [j \in Job |-> "none"]
    /\ handle = {}
    /\ snapshots = {}
    /\ paused = {}

Goto(j, from, to) ==
    /\ pc[j] = from
    /\ pc' = [pc EXCEPT ![j] = to]

\* The try block of j is left with outcome o.
Leave(j, o) == outcome' = [outcome EXCEPT ![j] = o]

\* The slot of j is released by its own thread.
EndJob(j) == EndBackup(j, target[j])

\* Admit a backup of t: the refusals are those of _begin_backup, and a refused
\* request leaves no trace.
Admit(j, t, next) ==
    /\ Goto(j, "idle", next)
    /\ BeginBackup(j, t)
    /\ target' = [target EXCEPT ![j] = t]
    /\ UNCHANGED <<catalogVars, outcome, handle, hostVars>>
=============================================================================
