---------------------------- MODULE BackupService ----------------------------
(***************************************************************************)
(* The whole backup service of one process: VM and container backups on    *)
(* their threads, the cancel and update requests of the web interface, and *)
(* the death and restart of the process.                                   *)
(***************************************************************************)
EXTENDS VmBackup, ContainerBackup

Pc == {"idle", "done"} \union VmPc \union ContainerPc

JobStep(j) == VmStep(j) \/ ContainerStep(j)

Start(j, t) == StartVm(j, t) \/ StartContainer(j, t)

\* POST /backups/{id}/cancel
RequestCancel(j) ==
    /\ CancelBackup(j)
    /\ UNCHANGED <<catalogVars, jobVars, hostVars>>

\* POST /api/v1/update/prepare and /cancel
ClosePending == PrepareUpdate /\ UNCHANGED <<catalogVars, jobVars, hostVars>>
OpenPending == CancelUpdate /\ UNCHANGED <<catalogVars, jobVars, hostVars>>

\* The process dies and a new one opens the repository.  What the old threads
\* left on the host stays there.
Restart ==
    /\ ResetAdmission
    /\ InterruptRunning
    /\ pc' = [j \in Job |-> IF pc[j] = "idle" THEN "idle" ELSE "done"]
    /\ handle' = {}
    /\ UNCHANGED <<target, outcome, hostVars>>

Crash == "crash" \in Faults /\ Restart

\* Everything but the update requests, which UpdateDrain gives to the installer.
ServiceNext ==
    \/ \E j \in Job : JobStep(j) \/ RequestCancel(j)
    \/ \E j \in Job, t \in Target : Start(j, t)
    \/ Crash

Init == JobsInit

Next == ServiceNext \/ ClosePending \/ OpenPending

Spec == Init /\ [][Next]_vars

------------------------------------------------------------------------------
(* Invariants *)

\* The type of every variable.
TypeOK ==
    /\ update_pending \in BOOLEAN
    /\ active_vm_ids \subseteq Target
    /\ cancel_events \in [Job -> EventState]
    /\ status \in [Job -> Status]
    /\ manifests \subseteq Job
    /\ pc \in [Job -> Pc]
    /\ target \in [Job -> Target \union {NoTarget}]
    /\ outcome \in [Job -> Outcome]
    /\ handle \subseteq Job
    /\ snapshots \subseteq Job
    /\ paused \subseteq Container

\* service.py _begin_backup: the slot set never outgrows the configured limit,
\* whatever faults, restarts and double releases happen.
AdmissionBound == Cardinality(active_vm_ids) <= Limit

\* Every holder's target is in the slot set, no two holders share one, and no target
\* is in the set without a holder.
SlotsMatch ==
    /\ \A j \in Job : HasEvent(j) => target[j] \in active_vm_ids
    /\ \A i, j \in Job : HasEvent(i) /\ HasEvent(j) /\ i # j => target[i] # target[j]
    /\ \A t \in active_vm_ids : \E j \in Job : HasEvent(j) /\ target[j] = t

\* A failed backup that could not remove its snapshot has ended: it may have given its
\* slot back a second time (service.py:433), and so that of a later backup.
ReleasedTwice == \E j \in handle : pc[j] = "done" /\ outcome[j] = "raised" /\ target[j] \in VM

\* The slot set and the cancel events are kept by three methods and two collections.
\* They describe the same holders, until a slot is released twice.
SlotsMatchHolders == ReleasedTwice \/ SlotsMatch

\* The thread works on its target, or has a snapshot it still has to remove.
OnHost(j) ==
    \/ pc[j] \in {"create", "inspect", "snapshot", "export"} \union ContainerPc
    \/ j \in handle /\ pc[j] \in {"check", "manifest", "fail", "release", "cancel",
                                 "cleanup", "remove"}

\* A failed VM backup gives its slot back before it removes its snapshot.  But for the
\* slots released twice it is the only way for two backups to work on one VM: of two
\* jobs on the host with one target, one is already recorded as failed.
ExclusiveUse ==
    ReleasedTwice \/
    \A i, j \in Job :
        i # j /\ OnHost(i) /\ OnHost(j) /\ target[i] = target[j]
            => "failed" \in {status[i], status[j]}

\* A backup is a success only with its manifest on disk and, for a VM, with its
\* snapshot off the host; nothing that happens later takes that back.
SuccessIsComplete ==
    \A j \in Job : status[j] = "success" => j \in manifests /\ j \notin snapshots

\* Without faults a container is paused only while the job that paused it
\* holds its slot, so no second job can find it paused.
PausedIsHeld ==
    \A t \in paused : \E j \in Job : HasEvent(j) /\ target[j] = t /\ j \in handle

\* Between its slot and its try block a VM backup reads from the host (service.py:260,
\* :270).  If that raises the thread is gone, and nothing gives the slot back or settles
\* the row before the next start.
Stranded(j) ==
    /\ pc[j] = "done" /\ HasEvent(j)
    /\ outcome[j] = "none" /\ target[j] \in VM

\* Without faults a job that is over left its slot free and its row final, however
\* its export, its cancellation and the jobs around it went.  A snapshot stays
\* behind only a backup that failed, gave its slot back and was killed by the
\* restart of an update before it removed the snapshot.  A job that was stranded keeps
\* slot and row, and has nothing on the host and no verdict.
DoneIsSettled ==
    \A j \in Job : pc[j] = "done" =>
        IF Stranded(j)
          THEN j \notin snapshots /\ j \notin manifests /\ status[j] \in {"absent", "running"}
          ELSE /\ ~HasEvent(j) /\ status[j] # "running"
               /\ j \in snapshots => status[j] = "failed"

------------------------------------------------------------------------------
(* What the documents say, in states the code does not exclude *)

\* README.md:17 "VM backups are admitted through a host-wide concurrency limit":
\* no more jobs hold a cancel event, and so run admitted, than the limit.
HoldersWithinLimit == Cardinality({j \in Job : HasEvent(j)}) <= Limit

------------------------------------------------------------------------------
(* Action properties *)

\* A row that is final stays as it is: the handlers of one job, the late failure
\* of a snapshot removal and a restart never rewrite one another's verdict.
TerminalIsFinal ==
    [][\A j \in Job : status[j] \in Terminal => status'[j] = status[j]]_vars

\* While an update is pending no job enters, so the set of active jobs only
\* shrinks until the flag is taken back.
ClosedMeansClosed ==
    [][update_pending /\ update_pending' => active_vm_ids' \subseteq active_vm_ids]_vars

------------------------------------------------------------------------------
(* Refinement *)

\* A job is in the pool, with its target, while it has a cancel event.
Holders == {<<j, target[j]>> : j \in {k \in Job : HasEvent(k)}}

Pool == INSTANCE SlotPool WITH holders <- Holders, closed <- update_pending

\* The three methods that take and give back slots, called from every branch of
\* the two job functions, keep the promise of one pool: each request, step and
\* restart is one step of it or none.
SlotsFormPool == Pool!PoolSpec

------------------------------------------------------------------------------
(* Liveness *)

\* A slot that is taken is given back when the host ends the tasks of the backup
\* that holds it, whatever the tasks of the other backups do: wait_for_task has no
\* limit, and a task that never ends keeps its own slot and no other.  Only a backup
\* that was stranded before its try block keeps a slot without a thread.
SlotReleased ==
    \A j \in Job : HostAnswers(j) => (HasEvent(j) ~> (~HasEvent(j) \/ Stranded(j)))

\* A VM backup that is cancelled before its last look at the event is never a
\* success.
CancelHonoured ==
    \A j \in Job :
        [](pc[j] \in {"create", "inspect", "snapshot", "export", "check"}
              /\ CancelRequested(j)
           => [](status[j] # "success"))
=============================================================================
