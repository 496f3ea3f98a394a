----------------------------- MODULE TwoServices ------------------------------
(***************************************************************************)
(* Two BackupService objects over one repository and one host: the second  *)
(* one comes from saved settings, in the same process, or from a command   *)
(* of the command line, in a process of its own.  The rows, the manifests  *)
(* and the host are shared; slots, events and the pending update are not.  *)
(***************************************************************************)
EXTENDS BackupService

CONSTANT Second     \* the jobs of the second service

ASSUME SecondAssumption == Second \subseteq Job

VARIABLES
    update_pending2, active_vm_ids2, cancel_events2,
    origin,         \* what the second service was made by
    interrupted     \* the jobs whose row was marked while their thread ran

secondVars == <<update_pending2, active_vm_ids2, cancel_events2>>
originVars == <<origin, interrupted>>
allVars == <<vars, secondVars, originVars>>

First == Job \ Second

New == INSTANCE BackupService WITH update_pending <- update_pending2,
            active_vm_ids <- active_vm_ids2, cancel_events <- cancel_events2

Origin == {"none", "settings", "command"}

Alive(j) == pc[j] \notin {"idle", "done"}

TwoInit ==
    /\ Init
    /\ New!AdmissionInit
    /\ origin = "none"
    /\ interrupted = {}

\* Every opened repository marks the rows that run, of whatever thread.
OpenRepository(live) ==
    /\ InterruptRunning
    /\ interrupted' = interrupted \union {j \in live : status[j] = "running"}

\* Seeded bug: the service is initialised again in place.
MakeSecondInPlace(by) ==
    /\ origin = "none"
    /\ origin' = by
    /\ OpenRepository({})
    /\ ResetAdmission
    /\ UNCHANGED <<secondVars, jobVars, hostVars>>

\* POST /settings replaces the service of the application and shuts the scheduler
\* down without waiting; a command opens its own.  The threads go on.
MakeSecond(by) ==
    /\ origin = "none"
    /\ origin' = by
    /\ OpenRepository({j \in Job : Alive(j)})
    /\ UNCHANGED <<admissionVars, secondVars, jobVars, hostVars>>

\* The first service still admits what its web interface asks for while it is the
\* current one, and what a running policy asks for in any case.
FirstStep ==
    /\ \/ \E j \in First : JobStep(j)
       \/ \E j \in First, t \in Target :
            (origin = "settings" => t \in VM) /\ Start(j, t)
       \/ origin # "settings"
            /\ ((\E j \in First : RequestCancel(j)) \/ ClosePending \/ OpenPending)
    /\ UNCHANGED <<secondVars, originVars>>

\* A command backs up one VM and hears no web request.
SecondStep ==
    /\ \/ \E j \in Second : New!JobStep(j)
       \/ \E j \in Second, t \in Target :
            /\ origin = "settings" \/ (origin = "command" /\ t \in VM)
            /\ New!Start(j, t)
       \/ origin = "settings" /\ ((\E j \in Second : New!RequestCancel(j))
                                    \/ New!ClosePending \/ New!OpenPending)
    /\ UNCHANGED <<admissionVars, originVars>>

Stop(jobs) ==
    /\ pc' = [j \in Job |-> IF j \in jobs /\ Alive(j) THEN "done" ELSE pc[j]]
    /\ handle' = handle \ jobs
    /\ UNCHANGED <<target, outcome, hostVars>>

\* The command returns, or is killed: no repository is opened, and a row that ran
\* stays as it is.
CommandEnds ==
    /\ origin = "command"
    /\ "crash" \in Faults \/ \A j \in Second : ~Alive(j)
    /\ Stop(Second)
    /\ New!ResetAdmission
    /\ origin' = "none"
    /\ UNCHANGED <<admissionVars, catalogVars, interrupted>>

\* The web process dies with the services it made, and is started again.
WebRestarts ==
    /\ "crash" \in Faults
    /\ LET dead == IF origin = "command" THEN First ELSE Job
       IN  Stop(dead) /\ OpenRepository({j \in Job \ dead : Alive(j)})
    /\ ResetAdmission
    /\ \/ origin = "command" /\ UNCHANGED <<origin, secondVars>>
       \/ origin # "command" /\ New!ResetAdmission /\ origin' = "none"

\* Seeded bug: rows that still run are deleted as well.
DeleteVmRunning(t) ==
    /\ LET rows == {j \in Job : target[j] = t}
       IN  /\ status' = [j \in Job |-> IF j \in rows THEN "absent" ELSE status[j]]
           /\ manifests' = manifests \ rows
    /\ UNCHANGED <<admissionVars, secondVars, jobVars, hostVars, originVars>>

\* delete_vm, of either service, as one step: it refuses a VM with a row that runs,
\* and an interrupted row does not.
DeleteVm(t) ==
    /\ LET rows == {j \in Job : target[j] = t /\ status[j] # "absent"}
       IN  /\ rows # {} /\ \A j \in rows : status[j] # "running"
           /\ status' = [j \in Job |-> IF j \in rows THEN "absent" ELSE status[j]]
           /\ manifests' = manifests \ rows
    /\ UNCHANGED <<admissionVars, secondVars, jobVars, hostVars, originVars>>

TwoNext ==
    \/ \E by \in Origin \ {"none"} : MakeSecond(by)
    \/ FirstStep
    \/ SecondStep
    \/ CommandEnds
    \/ WebRestarts
    \/ \E t \in Target : DeleteVm(t)

TwoSpec == TwoInit /\ [][TwoNext]_allVars

------------------------------------------------------------------------------
\* cancel_backup of the service a job was admitted by: while the row says it runs
\* and its thread has not begun to give up, the event is there to be set, whatever
\* the other service opens, marks and releases.
LiveIsCancellable ==
    \A j \in Job :
        status[j] = "running" /\ Alive(j) /\ pc[j] # "late_fail"
            => IF j \in First THEN HasEvent(j) ELSE New!HasEvent(j)

\* repository.py _migrate: a verdict is only ever rewritten when it was the mark
\* of an opened repository on a thread that was still running.
\* Nothing else rewrites it; a deletion removes the row.
VerdictKept ==
    [][\A j \in Job : status[j] \in Terminal /\ status'[j] \notin {status[j], "absent"}
            => status[j] = "failed" /\ j \in interrupted]_allVars

\* repository.py delete_vm: a manifest that no row leads to is never deleted again,
\* and its chunks with it.  Only the mark on a running thread opens the way to one:
\* the row passes for failed, is deleted, and the thread then writes its manifest.
ManifestHasRow ==
    \A j \in manifests : status[j] = "absent" => j \in interrupted
=============================================================================
