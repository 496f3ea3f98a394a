------------------------------ MODULE Admission ------------------------------
(***************************************************************************)
(* The admission state of BackupService: which backups hold a slot, the    *)
(* cancellation event of each, and whether an update has closed admission. *)
(* Every operation here runs under `_cancel_lock`, so each one is atomic.  *)
(***************************************************************************)
EXTENDS BackupIds, Naturals, FiniteSets

CONSTANT Limit      \* config.max_concurrent_backups

ASSUME LimitAssumption == Limit \in Nat \ {0}

VARIABLES
    update_pending,     \* admission is closed for an update
    active_vm_ids,      \* the targets that hold a slot
    cancel_events       \* job -> its threading.Event, when it has one

admissionVars == <<update_pending, active_vm_ids, cancel_events>>

EventState == {"absent", "clear", "set"}

HasEvent(j) == cancel_events[j] # "absent"

CancelRequested(j) == cancel_events[j] = "set"

\* BackupService.__init__: a new process knows no job of an earlier one.
ResetAdmission ==
    /\ update_pending' = FALSE
    /\ active_vm_ids' = {}
    /\ cancel_events' = [j \in Job |-> "absent"]

AdmissionInit ==
    /\ update_pending = FALSE
    /\ active_vm_ids = {}
    /\ cancel_events = [j \in Job |-> "absent"]

\* Seeded bug: no look at the slots of the target.
RefusedTwice(t) == update_pending \/ Cardinality(active_vm_ids) >= Limit

\* The three refusals of _begin_backup.
Refused(t) ==
    \/ update_pending
    \/ t \in active_vm_ids
    \/ Cardinality(active_vm_ids) >= Limit

\* Seeded bug: the slot is taken in the name of the backup id.
BeginBackupSwapped(j, t) ==
    /\ ~Refused(t)
    /\ active_vm_ids' = active_vm_ids \union {j}
    /\ cancel_events' = [cancel_events EXCEPT ![j] = "clear"]
    /\ UNCHANGED update_pending

BeginBackup(j, t) ==
    /\ ~Refused(t)
    /\ active_vm_ids' = active_vm_ids \union {t}
    /\ cancel_events' = [cancel_events EXCEPT ![j] = "clear"]
    /\ UNCHANGED update_pending

EndBackup(j, t) ==
    /\ cancel_events' = [cancel_events EXCEPT ![j] = "absent"]
    /\ active_vm_ids' = active_vm_ids \ {t}
    /\ UNCHANGED update_pending

\* cancel_backup when it returns True; without an event it changes nothing.
CancelBackup(j) ==
    /\ HasEvent(j)
    /\ cancel_events' = [cancel_events EXCEPT ![j] = "set"]
    /\ UNCHANGED <<update_pending, active_vm_ids>>

\* The value prepare_update returns, read under the lock that sets the flag.
Drained == active_vm_ids = {}

\* Seeded bug: a check without the flag, so that a backup may start after it.
PrepareUpdateRacy == UNCHANGED admissionVars

PrepareUpdate ==
    /\ update_pending' = TRUE
    /\ UNCHANGED <<active_vm_ids, cancel_events>>

CancelUpdate ==
    /\ update_pending' = FALSE
    /\ UNCHANGED <<active_vm_ids, cancel_events>>
=============================================================================
