-------------------------- MODULE Compositions_proofs --------------------------
(***************************************************************************)
(* The service with what runs beside it, for any number of jobs, targets   *)
(* and slots: one installer that waits for its backups, and a second       *)
(* service over the same catalog.  The theorems on the installer name the  *)
(* faults they exclude: with them the statement is false.  Those on two    *)
(* services exclude none.                                                  *)
(***************************************************************************)
EXTENDS UpdateDrain, TwoServices, BackupService_proofs

\* Of the faults, a lost reply of the host only.
HostFaultsOnly == Faults \subseteq {"reply"}

\* Two installers take the flag from one another.
OneInstaller == \A h, i \in Installer : h = i

------------------------------------------------------------------------------
(* Jobs that settle *)

Undecided == {"cleanup", "remove", "close"}

\* A running row has a slot behind it, and a slot is given back after the verdict
\* and, unless that is a failure, after the snapshot.  The other conjuncts say how
\* far the handlers of a job have come.
Settles(j) ==
    /\ pc[j] = "done" /\ HasEvent(j) =>
          /\ outcome[j] = "none" /\ target[j] \in VM
          /\ j \notin snapshots /\ j \notin manifests /\ status[j] \in {"absent", "running"}
    /\ pc[j] \in {"idle", "create", "inspect"} =>
          outcome[j] = "none" /\ j \notin manifests
    /\ status[j] = "running" => HasEvent(j)
    /\ j \in snapshots /\ ~HasEvent(j) => status[j] = "failed"
    /\ pc[j] \in Undecided /\ outcome[j] = "raised" => ~HasEvent(j)
    /\ pc[j] \in Undecided => outcome[j] # "none"
    /\ pc[j] \in Undecided /\ outcome[j] = "cancelled" => status[j] = "cancelled"
    /\ pc[j] \in {"end", "c_unpause", "c_end"} => status[j] \in Terminal
    /\ pc[j] = "cancel" \/ (pc[j] \in {"cleanup", "remove"} /\ outcome[j] = "cancelled") =>
          (j \in snapshots => j \in handle)
    /\ pc[j] = "close" /\ outcome[j] = "cancelled" => j \notin snapshots
    /\ pc[j] = "end" => j \notin snapshots

SettleInv == UseInv /\ \A j \in Job : Settles(j)

LEMMA VmStepSettles ==
    ASSUME SettleInv, HostFaultsOnly, NEW j \in Job, VmStep(j)
    PROVE  \A i \in Job : Settles(i)'
<1> USE DEF SettleInv, HostFaultsOnly, UseInv, SlotInv, RowInv, TypeOK, Settles, Undecided,
            Terminal, HasEvent, Goto, Leave, EndJob, EndBackup, SetStatus, admissionVars,
            catalogVars, hostVars, StillIn
<1>1. CASE Create(j)
  BY <1>1 DEF Create, CreateRow, JobHolds, HoldingPc, RowOK, JobKinds, VmPc
<1>2. CASE Inspect(j) \/ FinalCheck(j)
  BY <1>2 DEF Inspect, FinalCheck, RowOK, RunningPc, JobKinds, VmPc
<1>3. CASE CreateSnapshot(j)
  BY <1>3 DEF CreateSnapshot, JobHolds, HoldingPc
<1>4. CASE Export(j)
  BY <1>4 DEF Export, RowOK
<1>5. CASE PublishManifest(j)
  BY <1>5 DEF PublishManifest, WriteManifest, JobHolds, HoldingPc
<1>6. CASE RecordFailure(j)
  BY <1>6 DEF RecordFailure, FailRow, RowOK, RunningPc
<1>7. CASE ReleaseAfterFailure(j)
  BY <1>7 DEF ReleaseAfterFailure, EventState, JobHolds
<1>8. CASE RecordCancel(j)
  <2>1. HasEvent(j) /\ status[j] = "running" /\ (j \in snapshots => j \in handle)
    BY <1>8 DEF RecordCancel, RowOK, RunningPc, JobHolds, HoldingPc
  <2>2. /\ pc' = [pc EXCEPT ![j] = "cleanup"] /\ outcome' = [outcome EXCEPT ![j] = "cancelled"]
        /\ status' = [status EXCEPT ![j] = "cancelled"]
        /\ UNCHANGED <<cancel_events, target, manifests, snapshots, handle>>
    BY <1>8, <2>1 DEF RecordCancel, CancelRow
  <2>3. QED
    BY <2>1, <2>2
<1>9. CASE Cleanup(j)
  BY <1>9 DEF Cleanup
<1>10. CASE RemoveSnapshot(j)
  BY <1>10 DEF RemoveSnapshot
<1>11. CASE ReleaseAfterCleanupError(j) \/ RecordCleanupFailure(j)
  BY <1>11 DEF ReleaseAfterCleanupError, RecordCleanupFailure, JobHolds
<1>12. CASE Close(j)
  BY <1>12 DEF Close
<1>13. CASE Finish(j)
  BY <1>13 DEF Finish, FinishRow, RowOK, RunningPc
<1>14. CASE Release(j)
  BY <1>14 DEF Release, EventState
<1>15. QED
  BY <1>1, <1>2, <1>3, <1>4, <1>5, <1>6, <1>7, <1>8, <1>9, <1>10, <1>11, <1>12, <1>13,
     <1>14 DEF VmStep

LEMMA ContainerStepSettles ==
    ASSUME SettleInv, HostFaultsOnly, NEW j \in Job, ContainerStep(j)
    PROVE  \A i \in Job : Settles(i)'
<1> USE DEF SettleInv, HostFaultsOnly, UseInv, SlotInv, RowInv, TypeOK, Settles, Undecided,
            Terminal, HasEvent, Goto, Leave, EndJob, EndBackup, SetStatus, admissionVars,
            catalogVars, hostVars, RowOK, ContainerPc, RunningPc
<1>1. CASE CreateContainer(j)
  BY <1>1 DEF CreateContainer, CreateRow, JobHolds, HoldingPc
<1>2. CASE Pause(j) \/ Archive(j) \/ LastReport(j)
  BY <1>2 DEF Pause, Archive, LastReport
<1>3. CASE PublishContainerManifest(j)
  BY <1>3 DEF PublishContainerManifest, WriteManifest
<1>4. CASE FinishContainer(j)
  BY <1>4 DEF FinishContainer, FinishRow
<1>5. CASE FailContainer(j)
  BY <1>5 DEF FailContainer, FailRow
<1>6. CASE CancelContainer(j)
  BY <1>6 DEF CancelContainer, CancelRow
<1>7. CASE Unpause(j)
  BY <1>7 DEF Unpause
<1>8. CASE ReleaseContainer(j)
  BY <1>8 DEF ReleaseContainer, EventState
<1>9. QED
  BY <1>1, <1>2, <1>3, <1>4, <1>5, <1>6, <1>7, <1>8 DEF ContainerStep

LEMMA ServiceSettles ==
    ASSUME SettleInv, HostFaultsOnly, [Next]_vars
    PROVE  \A i \in Job : Settles(i)'
<1> USE DEF SettleInv, UseInv, SlotInv, RowInv, TypeOK, Settles, Undecided, HasEvent
<1>1. CASE \E j \in Job : JobStep(j)
  BY <1>1, VmStepSettles, ContainerStepSettles DEF JobStep
<1>2. CASE \E j \in Job, t \in Target : Start(j, t)
  BY <1>2 DEF Start, StartVm, StartContainer, Admit, Goto, BeginBackup, RowOK, Terminal,
     catalogVars, hostVars
<1>3. CASE \E j \in Job : RequestCancel(j)
  BY <1>3 DEF RequestCancel, CancelBackup, catalogVars, jobVars, hostVars
<1>4. CASE ClosePending \/ OpenPending \/ UNCHANGED vars
  BY <1>4 DEF ClosePending, OpenPending, PrepareUpdate, CancelUpdate, vars, admissionVars,
     catalogVars, jobVars, hostVars
<1>5. QED
  BY <1>1, <1>2, <1>3, <1>4 DEF Next, ServiceNext, Crash, HostFaultsOnly

\* A restart of a drained service interrupts nobody.
LEMMA RestartSettles ==
    ASSUME SettleInv, Drained, Restart
    PROVE  \A i \in Job : Settles(i)'
<1>1. \A j \in Job : ~HasEvent(j)
  BY DEF SettleInv, UseInv, SlotInv, SlotsMatch, Drained
<1>2. \A j \in Job : status'[j] = status[j]
  BY <1>1 DEF SettleInv, Settles, Restart, InterruptRunning, UseInv, SlotInv, TypeOK
<1>3. \A j \in Job : (~HasEvent(j))'
  BY DEF Restart, ResetAdmission, HasEvent
<1>4. \A j \in Job : pc'[j] \in {"idle", "done"} /\ (pc'[j] = "idle" => pc[j] = "idle")
  BY DEF Restart
<1>5. UNCHANGED <<outcome, manifests, snapshots>>
  BY DEF Restart, InterruptRunning, hostVars
<1>6. QED
  BY <1>1, <1>2, <1>3, <1>4, <1>5 DEF SettleInv, Settles, Undecided
------------------------------------------------------------------------------
(* The drained service *)

ReadyIsDrained ==
    \A i \in Installer : installer[i] = "ready" => update_pending /\ Drained

InstallerType == installer \in [Installer -> InstallerState]

DrainInv == SettleInv /\ InstallerType /\ ReadyIsDrained

\* Only the requests of the installer and a crash touch the flag.
LEMMA ServiceKeepsFlag ==
    ASSUME ServiceNext, "crash" \notin Faults
    PROVE  UNCHANGED update_pending
<1> USE DEF admissionVars, EndJob, EndBackup
<1>1. CASE \E j \in Job : VmStep(j)
  BY <1>1 DEF VmStep, Create, Inspect, CreateSnapshot, Export, FinalCheck,
     PublishManifest, RecordFailure, ReleaseAfterFailure, RecordCancel, Cleanup,
     RemoveSnapshot, ReleaseAfterCleanupError, RecordCleanupFailure, Close, Finish, Release
<1>2. CASE \E j \in Job : ContainerStep(j)
  BY <1>2 DEF ContainerStep, CreateContainer, Pause, Archive, LastReport,
     PublishContainerManifest, FinishContainer, FailContainer, CancelContainer,
     Unpause, ReleaseContainer
<1>3. CASE \E j \in Job, t \in Target : Start(j, t)
  BY <1>3 DEF Start, StartVm, StartContainer, Admit, BeginBackup
<1>4. CASE \E j \in Job : RequestCancel(j)
  BY <1>4 DEF RequestCancel, CancelBackup
<1>5. QED
  BY <1>1, <1>2, <1>3, <1>4 DEF ServiceNext, JobStep, Crash

\* Each step of the drain is one of the service, or the restart of a drained one.
LEMMA DrainStepKinds ==
    ASSUME DrainInv, [DrainNext]_drainVars
    PROVE  [Next]_vars \/ (Drained /\ Restart)
<1>1. CASE ServiceNext
  BY <1>1 DEF Next
<1>2. ASSUME NEW i \in Installer, InstallerStep(i)
      PROVE  Next \/ (Drained /\ Restart)
  BY <1>2 DEF InstallerStep, Prepare, Abort, RestartService, Exit, Next, DrainInv,
     ReadyIsDrained
<1>3. CASE UNCHANGED drainVars
  BY <1>3 DEF drainVars
<1>4. QED
  BY <1>1, <1>2, <1>3 DEF DrainNext

LEMMA ReadyStep ==
    ASSUME DrainInv, HostFaultsOnly, OneInstaller, [DrainNext]_drainVars
    PROVE  InstallerType' /\ ReadyIsDrained'
<1> USE DEF DrainInv, InstallerType, InstallerState, ReadyIsDrained
<1>1. CASE UNCHANGED drainVars
  BY <1>1 DEF drainVars, vars, admissionVars, Drained
<1>2. CASE ServiceNext /\ UNCHANGED installer
  <2>1. UNCHANGED update_pending
    BY <1>2, ServiceKeepsFlag DEF HostFaultsOnly
  <2>2. update_pending => active_vm_ids' \subseteq active_vm_ids
    BY <1>2, NextIsSlotStep DEF SlotStep, Refused, Next
  <2>3. QED
    BY <1>2, <2>1, <2>2 DEF Drained
<1>3. ASSUME NEW i \in Installer, InstallerStep(i)
      PROVE  InstallerType' /\ ReadyIsDrained'
  <2>1. CASE Prepare(i)
    BY <2>1 DEF Prepare, ClosePending, PrepareUpdate, Drained
  <2>2. CASE Abort(i) \/ RestartService(i) \/ Exit(i)
    BY <2>2 DEF Abort, RestartService, Exit, OneInstaller
  <2>3. QED
    BY <1>3, <2>1, <2>2 DEF InstallerStep
<1>4. QED
  BY <1>1, <1>2, <1>3 DEF DrainNext

LEMMA DrainInvInit == ASSUME DrainInit PROVE DrainInv
<1>1. UseInv
  <2>1. SlotInv /\ RowInv
    BY InitSlots, InitRows DEF DrainInit
  <2>2. QED
    BY <2>1 DEF UseInv, StillIn, DrainInit, Init, JobsInit
<1>2. \A j \in Job : Settles(j)
  BY DEF DrainInit, Init, JobsInit, AdmissionInit, CatalogInit, Settles, Undecided, HasEvent
<1>3. InstallerType /\ ReadyIsDrained
  BY DEF DrainInit, InstallerInit, InstallerType, InstallerState, ReadyIsDrained
<1>4. QED
  BY <1>1, <1>2, <1>3 DEF DrainInv, SettleInv

LEMMA DrainInvStep ==
    ASSUME DrainInv, HostFaultsOnly, OneInstaller, [DrainNext]_drainVars
    PROVE  DrainInv'
<1>1. [Next \/ Restart]_vars /\ "cleanup" \notin Faults
  BY DrainStepKinds DEF HostFaultsOnly
<1>2. SlotInv' /\ RowInv' /\ \A i \in Job : StillIn(i)'
  BY <1>1, SlotInvStep, RowInvStep, StillInStep DEF DrainInv, SettleInv, UseInv
<1>3. \A i \in Job : Settles(i)'
  BY DrainStepKinds, ServiceSettles, RestartSettles DEF DrainInv
<1>4. InstallerType' /\ ReadyIsDrained'
  BY ReadyStep
<1>5. QED
  BY <1>2, <1>3, <1>4 DEF DrainInv, SettleInv, UseInv

\* The 200 one installer waits for stays true until it restarts the service: no slot
\* is taken and no row is running, however long it is busy in between.
THEOREM DrainHolds ==
    ASSUME HostFaultsOnly, OneInstaller
    PROVE  DrainSpec => []ReadyStaysDrained
<1>1. DrainInit => DrainInv
  BY DrainInvInit
<1>2. DrainInv /\ [DrainNext]_drainVars => DrainInv'
  BY DrainInvStep
<1>3. DrainInv => ReadyStaysDrained
  BY DEF DrainInv, ReadyIsDrained, ReadyStaysDrained, SettleInv, Settles, UseInv, SlotInv,
     SlotsMatch, Drained
<1>4. QED
  BY <1>1, <1>2, <1>3, PTL DEF DrainSpec

\* A job that is over has no slot, no running row, and no snapshot but after a
\* failure, through lost replies, cancellations and the restarts of an update; or it was
\* stranded by a read of the host before its try block (service.py:260, :270), and then
\* has a slot, perhaps a running row, and nothing else.
THEOREM JobsSettle ==
    ASSUME HostFaultsOnly, OneInstaller
    PROVE  DrainSpec => []DoneIsSettled
<1>1. DrainInit => DrainInv
  BY DrainInvInit
<1>2. DrainInv /\ [DrainNext]_drainVars => DrainInv'
  BY DrainInvStep
<1>3. DrainInv => DoneIsSettled
  BY DEF DrainInv, SettleInv, Settles, DoneIsSettled, Stranded
<1>4. QED
  BY <1>1, <1>2, <1>3, PTL DEF DrainSpec

------------------------------------------------------------------------------
(* Paused containers *)

\* A job that no longer has its container paused may let go of its slot, and a job of
\* a VM never had one.
PauseKnown(j) ==
    /\ pc[j] = "c_end" => j \notin handle
    /\ pc[j] \in VmPc => target[j] \notin Container

PauseInv == PausedIsHeld /\ \A j \in Job : PauseKnown(j)

\* The witness of a paused container stays when its own slot, target and mark do.
LEMMA OthersKeepPause ==
    ASSUME TypeOK, PausedIsHeld, NEW j \in Job,
           \A i \in Job : i # j => /\ (HasEvent(i))' <=> HasEvent(i)
                                   /\ target'[i] = target[i]
                                   /\ (i \in handle)' <=> i \in handle,
           \A t \in paused' : t \in paused /\ ~(HasEvent(j) /\ target[j] = t /\ j \in handle)
    PROVE  PausedIsHeld'
BY DEF PausedIsHeld

LEMMA VmStepPause ==
    ASSUME SettleInv, PauseInv, Faults = {}, NEW j \in Job, VmStep(j)
    PROVE  PauseInv'
<1> USE DEF SettleInv, UseInv, SlotInv, TypeOK, PauseInv
<1>1. /\ UNCHANGED <<paused, target>> /\ pc[j] \in VmPc /\ pc'[j] \in VmPc \union {"done"}
      /\ \A i \in Job : i # j => /\ pc'[i] = pc[i] /\ cancel_events'[i] = cancel_events[i]
                                /\ (i \in handle' <=> i \in handle)
  <2> USE DEF Goto, EndJob, EndBackup, VmPc, admissionVars, hostVars
  <2>1. CASE Create(j) \/ Inspect(j) \/ Export(j) \/ FinalCheck(j)
    BY <2>1 DEF Create, Inspect, Export, FinalCheck
  <2>2. CASE CreateSnapshot(j) \/ PublishManifest(j) \/ RecordFailure(j)
    BY <2>2 DEF CreateSnapshot, PublishManifest, RecordFailure
  <2>3. CASE ReleaseAfterFailure(j) \/ RecordCancel(j) \/ Cleanup(j) \/ RemoveSnapshot(j)
    BY <2>3 DEF ReleaseAfterFailure, RecordCancel, Cleanup, RemoveSnapshot
  <2>4. CASE ReleaseAfterCleanupError(j) \/ RecordCleanupFailure(j) \/ Close(j)
    BY <2>4 DEF ReleaseAfterCleanupError, RecordCleanupFailure, Close
  <2>5. CASE Finish(j) \/ Release(j)
    BY <2>5 DEF Finish, Release
  <2>6. QED
    BY <2>1, <2>2, <2>3, <2>4, <2>5 DEF VmStep
<1>2. \A i \in Job : PauseKnown(i)'
  BY <1>1 DEF PauseKnown, VmPc
<1>3. \A t \in paused' : t \in paused /\ target[j] # t
  BY <1>1 DEF PauseKnown
<1>4. QED
  BY <1>1, <1>2, <1>3, OthersKeepPause DEF HasEvent

LEMMA ContainerStepPause ==
    ASSUME SettleInv, PauseInv, Faults = {}, NEW j \in Job, ContainerStep(j)
    PROVE  PauseInv'
<1> USE DEF SettleInv, UseInv, SlotInv, TypeOK, PauseInv, Goto
<1>1. /\ UNCHANGED target /\ pc'[j] \in ContainerPc \union {"done"}
      /\ \A i \in Job : i # j => /\ pc'[i] = pc[i] /\ cancel_events'[i] = cancel_events[i]
                                /\ (i \in handle' <=> i \in handle)
  <2> USE DEF EndJob, EndBackup, ContainerPc, admissionVars, hostVars
  <2>1. CASE CreateContainer(j) \/ Archive(j) \/ LastReport(j) \/ CancelContainer(j)
    BY <2>1 DEF CreateContainer, Archive, LastReport, CancelContainer
  <2>2. CASE Pause(j) \/ PublishContainerManifest(j) \/ FinishContainer(j) \/ FailContainer(j)
    BY <2>2 DEF Pause, PublishContainerManifest, FinishContainer, FailContainer
  <2>3. CASE Unpause(j) \/ ReleaseContainer(j)
    BY <2>3 DEF Unpause, ReleaseContainer
  <2>4. QED
    BY <2>1, <2>2, <2>3 DEF ContainerStep
<1>2. \A i \in Job : i # j => PauseKnown(i)'
  BY <1>1 DEF PauseKnown
<1>3. CASE Unpause(j)
  <2>1. PauseKnown(j)'
    BY <1>3 DEF Unpause, PauseKnown, VmPc
  <2>2. paused' \subseteq paused /\ (j \in handle => target[j] \notin paused')
    BY <1>3 DEF Unpause
  <2>3. QED
    BY <1>1, <1>2, <2>1, <2>2, OthersKeepPause DEF HasEvent
<1>4. CASE ReleaseContainer(j)
  <2>1. PauseKnown(j)' /\ j \notin handle /\ UNCHANGED paused
    BY <1>4 DEF ReleaseContainer, PauseKnown, VmPc, hostVars
  <2>2. QED
    BY <1>1, <1>2, <2>1, OthersKeepPause DEF HasEvent
<1>5. CASE Pause(j)
  <2>1. PauseKnown(j)'
    BY <1>5 DEF Pause, PauseKnown, VmPc
  <2>2. HasEvent(j) /\ UNCHANGED admissionVars
    BY <1>5 DEF Pause, JobHolds, HoldingPc, ContainerPc
  <2>3. handle \subseteq handle' /\ \A t \in paused' : t \in paused \/ (t = target[j] /\ j \in handle')
    BY <1>5 DEF Pause
  <2>4. QED
    BY <1>1, <1>2, <2>1, <2>2, <2>3 DEF PausedIsHeld, HasEvent, admissionVars
<1>6. CASE ~(Unpause(j) \/ ReleaseContainer(j) \/ Pause(j))
  <2>1. UNCHANGED <<admissionVars, handle, paused>> /\ pc'[j] \notin VmPc \union {"c_end"}
    BY <1>6 DEF ContainerStep, CreateContainer, Archive, LastReport, CancelContainer,
       PublishContainerManifest, FinishContainer, FailContainer, hostVars, VmPc
  <2>2. QED
    BY <1>1, <1>2, <2>1 DEF PausedIsHeld, PauseKnown, HasEvent, admissionVars
<1>7. QED
  BY <1>3, <1>4, <1>5, <1>6

LEMMA PauseStep ==
    ASSUME DrainInv, PauseInv, Faults = {}, [DrainNext]_drainVars
    PROVE  PauseInv'
<1> USE DEF DrainInv, SettleInv, UseInv, SlotInv, TypeOK, PauseInv
<1>1. CASE \E j \in Job : JobStep(j)
  BY <1>1, VmStepPause, ContainerStepPause DEF JobStep
<1>2. ASSUME NEW j \in Job, NEW t \in Target, Start(j, t)
      PROVE  PauseInv'
  <2>1. /\ ~HasEvent(j) /\ UNCHANGED <<handle, paused>> /\ target' = [target EXCEPT ![j] = t]
        /\ \A i \in Job : i # j => /\ pc'[i] = pc[i] /\ cancel_events'[i] = cancel_events[i]
    BY <1>2 DEF Start, StartVm, StartContainer, Admit, BeginBackup, Goto, JobHolds, hostVars
  <2>2. PauseKnown(j)'
    BY <1>2 DEF Start, StartVm, StartContainer, Admit, Goto, PauseKnown, VmPc, Container
  <2>3. \A i \in Job : i # j => PauseKnown(i)'
    BY <2>1 DEF PauseKnown
  <2>4. PausedIsHeld'
    BY <2>1, OthersKeepPause DEF HasEvent
  <2>5. QED
    BY <2>2, <2>3, <2>4
<1>3. CASE \E j \in Job : RequestCancel(j)
  BY <1>3 DEF RequestCancel, CancelBackup, PausedIsHeld, PauseKnown, HasEvent, jobVars, hostVars
<1>4. CASE ClosePending \/ OpenPending \/ UNCHANGED vars
  BY <1>4 DEF ClosePending, OpenPending, PrepareUpdate, CancelUpdate, PausedIsHeld, PauseKnown,
     HasEvent, jobVars, hostVars, vars, admissionVars
<1>5. CASE Drained /\ Restart
  <2>1. paused = {}
    BY <1>5 DEF Drained, SlotsMatch, PausedIsHeld
  <2>2. QED
    BY <1>5, <2>1 DEF Restart, PausedIsHeld, PauseKnown, hostVars, VmPc
<1>6. QED
  BY <1>1, <1>2, <1>3, <1>4, <1>5, DrainStepKinds DEF Next, ServiceNext, Crash

\* Without faults a container is paused only under the slot of the job that will run
\* it again, through cancellations and the restarts of an update.
THEOREM PauseHeld ==
    ASSUME Faults = {}, OneInstaller
    PROVE  DrainSpec => []PausedIsHeld
<1>1. DrainInit => DrainInv /\ PauseInv
  BY DrainInvInit DEF DrainInit, Init, JobsInit, PauseInv, PausedIsHeld, PauseKnown, VmPc
<1>2. DrainInv /\ PauseInv /\ [DrainNext]_drainVars => (DrainInv /\ PauseInv)'
  BY DrainInvStep, PauseStep DEF HostFaultsOnly
<1>3. DrainInv /\ PauseInv => PausedIsHeld
  BY DEF PauseInv
<1>4. QED
  BY <1>1, <1>2, <1>3, PTL DEF DrainSpec

------------------------------------------------------------------------------
(* Two services over one catalog *)

\* The event a job has in the service that admitted it.
OwnEvent(j) == IF j \in First THEN HasEvent(j) ELSE New!HasEvent(j)

\* A row without a verdict of its own thread: it runs, or it was marked and perhaps
\* deleted while the thread ran on.
Unsettled(j) ==
    status[j] = "running" \/ (j \in interrupted /\ status[j] \in {"failed", "absent"})

TwoType ==
    /\ manifests \subseteq Job
    /\ cancel_events \in [Job -> EventState] /\ cancel_events2 \in [Job -> EventState]
    /\ status \in [Job -> Status] /\ pc \in [Job -> Pc] /\ outcome \in [Job -> Outcome]

\* RowOK with a second service: where it says a row runs, the row may also have been
\* marked, and a deletion may have taken row and manifest.  A row that runs has the event
\* of its own service behind it while its thread goes on.
ToldOK(j) ==
    /\ pc[j] \in {"idle", "create", "c_create"} => status[j] = "absent"
    /\ pc[j] \in RunningPc => Unsettled(j)
    /\ pc[j] \in FinallyPc /\ outcome[j] = "success" => Unsettled(j)
    /\ pc[j] \in FinallyPc \union {"finish"} /\ outcome[j] = "success" =>
          status[j] = "absent" \/ j \in manifests
    /\ pc[j] = "c_finish" => status[j] = "absent" \/ j \in manifests
    /\ pc[j] = "finish" => outcome[j] = "success"
    /\ pc[j] = "release" => outcome[j] = "raised" /\ status[j] # "running"
    /\ pc[j] \in {"finish", "c_finish"} => j \notin snapshots
    /\ pc[j] \in {"idle", "create", "inspect", "snapshot"} \union ContainerPc => j \notin snapshots
    /\ pc[j] \in {"export", "check", "manifest"} => (j \in snapshots => j \in handle)
    /\ pc[j] \in {"cleanup", "remove"} /\ outcome[j] = "success" => (j \in snapshots => j \in handle)
    /\ pc[j] = "close" /\ outcome[j] = "success" => j \notin snapshots
    /\ status[j] = "success" => /\ j \in manifests /\ j \notin snapshots
                               /\ pc[j] \in {"end", "done", "c_unpause", "c_end"}
    /\ pc[j] \in {"create", "c_create"} => OwnEvent(j)
    /\ status[j] = "running" /\ pc[j] \notin {"idle", "done", "late_fail"} => OwnEvent(j)

TwoInv == TwoType /\ ManifestHasRow /\ \A j \in Job : ToldOK(j)

\* What VerdictKept says of one step.
RowsTold ==
    \A j \in Job : status[j] \in Terminal /\ status'[j] \notin {status[j], "absent"}
        => status[j] = "failed" /\ j \in interrupted

\* A thread of either service, over its own slots and the shared rows.
LEMMA FirstVmTold ==
    ASSUME TwoInv, NEW j \in First, VmStep(j), UNCHANGED <<secondVars, originVars>>
    PROVE  TwoInv' /\ RowsTold
<1> USE SecondAssumption DEF TwoInv, TwoType, ToldOK, RowsTold, Unsettled, OwnEvent,
        HasEvent, New!HasEvent, First, RunningPc, FinallyPc, Pc, VmPc, ContainerPc,
        Outcome, EventState, Status, Terminal, ManifestHasRow, secondVars, originVars,
        admissionVars, catalogVars, hostVars, Goto, Leave, EndJob, EndBackup, SetStatus
<1>1. CASE Create(j)
  BY <1>1 DEF Create, CreateRow
<1>2. CASE Inspect(j) \/ CreateSnapshot(j)
  BY <1>2 DEF Inspect, CreateSnapshot
<1>3. CASE Export(j) \/ FinalCheck(j)
  BY <1>3 DEF Export, FinalCheck
<1>4. CASE PublishManifest(j)
  BY <1>4 DEF PublishManifest, WriteManifest, ManifestFault
<1>5. CASE RecordFailure(j)
  BY <1>5 DEF RecordFailure, FailRow
<1>6. CASE ReleaseAfterFailure(j)
  BY <1>6 DEF ReleaseAfterFailure
<1>7. CASE RecordCancel(j)
  BY <1>7 DEF RecordCancel, CancelRow
<1>8. CASE Cleanup(j) \/ RemoveSnapshot(j)
  BY <1>8 DEF Cleanup, RemoveSnapshot
<1>9. CASE ReleaseAfterCleanupError(j)
  BY <1>9 DEF ReleaseAfterCleanupError
<1>10. CASE RecordCleanupFailure(j)
  BY <1>10 DEF RecordCleanupFailure, FailRow
<1>11. CASE Close(j) \/ Release(j)
  BY <1>11 DEF Close, Release
<1>12. CASE Finish(j)
  BY <1>12 DEF Finish, FinishRow
<1>13. QED
  BY <1>1, <1>2, <1>3, <1>4, <1>5, <1>6, <1>7, <1>8, <1>9, <1>10, <1>11, <1>12 DEF VmStep

LEMMA FirstContainerTold ==
    ASSUME TwoInv, NEW j \in First, ContainerStep(j), UNCHANGED <<secondVars, originVars>>
    PROVE  TwoInv' /\ RowsTold
<1> USE SecondAssumption DEF TwoInv, TwoType, ToldOK, RowsTold, Unsettled, OwnEvent,
        HasEvent, New!HasEvent, First, RunningPc, FinallyPc, Pc, VmPc, ContainerPc,
        Outcome, EventState, Status, Terminal, ManifestHasRow, secondVars, originVars,
        admissionVars, catalogVars, hostVars, Goto, Leave, EndJob, EndBackup, SetStatus
<1>1. CASE CreateContainer(j)
  BY <1>1 DEF CreateContainer, CreateRow
<1>2. CASE Pause(j) \/ Archive(j) \/ LastReport(j)
  BY <1>2 DEF Pause, Archive, LastReport
<1>3. CASE PublishContainerManifest(j)
  BY <1>3 DEF PublishContainerManifest, WriteManifest, ManifestFault
<1>4. CASE FinishContainer(j)
  BY <1>4 DEF FinishContainer, FinishRow
<1>5. CASE FailContainer(j)
  BY <1>5 DEF FailContainer, FailRow
<1>6. CASE CancelContainer(j)
  BY <1>6 DEF CancelContainer, CancelRow
<1>7. CASE Unpause(j) \/ ReleaseContainer(j)
  BY <1>7 DEF Unpause, ReleaseContainer
<1>8. QED
  BY <1>1, <1>2, <1>3, <1>4, <1>5, <1>6, <1>7 DEF ContainerStep

LEMMA SecondVmTold ==
    ASSUME TwoInv, NEW j \in Second, New!VmStep(j), UNCHANGED <<admissionVars, originVars>>
    PROVE  TwoInv' /\ RowsTold
<1> USE SecondAssumption DEF TwoInv, TwoType, ToldOK, RowsTold, Unsettled, OwnEvent,
        HasEvent, New!HasEvent, First, RunningPc, FinallyPc, Pc, VmPc, ContainerPc,
        Outcome, EventState, Status, Terminal, ManifestHasRow, secondVars, originVars,
        admissionVars, catalogVars, hostVars, New!Goto, New!Leave, New!EndJob,
        New!EndBackup, New!SetStatus, New!admissionVars, New!catalogVars, New!hostVars
<1>1. CASE New!Create(j)
  BY <1>1 DEF New!Create, New!CreateRow
<1>2. CASE New!Inspect(j) \/ New!CreateSnapshot(j)
  BY <1>2 DEF New!Inspect, New!CreateSnapshot
<1>3. CASE New!Export(j) \/ New!FinalCheck(j)
  BY <1>3 DEF New!Export, New!FinalCheck
<1>4. CASE New!PublishManifest(j)
  BY <1>4 DEF New!PublishManifest, New!WriteManifest, New!ManifestFault
<1>5. CASE New!RecordFailure(j)
  BY <1>5 DEF New!RecordFailure, New!FailRow
<1>6. CASE New!ReleaseAfterFailure(j)
  BY <1>6 DEF New!ReleaseAfterFailure
<1>7. CASE New!RecordCancel(j)
  BY <1>7 DEF New!RecordCancel, New!CancelRow
<1>8. CASE New!Cleanup(j) \/ New!RemoveSnapshot(j)
  BY <1>8 DEF New!Cleanup, New!RemoveSnapshot
<1>9. CASE New!ReleaseAfterCleanupError(j)
  BY <1>9 DEF New!ReleaseAfterCleanupError
<1>10. CASE New!RecordCleanupFailure(j)
  BY <1>10 DEF New!RecordCleanupFailure, New!FailRow
<1>11. CASE New!Close(j) \/ New!Release(j)
  BY <1>11 DEF New!Close, New!Release
<1>12. CASE New!Finish(j)
  BY <1>12 DEF New!Finish, New!FinishRow
<1>13. QED
  BY <1>1, <1>2, <1>3, <1>4, <1>5, <1>6, <1>7, <1>8, <1>9, <1>10, <1>11, <1>12 DEF New!VmStep

LEMMA SecondContainerTold ==
    ASSUME TwoInv, NEW j \in Second, New!ContainerStep(j), UNCHANGED <<admissionVars, originVars>>
    PROVE  TwoInv' /\ RowsTold
<1> USE SecondAssumption DEF TwoInv, TwoType, ToldOK, RowsTold, Unsettled, OwnEvent,
        HasEvent, New!HasEvent, First, RunningPc, FinallyPc, Pc, VmPc, ContainerPc,
        Outcome, EventState, Status, Terminal, ManifestHasRow, secondVars, originVars,
        admissionVars, catalogVars, hostVars, New!Goto, New!Leave, New!EndJob,
        New!EndBackup, New!SetStatus, New!admissionVars, New!catalogVars, New!hostVars
<1>1. CASE New!CreateContainer(j)
  BY <1>1 DEF New!CreateContainer, New!CreateRow
<1>2. CASE New!Pause(j) \/ New!Archive(j) \/ New!LastReport(j)
  BY <1>2 DEF New!Pause, New!Archive, New!LastReport
<1>3. CASE New!PublishContainerManifest(j)
  BY <1>3 DEF New!PublishContainerManifest, New!WriteManifest, New!ManifestFault
<1>4. CASE New!FinishContainer(j)
  BY <1>4 DEF New!FinishContainer, New!FinishRow
<1>5. CASE New!FailContainer(j)
  BY <1>5 DEF New!FailContainer, New!FailRow
<1>6. CASE New!CancelContainer(j)
  BY <1>6 DEF New!CancelContainer, New!CancelRow
<1>7. CASE New!Unpause(j) \/ New!ReleaseContainer(j)
  BY <1>7 DEF New!Unpause, New!ReleaseContainer
<1>8. QED
  BY <1>1, <1>2, <1>3, <1>4, <1>5, <1>6, <1>7 DEF New!ContainerStep

\* The requests to either service and the admissions.
LEMMA RequestsTold ==
    ASSUME TwoInv,
           \/ /\ \/ \E j \in First, t \in Target : Start(j, t)
                 \/ \E j \in First : RequestCancel(j)
                 \/ ClosePending \/ OpenPending
              /\ UNCHANGED <<secondVars, originVars>>
           \/ /\ \/ \E j \in Second, t \in Target : New!Start(j, t)
                 \/ \E j \in Second : New!RequestCancel(j)
                 \/ New!ClosePending \/ New!OpenPending
              /\ UNCHANGED <<admissionVars, originVars>>
    PROVE  TwoInv' /\ RowsTold
<1> USE SecondAssumption DEF TwoInv, TwoType, ToldOK, RowsTold, Unsettled, OwnEvent, HasEvent,
        New!HasEvent, First, RunningPc, FinallyPc, Pc, VmPc, ContainerPc, EventState,
        ManifestHasRow, secondVars, originVars, admissionVars, catalogVars, jobVars, hostVars,
        New!catalogVars, New!jobVars, New!hostVars, New!admissionVars
<1>1. CASE (\E j \in First, t \in Target : Start(j, t)) /\ UNCHANGED <<secondVars, originVars>>
  BY <1>1 DEF Start, StartVm, StartContainer, Admit, Goto, BeginBackup
<1>2. CASE (\E j \in Second, t \in Target : New!Start(j, t)) /\ UNCHANGED <<admissionVars, originVars>>
  BY <1>2 DEF New!Start, New!StartVm, New!StartContainer, New!Admit, New!Goto, New!BeginBackup
<1>3. CASE ((\E j \in First : RequestCancel(j)) \/ ClosePending \/ OpenPending)
              /\ UNCHANGED <<secondVars, originVars>>
  BY <1>3 DEF RequestCancel, CancelBackup, ClosePending, OpenPending, PrepareUpdate, CancelUpdate
<1>4. CASE ((\E j \in Second : New!RequestCancel(j)) \/ New!ClosePending \/ New!OpenPending)
              /\ UNCHANGED <<admissionVars, originVars>>
  BY <1>4 DEF New!RequestCancel, New!CancelBackup, New!ClosePending, New!OpenPending,
     New!PrepareUpdate, New!CancelUpdate
<1>5. QED
  BY <1>1, <1>2, <1>3, <1>4

\* The steps that touch the rows of both: an opened repository, a process that ends, a
\* deletion.
LEMMA ProcessTold ==
    ASSUME TwoInv,
           \/ \E by \in Origin \ {"none"} : MakeSecond(by)
           \/ CommandEnds \/ WebRestarts \/ \E t \in Target : DeleteVm(t)
    PROVE  TwoInv' /\ RowsTold
<1> USE SecondAssumption DEF TwoInv, TwoType, ToldOK, RowsTold, Unsettled, OwnEvent, HasEvent,
        New!HasEvent, First, RunningPc, FinallyPc, Pc, VmPc, ContainerPc, EventState, Status,
        Terminal, ManifestHasRow, Alive, Stop, OpenRepository, InterruptRunning, secondVars,
        originVars, admissionVars, catalogVars, jobVars, hostVars
<1>1. CASE \E by \in Origin \ {"none"} : MakeSecond(by)
  BY <1>1 DEF MakeSecond
<1>2. CASE CommandEnds
  BY <1>2 DEF CommandEnds, New!ResetAdmission
<1>3. CASE WebRestarts
  <2>1. CASE origin = "command"
    BY <1>3, <2>1 DEF WebRestarts, ResetAdmission
  <2>2. CASE origin # "command"
    BY <1>3, <2>2 DEF WebRestarts, ResetAdmission, New!ResetAdmission
  <2>3. QED
    BY <2>1, <2>2
<1>4. CASE \E t \in Target : DeleteVm(t)
  BY <1>4 DEF DeleteVm
<1>5. QED
  BY <1>1, <1>2, <1>3, <1>4

LEMMA TwoInvInit == ASSUME TwoInit PROVE TwoInv
BY DEF TwoInit, Init, JobsInit, AdmissionInit, New!AdmissionInit, CatalogInit, TwoInv, TwoType,
   ToldOK, RunningPc, FinallyPc, ManifestHasRow, EventState, Status, Pc, Outcome

LEMMA TwoInvStep ==
    ASSUME TwoInv, [TwoNext]_allVars
    PROVE  TwoInv' /\ RowsTold
<1>1. CASE FirstStep
  <2>1. CASE \E j \in First : JobStep(j)
    BY <1>1, <2>1, FirstVmTold, FirstContainerTold DEF FirstStep, JobStep
  <2>2. CASE ~\E j \in First : JobStep(j)
    BY <1>1, <2>2, RequestsTold DEF FirstStep
  <2>3. QED
    BY <2>1, <2>2
<1>2. CASE SecondStep
  <2>1. CASE \E j \in Second : New!JobStep(j)
    BY <1>2, <2>1, SecondVmTold, SecondContainerTold DEF SecondStep, New!JobStep
  <2>2. CASE ~\E j \in Second : New!JobStep(j)
    BY <1>2, <2>2, RequestsTold DEF SecondStep
  <2>3. QED
    BY <2>1, <2>2
<1>3. CASE UNCHANGED allVars
  BY <1>3 DEF allVars, vars, secondVars, originVars, admissionVars, catalogVars, jobVars, hostVars,
     TwoInv, TwoType, ToldOK, RowsTold, Unsettled, OwnEvent, HasEvent, New!HasEvent, ManifestHasRow
<1>4. QED
  BY <1>1, <1>2, <1>3, ProcessTold DEF TwoNext

\* A second service over the same catalog takes nothing of a success away: a row that says
\* success still has its manifest, and its snapshot is off the host.
THEOREM TwoSuccessComplete == TwoSpec => []SuccessIsComplete
<1>1. TwoInv => SuccessIsComplete
  BY DEF TwoInv, ToldOK, SuccessIsComplete
<1>2. QED
  BY TwoInvInit, TwoInvStep, <1>1, PTL DEF TwoSpec

\* A backup whose row runs can be cancelled at the service that admitted it, whatever the
\* other service opens, marks and releases.
THEOREM LiveCancellable == TwoSpec => []LiveIsCancellable
<1>1. TwoInv => LiveIsCancellable
  BY DEF TwoInv, ToldOK, OwnEvent, LiveIsCancellable, Alive
<1>2. QED
  BY TwoInvInit, TwoInvStep, <1>1, PTL DEF TwoSpec

\* A manifest without a row is always one of a thread that was marked while it ran.
THEOREM ManifestOwned == TwoSpec => []ManifestHasRow
<1>1. TwoInv => ManifestHasRow
  BY DEF TwoInv
<1>2. QED
  BY TwoInvInit, TwoInvStep, <1>1, PTL DEF TwoSpec

\* A verdict is rewritten only when it was the mark of an opened repository on a thread
\* that still ran.
THEOREM VerdictOfThread == TwoSpec => VerdictKept
<1>1. TwoInv /\ [TwoNext]_allVars =>
        [\A j \in Job : status[j] \in Terminal /\ status'[j] \notin {status[j], "absent"}
            => status[j] = "failed" /\ j \in interrupted]_allVars
  BY TwoInvStep DEF RowsTold
<1>2. QED
  BY TwoInvInit, TwoInvStep, <1>1, PTL DEF TwoSpec, VerdictKept
=============================================================================
