------------------------ MODULE BackupService_proofs -------------------------
(***************************************************************************)
(* What holds of BackupService for any number of jobs, targets and slots   *)
(* and, unless a theorem says otherwise, for any set of faults.            *)
(***************************************************************************)
EXTENDS BackupService, FiniteSetTheorems, TLAPS

(* The type invariant *)

\* Every step of a VM backup keeps the types.
LEMMA VmStepType ==
    ASSUME TypeOK, NEW j \in Job, VmStep(j)
    PROVE  TypeOK'
<1> USE DEF TypeOK, Goto, Leave, EndJob, EndBackup, SetStatus, vars, admissionVars,
            catalogVars, jobVars, hostVars, Pc, VmPc, ContainerPc, Outcome,
            EventState, Status
<1>1. CASE Create(j)
  BY <1>1 DEF Create, CreateRow
<1>2. CASE Inspect(j)
  BY <1>2 DEF Inspect
<1>3. CASE CreateSnapshot(j)
  BY <1>3 DEF CreateSnapshot
<1>4. CASE Export(j)
  BY <1>4 DEF Export
<1>5. CASE FinalCheck(j)
  BY <1>5 DEF FinalCheck
<1>6. CASE PublishManifest(j)
  BY <1>6 DEF PublishManifest, WriteManifest, ManifestFault
<1>7. CASE RecordFailure(j)
  BY <1>7 DEF RecordFailure, FailRow
<1>8. CASE ReleaseAfterFailure(j)
  BY <1>8 DEF ReleaseAfterFailure
<1>9. CASE RecordCancel(j)
  BY <1>9 DEF RecordCancel, CancelRow
<1>10. CASE Cleanup(j)
  BY <1>10 DEF Cleanup
<1>11. CASE RemoveSnapshot(j)
  BY <1>11 DEF RemoveSnapshot
<1>12. CASE ReleaseAfterCleanupError(j)
  BY <1>12 DEF ReleaseAfterCleanupError
<1>13. CASE RecordCleanupFailure(j)
  BY <1>13 DEF RecordCleanupFailure, FailRow
<1>14. CASE Close(j)
  BY <1>14 DEF Close
<1>15. CASE Finish(j)
  BY <1>15 DEF Finish, FinishRow
<1>16. CASE Release(j)
  BY <1>16 DEF Release
<1>17. QED
  BY <1>1, <1>2, <1>3, <1>4, <1>5, <1>6, <1>7, <1>8, <1>9, <1>10, <1>11, <1>12,
     <1>13, <1>14, <1>15, <1>16 DEF VmStep

\* Every step of a container backup keeps the types; Pause needs that the target
\* of the job is a container.
LEMMA ContainerStepType ==
    ASSUME TypeOK, NEW j \in Job, ContainerStep(j),
           pc[j] = "c_pause" => target[j] \in Container
    PROVE  TypeOK'
<1> USE DEF TypeOK, Goto, Leave, EndJob, EndBackup, SetStatus, vars, admissionVars,
            catalogVars, jobVars, hostVars, Pc, VmPc, ContainerPc, Outcome,
            EventState, Status
<1>1. CASE CreateContainer(j)
  BY <1>1 DEF CreateContainer, CreateRow
<1>2. CASE Pause(j)
  BY <1>2 DEF Pause
<1>3. CASE Archive(j)
  BY <1>3 DEF Archive
<1>4. CASE LastReport(j)
  BY <1>4 DEF LastReport
<1>5. CASE PublishContainerManifest(j)
  BY <1>5 DEF PublishContainerManifest, WriteManifest, ManifestFault
<1>6. CASE FinishContainer(j)
  BY <1>6 DEF FinishContainer, FinishRow
<1>7. CASE FailContainer(j)
  BY <1>7 DEF FailContainer, FailRow
<1>8. CASE CancelContainer(j)
  BY <1>8 DEF CancelContainer, CancelRow
<1>9. CASE Unpause(j)
  BY <1>9 DEF Unpause
<1>10. CASE ReleaseContainer(j)
  BY <1>10 DEF ReleaseContainer
<1>11. QED
  BY <1>1, <1>2, <1>3, <1>4, <1>5, <1>6, <1>7, <1>8, <1>9, <1>10 DEF ContainerStep

\* A job in a container step is a job of a container, one in a VM step of a VM.
JobKinds ==
    \A j \in Job : /\ pc[j] \in ContainerPc => target[j] \in Container
                   /\ pc[j] \in VmPc => target[j] \in VM

\* The lemmas on a step take a Restart by itself too: an update restarts the service
\* where no fault does.
LEMMA JobKindsStep ==
    ASSUME TypeOK, JobKinds, [Next \/ Restart]_vars
    PROVE  JobKinds'
<1> USE DEF TypeOK, JobKinds, Goto, VmPc, ContainerPc, vars, jobVars
<1>1. CASE \E j \in Job : VmStep(j)
  BY <1>1 DEF VmStep, Create, Inspect, CreateSnapshot, Export, FinalCheck,
     PublishManifest, RecordFailure, ReleaseAfterFailure, RecordCancel, Cleanup,
     RemoveSnapshot, ReleaseAfterCleanupError, RecordCleanupFailure, Close, Finish,
     Release
<1>2. CASE \E j \in Job : ContainerStep(j)
  BY <1>2 DEF ContainerStep, CreateContainer, Pause, Archive, LastReport,
     PublishContainerManifest, FinishContainer, FailContainer, CancelContainer,
     Unpause, ReleaseContainer
<1>3. CASE \E j \in Job, t \in Target : Start(j, t)
  BY <1>3 DEF Start, StartVm, StartContainer, Admit
<1>4. CASE Restart
  BY <1>4 DEF Restart
<1>5. CASE ClosePending \/ OpenPending \/ \E j \in Job : RequestCancel(j)
  BY <1>5 DEF ClosePending, OpenPending, RequestCancel
<1>6. CASE UNCHANGED vars
  BY <1>6
<1>7. QED
  BY <1>1, <1>2, <1>3, <1>4, <1>5, <1>6 DEF Next, ServiceNext, JobStep, Crash

LEMMA TypeStep ==
    ASSUME TypeOK, JobKinds, [Next \/ Restart]_vars
    PROVE  TypeOK'
<1>1. CASE \E j \in Job : JobStep(j)
  BY <1>1, VmStepType, ContainerStepType DEF JobStep, JobKinds, ContainerPc
<1>2. CASE \E j \in Job, t \in Target : Start(j, t)
  BY <1>2 DEF TypeOK, Start, StartVm, StartContainer, Admit, BeginBackup, Goto, Pc,
     VmPc, ContainerPc, EventState, catalogVars, hostVars
<1>3. CASE \E j \in Job : RequestCancel(j)
  BY <1>3 DEF TypeOK, RequestCancel, CancelBackup, EventState, catalogVars, jobVars,
     hostVars
<1>4. CASE Restart
  BY <1>4 DEF TypeOK, Restart, ResetAdmission, InterruptRunning, Pc, EventState,
     Status, hostVars
<1>5. CASE ClosePending \/ OpenPending
  BY <1>5 DEF TypeOK, ClosePending, OpenPending, PrepareUpdate, CancelUpdate,
     catalogVars, jobVars, hostVars
<1>6. CASE UNCHANGED vars
  BY <1>6 DEF TypeOK, vars, admissionVars, catalogVars, jobVars, hostVars
<1>7. QED
  BY <1>1, <1>2, <1>3, <1>4, <1>5, <1>6 DEF Next, ServiceNext, Crash

LEMMA InitType == ASSUME Init PROVE TypeOK /\ JobKinds
<1>1. TypeOK
  BY DEF Init, JobsInit, AdmissionInit, CatalogInit, TypeOK, Pc, EventState, Status,
     Outcome
<1>2. JobKinds
  BY DEF Init, JobsInit, JobKinds, VmPc, ContainerPc
<1>3. QED
  BY <1>1, <1>2

\* Every variable of the service keeps its type, whatever the faults.
THEOREM TypeCorrect == Spec => []TypeOK
<1>1. Init => TypeOK /\ JobKinds
  BY InitType
<1>2. TypeOK /\ JobKinds /\ [Next]_vars => (TypeOK /\ JobKinds)'
  BY TypeStep, JobKindsStep
<1>3. QED
  BY <1>1, <1>2, PTL DEF Spec

------------------------------------------------------------------------------
(* The admission limit *)

\* All a step can do to the slot set.
SlotStep ==
    \/ active_vm_ids' = active_vm_ids
    \/ active_vm_ids' = {}
    \/ \E t \in Target : ~Refused(t) /\ active_vm_ids' = active_vm_ids \union {t}
    \/ \E j \in Job : active_vm_ids' = active_vm_ids \ {target[j]}

LEMMA NextIsSlotStep == [Next]_vars => SlotStep
<1> SUFFICES ASSUME [Next]_vars PROVE SlotStep
  OBVIOUS
<1> USE DEF SlotStep, admissionVars
<1>1. CASE \E j \in Job : VmStep(j)
  BY <1>1 DEF VmStep, Create, Inspect, CreateSnapshot, Export, FinalCheck,
     PublishManifest, RecordFailure, ReleaseAfterFailure, RecordCancel, Cleanup,
     RemoveSnapshot, ReleaseAfterCleanupError, RecordCleanupFailure, Close, Finish,
     Release, EndJob, EndBackup
<1>2. CASE \E j \in Job : ContainerStep(j)
  BY <1>2 DEF ContainerStep, CreateContainer, Pause, Archive, LastReport,
     PublishContainerManifest, FinishContainer, FailContainer, CancelContainer,
     Unpause, ReleaseContainer, EndJob, EndBackup
<1>3. CASE \E j \in Job, t \in Target : Start(j, t)
  BY <1>3 DEF Start, StartVm, StartContainer, Admit, BeginBackup
<1>4. CASE Crash
  BY <1>4 DEF Crash, Restart, ResetAdmission
<1>5. CASE ClosePending \/ OpenPending \/ \E j \in Job : RequestCancel(j)
  BY <1>5 DEF ClosePending, OpenPending, PrepareUpdate, CancelUpdate, RequestCancel,
     CancelBackup
<1>6. CASE UNCHANGED vars
  BY <1>6 DEF vars
<1>7. QED
  BY <1>1, <1>2, <1>3, <1>4, <1>5, <1>6 DEF Next, ServiceNext, JobStep

\* The bound alone is not inductive: a cardinality means something only for a
\* finite set.
BoundInv == IsFiniteSet(active_vm_ids) /\ AdmissionBound

LEMMA BoundStep == ASSUME BoundInv, SlotStep PROVE BoundInv'
<1> USE LimitAssumption DEF BoundInv, AdmissionBound
<1>1. CASE active_vm_ids' = active_vm_ids
  BY <1>1
<1>2. CASE active_vm_ids' = {}
  BY <1>2, FS_EmptySet
<1>3. ASSUME NEW t \in Target, ~Refused(t), active_vm_ids' = active_vm_ids \union {t}
      PROVE  BoundInv'
  <2>1. t \notin active_vm_ids /\ ~(Cardinality(active_vm_ids) >= Limit)
    BY <1>3 DEF Refused
  <2>2. Cardinality(active_vm_ids) \in Nat
    BY FS_CardinalityType
  <2>3. IsFiniteSet(active_vm_ids') /\ Cardinality(active_vm_ids') = Cardinality(active_vm_ids) + 1
    BY <1>3, <2>1, FS_AddElement
  <2>4. QED
    BY <2>1, <2>2, <2>3
<1>4. ASSUME NEW j \in Job, active_vm_ids' = active_vm_ids \ {target[j]}
      PROVE  BoundInv'
  <2>1. active_vm_ids' \subseteq active_vm_ids
    BY <1>4
  <2>2. IsFiniteSet(active_vm_ids') /\ Cardinality(active_vm_ids') <= Cardinality(active_vm_ids)
    BY <2>1, FS_Subset
  <2>3. Cardinality(active_vm_ids) \in Nat /\ Cardinality(active_vm_ids') \in Nat
    BY <2>2, FS_CardinalityType
  <2>4. QED
    BY <2>2, <2>3
<1>5. QED
  BY <1>1, <1>2, <1>3, <1>4 DEF SlotStep

\* README.md:17: the slots taken never exceed max_concurrent_backups, under every
\* fault, restart and double release.
THEOREM AdmissionBounded == Spec => []AdmissionBound
<1>1. Init => BoundInv
  BY FS_EmptySet, LimitAssumption DEF Init, JobsInit, AdmissionInit, BoundInv, AdmissionBound
<1>2. BoundInv /\ [Next]_vars => BoundInv'
  BY NextIsSlotStep, BoundStep
<1>3. BoundInv => AdmissionBound
  BY DEF BoundInv
<1>4. QED
  BY <1>1, <1>2, <1>3, PTL DEF Spec

\* While an update is pending, no step of anything adds a slot.
THEOREM AdmissionClosed == Spec => ClosedMeansClosed
<1>1. [Next]_vars =>
        (update_pending /\ update_pending' => active_vm_ids' \subseteq active_vm_ids)
  BY NextIsSlotStep DEF SlotStep, Refused
<1>2. QED
  BY <1>1, PTL DEF Spec, ClosedMeansClosed

------------------------------------------------------------------------------
(* Slots and holders *)

\* The steps in which a job holds its slot for certain.  In the finally block a job
\* that is leaving with an exception may have released it, or may not have.
HoldingPc ==
    ContainerPc \union {"create", "inspect", "snapshot", "export", "check", "manifest",
                       "fail", "release", "cancel", "finish", "end"}

JobHolds(j) ==
    /\ pc[j] = "idle" => ~HasEvent(j)
    /\ pc[j] \in HoldingPc => HasEvent(j)
    /\ pc[j] \in {"cleanup", "remove", "close", "cleanup_error"} /\ outcome[j] # "raised" =>
          HasEvent(j)
    /\ pc[j] = "release" => outcome[j] = "raised"
    /\ pc[j] \in {"remove", "cleanup_error"} => j \in handle
    /\ "cleanup" \notin Faults => pc[j] \notin {"cleanup_error", "late_fail"}

\* SlotsMatch needs to know who may still release a slot: only a job that
\* holds it.  One step breaks it, the second release after a failed cleanup.
SlotInv == TypeOK /\ JobKinds /\ SlotsMatch /\ \A j \in Job : JobHolds(j)

\* A holder that gives back its slot takes its own target out of the set.
LEMMA EndKeepsSlots ==
    ASSUME TypeOK, SlotsMatch, NEW j \in Job, HasEvent(j), EndJob(j),
           UNCHANGED target
    PROVE  SlotsMatch' /\ \A i \in Job : (HasEvent(i))' <=> HasEvent(i) /\ i # j
<1> USE DEF TypeOK, EndJob, EndBackup, HasEvent, EventState
<1>1. \A i \in Job : (HasEvent(i))' <=> HasEvent(i) /\ i # j
  OBVIOUS
<1>2. SlotsMatch'
  BY <1>1 DEF SlotsMatch
<1>3. QED
  BY <1>1, <1>2

\* A target without a slot has no holder, so admitting it keeps the match.
LEMMA BeginKeepsSlots ==
    ASSUME TypeOK, SlotsMatch, NEW j \in Job, NEW t \in Target, ~HasEvent(j),
           BeginBackup(j, t), target' = [target EXCEPT ![j] = t]
    PROVE  SlotsMatch'
<1> USE DEF TypeOK, BeginBackup, HasEvent, EventState
<1>1. \A i \in Job : (HasEvent(i))' <=> HasEvent(i) \/ i = j
  OBVIOUS
<1>2. \A i \in Job : target'[i] = IF i = j THEN t ELSE target[i]
  OBVIOUS
<1>3. t \notin active_vm_ids /\ active_vm_ids' = active_vm_ids \union {t}
  BY DEF Refused
<1>4. QED
  BY <1>1, <1>2, <1>3 DEF SlotsMatch

\* The steps that neither take nor give back a slot.
LEMMA FrameKeepsSlots ==
    ASSUME SlotsMatch, UNCHANGED <<admissionVars, target>>
    PROVE  SlotsMatch' /\ \A i \in Job : (HasEvent(i))' <=> HasEvent(i)
BY DEF SlotsMatch, HasEvent, admissionVars

LEMMA VmStepSlots ==
    ASSUME SlotInv, NEW j \in Job, VmStep(j)
    PROVE  \/ SlotsMatch' /\ \A i \in Job : JobHolds(i)'
           \/ pc[j] = "cleanup_error" /\ ReleasedTwice'
<1> USE DEF SlotInv, TypeOK, Goto, Leave, JobHolds, HoldingPc, ContainerPc
<1>1. CASE Create(j)
  <2>1. CASE Goto(j, "create", "done") /\ EndJob(j)
    BY <1>1, <2>1, EndKeepsSlots DEF Create
  <2>2. CASE Goto(j, "create", "inspect") /\ UNCHANGED admissionVars
    BY <1>1, <2>2, FrameKeepsSlots DEF Create
  <2>3. CASE Goto(j, "create", "done") /\ UNCHANGED admissionVars
    BY <1>1, <2>3, FrameKeepsSlots DEF Create
  <2>4. QED
    BY <1>1, <2>1, <2>2, <2>3 DEF Create
<1>2. CASE Inspect(j)
  BY <1>2, FrameKeepsSlots DEF Inspect
<1>3. CASE CreateSnapshot(j)
  BY <1>3, FrameKeepsSlots DEF CreateSnapshot
<1>4. CASE Export(j)
  BY <1>4, FrameKeepsSlots DEF Export
<1>5. CASE FinalCheck(j)
  BY <1>5, FrameKeepsSlots DEF FinalCheck
<1>6. CASE PublishManifest(j)
  BY <1>6, FrameKeepsSlots DEF PublishManifest
<1>7. CASE RecordFailure(j)
  BY <1>7, FrameKeepsSlots DEF RecordFailure
<1>8. CASE ReleaseAfterFailure(j)
  BY <1>8, EndKeepsSlots DEF ReleaseAfterFailure
<1>9. CASE RecordCancel(j)
  BY <1>9, FrameKeepsSlots DEF RecordCancel
<1>10. CASE Cleanup(j)
  BY <1>10, FrameKeepsSlots DEF Cleanup
<1>11. CASE RemoveSnapshot(j)
  BY <1>11, FrameKeepsSlots DEF RemoveSnapshot
<1>12. CASE ReleaseAfterCleanupError(j)
  <2>1. CASE outcome[j] = "raised"
    BY <1>12, <2>1 DEF ReleaseAfterCleanupError, ReleasedTwice, JobKinds, VmPc
  <2>2. CASE outcome[j] # "raised"
    BY <1>12, <2>2, EndKeepsSlots DEF ReleaseAfterCleanupError
  <2>3. QED
    BY <2>1, <2>2
<1>13. CASE RecordCleanupFailure(j)
  BY <1>13, FrameKeepsSlots DEF RecordCleanupFailure
<1>14. CASE Close(j)
  BY <1>14, FrameKeepsSlots DEF Close
<1>15. CASE Finish(j)
  BY <1>15, FrameKeepsSlots DEF Finish
<1>16. CASE Release(j)
  BY <1>16, EndKeepsSlots DEF Release
<1>17. QED
  BY <1>1, <1>2, <1>3, <1>4, <1>5, <1>6, <1>7, <1>8, <1>9, <1>10, <1>11, <1>12,
     <1>13, <1>14, <1>15, <1>16 DEF VmStep

LEMMA ContainerStepSlots ==
    ASSUME SlotInv, NEW j \in Job, ContainerStep(j)
    PROVE  SlotsMatch' /\ \A i \in Job : JobHolds(i)'
<1> USE DEF SlotInv, TypeOK, Goto, Leave, JobHolds, HoldingPc, ContainerPc
<1>1. CASE ReleaseContainer(j)
  BY <1>1, EndKeepsSlots DEF ReleaseContainer
<1>2. CASE CreateContainer(j) \/ Pause(j) \/ Archive(j) \/ LastReport(j)
  BY <1>2, FrameKeepsSlots DEF CreateContainer, Pause, Archive, LastReport
<1>3. CASE PublishContainerManifest(j) \/ FinishContainer(j) \/ FailContainer(j)
  BY <1>3, FrameKeepsSlots DEF PublishContainerManifest, FinishContainer, FailContainer
<1>4. CASE CancelContainer(j) \/ Unpause(j)
  BY <1>4, FrameKeepsSlots DEF CancelContainer, Unpause
<1>5. QED
  BY <1>1, <1>2, <1>3, <1>4 DEF ContainerStep

LEMMA SlotInvStep ==
    ASSUME SlotInv, [Next \/ Restart]_vars
    PROVE  SlotInv' \/ ("cleanup" \in Faults /\ ReleasedTwice')
<1>1. TypeOK' /\ JobKinds'
  BY TypeStep, JobKindsStep DEF SlotInv
<1>2. \/ SlotsMatch' /\ \A i \in Job : JobHolds(i)'
      \/ "cleanup" \in Faults /\ ReleasedTwice'
  <2>1. CASE \E j \in Job : JobStep(j)
    BY <2>1, VmStepSlots, ContainerStepSlots DEF JobStep, SlotInv, JobHolds
  <2>2. ASSUME NEW j \in Job, NEW t \in Target, Start(j, t)
        PROVE  SlotsMatch' /\ \A i \in Job : JobHolds(i)'
    <3>1. pc[j] = "idle" /\ ~HasEvent(j)
      BY <2>2 DEF SlotInv, JobHolds, Start, StartVm, StartContainer, Admit, Goto
    <3>2. BeginBackup(j, t) /\ target' = [target EXCEPT ![j] = t]
      BY <2>2 DEF Start, StartVm, StartContainer, Admit
    <3>3. SlotsMatch'
      BY <3>1, <3>2, BeginKeepsSlots DEF SlotInv
    <3>4. \A i \in Job : JobHolds(i)'
      BY <2>2, <3>2 DEF SlotInv, TypeOK, JobHolds, HoldingPc, ContainerPc, HasEvent,
         BeginBackup, Start, StartVm, StartContainer, Admit, Goto
    <3>5. QED
      BY <3>3, <3>4
  <2>3. CASE \E j \in Job : RequestCancel(j)
    BY <2>3 DEF SlotInv, TypeOK, SlotsMatch, JobHolds, HasEvent, EventState,
       RequestCancel, CancelBackup, jobVars
  <2>4. CASE Restart
    BY <2>4 DEF SlotInv, SlotsMatch, JobHolds, HoldingPc, ContainerPc, HasEvent,
       Restart, ResetAdmission
  <2>5. CASE ClosePending \/ OpenPending
    BY <2>5 DEF SlotInv, SlotsMatch, JobHolds, HasEvent, ClosePending,
       OpenPending, PrepareUpdate, CancelUpdate, jobVars
  <2>6. CASE UNCHANGED vars
    BY <2>6 DEF SlotInv, SlotsMatch, JobHolds, HasEvent, vars, admissionVars,
       jobVars
  <2>7. QED
    BY <2>1, <2>2, <2>3, <2>4, <2>5, <2>6 DEF Next, ServiceNext, Crash
<1>3. QED
  BY <1>1, <1>2 DEF SlotInv

LEMMA InitSlots == ASSUME Init PROVE SlotInv
<1>1. TypeOK /\ JobKinds
  BY InitType
<1>2. SlotsMatch /\ \A j \in Job : JobHolds(j)
  BY DEF Init, JobsInit, AdmissionInit, SlotsMatch, JobHolds, HoldingPc,
     ContainerPc, HasEvent
<1>3. QED
  BY <1>1, <1>2 DEF SlotInv

------------------------------------------------------------------------------
(* The pool *)

\* All a step can do to the events and the targets behind them, as long as only
\* holders give back slots.
EventStep ==
    \/ UNCHANGED <<admissionVars, target>>
    \/ \E j \in Job : HasEvent(j) /\ EndJob(j) /\ UNCHANGED target
    \/ \E j \in Job, t \in Target :
          ~HasEvent(j) /\ BeginBackup(j, t) /\ target' = [target EXCEPT ![j] = t]
    \/ \E j \in Job : CancelBackup(j) /\ UNCHANGED target
    \/ (PrepareUpdate \/ CancelUpdate) /\ UNCHANGED target
    \/ ResetAdmission

LEMMA NextIsEventStep ==
    ASSUME SlotInv, "cleanup" \notin Faults, [Next]_vars
    PROVE  EventStep
<1> USE DEF EventStep, SlotInv, JobHolds, HoldingPc, ContainerPc, Goto
<1>1. ASSUME NEW j \in Job, VmStep(j)
      PROVE  EventStep
  <2>1. CASE Create(j) \/ ReleaseAfterFailure(j) \/ Release(j)
    BY <2>1 DEF Create, ReleaseAfterFailure, Release
  <2>2. CASE Inspect(j) \/ CreateSnapshot(j) \/ Export(j) \/ FinalCheck(j) \/ PublishManifest(j)
    BY <2>2 DEF Inspect, CreateSnapshot, Export, FinalCheck, PublishManifest
  <2>3. CASE RecordFailure(j) \/ RecordCancel(j) \/ Cleanup(j) \/ RemoveSnapshot(j)
    BY <2>3 DEF RecordFailure, RecordCancel, Cleanup, RemoveSnapshot
  <2>4. CASE ReleaseAfterCleanupError(j) \/ RecordCleanupFailure(j) \/ Close(j) \/ Finish(j)
    BY <2>4 DEF ReleaseAfterCleanupError, RecordCleanupFailure, Close, Finish
  <2>5. QED
    BY <1>1, <2>1, <2>2, <2>3, <2>4 DEF VmStep
<1>2. ASSUME NEW j \in Job, ContainerStep(j)
      PROVE  EventStep
  <2>1. CASE ReleaseContainer(j)
    BY <2>1 DEF ReleaseContainer
  <2>2. CASE ~ReleaseContainer(j)
    BY <1>2, <2>2 DEF ContainerStep, CreateContainer, Pause, Archive, LastReport,
       PublishContainerManifest, FinishContainer, FailContainer, CancelContainer, Unpause
  <2>3. QED
    BY <2>1, <2>2
<1>3. CASE \E j \in Job, t \in Target : Start(j, t)
  BY <1>3 DEF Start, StartVm, StartContainer, Admit
<1>4. CASE ClosePending \/ OpenPending \/ \E j \in Job : RequestCancel(j)
  BY <1>4 DEF ClosePending, OpenPending, RequestCancel, jobVars
<1>5. CASE Crash \/ UNCHANGED vars
  BY <1>5 DEF Crash, Restart, vars, jobVars
<1>6. QED
  BY <1>1, <1>2, <1>3, <1>4, <1>5 DEF Next, ServiceNext, JobStep

\* There are no more holders than slots taken: each has a target of its own.
LEMMA HoldersFitSlots ==
    ASSUME SlotsMatch, BoundInv
    PROVE  IsFiniteSet(Holders) /\ Cardinality(Holders) <= Cardinality(active_vm_ids)
<1> DEFINE f == [h \in Holders |-> h[2]]
<1>1. f \in [Holders -> active_vm_ids]
  BY DEF Holders, SlotsMatch
<1>2. \A g, h \in Holders : f[g] = f[h] => g = h
  BY DEF Holders, SlotsMatch
<1>3. f \in Injection(Holders, active_vm_ids)
  BY <1>1, <1>2 DEF Injection, IsInjective
<1>4. QED
  BY <1>3, FS_Injection DEF BoundInv

LEMMA PoolStep ==
    ASSUME SlotInv, BoundInv, EventStep
    PROVE  [Pool!PoolNext]_(Pool!poolVars)
<1> USE DEF Pool!PoolNext, Pool!poolVars, SlotInv, TypeOK
<1>1. CASE UNCHANGED <<admissionVars, target>>
  BY <1>1 DEF admissionVars, Holders, HasEvent
<1>2. ASSUME NEW j \in Job, HasEvent(j), EndJob(j), UNCHANGED target
      PROVE  Pool!Leave
  <2>1. <<j, target[j]>> \in Holders
    BY <1>2 DEF Holders
  <2>2. Holders' = Holders \ {<<j, target[j]>>}
    <3>1. \A i \in Job : (HasEvent(i))' <=> HasEvent(i) /\ i # j
      BY <1>2 DEF HasEvent, EndJob, EndBackup, EventState
    <3>2. QED
      BY <3>1, <1>2 DEF Holders
  <2>3. QED
    BY <1>2, <2>1, <2>2 DEF Pool!Leave, EndJob, EndBackup
<1>3. ASSUME NEW j \in Job, NEW t \in Target, ~HasEvent(j), BeginBackup(j, t),
             target' = [target EXCEPT ![j] = t]
      PROVE  Pool!Acquire(j, t)
  <2>1. \A h \in Holders : h[1] # j /\ h[2] # t
    BY <1>3 DEF Holders, BeginBackup, Refused, SlotsMatch
  <2>2. Holders' = Holders \union {<<j, t>>}
    <3>1. \A i \in Job : (HasEvent(i))' <=> HasEvent(i) \/ i = j
      BY <1>3 DEF HasEvent, BeginBackup, EventState
    <3>2. \A i \in Job : target'[i] = IF i = j THEN t ELSE target[i]
      BY <1>3
    <3>3. QED
      BY <3>1, <3>2, <1>3 DEF Holders
  <2>3. Cardinality(Holders) < Limit
    <3>1. Cardinality(Holders) <= Cardinality(active_vm_ids)
      BY HoldersFitSlots
    <3>2. ~(Cardinality(active_vm_ids) >= Limit)
      BY <1>3 DEF BeginBackup, Refused
    <3>3. Cardinality(active_vm_ids) \in Nat
      BY FS_CardinalityType DEF BoundInv
    <3>5. Cardinality(Holders) \in Nat
      BY HoldersFitSlots, FS_CardinalityType
    <3>6. QED
      BY <3>1, <3>2, <3>3, <3>5, LimitAssumption
  <2>4. Pool!Cardinality(Holders) = Cardinality(Holders)
    BY DEF Pool!Cardinality, Cardinality
  <2>5. QED
    BY <1>3, <2>1, <2>2, <2>3, <2>4 DEF Pool!Acquire, BeginBackup, Refused
<1>4. ASSUME NEW j \in Job, CancelBackup(j), UNCHANGED target
      PROVE  UNCHANGED Pool!poolVars
  <2>1. \A i \in Job : (HasEvent(i))' <=> HasEvent(i)
    BY <1>4 DEF CancelBackup, HasEvent, EventState
  <2>2. QED
    BY <1>4, <2>1 DEF Holders, CancelBackup
<1>5. CASE PrepareUpdate /\ UNCHANGED target
  BY <1>5 DEF Pool!Close, PrepareUpdate, Holders, HasEvent
<1>6. CASE CancelUpdate /\ UNCHANGED target
  BY <1>6 DEF Pool!Open, CancelUpdate, Holders, HasEvent
<1>7. CASE ResetAdmission
  BY <1>7 DEF Pool!Renew, ResetAdmission, Holders, HasEvent
<1>8. QED
  BY <1>1, <1>2, <1>3, <1>4, <1>5, <1>6, <1>7 DEF EventStep

\* As long as snapshot removals and unpauses do not raise, the service implements a
\* pool of Limit slots: for any number of jobs, with crashes, failing writes and lost
\* replies, each of its steps is a step of the pool or none.
THEOREM SlotsArePool ==
    ASSUME "cleanup" \notin Faults
    PROVE  Spec => SlotsFormPool
<1>1. Init => SlotInv /\ BoundInv /\ Pool!PoolInit
  <2> SUFFICES ASSUME Init PROVE SlotInv /\ BoundInv /\ Pool!PoolInit
    OBVIOUS
  <2>1. BoundInv
    BY FS_EmptySet, LimitAssumption DEF Init, JobsInit, AdmissionInit, BoundInv,
       AdmissionBound
  <2>2. Pool!PoolInit
    BY DEF Pool!PoolInit, Init, JobsInit, AdmissionInit, Holders, HasEvent
  <2>3. QED
    BY <2>1, <2>2, InitSlots
<1>2. SlotInv /\ BoundInv /\ [Next]_vars => (SlotInv /\ BoundInv)'
  BY SlotInvStep, NextIsSlotStep, BoundStep
<1>3. SlotInv /\ BoundInv /\ [Next]_vars => [Pool!PoolNext]_(Pool!poolVars)
  BY NextIsEventStep, PoolStep
<1>4. QED
  BY <1>1, <1>2, <1>3, PTL DEF Spec, SlotsFormPool, Pool!PoolSpec

------------------------------------------------------------------------------
(* Verdicts *)

\* The steps of a job whose row has been inserted and has no verdict yet.
RunningPc ==
    {"inspect", "snapshot", "export", "check", "manifest", "fail", "cancel", "late_fail",
     "finish", "c_pause", "c_archive", "c_report", "c_manifest", "c_finish", "c_fail",
     "c_cancel"}

FinallyPc == {"cleanup", "remove", "cleanup_error", "close"}

\* What the row, the manifest and the snapshot of a job are at each of its steps.  A
\* snapshot without a handle belongs to a job that cannot become a success.
RowOK(j) ==
    /\ pc[j] \in {"idle", "create", "c_create"} => status[j] = "absent"
    /\ pc[j] \in RunningPc => status[j] = "running"
    /\ pc[j] \in FinallyPc /\ outcome[j] = "success" => status[j] = "running" /\ j \in manifests
    /\ pc[j] = "release" => outcome[j] = "raised"
    /\ pc[j] \in {"finish", "c_finish"} => j \in manifests /\ j \notin snapshots
    /\ pc[j] \in {"idle", "create", "inspect", "snapshot"} \union ContainerPc => j \notin snapshots
    /\ pc[j] \in {"export", "check", "manifest"} => (j \in snapshots => j \in handle)
    /\ pc[j] \in {"cleanup", "remove"} /\ outcome[j] = "success" => (j \in snapshots => j \in handle)
    /\ pc[j] = "close" /\ outcome[j] = "success" => j \notin snapshots
    /\ status[j] = "success" => /\ j \in manifests /\ j \notin snapshots
                               /\ pc[j] \in {"end", "done", "c_unpause", "c_end"}

RowInv == TypeOK /\ JobKinds /\ \A j \in Job : RowOK(j)

RowsKept == \A j \in Job : status[j] \in Terminal => status'[j] = status[j]

LEMMA VmStepRows ==
    ASSUME RowInv, NEW j \in Job, VmStep(j)
    PROVE  RowsKept /\ \A i \in Job : RowOK(i)'
<1> USE DEF RowInv, TypeOK, RowOK, RunningPc, FinallyPc, ContainerPc, RowsKept,
            Terminal, Goto, Leave, SetStatus, catalogVars, hostVars
<1>1. CASE Create(j)
  BY <1>1 DEF Create, CreateRow
<1>2. CASE Inspect(j)
  BY <1>2 DEF Inspect
<1>3. CASE CreateSnapshot(j)
  BY <1>3 DEF CreateSnapshot
<1>4. CASE Export(j)
  BY <1>4 DEF Export
<1>5. CASE FinalCheck(j)
  BY <1>5 DEF FinalCheck
<1>6. CASE PublishManifest(j)
  BY <1>6 DEF PublishManifest, WriteManifest, ManifestFault
<1>7. CASE RecordFailure(j)
  BY <1>7 DEF RecordFailure, FailRow
<1>8. CASE ReleaseAfterFailure(j)
  BY <1>8 DEF ReleaseAfterFailure
<1>9. CASE RecordCancel(j)
  BY <1>9 DEF RecordCancel, CancelRow
<1>10. CASE Cleanup(j)
  BY <1>10 DEF Cleanup
<1>11. CASE RemoveSnapshot(j)
  BY <1>11 DEF RemoveSnapshot
<1>12. CASE ReleaseAfterCleanupError(j)
  BY <1>12 DEF ReleaseAfterCleanupError
<1>13. CASE RecordCleanupFailure(j)
  BY <1>13 DEF RecordCleanupFailure, FailRow
<1>14. CASE Close(j)
  BY <1>14 DEF Close
<1>15. CASE Finish(j)
  BY <1>15 DEF Finish, FinishRow
<1>16. CASE Release(j)
  BY <1>16 DEF Release
<1>17. QED
  BY <1>1, <1>2, <1>3, <1>4, <1>5, <1>6, <1>7, <1>8, <1>9, <1>10, <1>11, <1>12,
     <1>13, <1>14, <1>15, <1>16 DEF VmStep

LEMMA ContainerStepRows ==
    ASSUME RowInv, NEW j \in Job, ContainerStep(j)
    PROVE  RowsKept /\ \A i \in Job : RowOK(i)'
<1> USE DEF RowInv, TypeOK, RowOK, RunningPc, FinallyPc, ContainerPc, RowsKept,
            Terminal, Goto, Leave, SetStatus, catalogVars, hostVars
<1>1. CASE CreateContainer(j)
  BY <1>1 DEF CreateContainer, CreateRow
<1>2. CASE Pause(j)
  BY <1>2 DEF Pause
<1>3. CASE Archive(j) \/ LastReport(j)
  BY <1>3 DEF Archive, LastReport
<1>4. CASE PublishContainerManifest(j)
  BY <1>4 DEF PublishContainerManifest, WriteManifest, ManifestFault
<1>5. CASE FinishContainer(j)
  BY <1>5 DEF FinishContainer, FinishRow
<1>6. CASE FailContainer(j)
  BY <1>6 DEF FailContainer, FailRow
<1>7. CASE CancelContainer(j)
  BY <1>7 DEF CancelContainer, CancelRow
<1>8. CASE Unpause(j) \/ ReleaseContainer(j)
  BY <1>8 DEF Unpause, ReleaseContainer
<1>9. QED
  BY <1>1, <1>2, <1>3, <1>4, <1>5, <1>6, <1>7, <1>8 DEF ContainerStep

LEMMA RowInvStep ==
    ASSUME RowInv, [Next \/ Restart]_vars
    PROVE  RowInv' /\ RowsKept
<1>1. TypeOK' /\ JobKinds'
  BY TypeStep, JobKindsStep DEF RowInv
<1>2. RowsKept /\ \A i \in Job : RowOK(i)'
  <2> USE DEF RowInv, RowOK, RowsKept
  <2>1. CASE \E j \in Job : JobStep(j)
    BY <2>1, VmStepRows, ContainerStepRows DEF JobStep
  <2>2. CASE \E j \in Job, t \in Target : Start(j, t)
    BY <2>2 DEF Start, StartVm, StartContainer, Admit, Goto, TypeOK, RunningPc,
       FinallyPc, ContainerPc, catalogVars, hostVars
  <2>3. CASE \E j \in Job : RequestCancel(j)
    BY <2>3 DEF RequestCancel, catalogVars, jobVars, hostVars
  <2>4. CASE Restart
    BY <2>4 DEF Restart, InterruptRunning, TypeOK, RunningPc, FinallyPc,
       ContainerPc, Terminal, hostVars
  <2>5. CASE ClosePending \/ OpenPending
    BY <2>5 DEF ClosePending, OpenPending, catalogVars, jobVars, hostVars
  <2>6. CASE UNCHANGED vars
    BY <2>6 DEF vars, catalogVars, jobVars, hostVars
  <2>7. QED
    BY <2>1, <2>2, <2>3, <2>4, <2>5, <2>6 DEF Next, ServiceNext, Crash
<1>3. QED
  BY <1>1, <1>2 DEF RowInv

LEMMA InitRows == ASSUME Init PROVE RowInv
BY InitType DEF Init, JobsInit, CatalogInit, RowInv, RowOK, RunningPc, FinallyPc

\* A success always has its manifest and never a snapshot left on the host, whatever
\* fails before or after: every fault sends the job to another verdict or to none.
THEOREM SuccessComplete == Spec => []SuccessIsComplete
<1>1. Init => RowInv
  BY InitRows
<1>2. RowInv /\ [Next]_vars => RowInv'
  BY RowInvStep
<1>3. RowInv => SuccessIsComplete
  BY DEF RowInv, RowOK, SuccessIsComplete
<1>4. QED
  BY <1>1, <1>2, <1>3, PTL DEF Spec

\* A verdict in the catalog is never rewritten by a later handler or a restart.
THEOREM VerdictFinal == Spec => TerminalIsFinal
<1>1. Init => RowInv
  BY InitRows
<1>2. RowInv /\ [Next]_vars => RowInv'
  BY RowInvStep
<1>3. RowInv /\ [Next]_vars =>
        [\A j \in Job : status[j] \in Terminal => status'[j] = status[j]]_vars
  BY RowInvStep DEF RowsKept
<1>4. QED
  BY <1>1, <1>2, <1>3, PTL DEF Spec, TerminalIsFinal

------------------------------------------------------------------------------
(* One backup on a target, and slots released twice *)

\* A job that is past its handlers and still on the host has its slot, or has given
\* it back with its failure already in the catalog.
StillIn(j) ==
    /\ pc[j] = "release" => status[j] = "failed"
    /\ pc[j] \in {"cleanup", "remove"} => HasEvent(j) \/ status[j] = "failed"

UseInv == SlotInv /\ RowInv /\ \A j \in Job : StillIn(j)

LEMMA StillInStep ==
    ASSUME UseInv, [Next \/ Restart]_vars
    PROVE  \A i \in Job : StillIn(i)'
<1> USE DEF UseInv, StillIn, SlotInv, RowInv, TypeOK, Goto
<1>1. ASSUME NEW j \in Job, VmStep(j)
      PROVE  \A i \in Job : StillIn(i)'
  <2> USE DEF HasEvent, EndJob, EndBackup, SetStatus, admissionVars, catalogVars
  <2>1. CASE Create(j)
    BY <2>1 DEF Create, CreateRow
  <2>2. CASE Inspect(j) \/ CreateSnapshot(j) \/ Export(j) \/ FinalCheck(j)
    BY <2>2 DEF Inspect, CreateSnapshot, Export, FinalCheck
  <2>3. CASE PublishManifest(j)
    BY <2>3 DEF PublishManifest, WriteManifest, ManifestFault, JobHolds, HoldingPc, EventState
  <2>4. CASE RecordFailure(j)
    BY <2>4 DEF RecordFailure, FailRow, RowOK, RunningPc, JobHolds, HoldingPc
  <2>5. CASE ReleaseAfterFailure(j)
    BY <2>5 DEF ReleaseAfterFailure
  <2>6. CASE RecordCancel(j)
    BY <2>6 DEF RecordCancel, CancelRow, JobHolds, HoldingPc
  <2>7. CASE Cleanup(j) \/ RemoveSnapshot(j) \/ Close(j)
    BY <2>7 DEF Cleanup, RemoveSnapshot, Close
  <2>8. CASE ReleaseAfterCleanupError(j) \/ RecordCleanupFailure(j)
    BY <2>8 DEF ReleaseAfterCleanupError, RecordCleanupFailure, FailRow
  <2>9. CASE Finish(j) \/ Release(j)
    BY <2>9 DEF Finish, FinishRow, Release
  <2>10. QED
    BY <1>1, <2>1, <2>2, <2>3, <2>4, <2>5, <2>6, <2>7, <2>8, <2>9 DEF VmStep
<1>2. ASSUME NEW j \in Job, ContainerStep(j)
      PROVE  \A i \in Job : StillIn(i)'
  <2>1. \A i \in Job : i # j => /\ pc'[i] = pc[i] /\ status'[i] = status[i]
                               /\ cancel_events'[i] = cancel_events[i]
    BY <1>2 DEF ContainerStep, CreateContainer, Pause, Archive, LastReport,
       PublishContainerManifest, FinishContainer, FailContainer, CancelContainer, Unpause,
       ReleaseContainer, CreateRow, WriteManifest, ManifestFault, FinishRow, FailRow,
       CancelRow, SetStatus, EndJob, EndBackup, admissionVars, catalogVars
  <2>2. pc'[j] \in ContainerPc \union {"done"}
    BY <1>2 DEF ContainerStep, CreateContainer, Pause, Archive, LastReport,
       PublishContainerManifest, FinishContainer, FailContainer, CancelContainer, Unpause,
       ReleaseContainer, ContainerPc
  <2>3. QED
    BY <2>1, <2>2 DEF ContainerPc, HasEvent
<1>3. CASE \E j \in Job, t \in Target : Start(j, t)
  BY <1>3 DEF Start, StartVm, StartContainer, Admit, BeginBackup, HasEvent, catalogVars
<1>4. CASE \E j \in Job : RequestCancel(j)
  BY <1>4 DEF RequestCancel, CancelBackup, HasEvent, catalogVars, jobVars
<1>5. CASE Restart
  BY <1>5 DEF Restart
<1>6. CASE ClosePending \/ OpenPending \/ UNCHANGED vars
  BY <1>6 DEF ClosePending, OpenPending, PrepareUpdate, CancelUpdate, HasEvent, vars,
     admissionVars, catalogVars, jobVars
<1>7. QED
  BY <1>1, <1>2, <1>3, <1>4, <1>5, <1>6 DEF Next, ServiceNext, JobStep, Crash

\* A slot that was released twice stays so until the process is gone.
LEMMA TwiceStays ==
    ASSUME TypeOK, ReleasedTwice, [Next]_vars
    PROVE  ReleasedTwice' \/ Restart
<1> USE DEF TypeOK, Goto, Leave
<1>1. PICK i \in handle : pc[i] = "done" /\ outcome[i] = "raised" /\ target[i] \in VM
  BY DEF ReleasedTwice
<1>2. \/ Restart
      \/ i \in handle' /\ pc'[i] = pc[i] /\ outcome'[i] = outcome[i] /\ target'[i] = target[i]
  <2>1. CASE \E j \in Job : VmStep(j)
    BY <1>1, <2>1 DEF VmStep, Create, Inspect, CreateSnapshot, Export, FinalCheck,
       PublishManifest, RecordFailure, ReleaseAfterFailure, RecordCancel, Cleanup,
       RemoveSnapshot, ReleaseAfterCleanupError, RecordCleanupFailure, Close, Finish, Release
  <2>2. CASE \E j \in Job : ContainerStep(j)
    BY <1>1, <2>2 DEF ContainerStep, CreateContainer, Pause, Archive, LastReport,
       PublishContainerManifest, FinishContainer, FailContainer, CancelContainer, Unpause,
       ReleaseContainer
  <2>3. CASE \E j \in Job, t \in Target : Start(j, t)
    BY <1>1, <2>3 DEF Start, StartVm, StartContainer, Admit
  <2>4. CASE ClosePending \/ OpenPending \/ UNCHANGED vars \/ \E j \in Job : RequestCancel(j)
    BY <1>1, <2>4 DEF ClosePending, OpenPending, RequestCancel, vars, jobVars
  <2>5. QED
    BY <2>1, <2>2, <2>3, <2>4 DEF Next, ServiceNext, JobStep, Crash
<1>3. QED
  BY <1>1, <1>2 DEF ReleasedTwice

\* Whatever the old process released, the new one has no holder and no slot.
LEMMA RestartRenews ==
    ASSUME RowInv, Restart
    PROVE  UseInv'
<1>1. RowInv'
  BY RowInvStep
<1>2. \A i \in Job : pc'[i] \in {"idle", "done"} /\ ~HasEvent(i)'
  BY DEF Restart, ResetAdmission, HasEvent
<1>3. SlotsMatch'
  BY <1>2 DEF SlotsMatch, Restart, ResetAdmission
<1>4. \A i \in Job : JobHolds(i)' /\ StillIn(i)'
  BY <1>2 DEF JobHolds, HoldingPc, ContainerPc, StillIn
<1>5. QED
  BY <1>1, <1>3, <1>4 DEF UseInv, SlotInv, RowInv

\* Neither slots nor threads can be trusted once a slot was released twice, the rows can.
UseOrTwice == RowInv /\ (ReleasedTwice \/ UseInv)

LEMMA UseOrTwiceStep ==
    ASSUME UseOrTwice, [Next]_vars
    PROVE  UseOrTwice'
<1>1. RowInv'
  BY RowInvStep DEF UseOrTwice
<1>2. CASE Restart
  BY <1>1, <1>2, RestartRenews DEF UseOrTwice
<1>3. CASE ReleasedTwice /\ ~Restart
  BY <1>1, <1>3, TwiceStays DEF UseOrTwice, RowInv
<1>4. CASE UseInv
  <2>1. SlotInv' \/ ReleasedTwice'
    BY <1>4, SlotInvStep DEF UseInv
  <2>2. \A i \in Job : StillIn(i)'
    BY <1>4, StillInStep
  <2>3. QED
    BY <1>1, <2>1, <2>2 DEF UseOrTwice, UseInv
<1>5. QED
  BY <1>2, <1>3, <1>4 DEF UseOrTwice

LEMMA InitUse == ASSUME Init PROVE UseInv /\ UseOrTwice
<1>1. SlotInv /\ RowInv
  BY InitSlots, InitRows
<1>2. QED
  BY <1>1 DEF Init, JobsInit, StillIn, UseInv, UseOrTwice

\* The slots are exactly the targets of the jobs that hold one, and no target has two
\* holders, under every fault and restart, unless a failed backup that could not remove
\* its snapshot has given its slot back a second time.
THEOREM SlotsAreHolders == Spec => []SlotsMatchHolders
<1>1. UseOrTwice => SlotsMatchHolders
  BY DEF UseOrTwice, UseInv, SlotInv, SlotsMatchHolders
<1>2. QED
  BY InitUse, UseOrTwiceStep, <1>1, PTL DEF Spec

\* Two backups are on the host for one target only when one of them is already
\* recorded as failed, under every fault and restart, with the same exception.
THEOREM UseIsExclusive == Spec => []ExclusiveUse
<1>1. UseOrTwice => ExclusiveUse
  <2> SUFFICES ASSUME UseInv, NEW i \in Job, NEW j \in Job, i # j, OnHost(i), OnHost(j),
                      target[i] = target[j], status[i] # "failed", status[j] # "failed"
               PROVE  FALSE
    BY DEF UseOrTwice, ExclusiveUse
  <2>1. ASSUME NEW k \in Job, OnHost(k), status[k] # "failed"
        PROVE  HasEvent(k)
    BY <2>1 DEF UseInv, StillIn, SlotInv, OnHost, JobHolds, HoldingPc, ContainerPc
  <2>2. HasEvent(i) /\ HasEvent(j)
    BY <2>1
  <2>3. QED
    BY <2>2 DEF UseInv, SlotInv, SlotsMatch
<1>2. QED
  BY InitUse, UseOrTwiceStep, <1>1, PTL DEF Spec

------------------------------------------------------------------------------
(* Cancellations *)

Cancellable == {"create", "inspect", "snapshot", "export", "check"}

\* A VM backup that has no way left to a success.
Doomed(j) ==
    /\ status[j] # "success"
    /\ \/ pc[j] \in Cancellable /\ CancelRequested(j)
       \/ pc[j] \in {"cancel", "fail", "end", "done"}
       \/ pc[j] \in {"release", "cleanup", "remove", "cleanup_error", "close"}
             /\ outcome[j] # "success"

\* The event stays set until the thread itself takes it away, and its last look finds it.
LEMMA DoomedStep ==
    ASSUME TypeOK, NEW j \in Job, Doomed(j), [Next]_vars
    PROVE  Doomed(j)'
<1> USE DEF Doomed, Cancellable, CancelRequested, TypeOK
<1>1. ASSUME VmStep(j)
      PROVE  Doomed(j)'
  <2> USE DEF Goto, Leave, EndJob, EndBackup, SetStatus, CreateRow, FailRow, CancelRow,
              WriteManifest, ManifestFault, admissionVars, catalogVars
  <2>1. CASE Create(j) \/ Inspect(j) \/ CreateSnapshot(j)
    BY <2>1 DEF Create, Inspect, CreateSnapshot
  <2>2. CASE Export(j) \/ FinalCheck(j)
    BY <2>2 DEF Export, FinalCheck
  <2>3. ~PublishManifest(j) /\ ~RecordCleanupFailure(j) /\ ~Finish(j)
    BY DEF PublishManifest, RecordCleanupFailure, Finish
  <2>4. CASE RecordFailure(j) \/ RecordCancel(j)
    BY <2>4 DEF RecordFailure, RecordCancel
  <2>5. CASE ReleaseAfterFailure(j) \/ Cleanup(j) \/ RemoveSnapshot(j)
    BY <2>5 DEF ReleaseAfterFailure, Cleanup, RemoveSnapshot
  <2>6. CASE ReleaseAfterCleanupError(j) \/ Close(j) \/ Release(j)
    BY <2>6 DEF ReleaseAfterCleanupError, Close, Release
  <2>7. QED
    BY <1>1, <2>1, <2>2, <2>3, <2>4, <2>5, <2>6 DEF VmStep
<1>2. ~ContainerStep(j) /\ \A t \in Target : ~Start(j, t)
  BY DEF ContainerStep, CreateContainer, Pause, Archive, LastReport, PublishContainerManifest,
     FinishContainer, FailContainer, CancelContainer, Unpause, ReleaseContainer, Start, StartVm,
     StartContainer, Admit, Goto
<1>3. ASSUME UNCHANGED <<pc[j], outcome[j], status[j], cancel_events[j]>>
      PROVE  Doomed(j)'
  BY <1>3
<1>4. ASSUME NEW i \in Job, i # j, JobStep(i) \/ \E t \in Target : Start(i, t)
      PROVE  Doomed(j)'
  <2> USE DEF Goto, Leave, EndJob, EndBackup, SetStatus, admissionVars, catalogVars
  <2>1. CASE VmStep(i)
    BY <1>3, <1>4, <2>1 DEF VmStep, Create, Inspect, CreateSnapshot, Export, FinalCheck,
       PublishManifest, RecordFailure, ReleaseAfterFailure, RecordCancel, Cleanup,
       RemoveSnapshot, ReleaseAfterCleanupError, RecordCleanupFailure, Close, Finish, Release,
       CreateRow, WriteManifest, ManifestFault, FinishRow, FailRow, CancelRow
  <2>2. CASE ContainerStep(i)
    BY <1>3, <1>4, <2>2 DEF ContainerStep, CreateContainer, Pause, Archive, LastReport,
       PublishContainerManifest, FinishContainer, FailContainer, CancelContainer, Unpause,
       ReleaseContainer, CreateRow, WriteManifest, ManifestFault, FinishRow, FailRow, CancelRow
  <2>3. CASE \E t \in Target : Start(i, t)
    BY <1>3, <1>4, <2>3 DEF Start, StartVm, StartContainer, Admit, BeginBackup
  <2>4. QED
    BY <1>4, <2>1, <2>2, <2>3 DEF JobStep
<1>5. CASE \E i \in Job : RequestCancel(i)
  BY <1>5 DEF RequestCancel, CancelBackup, catalogVars, jobVars
<1>6. CASE Restart
  BY <1>6 DEF Restart, InterruptRunning
<1>7. CASE ClosePending \/ OpenPending \/ UNCHANGED vars
  BY <1>7 DEF ClosePending, OpenPending, PrepareUpdate, CancelUpdate, vars, admissionVars,
     catalogVars, jobVars
<1>8. QED
  BY <1>1, <1>2, <1>4, <1>5, <1>6, <1>7 DEF Next, ServiceNext, JobStep, Crash

\* A VM backup that is cancelled before its last look at the event is never a success,
\* under every fault and restart.
THEOREM CancelKept == Spec => CancelHonoured
<1>1. Init => RowInv
  BY InitRows
<1>2. RowInv /\ [Next]_vars => RowInv'
  BY RowInvStep
<1>3. ASSUME NEW j \in Job
      PROVE  Spec => [](pc[j] \in {"create", "inspect", "snapshot", "export", "check"}
                          /\ CancelRequested(j)
                        => [](status[j] # "success"))
  <2>1. RowInv /\ pc[j] \in {"create", "inspect", "snapshot", "export", "check"}
               /\ CancelRequested(j) => Doomed(j)
    BY DEF RowInv, RowOK, RunningPc, Doomed, Cancellable
  <2>2. RowInv /\ Doomed(j) /\ [Next]_vars => Doomed(j)'
    BY DoomedStep DEF RowInv
  <2>3. Doomed(j) => status[j] # "success"
    BY DEF Doomed
  <2>4. QED
    BY <1>1, <1>2, <2>1, <2>2, <2>3, PTL DEF Spec
<1>4. QED
  BY <1>3 DEF CancelHonoured
=============================================================================
