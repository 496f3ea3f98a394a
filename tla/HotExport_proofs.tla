-------------------------- MODULE HotExport_proofs ----------------------------
(***************************************************************************)
(* A hot export whose connection does not break cleans up behind itself,   *)
(* for any number of disks and whatever the host does: nothing is pulled   *)
(* away under a clone, and nothing is left when the backup ends.           *)
(***************************************************************************)
EXTENDS HotExport, TLAPS

\* Nothing has been made on the datastore.
Untouched ==
    /\ child = "none" /\ pidFile = 0 /\ ~directory
    /\ \A d \in Disk : clones[d] = "none"

NoClones == \A d \in Disk : clones[d] = "none"

\* What is on the host at each place of the client.
OnHost ==
    /\ pc \in {"lease", "initializing", "complete", "abort", "connect", "mkdir"} => Untouched
    /\ pc = "download" /\ lease = "ready" => Untouched
    /\ child = "running" => pc \in {"poll", "stop", "wait"}
    /\ pc = "unlink" => \A d \in Disk : clones[d] # "none" => d \in created
    /\ pc = "rmdir" => NoClones /\ pidFile = 0
    /\ pc \in {"remove", "end"} => NoClones /\ ~directory
    /\ pc = "end" => ~snapshot

\* The lease at each place of the client.
LeaseFollows ==
    /\ pc = "initializing" => lease \in {"initializing", "ready", "error"}
    /\ pc = "download" => lease \in {"none", "ready"}
    /\ pc = "complete" => lease = "ready"
    /\ pc = "abort" => lease \in {"ready", "error"}
    /\ pc \in {"lease", "connect", "mkdir", "start", "poll", "stop", "wait", "list",
               "unlink", "rmdir"} => lease = "none"
    /\ pc \in {"remove", "end"} => lease \in {"none", "completed", "aborted"}

CleanupInv == TypeOK /\ (~broken => OnHost /\ LeaseFollows)

------------------------------------------------------------------------------

LEMMA CleanupInit == Init => CleanupInv
<1> SUFFICES ASSUME Init
             PROVE  CleanupInv
  OBVIOUS
<1>1. TypeOK
  <2>1. disk \in Disk /\ pidFile \in 0..Disks
    BY HotExportDisks DEF Init, Disk
  <2>2. clones \in [Disk -> {"none", "part", "full"}] /\ created \subseteq Disk
    BY DEF Init
  <2>3. {cancelled, snapshot, broken} \subseteq BOOLEAN /\ directory \in BOOLEAN
    BY DEF Init
  <2> QED
    BY <2>1, <2>2, <2>3 DEF Init, TypeOK
<1>2. OnHost /\ LeaseFollows
  BY DEF Init, OnHost, LeaseFollows, Untouched
<1> QED
  BY <1>1, <1>2 DEF CleanupInv

\* Each action keeps the invariant.  Once broken, only the types are left to keep.
LEMMA CleanupStep == CleanupInv /\ [Next]_vars => CleanupInv'
<1> SUFFICES ASSUME CleanupInv, [Next]_vars
             PROVE  CleanupInv'
  OBVIOUS
<1> USE HotExportDisks
<1>1. TypeOK'
  <2> USE DEF CleanupInv, TypeOK, Disk, hostVars, Goto, Throw, Net
  <2>1. CASE AskLease
    BY <2>1 DEF AskLease
  <2>2. CASE AwaitLease
    BY <2>2 DEF AwaitLease
  <2>3. CASE Download
    BY <2>3 DEF Download
  <2>4. CASE CompleteLease
    BY <2>4 DEF CompleteLease
  <2>5. CASE AbortLease
    BY <2>5 DEF AbortLease
  <2>6. CASE Connect
    BY <2>6 DEF Connect
  <2>7. CASE MakeDirectory
    BY <2>7 DEF MakeDirectory
  <2>8. CASE StartClone
    BY <2>8 DEF StartClone
  <2>9. CASE PollRaises
    BY <2>9 DEF PollRaises
  <2>10. CASE Stop
    BY <2>10 DEF Stop
  <2>11. CASE AwaitStopped
    BY <2>11 DEF AwaitStopped
  <2>12. CASE Collect
    <3>1. created' = created \union {disk} \/ created' = created
      BY <2>12 DEF Collect
    <3>2. created' \subseteq Disk
      BY <3>1
    <3>3. disk' = disk \/ (disk # Disks /\ disk' = disk + 1)
      BY <2>12 DEF Collect
    <3>4. disk' \in Disk
      BY <3>3
    <3> QED
      BY <2>12, <3>2, <3>4 DEF Collect
  <2>13. CASE ListDirectory
    BY <2>13 DEF ListDirectory
  <2>14. CASE RemoveFiles
    <3>1. clones' \in [Disk -> {"none", "part", "full"}]
      BY <2>14 DEF RemoveFiles
    <3>2. pidFile' \in 0..Disks
      BY <2>14 DEF RemoveFiles
    <3>3. pc' = "rmdir" /\ broken' \in BOOLEAN
      BY <2>14 DEF RemoveFiles
    <3> QED
      BY <2>14, <3>1, <3>2, <3>3 DEF RemoveFiles
  <2>15. CASE RemoveDirectory
    BY <2>15 DEF RemoveDirectory
  <2>16. CASE RemoveSnapshot
    BY <2>16 DEF RemoveSnapshot
  <2>17. CASE HostStep
    <3>1. CASE HostLease
      BY <3>1 DEF HostLease
    <3>2. CASE HostPid
      BY <3>2 DEF HostPid
    <3>3. CASE HostWrite
      BY <3>3 DEF HostWrite
    <3>4. CASE HostExit
      BY <3>4 DEF HostExit
    <3> QED
      BY <2>17, <3>1, <3>2, <3>3, <3>4 DEF HostStep
  <2>18. CASE Cancel
    BY <2>18 DEF Cancel
  <2>19. CASE UNCHANGED vars
    BY <2>19 DEF vars
  <2> QED
    BY <2>1, <2>2, <2>3, <2>4, <2>5, <2>6, <2>7, <2>8, <2>9, <2>10, <2>11, <2>12, <2>13,
       <2>14, <2>15, <2>16, <2>17, <2>18, <2>19 DEF Next, ClientStep
<1>2. ASSUME ~broken'
      PROVE  OnHost' /\ LeaseFollows'
  <2> USE <1>2 DEF CleanupInv, TypeOK, OnHost, LeaseFollows, Untouched, NoClones, hostVars,
                   Goto, Throw, Net
  <2>1. CASE AskLease
    BY <2>1 DEF AskLease
  <2>2. CASE AwaitLease
    BY <2>2 DEF AwaitLease
  <2>3. CASE Download
    BY <2>3 DEF Download
  <2>4. CASE CompleteLease
    BY <2>4 DEF CompleteLease
  <2>5. CASE AbortLease
    BY <2>5 DEF AbortLease
  <2>6. CASE Connect
    BY <2>6 DEF Connect
  <2>7. CASE MakeDirectory
    BY <2>7 DEF MakeDirectory
  <2>8. CASE StartClone
    BY <2>8 DEF StartClone
  <2>9. CASE PollRaises
    BY <2>9 DEF PollRaises
  <2>10. CASE Stop
    BY <2>10 DEF Stop
  <2>11. CASE AwaitStopped
    BY <2>11 DEF AwaitStopped
  <2>12. CASE Collect
    BY <2>12 DEF Collect
  <2>13. CASE ListDirectory
    BY <2>13 DEF ListDirectory
  <2>14. CASE RemoveFiles
    BY <2>14 DEF RemoveFiles
  <2>15. CASE RemoveDirectory
    BY <2>15 DEF RemoveDirectory
  <2>16. CASE RemoveSnapshot
    BY <2>16 DEF RemoveSnapshot
  <2>17. CASE HostStep
    BY <2>17 DEF HostStep, HostLease, HostPid, HostWrite, HostExit
  <2>18. CASE Cancel
    BY <2>18 DEF Cancel
  <2>19. CASE UNCHANGED vars
    BY <2>19 DEF vars
  <2> QED
    BY <2>1, <2>2, <2>3, <2>4, <2>5, <2>6, <2>7, <2>8, <2>9, <2>10, <2>11, <2>12, <2>13,
       <2>14, <2>15, <2>16, <2>17, <2>18, <2>19 DEF Next, ClientStep
<1> QED
  BY <1>1, <1>2 DEF CleanupInv

\* The variables of an export keep their types.
THEOREM TypeCorrect == Spec => []TypeOK
<1>1. CleanupInv => TypeOK
  BY DEF CleanupInv
<1> QED
  BY CleanupInit, CleanupStep, <1>1, PTL DEF Spec

\* README.md:214: with a connection that does not break, a backup leaves neither a
\* snapshot nor a clone, a directory or an open lease, however it ends.
THEOREM NothingLeft == Spec => []LeavesNothing
<1>1. CleanupInv => LeavesNothing
  BY DEF CleanupInv, OnHost, LeaseFollows, NoClones, LeavesNothing
<1> QED
  BY CleanupInit, CleanupStep, <1>1, PTL DEF Spec

\* esxi.py:545: with a connection that does not break, the client removes nothing while
\* vmkfstools still reads the snapshot.
THEOREM CloneUndisturbed == Spec => []NothingPulledAway
<1>1. CleanupInv => NothingPulledAway
  BY DEF CleanupInv, OnHost, NothingPulledAway
<1> QED
  BY CleanupInit, CleanupStep, <1>1, PTL DEF Spec
=============================================================================
