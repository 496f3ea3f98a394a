----------------------------- MODULE HotExport ------------------------------
(***************************************************************************)
(* export_hot of one backup: the export lease of ESXi, or, on a host that  *)
(* has none, clones of the disks that vmkfstools writes on the host and    *)
(* the client downloads and removes.  The clone runs on the host by itself;*)
(* the client knows of it through the connection, which may break at any   *)
(* call, and through a file with its process id.                           *)
(***************************************************************************)
EXTENDS Naturals, FiniteSets

CONSTANTS
    Disks,      \* the number of disks of the VM
    Faults      \* "net": a call over the connection raises; "host": the lease or a
                \* clone fails

ASSUME HotExportDisks == Disks \in Nat \ {0}
ASSUME HotExportFaults == Faults \subseteq {"net", "host"}

Disk == 1..Disks

VARIABLES
    pc,         \* where the client is
    lease,      \* the export lease
    disk,       \* the disk that is cloned
    child,      \* the vmkfstools process of that disk
    pidFile,    \* the disk whose process the file names, 0 for no file
    directory,  \* .esxi-backup-<id> is on the datastore
    clones,     \* disk -> what the datastore has of its clone
    created,    \* the clones the client knows
    raised,     \* what the client raises: nothing, the cancellation, an error
    cancelled,  \* cancel_event
    snapshot,   \* the snapshot is on the host
    broken      \* history: a call over the connection has raised

hostVars == <<child, pidFile, directory, clones>>
vars == <<pc, lease, disk, hostVars, created, raised, cancelled, snapshot, broken>>

Init ==
    /\ pc = "lease" /\ lease = "none"
    /\ disk = 1 /\ child = "none" /\ pidFile = 0
    /\ directory = FALSE /\ clones = [d \in Disk |-> "none"] /\ created = {}
    /\ raised = "nothing" /\ cancelled = FALSE
    /\ snapshot = TRUE /\ broken = FALSE

Goto(from, to) == pc = from /\ pc' = to

\* A call raises: the client leaves for its handler.
Throw(what, handler) == raised' = what /\ pc' = handler

\* The error of a call over the connection.
Net(handler) == "net" \in Faults /\ Throw("error", handler) /\ broken' = TRUE

------------------------------------------------------------------------------
(* export *)

\* ExportSnapshot: a lease, or NotSupported, or an error before there is any.
AskLease ==
    /\ pc = "lease"
    /\ \/ lease' = "initializing" /\ pc' = "initializing" /\ UNCHANGED <<raised, broken>>
       \/ pc' = "connect" /\ UNCHANGED <<lease, raised, broken>>
       \/ Net("remove") /\ UNCHANGED lease
    /\ UNCHANGED <<disk, hostVars, created, cancelled, snapshot>>

\* The host settles the lease.
HostLease ==
    /\ lease = "initializing"
    /\ \/ lease' = "ready"
       \/ "host" \in Faults /\ lease' = "error"
    /\ UNCHANGED <<pc, disk, hostVars, created, raised, cancelled, snapshot, broken>>

AwaitLease ==
    /\ pc = "initializing" /\ lease # "initializing"
    /\ \/ lease = "ready" /\ pc' = "download" /\ UNCHANGED raised
       \/ lease = "error" /\ Throw("error", "abort")
    /\ UNCHANGED <<lease, disk, hostVars, created, cancelled, snapshot, broken>>

\* The body of the with statement: all files, or the cancellation, or an error.
Download ==
    LET handler == IF lease = "ready" THEN "abort" ELSE "list"
    IN  /\ pc = "download"
        /\ \/ /\ ~cancelled
              /\ pc' = IF lease = "ready" THEN "complete" ELSE "list"
              /\ UNCHANGED <<raised, broken>>
           \/ cancelled /\ Throw("cancelled", handler) /\ UNCHANGED broken
           \/ Net(handler)
        /\ UNCHANGED <<lease, disk, hostVars, created, cancelled, snapshot>>

CompleteLease ==
    /\ pc = "complete"
    /\ \/ lease' = "completed" /\ pc' = "remove" /\ UNCHANGED <<raised, broken>>
       \/ Net("abort") /\ UNCHANGED lease
    /\ UNCHANGED <<disk, hostVars, created, cancelled, snapshot>>

AbortLease ==
    /\ pc = "abort"
    /\ \/ lease' = "aborted" /\ pc' = "remove" /\ UNCHANGED <<raised, broken>>
       \/ Net("remove") /\ UNCHANGED lease
    /\ UNCHANGED <<disk, hostVars, created, cancelled, snapshot>>

------------------------------------------------------------------------------
(* export_snapshot_ssh *)

\* No session, no disks or no datastore with the space: nothing has been made.
Connect ==
    /\ pc = "connect"
    /\ \/ pc' = "mkdir" /\ UNCHANGED <<raised, broken>>
       \/ Net("remove")
       \/ "host" \in Faults /\ Throw("error", "list") /\ UNCHANGED broken
    /\ UNCHANGED <<lease, disk, hostVars, created, cancelled, snapshot>>

MakeDirectory ==
    /\ pc = "mkdir"
    /\ \/ directory' = TRUE /\ pc' = "start" /\ UNCHANGED <<raised, broken>>
       \/ Net("list") /\ UNCHANGED directory
    /\ UNCHANGED <<lease, disk, child, pidFile, clones, created, cancelled, snapshot>>

\* exec_command of the clone in the background of a shell.
StartClone ==
    /\ pc = "start"
    /\ \/ child' = "running" /\ pc' = "poll" /\ UNCHANGED <<raised, broken>>
       \/ Net("list") /\ UNCHANGED child
    /\ UNCHANGED <<lease, disk, pidFile, directory, clones, created, cancelled, snapshot>>

\* The shell writes the process id some time after the process began; until then the
\* file is that of the last disk.
HostPid ==
    /\ child = "running" /\ pidFile # disk /\ directory
    /\ pidFile' = disk
    /\ UNCHANGED <<pc, lease, disk, child, directory, clones, created, raised, cancelled,
                   snapshot, broken>>

\* The clone begins its files; it may write more of them after some were removed.
HostWrite ==
    /\ child = "running" /\ clones[disk] = "none" /\ directory
    /\ clones' = [clones EXCEPT ![disk] = "part"]
    /\ UNCHANGED <<pc, lease, disk, child, pidFile, directory, created, raised, cancelled,
                   snapshot, broken>>

HostExit ==
    /\ child = "running"
    /\ \/ /\ clones[disk] = "part"
          /\ child' = "done" /\ clones' = [clones EXCEPT ![disk] = "full"]
       \/ /\ "host" \in Faults \/ ~directory
          /\ child' = "failed" /\ UNCHANGED clones
    /\ UNCHANGED <<pc, lease, disk, pidFile, directory, created, raised, cancelled, snapshot, broken>>

\* Until the clone has ended, each turn reports progress: the report raises when the
\* backup is cancelled, or when the directory cannot be listed.
PollRaises ==
    /\ pc = "poll" /\ child = "running"
    /\ \/ cancelled /\ Throw("cancelled", "stop") /\ UNCHANGED broken
       \/ Net("stop")
    /\ UNCHANGED <<lease, disk, hostVars, created, cancelled, snapshot>>

\* Seeded bug: the client does not wait for the process it has killed.
StopAndGo ==
    /\ pc = "stop"
    /\ pc' = "list"
    /\ UNCHANGED <<lease, disk, hostVars, created, raised, cancelled, snapshot, broken>>

\* Seeded bug: the client waits for the file without a limit.
StopNeedsPid ==
    /\ pidFile = disk
    /\ Goto("stop", "wait") /\ child' = "failed"
    /\ UNCHANGED <<lease, disk, pidFile, directory, clones, created, raised, cancelled, snapshot, broken>>

\* Seeded bug: a process that was killed is told from one that failed.
StopKilled ==
    /\ Goto("stop", "wait") /\ child' = "killed"
    /\ UNCHANGED <<lease, disk, pidFile, directory, clones, created, raised, cancelled, snapshot, broken>>

\* The stop command kills the process the file names.  It names that of this disk, or
\* that of the last disk, which is gone, or there is no file yet; in each case the
\* client waits for the clone.
Stop ==
    /\ pc = "stop"
    /\ \/ /\ child' = IF pidFile = disk /\ child = "running" THEN "failed" ELSE child
          /\ pc' = "wait"
          /\ raised' = IF pidFile = 0 THEN "error" ELSE raised
          /\ UNCHANGED broken
       \/ Net("list") /\ UNCHANGED child
    /\ UNCHANGED <<lease, disk, pidFile, directory, clones, created, cancelled, snapshot>>

AwaitStopped ==
    /\ child # "running"
    /\ Goto("wait", "list")
    /\ UNCHANGED <<lease, disk, hostVars, created, raised, cancelled, snapshot, broken>>

\* The clone has ended: its files are listed, and the next disk is cloned.
Collect ==
    /\ pc = "poll" /\ child \in {"done", "failed"}
    /\ \/ /\ child = "done"
          /\ created' = created \union {disk}
          /\ IF disk = Disks THEN pc' = "download" /\ UNCHANGED <<disk, child>>
                             ELSE pc' = "start" /\ disk' = disk + 1 /\ child' = "none"
          /\ UNCHANGED <<raised, broken>>
       \/ child = "failed" /\ Throw("error", "list") /\ UNCHANGED <<created, disk, child, broken>>
       \/ Net("list") /\ UNCHANGED <<created, disk, child>>
    /\ UNCHANGED <<lease, pidFile, directory, clones, cancelled, snapshot>>

\* Seeded bug: partial clones are not looked for.
ListNothing ==
    /\ Goto("list", "unlink")
    /\ UNCHANGED <<lease, disk, hostVars, created, raised, cancelled, snapshot, broken>>

\* The finally block lists the directory for what was begun; if that raises, the
\* files and the directory stay.
ListDirectory ==
    /\ pc = "list"
    /\ \/ /\ created' = created \union {d \in Disk : clones[d] # "none"}
          /\ pc' = "unlink" /\ UNCHANGED <<raised, broken>>
       \/ directory /\ Net("remove") /\ UNCHANGED created
    /\ UNCHANGED <<lease, disk, hostVars, cancelled, snapshot>>

\* Files that cannot be removed, and a directory that is not empty, stay.
RemoveFiles ==
    /\ Goto("unlink", "rmdir")
    /\ \/ /\ clones' = [d \in Disk |-> IF d \in created THEN "none" ELSE clones[d]]
          /\ pidFile' = 0 /\ UNCHANGED broken
       \/ "net" \in Faults /\ broken' = TRUE /\ UNCHANGED <<clones, pidFile>>
    /\ UNCHANGED <<lease, disk, child, directory, created, raised, cancelled, snapshot>>

RemoveDirectory ==
    /\ Goto("rmdir", "remove")
    /\ \/ /\ directory' = (directory /\ (pidFile # 0 \/ \E d \in Disk : clones[d] # "none"))
          /\ UNCHANGED broken
       \/ "net" \in Faults /\ broken' = TRUE /\ UNCHANGED directory
    /\ UNCHANGED <<lease, disk, child, pidFile, clones, created, raised, cancelled, snapshot>>

\* The finally block of the backup.
RemoveSnapshot ==
    /\ pc = "remove"
    /\ pc' = "end"
    /\ \/ snapshot' = FALSE /\ UNCHANGED <<raised, broken>>
       \/ "net" \in Faults /\ raised' = "error" /\ broken' = TRUE /\ UNCHANGED snapshot
    /\ UNCHANGED <<lease, disk, hostVars, created, cancelled>>

Cancel ==
    /\ ~cancelled /\ pc # "end"
    /\ cancelled' = TRUE
    /\ UNCHANGED <<pc, lease, disk, hostVars, created, raised, snapshot, broken>>

------------------------------------------------------------------------------

ClientStep ==
    \/ AskLease \/ AwaitLease \/ Download \/ CompleteLease \/ AbortLease
    \/ Connect \/ MakeDirectory \/ StartClone \/ PollRaises \/ Stop \/ AwaitStopped
    \/ Collect \/ ListDirectory \/ RemoveFiles \/ RemoveDirectory \/ RemoveSnapshot

HostStep == HostLease \/ HostPid \/ HostWrite \/ HostExit

Next == ClientStep \/ HostStep \/ Cancel

Spec == Init /\ [][Next]_vars

\* The client goes on while a call can return, and the host ends what it has begun.
FairSpec == Spec /\ WF_vars(ClientStep) /\ WF_vars(HostLease) /\ WF_vars(HostWrite)
                 /\ WF_vars(HostExit)

------------------------------------------------------------------------------

\* The type of every variable.
TypeOK ==
    /\ pc \in {"lease", "initializing", "download", "complete", "abort", "connect", "mkdir",
               "start", "poll", "stop", "wait", "list", "unlink", "rmdir", "remove", "end"}
    /\ lease \in {"none", "initializing", "ready", "error", "completed", "aborted"}
    /\ disk \in Disk /\ child \in {"none", "running", "done", "failed"}
    /\ pidFile \in 0..Disks /\ directory \in BOOLEAN
    /\ clones \in [Disk -> {"none", "part", "full"}] /\ created \subseteq Disk
    /\ raised \in {"nothing", "cancelled", "error"}
    /\ {cancelled, snapshot, broken} \subseteq BOOLEAN

\* README.md:214 "Complete the lease or remove temporary SSH clones, then remove the
\* snapshot in finally blocks, including after failures": a backup that ends leaves
\* nothing on the host, however it ends, if the connection did not break.
LeavesNothing ==
    pc = "end" /\ ~broken =>
        /\ ~directory /\ (\A d \in Disk : clones[d] = "none")
        /\ child # "running" /\ ~snapshot
        /\ lease \in {"none", "completed", "aborted"}

\* esxi.py:545 "waited for safe cleanup": while vmkfstools reads the snapshot, neither
\* its files nor the snapshot are removed, if the connection did not break.
NothingPulledAway ==
    child = "running" /\ ~broken => pc \in {"poll", "stop", "wait"}

\* A cancellation ends the backup, also while a disk is cloned.
CancelEnds == cancelled ~> pc = "end"
=============================================================================
