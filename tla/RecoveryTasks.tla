--------------------------- MODULE RecoveryTasks ----------------------------
(***************************************************************************)
(* What is made from the recovery points of a VM: OVA files and restores   *)
(* to the host, each by a background task with a row in the catalog, and   *)
(* the deletion of the VM that these rows hold up.  A file is known by a   *)
(* number, its name may change or go while a task writes it.               *)
(***************************************************************************)
EXTENDS Naturals, FiniteSets

CONSTANTS
    Backup,     \* the recovery points of the VM
    Task,       \* threads of background tasks and of the scheduler
    MaxTasks,   \* bound: tasks that are requested
    MaxPieces,  \* the pieces of an OVA or of an upload
    Faults      \* "read": a piece cannot be read, written or sent; "save": a
                \* write of the catalog raises; "restart": the service is restarted

ASSUME RecoveryFaults == Faults \subseteq {"read", "save", "restart"}
ASSUME RecoveryBounds == MaxTasks \in Nat /\ MaxPieces \in Nat \ {0}

Kind == {"ova", "restore"}
Status == {"absent", "running", "success", "failed"}
\* A task creates at most one file.
File == 1..MaxTasks
NoFile == 0
Whole == 1..MaxPieces

VARIABLES
    points,     \* the points that have their manifest and chunks
    rows,       \* ova_exports and restores: kind -> point -> status
    path,       \* the points whose row in ova_exports has a path
    partial,    \* exports/<point>.ova.partial
    export,     \* exports/<point>.ova
    content,    \* file -> the pieces it has
    files,      \* the files created so far
    requested,  \* the tasks requested so far
    task,       \* what each thread is doing
    overlapped, \* history: kind -> the points two tasks of that kind were at
    cutOff      \* history: kind -> the points whose task could not settle its row

fileVars == <<partial, export, content, files>>
history == <<overlapped, cutOff>>
vars == <<points, rows, path, fileVars, requested, task, history>>

Idle == [pc |-> "idle"]

\* Between start_ova_export or start_restore and the end of the task.
WorkPc == {"queued", "open", "write", "replace", "send", "finish", "raised", "fail"}

Working(kind, b) == {t \in Task : task[t].pc \in WorkPc /\ task[t].kind = kind
                                                        /\ task[t].point = b}

Goto(t, pc) == task' = [task EXCEPT ![t].pc = pc]

\* An UPDATE, and nothing if the row is gone.
UpdateRow(t, s) ==
    LET kind == task[t].kind
        b == task[t].point
    IN  rows' = IF rows[kind][b] = "absent" THEN rows
                                            ELSE [rows EXCEPT ![kind][b] = s]

Init ==
    /\ points = Backup
    /\ rows = [kind \in Kind |-> [b \in Backup |-> "absent"]]
    /\ path = {}
    /\ partial = [b \in Backup |-> NoFile] /\ export = [b \in Backup |-> NoFile]
    /\ content = [f \in File |-> {}] /\ files = 0
    /\ task = [t \in Task |-> Idle] /\ requested = 0
    /\ overlapped = [kind \in Kind |-> {}] /\ cutOff = [kind \in Kind |-> {}]

------------------------------------------------------------------------------
(* Requests *)

\* supports_ova.  A policy that builds an OVA goes straight to the task.
Request(t) ==
    /\ task[t] = Idle
    /\ requested < MaxTasks /\ requested' = requested + 1
    /\ \E kind \in Kind, b \in points, policy \in BOOLEAN :
          /\ policy => kind = "ova"
          /\ task' = [task EXCEPT ![t] =
                         [pc |-> IF policy THEN "begin" ELSE "accept",
                          kind |-> kind, point |-> b, file |-> NoFile, done |-> 0]]
    /\ UNCHANGED <<points, rows, path, fileVars, history>>

\* start_ova_export and start_restore: the row is there and running, without a path.
StartRow(t) ==
    LET kind == task[t].kind
        b == task[t].point
    IN  /\ rows' = [rows EXCEPT ![kind][b] = "running"]
        /\ path' = IF kind = "ova" THEN path \ {b} ELSE path
        /\ overlapped' = IF Working(kind, b) \ {t} = {} THEN overlapped
                         ELSE [overlapped EXCEPT ![kind] = @ \union {b}]
        /\ cutOff' = [cutOff EXCEPT ![kind] = @ \ {b}]

\* The row cannot be started: that raises before the try, so that a row the route has
\* started stays as it is.
NotStarted(t) ==
    /\ "save" \in Faults
    /\ task' = [task EXCEPT ![t] = Idle]
    /\ cutOff' = IF task[t].pc = "queued"
                   THEN [cutOff EXCEPT ![task[t].kind] = @ \union {task[t].point}] ELSE cutOff
    /\ UNCHANGED <<rows, path, overlapped>>

\* The route starts the row and adds the background task.
Accept(t) ==
    /\ task[t].pc = "accept"
    /\ \/ StartRow(t) /\ Goto(t, "queued")
       \/ NotStarted(t)
    /\ UNCHANGED <<points, fileVars, requested>>

\* export_ova_for_web and restore_to_esxi_for_web start it again, and read the
\* manifest.
Begin(t) ==
    /\ task[t].pc \in {"begin", "queued"}
    /\ \/ /\ StartRow(t)
          /\ Goto(t, IF task[t].point \notin points THEN "raised"
                     ELSE IF task[t].kind = "ova" THEN "open" ELSE "send")
       \/ NotStarted(t)
    /\ UNCHANGED <<points, fileVars, requested>>

------------------------------------------------------------------------------
(* export_ova *)

\* An open for writing truncates a file that is there, also one that another task
\* writes or a task of an earlier process has left.
Open(t) ==
    LET b == task[t].point
    IN  /\ task[t].pc = "open"
        /\ IF partial[b] # NoFile
             THEN /\ content' = [content EXCEPT ![partial[b]] = {}]
                  /\ task' = [task EXCEPT ![t].pc = "write", ![t].file = partial[b]]
                  /\ UNCHANGED <<partial, files>>
             ELSE /\ files' = files + 1
                  /\ partial' = [partial EXCEPT ![b] = files']
                  /\ task' = [task EXCEPT ![t].pc = "write", ![t].file = files']
                  /\ UNCHANGED content
        /\ UNCHANGED <<points, rows, path, export, requested, history>>

\* A piece is read from the chunks, which must still be there.
Piece(t, next) ==
    IF task[t].point \in points
      THEN task' = [task EXCEPT ![t].done = @ + 1,
                                ![t].pc = IF task[t].done + 1 = MaxPieces THEN next ELSE @]
      ELSE Goto(t, "raised")

\* Seeded bug: a chunk that cannot be read ends the archive.
WriteShort(t) ==
    /\ task[t].pc = "write"
    /\ \/ /\ Piece(t, "replace")
          /\ content' = [content EXCEPT ![task[t].file] = @ \union {task[t].done + 1}]
       \/ /\ "read" \in Faults
          /\ Goto(t, "replace") /\ UNCHANGED content
    /\ UNCHANGED <<points, rows, path, partial, export, files, requested, history>>

Write(t) ==
    /\ task[t].pc = "write"
    /\ \/ /\ Piece(t, "replace")
          /\ content' = IF task[t].point \in points
                          THEN [content EXCEPT ![task[t].file] = @ \union {task[t].done + 1}]
                          ELSE content
       \/ /\ "read" \in Faults
          /\ Goto(t, "raised") /\ UNCHANGED content
    /\ UNCHANGED <<points, rows, path, partial, export, files, requested, history>>

\* The partial file gets its name; it raises if another task renamed or removed it.
Replace(t) ==
    LET b == task[t].point
    IN  /\ task[t].pc = "replace"
        /\ IF partial[b] # NoFile
             THEN /\ export' = [export EXCEPT ![b] = partial[b]]
                  /\ partial' = [partial EXCEPT ![b] = NoFile]
                  /\ Goto(t, "finish")
             ELSE Goto(t, "raised") /\ UNCHANGED <<export, partial>>
        /\ UNCHANGED <<points, rows, path, content, files, requested, history>>

------------------------------------------------------------------------------
(* import_ovf, and the end of a task *)

\* The pieces go to an import lease, which is aborted when one raises.
Send(t) ==
    /\ task[t].pc = "send"
    /\ \/ Piece(t, "finish")
       \/ "read" \in Faults /\ Goto(t, "raised")
    /\ UNCHANGED <<points, rows, path, fileVars, requested, history>>

\* finish_restore, or finish_ova_export, which looks at the size of the file.
Finish(t) ==
    LET b == task[t].point
    IN  /\ task[t].pc = "finish"
        /\ \/ /\ task[t].kind = "ova" => export[b] # NoFile
              /\ UpdateRow(t, "success")
              /\ path' = IF task[t].kind = "ova" /\ rows["ova"][b] # "absent"
                           THEN path \union {b} ELSE path
              /\ task' = [task EXCEPT ![t] = Idle]
           \/ /\ "save" \in Faults \/ (task[t].kind = "ova" /\ export[b] = NoFile)
              /\ Goto(t, "fail") /\ UNCHANGED <<rows, path>>
        /\ UNCHANGED <<points, fileVars, requested, history>>

\* An OVA that fails has its partial file removed, by name.
Raise(t) ==
    LET b == task[t].point
    IN  /\ task[t].pc = "raised"
        /\ Goto(t, "fail")
        /\ partial' = IF task[t].kind = "ova" /\ task[t].file # NoFile
                        THEN [partial EXCEPT ![b] = NoFile] ELSE partial
        /\ UNCHANGED <<points, rows, path, export, content, files, requested, history>>

\* Seeded bug: the failure of a restore is not recorded.
FailQuietly(t) ==
    /\ task[t].pc = "fail"
    /\ task' = [task EXCEPT ![t] = Idle]
    /\ IF task[t].kind = "ova" THEN UpdateRow(t, "failed") ELSE UNCHANGED rows
    /\ UNCHANGED <<points, path, fileVars, requested, history>>

\* Seeded bug: a task that fails is recorded as cancelled.
FailCancelled(t) ==
    /\ task[t].pc = "fail"
    /\ task' = [task EXCEPT ![t] = Idle]
    /\ UpdateRow(t, "cancelled")
    /\ UNCHANGED <<points, path, fileVars, requested, history>>

\* fail_ova_export or fail_restore.
Fail(t) ==
    /\ task[t].pc = "fail"
    /\ task' = [task EXCEPT ![t] = Idle]
    /\ \/ UpdateRow(t, "failed") /\ UNCHANGED cutOff
       \/ /\ "save" \in Faults
          /\ cutOff' = [cutOff EXCEPT ![task[t].kind] = @ \union {task[t].point}]
          /\ UNCHANGED rows
    /\ UNCHANGED <<points, path, fileVars, requested, overlapped>>

------------------------------------------------------------------------------
(* delete_vm, and a restart *)

\* Every row, manifest and chunk of the VM, and the exports the rows name.
DeleteAll ==
    /\ points # {}
    /\ points' = {} /\ path' = {}
    /\ rows' = [kind \in Kind |-> [b \in Backup |-> "absent"]]
    /\ export' = [b \in Backup |-> IF b \in path THEN NoFile ELSE export[b]]
    /\ UNCHANGED <<partial, content, files, requested, task, history>>

\* Seeded bug: restores do not hold up the deletion.
DeleteDespiteRestore == (\A b \in Backup : rows["ova"][b] # "running") /\ DeleteAll

DeleteVm ==
    /\ \A kind \in Kind, b \in Backup : rows[kind][b] # "running"
    /\ DeleteAll

\* Tasks end; no start looks at the rows of tasks.
Restart ==
    /\ "restart" \in Faults
    /\ task' = [t \in Task |-> Idle]
    /\ cutOff' = [kind \in Kind |-> cutOff[kind] \union
                     {b \in Backup : rows[kind][b] = "running"}]
    /\ UNCHANGED <<points, rows, path, fileVars, requested, overlapped>>

TaskStep(t) ==
    \/ Accept(t) \/ Begin(t) \/ Open(t) \/ Write(t) \/ Replace(t) \/ Send(t)
    \/ Finish(t) \/ Raise(t) \/ Fail(t)

Next ==
    \/ \E t \in Task : Request(t) \/ TaskStep(t)
    \/ DeleteVm
    \/ Restart

Spec == Init /\ [][Next]_vars

------------------------------------------------------------------------------

\* The type of every variable.
TypeOK ==
    /\ points \subseteq Backup /\ path \subseteq Backup
    /\ rows \in [Kind -> [Backup -> Status]]
    /\ partial \in [Backup -> {NoFile} \union File]
    /\ export \in [Backup -> {NoFile} \union File]
    /\ content \in [File -> SUBSET Whole] /\ files \in {0} \union File
    /\ requested \in 0..MaxTasks
    /\ \A t \in Task : task[t].pc \in {"idle", "accept", "begin"} \union WorkPc
    /\ overlapped \in [Kind -> SUBSET Backup] /\ cutOff \in [Kind -> SUBSET Backup]

\* A row that is running, which holds up the deletion of its VM (repository.py:738),
\* has a task, unless that task was cut off by a restart or by a catalog that could
\* not be written, at its end or when it starts its row again (service.py:497, :561).
RunningHasTask ==
    \A kind \in Kind, b \in Backup :
        rows[kind][b] = "running" /\ b \notin cutOff[kind] => Working(kind, b) # {}

\* repository.py:740 "Cannot remove a VM while an OVA export or restore is running":
\* no deletion happens under a task, unless a second task for the same point settled
\* the row they share.
DeleteSparesTasks ==
    [][DeleteVm => \A kind \in Kind : \A b \in Backup \ overlapped[kind] :
           Working(kind, b) = {}]_vars

\* An OVA that can be downloaded (web.py:907) has all its pieces, unless two tasks
\* built it at once.
ServedIsWhole ==
    \A b \in Backup \ overlapped["ova"] :
        rows["ova"][b] = "success" /\ export[b] # NoFile => content[export[b]] = Whole
=============================================================================
