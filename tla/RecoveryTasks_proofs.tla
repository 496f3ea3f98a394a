------------------------ MODULE RecoveryTasks_proofs --------------------------
(***************************************************************************)
(* Rows, tasks and files of RecoveryTasks, for any number of points,       *)
(* threads, tasks and pieces and under every fault: a row that is running  *)
(* has a task, a deletion spares the tasks, and what can be downloaded is  *)
(* whole.                                                                  *)
(***************************************************************************)
EXTENDS RecoveryTasks, FiniteSetTheorems, TLAPS

\* t works on the row of kind for b.
WorksOn(t, kind, b) == task[t].pc \in WorkPc /\ task[t].kind = kind /\ task[t].point = b

\* What a thread knows of its task, and of a task that has a row.
Record == [pc : {"accept", "begin"} \union WorkPc, kind : Kind, point : Backup,
           file : Nat, done : Nat]
BusyRecord == {r \in Record : r.pc \in WorkPc}

Shape ==
    /\ task \in [Task -> {Idle} \union Record]
    /\ partial \in [Backup -> Nat] /\ files \in Nat
    /\ points \subseteq Backup
    /\ rows \in [Kind -> [Backup -> Status]]
    /\ overlapped \in [Kind -> SUBSET Backup] /\ cutOff \in [Kind -> SUBSET Backup]

\* The row of a task that shared its point with no other is running, and a row that is
\* running has a task or was cut off.
RowsFollow ==
    /\ \A t \in Task, u \in Task, kind \in Kind, b \in Backup :
          t # u /\ WorksOn(t, kind, b) /\ WorksOn(u, kind, b) => b \in overlapped[kind]
    /\ \A t \in Task, kind \in Kind, b \in Backup :
          WorksOn(t, kind, b) => b \in overlapped[kind] \/ rows[kind][b] = "running"
    /\ \A kind \in Kind, b \in Backup :
          rows[kind][b] = "running" =>
              b \in cutOff[kind] \/ \E t \in Task : WorksOn(t, kind, b)

TaskInv == Shape /\ RowsFollow

------------------------------------------------------------------------------

(* What a step is to the threads and the rows. *)

\* Nothing with a row changes: a request, perhaps one that ends before it has a row, or a
\* task that goes on.
Quiet(t) ==
    /\ \E r \in {Idle} \union Record :
          /\ task' = [task EXCEPT ![t] = r]
          /\ \/ task[t].pc \notin WorkPc /\ r.pc \notin WorkPc
             \/ /\ task[t] \in BusyRecord /\ r \in BusyRecord
                /\ r.kind = task[t].kind /\ r.point = task[t].point
    /\ UNCHANGED <<points, rows, overlapped, cutOff>>

\* A thread starts its row, perhaps for the second time.
Starts(t) ==
    /\ task[t] \in Record
    /\ StartRow(t)
    /\ \E r \in BusyRecord :
          /\ task' = [task EXCEPT ![t] = r]
          /\ r.kind = task[t].kind /\ r.point = task[t].point
    /\ UNCHANGED points

\* A thread settles its row, or leaves it running, and is done.
Ends(t) ==
    /\ task[t] \in BusyRecord
    /\ task' = [task EXCEPT ![t] = Idle]
    /\ UNCHANGED <<points, overlapped>>
    /\ \/ \E s \in {"success", "failed"} : UpdateRow(t, s) /\ UNCHANGED cutOff
       \/ /\ cutOff' = [cutOff EXCEPT ![task[t].kind] = @ \union {task[t].point}]
          /\ UNCHANGED rows

LEMMA ThreadShape ==
    ASSUME Shape, NEW t \in Task, task[t].pc # "idle"
    PROVE  task[t] \in Record
BY DEF Shape, Idle

\* The other threads do not notice a step of t.
LEMMA OneThread ==
    ASSUME Shape, NEW t \in Task, NEW r, task' = [task EXCEPT ![t] = r]
    PROVE  /\ \A u \in Task \ {t}, kind \in Kind, b \in Backup :
                  WorksOn(u, kind, b)' <=> WorksOn(u, kind, b)
           /\ \A kind \in Kind, b \in Backup :
                  WorksOn(t, kind, b)' <=> r.pc \in WorkPc /\ r.kind = kind /\ r.point = b
BY DEF Shape, WorksOn

\* Every action of a thread is one of the three, and keeps the numbers numbers.
LEMMA StepKinds ==
    ASSUME Shape, NEW t \in Task, Request(t) \/ TaskStep(t)
    PROVE  /\ Quiet(t) \/ Starts(t) \/ Ends(t)
           /\ partial' \in [Backup -> Nat] /\ files' \in Nat
<1> USE DEF Goto, history, fileVars
<1>1. CASE Request(t)
  <2>1. \E r \in Record : task' = [task EXCEPT ![t] = r] /\ r.pc \notin WorkPc
    <3>1. PICK kind \in Kind, b \in points, policy \in BOOLEAN :
               task' = [task EXCEPT ![t] =
                           [pc |-> IF policy THEN "begin" ELSE "accept",
                            kind |-> kind, point |-> b, file |-> NoFile, done |-> 0]]
      BY <1>1 DEF Request
    <3>2. [pc |-> IF policy THEN "begin" ELSE "accept",
           kind |-> kind, point |-> b, file |-> NoFile, done |-> 0] \in Record
      BY DEF Record, Shape, NoFile
    <3> QED
      BY <3>1, <3>2 DEF WorkPc
  <2>2. task[t].pc \notin WorkPc /\ UNCHANGED <<points, rows, overlapped, cutOff, partial, files>>
    BY <1>1 DEF Request, Idle, WorkPc
  <2> QED
    BY <2>1, <2>2 DEF Quiet, Shape
<1>0. ASSUME NotStarted(t), task[t].pc \in {"accept", "begin", "queued"}, UNCHANGED points
      PROVE  Quiet(t) \/ Ends(t)
  <2>1. CASE task[t].pc = "queued"
    <3>1. task[t] \in BusyRecord
      BY <2>1, ThreadShape DEF BusyRecord, WorkPc
    <3> QED
      BY <1>0, <2>1, <3>1 DEF NotStarted, Ends
  <2>2. CASE task[t].pc # "queued"
    <3>1. task[t].pc \notin WorkPc /\ Idle.pc \notin WorkPc
      BY <1>0, <2>2 DEF Idle, WorkPc
    <3> QED
      BY <1>0, <2>2, <3>1 DEF NotStarted, Quiet
  <2> QED
    BY <2>1, <2>2
<1>2. CASE Accept(t)
  <2>1. task[t] \in Record
    BY <1>2, ThreadShape DEF Accept
  <2>2. [task[t] EXCEPT !.pc = "queued"] \in BusyRecord
    BY <2>1 DEF Record, BusyRecord, WorkPc
  <2>3. CASE StartRow(t) /\ Goto(t, "queued")
    BY <1>2, <2>1, <2>2, <2>3 DEF Accept, Starts, Shape, Record
  <2> QED
    BY <1>0, <1>2, <2>3 DEF Accept, Shape
<1>3. CASE Begin(t)
  <2>1. task[t] \in Record
    BY <1>3, ThreadShape DEF Begin
  <2>2. \A pc \in WorkPc : [task[t] EXCEPT !.pc = pc] \in BusyRecord
    BY <2>1 DEF Record, BusyRecord
  <2>3. ASSUME StartRow(t), NEW pc \in WorkPc, Goto(t, pc)
        PROVE  Starts(t)
    BY <1>3, <2>1, <2>2, <2>3 DEF Begin, Starts, Shape, Record
  <2>4. (StartRow(t) /\ \E pc \in WorkPc : Goto(t, pc)) \/ NotStarted(t)
    BY <1>3 DEF Begin, WorkPc
  <2> QED
    BY <1>0, <1>3, <2>3, <2>4 DEF Begin, Shape
<1>4. ASSUME task[t].pc \in WorkPc, NEW pc \in WorkPc,
             \/ task' = [task EXCEPT ![t].pc = pc]
             \/ task' = [task EXCEPT ![t].done = @ + 1, ![t].pc = pc]
             \/ \E f \in Nat : task' = [task EXCEPT ![t].pc = pc, ![t].file = f],
             UNCHANGED <<points, rows, overlapped, cutOff>>
      PROVE  Quiet(t)
  <2>1. task[t] \in BusyRecord
    BY <1>4, ThreadShape DEF BusyRecord, WorkPc
  <2>2. CASE task' = [task EXCEPT ![t].pc = pc]
    <3>1. [task[t] EXCEPT !.pc = pc] \in BusyRecord
      BY <2>1 DEF Record, BusyRecord
    <3> QED
      BY <1>4, <2>1, <2>2, <3>1 DEF Quiet, Shape, Record, BusyRecord
  <2>3. CASE task' = [task EXCEPT ![t].done = @ + 1, ![t].pc = pc]
    <3>1. [task[t] EXCEPT !.done = task[t].done + 1, !.pc = pc] \in BusyRecord
      <4>1. task[t].done + 1 \in Nat
        BY <2>1 DEF Record, BusyRecord
      <4> QED
        BY <2>1, <4>1 DEF Record, BusyRecord
    <3>2. task' = [task EXCEPT ![t] = [task[t] EXCEPT !.done = task[t].done + 1, !.pc = pc]]
      BY <2>1, <2>3 DEF Shape, Record, BusyRecord
    <3> QED
      BY <1>4, <2>1, <3>1, <3>2 DEF Quiet, Record, BusyRecord
  <2>4. CASE \E f \in Nat : task' = [task EXCEPT ![t].pc = pc, ![t].file = f]
    <3>1. PICK f \in Nat : task' = [task EXCEPT ![t].pc = pc, ![t].file = f]
      BY <2>4
    <3>2. [task[t] EXCEPT !.pc = pc, !.file = f] \in BusyRecord
      BY <2>1 DEF Record, BusyRecord
    <3>3. task' = [task EXCEPT ![t] = [task[t] EXCEPT !.pc = pc, !.file = f]]
      BY <2>1, <3>1 DEF Shape, Record, BusyRecord
    <3> QED
      BY <1>4, <2>1, <3>2, <3>3 DEF Quiet, Record, BusyRecord
  <2> QED
    BY <1>4, <2>2, <2>3, <2>4
<1>5. CASE Open(t)
  <2>1. task[t] \in Record
    BY <1>5, ThreadShape DEF Open
  <2>2. partial' \in [Backup -> Nat] /\ files' \in Nat
    BY <1>5, <2>1 DEF Open, Shape, Record
  <2>3. \E f \in Nat : task' = [task EXCEPT ![t].pc = "write", ![t].file = f]
    BY <1>5, <2>1 DEF Open, Shape, Record
  <2> QED
    BY <1>5, <2>2, <2>3, <1>4 DEF Open, WorkPc
<1>6. CASE Write(t)
  BY <1>6, <1>4 DEF Write, Piece, WorkPc, Shape
<1>7. CASE Replace(t)
  BY <1>7, <1>4 DEF Replace, WorkPc, Shape, NoFile
<1>8. CASE Send(t)
  BY <1>8, <1>4 DEF Send, Piece, WorkPc, Shape
<1>9. CASE Finish(t)
  <2>1. task[t] \in BusyRecord
    BY <1>9, ThreadShape DEF Finish, BusyRecord, WorkPc
  <2> QED
    BY <1>9, <2>1, <1>4 DEF Finish, Ends, WorkPc, Shape
<1>10. CASE Raise(t)
  BY <1>10, <1>4 DEF Raise, WorkPc, Shape, NoFile
<1>11. CASE Fail(t)
  <2>1. task[t] \in BusyRecord
    BY <1>11, ThreadShape DEF Fail, BusyRecord, WorkPc
  <2> QED
    BY <1>11, <2>1 DEF Fail, Ends, Shape
<1> QED
  BY <1>1, <1>2, <1>3, <1>5, <1>6, <1>7, <1>8, <1>9, <1>10, <1>11 DEF TaskStep

------------------------------------------------------------------------------

LEMMA QuietKeeps ==
    ASSUME TaskInv, NEW t \in Task, Quiet(t), partial' \in [Backup -> Nat], files' \in Nat
    PROVE  TaskInv'
<1>1. PICK r \in {Idle} \union Record :
        /\ task' = [task EXCEPT ![t] = r]
        /\ \/ task[t].pc \notin WorkPc /\ r.pc \notin WorkPc
           \/ /\ task[t] \in BusyRecord /\ r \in BusyRecord
              /\ r.kind = task[t].kind /\ r.point = task[t].point
  BY DEF Quiet
<1>2. Shape'
  BY <1>1 DEF TaskInv, Shape, Quiet
<1>3. \A kind \in Kind, b \in Backup : WorksOn(t, kind, b)' <=> WorksOn(t, kind, b)
  <2>1. \A kind \in Kind, b \in Backup :
            WorksOn(t, kind, b)' <=> r.pc \in WorkPc /\ r.kind = kind /\ r.point = b
    BY <1>1, OneThread DEF TaskInv
  <2> QED
    BY <1>1, <2>1 DEF WorksOn, BusyRecord, Idle, WorkPc
<1>4. \A u \in Task, kind \in Kind, b \in Backup : WorksOn(u, kind, b)' <=> WorksOn(u, kind, b)
  <2>1. \A u \in Task \ {t}, kind \in Kind, b \in Backup :
            WorksOn(u, kind, b)' <=> WorksOn(u, kind, b)
    BY <1>1, OneThread DEF TaskInv
  <2> QED
    BY <2>1, <1>3
<1>5. RowsFollow'
  BY <1>4 DEF TaskInv, RowsFollow, Quiet
<1> QED
  BY <1>2, <1>5 DEF TaskInv

LEMMA StartKeeps ==
    ASSUME TaskInv, NEW t \in Task, Starts(t), partial' \in [Backup -> Nat], files' \in Nat
    PROVE  TaskInv'
<1> DEFINE k0 == task[t].kind
           b0 == task[t].point
<1>1. PICK r \in BusyRecord :
        task' = [task EXCEPT ![t] = r] /\ r.kind = k0 /\ r.point = b0
  BY DEF Starts
<1>2. task[t] \in Record /\ k0 \in Kind /\ b0 \in Backup
  BY DEF Starts, Record
<1>3. /\ rows' = [rows EXCEPT ![k0][b0] = "running"]
      /\ overlapped' = IF Working(k0, b0) \ {t} = {} THEN overlapped
                       ELSE [overlapped EXCEPT ![k0] = @ \union {b0}]
      /\ cutOff' = [cutOff EXCEPT ![k0] = @ \ {b0}]
  BY DEF Starts, StartRow
<1>4. Shape'
  BY <1>1, <1>2, <1>3 DEF TaskInv, Shape, Starts, BusyRecord, Status
<1>5. /\ \A u \in Task \ {t}, kind \in Kind, b \in Backup :
             WorksOn(u, kind, b)' <=> WorksOn(u, kind, b)
      /\ \A kind \in Kind, b \in Backup : WorksOn(t, kind, b)' <=> k0 = kind /\ b0 = b
  BY <1>1, OneThread DEF TaskInv, BusyRecord
<1>6. \A u \in Task \ {t} : WorksOn(u, k0, b0) => b0 \in overlapped'[k0]
  BY <1>2, <1>3 DEF Working, WorksOn, TaskInv, Shape
<1>7. \A kind \in Kind : overlapped[kind] \subseteq overlapped'[kind]
  BY <1>2, <1>3 DEF TaskInv, Shape
<1>8. \A kind \in Kind, b \in Backup :
          /\ kind = k0 /\ b = b0 => rows'[kind][b] = "running"
          /\ ~(kind = k0 /\ b = b0) => /\ rows'[kind][b] = rows[kind][b]
                                       /\ b \in cutOff[kind] => b \in cutOff'[kind]
  BY <1>2, <1>3 DEF TaskInv, Shape
<1>9. RowsFollow'
  <2>1. ASSUME NEW u \in Task, NEW v \in Task, NEW kind \in Kind, NEW b \in Backup,
               u # v, WorksOn(u, kind, b)', WorksOn(v, kind, b)'
        PROVE  b \in overlapped'[kind]
    BY <2>1, <1>5, <1>6, <1>7 DEF TaskInv, RowsFollow
  <2>2. ASSUME NEW u \in Task, NEW kind \in Kind, NEW b \in Backup, WorksOn(u, kind, b)'
        PROVE  b \in overlapped'[kind] \/ rows'[kind][b] = "running"
    BY <2>2, <1>5, <1>7, <1>8 DEF TaskInv, RowsFollow
  <2>3. ASSUME NEW kind \in Kind, NEW b \in Backup, rows'[kind][b] = "running"
        PROVE  b \in cutOff'[kind] \/ \E u \in Task : WorksOn(u, kind, b)'
    <3>1. CASE kind = k0 /\ b = b0
      BY <3>1, <1>5
    <3>2. CASE ~(kind = k0 /\ b = b0)
      <4>1. b \in cutOff[kind] \/ \E u \in Task : WorksOn(u, kind, b)
        BY <2>3, <3>2, <1>8 DEF TaskInv, RowsFollow
      <4>2. ~WorksOn(t, kind, b)
        BY <3>2 DEF WorksOn
      <4> QED
        BY <4>1, <4>2, <3>2, <1>5, <1>8
    <3> QED
      BY <3>1, <3>2
  <2> QED
    BY <2>1, <2>2, <2>3 DEF RowsFollow
<1> QED
  BY <1>4, <1>9 DEF TaskInv

LEMMA EndKeeps ==
    ASSUME TaskInv, NEW t \in Task, Ends(t), partial' \in [Backup -> Nat], files' \in Nat
    PROVE  TaskInv'
<1> DEFINE k0 == task[t].kind
           b0 == task[t].point
<1>1. k0 \in Kind /\ b0 \in Backup /\ WorksOn(t, k0, b0)
  BY DEF Ends, BusyRecord, Record, WorksOn
<1>2. /\ rows' \in [Kind -> [Backup -> Status]]
      /\ cutOff' \in [Kind -> SUBSET Backup]
  <2>1. \A s \in {"success", "failed"} :
            [rows EXCEPT ![k0][b0] = s] \in [Kind -> [Backup -> Status]]
    BY <1>1 DEF TaskInv, Shape, Status
  <2>2. rows' \in [Kind -> [Backup -> Status]]
    BY <2>1 DEF Ends, UpdateRow, TaskInv, Shape
  <2>3. cutOff' \in [Kind -> SUBSET Backup]
    BY <1>1 DEF Ends, TaskInv, Shape
  <2> QED
    BY <2>2, <2>3
<1>3. Shape'
  BY <1>2 DEF TaskInv, Shape, Ends
<1>4. /\ \A u \in Task \ {t}, kind \in Kind, b \in Backup :
             WorksOn(u, kind, b)' <=> WorksOn(u, kind, b)
      /\ \A kind \in Kind, b \in Backup : ~WorksOn(t, kind, b)'
  <2>1. task' = [task EXCEPT ![t] = Idle]
    BY DEF Ends
  <2>2. Idle.pc \notin WorkPc
    BY DEF Idle, WorkPc
  <2> HIDE DEF k0, b0
  <2>3. Shape
    BY DEF TaskInv
  <2> QED
    BY <2>1, <2>2, <2>3, OneThread
<1>5. \A kind \in Kind, b \in Backup :
          ~(kind = k0 /\ b = b0) => /\ rows'[kind][b] = rows[kind][b]
                                    /\ b \in cutOff[kind] => b \in cutOff'[kind]
  BY <1>1 DEF Ends, UpdateRow, TaskInv, Shape
<1>6. rows'[k0][b0] # "running" \/ b0 \in cutOff'[k0]
  BY <1>1 DEF Ends, UpdateRow, TaskInv, Shape, Status
<1>7. \A u \in Task \ {t} : WorksOn(u, k0, b0) => b0 \in overlapped[k0]
  BY <1>1 DEF TaskInv, RowsFollow
<1>8. RowsFollow'
  <2>1. ASSUME NEW u \in Task, NEW v \in Task, NEW kind \in Kind, NEW b \in Backup,
               u # v, WorksOn(u, kind, b)', WorksOn(v, kind, b)'
        PROVE  b \in overlapped'[kind]
    BY <2>1, <1>4 DEF TaskInv, RowsFollow, Ends
  <2>2. ASSUME NEW u \in Task, NEW kind \in Kind, NEW b \in Backup, WorksOn(u, kind, b)'
        PROVE  b \in overlapped'[kind] \/ rows'[kind][b] = "running"
    BY <2>2, <1>4, <1>5, <1>7 DEF TaskInv, RowsFollow, Ends
  <2>3. ASSUME NEW kind \in Kind, NEW b \in Backup, rows'[kind][b] = "running"
        PROVE  b \in cutOff'[kind] \/ \E u \in Task : WorksOn(u, kind, b)'
    <3>1. CASE kind = k0 /\ b = b0
      BY <2>3, <3>1, <1>6
    <3>2. CASE ~(kind = k0 /\ b = b0)
      <4>1. b \in cutOff[kind] \/ \E u \in Task : WorksOn(u, kind, b)
        BY <2>3, <3>2, <1>5 DEF TaskInv, RowsFollow
      <4>2. ~WorksOn(t, kind, b)
        BY <3>2 DEF WorksOn
      <4> QED
        BY <4>1, <4>2, <3>2, <1>4, <1>5
    <3> QED
      BY <3>1, <3>2
  <2> QED
    BY <2>1, <2>2, <2>3 DEF RowsFollow
<1> QED
  BY <1>3, <1>8 DEF TaskInv

LEMMA TaskInit == Init => TaskInv
<1> SUFFICES ASSUME Init
             PROVE  TaskInv
  OBVIOUS
<1>1. Shape
  BY DEF Init, Shape, Status, NoFile
<1>2. RowsFollow
  BY DEF Init, RowsFollow, WorksOn, Idle, WorkPc
<1> QED
  BY <1>1, <1>2 DEF TaskInv

LEMMA TaskNext == TaskInv /\ [Next]_vars => TaskInv'
<1> SUFFICES ASSUME TaskInv, [Next]_vars
             PROVE  TaskInv'
  OBVIOUS
<1>1. CASE \E t \in Task : Request(t) \/ TaskStep(t)
  BY <1>1, StepKinds, QuietKeeps, StartKeeps, EndKeeps DEF TaskInv
<1>2. CASE DeleteVm
  <2>1. Shape'
    BY <1>2 DEF DeleteVm, DeleteAll, TaskInv, Shape, Status, history
  <2>2. \A kind \in Kind, b \in Backup : rows[kind][b] # "running" /\ rows'[kind][b] # "running"
    BY <1>2 DEF DeleteVm, DeleteAll
  <2>3. \A t \in Task, kind \in Kind, b \in Backup : WorksOn(t, kind, b)' <=> WorksOn(t, kind, b)
    BY <1>2 DEF DeleteVm, DeleteAll, WorksOn
  <2>4. UNCHANGED overlapped
    BY <1>2 DEF DeleteVm, DeleteAll, history
  <2> QED
    BY <2>1, <2>2, <2>3, <2>4 DEF TaskInv, RowsFollow
<1>3. CASE Restart
  <2>1. Shape'
    BY <1>3 DEF Restart, TaskInv, Shape, fileVars
  <2>2. \A t \in Task, kind \in Kind, b \in Backup : ~WorksOn(t, kind, b)'
    BY <1>3 DEF Restart, WorksOn, Idle, WorkPc
  <2>3. \A kind \in Kind, b \in Backup : rows'[kind][b] = "running" => b \in cutOff'[kind]
    BY <1>3 DEF Restart, TaskInv, Shape
  <2> QED
    BY <2>1, <2>2, <2>3 DEF TaskInv, RowsFollow
<1>4. CASE UNCHANGED vars
  BY <1>4 DEF vars, fileVars, history, TaskInv, Shape, RowsFollow, WorksOn
<1> QED
  BY <1>1, <1>2, <1>3, <1>4 DEF Next

\* A row of ova_exports or restores that is running holds up the deletion of its VM
\* (repository.py:738) only while a task works on it, unless the task was cut off: by a restart, or by a
\* catalog that cannot be written when it ends or starts its row again (service.py:561).
THEOREM RunningIsHeld == Spec => []RunningHasTask
<1>1. TaskInv => RunningHasTask
  BY DEF TaskInv, RowsFollow, RunningHasTask, Working, WorksOn
<1> QED
  BY TaskInit, TaskNext, <1>1, PTL DEF Spec

\* delete_vm (repository.py:740) takes no points from under a task, unless a second
\* task for the same point settled the row they share.
THEOREM DeletionSpares == Spec => DeleteSparesTasks
<1>1. TaskInv /\ [Next]_vars =>
          [DeleteVm => \A kind \in Kind : \A b \in Backup \ overlapped[kind] :
               Working(kind, b) = {}]_vars
  BY DEF TaskInv, RowsFollow, DeleteVm, Working, WorksOn
<1> QED
  BY TaskInit, TaskNext, <1>1, PTL DEF Spec, DeleteSparesTasks
------------------------------------------------------------------------------

(* Files. *)

\* The states of a task that has no file yet and may still create one.
Fresh == {"accept", "begin", "queued", "open"}

\* What a thread knows of its file and of the pieces it is through with.
ThreadFile(t) ==
    task[t].pc # "idle" =>
        /\ task[t].pc \in {"accept", "begin"} \union WorkPc
        /\ task[t].kind \in Kind /\ task[t].point \in Backup
        /\ task[t].file \in 0..files /\ task[t].done \in Nat
        /\ task[t].pc \in Fresh => task[t].file = NoFile /\ task[t].done = 0
        /\ task[t].kind = "restore" => task[t].file = NoFile
        /\ task[t].pc = "send" => task[t].kind = "restore"
        /\ task[t].pc \in {"open", "write", "replace"} => task[t].kind = "ova"
        /\ task[t].pc \in {"write", "replace"} => task[t].file # NoFile
        /\ task[t].pc \in {"write", "send"} => task[t].done < MaxPieces

\* f is the partial file or the export of b, or a task of b writes or has written it.
OfPoint(b, f) ==
    \/ partial[b] = f \/ export[b] = f
    \/ \E t \in Task : WorksOn(t, "ova", b) /\ task[t].file = f

\* A file is known by one point only, and by one of its two names.
FilesApart ==
    /\ files \in Nat
    /\ partial \in [Backup -> 0..files] /\ export \in [Backup -> 0..files]
    /\ \A b, c \in Backup, f \in 1..files : OfPoint(b, f) /\ OfPoint(c, f) => b = c
    /\ \A b \in Backup : partial[b] # NoFile => partial[b] # export[b]

FilesTyped ==
    /\ content \in [File -> SUBSET Whole]
    /\ \A f \in File : f > files => content[f] = {}

\* A task that shares its point with no other has written what it thinks it has.
Builds ==
    \A t \in Task, b \in Backup \ overlapped["ova"] :
        WorksOn(t, "ova", b) =>
            /\ task[t].pc = "write" => /\ partial[b] = task[t].file
                                      /\ content[task[t].file] = 1..task[t].done
            /\ task[t].pc = "replace" => /\ partial[b] = task[t].file
                                        /\ content[task[t].file] = Whole
            /\ task[t].pc = "finish" => export[b] # NoFile /\ content[export[b]] = Whole

\* Each request creates at most one file: those that may still do so are counted apart.
CanOpen == {t \in Task : task[t].pc \in Fresh}

FilesCounted ==
    /\ IsFiniteSet(CanOpen)
    /\ files \in Nat /\ requested \in Nat
    /\ files + Cardinality(CanOpen) <= requested
    /\ requested <= MaxTasks

FilesRight ==
    /\ \A t \in Task : ThreadFile(t)
    /\ FilesApart /\ FilesTyped /\ Builds /\ ServedIsWhole

FileInv == TaskInv /\ FilesRight /\ FilesCounted /\ path \subseteq Backup

\* A thread goes on with its task, the others stay where they are.
Moves(t, pc, file, done) ==
    /\ task'[t].pc = pc /\ task'[t].file = file /\ task'[t].done = done
    /\ task'[t].kind = task[t].kind /\ task'[t].point = task[t].point
    /\ \A u \in Task \ {t} : task'[u] = task[u]

LEMMA GotoMoves ==
    ASSUME Shape, NEW t \in Task, task[t].pc # "idle", NEW pc, Goto(t, pc)
    PROVE  Moves(t, pc, task[t].file, task[t].done)
<1>1. task[t] \in Record
  BY ThreadShape
<1> QED
  BY <1>1 DEF Shape, Goto, Moves, Record

LEMMA PieceMoves ==
    ASSUME Shape, NEW t \in Task, task[t].pc # "idle", NEW next, Piece(t, next)
    PROVE  IF task[t].point \in points
             THEN Moves(t, IF task[t].done + 1 = MaxPieces THEN next ELSE task[t].pc,
                        task[t].file, task[t].done + 1)
             ELSE Moves(t, "raised", task[t].file, task[t].done)
<1>1. task[t] \in Record
  BY ThreadShape
<1>2. CASE task[t].point \in points
  <2>1. task' = [task EXCEPT ![t].done = @ + 1,
                             ![t].pc = IF task[t].done + 1 = MaxPieces THEN next ELSE @]
    BY <1>2 DEF Piece
  <2> QED
    BY <1>1, <1>2, <2>1 DEF Shape, Moves, Record
<1>3. CASE task[t].point \notin points
  BY <1>3, GotoMoves DEF Piece
<1> QED
  BY <1>2, <1>3

LEMMA OpenMoves ==
    ASSUME Shape, NEW t \in Task, task[t].pc # "idle", NEW f,
           task' = [task EXCEPT ![t].pc = "write", ![t].file = f]
    PROVE  Moves(t, "write", f, task[t].done)
<1>1. task[t] \in Record
  BY ThreadShape
<1> QED
  BY <1>1 DEF Shape, Moves, Record

------------------------------------------------------------------------------

(* What each action does to the files. *)

\* The steps that touch no file: a request, a row that is started or settled, a restore.
LEMMA FilesStay ==
    ASSUME FilesRight, NEW t \in Task, UNCHANGED fileVars,
           ThreadFile(t)', \A u \in Task \ {t} : task'[u] = task[u],
           task'[t].pc # "idle" /\ task'[t].file # NoFile =>
               /\ WorksOn(t, task[t].kind, task[t].point)
               /\ task'[t].file = task[t].file
               /\ task'[t].kind = task[t].kind /\ task'[t].point = task[t].point,
           task'[t].pc = "finish" => task'[t].kind = "restore",
           task'[t].pc \notin {"write", "replace"},
           overlapped["ova"] \subseteq overlapped'["ova"],
           \A b \in Backup \ overlapped'["ova"] :
               rows'["ova"][b] = "success" =>
                   \/ rows["ova"][b] = "success"
                   \/ export[b] # NoFile /\ content[export[b]] = Whole
    PROVE  FilesRight'
<1> USE DEF FilesRight, fileVars
<1>1. \A u \in Task : ThreadFile(u)'
  BY DEF ThreadFile
<1>2. \A b \in Backup, f \in 1..files : OfPoint(b, f)' => OfPoint(b, f)
  BY DEF OfPoint, WorksOn, WorkPc, NoFile
<1>3. FilesApart' /\ FilesTyped'
  BY <1>2 DEF FilesApart, FilesTyped
<1>4. Builds'
  BY DEF Builds, WorksOn, WorkPc
<1>5. ServedIsWhole'
  BY DEF ServedIsWhole
<1> QED
  BY <1>1, <1>3, <1>4, <1>5

LEMMA RequestFiles ==
    ASSUME FileInv, NEW t \in Task, Request(t)
    PROVE  FilesRight'
<1>1. PICK kind \in Kind, b \in points, policy \in BOOLEAN :
          task' = [task EXCEPT ![t] =
                      [pc |-> IF policy THEN "begin" ELSE "accept",
                       kind |-> kind, point |-> b, file |-> NoFile, done |-> 0]]
  BY DEF Request
<1>2. /\ task'[t] = [pc |-> IF policy THEN "begin" ELSE "accept",
                     kind |-> kind, point |-> b, file |-> NoFile, done |-> 0]
      /\ \A u \in Task \ {t} : task'[u] = task[u]
  BY <1>1 DEF FileInv, TaskInv, Shape
<1>3. b \in Backup /\ 0 \in 0..files'
  BY DEF FileInv, FilesRight, FilesApart, TaskInv, Shape, Request, fileVars
<1>4. ThreadFile(t)'
  BY <1>2, <1>3 DEF ThreadFile, NoFile, Fresh, Kind
<1> QED
  BY <1>2, <1>4, FilesStay DEF FileInv, Request, NoFile, history

\* Accept and Begin only ever add to the points that are shared.
LEMMA StartRowFiles ==
    ASSUME FileInv, NEW t \in Task, task[t].pc # "idle", StartRow(t) \/ NotStarted(t)
    PROVE  /\ overlapped["ova"] \subseteq overlapped'["ova"]
           /\ \A b \in Backup : rows'["ova"][b] = "success" => rows["ova"][b] = "success"
           /\ path' \subseteq Backup
<1>1. task[t] \in Record
  BY ThreadShape DEF FileInv, TaskInv
<1> QED
  BY <1>1 DEF StartRow, NotStarted, FileInv, TaskInv, Shape, Record, Kind

LEMMA StartFiles ==
    ASSUME FileInv, NEW t \in Task, Accept(t) \/ Begin(t)
    PROVE  FilesRight'
<1>1. /\ task[t].pc \in {"accept", "begin", "queued"} /\ UNCHANGED fileVars
      /\ StartRow(t) \/ NotStarted(t)
  BY DEF Accept, Begin
<1>2. ThreadFile(t) /\ task[t].file = NoFile /\ task[t].done = 0
  BY <1>1 DEF FileInv, FilesRight, ThreadFile, Fresh
<1>3. CASE NotStarted(t)
  <2>1. task'[t].pc = "idle" /\ \A u \in Task \ {t} : task'[u] = task[u]
    BY <1>3 DEF NotStarted, FileInv, TaskInv, Shape, Idle
  <2>2. ThreadFile(t)'
    BY <2>1 DEF ThreadFile, Fresh, WorkPc
  <2> QED
    BY <1>1, <2>1, <2>2, StartRowFiles, FilesStay DEF FileInv
<1>4. CASE ~NotStarted(t)
  <2>1. PICK pc \in {"queued", "raised", "open", "send"} :
            /\ Goto(t, pc)
            /\ pc = "open" => task[t].kind = "ova"
            /\ pc = "send" => task[t].kind # "ova"
    BY <1>4 DEF Accept, Begin
  <2>2. Moves(t, pc, task[t].file, task[t].done)
    BY <1>1, <2>1, GotoMoves DEF FileInv, TaskInv
  <2>3. ThreadFile(t)'
    BY <1>1, <1>2, <2>1, <2>2, RecoveryBounds DEF ThreadFile, Moves, Fresh, WorkPc, Kind, fileVars
  <2> QED
    BY <1>1, <1>2, <2>2, <2>3, StartRowFiles, FilesStay DEF Moves, FileInv
<1> QED
  BY <1>3, <1>4

LEMMA SendFiles ==
    ASSUME FileInv, NEW t \in Task, Send(t)
    PROVE  FilesRight'
<1>1. task[t].pc = "send" /\ UNCHANGED <<rows, fileVars, overlapped>>
  BY DEF Send, history
<1>2. ThreadFile(t) /\ task[t].kind = "restore" /\ task[t].file = NoFile
  BY <1>1 DEF FileInv, FilesRight, ThreadFile
<1>3. \E pc \in {"send", "finish", "raised"}, done \in Nat :
          /\ Moves(t, pc, task[t].file, done)
          /\ pc = "send" => done < MaxPieces
  <2>1. CASE Piece(t, "finish")
    BY <1>1, <1>2, <2>1, PieceMoves, RecoveryBounds DEF FileInv, TaskInv, ThreadFile
  <2>2. CASE Goto(t, "raised")
    BY <1>1, <1>2, <2>2, GotoMoves DEF FileInv, TaskInv, ThreadFile
  <2> QED
    BY <2>1, <2>2 DEF Send
<1>4. ThreadFile(t)'
  BY <1>1, <1>2, <1>3 DEF ThreadFile, Moves, Fresh, WorkPc, fileVars
<1> QED
  BY <1>1, <1>2, <1>3, <1>4, FilesStay DEF Moves, FileInv

LEMMA SettleFiles ==
    ASSUME FileInv, NEW t \in Task, Finish(t) \/ Fail(t)
    PROVE  FilesRight'
<1>1. task[t].pc \in {"finish", "fail"} /\ UNCHANGED <<fileVars, overlapped>>
  BY DEF Finish, Fail, history
<1>2. ThreadFile(t) /\ task[t] \in Record
  BY <1>1, ThreadShape DEF FileInv, FilesRight, TaskInv
<1>3. \/ task'[t].pc = "idle" /\ \A u \in Task \ {t} : task'[u] = task[u]
      \/ Moves(t, "fail", task[t].file, task[t].done)
  <2>1. CASE task' = [task EXCEPT ![t] = Idle]
    BY <2>1 DEF FileInv, TaskInv, Shape, Idle
  <2>2. CASE Goto(t, "fail")
    BY <1>1, <2>2, GotoMoves DEF FileInv, TaskInv
  <2> QED
    BY <2>1, <2>2 DEF Finish, Fail
<1>4. ThreadFile(t)'
  BY <1>1, <1>2, <1>3 DEF ThreadFile, Moves, Fresh, WorkPc, fileVars
<1>5. ASSUME NEW b \in Backup \ overlapped["ova"], rows'["ova"][b] = "success",
             rows["ova"][b] # "success"
      PROVE  export[b] # NoFile /\ content[export[b]] = Whole
  <2>1. UpdateRow(t, "success") /\ Finish(t)
    BY <1>5, <1>2 DEF Finish, Fail, UpdateRow, FileInv, TaskInv, Shape, Record, Kind
  <2>2. task[t].pc = "finish" /\ task[t].kind = "ova" /\ task[t].point = b
    BY <1>2, <1>5, <2>1 DEF Finish, UpdateRow, FileInv, TaskInv, Shape, Record, Kind
  <2>3. WorksOn(t, "ova", b)
    BY <2>2 DEF WorksOn, WorkPc
  <2> QED
    BY <2>2, <2>3 DEF FileInv, FilesRight, Builds
<1>6. task'[t].pc # "idle" => WorksOn(t, task[t].kind, task[t].point)
  BY <1>1 DEF WorksOn, WorkPc
<1> QED
  BY <1>1, <1>3, <1>4, <1>5, <1>6, FilesStay DEF Moves, FileInv

\* A task that may still create a file leaves room for it.
LEMMA OpenFits ==
    ASSUME FilesCounted, NEW t \in Task, task[t].pc = "open"
    PROVE  files + 1 \in File
<1>1. t \in CanOpen
  BY DEF CanOpen, Fresh
<1>2. Cardinality(CanOpen) \in Nat /\ Cardinality(CanOpen) # 0
  BY <1>1, FS_CardinalityType, FS_EmptySet DEF FilesCounted
<1> QED
  BY <1>2, RecoveryBounds DEF FilesCounted, File

\* Another task at the point of t means that they share it.
LEMMA Alone ==
    ASSUME TaskInv, NEW t \in Task, NEW u \in Task, u # t, NEW b \in Backup \ overlapped["ova"],
           WorksOn(t, "ova", b)
    PROVE  ~WorksOn(u, "ova", b)
BY DEF TaskInv, RowsFollow, Kind

\* A worker that is alone at its point keeps the row running.
LEMMA WorkerRuns ==
    ASSUME TaskInv, NEW t \in Task, NEW b \in Backup \ overlapped["ova"], WorksOn(t, "ova", b)
    PROVE  rows["ova"][b] = "running"
BY DEF TaskInv, RowsFollow, Kind

LEMMA FilesFit ==
    ASSUME FilesCounted
    PROVE  files \in 0..MaxTasks
<1>1. Cardinality(CanOpen) \in Nat
  BY FS_CardinalityType DEF FilesCounted
<1> QED
  BY <1>1, RecoveryBounds DEF FilesCounted

\* What a task does to the content of a file of its point is seen nowhere else.
LEMMA OwnFileWritten ==
    ASSUME FileInv, NEW t \in Task, NEW b0 \in Backup, NEW f0 \in 1..files,
           WorksOn(t, "ova", b0), OfPoint(b0, f0),
           UNCHANGED <<rows, partial, export, files, overlapped>>, FilesTyped',
           \A f \in File \ {f0} : content'[f] = content[f],
           \A u \in Task \ {t} : task'[u] = task[u],
           ThreadFile(t)', task'[t].kind = "ova", task'[t].point = b0, task'[t].file = f0,
           task'[t].pc \in WorkPc \ {"finish"},
           b0 \notin overlapped["ova"] => partial[b0] = f0,
           b0 \notin overlapped["ova"] =>
               /\ task'[t].pc = "write" => content'[f0] = 1..task'[t].done
               /\ task'[t].pc = "replace" => content'[f0] = Whole
    PROVE  FilesRight'
<1> USE DEF FileInv, FilesRight
<1>1. files \in 0..MaxTasks /\ \A f \in 1..files : f \in File
  BY FilesFit, RecoveryBounds DEF File
<1>2. \A u \in Task : ThreadFile(u)'
  BY DEF ThreadFile
<1>3. \A b \in Backup, f \in 1..files : OfPoint(b, f)' => OfPoint(b, f)
  BY DEF OfPoint, WorksOn
<1>4. FilesApart'
  BY <1>3 DEF FilesApart
<1>5. \A b \in Backup \ {b0}, f \in 1..files : OfPoint(b, f) => content'[f] = content[f]
  BY <1>1 DEF FilesApart
<1>6. ASSUME NEW b \in Backup, export[b] # NoFile, b = b0 => b \notin overlapped["ova"]
      PROVE  content'[export[b]] = content[export[b]]
  <2>1. export[b] \in 1..files /\ OfPoint(b, export[b])
    BY <1>6, <1>1 DEF FilesApart, OfPoint, NoFile
  <2>2. CASE b = b0
    BY <1>1, <1>6, <2>1, <2>2 DEF FilesApart, NoFile
  <2>3. CASE b # b0
    BY <1>5, <2>1, <2>3
  <2> QED
    BY <2>2, <2>3
<1>7. ServedIsWhole'
  BY <1>6 DEF ServedIsWhole
<1>8. ASSUME NEW u \in Task, NEW b \in Backup \ overlapped["ova"], WorksOn(u, "ova", b)'
      PROVE  /\ task'[u].pc = "write" => /\ partial'[b] = task'[u].file
                                        /\ content'[task'[u].file] = 1..task'[u].done
             /\ task'[u].pc = "replace" => /\ partial'[b] = task'[u].file
                                          /\ content'[task'[u].file] = Whole
             /\ task'[u].pc = "finish" => export'[b] # NoFile /\ content'[export'[b]] = Whole
  <2>1. CASE u = t
    BY <1>8, <2>1 DEF WorksOn
  <2>2. CASE u # t
    <3>1. WorksOn(u, "ova", b) /\ task'[u] = task[u]
      BY <1>8, <2>2 DEF WorksOn
    <3>2. b # b0
      BY <1>8, <2>2, <3>1, Alone
    <3>3. task[u].pc \in {"write", "replace"} =>
              task[u].file \in 1..files /\ OfPoint(b, task[u].file)
      BY <3>1, <1>1 DEF ThreadFile, OfPoint, NoFile, WorksOn
    <3> QED
      BY <1>5, <1>6, <3>1, <3>2, <3>3 DEF Builds
  <2> QED
    BY <2>1, <2>2
<1>9. Builds'
  BY <1>8 DEF Builds
<1> QED
  BY <1>2, <1>4, <1>7, <1>9

LEMMA OpenFiles ==
    ASSUME FileInv, NEW t \in Task, Open(t)
    PROVE  FilesRight'
<1> DEFINE b0 == task[t].point
<1>1. ThreadFile(t) /\ task[t].pc = "open" /\ UNCHANGED <<rows, export, overlapped>>
  BY DEF FileInv, FilesRight, Open, history
<1>2. b0 \in Backup /\ WorksOn(t, "ova", b0) /\ task[t].done = 0
  BY <1>1 DEF ThreadFile, WorksOn, WorkPc, Fresh
<1>3. FilesApart /\ FilesTyped /\ files \in 0..MaxTasks
  BY FilesFit DEF FileInv, FilesRight
<1>4. CASE partial[b0] # NoFile
  <2> DEFINE f0 == partial[b0]
  <2>1. /\ content' = [content EXCEPT ![f0] = {}] /\ UNCHANGED <<partial, files>>
        /\ Moves(t, "write", f0, 0)
    BY <1>1, <1>2, <1>4, OpenMoves DEF Open, FileInv, TaskInv
  <2>2. f0 \in 1..files /\ OfPoint(b0, f0) /\ f0 \in File
    BY <1>2, <1>3, <1>4, RecoveryBounds DEF FilesApart, OfPoint, NoFile, File
  <2>3. content'[f0] = 1..0 /\ FilesTyped' /\ \A f \in File \ {f0} : content'[f] = content[f]
    BY <1>3, <2>1, <2>2 DEF FilesTyped
  <2>4. ThreadFile(t)'
    BY <1>1, <2>1, <2>2, RecoveryBounds DEF ThreadFile, Moves, Fresh, WorkPc, NoFile
  <2> HIDE DEF f0
  <2>5. task'[t].kind = "ova" /\ task'[t].point = b0
    BY <1>2, <2>1 DEF Moves, WorksOn
  <2> QED
    BY <1>1, <1>2, <2>1, <2>2, <2>3, <2>4, <2>5, OwnFileWritten DEF Moves, WorkPc, f0
<1>5. CASE partial[b0] = NoFile
  <2>1. /\ files' = files + 1 /\ partial' = [partial EXCEPT ![b0] = files + 1]
        /\ Moves(t, "write", files + 1, 0) /\ UNCHANGED content
    BY <1>1, <1>2, <1>5, OpenMoves DEF Open, FileInv, TaskInv
  <2>2. files + 1 \in File
    BY <1>1, OpenFits DEF FileInv
  <2>3. content[files + 1] = {} /\ FilesTyped'
    BY <1>3, <2>1, <2>2, RecoveryBounds DEF FilesTyped, File
  <2>4. \A u \in Task : ThreadFile(u)'
    BY <1>1, <1>3, <2>1, RecoveryBounds DEF FileInv, FilesRight, ThreadFile, Moves, Fresh, WorkPc,
       NoFile
  <2>5. \A b \in Backup, f \in 1..files' :
            OfPoint(b, f)' => (f # files + 1 /\ OfPoint(b, f)) \/ (f = files + 1 /\ b = b0)
    BY <1>1, <1>2, <1>3, <2>1 DEF OfPoint, WorksOn, Moves, FilesApart, FileInv, FilesRight,
       ThreadFile, WorkPc
  <2>6. FilesApart'
    BY <1>1, <1>2, <1>3, <2>1, <2>5 DEF FilesApart, NoFile
  <2>7. Builds'
    <3>1. ASSUME NEW u \in Task \ {t}, NEW b \in Backup \ overlapped["ova"], WorksOn(u, "ova", b)
          PROVE  b # b0 /\ partial'[b] = partial[b]
      BY <1>2, <1>3, <2>1, <3>1, Alone DEF FileInv, FilesApart
    <3>2. \A b \in Backup : WorksOn(t, "ova", b)' => b = b0
      BY <2>1 DEF Moves, WorksOn
    <3>3. partial'[b0] = files + 1
      BY <1>2, <1>3, <2>1 DEF FilesApart
    <3>4. /\ task'[t].pc = "write" /\ task'[t].file = files + 1
          /\ content'[files + 1] = 1..task'[t].done
      BY <2>1, <2>3 DEF Moves
    <3>5. \A u \in Task \ {t} : task'[u] = task[u]
      BY <2>1 DEF Moves
    <3> QED
      BY <1>1, <2>1, <3>1, <3>2, <3>3, <3>4, <3>5 DEF FileInv, FilesRight, Builds, WorksOn
  <2>8. ServedIsWhole'
    BY <1>1, <2>1 DEF FileInv, FilesRight, ServedIsWhole
  <2> QED
    BY <2>3, <2>4, <2>6, <2>7, <2>8 DEF FilesRight
<1> QED
  BY <1>4, <1>5

LEMMA WriteFiles ==
    ASSUME FileInv, NEW t \in Task, Write(t)
    PROVE  FilesRight'
<1> DEFINE b0 == task[t].point
           f0 == task[t].file
<1>1. /\ ThreadFile(t) /\ task[t].pc = "write"
      /\ UNCHANGED <<rows, partial, export, files, overlapped>>
  BY DEF FileInv, FilesRight, Write, history
<1>2. b0 \in Backup /\ WorksOn(t, "ova", b0) /\ f0 \in 1..files /\ OfPoint(b0, f0)
  BY <1>1 DEF ThreadFile, WorksOn, WorkPc, NoFile, OfPoint
<1>3. FilesTyped /\ f0 \in File /\ task[t].done \in 0..(MaxPieces - 1)
  BY <1>1, <1>2, FilesFit, RecoveryBounds DEF FileInv, FilesRight, ThreadFile, File
<1>4. b0 \notin overlapped["ova"] => partial[b0] = f0 /\ content[f0] = 1..task[t].done
  BY <1>1, <1>2 DEF FileInv, FilesRight, Builds
<1>5. CASE /\ Piece(t, "replace") /\ b0 \in points
           /\ content' = [content EXCEPT ![f0] = @ \union {task[t].done + 1}]
  <2> DEFINE d1 == task[t].done + 1
  <2>1. Moves(t, IF d1 = MaxPieces THEN "replace" ELSE "write", f0, d1)
    <3>1. Shape /\ task[t].pc # "idle"
      BY <1>1 DEF FileInv, TaskInv
    <3>2. Moves(t, IF d1 = MaxPieces THEN "replace" ELSE task[t].pc, f0, d1)
      BY <1>5, <3>1, PieceMoves
    <3> QED
      BY <1>1, <3>2
  <2>2. content' = [content EXCEPT ![f0] = @ \union {d1}]
    BY <1>5
  <2>3. d1 \in Whole /\ (1..task[t].done) \union {d1} = 1..d1
    BY <1>3, RecoveryBounds DEF Whole
  <2>4. FilesTyped' /\ \A f \in File \ {f0} : content'[f] = content[f]
    BY <1>1, <1>2, <1>3, <2>2, <2>3, FilesFit, RecoveryBounds DEF FilesTyped, FileInv
  <2>5. content'[f0] = content[f0] \union {d1}
    BY <1>3, <2>2 DEF FilesTyped
  <2>6. ThreadFile(t)'
    BY <1>1, <1>3, <2>1, RecoveryBounds DEF ThreadFile, Moves, Fresh, WorkPc
  <2>7. /\ task'[t].kind = "ova" /\ task'[t].point = b0 /\ task'[t].file = f0
        /\ task'[t].done = d1 /\ task'[t].pc = IF d1 = MaxPieces THEN "replace" ELSE "write"
        /\ \A u \in Task \ {t} : task'[u] = task[u]
    BY <1>2, <2>1 DEF Moves, WorksOn
  <2>8. b0 \notin overlapped["ova"] =>
            /\ task'[t].pc = "write" => content'[f0] = 1..task'[t].done
            /\ task'[t].pc = "replace" => content'[f0] = Whole
    BY <1>4, <2>3, <2>5, <2>7 DEF Whole
  <2> HIDE DEF b0, f0, d1
  <2> QED
    BY <1>1, <1>2, <1>4, <2>4, <2>6, <2>7, <2>8, OwnFileWritten DEF WorkPc
<1>6. CASE Goto(t, "raised") /\ UNCHANGED content
  <2>1. Moves(t, "raised", f0, task[t].done)
    BY <1>1, <1>6, GotoMoves DEF FileInv, TaskInv
  <2>2. ThreadFile(t)'
    BY <1>1, <2>1 DEF ThreadFile, Moves, Fresh, WorkPc
  <2> QED
    BY <1>1, <1>2, <1>6, <2>1, <2>2, FilesStay DEF Moves, FileInv, fileVars, WorksOn
<1> QED
  BY <1>5, <1>6 DEF Write, Piece

LEMMA RaiseFiles ==
    ASSUME FileInv, NEW t \in Task, Raise(t)
    PROVE  FilesRight'
<1> DEFINE b0 == task[t].point
<1>1. /\ ThreadFile(t) /\ task[t].pc = "raised"
      /\ UNCHANGED <<rows, export, content, files, overlapped>>
  BY DEF FileInv, FilesRight, Raise, history
<1>2. Moves(t, "fail", task[t].file, task[t].done)
  BY <1>1, GotoMoves DEF Raise, FileInv, TaskInv
<1>3. \A u \in Task : ThreadFile(u)'
  BY <1>1, <1>2 DEF FileInv, FilesRight, ThreadFile, Moves, Fresh, WorkPc
<1>4. b0 \in Backup /\ FilesApart
  BY <1>1 DEF ThreadFile, WorkPc, FileInv, FilesRight
<1>5. CASE UNCHANGED partial
  BY <1>1, <1>2, <1>3, <1>5, FilesStay DEF Moves, FileInv, fileVars, WorksOn, WorkPc
<1>6. CASE task[t].kind = "ova" /\ partial' = [partial EXCEPT ![b0] = NoFile]
  <2>1. \A b \in Backup, f \in 1..files : OfPoint(b, f)' => OfPoint(b, f)
    BY <1>1, <1>2, <1>4, <1>6 DEF OfPoint, WorksOn, WorkPc, Moves, NoFile, FilesApart
  <2>2. FilesApart' /\ FilesTyped'
    BY <1>1, <1>4, <1>6, <2>1 DEF FileInv, FilesRight, FilesApart, FilesTyped, NoFile
  <2>3. WorksOn(t, "ova", b0)
    BY <1>1, <1>6 DEF WorksOn, WorkPc
  <2>4. Builds'
    <3>1. ASSUME NEW u \in Task \ {t}, NEW b \in Backup \ overlapped["ova"], WorksOn(u, "ova", b)
          PROVE  partial'[b] = partial[b]
      BY <1>4, <1>6, <2>3, <3>1, Alone DEF FileInv, FilesApart
    <3> QED
      BY <1>1, <1>2, <3>1 DEF FileInv, FilesRight, Builds, WorksOn, Moves
  <2>5. ServedIsWhole'
    BY <1>1 DEF FileInv, FilesRight, ServedIsWhole
  <2> QED
    BY <1>3, <2>2, <2>4, <2>5 DEF FilesRight
<1> QED
  BY <1>5, <1>6 DEF Raise

LEMMA ReplaceFiles ==
    ASSUME FileInv, NEW t \in Task, Replace(t)
    PROVE  FilesRight'
<1> DEFINE b0 == task[t].point
           f0 == partial[b0]
<1>1. /\ ThreadFile(t) /\ task[t].pc = "replace"
      /\ UNCHANGED <<rows, content, files, overlapped>>
  BY DEF FileInv, FilesRight, Replace, history
<1>2. b0 \in Backup /\ WorksOn(t, "ova", b0) /\ FilesApart
  BY <1>1 DEF ThreadFile, WorksOn, WorkPc, FileInv, FilesRight
<1>3. CASE partial[b0] = NoFile
  <2>1. Goto(t, "raised") /\ UNCHANGED fileVars
    BY <1>1, <1>3 DEF Replace, fileVars
  <2>2. Moves(t, "raised", task[t].file, task[t].done)
    BY <1>1, <2>1, GotoMoves DEF FileInv, TaskInv
  <2>3. ThreadFile(t)'
    BY <1>1, <2>2 DEF ThreadFile, Moves, Fresh, WorkPc
  <2> QED
    BY <1>1, <1>2, <2>1, <2>2, <2>3, FilesStay DEF Moves, FileInv, WorksOn
<1>4. CASE partial[b0] # NoFile
  <2>1. /\ export' = [export EXCEPT ![b0] = f0] /\ partial' = [partial EXCEPT ![b0] = NoFile]
        /\ Moves(t, "finish", task[t].file, task[t].done)
    BY <1>1, <1>4, GotoMoves DEF Replace, FileInv, TaskInv
  <2>2. \A u \in Task : ThreadFile(u)'
    BY <1>1, <2>1 DEF FileInv, FilesRight, ThreadFile, Moves, Fresh, WorkPc
  <2>3. \A b \in Backup, f \in 1..files : OfPoint(b, f)' => OfPoint(b, f)
    BY <1>1, <1>2, <2>1 DEF OfPoint, WorksOn, WorkPc, Moves, NoFile, FilesApart
  <2>4. FilesApart' /\ FilesTyped'
    BY <1>1, <1>2, <1>4, <2>1, <2>3 DEF FileInv, FilesRight, FilesApart, FilesTyped, NoFile
  <2>5. \A b \in Backup \ {b0} : export'[b] = export[b] /\ partial'[b] = partial[b]
    BY <1>2, <2>1 DEF FilesApart
  <2>6. b0 \notin overlapped["ova"] => f0 = task[t].file /\ content[f0] = Whole
    BY <1>1, <1>2 DEF FileInv, FilesRight, Builds
  <2>7. export'[b0] = f0
    BY <1>2, <2>1 DEF FilesApart
  <2>8. Builds'
    <3>1. ASSUME NEW u \in Task \ {t}, NEW b \in Backup \ overlapped["ova"], WorksOn(u, "ova", b)
          PROVE  export'[b] = export[b] /\ partial'[b] = partial[b]
      BY <1>2, <2>5, <3>1, Alone DEF FileInv
    <3>2. \A b \in Backup : WorksOn(t, "ova", b)' => b = b0 /\ task'[t].pc = "finish"
      BY <2>1 DEF Moves, WorksOn
    <3> QED
      BY <1>1, <1>4, <2>1, <2>6, <2>7, <3>1, <3>2 DEF FileInv, FilesRight, Builds, WorksOn, Moves
  <2>9. ServedIsWhole'
    BY <1>1, <2>5, <2>6, <2>7 DEF FileInv, FilesRight, ServedIsWhole
  <2> QED
    BY <2>2, <2>4, <2>8, <2>9 DEF FilesRight
<1> QED
  BY <1>3, <1>4

LEMMA OtherFiles ==
    ASSUME FileInv, DeleteVm \/ Restart \/ UNCHANGED vars
    PROVE  FilesRight'
<1> USE DEF FileInv, FilesRight
<1>1. CASE DeleteVm
  <2>1. /\ \A b \in Backup : rows["ova"][b] # "running" /\ rows'["ova"][b] # "success"
        /\ UNCHANGED <<partial, content, files, task, overlapped>>
    BY <1>1 DEF DeleteVm, DeleteAll, Kind, history
  <2>2. FilesApart /\ export' = [b \in Backup |-> IF b \in path THEN NoFile ELSE export[b]]
    BY <1>1 DEF DeleteVm, DeleteAll
  <2>3. \A b \in Backup : export'[b] \in {NoFile, export[b]}
    BY <2>2
  <2>4. \A b \in Backup, f \in 1..files : OfPoint(b, f)' => OfPoint(b, f)
    BY <2>1, <2>3 DEF OfPoint, WorksOn, NoFile
  <2>5. FilesApart' /\ FilesTyped' /\ \A u \in Task : ThreadFile(u)'
    BY <2>1, <2>2, <2>3, <2>4 DEF FilesApart, FilesTyped, ThreadFile, NoFile
  <2>6. Builds' /\ ServedIsWhole'
    BY <2>1, WorkerRuns DEF Builds, WorksOn, ServedIsWhole
  <2> QED
    BY <2>5, <2>6
<1>2. CASE Restart
  <2>1. UNCHANGED <<rows, fileVars, overlapped>> /\ \A t \in Task : task'[t].pc = "idle"
    BY <1>2 DEF Restart, Idle
  <2>2. \A b \in Backup, f \in 1..files : OfPoint(b, f)' => OfPoint(b, f)
    BY <2>1 DEF OfPoint, WorksOn, WorkPc, fileVars
  <2> QED
    BY <2>1, <2>2 DEF FilesApart, FilesTyped, ThreadFile, Builds, WorksOn, WorkPc, ServedIsWhole,
       fileVars
<1>3. CASE UNCHANGED vars
  BY <1>3 DEF vars, fileVars, history, FilesApart, FilesTyped, ThreadFile, Builds, WorksOn, OfPoint,
     ServedIsWhole
<1> QED
  BY <1>1, <1>2, <1>3

------------------------------------------------------------------------------

(* The rest of the type invariant, and the number of files. *)

LEMMA PathStays == ASSUME FileInv, [Next]_vars PROVE path' \subseteq Backup
<1> USE DEF FileInv
<1>1. ASSUME NEW t \in Task, Accept(t) \/ Begin(t)
      PROVE  path' \subseteq Backup
  BY <1>1, StartRowFiles DEF Accept, Begin
<1>2. ASSUME NEW t \in Task, Finish(t)
      PROVE  path' \subseteq Backup
  <2>1. task[t].point \in Backup
    BY <1>2 DEF Finish, FilesRight, ThreadFile, WorkPc
  <2> QED
    BY <1>2, <2>1 DEF Finish
<1>3. ASSUME NEW t \in Task, ~(Accept(t) \/ Begin(t) \/ Finish(t)), Request(t) \/ TaskStep(t)
      PROVE  path' \subseteq Backup
  BY <1>3 DEF Request, TaskStep, Open, Write, Replace, Send, Raise, Fail
<1>4. CASE DeleteVm \/ Restart \/ UNCHANGED vars
  BY <1>4 DEF DeleteVm, DeleteAll, Restart, vars
<1> QED
  BY <1>1, <1>2, <1>3, <1>4 DEF Next, TaskStep

\* A request is counted before its task may create a file, and no longer when it has.
LEMMA RequestCounts ==
    ASSUME FileInv, NEW t \in Task, Request(t)
    PROVE  FilesCounted'
<1> USE DEF FileInv, FilesCounted
<1>1. t \notin CanOpen /\ CanOpen' = CanOpen \union {t}
  <2>1. PICK kind \in Kind, b \in points, policy \in BOOLEAN :
            task' = [task EXCEPT ![t] =
                        [pc |-> IF policy THEN "begin" ELSE "accept",
                         kind |-> kind, point |-> b, file |-> NoFile, done |-> 0]]
    BY DEF Request
  <2>2. task[t] = Idle
    BY DEF Request
  <2> QED
    BY <2>1, <2>2 DEF TaskInv, Shape, CanOpen, Idle, Fresh
<1>2. IsFiniteSet(CanOpen') /\ Cardinality(CanOpen') = Cardinality(CanOpen) + 1
  BY <1>1, FS_AddElement
<1>3. requested' = requested + 1 /\ requested < MaxTasks /\ UNCHANGED files
  BY DEF Request, fileVars
<1>4. Cardinality(CanOpen) \in Nat
  BY FS_CardinalityType
<1> QED
  BY <1>2, <1>3, <1>4, RecoveryBounds

LEMMA OpenCounts ==
    ASSUME FileInv, NEW t \in Task, Open(t)
    PROVE  FilesCounted'
<1> USE DEF FileInv, FilesCounted
<1>1. t \in CanOpen /\ CanOpen' = CanOpen \ {t}
  <2>1. task[t].pc = "open"
    BY DEF Open
  <2>2. \E f : task' = [task EXCEPT ![t].pc = "write", ![t].file = f]
    BY DEF Open
  <2>3. \E f : Moves(t, "write", f, task[t].done)
    BY <2>1, <2>2, OpenMoves DEF TaskInv
  <2> QED
    BY <2>1, <2>3 DEF Moves, CanOpen, Fresh
<1>2. IsFiniteSet(CanOpen') /\ Cardinality(CanOpen') = Cardinality(CanOpen) - 1
  BY <1>1, FS_RemoveElement
<1>3. files' \in {files, files + 1} /\ UNCHANGED requested
  BY DEF Open
<1>4. Cardinality(CanOpen) \in Nat /\ Cardinality(CanOpen) # 0
  BY <1>1, FS_CardinalityType, FS_EmptySet
<1> QED
  BY <1>2, <1>3, <1>4

LEMMA OtherCounts ==
    ASSUME FilesCounted, CanOpen' \subseteq CanOpen, UNCHANGED <<files, requested>>
    PROVE  FilesCounted'
<1> USE DEF FilesCounted
<1>1. IsFiniteSet(CanOpen') /\ Cardinality(CanOpen') <= Cardinality(CanOpen)
  BY FS_Subset
<1>2. Cardinality(CanOpen) \in Nat /\ Cardinality(CanOpen') \in Nat
  BY <1>1, FS_CardinalityType
<1> QED
  BY <1>1, <1>2

LEMMA FilesStayCounted == ASSUME FileInv, [Next]_vars PROVE FilesCounted'
<1> USE DEF FileInv
<1>1. ASSUME NEW t \in Task, TaskStep(t), ~Open(t)
      PROVE  FilesCounted'
  <2>1. UNCHANGED <<files, requested>> /\ task[t].pc # "idle" /\ task[t] \in Record
    BY <1>1, ThreadShape DEF TaskStep, Accept, Begin, NotStarted, Write, Replace, Send, Finish, Raise, Fail,
       fileVars, TaskInv
  <2>2. \A u \in Task \ {t} : task'[u] = task[u]
    BY <1>1 DEF TaskStep, Accept, Begin, NotStarted, Write, Replace, Send, Finish, Raise, Fail, Piece, Goto,
       TaskInv, Shape
  <2>3. task'[t].pc \in Fresh => task[t].pc \in Fresh
    BY <1>1, <2>1 DEF TaskStep, Accept, Begin, NotStarted, Write, Replace, Send, Finish, Raise, Fail, Piece,
       Goto, TaskInv, Shape, Fresh, Idle, Record
  <2> QED
    BY <2>1, <2>2, <2>3, OtherCounts DEF CanOpen
<1>2. CASE DeleteVm \/ UNCHANGED vars
  BY <1>2, OtherCounts DEF DeleteVm, DeleteAll, vars, fileVars, CanOpen
<1>3. CASE Restart
  <2>1. CanOpen' = {} /\ UNCHANGED <<files, requested>>
    BY <1>3 DEF Restart, CanOpen, Idle, Fresh, fileVars
  <2> QED
    BY <2>1, OtherCounts
<1> QED
  BY <1>1, <1>2, <1>3, RequestCounts, OpenCounts DEF Next

LEMMA FileInit == Init => FileInv
<1> SUFFICES ASSUME Init
             PROVE  FileInv
  OBVIOUS
<1>1. TaskInv
  BY TaskInit
<1>2. FilesRight
  BY DEF Init, FilesRight, ThreadFile, FilesApart, FilesTyped, Builds, ServedIsWhole, OfPoint,
     WorksOn, Idle, WorkPc, NoFile, Whole, Kind
<1>3. FilesCounted
  <2>1. CanOpen = {} /\ files = 0 /\ requested = 0
    BY DEF Init, CanOpen, Idle, Fresh
  <2> QED
    BY <2>1, FS_EmptySet, RecoveryBounds DEF FilesCounted
<1> QED
  BY <1>1, <1>2, <1>3 DEF FileInv, Init

LEMMA FileNext == FileInv /\ [Next]_vars => FileInv'
<1> SUFFICES ASSUME FileInv, [Next]_vars
             PROVE  FileInv'
  OBVIOUS
<1>1. TaskInv'
  BY TaskNext DEF FileInv
<1>2. FilesRight'
  BY RequestFiles, StartFiles, OpenFiles, WriteFiles, ReplaceFiles, SendFiles, SettleFiles,
     RaiseFiles, OtherFiles DEF Next, TaskStep
<1> QED
  BY <1>1, <1>2, PathStays, FilesStayCounted DEF FileInv

\* The variables keep their types; that no more files are created than tasks were requested
\* is what is not plain to see.
THEOREM TypesKept == Spec => []TypeOK
<1>1. FileInv => TypeOK
  <2> SUFFICES ASSUME FileInv
               PROVE  TypeOK
    OBVIOUS
  <2>1. /\ files \in {0} \union File /\ requested \in 0..MaxTasks
        /\ 0..files \subseteq {NoFile} \union File
    BY FilesFit, RecoveryBounds DEF FileInv, FilesCounted, File, NoFile
  <2>2. partial \in [Backup -> {NoFile} \union File] /\ export \in [Backup -> {NoFile} \union File]
    BY <2>1 DEF FileInv, FilesRight, FilesApart
  <2>3. \A t \in Task : task[t].pc \in {"idle", "accept", "begin"} \union WorkPc
    BY DEF FileInv, FilesRight, ThreadFile
  <2> QED
    BY <2>1, <2>2, <2>3 DEF FileInv, FilesRight, FilesTyped, TaskInv, Shape, TypeOK
<1> QED
  BY FileInit, FileNext, <1>1, PTL DEF Spec

\* An OVA that can be downloaded (web.py:907) has all its pieces, unless two tasks built it at
\* once: no fault, restart, deletion or task of another point takes one away.
THEOREM ServedWhole == Spec => []ServedIsWhole
<1>1. FileInv => ServedIsWhole
  BY DEF FileInv, FilesRight
<1> QED
  BY FileInit, FileNext, <1>1, PTL DEF Spec
=============================================================================
