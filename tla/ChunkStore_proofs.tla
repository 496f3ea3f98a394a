-------------------------- MODULE ChunkStore_proofs --------------------------
(***************************************************************************)
(* What the chunk store promises, for any number of backups, chunks and    *)
(* streams, with crashes, torn manifests and failed unlinks at any step.   *)
(***************************************************************************)
EXTENDS ChunkStore, TLAPS

\* The steps of a backup thread after its start.
ThreadStep(j) == Upload(j) \/ ExportError(j) \/ WriteError(j) \/ PublishError(j)

------------------------------------------------------------------------------
(* Types *)

\* A thread that handles a chunk has one left, one that is to write its manifest has
\* none, and a backup that has not started has neither consumed a chunk nor a VM.
Positions ==
    \A j \in Job :
        /\ pc[j] \in {"check", "replace", "index", "append"} => position[j] < Len(stream[j])
        /\ pc[j] = "manifest" => position[j] = Len(stream[j])
        /\ pc[j] = "idle" => position[j] = 0 /\ target[j] = NoTarget

TypeInv == TypeOK /\ Positions

LEMMA TypeThread ==
    ASSUME TypeInv, NEW j \in Job, ThreadStep(j)
    PROVE  TypeInv'
<1> USE DEF TypeInv, TypeOK, Positions, Goto, StorePc, Status, storeVars, catalogVars, Commit
<1>1. CASE CheckFile(j)
  BY <1>1 DEF CheckFile
<1>2. CASE ReplaceFile(j)
  <2>1. Current(j) \in Chunk
    BY <1>2 DEF ReplaceFile, Current
  <2>2. QED
    BY <1>2, <2>1 DEF ReplaceFile
<1>3. CASE IndexChunk(j)
  BY <1>3 DEF IndexChunk
<1>4. CASE AppendChunk(j)
  <2>1. UNCHANGED <<catalogVars, target, stream, storeVars, durable, write_lock, gc, overlapped>>
    BY <1>4 DEF AppendChunk
  <2>2. CASE pc' = [pc EXCEPT ![j] = "fail"] /\ UNCHANGED position
    BY <2>1, <2>2
  <2>3. CASE /\ pc' = [pc EXCEPT ![j] = After(stream[j], position[j] + 1)]
             /\ position' = [position EXCEPT ![j] = @ + 1]
             /\ pc[j] = "append"
    <3>1. position[j] \in Nat /\ position[j] < Len(stream[j]) /\ Len(stream[j]) \in Nat
      BY <2>3
    <3>2. CASE position[j] + 1 < Len(stream[j])
      BY <2>1, <2>3, <3>1, <3>2 DEF After
    <3>3. CASE position[j] + 1 = Len(stream[j])
      BY <2>1, <2>3, <3>1, <3>3 DEF After
    <3>4. QED
      BY <3>1, <3>2, <3>3
  <2>4. QED
    BY <1>4, <2>2, <2>3 DEF AppendChunk
<1>5. CASE PublishManifest(j)
  BY <1>5 DEF PublishManifest, WriteManifest
<1>6. CASE Finish(j)
  BY <1>6 DEF Finish, FinishRow, SetStatus
<1>7. CASE Fail(j)
  BY <1>7 DEF Fail, FailRow, SetStatus
<1>8. CASE ExportError(j)
  BY <1>8 DEF ExportError
<1>9. CASE WriteError(j)
  BY <1>9 DEF WriteError
<1>10. CASE PublishError(j)
  BY <1>10 DEF PublishError, WriteManifest
<1>11. QED
  BY <1>1, <1>2, <1>3, <1>4, <1>5, <1>6, <1>7, <1>8, <1>9, <1>10 DEF ThreadStep, Upload

GcTypes == [pc : {"idle", "manifests", "scan", "chunks"}, ids : SUBSET Job,
            chunks : SUBSET Chunk, errors : 0..MaxErrors]

LEMMA TypeDelete ==
    ASSUME TypeInv, DeleteStep
    PROVE  TypeInv'
<1> USE DEF TypeInv, TypeOK, Positions, Status, storeVars, catalogVars, uploadVars, Commit
<1>1. CASE UnlinkManifest
  BY <1>1 DEF UnlinkManifest
<1>2. CASE DeleteRows
  <2>1. gc \in GcTypes
    BY DEF GcTypes
  <2>2. gc' \in GcTypes
    BY <1>2, <2>1 DEF DeleteRows, GcTypes
  <2>3. status' \in [Job -> Status]
    BY <1>2 DEF DeleteRows
  <2>4. durable' \in [status : [Job -> Status], index : SUBSET Chunk]
    BY <1>2, <2>3 DEF DeleteRows
  <2>5. UNCHANGED <<manifests, uploadVars, storeVars, write_lock, overlapped>>
    BY <1>2 DEF DeleteRows
  <2>6. QED
    BY <2>2, <2>3, <2>4, <2>5 DEF GcTypes
<1>3. CASE ScanManifests
  <2>1. gc \in GcTypes
    BY DEF GcTypes
  <2>2. gc' \in GcTypes
    BY <1>3, <2>1 DEF ScanManifests, GcTypes
  <2>3. QED
    BY <1>3, <2>2 DEF ScanManifests, Storing, GcTypes
<1>4. CASE UnlinkChunk
  <2>1. gc \in GcTypes
    BY DEF GcTypes
  <2>2. gc' \in GcTypes
    BY <1>4, <2>1 DEF UnlinkChunk, GcTypes
  <2>3. QED
    BY <1>4, <2>2 DEF UnlinkChunk, GcTypes
<1>5. CASE EndDelete
  BY <1>5 DEF EndDelete, Idle
<1>6. QED
  BY <1>1, <1>2, <1>3, <1>4, <1>5 DEF DeleteStep

LEMMA TypeStep == TypeInv /\ [Next]_vars => TypeInv'
<1> SUFFICES ASSUME TypeInv, [Next]_vars PROVE TypeInv'
  OBVIOUS
<1> USE DEF TypeInv, TypeOK, Positions, Status, Commit
<1>1. ASSUME NEW j \in Job, NEW v \in VM, NEW s \in Streams, Start(j, v, s)
      PROVE  TypeInv'
  BY <1>1, StreamsAssumption DEF Start, Goto, CreateRow, After, StorePc, storeVars
<1>2. ASSUME NEW v \in VM, BeginDelete(v) PROVE TypeInv'
  BY <1>2 DEF BeginDelete, RowsOf, catalogVars, uploadVars, storeVars
<1>3. CASE Progress
  BY <1>3 DEF Progress, catalogVars, uploadVars, storeVars
<1>4. CASE Crash
  BY <1>4 DEF Crash, Idle, StorePc
<1>5. CASE DeleteError
  BY <1>5, MaxErrorsAssumption DEF DeleteError, Idle, catalogVars, uploadVars, storeVars
<1>6. CASE UNCHANGED vars
  BY <1>6 DEF vars, catalogVars, uploadVars, storeVars
<1>7. QED
  BY <1>1, <1>2, <1>3, <1>4, <1>5, <1>6, TypeThread, TypeDelete DEF Next, ThreadStep

\* Every variable keeps its type; the only deep part is that a thread never reads
\* past the end of its stream.
THEOREM TypeCorrect == Spec => []TypeOK
<1>1. Init => TypeInv
  BY MaxErrorsAssumption DEF Init, CatalogInit, TypeInv, TypeOK, Positions, StorePc, Status, Idle
<1>2. TypeInv => TypeOK
  BY DEF TypeInv
<1>3. QED
  BY <1>1, <1>2, TypeStep, PTL DEF Spec
------------------------------------------------------------------------------
(* The write lock *)

\* Between the look for a file and the index row a thread holds the lock, and what
\* it did not find is still not there.
LockInv ==
    \A j \in Job :
        /\ pc[j] \in {"replace", "index"} => write_lock = j
        /\ pc[j] = "replace" => Current(j) \notin files

LEMMA LockThread ==
    ASSUME TypeInv, LockInv, NEW j \in Job, ThreadStep(j)
    PROVE  LockInv'
<1> USE DEF TypeInv, TypeOK, LockInv, Current, Goto, storeVars, catalogVars
<1>1. CASE CheckFile(j)
  BY <1>1, NoJobAssumption DEF CheckFile
<1>2. CASE ReplaceFile(j)
  BY <1>2 DEF ReplaceFile
<1>3. CASE IndexChunk(j)
  BY <1>3 DEF IndexChunk
<1>4. CASE AppendChunk(j)
  <2>1. PICK to \in {"check", "manifest", "fail"} : pc' = [pc EXCEPT ![j] = to]
    BY <1>4 DEF AppendChunk, After
  <2>2. UNCHANGED <<stream, files, write_lock>> /\ pc[j] = "append"
    BY <1>4 DEF AppendChunk
  <2>3. \A k \in Job : k # j => position'[k] = position[k]
    BY <1>4 DEF AppendChunk
  <2>4. QED
    BY <2>1, <2>2, <2>3
<1>5. CASE PublishManifest(j) \/ PublishError(j)
  BY <1>5 DEF PublishManifest, PublishError
<1>6. CASE Finish(j) \/ Fail(j)
  BY <1>6 DEF Finish, Fail
<1>7. CASE ExportError(j) \/ WriteError(j)
  BY <1>7 DEF ExportError, WriteError
<1>8. QED
  BY <1>1, <1>2, <1>3, <1>4, <1>5, <1>6, <1>7 DEF ThreadStep, Upload

LEMMA LockStep == TypeInv /\ LockInv /\ [Next]_vars => LockInv'
<1> SUFFICES ASSUME TypeInv, LockInv, [Next]_vars PROVE LockInv'
  OBVIOUS
<1> USE DEF TypeInv, TypeOK, LockInv, Current
<1>1. ASSUME NEW j \in Job, NEW v \in VM, NEW s \in Streams, Start(j, v, s)
      PROVE  LockInv'
  BY <1>1 DEF Start, Goto, After, storeVars
<1>2. CASE DeleteStep
  BY <1>2 DEF DeleteStep, UnlinkManifest, DeleteRows, ScanManifests, UnlinkChunk, EndDelete,
     uploadVars, storeVars
<1>3. CASE Progress \/ DeleteError \/ (\E v \in VM : BeginDelete(v)) \/ UNCHANGED vars
  BY <1>3 DEF Progress, DeleteError, BeginDelete, vars, uploadVars, storeVars
<1>4. CASE Crash
  BY <1>4 DEF Crash
<1>5. QED
  BY <1>1, <1>2, <1>3, <1>4, LockThread DEF Next, ThreadStep

\* operations.md:16, for any number of threads: the chunk a thread writes and counts
\* as new is on no disk when it writes it.
THEOREM StoredOnceHolds == Spec => StoredOnce
<1>1. Init => TypeInv /\ LockInv
  BY MaxErrorsAssumption DEF Init, CatalogInit, TypeInv, TypeOK, Positions, StorePc, Status,
     Idle, LockInv
<1>2. TypeInv /\ LockInv /\ [Next]_vars =>
        [\A j \in Job : pc[j] = "replace" /\ pc'[j] = "index" => Current(j) \notin files]_vars
  BY DEF LockInv
<1>3. QED
  BY <1>1, <1>2, TypeStep, LockStep, PTL DEF Spec, StoredOnce
------------------------------------------------------------------------------
(* Recovery points *)

\* A backup that has a manifest has written it, so its stream no longer changes.
Published == \A j \in manifests : pc[j] \in {"finish", "fail", "done"}

\* While delete_vm unlinks chunks, none of those left to go is referred to by a
\* manifest: the manifests were read under the lock that publishing takes.
Unreferenced ==
    gc.pc = "chunks" =>
        \A j \in manifests \ torn : gc.chunks \intersect ChunksOf(j) = {}

PointInv == Published /\ Unreferenced

\* What a step does to the recovery points, next to the promise of PointStore.
Kept == \A j \in Points : j \in manifests' => j \in Points'

\* A step that leaves the files and the streams alone.
LEMMA PointFrame ==
    ASSUME PointInv, UNCHANGED <<manifests, torn, stream, files, gc>>,
           \A k \in manifests : pc'[k] \in {"finish", "fail", "done"}
    PROVE  PointInv' /\ Points' = Points
<1>1. \A k \in Job : ChunksOf(k)' = ChunksOf(k)
  BY DEF ChunksOf
<1>2. \A k : ChunksOf(k)' = ChunksOf(k)
  BY DEF ChunksOf
<1>3. QED
  BY <1>2 DEF PointInv, Published, Unreferenced, Points, Complete

LEMMA PointStart ==
    ASSUME TypeInv, PointInv, NEW j \in Job, NEW v \in VM, NEW s \in Streams, Start(j, v, s)
    PROVE  PointInv' /\ Points' = Points
<1>1. /\ pc[j] = "idle" /\ pc' = [pc EXCEPT ![j] = After(s, 0)]
      /\ stream' = [stream EXCEPT ![j] = s]
      /\ UNCHANGED <<manifests, torn, files, gc>> /\ gc.pc = "idle"
  BY DEF Start, Goto, CreateRow, storeVars, DbFree
<1>2. j \notin manifests
  BY <1>1 DEF PointInv, Published
<1>3. \A k \in manifests : ChunksOf(k)' = ChunksOf(k) /\ pc'[k] = pc[k]
  BY <1>1, <1>2 DEF ChunksOf, TypeInv, TypeOK
<1>4. QED
  BY <1>1, <1>3 DEF PointInv, Published, Unreferenced, Points, Complete

LEMMA PointThread ==
    ASSUME TypeInv, PointInv, NEW j \in Job, ThreadStep(j)
    PROVE  PointInv' /\ Points \subseteq Points' /\ UNCHANGED <<target, gc>>
<1> USE DEF TypeInv, TypeOK, Goto, storeVars, catalogVars
<1>1. CASE \E to \in {"replace", "index", "append", "check", "manifest", "fail"} :
             /\ pc[j] \in {"check", "index", "append", "replace"}
             /\ pc' = [pc EXCEPT ![j] = to]
             /\ UNCHANGED <<manifests, torn, target, stream, files, gc>>
  BY <1>1, PointFrame DEF PointInv, Published
<1>2. CASE CheckFile(j) \/ IndexChunk(j) \/ AppendChunk(j) \/ ExportError(j) \/ WriteError(j)
  BY <1>1, <1>2 DEF CheckFile, IndexChunk, AppendChunk, ExportError, WriteError, After
<1>3. CASE ReplaceFile(j)
  <2>1. /\ pc[j] = "replace" /\ pc' = [pc EXCEPT ![j] = "index"]
        /\ files \subseteq files' /\ UNCHANGED <<manifests, torn, target, stream, gc>>
    BY <1>3 DEF ReplaceFile
  <2>2. \A k : ChunksOf(k)' = ChunksOf(k)
    BY <2>1 DEF ChunksOf
  <2>3. QED
    BY <2>1, <2>2 DEF PointInv, Published, Unreferenced, Points, Complete
<1>4. CASE PublishManifest(j) \/ PublishError(j)
  <2>1. /\ pc[j] = "manifest" /\ pc' \in {[pc EXCEPT ![j] = to] : to \in {"finish", "fail"}}
        /\ manifests' = manifests \union {j} /\ torn' \in {torn, torn \union {j}}
        /\ gc.pc = "idle" /\ UNCHANGED <<target, stream, files, gc>>
    BY <1>4 DEF PublishManifest, PublishError, WriteManifest, DbFree
  <2>2. \A k : ChunksOf(k)' = ChunksOf(k)
    BY <2>1 DEF ChunksOf
  <2>3. j \notin manifests
    BY <2>1 DEF PointInv, Published
  <2>4. QED
    BY <2>1, <2>2, <2>3 DEF PointInv, Published, Unreferenced, Points, Complete
<1>5. CASE Finish(j) \/ Fail(j)
  <2>1. /\ pc' = [pc EXCEPT ![j] = "done"]
        /\ UNCHANGED <<manifests, torn, target, stream, files, gc>>
    BY <1>5 DEF Finish, Fail, FinishRow, FailRow, SetStatus
  <2>2. QED
    BY <2>1, PointFrame DEF PointInv, Published
<1>6. QED
  BY <1>2, <1>3, <1>4, <1>5 DEF ThreadStep, Upload

\* The steps that take a file away: a manifest of the VM, or a chunk no readable
\* manifest refers to.
LEMMA PointDelete ==
    ASSUME TypeInv, PointInv, "unreadable" \notin Faults, DeleteStep
    PROVE  /\ PointInv'
           /\ \/ UNCHANGED <<Points, Condemned>>
              \/ Points' = Points /\ Condemned' = {}
              \/ UNCHANGED Condemned /\ \E j \in Condemned : Points' = Points \ {j}
           /\ UNCHANGED target
<1> USE DEF TypeInv, TypeOK, PointInv, Published, Unreferenced, Points, Condemned, Complete,
            uploadVars
<1>1. CASE UnlinkManifest
  <2>1. PICK j \in gc.ids \intersect manifests :
          /\ manifests' = manifests \ {j} /\ torn' = torn \ {j}
          /\ gc.pc = "manifests" /\ UNCHANGED <<pc, target, stream, files, gc>>
    BY <1>1 DEF UnlinkManifest
  <2>2. \A k : ChunksOf(k)' = ChunksOf(k)
    BY <2>1 DEF ChunksOf
  <2>3. Points' = Points \ {j}
    BY <2>1, <2>2
  <2>4. QED
    BY <2>1, <2>2, <2>3
<1>2. CASE DeleteRows
  BY <1>2 DEF DeleteRows, ChunksOf, storeVars
<1>3. CASE ScanManifests
  <2>1. gc'.chunks = index \ UNION {ChunksOf(j) : j \in manifests \ torn}
    BY <1>3 DEF ScanManifests
  <2>2. /\ UNCHANGED <<manifests, torn, pc, target, stream, files>>
        /\ gc.pc = "scan" /\ gc'.pc = "chunks"
    BY <1>3 DEF ScanManifests, catalogVars, storeVars
  <2>3. \A j \in manifests \ torn : gc'.chunks \intersect ChunksOf(j) = {}
    BY <2>1
  <2>4. \A j \in Job : ChunksOf(j)' = ChunksOf(j)
    BY <2>2 DEF ChunksOf
  <2>5. QED
    BY <2>2, <2>3, <2>4
<1>4. CASE UnlinkChunk
  <2>1. PICK c \in gc.chunks : files' = files \ {c} /\ gc' = [gc EXCEPT !.chunks = @ \ {c}]
    BY <1>4 DEF UnlinkChunk
  <2>2. /\ UNCHANGED <<manifests, torn, pc, target, stream>>
        /\ gc.pc = "chunks" /\ gc'.pc = "chunks"
    BY <1>4 DEF UnlinkChunk, catalogVars
  <2>3. \A j \in Job : ChunksOf(j)' = ChunksOf(j)
    BY <2>2 DEF ChunksOf
  <2>4. \A j \in manifests \ torn : c \notin ChunksOf(j)
    BY <2>1, <2>2
  <2>5. gc'.chunks \subseteq gc.chunks
    BY <2>1
  <2>6. Points' = Points
    BY <2>1, <2>2, <2>3, <2>4
  <2>7. Condemned = {} /\ Condemned' = {}
    BY <2>2
  <2>8. PointInv'
    BY <2>2, <2>3, <2>5
  <2>9. QED
    BY <2>2, <2>6, <2>7, <2>8
<1>5. CASE EndDelete
  BY <1>5 DEF EndDelete, Idle, ChunksOf, catalogVars, storeVars
<1>6. QED
  BY <1>1, <1>2, <1>3, <1>4, <1>5 DEF DeleteStep

LEMMA PointCrash ==
    ASSUME TypeInv, PointInv, Crash \/ DeleteError
    PROVE  PointInv' /\ Points' = Points /\ Condemned' = {} /\ UNCHANGED target
<1> USE DEF TypeInv, TypeOK, PointInv, Published, Unreferenced, Points, Condemned, Complete,
            ChunksOf, Idle
<1>1. CASE Crash
  <2>1. /\ pc' = [k \in Job |-> IF pc[k] = "idle" THEN "idle" ELSE "done"]
        /\ gc'.pc = "idle" /\ UNCHANGED <<target, stream, files>>
    BY <1>1 DEF Crash
  <2>2. \A k : ChunksOf(k)' = ChunksOf(k)
    BY <2>1
  <2>3. CASE UNCHANGED <<manifests, torn>>
    <3>1. Points' = Points
      BY <2>1, <2>2, <2>3
    <3>2. QED
      BY <2>1, <2>3, <3>1
  <2>4. CASE \E j \in Job : /\ pc[j] = "manifest"
                           /\ manifests' = manifests \union {j} /\ torn' = torn \union {j}
    <3>1. PICK j \in Job : /\ pc[j] = "manifest"
                           /\ manifests' = manifests \union {j} /\ torn' = torn \union {j}
      BY <2>4
    <3>2. j \notin manifests
      BY <3>1
    <3>3. Points' = Points
      BY <2>1, <2>2, <3>1, <3>2
    <3>4. Published'
      BY <2>1, <3>1
    <3>5. QED
      BY <2>1, <3>3, <3>4
  <2>5. QED
    BY <1>1, <2>3, <2>4 DEF Crash
<1>2. CASE DeleteError
  BY <1>2 DEF DeleteError, catalogVars, uploadVars, storeVars
<1>3. QED
  BY <1>1, <1>2

LEMMA PointQuiet ==
    ASSUME TypeInv, PointInv, Progress \/ UNCHANGED vars
    PROVE  PointInv' /\ UNCHANGED <<Points, Condemned, target>>
BY DEF TypeInv, TypeOK, PointInv, Published, Unreferenced, Points, Condemned, Complete,
   ChunksOf, Progress, vars, catalogVars, uploadVars, storeVars

LEMMA PointBegin ==
    ASSUME TypeInv, PointInv, NEW v \in VM, BeginDelete(v)
    PROVE  /\ PointInv'
           /\ Condemned = {} /\ \A j \in Condemned' : target[j] = v
           /\ UNCHANGED <<Points, target>>
BY DEF TypeInv, TypeOK, PointInv, Published, Unreferenced, Points, Condemned, Complete,
   ChunksOf, BeginDelete, RowsOf, DbFree, catalogVars, uploadVars, storeVars

LEMMA PointStep ==
    ASSUME TypeInv, PointInv, "unreadable" \notin Faults, [Next]_vars
    PROVE  PointInv' /\ [Store!StoreNext]_(Store!storeVars)
<1> USE DEF Store!StoreNext, Store!storeVars
<1>1. ASSUME NEW j \in Job, NEW v \in VM, NEW s \in Streams, Start(j, v, s)
      PROVE  PointInv' /\ Store!Begin(j, v)
  <2>1. Points' = Points /\ Condemned' = Condemned
    BY <1>1, PointStart DEF Start, Condemned
  <2>2. target[j] = NoTarget /\ target' = [target EXCEPT ![j] = v]
    BY <1>1 DEF Start, Goto, TypeInv, Positions
  <2>3. QED
    BY <1>1, <2>1, <2>2, PointStart DEF Store!Begin
<1>2. ASSUME NEW j \in Job, ThreadStep(j)
      PROVE  PointInv' /\ Store!Gain
  BY <1>2, PointThread DEF Store!Gain, Condemned
<1>3. ASSUME NEW v \in VM, BeginDelete(v)
      PROVE  PointInv' /\ Store!Condemn(v)
  BY <1>3, PointBegin DEF Store!Condemn
<1>4. CASE DeleteStep
  BY <1>4, PointDelete DEF Store!Take, Store!Spare
<1>5. CASE Crash \/ DeleteError
  BY <1>5, PointCrash DEF Store!Spare
<1>6. CASE Progress \/ UNCHANGED vars
  BY <1>6, PointQuiet
<1>7. QED
  BY <1>1, <1>2, <1>3, <1>4, <1>5, <1>6 DEF Next, ThreadStep

LEMMA PointInit == Init => TypeInv /\ PointInv /\ Store!StoreInit
BY MaxErrorsAssumption DEF Init, CatalogInit, TypeInv, TypeOK, Positions, StorePc, Status, Idle,
   PointInv, Published, Unreferenced, Points, Condemned, Store!StoreInit

\* The store implements the promise, for every schedule and every crash: when every
\* whole manifest can be read, a recovery point leaves only by a deletion of its VM.
THEOREM KeepsPoints ==
    ASSUME "unreadable" \notin Faults
    PROVE  Spec => PointsArePromised
<1>1. Init => TypeInv /\ PointInv /\ Store!StoreInit
  BY PointInit
<1>2. TypeInv /\ PointInv /\ [Next]_vars => TypeInv' /\ PointInv'
  BY TypeStep, PointStep
<1>3. TypeInv /\ PointInv /\ [Next]_vars => [Store!StoreNext]_(Store!storeVars)
  BY PointStep
<1>4. QED
  BY <1>1, <1>2, <1>3, PTL DEF Spec, PointsArePromised, Store!StoreSpec

LEMMA StepKeeps ==
    ASSUME TypeInv, PointInv, "unreadable" \notin Faults, [Next]_vars
    PROVE  Kept
<1> USE DEF Kept
<1>1. ASSUME NEW j \in Job, NEW v \in VM, NEW s \in Streams, Start(j, v, s) PROVE Kept
  BY <1>1, PointStart
<1>2. ASSUME NEW j \in Job, ThreadStep(j) PROVE Kept
  BY <1>2, PointThread
<1>3. ASSUME NEW v \in VM, BeginDelete(v) PROVE Kept
  BY <1>3, PointBegin
<1>4. CASE DeleteStep
  <2>1. CASE UnlinkManifest
    BY <2>1 DEF UnlinkManifest, Points, Complete, ChunksOf, uploadVars
  <2>2. CASE ~UnlinkManifest
    <3>1. UNCHANGED manifests
      BY <1>4, <2>2 DEF DeleteStep, DeleteRows, ScanManifests, UnlinkChunk, EndDelete, catalogVars
    <3>2. Points' = Points \/ (gc.pc = "manifests" /\ gc'.pc = "manifests")
      BY <1>4, PointDelete DEF Condemned
    <3>3. ~(gc.pc = "manifests" /\ gc'.pc = "manifests")
      BY <1>4, <2>2 DEF DeleteStep, DeleteRows, ScanManifests, UnlinkChunk, EndDelete, TypeInv, TypeOK
    <3>4. QED
      BY <3>2, <3>3
  <2>3. QED
    BY <2>1, <2>2
<1>5. CASE Crash \/ DeleteError
  BY <1>5, PointCrash
<1>6. CASE Progress \/ UNCHANGED vars
  BY <1>6, PointQuiet
<1>7. QED
  BY <1>1, <1>2, <1>3, <1>4, <1>5, <1>6 DEF Next, ThreadStep

\* test_delete_vm_preserves_shared_chunks, for every schedule and every crash: when
\* every whole manifest can be read, a recovery point that is complete and is not
\* deleted stays complete.
THEOREM SettledSurvive ==
    ASSUME "unreadable" \notin Faults
    PROVE  Spec => SettledSurvives
<1>1. Init => TypeInv /\ PointInv
  BY PointInit
<1>2. TypeInv /\ PointInv /\ [Next]_vars => TypeInv' /\ PointInv'
  BY TypeStep, PointStep
<1>3. TypeInv /\ PointInv /\ [Next]_vars =>
        [\A j \in manifests \ torn :
            Complete(j) /\ j \in manifests' => Complete(j)' /\ j \notin torn']_vars
  BY StepKeeps DEF Kept, Points
<1>4. QED
  BY <1>1, <1>2, <1>3, PTL DEF Spec, SettledSurvives
------------------------------------------------------------------------------
(* Lost chunks *)

\* A deletion that unlinks chunks has noted every thread that stores, and a thread
\* no deletion has met still has on disk what it stored.
HeldInv ==
    /\ gc.pc = "chunks" => \A j \in Job : Storing(j) => j \in overlapped
    /\ \A j \in Job : Storing(j) /\ j \notin overlapped =>
          \A i \in 1..position[j] : stream[j][i] \in files
    /\ LossNeedsOverlap

\* A step that leaves the store alone and lets no thread begin to store.
LEMMA HeldFrame ==
    ASSUME HeldInv, UNCHANGED <<manifests, torn, stream, files, position, overlapped>>,
           \A k \in Job : Storing(k)' => Storing(k),
           gc'.pc = "chunks" => gc.pc = "chunks"
    PROVE  HeldInv'
BY DEF HeldInv, LossNeedsOverlap, Complete, ChunksOf

LEMMA HeldThread ==
    ASSUME TypeInv, HeldInv, NEW j \in Job, ThreadStep(j)
    PROVE  HeldInv'
<1> USE DEF TypeInv, TypeOK, Goto, storeVars, catalogVars
<1>1. CASE \E to \in {"replace", "index", "append", "check", "manifest", "fail"} :
             /\ pc[j] \in {"check", "index", "append", "replace"}
             /\ pc' = [pc EXCEPT ![j] = to]
             /\ UNCHANGED <<manifests, torn, stream, files, position, gc, overlapped>>
  BY <1>1, HeldFrame DEF Storing
<1>2. CASE CheckFile(j) \/ IndexChunk(j) \/ ExportError(j) \/ WriteError(j)
  BY <1>1, <1>2 DEF CheckFile, IndexChunk, ExportError, WriteError
<1>3. CASE AppendChunk(j)
  <2>1. CASE pc' = [pc EXCEPT ![j] = "fail"] /\ UNCHANGED position
    BY <1>1, <1>3, <2>1 DEF AppendChunk
  <2>2. CASE /\ pc[j] = "append" /\ Current(j) \in files
             /\ \E to \in {"check", "manifest"} : pc' = [pc EXCEPT ![j] = to]
             /\ position' = [position EXCEPT ![j] = @ + 1]
    <3>1. UNCHANGED <<manifests, torn, stream, files, gc, overlapped>>
      BY <1>3 DEF AppendChunk
    <3>2. Storing(j) /\ \A k \in Job : k # j => (Storing(k)' = Storing(k))
      BY <2>2 DEF Storing
    <3>3. ASSUME j \notin overlapped, NEW i \in 1..position'[j]
          PROVE  stream[j][i] \in files
      <4>1. i \in 1..position[j] \/ i = position[j] + 1
        BY <2>2
      <4>2. QED
        BY <2>2, <3>2, <3>3, <4>1 DEF HeldInv, Current
    <3>4. LossNeedsOverlap'
      BY <3>1 DEF HeldInv, LossNeedsOverlap, Complete, ChunksOf
    <3>5. QED
      BY <2>2, <3>1, <3>2, <3>3, <3>4 DEF HeldInv
  <2>3. QED
    BY <1>3, <2>1, <2>2 DEF AppendChunk, After
<1>4. CASE ReplaceFile(j)
  <2>1. /\ files \subseteq files' /\ UNCHANGED <<manifests, torn, stream, position, gc, overlapped>>
        /\ \A k \in Job : Storing(k)' => Storing(k)
    BY <1>4 DEF ReplaceFile, Storing
  <2>2. \A k : Complete(k) => Complete(k)'
    BY <2>1 DEF Complete, ChunksOf
  <2>3. LossNeedsOverlap'
    BY <2>1, <2>2 DEF HeldInv, LossNeedsOverlap
  <2>4. QED
    BY <2>1, <2>3 DEF HeldInv
<1>5. CASE PublishManifest(j) \/ PublishError(j)
  <2>1. /\ pc[j] = "manifest" /\ pc' \in {[pc EXCEPT ![j] = to] : to \in {"finish", "fail"}}
        /\ manifests' = manifests \union {j} /\ torn' \in {torn, torn \union {j}}
        /\ UNCHANGED <<stream, files, position, gc, overlapped>>
    BY <1>5 DEF PublishManifest, PublishError, WriteManifest
  <2>2. j \in overlapped \/ Complete(j)
    <3>1. position[j] = Len(stream[j]) /\ DOMAIN stream[j] = 1..Len(stream[j])
      BY <2>1 DEF Positions
    <3>2. QED
      BY <2>1, <3>1 DEF HeldInv, Storing, Complete, ChunksOf
  <2>3. \A k : Complete(k)' = Complete(k)
    BY <2>1 DEF Complete, ChunksOf
  <2>4. LossNeedsOverlap'
    BY <2>1, <2>2, <2>3 DEF HeldInv, LossNeedsOverlap
  <2>5. \A k \in Job : Storing(k)' => Storing(k)
    BY <2>1 DEF Storing
  <2>6. QED
    BY <2>1, <2>4, <2>5 DEF HeldInv
<1>6. CASE Finish(j) \/ Fail(j)
  <2>1. /\ UNCHANGED <<manifests, torn, stream, files, position, gc, overlapped>>
        /\ \A k \in Job : Storing(k)' => Storing(k)
    BY <1>6 DEF Finish, Fail, FinishRow, FailRow, SetStatus, Storing
  <2>2. QED
    BY <2>1, HeldFrame
<1>7. QED
  BY <1>2, <1>3, <1>4, <1>5, <1>6 DEF ThreadStep, Upload

LEMMA HeldDelete ==
    ASSUME TypeInv, PointInv, HeldInv, "unreadable" \notin Faults, DeleteStep
    PROVE  HeldInv'
<1> USE DEF TypeInv, TypeOK, uploadVars, storeVars, catalogVars
<1>1. CASE UnlinkManifest
  BY <1>1 DEF UnlinkManifest, HeldInv, Storing, LossNeedsOverlap, Complete, ChunksOf
<1>2. CASE DeleteRows \/ EndDelete
  BY <1>2, HeldFrame DEF DeleteRows, EndDelete, Idle, Storing
<1>3. CASE ScanManifests
  <2>1. /\ overlapped' = overlapped \union {k \in Job : Storing(k)}
        /\ UNCHANGED <<manifests, torn, pc, stream, files, position>>
    BY <1>3 DEF ScanManifests
  <2>2. QED
    BY <2>1 DEF HeldInv, Storing, LossNeedsOverlap, Complete, ChunksOf
<1>4. CASE UnlinkChunk
  <2>1. /\ UNCHANGED <<manifests, torn, pc, stream, position, overlapped>>
        /\ gc.pc = "chunks" /\ gc'.pc = "chunks" /\ files' \subseteq files
    BY <1>4 DEF UnlinkChunk
  <2>2. Points' = Points
    BY <1>4, <2>1, PointDelete DEF Condemned
  <2>3. LossNeedsOverlap'
    BY <2>1, <2>2 DEF HeldInv, LossNeedsOverlap, Points
  <2>4. \A k \in Job : Storing(k)' => k \in overlapped'
    BY <2>1 DEF HeldInv, Storing
  <2>5. QED
    BY <2>3, <2>4 DEF HeldInv
<1>5. QED
  BY <1>1, <1>2, <1>3, <1>4 DEF DeleteStep

LEMMA HeldStep ==
    ASSUME TypeInv, PointInv, HeldInv, "unreadable" \notin Faults, [Next]_vars
    PROVE  HeldInv'
<1>1. ASSUME NEW j \in Job, NEW v \in VM, NEW s \in Streams, Start(j, v, s)
      PROVE  HeldInv'
  <2>1. /\ pc[j] = "idle" /\ pc' = [pc EXCEPT ![j] = After(s, 0)]
        /\ stream' = [stream EXCEPT ![j] = s] /\ gc.pc = "idle"
        /\ UNCHANGED <<manifests, torn, files, position, gc, overlapped>>
    BY <1>1 DEF Start, Goto, CreateRow, storeVars, DbFree
  <2>2. j \notin manifests /\ position[j] = 0
    BY <2>1 DEF PointInv, Published, TypeInv, Positions
  <2>3. \A k \in manifests : Complete(k)' = Complete(k)
    BY <2>1, <2>2 DEF Complete, ChunksOf, TypeInv, TypeOK
  <2>4. \A k \in Job : k # j => stream'[k] = stream[k] /\ (Storing(k)' = Storing(k))
    BY <2>1 DEF Storing, TypeInv, TypeOK
  <2>5. QED
    BY <2>1, <2>2, <2>3, <2>4 DEF HeldInv, LossNeedsOverlap
<1>2. ASSUME NEW v \in VM, BeginDelete(v) PROVE HeldInv'
  BY <1>2, HeldFrame DEF BeginDelete, Storing, catalogVars, uploadVars, storeVars, TypeInv, TypeOK
<1>3. CASE Progress \/ DeleteError \/ UNCHANGED vars
  BY <1>3, HeldFrame DEF Progress, DeleteError, Idle, vars, Storing, catalogVars, uploadVars,
     storeVars
<1>4. CASE Crash
  <2>1. /\ pc' = [k \in Job |-> IF pc[k] = "idle" THEN "idle" ELSE "done"]
        /\ gc'.pc = "idle" /\ UNCHANGED <<stream, files, overlapped>>
        /\ manifests' \ torn' \subseteq manifests \ torn
    BY <1>4 DEF Crash, Idle
  <2>2. \A k : Complete(k)' = Complete(k)
    BY <2>1 DEF Complete, ChunksOf
  <2>3. \A k \in Job : ~Storing(k)'
    BY <2>1 DEF Storing
  <2>4. QED
    BY <2>1, <2>2, <2>3 DEF HeldInv, LossNeedsOverlap
<1>5. QED
  BY <1>1, <1>2, <1>3, <1>4, HeldThread, HeldDelete DEF Next, ThreadStep

\* A readable manifest whose chunks are gone is one of a backup that was storing
\* while a deletion looked for references, whatever crashed or broke off meanwhile.
THEOREM LossTraced ==
    ASSUME "unreadable" \notin Faults
    PROVE  Spec => []LossNeedsOverlap
<1>1. Init => TypeInv /\ PointInv
  BY PointInit
<1>2. Init => HeldInv
  BY DEF Init, CatalogInit, HeldInv, Storing, LossNeedsOverlap, Idle
<1>3. TypeInv /\ PointInv /\ [Next]_vars => TypeInv' /\ PointInv'
  BY TypeStep, PointStep
<1>4. TypeInv /\ PointInv /\ HeldInv /\ [Next]_vars => HeldInv'
  BY HeldStep
<1>5. HeldInv => LossNeedsOverlap
  BY DEF HeldInv
<1>6. QED
  BY <1>1, <1>2, <1>3, <1>4, <1>5, PTL DEF Spec
------------------------------------------------------------------------------
(* Torn manifests *)

\* Neither the catalog nor its last commit calls a backup a success before its
\* thread is over, and none with a torn manifest, whose thread can only fail.
TornInv ==
    \A j \in Job :
        /\ j \in torn => pc[j] \in {"fail", "done"}
        /\ pc[j] # "done" \/ j \in torn =>
              status[j] # "success" /\ durable.status[j] # "success"

LEMMA TornThread ==
    ASSUME TypeInv, TornInv, NEW j \in Job, ThreadStep(j)
    PROVE  TornInv'
<1> USE DEF TypeInv, TypeOK, TornInv, Goto, storeVars, catalogVars, Commit
<1>1. CASE CheckFile(j) \/ ReplaceFile(j) \/ IndexChunk(j) \/ ExportError(j) \/ WriteError(j)
  BY <1>1 DEF CheckFile, ReplaceFile, IndexChunk, ExportError, WriteError
<1>2. CASE AppendChunk(j)
  <2>1. PICK to \in {"check", "manifest", "fail"} : pc' = [pc EXCEPT ![j] = to]
    BY <1>2 DEF AppendChunk, After
  <2>2. UNCHANGED <<status, torn, durable>> /\ pc[j] = "append"
    BY <1>2 DEF AppendChunk
  <2>3. QED
    BY <2>1, <2>2
<1>3. CASE PublishManifest(j)
  BY <1>3 DEF PublishManifest, WriteManifest
<1>4. CASE PublishError(j)
  BY <1>4 DEF PublishError, WriteManifest
<1>7. CASE Finish(j)
  <2>1. UNCHANGED torn /\ pc[j] = "finish" /\ pc' = [pc EXCEPT ![j] = "done"]
    BY <1>7 DEF Finish
  <2>2. \A i \in Job : i # j => status'[i] = status[i]
    BY <1>7 DEF Finish, FinishRow, SetStatus
  <2>4. durable'.status = status'
    BY <1>7 DEF Finish
  <2>3. QED
    BY <2>1, <2>2, <2>4
<1>5. CASE Fail(j)
  BY <1>5 DEF Fail, FailRow, SetStatus
<1>6. QED
  BY <1>1, <1>2, <1>3, <1>4, <1>5, <1>7 DEF ThreadStep, Upload

LEMMA TornStep == TypeInv /\ TornInv /\ [Next]_vars => TornInv'
<1> SUFFICES ASSUME TypeInv, TornInv, [Next]_vars PROVE TornInv'
  OBVIOUS
<1> USE DEF TypeInv, TypeOK, TornInv, Commit
<1>1. ASSUME NEW j \in Job, NEW v \in VM, NEW s \in Streams, Start(j, v, s)
      PROVE  TornInv'
  BY <1>1 DEF Start, Goto, CreateRow, After, storeVars
<1>2. CASE DeleteStep
  <2>1. UNCHANGED pc /\ torn' \subseteq torn
    BY <1>2 DEF DeleteStep, UnlinkManifest, DeleteRows, ScanManifests, UnlinkChunk, EndDelete,
       uploadVars, storeVars
  <2>2. \A j \in Job : status'[j] \in {status[j], "absent"}
    BY <1>2 DEF DeleteStep, UnlinkManifest, DeleteRows, ScanManifests, UnlinkChunk, EndDelete,
       catalogVars
  <2>3. durable' = [status |-> status', index |-> index'] \/ durable' = durable
    BY <1>2 DEF DeleteStep, UnlinkManifest, DeleteRows, ScanManifests, UnlinkChunk, EndDelete
  <2>4. QED
    BY <2>1, <2>2, <2>3
<1>3. CASE Progress \/ DeleteError \/ (\E v \in VM : BeginDelete(v)) \/ UNCHANGED vars
  <2>1. UNCHANGED <<status, torn, pc>>
    BY <1>3 DEF Progress, DeleteError, BeginDelete, vars, uploadVars, storeVars, catalogVars
  <2>2. durable' = [status |-> status', index |-> index'] \/ durable' = durable
    BY <1>3 DEF Progress, DeleteError, BeginDelete, vars
  <2>3. QED
    BY <2>1, <2>2
<1>4. CASE Crash
  <2>1. status' = [j \in Job |-> IF durable.status[j] = "running" THEN "failed"
                                                               ELSE durable.status[j]]
    BY <1>4 DEF Crash
  <2>2. \A j \in Job : durable.status[j] # "success" =>
          status'[j] # "success" /\ durable'.status[j] # "success"
    BY <1>4, <2>1 DEF Crash
  <2>3. \A j \in Job : /\ j \in torn' => j \in torn \/ pc[j] = "manifest"
                       /\ pc'[j] = "done" \/ (pc[j] = "idle" /\ pc'[j] = "idle")
    BY <1>4 DEF Crash
  <2>4. \A j \in Job : j \in torn' => pc[j] # "idle"
    BY <2>3
  <2>5. QED
    BY <2>2, <2>3, <2>4
<1>5. QED
  BY <1>1, <1>2, <1>3, <1>4, TornThread DEF Next, ThreadStep

\* What delete_vm skips because it cannot be parsed was never a success.
THEOREM TornFails == Spec => []TornNeverOffered
<1>1. Init => TypeInv /\ TornInv
  BY MaxErrorsAssumption DEF Init, CatalogInit, TypeInv, TypeOK, Positions, StorePc, Status,
     Idle, TornInv
<1>2. TypeInv /\ TornInv => TornNeverOffered
  BY DEF TypeInv, TypeOK, TornInv, TornNeverOffered
<1>3. QED
  BY <1>1, <1>2, TypeStep, TornStep, PTL DEF Spec
=============================================================================
