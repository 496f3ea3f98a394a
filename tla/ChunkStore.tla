----------------------------- MODULE ChunkStore ------------------------------
(***************************************************************************)
(* The content-addressed store of BackupRepository: store_stream in every  *)
(* backup thread, the manifests, the chunk index on the shared SQLite      *)
(* connection, and delete_vm, which reclaims chunks no manifest refers to. *)
(* `_write_lock` serializes the writes of chunk files, `_db_lock` the      *)
(* operations on the catalog; delete_vm holds the second one throughout,   *)
(* and never takes the first.                                              *)
(***************************************************************************)
EXTENDS Catalog, Naturals, Sequences

CONSTANTS
    Chunk,      \* contents, which is to say SHA-256 digests
    Streams,    \* the exports a backup may read, as sequences of chunks
    NoJob,
    Faults,     \* "crash"; "unreadable": a manifest delete_vm cannot read;
                \* "unlink": a file delete_vm cannot remove
    MaxErrors   \* bound: how many deletions may break off

ASSUME StreamsAssumption == Streams \subseteq Seq(Chunk)
ASSUME NoJobAssumption == NoJob \notin Job
ASSUME StoreFaultsAssumption == Faults \subseteq {"crash", "unreadable", "unlink"}
ASSUME MaxErrorsAssumption == MaxErrors \in Nat

VARIABLES
    pc,             \* where the thread of each backup is
    target,         \* the VM it backs up
    stream,         \* what it reads
    position,       \* how many chunks it has consumed
    files,          \* the chunk files on disk
    index,          \* the rows of chunk_index
    torn,           \* the manifests that were cut off while they were written
    durable,        \* the catalog as of the last commit
    write_lock,     \* the job that holds _write_lock
    gc,             \* the delete_vm in progress, which holds _db_lock
    overlapped      \* history: the backups that were storing while chunks went

uploadVars == <<pc, target, stream, position>>
storeVars == <<files, index, torn>>
vars == <<catalogVars, uploadVars, storeVars, durable, write_lock, gc, overlapped>>

\* No deletion in progress, after n that broke off.
Idle(n) == [pc |-> "idle", ids |-> {}, chunks |-> {}, errors |-> n]

StorePc == {"idle", "check", "replace", "index", "append", "manifest", "finish",
            "fail", "done"}

Storing(j) == pc[j] \in {"check", "replace", "index", "append", "manifest"}

DbFree == gc.pc = "idle"

ChunksOf(j) == {stream[j][i] : i \in DOMAIN stream[j]}

Current(j) == stream[j][position[j] + 1]

\* Every synchronized operation of the catalog ends in a commit, and with it go
\* the index rows other threads have pending on the same connection.
Commit == durable' = [status |-> status', index |-> index']

Goto(j, from, to) ==
    /\ pc[j] = from
    /\ pc' = [pc EXCEPT ![j] = to]

Init ==
    /\ CatalogInit
    /\ pc = [j \in Job |-> "idle"]
    /\ target = [j \in Job |-> NoTarget]
    /\ stream = [j \in Job |-> <<>>]
    /\ position = [j \in Job |-> 0]
    /\ files = {}
    /\ index = {}
    /\ torn = {}
    /\ durable = [status |-> status, index |-> {}]
    /\ write_lock = NoJob
    /\ gc = Idle(0)
    /\ overlapped = {}

------------------------------------------------------------------------------
(* The backup thread *)

\* The step after consuming n chunks: the next one, or the manifest.
After(s, n) == IF n < Len(s) THEN "check" ELSE "manifest"

Start(j, v, s) ==
    /\ DbFree
    /\ Goto(j, "idle", After(s, 0))
    /\ CreateRow(j)
    /\ target' = [target EXCEPT ![j] = v]
    /\ stream' = [stream EXCEPT ![j] = s]
    /\ UNCHANGED <<position, storeVars, write_lock, gc, overlapped>>
    /\ Commit

\* Seeded bug: the file is looked for before the lock is taken.
CheckFileUnlocked(j) ==
    /\ Goto(j, "check", IF Current(j) \in files THEN "index" ELSE "replace")
    /\ UNCHANGED <<catalogVars, target, stream, position, storeVars, durable, write_lock,
                   gc, overlapped>>

\* consume: take _write_lock and look for the file.
CheckFile(j) ==
    /\ write_lock = NoJob
    /\ write_lock' = j
    /\ Goto(j, "check", IF Current(j) \in files THEN "index" ELSE "replace")
    /\ UNCHANGED <<catalogVars, target, stream, position, storeVars, durable, gc, overlapped>>

\* The compressed chunk is renamed to its final name.
ReplaceFile(j) ==
    /\ Goto(j, "replace", "index")
    /\ files' = files \union {Current(j)}
    /\ UNCHANGED <<catalogVars, target, stream, position, index, torn, durable,
                   write_lock, gc, overlapped>>

\* Seeded bug: a full volume raises past the release of the lock.
WriteErrorHolding(j) ==
    /\ Goto(j, "replace", "fail")
    /\ UNCHANGED <<catalogVars, target, stream, position, storeVars, durable, write_lock,
                   gc, overlapped>>

\* Writing or renaming the temporary file raises, a full volume for instance.
WriteError(j) ==
    /\ Goto(j, "replace", "fail")
    /\ write_lock' = NoJob
    /\ UNCHANGED <<catalogVars, target, stream, position, storeVars, durable, gc, overlapped>>

\* Under both locks: the size of the file is read and its row inserted, without a
\* commit; a file that is gone raises, and both locks are released either way.
IndexChunk(j) ==
    /\ DbFree
    /\ write_lock' = NoJob
    /\ \/ /\ Goto(j, "index", "append")
          /\ Current(j) \in files
          /\ index' = index \union {Current(j)}
       \/ /\ Goto(j, "index", "fail")
          /\ Current(j) \notin files
          /\ UNCHANGED index
    /\ UNCHANGED <<catalogVars, target, stream, position, files, torn, durable, gc, overlapped>>

\* The size is read again for the manifest entry, outside both locks.
AppendChunk(j) ==
    /\ \/ /\ Goto(j, "append", After(stream[j], position[j] + 1))
          /\ Current(j) \in files
          /\ position' = [position EXCEPT ![j] = @ + 1]
       \/ /\ Goto(j, "append", "fail")
          /\ Current(j) \notin files
          /\ UNCHANGED position
    /\ UNCHANGED <<catalogVars, target, stream, storeVars, durable, write_lock, gc,
                   overlapped>>

PublishManifest(j) ==
    /\ DbFree
    /\ Goto(j, "manifest", "finish")
    /\ WriteManifest(j)
    /\ UNCHANGED <<target, stream, position, storeVars, write_lock, gc, overlapped>>
    /\ Commit

\* Seeded bug: a manifest that could not be written ends in a success all the same.
PublishErrorIgnored(j) ==
    /\ DbFree
    /\ Goto(j, "manifest", "finish")
    /\ WriteManifest(j)
    /\ torn' = torn \union {j}
    /\ UNCHANGED <<target, stream, position, files, index, durable, write_lock, gc, overlapped>>

\* write_text has opened the file and raises: a part of the document is there.
PublishError(j) ==
    /\ DbFree
    /\ Goto(j, "manifest", "fail")
    /\ WriteManifest(j)
    /\ torn' = torn \union {j}
    /\ UNCHANGED <<target, stream, position, files, index, durable, write_lock, gc, overlapped>>

Finish(j) ==
    /\ DbFree
    /\ Goto(j, "finish", "done")
    /\ FinishRow(j)
    /\ UNCHANGED <<target, stream, position, storeVars, write_lock, gc, overlapped>>
    /\ Commit

\* Seeded bug: a status the catalog does not have.
FailUnknown(j) ==
    /\ DbFree
    /\ Goto(j, "fail", "done")
    /\ SetStatus(j, "interrupted")
    /\ UNCHANGED <<target, stream, position, storeVars, write_lock, gc, overlapped>>
    /\ Commit

Fail(j) ==
    /\ DbFree
    /\ Goto(j, "fail", "done")
    /\ FailRow(j)
    /\ UNCHANGED <<target, stream, position, storeVars, write_lock, gc, overlapped>>
    /\ Commit

Upload(j) ==
    \/ CheckFile(j) \/ ReplaceFile(j) \/ IndexChunk(j) \/ AppendChunk(j)
    \/ PublishManifest(j) \/ Finish(j) \/ Fail(j)

\* The export breaks between two chunks.
ExportError(j) ==
    /\ Goto(j, "check", "fail")
    /\ UNCHANGED <<catalogVars, target, stream, position, storeVars, durable, write_lock,
                   gc, overlapped>>

\* update_progress of any job.
Progress ==
    /\ DbFree
    /\ UNCHANGED <<catalogVars, uploadVars, storeVars, write_lock, gc, overlapped>>
    /\ Commit

------------------------------------------------------------------------------
(* delete_vm *)

RowsOf(v) == {j \in Job : target[j] = v /\ status[j] # "absent"}

BeginDelete(v) ==
    /\ DbFree
    /\ RowsOf(v) # {}
    /\ \A j \in RowsOf(v) : status[j] # "running"
    /\ gc' = [gc EXCEPT !.pc = "manifests", !.ids = RowsOf(v)]
    /\ UNCHANGED <<catalogVars, uploadVars, storeVars, durable, write_lock, overlapped>>

UnlinkManifest ==
    /\ gc.pc = "manifests"
    /\ \E j \in gc.ids \intersect manifests :
          /\ manifests' = manifests \ {j}
          /\ torn' = torn \ {j}
    /\ UNCHANGED <<status, uploadVars, files, index, durable, write_lock, gc, overlapped>>

\* The rows go once every manifest is unlinked.  They are committed here when a
\* schedule policy names the VM, for save_schedule_policy commits.
DeleteRows ==
    /\ gc.pc = "manifests" /\ gc.ids \intersect manifests = {}
    /\ status' = [j \in Job |-> IF j \in gc.ids THEN "absent" ELSE status[j]]
    /\ gc' = [gc EXCEPT !.pc = "scan"]
    /\ UNCHANGED <<manifests, uploadVars, storeVars, write_lock, overlapped>>
    /\ Commit \/ UNCHANGED durable

\* Seeded bugs: only the manifests of rows that are a success already count; the
\* chunks of the deleted backups are taken without a look at the others.
ScanSuccesses ==
    /\ gc.pc = "scan"
    /\ gc' = [gc EXCEPT !.pc = "chunks",
                 !.chunks = index \ UNION {ChunksOf(j) :
                                j \in {i \in manifests : status[i] = "success"}}]
    /\ overlapped' = overlapped \union {j \in Job : Storing(j)}
    /\ UNCHANGED <<catalogVars, uploadVars, storeVars, durable, write_lock>>
ScanNothing ==
    /\ gc.pc = "scan"
    /\ gc' = [gc EXCEPT !.pc = "chunks",
                 !.chunks = index \intersect UNION {ChunksOf(j) : j \in gc.ids}]
    /\ overlapped' = overlapped \union {j \in Job : Storing(j)}
    /\ UNCHANGED <<catalogVars, uploadVars, storeVars, durable, write_lock>>

\* Every remaining manifest is read, and one that cannot be parsed, or read, is
\* skipped; the indexed chunks none of the others refers to are to go.
ScanManifests ==
    /\ gc.pc = "scan"
    /\ \E read \in SUBSET (manifests \ torn) :
          /\ "unreadable" \in Faults \/ read = manifests \ torn
          /\ gc' = [gc EXCEPT !.pc = "chunks",
                        !.chunks = index \ UNION {ChunksOf(j) : j \in read}]
    /\ overlapped' = overlapped \union {j \in Job : Storing(j)}
    /\ UNCHANGED <<catalogVars, uploadVars, storeVars, durable, write_lock>>

UnlinkChunk ==
    /\ gc.pc = "chunks"
    /\ \E c \in gc.chunks :
          /\ files' = files \ {c}
          /\ index' = index \ {c}
          /\ gc' = [gc EXCEPT !.chunks = @ \ {c}]
    /\ UNCHANGED <<catalogVars, uploadVars, torn, durable, write_lock, overlapped>>

EndDelete ==
    /\ gc.pc = "chunks" /\ gc.chunks = {}
    /\ gc' = Idle(gc.errors)
    /\ UNCHANGED <<catalogVars, uploadVars, storeVars, write_lock, overlapped>>
    /\ Commit

\* An unlink that raises leaves delete_vm where it is.  Nothing is rolled back: the
\* statements so far are committed by the next operation of the catalog.
DeleteError ==
    /\ "unlink" \in Faults
    /\ gc.pc \in {"manifests", "chunks"} /\ gc.errors < MaxErrors
    /\ gc' = Idle(gc.errors + 1)
    /\ UNCHANGED <<catalogVars, uploadVars, storeVars, durable, write_lock, overlapped>>

DeleteStep == UnlinkManifest \/ DeleteRows \/ ScanManifests \/ UnlinkChunk \/ EndDelete

------------------------------------------------------------------------------

\* The process dies: what was not committed is lost, what was done to files is
\* not, a manifest that was being written is cut off, and the next start marks the
\* running rows as failed.
Crash ==
    /\ "crash" \in Faults
    /\ \/ UNCHANGED <<manifests, torn>>
       \/ \E j \in Job :
            /\ DbFree /\ pc[j] = "manifest"
            /\ manifests' = manifests \union {j}
            /\ torn' = torn \union {j}
    /\ status' = [j \in Job |-> IF durable.status[j] = "running" THEN "failed"
                                                               ELSE durable.status[j]]
    /\ index' = durable.index
    /\ durable' = [status |-> status', index |-> index']
    /\ pc' = [j \in Job |-> IF pc[j] = "idle" THEN "idle" ELSE "done"]
    /\ write_lock' = NoJob
    /\ gc' = Idle(gc.errors)
    /\ UNCHANGED <<target, stream, position, files, overlapped>>

Next ==
    \/ \E j \in Job, v \in VM, s \in Streams : Start(j, v, s)
    \/ \E j \in Job : Upload(j) \/ ExportError(j) \/ WriteError(j) \/ PublishError(j)
    \/ \E v \in VM : BeginDelete(v)
    \/ DeleteStep \/ DeleteError
    \/ Progress
    \/ Crash

Spec == Init /\ [][Next]_vars

\* Every thread runs, and so does delete_vm once it has begun.  Weak fairness is
\* enough: a lock that stays free is taken, and both are given back.
FairSpec == Spec /\ WF_vars(DeleteStep) /\ \A j \in Job : WF_vars(Upload(j))

------------------------------------------------------------------------------

\* The type of every variable.
TypeOK ==
    /\ status \in [Job -> Status]
    /\ manifests \subseteq Job
    /\ pc \in [Job -> StorePc]
    /\ target \in [Job -> VM \union {NoTarget}]
    /\ stream \in [Job -> Seq(Chunk)]
    /\ position \in [Job -> Nat]
    /\ files \subseteq Chunk
    /\ index \subseteq Chunk
    /\ torn \subseteq manifests
    /\ durable \in [status : [Job -> Status], index : SUBSET Chunk]
    /\ write_lock \in Job \union {NoJob}
    /\ gc \in [pc : {"idle", "manifests", "scan", "chunks"}, ids : SUBSET Job,
               chunks : SUBSET Chunk, errors : 0..MaxErrors]
    /\ overlapped \subseteq Job

Complete(j) == ChunksOf(j) \subseteq files

\* docs/architecture.md:31 "manifests and chunks contain everything necessary for
\* reconstruction": a manifest on disk that can be read refers to chunks on disk.
Recoverable == \A j \in manifests \ torn : Complete(j)

\* The only way to a recovery point with missing chunks is a delete_vm that looked
\* for references while the backup had stored chunks and not yet its manifest.
LossNeedsOverlap == \A j \in manifests \ torn : ~Complete(j) => j \in overlapped

\* repository.py:777 skips a manifest it cannot parse and takes its chunks.  No
\* crash and no failed write makes that a loss: such a manifest is never the one of
\* a backup the catalog calls a success.
TornNeverOffered == \A j \in torn : status[j] # "success"

\* test_delete_vm_preserves_shared_chunks: nothing that happens to a repository
\* takes a chunk from a recovery point that is complete and stays.
SettledSurvives ==
    [][\A j \in manifests \ torn :
          Complete(j) /\ j \in manifests' => Complete(j)' /\ j \notin torn']_vars

\* A recovery point is a manifest that can be read with all its chunks; a deletion
\* threatens those of its own VM, while it unlinks manifests.
Points == {j \in manifests \ torn : Complete(j)}
Condemned == IF gc.pc = "manifests" THEN gc.ids ELSE {}

Store == INSTANCE PointStore WITH points <- Points, condemned <- Condemned,
             owner <- target

\* Chunks, index rows, locks and the files of the shared store come down to a set
\* of recovery points from which only a deletion of the VM itself takes any away.
PointsArePromised == Store!StoreSpec

\* operations.md:16 "stored_bytes is the new physical data written by a run": no job
\* writes, and counts, a chunk that is already on disk.
StoredOnce ==
    [][\A j \in Job : pc[j] = "replace" /\ pc'[j] = "index" => Current(j) \notin files]_vars

\* A backup that started is over in the end: the two locks never block one another.
UploadEnds == \A j \in Job : pc[j] = "check" ~> pc[j] = "done"
=============================================================================
