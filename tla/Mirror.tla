------------------------------- MODULE Mirror --------------------------------
(***************************************************************************)
(* The two locations of BackupRepository: which one is active, what        *)
(* sync_mirror copies from it to the other, and the failover to the copy.  *)
(* A location is a drive or a share whose root goes when it is disconnected*)
(* and comes back with what was on it.  A backup is its row, its manifest  *)
(* and, for all its chunks, one member of `chunks`.  sync_mirror takes no  *)
(* lock that the backups take but for the copy of the catalog.             *)
(***************************************************************************)
EXTENDS Naturals, FiniteSets

CONSTANTS
    Job,
    MaxThreads, \* bound: waiting threads at which no policy is saved
    MaxEvents,  \* bound: drives that go or come, and restarts
    Faults      \* "unplug": a drive goes or comes while no mirror thread exists;
                \* "midsync": at any time; "copy": a copy raises;
                \* "restart": the service is restarted

ASSUME MirrorFaults == Faults \subseteq {"unplug", "midsync", "copy", "restart"}
ASSUME MirrorBounds == MaxThreads \in Nat /\ MaxEvents \in Nat

Root == {"primary", "secondary"}

\* What `self.db` may be open on besides the catalog of a location: a catalog in
\* memory, and a catalog whose file was replaced while it was open.
Catalogs == Root \union {"memory", "replaced"}

VARIABLES
    plugged,    \* the locations that are connected
    events,     \* the drives that have gone or come, and the restarts
    catalogs,   \* the locations that have a catalog.sqlite3
    rows,       \* catalog -> job -> status
    manifests,  \* location -> the jobs whose manifest is there
    chunks,     \* location -> the jobs all whose chunks are there
    root,       \* self.root
    db,         \* the catalog self.db is open on
    pc,         \* where the thread of each backup is
    threads,    \* mirror threads before the lock: without a target yet, or with one
    mirror,     \* where the thread that holds _mirror_lock is, and its target
    deleted,    \* history: the points a user deleted
    raced,      \* history: the backups that stored while a mirror thread ran, or
                \* across a failover
    outdated,   \* history: the points a mirror source did not list, and its target did
    asked       \* history: the points whose end started a mirror thread that no
                \* error has ended

driveVars == <<plugged, events>>
diskVars == <<rows, manifests, chunks, catalogs>>
activeVars == <<root, db>>
history == <<deleted, raced, outdated, asked>>
vars == <<driveVars, diskVars, activeVars, pc, threads, mirror, history>>

Status == {"absent", "running", "success", "failed"}

Other(r) == IF r = "primary" THEN "secondary" ELSE "primary"

Locked == mirror.pc # "idle"

NoThread == \A t \in DOMAIN threads : threads[t] = 0

Quiet == ~Locked /\ NoThread

\* sync_mirror_background: no thread while one holds the lock.
Background ==
    threads' = IF Locked THEN threads ELSE [threads EXCEPT !["new"] = @ + 1]

\* A point of location r that can be reconstructed from it.
Complete(r, b) == rows[r][b] = "success" /\ b \in manifests[r] /\ b \in chunks[r]

\* An UPDATE through self.db: a catalog without the row stays as it is.
UpdateRow(b, s) ==
    rows' = IF rows[db][b] = "absent" THEN rows ELSE [rows EXCEPT ![db][b] = s]

Storing(b) == pc[b] \in {"chunks", "manifest", "finish"}

Init ==
    /\ plugged = Root /\ events = 0
    /\ catalogs = {"primary"}
    /\ rows = [r \in Catalogs |-> [b \in Job |-> "absent"]]
    /\ manifests = [r \in Root |-> {}]
    /\ chunks = [r \in Root |-> {}]
    /\ root = "primary" /\ db = "primary"
    /\ pc = [b \in Job |-> "idle"]
    /\ threads = [t \in {"new"} \union Root |-> 0]
    /\ mirror = [pc |-> "idle", target |-> "none"]
    /\ deleted = {} /\ raced = {} /\ outdated = {} /\ asked = {}

------------------------------------------------------------------------------
(* The active repository *)

\* availability_error without an error: the directory and the catalog are there.
Usable == db # "memory" /\ root \in plugged /\ root \in catalogs

\* A statement of self.db succeeds.
Open == db = "memory" \/ root \in plugged

Goto(b, from, to) == pc[b] = from /\ pc' = [pc EXCEPT ![b] = to]

Race(b) == raced' = IF Locked THEN raced \union {b} ELSE raced

Start(b) ==
    /\ Usable
    /\ Goto(b, "idle", "chunks")
    /\ rows' = [rows EXCEPT ![db][b] = "running"] /\ Race(b)
    /\ UNCHANGED <<driveVars, manifests, chunks, catalogs, activeVars, threads, mirror,
                   deleted, outdated, asked>>

\* Its chunks go to self.chunks, wherever that is by now.
StoreChunks(b) ==
    /\ root \in plugged
    /\ Goto(b, "chunks", "manifest")
    /\ chunks' = [chunks EXCEPT ![root] = @ \union {b}] /\ Race(b)
    /\ UNCHANGED <<driveVars, rows, manifests, catalogs, activeVars, threads, mirror,
                   deleted, outdated, asked>>

WriteManifest(b) ==
    /\ root \in plugged
    /\ Goto(b, "manifest", "finish")
    /\ manifests' = [manifests EXCEPT ![root] = @ \union {b}] /\ Race(b)
    /\ UNCHANGED <<driveVars, rows, chunks, catalogs, activeVars, threads, mirror,
                   deleted, outdated, asked>>

\* Seeded bug: the end of a backup starts no mirror thread.
FinishUnmirrored(b) ==
    /\ Open
    /\ Goto(b, "finish", "done")
    /\ UpdateRow(b, "success") /\ Race(b)
    /\ asked' = asked \union {b}
    /\ UNCHANGED <<driveVars, manifests, chunks, catalogs, activeVars, threads, mirror,
                   deleted, outdated>>

\* finish, then sync_mirror_background.
Finish(b) ==
    /\ Open
    /\ Goto(b, "finish", "done")
    /\ UpdateRow(b, "success") /\ Race(b)
    /\ Background
    /\ asked' = IF Locked \/ rows[db][b] = "absent" THEN asked ELSE asked \union {b}
    /\ UNCHANGED <<driveVars, manifests, chunks, catalogs, activeVars, mirror, deleted,
                   outdated>>

\* Seeded bug: a status of its own for a backup that broke off.
FailUnknown(b) ==
    /\ Storing(b)
    /\ pc' = [pc EXCEPT ![b] = "done"]
    /\ UpdateRow(b, "error") /\ Race(b)
    /\ UNCHANGED <<driveVars, manifests, chunks, catalogs, activeVars, threads, mirror,
                   deleted, outdated, asked>>

\* Any write of the backup may raise, as it does on a drive that is gone; so may the
\* write of the failure.
Fail(b) ==
    /\ Storing(b)
    /\ pc' = [pc EXCEPT ![b] = "done"]
    /\ IF Open THEN UpdateRow(b, "failed") ELSE UNCHANGED rows
    /\ Race(b)
    /\ UNCHANGED <<driveVars, manifests, chunks, catalogs, activeVars, threads, mirror,
                   deleted, outdated, asked>>

\* delete_vm and the mirror request after it.
Delete(b) ==
    /\ Usable
    /\ rows[db][b] \in {"success", "failed"}
    /\ rows' = [rows EXCEPT ![db][b] = "absent"]
    /\ manifests' = [manifests EXCEPT ![root] = @ \ {b}]
    /\ chunks' = [chunks EXCEPT ![root] = @ \ {b}]
    /\ deleted' = deleted \union {b}
    /\ Background
    /\ UNCHANGED <<driveVars, catalogs, activeVars, pc, mirror, raced, outdated,
                   asked>>

\* A policy that is saved or deleted is mirrored too.
SavePolicy ==
    /\ Usable
    /\ threads["new"] + threads["primary"] + threads["secondary"] < MaxThreads
    /\ Background
    /\ UNCHANGED <<driveVars, diskVars, activeVars, pc, mirror, history>>

\* availability_error of any request, when the active location is not usable:
\* self.db and the paths move to the other one, if it has a catalog.
Failover ==
    /\ ~Usable
    /\ Other(root) \in plugged \intersect catalogs
    /\ root' = Other(root) /\ db' = Other(root)
    /\ raced' = raced \union {b \in Job : Storing(b)}
    /\ UNCHANGED <<driveVars, diskVars, pc, threads, mirror, deleted, outdated,
                   asked>>

------------------------------------------------------------------------------
(* sync_mirror *)

Release == mirror' = [pc |-> "idle", target |-> "none"]

\* The thread ends with mirror_error.
SyncFailed == Release /\ asked' = {}

\* The target is chosen before the lock is taken; one that is gone ends the thread.
SyncChoose ==
    /\ threads["new"] > 0
    /\ LET rest == [threads EXCEPT !["new"] = @ - 1]
       IN  IF Other(root) \in plugged
             THEN /\ threads' = [rest EXCEPT ![Other(root)] = @ + 1]
                  /\ UNCHANGED asked
             ELSE threads' = rest /\ asked' = {}
    /\ UNCHANGED <<driveVars, diskVars, activeVars, pc, mirror, deleted, raced, outdated>>

SyncBegin ==
    /\ ~Locked
    /\ \E t \in Root :
          /\ threads[t] > 0
          /\ threads' = [threads EXCEPT ![t] = @ - 1]
          /\ mirror' = [pc |-> "chunks", target |-> t]
          /\ outdated' = outdated \union
                 {b \in Job : rows[t][b] = "success" /\ rows[db][b] # "success"}
    /\ raced' = raced \union {b \in Job : Storing(b)}
    /\ UNCHANGED <<driveVars, diskVars, activeVars, pc, deleted, asked>>

SyncFault == mirror.target \notin plugged \/ "copy" \in Faults

\* What rglob finds in a folder of self.root: a folder that is not there has no
\* files, and is no error.
Sources(folder) == IF root \in plugged THEN folder[root] ELSE {}

\* Seeded bug: a copy that raises is logged, and the next folder is taken.
SyncChunksAnyway ==
    /\ mirror.pc = "chunks"
    /\ mirror' = [mirror EXCEPT !.pc = "manifests"]
    /\ \E copied \in SUBSET Sources(chunks) :
          chunks' = [chunks EXCEPT ![mirror.target] = @ \union copied]
    /\ UNCHANGED <<driveVars, rows, manifests, catalogs, activeVars, pc, threads, history>>

\* The chunk files of self.root that the target lacks; none are removed.  A copy
\* that raises ends the thread with some of them copied.
SyncChunks ==
    /\ mirror.pc = "chunks"
    /\ \/ /\ mirror.target \in plugged
          /\ mirror' = [mirror EXCEPT !.pc = "manifests"]
          /\ chunks' = [chunks EXCEPT ![mirror.target] = @ \union Sources(chunks)]
          /\ UNCHANGED asked
       \/ /\ SyncFault /\ SyncFailed
          /\ \E copied \in SUBSET (IF mirror.target \in plugged THEN Sources(chunks) ELSE {}) :
                chunks' = [chunks EXCEPT ![mirror.target] = @ \union copied]
    /\ UNCHANGED <<driveVars, rows, manifests, catalogs, activeVars, pc, threads, deleted,
                   raced, outdated>>

\* The manifests are copied, then those the source lacks are removed.  A copy that
\* raises leaves some copied, an unlink that raises some removed.
SyncManifests ==
    /\ mirror.pc = "manifests"
    /\ \/ /\ mirror.target \in plugged
          /\ mirror' = [mirror EXCEPT !.pc = "catalog"]
          /\ manifests' = [manifests EXCEPT ![mirror.target] = Sources(manifests)]
          /\ UNCHANGED asked
       \/ /\ SyncFault /\ SyncFailed
          /\ LET t == mirror.target
                 new == Sources(manifests) \ manifests[t]
                 old == manifests[t] \ Sources(manifests)
             IN  IF t \notin plugged THEN UNCHANGED manifests
                 ELSE \/ \E copied \in SUBSET new :
                           manifests' = [manifests EXCEPT ![t] = @ \union copied]
                      \/ \E gone \in SUBSET old :
                           manifests' = [manifests EXCEPT ![t] = (@ \union new) \ gone]
    /\ UNCHANGED <<driveVars, rows, chunks, catalogs, activeVars, pc, threads, deleted,
                   raced, outdated>>

\* The catalog is copied through self.db and takes the place of the target's.  When a
\* failover has made the target the active location, that file is open: Windows
\* refuses, elsewhere self.db keeps the file that has lost its name.
SyncCatalog ==
    /\ mirror.pc = "catalog"
    /\ \/ /\ Open /\ mirror.target \in plugged
          /\ Release
          /\ rows' = IF db = mirror.target
                       THEN [rows EXCEPT !["replaced"] = rows[db]]
                       ELSE [rows EXCEPT ![mirror.target] = rows[db]]
          /\ catalogs' = catalogs \union {mirror.target}
          /\ db' = IF db = mirror.target THEN "replaced" ELSE db
          /\ UNCHANGED asked
       \/ /\ ~Open \/ SyncFault \/ db = mirror.target
          /\ SyncFailed
          /\ UNCHANGED <<rows, catalogs, db>>
    /\ UNCHANGED <<driveVars, manifests, chunks, root, pc, threads, deleted, raced,
                   outdated>>

SyncStep == SyncChoose \/ SyncBegin \/ SyncChunks \/ SyncManifests \/ SyncCatalog

------------------------------------------------------------------------------
(* Drives and restarts *)

Plug ==
    /\ events < MaxEvents /\ events' = events + 1
    /\ "midsync" \in Faults \/ ("unplug" \in Faults /\ Quiet)
    /\ \E r \in Root : plugged' = IF r \in plugged THEN plugged \ {r}
                                                   ELSE plugged \union {r}
    /\ UNCHANGED <<diskVars, activeVars, pc, threads, mirror, history>>

\* _select_initial_root: the primary if it has a catalog, or a volume for one while
\* the secondary has none either.
InitialRoot ==
    LET Found(r) == r \in plugged \intersect catalogs
    IN  IF Found("secondary") /\ ~Found("primary") THEN "secondary" ELSE "primary"

\* A new process: the catalog it opens is created if need be, in memory when the
\* drive is gone, and its running rows become failed.
Restart ==
    /\ "restart" \in Faults
    /\ events < MaxEvents /\ events' = events + 1
    /\ root' = InitialRoot
    /\ db' = IF root' \in plugged THEN root' ELSE "memory"
    /\ catalogs' = catalogs \union (IF db' = "memory" THEN {} ELSE {db'})
    /\ rows' = [r \in Catalogs |-> [b \in Job |->
                    IF r \notin Root THEN "absent"
                    ELSE IF r = db' /\ rows[r][b] = "running" THEN "failed"
                    ELSE rows[r][b]]]
    /\ pc' = [b \in Job |-> IF pc[b] = "idle" THEN "idle" ELSE "done"]
    /\ threads' = [t \in DOMAIN threads |-> 0]
    /\ SyncFailed
    /\ UNCHANGED <<plugged, manifests, chunks, deleted, raced, outdated>>

JobStep(b) == StoreChunks(b) \/ WriteManifest(b) \/ Finish(b)

Next ==
    \/ \E b \in Job : Start(b) \/ JobStep(b) \/ Fail(b) \/ Delete(b)
    \/ SavePolicy
    \/ Failover
    \/ SyncStep
    \/ Plug
    \/ Restart

Spec == Init /\ [][Next]_vars

\* A mirror thread that exists runs on, and gets the lock when it is free.
FairSpec == Spec /\ WF_vars(SyncStep)

------------------------------------------------------------------------------

\* The type of every variable.
TypeOK ==
    /\ events \in 0..MaxEvents
    /\ plugged \subseteq Root /\ catalogs \subseteq Root
    /\ rows \in [Catalogs -> [Job -> Status]]
    /\ manifests \in [Root -> SUBSET Job] /\ chunks \in [Root -> SUBSET Job]
    /\ root \in Root /\ db \in Catalogs
    /\ pc \in [Job -> {"idle", "chunks", "manifest", "finish", "done"}]
    /\ threads \in [{"new"} \union Root -> Nat]
    /\ mirror \in [pc : {"idle", "chunks", "manifests", "catalog"},
                   target : Root \union {"none"}]
    /\ \A h \in {deleted, raced, outdated, asked} : h \subseteq Job

\* README.md:137 "mirrors chunks, manifests, OVA exports, and a consistent SQLite
\* catalog": a success in a catalog that cannot be reconstructed beside it was
\* deleted, was stored while a mirror thread ran or across a failover, or was missing
\* in the source of a mirror thread.  Copies that raise and restarts make no other.
GapHasCause ==
    ~Locked => \A r \in Root, b \in Job :
        rows[r][b] = "success" /\ ~Complete(r, b) => b \in raced \union deleted \union outdated

\* README.md:138 "after completed changes": a point whose end started a mirror
\* thread is a success at both locations in the end, unless it is deleted or the
\* thread ends with an error.
Mirrored ==
    \A b \in Job :
        b \in asked ~> \/ b \in deleted \/ b \notin asked
                       \/ \A r \in Root : rows[r][b] = "success"

\* README.md:142 "the next request can switch to the last completed mirror state":
\* a point the catalog of the other location lists, that nobody deleted, that every
\* mirror source listed, and whose backup met no mirror thread and no failover, is
\* complete there whenever no thread is at work.
MirrorStateKept ==
    ~Locked => \A b \in Job \ (raced \union deleted \union outdated) :
        rows[Other(root)][b] = "success" => Complete(Other(root), b)
=============================================================================
