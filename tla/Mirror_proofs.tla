--------------------------- MODULE Mirror_proofs ------------------------------
(***************************************************************************)
(* What the two locations of Mirror have of a backup, for any number of    *)
(* backups, mirror threads and drives that come and go between them:       *)
(* copies that raise and restarts make no gap.                             *)
(***************************************************************************)
EXTENDS Mirror, TLAPS

\* The backups whose gaps have no other cause.
Clean(b) == b \notin raced \union deleted \union outdated

\* The active catalog is that of the active location, or one in memory that no backup
\* has.  While a mirror thread exists the location is usable, and the thread copies to
\* the other one.
ActiveInv ==
    /\ db \in {root, "memory"}
    /\ db = root => root \in catalogs
    /\ db = "memory" => \A b \in Job : ~Storing(b)
    /\ ~Quiet => Usable
    /\ threads[root] = 0
    /\ mirror.target = IF Locked THEN Other(root) ELSE "none"

\* A clean backup has stored what its place says, and a success is complete.
Stored(b) ==
    /\ pc[b] \in {"manifest", "finish"} => b \in chunks[root]
    /\ pc[b] = "finish" => b \in manifests[root]
    /\ Locked => ~Storing(b)
    /\ \A r \in Root : rows[r][b] = "success" => Complete(r, b)

\* How far the mirror thread has come with a clean backup.
Copied(b) ==
    /\ rows[Other(root)][b] = "success" => rows[root][b] = "success"
    /\ mirror.pc \in {"manifests", "catalog"} /\ b \in chunks[root] => b \in chunks[Other(root)]
    /\ mirror.pc = "catalog" /\ b \in manifests[root] => b \in manifests[Other(root)]

BackupInv == \A b \in Job : Clean(b) => Stored(b) /\ (Locked => Copied(b))

MirrorInv == TypeOK /\ ActiveInv /\ BackupInv

------------------------------------------------------------------------------

LEMMA Roots ==
    /\ \A r \in Root : Other(r) \in Root /\ Other(r) # r /\ Other(Other(r)) = r
    /\ \A r \in Root, t \in Root : t # r => t = Other(r)
    /\ Root \subseteq Catalogs /\ "memory" \in Catalogs /\ "replaced" \in Catalogs
    /\ "memory" \notin Root /\ "replaced" \notin Root /\ "none" \notin Root
    /\ "new" \notin Root
BY DEF Root, Other, Catalogs

LEMMA MirrorInit == Init => MirrorInv
<1> SUFFICES ASSUME Init
             PROVE  MirrorInv
  OBVIOUS
<1> USE DEF Init
<1>1. TypeOK
  <2>1. rows \in [Catalogs -> [Job -> Status]]
    BY DEF Status
  <2>2. threads \in [{"new"} \union Root -> Nat] /\ events \in 0..MaxEvents
    BY MirrorBounds
  <2>3. mirror \in [pc : {"idle", "chunks", "manifests", "catalog"}, target : Root \union {"none"}]
    OBVIOUS
  <2>4. root \in Root /\ db \in Catalogs /\ catalogs \subseteq Root
    BY DEF Root, Catalogs
  <2> QED
    BY <2>1, <2>2, <2>3, <2>4 DEF TypeOK
<1>2. ActiveInv
  BY DEF ActiveInv, Storing, Quiet, Locked, NoThread, Root
<1>3. BackupInv
  BY Roots DEF BackupInv, Stored, Locked, Root
<1> QED
  BY <1>1, <1>2, <1>3 DEF MirrorInv

(* The types. *)

LEMMA TypeStep == TypeOK /\ [Next]_vars => TypeOK'
<1> SUFFICES ASSUME TypeOK, [Next]_vars
             PROVE  TypeOK'
  OBVIOUS
<1> USE MirrorBounds DEF driveVars, diskVars, activeVars, history
<1> DEFINE Threads == [{"new"} \union Root -> Nat]
           Mirrors == [pc : {"idle", "chunks", "manifests", "catalog"}, target : Root \union {"none"}]
           Rows == [Catalogs -> [Job -> Status]]
           Places == [Job -> {"idle", "chunks", "manifest", "finish", "done"}]
<1>1. ASSUME Background
      PROVE  threads' \in Threads
  BY <1>1 DEF Background, TypeOK
<1>2. ASSUME NEW b \in Job, NEW s \in Status, UpdateRow(b, s)
      PROVE  rows' \in Rows
  BY <1>2 DEF UpdateRow, TypeOK
<1>3. Release => mirror' \in Mirrors
  BY DEF Release
<1>4. ASSUME NEW b \in Job, \/ Start(b) \/ StoreChunks(b) \/ WriteManifest(b) \/ Finish(b)
                            \/ Fail(b) \/ Delete(b)
      PROVE  TypeOK'
  <2>1. pc' \in Places
    BY <1>4 DEF Start, StoreChunks, WriteManifest, Finish, Fail, Delete, Goto, TypeOK
  <2>2. rows' \in Rows
    <3>1. CASE Start(b) \/ Delete(b)
      <4>1. \A s \in Status : [rows EXCEPT ![db][b] = s] \in Rows
        BY DEF TypeOK
      <4>2. "running" \in Status /\ "absent" \in Status
        BY DEF Status
      <4> QED
        BY <3>1, <4>1, <4>2 DEF Start, Delete
    <3>2. CASE Finish(b) \/ Fail(b)
      <4>1. "success" \in Status /\ "failed" \in Status
        BY DEF Status
      <4> QED
        BY <1>2, <3>2, <4>1 DEF Finish, Fail, TypeOK
    <3> QED
      BY <1>4, <3>1, <3>2 DEF StoreChunks, WriteManifest, TypeOK
  <2>3. manifests' \in [Root -> SUBSET Job] /\ chunks' \in [Root -> SUBSET Job]
    <3>1. /\ [manifests EXCEPT ![root] = @ \union {b}] \in [Root -> SUBSET Job]
          /\ [manifests EXCEPT ![root] = @ \ {b}] \in [Root -> SUBSET Job]
          /\ [chunks EXCEPT ![root] = @ \union {b}] \in [Root -> SUBSET Job]
          /\ [chunks EXCEPT ![root] = @ \ {b}] \in [Root -> SUBSET Job]
      BY DEF TypeOK
    <3> QED
      BY <1>4, <3>1 DEF Start, StoreChunks, WriteManifest, Finish, Fail, Delete, TypeOK
  <2>4. threads' \in Threads
    BY <1>1, <1>4 DEF Start, StoreChunks, WriteManifest, Finish, Fail, Delete, TypeOK
  <2>5. raced' \subseteq Job /\ deleted' \subseteq Job /\ outdated' \subseteq Job /\ asked' \subseteq Job
    BY <1>4 DEF Start, StoreChunks, WriteManifest, Finish, Fail, Delete, Race, TypeOK
  <2>6. UNCHANGED <<events, plugged, catalogs, root, db, mirror>>
    BY <1>4 DEF Start, StoreChunks, WriteManifest, Finish, Fail, Delete
  <2> QED
    BY <2>1, <2>2, <2>3, <2>4, <2>5, <2>6 DEF TypeOK
<1>5. CASE SavePolicy
  BY <1>1, <1>5 DEF SavePolicy, TypeOK
<1>6. CASE Failover
  <2>1. Other(root) \in Root /\ Other(root) \in Catalogs
    BY Roots DEF TypeOK
  <2> QED
    BY <1>6, <2>1 DEF Failover, TypeOK
<1>7. CASE SyncChoose
  <2>1. threads' \in Threads
    <3>1. Other(root) \in Root /\ threads["new"] \in Nat /\ threads["new"] > 0
      BY <1>7, Roots DEF SyncChoose, TypeOK
    <3>2. [threads EXCEPT !["new"] = @ - 1] \in Threads
      BY <3>1 DEF TypeOK
    <3> QED
      BY <1>7, <3>1, <3>2 DEF SyncChoose
  <2> QED
    BY <1>7, <2>1 DEF SyncChoose, TypeOK
<1>8. CASE SyncBegin
  <2>1. PICK t \in Root :
          /\ threads[t] > 0
          /\ threads' = [threads EXCEPT ![t] = @ - 1]
          /\ mirror' = [pc |-> "chunks", target |-> t]
          /\ outdated' = outdated \union
                 {b \in Job : rows[t][b] = "success" /\ rows[db][b] # "success"}
    BY <1>8 DEF SyncBegin
  <2>2. threads' \in Threads /\ mirror' \in Mirrors
    BY <2>1 DEF TypeOK
  <2> QED
    BY <1>8, <2>1, <2>2 DEF SyncBegin, TypeOK
<1>9. CASE SyncChunks
  <2>1. Sources(chunks) \subseteq Job
    BY DEF Sources, TypeOK
  <2>2. chunks' \in [Root -> SUBSET Job]
    BY <1>9, <2>1 DEF SyncChunks, TypeOK
  <2>3. mirror' \in Mirrors /\ asked' \subseteq Job
    BY <1>3, <1>9 DEF SyncChunks, SyncFailed, TypeOK
  <2> QED
    BY <1>9, <2>2, <2>3 DEF SyncChunks, TypeOK
<1>10. CASE SyncManifests
  <2>1. Sources(manifests) \subseteq Job
    BY DEF Sources, TypeOK
  <2>2. manifests' \in [Root -> SUBSET Job]
    BY <1>10, <2>1 DEF SyncManifests, TypeOK
  <2>3. mirror' \in Mirrors /\ asked' \subseteq Job
    BY <1>3, <1>10 DEF SyncManifests, SyncFailed, TypeOK
  <2> QED
    BY <1>10, <2>2, <2>3 DEF SyncManifests, TypeOK
<1>11. CASE SyncCatalog
  <2>1. mirror' \in Mirrors /\ asked' \subseteq Job
    BY <1>3, <1>11 DEF SyncCatalog, SyncFailed, TypeOK
  <2>2. rows' \in Rows
    BY <1>11, Roots DEF SyncCatalog, TypeOK
  <2>3. db' \in Catalogs /\ catalogs' \subseteq Root
    <3>1. CASE mirror.target \in plugged
      BY <1>11, <3>1, Roots DEF SyncCatalog, TypeOK
    <3>2. CASE UNCHANGED <<catalogs, db>>
      BY <3>2 DEF TypeOK
    <3> QED
      BY <1>11, <3>1, <3>2 DEF SyncCatalog
  <2> QED
    BY <1>11, <2>1, <2>2, <2>3 DEF SyncCatalog, TypeOK
<1>12. CASE Plug
  BY <1>12 DEF Plug, TypeOK
<1>13. CASE Restart
  <2>1. root' \in Root
    BY <1>13 DEF Restart, InitialRoot, Root
  <2>2. db' \in {root', "memory"} /\ db' \in Catalogs
    BY <1>13, <2>1, Roots DEF Restart
  <2>3. catalogs' \subseteq Root
    BY <1>13, <2>1, <2>2 DEF Restart, TypeOK
  <2>4. rows' \in Rows
    <3>1. ASSUME NEW r \in Catalogs, NEW b \in Job
          PROVE  (IF r \notin Root THEN "absent"
                  ELSE IF r = db' /\ rows[r][b] = "running" THEN "failed" ELSE rows[r][b]) \in Status
      BY DEF TypeOK, Status
    <3>2. rows' = [r \in Catalogs |-> [b \in Job |->
                    IF r \notin Root THEN "absent"
                    ELSE IF r = db' /\ rows[r][b] = "running" THEN "failed" ELSE rows[r][b]]]
      BY <1>13 DEF Restart
    <3> QED
      BY <3>1, <3>2
  <2>5. pc' \in Places /\ threads' \in Threads
    BY <1>13 DEF Restart, TypeOK
  <2>6. mirror' \in Mirrors /\ asked' \subseteq Job
    BY <1>3, <1>13 DEF Restart, SyncFailed
  <2> QED
    BY <1>13, <2>1, <2>2, <2>3, <2>4, <2>5, <2>6 DEF Restart, TypeOK
<1>14. CASE UNCHANGED vars
  BY <1>14 DEF vars, TypeOK
<1> QED
  BY <1>4, <1>5, <1>6, <1>7, <1>8, <1>9, <1>10, <1>11, <1>12, <1>13, <1>14 DEF Next, JobStep, SyncStep

------------------------------------------------------------------------------

(* Quiet drives: none goes or comes while a mirror thread exists. *)

\* Two ways of an update of a row.
LEMMA RowUpdate ==
    ASSUME TypeOK, NEW b \in Job, NEW s \in Status, UpdateRow(b, s)
    PROVE  /\ rows' \in [Catalogs -> [Job -> Status]]
           /\ rows'[db][b] \in {"absent", s}
           /\ \A r \in Catalogs, c \in Job : r # db \/ c # b => rows'[r][c] = rows[r][c]
BY DEF UpdateRow, TypeOK

LEMMA BackgroundThreads ==
    ASSUME TypeOK, Background
    PROVE  \A t \in Root : threads'[t] = threads[t]
BY Roots DEF Background, TypeOK

\* A step of a mirror thread that leaves the lock as it was.
LEMMA KeptActive ==
    ASSUME ActiveInv, ~Quiet, threads'[root] = 0,
           UNCHANGED <<plugged, catalogs, root, db, mirror, pc>>
    PROVE  ActiveInv'
<1>1. Usable /\ Usable'
  BY DEF ActiveInv, Usable
<1>2. db' = root' /\ root' \in catalogs' /\ db' # "memory"
  BY <1>1 DEF ActiveInv, Usable
<1>3. threads'[root'] = 0
  OBVIOUS
<1>4. mirror'.target = IF Locked' THEN Other(root') ELSE "none"
  BY DEF ActiveInv, Locked
<1> QED
  BY <1>1, <1>2, <1>3, <1>4 DEF ActiveInv

LEMMA ActiveStep ==
    TypeOK /\ ActiveInv /\ [Next]_vars /\ "midsync" \notin Faults => ActiveInv'
<1> SUFFICES ASSUME TypeOK, ActiveInv, [Next]_vars, "midsync" \notin Faults
             PROVE  ActiveInv'
  OBVIOUS
<1> USE DEF driveVars, diskVars, activeVars, history
<1>1. root \in Root /\ Other(root) \in Root /\ Other(root) # root
  BY Roots DEF TypeOK
<1>2. ASSUME NEW b \in Job, Start(b) \/ StoreChunks(b) \/ WriteManifest(b) \/ Fail(b)
      PROVE  ActiveInv'
  <2>1. UNCHANGED <<plugged, catalogs, activeVars, threads, mirror>>
    BY <1>2 DEF Start, StoreChunks, WriteManifest, Fail
  <2>2. db = "memory" => \A c \in Job : ~Storing(c)'
    BY <1>2 DEF Start, StoreChunks, WriteManifest, Fail, Goto, Storing, Usable, ActiveInv, TypeOK
  <2> QED
    BY <2>1, <2>2 DEF ActiveInv, Quiet, Locked, NoThread, Usable
<1>3. ASSUME Background, Usable, UNCHANGED <<plugged, catalogs, activeVars, mirror, pc>>
      PROVE  ActiveInv'
  BY <1>1, <1>3, BackgroundThreads DEF ActiveInv, Usable, Locked, Storing
<1>4. ASSUME NEW b \in Job, Finish(b)
      PROVE  ActiveInv'
  <2>1. db = root
    BY <1>4 DEF Finish, Goto, Storing, ActiveInv
  <2>2. Usable
    BY <1>4, <2>1, Roots DEF Finish, Open, Usable, ActiveInv, TypeOK
  <2>3. UNCHANGED <<plugged, catalogs, activeVars, mirror>> /\ Background
    BY <1>4 DEF Finish
  <2> QED
    BY <1>1, <2>1, <2>2, <2>3, BackgroundThreads, Roots DEF ActiveInv, Usable, Locked
<1>5. ASSUME (\E b \in Job : Delete(b)) \/ SavePolicy
      PROVE  ActiveInv'
  BY <1>3, <1>5 DEF Delete, SavePolicy
<1>6. CASE Failover
  <2>1. Quiet
    BY <1>6 DEF Failover, ActiveInv
  <2>2. \A t \in DOMAIN threads : threads[t] = 0
    BY <2>1 DEF Quiet, NoThread
  <2>3. threads[Other(root)] = 0
    BY <1>1, <2>2 DEF TypeOK
  <2>4. root' = Other(root) /\ db' = Other(root) /\ UNCHANGED <<plugged, catalogs, threads, mirror>>
    BY <1>6 DEF Failover
  <2>5. ~Locked /\ mirror.target = "none"
    BY <2>1 DEF Quiet, ActiveInv
  <2>6. db' # "memory" /\ db' \in catalogs
    BY <1>1, <1>6, Roots DEF Failover
  <2> QED
    BY <2>1, <2>3, <2>4, <2>5, <2>6 DEF ActiveInv, Quiet, Locked, NoThread
<1>7. CASE SyncChoose
  <2>1. ~Quiet
    BY <1>7 DEF SyncChoose, Quiet, NoThread, TypeOK
  <2>2. threads'[root] = 0
    <3>1. threads[root] = 0 /\ root # "new" /\ threads \in [{"new"} \union Root -> Nat]
      BY <1>1, Roots DEF ActiveInv, TypeOK
    <3> DEFINE rest == [threads EXCEPT !["new"] = @ - 1]
    <3>2. rest[root] = 0 /\ DOMAIN rest = {"new"} \union Root
      BY <1>1, <3>1
    <3>3. [rest EXCEPT ![Other(root)] = @ + 1][root] = 0
      BY <1>1, <3>2
    <3>4. threads' \in {rest, [rest EXCEPT ![Other(root)] = @ + 1]}
      BY <1>7 DEF SyncChoose
    <3> QED
      BY <3>2, <3>3, <3>4
  <2>3. UNCHANGED <<plugged, catalogs, activeVars, mirror, pc>>
    BY <1>7 DEF SyncChoose
  <2> QED
    BY <2>1, <2>2, <2>3, KeptActive
<1>8. CASE SyncBegin
  <2>1. PICK t \in Root :
          /\ threads[t] > 0
          /\ threads' = [threads EXCEPT ![t] = @ - 1]
          /\ mirror' = [pc |-> "chunks", target |-> t]
    BY <1>8 DEF SyncBegin
  <2>2. ~Quiet /\ t = Other(root)
    <3>1. DOMAIN threads = {"new"} \union Root /\ threads[root] = 0 /\ threads[t] # 0
      BY <2>1 DEF ActiveInv, TypeOK
    <3>2. t \in DOMAIN threads /\ t # root
      BY <3>1
    <3> QED
      BY <1>1, <3>1, <3>2, Roots DEF Quiet, NoThread
  <2>3. threads'[root] = 0
    BY <1>1, <2>1, <2>2 DEF ActiveInv, TypeOK
  <2>4. UNCHANGED <<plugged, catalogs, activeVars, pc>>
    BY <1>8 DEF SyncBegin
  <2>5. mirror'.target = Other(root)
    BY <2>1, <2>2
  <2>6. db = root
    BY <2>2, Roots DEF ActiveInv, Usable
  <2>7. db' # "memory" /\ Usable /\ Usable' /\ root' \in catalogs'
    BY <2>2, <2>4 DEF ActiveInv, Usable
  <2>8. Locked' /\ root' = root /\ db' = root
    BY <2>1, <2>4, <2>6 DEF Locked
  <2> QED
    BY <2>3, <2>5, <2>7, <2>8 DEF ActiveInv
<1>9. CASE SyncChunks \/ SyncManifests \/ SyncCatalog
  <2>1. Usable /\ db = root /\ Locked /\ mirror.target = Other(root)
    BY <1>9 DEF SyncChunks, SyncManifests, SyncCatalog, ActiveInv, Quiet, Locked, Usable
  <2>2. UNCHANGED <<plugged, activeVars, threads, pc>> /\ catalogs \subseteq catalogs'
    BY <1>1, <1>9, <2>1 DEF SyncChunks, SyncManifests, SyncCatalog
  <2>3. mirror'.target = IF Locked' THEN Other(root) ELSE "none"
    BY <1>9, <2>1 DEF SyncChunks, SyncManifests, SyncCatalog, SyncFailed, Release, Locked, TypeOK
  <2> QED
    BY <2>1, <2>2, <2>3 DEF ActiveInv, Usable, Storing, Other
<1>10. CASE Plug
  <2>1. Quiet /\ UNCHANGED <<catalogs, activeVars, threads, mirror, pc>>
    BY <1>10 DEF Plug
  <2> QED
    BY <2>1 DEF ActiveInv, Quiet, Locked, NoThread, Storing, Other
<1>11. CASE Restart
  <2>1. root' \in Root /\ db' \in {root', "memory"} /\ (db' = root' => root' \in catalogs')
    BY <1>11, Roots DEF Restart, InitialRoot, Root
  <2>2. \A b \in Job : ~Storing(b)'
    BY <1>11 DEF Restart, Storing
  <2>3. mirror' = [pc |-> "idle", target |-> "none"] /\ threads' = [t \in DOMAIN threads |-> 0]
    BY <1>11 DEF Restart, SyncFailed, Release
  <2>4. Quiet' /\ ~Locked'
    BY <2>3 DEF Quiet, Locked, NoThread
  <2> QED
    BY <2>1, <2>2, <2>3, <2>4 DEF ActiveInv, TypeOK
<1>12. CASE UNCHANGED vars
  BY <1>12 DEF vars, ActiveInv, Quiet, Locked, NoThread, Usable, Storing
<1> QED
  BY <1>2, <1>4, <1>5, <1>6, <1>7, <1>8, <1>9, <1>10, <1>11, <1>12 DEF Next, JobStep, SyncStep

\* A step that changes nothing of a backup.
LEMMA BackupAside ==
    ASSUME TypeOK, BackupInv, NEW b \in Job, Clean(b)' => Clean(b),
           UNCHANGED <<root, mirror>>, pc'[b] = pc[b],
           \A r \in Root : /\ rows'[r][b] = rows[r][b]
                           /\ b \in chunks'[r] <=> b \in chunks[r]
                           /\ b \in manifests'[r] <=> b \in manifests[r]
    PROVE  Clean(b)' => Stored(b)' /\ (Locked' => Copied(b)')
<1>1. root \in Root /\ Other(root) \in Root /\ Other(root)' = Other(root)
  BY Roots DEF TypeOK, Other
<1> QED
  BY <1>1 DEF BackupInv, Stored, Copied, Storing, Complete, Locked

LEMMA BackupStep ==
    MirrorInv /\ [Next]_vars /\ "midsync" \notin Faults => BackupInv'
<1> SUFFICES ASSUME MirrorInv, [Next]_vars, "midsync" \notin Faults, NEW b \in Job
             PROVE  Clean(b)' => Stored(b)' /\ (Locked' => Copied(b)')
  BY DEF BackupInv
<1> USE DEF driveVars, diskVars, activeVars, history
<1>1. /\ TypeOK /\ BackupInv /\ (Clean(b) => Stored(b) /\ (Locked => Copied(b)))
      /\ root \in Root /\ Other(root) \in Root /\ Other(root) # root
      /\ \A r \in Root : r = root \/ r = Other(root)
  BY Roots DEF MirrorInv, BackupInv, TypeOK
<1>2. /\ Locked => db = root /\ root \in plugged /\ mirror.target = Other(root)
      /\ Storing(b) => db = root
      /\ Usable => db = root
  BY <1>1 DEF MirrorInv, ActiveInv, Quiet, Usable
<1>3. ASSUME NEW c \in Job, c # b, \/ Start(c) \/ StoreChunks(c) \/ WriteManifest(c) \/ Finish(c)
                                   \/ Fail(c) \/ Delete(c)
      PROVE  Clean(b)' => Stored(b)' /\ (Locked' => Copied(b)')
  <2>1. UNCHANGED <<root, mirror>> /\ (Clean(b)' => Clean(b))
    BY <1>3 DEF Start, StoreChunks, WriteManifest, Finish, Fail, Delete, Race, Clean
  <2>2. pc'[b] = pc[b]
    BY <1>1, <1>3 DEF Start, StoreChunks, WriteManifest, Finish, Fail, Delete, Goto, TypeOK
  <2>3. \A r \in Root : rows'[r][b] = rows[r][b]
    <3>1. CASE Start(c) \/ Delete(c)
      <4>1. rows' = [rows EXCEPT ![db][c] = rows'[db][c]]
        BY <1>1, <1>3, <3>1 DEF Start, Delete, TypeOK
      <4> QED
        BY <1>1, <1>3, <4>1, Roots DEF TypeOK
    <3>2. CASE Finish(c) \/ Fail(c)
      BY <1>1, <1>3, <3>2, Roots DEF Finish, Fail, UpdateRow, TypeOK
    <3> QED
      BY <1>3, <3>1, <3>2 DEF StoreChunks, WriteManifest
  <2>4. \A r \in Root : /\ b \in chunks'[r] <=> b \in chunks[r]
                        /\ b \in manifests'[r] <=> b \in manifests[r]
    BY <1>1, <1>3 DEF Start, StoreChunks, WriteManifest, Finish, Fail, Delete, TypeOK
  <2> QED
    BY <1>1, <2>1, <2>2, <2>3, <2>4, BackupAside
<1>4. ASSUME \/ Start(b) \/ StoreChunks(b) \/ WriteManifest(b) \/ Finish(b)
             \/ Fail(b) \/ Delete(b),
             Clean(b)'
      PROVE  Stored(b)' /\ (Locked' => Copied(b)')
  <2>1. ~Delete(b)
    BY <1>4 DEF Delete, Clean
  <2>2. ~Locked /\ UNCHANGED <<root, mirror>> /\ Clean(b)
    BY <1>4, <2>1 DEF Start, StoreChunks, WriteManifest, Finish, Fail, Race, Clean
  <2>3. ~Locked'
    BY <2>2 DEF Locked
  <2>4. Stored(b) /\ b \in Job
    BY <1>1, <2>2
  <2>5. CASE Start(b)
    BY <1>1, <1>2, <2>2, <2>3, <2>4, <2>5, Roots DEF Start, Goto, Stored, Complete, TypeOK
  <2>6. CASE StoreChunks(b)
    BY <1>1, <2>2, <2>3, <2>4, <2>6 DEF StoreChunks, Goto, Stored, Complete, TypeOK
  <2>7. CASE WriteManifest(b)
    BY <1>1, <2>2, <2>3, <2>4, <2>7 DEF WriteManifest, Goto, Stored, Complete, TypeOK
  <2>8. CASE Finish(b)
    <3>1. db = root /\ pc[b] = "finish" /\ pc'[b] = "done"
      BY <1>1, <1>2, <2>8 DEF Finish, Goto, Storing, TypeOK
    <3>2. UNCHANGED <<chunks, manifests>>
      BY <2>8 DEF Finish
    <3>3. \A r \in Root : r # root => rows'[r][b] = rows[r][b]
      BY <1>1, <2>8, <3>1, Roots DEF Finish, UpdateRow, TypeOK
    <3> QED
      BY <1>1, <2>2, <2>3, <2>4, <3>1, <3>2, <3>3 DEF Stored, Complete
  <2>9. CASE Fail(b)
    <3>1. db = root /\ pc'[b] = "done"
      BY <1>1, <1>2, <2>9 DEF Fail, TypeOK
    <3>2. UNCHANGED <<chunks, manifests>>
      BY <2>9 DEF Fail
    <3>3. \A r \in Root : rows'[r][b] = rows[r][b] \/ rows'[r][b] # "success"
      BY <1>1, <2>9, <3>1, Roots DEF Fail, UpdateRow, TypeOK
    <3> QED
      BY <1>1, <2>2, <2>3, <2>4, <3>1, <3>2, <3>3 DEF Stored, Complete
  <2> QED
    BY <1>4, <2>1, <2>5, <2>6, <2>7, <2>8, <2>9
<1>5. CASE SavePolicy \/ Plug \/ SyncChoose \/ UNCHANGED vars
  <2>1. UNCHANGED <<root, mirror, pc, rows, chunks, manifests, raced, deleted, outdated>>
    BY <1>5 DEF SavePolicy, Plug, SyncChoose, vars
  <2>2. Clean(b)' => Clean(b)
    BY <2>1 DEF Clean
  <2> QED
    BY <1>1, <2>1, <2>2, BackupAside
<1>6. ASSUME Failover, Clean(b)'
      PROVE  Stored(b)' /\ (Locked' => Copied(b)')
  <2>1. ~Locked /\ ~Locked'
    BY <1>6 DEF Failover, MirrorInv, ActiveInv, Quiet, Locked
  <2>2. ~Storing(b) /\ Clean(b) /\ UNCHANGED <<pc, rows, chunks, manifests>>
    BY <1>6 DEF Failover, Clean
  <2> QED
    BY <1>1, <2>1, <2>2 DEF Stored, Storing, Complete
<1>7. ASSUME SyncBegin, Clean(b)'
      PROVE  Stored(b)' /\ (Locked' => Copied(b)')
  <2>1. PICK t \in Root :
          /\ threads[t] > 0
          /\ mirror' = [pc |-> "chunks", target |-> t]
          /\ outdated' = outdated \union
                 {c \in Job : rows[t][c] = "success" /\ rows[db][c] # "success"}
    BY <1>7 DEF SyncBegin
  <2>2. ~Quiet /\ t = Other(root)
    BY <1>1, <2>1 DEF Quiet, NoThread, MirrorInv, ActiveInv, TypeOK
  <2>3. db = root
    BY <1>2, <2>2 DEF MirrorInv, ActiveInv
  <2>4. ~Storing(b) /\ Clean(b) /\ UNCHANGED <<pc, rows, chunks, manifests, root>>
    BY <1>7, <2>1 DEF SyncBegin, Clean
  <2>5. rows[Other(root)][b] = "success" => rows[root][b] = "success"
    BY <1>7, <2>1, <2>2, <2>3 DEF Clean
  <2> QED
    BY <1>1, <2>1, <2>4, <2>5 DEF Stored, Copied, Storing, Complete, Other
<1>8. ASSUME SyncChunks \/ SyncManifests \/ SyncCatalog, Clean(b)'
      PROVE  Stored(b)' /\ (Locked' => Copied(b)')
  <2> DEFINE t == Other(root)
  <2>1. /\ Locked /\ db = root /\ root \in plugged /\ mirror.target = t
        /\ UNCHANGED <<root, pc>> /\ Clean(b)
    BY <1>2, <1>8 DEF SyncChunks, SyncManifests, SyncCatalog, Locked, Clean
  <2>2. Stored(b) /\ Copied(b) /\ ~Storing(b)
    BY <1>1, <2>1 DEF Stored
  <2>3. ~Storing(b)' /\ pc'[b] \notin {"manifest", "finish"} /\ Other(root)' = t
    BY <2>1, <2>2 DEF Storing, Other
  <2>4. t \in Root /\ t # root /\ Sources(chunks) = chunks[root] /\ Sources(manifests) = manifests[root]
    BY <1>1, <2>1 DEF Sources
  <2> HIDE DEF t
  <2>5. CASE SyncChunks
    <3>1. /\ UNCHANGED <<rows, manifests>> /\ chunks'[root] = chunks[root]
          /\ chunks[t] \subseteq chunks'[t]
          /\ Locked' => mirror'.pc = "manifests" /\ chunks'[t] = chunks[t] \union chunks[root]
      BY <1>1, <2>1, <2>4, <2>5 DEF SyncChunks, SyncFailed, Release, Locked, TypeOK
    <3>2. \A r \in Root : rows'[r][b] = "success" => Complete(r, b)'
      BY <1>1, <2>2, <3>1 DEF Stored, Complete, t
    <3>3. Stored(b)'
      BY <2>3, <3>2 DEF Stored
    <3>4. Locked' => Copied(b)'
      BY <2>1, <2>2, <2>3, <3>1 DEF Copied, t
    <3> QED
      BY <3>3, <3>4
  <2>6. CASE SyncManifests
    <3>1. /\ UNCHANGED <<rows, chunks>> /\ manifests'[root] = manifests[root]
          /\ b \in manifests[t] /\ b \in manifests[root] => b \in manifests'[t]
          /\ Locked' => mirror'.pc = "catalog" /\ manifests'[t] = manifests[root]
      <4>1. CASE mirror'.pc = "catalog"
        BY <1>1, <2>1, <2>4, <2>6, <4>1 DEF SyncManifests, SyncFailed, Release, TypeOK
      <4>2. CASE mirror'.pc = "idle"
        <5> DEFINE old == manifests[t] \ manifests[root]
                   new == manifests[root] \ manifests[t]
                   Copying(copied) == manifests' = [manifests EXCEPT ![t] = @ \union copied]
                   Removing(gone) == manifests' = [manifests EXCEPT ![t] = (@ \union new) \ gone]
        <5>1. UNCHANGED <<rows, chunks>> /\ ~Locked'
          BY <2>6, <4>2 DEF SyncManifests, Locked
        <5>2. \/ UNCHANGED manifests
              \/ \E copied \in SUBSET new : Copying(copied)
              \/ \E gone \in SUBSET old : Removing(gone)
          <6>1. mirror' # [mirror EXCEPT !.pc = "catalog"]
            BY <1>1, <4>2 DEF TypeOK
          <6> QED
            BY <2>1, <2>4, <2>6, <6>1 DEF SyncManifests
        <5>3. manifests \in [Root -> SUBSET Job]
          BY <1>1 DEF TypeOK
        <5>4. ASSUME NEW copied \in SUBSET new, Copying(copied)
              PROVE  manifests'[root] = manifests[root] /\ manifests[t] \subseteq manifests'[t]
          BY <1>1, <2>4, <5>3, <5>4
        <5>5. ASSUME NEW gone \in SUBSET old, Removing(gone)
              PROVE  /\ manifests'[root] = manifests[root]
                     /\ b \in manifests[t] /\ b \in manifests[root] => b \in manifests'[t]
          BY <1>1, <2>4, <5>3, <5>5
        <5> QED
          BY <5>1, <5>2, <5>4, <5>5
      <4> QED
        BY <1>1, <2>6, <4>1, <4>2 DEF SyncManifests, SyncFailed, Release, TypeOK
    <3>2. rows[t][b] = "success" => b \in manifests[root] /\ b \in manifests[t]
      BY <1>1, <2>2, <2>4 DEF Stored, Copied, Complete, t
    <3>3. \A r \in Root : rows'[r][b] = "success" => Complete(r, b)'
      BY <1>1, <2>2, <3>1, <3>2 DEF Stored, Complete, t
    <3>4. Stored(b)'
      BY <2>3, <3>3 DEF Stored
    <3>5. Locked' /\ b \in chunks[root] => b \in chunks[t]
      BY <2>2, <2>6, <2>4 DEF Copied, SyncManifests, t
    <3>6. Locked' => Copied(b)'
      BY <2>1, <2>2, <2>3, <3>1, <3>5 DEF Copied, t
    <3> QED
      BY <3>4, <3>6
  <2>7. CASE SyncCatalog
    <3>1. ~Locked' /\ UNCHANGED <<chunks, manifests>>
      BY <2>7 DEF SyncCatalog, SyncFailed, Release, Locked
    <3>2. rows'[root] = rows[root] /\ rows'[t] \in {rows[t], rows[root]}
      BY <1>1, <2>1, <2>4, <2>7, Roots DEF SyncCatalog, TypeOK
    <3>3. rows[root][b] = "success" => b \in chunks[t] /\ b \in manifests[t]
      BY <1>1, <2>2, <2>7 DEF Stored, Copied, Complete, SyncCatalog, t
    <3>4. \A r \in Root : rows'[r][b] = "success" => Complete(r, b)'
      BY <1>1, <2>2, <3>1, <3>2, <3>3 DEF Stored, Complete, t
    <3> QED
      BY <2>3, <3>1, <3>4 DEF Stored
  <2> QED
    BY <1>8, <2>5, <2>6, <2>7
<1>9. ASSUME Restart, Clean(b)'
      PROVE  Stored(b)' /\ (Locked' => Copied(b)')
  <2>1. Clean(b) /\ UNCHANGED <<chunks, manifests>>
    BY <1>9 DEF Restart, Clean
  <2>2. ~Locked' /\ pc'[b] \in {"idle", "done"}
    BY <1>9 DEF Restart, SyncFailed, Release, Locked
  <2>3. \A r \in Root : rows'[r][b] = "success" => rows[r][b] = "success"
    BY <1>9, Roots DEF Restart
  <2> QED
    BY <1>1, <2>1, <2>2, <2>3 DEF Stored, Complete
<1> QED
  BY <1>3, <1>4, <1>5, <1>6, <1>7, <1>8, <1>9 DEF Next, JobStep, SyncStep

------------------------------------------------------------------------------

\* Every variable of the two locations keeps its type, whatever fails.
THEOREM TypeCorrect == Spec => []TypeOK
<1>1. Init => TypeOK
  BY MirrorInit DEF MirrorInv
<1>2. TypeOK /\ [Next]_vars => TypeOK'
  BY TypeStep
<1> QED
  BY <1>1, <1>2, PTL DEF Spec

\* When no drive goes or comes under a mirror thread, a gap of the copies was made by
\* a deletion, by a thread beside the backup or a failover across it, or by a source
\* that did not list the point (sync_mirror, failover, _select_initial_root): restarts
\* and copies that break off in the middle make none.
THEOREM GapTraced ==
    ASSUME "midsync" \notin Faults
    PROVE  Spec => []GapHasCause
<1>1. Init => MirrorInv
  BY MirrorInit
<1>2. MirrorInv /\ [Next]_vars => MirrorInv'
  BY TypeStep, ActiveStep, BackupStep DEF MirrorInv
<1>3. MirrorInv => GapHasCause
  BY DEF MirrorInv, BackupInv, Clean, Stored, GapHasCause
<1> QED
  BY <1>1, <1>2, <1>3, PTL DEF Spec
=============================================================================
