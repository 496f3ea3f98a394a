------------------------------ MODULE Monitoring ------------------------------
(***************************************************************************)
(* What the web interface tells its user: the failed backups that were not *)
(* acknowledged yet, by the time kept in the configuration, and the state  *)
(* of the storage refresh that runs behind a response.  Both live in the   *)
(* memory of the process, next to rows and files that outlive it.          *)
(***************************************************************************)
EXTENDS MediaHealth, FiniteSets

CONSTANTS
    Job,        \* backup ids
    Request,    \* threads of the route handlers and of their background tasks
    Newest,     \* how many rows a notice is made from (web.py:375)
    MaxTime,    \* bound: the events that read the clock
    Faults      \* "host": the inventory cannot be read; "save": a write raises;
                \* "page": a page raises before its response is made

ASSUME MonitoringFaults == Faults \subseteq {"host", "save", "page"}
ASSUME MonitoringBounds == Newest \in Nat /\ MaxTime \in Nat

VARIABLES
    now,            \* the clock, which no two events read alike
    status,         \* backups.status
    started,        \* backups.started_at
    finished,       \* backups.finished_at
    thread,         \* the thread of each backup; "stamped" has read the clock for its row
    stamp,          \* what it has read
    acknowledged,   \* service.config.failed_jobs_acknowledged_at, 0 for None
    file,           \* the same in config.toml
    refresh,        \* storage_refresh["status"]
    request,        \* what each thread is doing
    fresh,          \* history: an inventory was saved since the last refresh was queued
    lost,           \* history: a page lost the refresh it had queued
    dismissed,      \* history: failures that were recorded when a user acknowledged
    raced,          \* history: those that had read the clock and were not recorded
    contended       \* history: updates of the configuration overlapped or were cut off

rowVars == <<status, started, finished, thread, stamp>>
configVars == <<acknowledged, file, contended>>
refreshVars == <<refresh, fresh, lost>>
seenVars == <<dismissed, raced>>
vars == <<now, rowVars, configVars, refreshVars, request, seenVars>>

Time == 0..MaxTime

Idle == [pc |-> "idle", form |-> FALSE, value |-> 0, seen |-> {}, missed |-> {}]

RefreshPc == {"respond", "queued", "collect", "settle"}

Refreshing == {r \in Request : request[r].pc \in RefreshPc}
Updating == {r \in Request : request[r].pc \in {"write", "assign"}}

Goto(r, pc) == request' = [request EXCEPT ![r].pc = pc]
Return(r) == request' = [request EXCEPT ![r] = Idle]

\* datetime.now
ReadClock == now < MaxTime /\ now' = now + 1

Init ==
    /\ now = 0
    /\ status = [j \in Job |-> "absent"]
    /\ started = [j \in Job |-> 0] /\ finished = [j \in Job |-> 0]
    /\ thread = [j \in Job |-> "idle"] /\ stamp = [j \in Job |-> 0]
    /\ acknowledged = 0 /\ file = 0 /\ contended = FALSE
    /\ refresh = "idle" /\ fresh = FALSE /\ lost = FALSE
    /\ request = [r \in Request |-> Idle]
    /\ dismissed = {} /\ raced = {}

------------------------------------------------------------------------------
(* The rows *)

Begin(j) ==
    /\ thread[j] = "idle"
    /\ ReadClock
    /\ status' = [status EXCEPT ![j] = "running"]
    /\ started' = [started EXCEPT ![j] = now']
    /\ thread' = [thread EXCEPT ![j] = "running"]
    /\ UNCHANGED <<finished, stamp, configVars, refreshVars, request, seenVars>>

\* finish and fail read the clock under `_db_lock`, which an acknowledgement does not
\* take.
Stamp(j) ==
    /\ thread[j] = "running"
    /\ ReadClock
    /\ thread' = [thread EXCEPT ![j] = "stamped"]
    /\ stamp' = [stamp EXCEPT ![j] = now']
    /\ UNCHANGED <<status, started, finished, configVars, refreshVars, request, seenVars>>

\* The UPDATE and its commit: it replaces what a new service made of the row.
Record(j) ==
    /\ thread[j] = "stamped"
    /\ \E s \in {"success", "failed"} : status' = [status EXCEPT ![j] = s]
    /\ finished' = [finished EXCEPT ![j] = stamp[j]]
    /\ thread' = [thread EXCEPT ![j] = "over"]
    /\ UNCHANGED <<now, started, stamp, configVars, refreshVars, request, seenVars>>

\* _migrate, on every start and for every new service.
Interrupt ==
    LET running == {j \in Job : status[j] = "running"}
    IN  /\ status' = [j \in Job |-> IF j \in running THEN "failed" ELSE status[j]]
        /\ finished' = [j \in Job |-> IF j \in running THEN now' ELSE finished[j]]

\* The newest rows of the catalog.
Listed ==
    {j \in Job : /\ status[j] # "absent"
                 /\ Cardinality({i \in Job : started[i] > started[j]}) < Newest}

\* unacknowledged_failures over the newest rows: what api_notifications counts.
Unacknowledged ==
    {j \in Listed : status[j] = "failed" /\ (acknowledged = 0 \/ finished[j] > acknowledged)}

------------------------------------------------------------------------------
(* The configuration: read, save_config, assignment *)

\* A failure is told from a later one of the same backup by its time.
Failures == {<<j, finished[j]>> : j \in {i \in Job : status[i] = "failed"}}
Unlisted == {<<j, stamp[j]>> : j \in {i \in Job : thread[i] = "stamped"}}

Update(r, form, value) ==
    /\ request[r] = Idle
    /\ request' = [request EXCEPT ![r] =
                      [pc |-> "write", form |-> form, value |-> value,
                       seen |-> Failures, missed |-> Unlisted]]
    /\ contended' = (contended \/ Updating # {})
    /\ UNCHANGED <<rowVars, acknowledged, file, refreshVars, seenVars>>

\* acknowledge_task_errors: a copy of the configuration with the time of this moment.
Acknowledge(r) == ReadClock /\ Update(r, FALSE, now')

\* Seeded bug: the form leaves the time out.
UpdateSettingsAfresh(r) == UNCHANGED now /\ Update(r, TRUE, 0)

\* update_settings keeps the time it has read.
UpdateSettings(r) == UNCHANGED now /\ Update(r, TRUE, acknowledged)

Write(r) ==
    /\ request[r].pc = "write"
    /\ \/ file' = request[r].value /\ Goto(r, "assign")
       \/ "save" \in Faults /\ Return(r) /\ UNCHANGED file
    /\ UNCHANGED <<now, rowVars, acknowledged, contended, refreshVars, seenVars>>

Assign(r) ==
    /\ request[r].pc = "assign" /\ ~request[r].form
    /\ acknowledged' = request[r].value
    /\ dismissed' = dismissed \union request[r].seen
    /\ raced' = raced \union request[r].missed
    /\ Return(r)
    /\ UNCHANGED <<now, rowVars, file, contended, refreshVars>>

\* The new service has the configuration of the form, and opens the catalog; it is not
\* assigned when that raises.
Replace(r) ==
    /\ request[r].pc = "assign" /\ request[r].form
    /\ \/ ReadClock /\ Interrupt /\ acknowledged' = request[r].value
       \/ "save" \in Faults /\ UNCHANGED <<now, status, finished, acknowledged>>
    /\ Return(r)
    /\ UNCHANGED <<started, thread, stamp, file, contended, refreshVars, seenVars>>

------------------------------------------------------------------------------
(* The storage refresh *)

\* Seeded bug: a refresh that runs does not refuse the next one.
QueueAnyway(r) ==
    /\ request[r] = Idle
    /\ refresh # "queued"
    /\ refresh' = "queued" /\ fresh' = FALSE
    /\ request' = [request EXCEPT ![r].pc = "respond"]
    /\ UNCHANGED <<now, rowVars, configVars, lost, seenVars>>

\* queue_storage_refresh: the test and the flag are one step under the lock; the task
\* is added to the response.
Queue(r) ==
    /\ request[r] = Idle
    /\ refresh \notin {"queued", "running"}
    /\ refresh' = "queued" /\ fresh' = FALSE
    /\ request' = [request EXCEPT ![r].pc = "respond"]
    /\ UNCHANGED <<now, rowVars, configVars, lost, seenVars>>

\* Background tasks begin when the response is out.  A page that raises takes its
\* tasks with it.
Respond(r) ==
    /\ request[r].pc = "respond"
    /\ \/ Goto(r, "queued") /\ UNCHANGED lost
       \/ "page" \in Faults /\ Return(r) /\ lost' = TRUE
    /\ UNCHANGED <<now, rowVars, configVars, refresh, fresh, seenVars>>

RunRefresh(r) ==
    /\ request[r].pc = "queued"
    /\ refresh' = "running"
    /\ Goto(r, "collect")
    /\ UNCHANGED <<now, rowVars, configVars, fresh, lost, seenVars>>

\* Seeded bug: only the errors of the host are caught.
CollectUncaught(r) ==
    /\ request[r].pc = "collect"
    /\ \/ Goto(r, "settle") /\ fresh' = TRUE /\ UNCHANGED refresh
       \/ "host" \in Faults /\ Return(r) /\ refresh' = "failed" /\ UNCHANGED fresh
       \/ "save" \in Faults /\ Return(r) /\ UNCHANGED <<refresh, fresh>>
    /\ UNCHANGED <<now, rowVars, configVars, lost, seenVars>>

\* refresh_storage_inventory: the inventory of the host is read and its row committed,
\* or either raises.
Collect(r) ==
    /\ request[r].pc = "collect"
    /\ \/ Goto(r, "settle") /\ fresh' = TRUE /\ UNCHANGED refresh
       \/ Faults \intersect {"host", "save"} # {} /\ Return(r) /\ refresh' = "failed"
          /\ UNCHANGED fresh
    /\ UNCHANGED <<now, rowVars, configVars, lost, seenVars>>

\* Seeded bug: a status the page does not know.
SettleDone(r) ==
    /\ request[r].pc = "settle"
    /\ refresh' = "done"
    /\ Return(r)
    /\ UNCHANGED <<now, rowVars, configVars, fresh, lost, seenVars>>

Settle(r) ==
    /\ request[r].pc = "settle"
    /\ refresh' = "success"
    /\ Return(r)
    /\ UNCHANGED <<now, rowVars, configVars, fresh, lost, seenVars>>

------------------------------------------------------------------------------

\* A new process: the rows and the file are all that is left.
Restart ==
    /\ ReadClock
    /\ Interrupt
    /\ thread' = [j \in Job |-> IF thread[j] = "idle" THEN "idle" ELSE "over"]
    /\ acknowledged' = file
    /\ contended' = (contended \/ Updating # {})
    /\ refresh' = "idle" /\ fresh' = FALSE /\ lost' = FALSE
    /\ request' = [r \in Request |-> Idle]
    /\ UNCHANGED <<started, stamp, file, seenVars>>

RefreshStep(r) == Respond(r) \/ RunRefresh(r) \/ Collect(r) \/ Settle(r)

Next ==
    \/ \E j \in Job : Begin(j) \/ Stamp(j) \/ Record(j)
    \/ \E r \in Request :
          \/ Acknowledge(r) \/ UpdateSettings(r) \/ Write(r) \/ Assign(r) \/ Replace(r)
          \/ Queue(r) \/ RefreshStep(r)
    \/ Restart

Spec == Init /\ [][Next]_vars

\* A response goes out, and the host answers a request for its inventory.
FairSpec == Spec /\ \A r \in Request : WF_vars(RefreshStep(r))

------------------------------------------------------------------------------

Failure == Job \X Time

\* The type of every variable.
TypeOK ==
    /\ now \in Time /\ acknowledged \in Time /\ file \in Time
    /\ status \in [Job -> {"absent", "running", "success", "failed"}]
    /\ thread \in [Job -> {"idle", "running", "stamped", "over"}]
    /\ \A times \in {started, finished, stamp} : times \in [Job -> Time]
    /\ refresh \in {"idle", "queued", "running", "failed", "success"}
    /\ request \in [Request -> [pc : {"idle", "write", "assign"} \union RefreshPc,
                                form : BOOLEAN, value : Time,
                                seen : SUBSET Failure, missed : SUBSET Failure]]
    /\ dismissed \subseteq Failure /\ raced \subseteq Failure
    /\ {fresh, lost, contended} \subseteq BOOLEAN

\* test_task_failure_notification_can_be_acknowledged: a failure that was recorded when
\* a user acknowledged is not brought up again, by a restart, new settings or the rows
\* around it; and of the newest rows no other failure is kept quiet, but one that had
\* read the clock and was not committed.  Left out are updates that overlapped.
NoticesFollowUsers ==
    ~contended =>
        \A j \in Listed : status[j] = "failed" =>
            /\ j \in Unacknowledged => <<j, finished[j]>> \notin dismissed
            /\ j \notin Unacknowledged => <<j, finished[j]>> \in dismissed \union raced

\* Of all requests and restarts one refresh is on its way at a time, and the state
\* that is shown is its state: it is the one to settle it, with an inventory that was
\* saved since.
RefreshIsOne ==
    /\ Cardinality(Refreshing) <= 1
    /\ Refreshing # {} => refresh \in {"queued", "running"}
    /\ refresh \in {"queued", "running"} => Refreshing # {} \/ lost
    /\ refresh = "success" => fresh

\* esxi.py:81 walks a set, and the caps, the penalties and the two scales come in
\* between: in an inventory that was saved a device that reports no less damage than
\* another never has the better label, in whatever order either was walked.  So two
\* processes give one device one label, although its score and its notes may differ.
LabelFollowsDamage == fresh => DamageShows

\* A refresh that was queued ends, and the next one may begin, unless the page that
\* queued it failed: that one stays queued until the next start.
RefreshEnds == refresh \in {"queued", "running"} ~> refresh \notin {"queued", "running"} \/ lost
=============================================================================
