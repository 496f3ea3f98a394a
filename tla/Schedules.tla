----------------------------- MODULE Schedules ------------------------------
(***************************************************************************)
(* BackupScheduler: the definitions in the catalog, the timers APScheduler *)
(* holds in memory for them, the requests that change both in several      *)
(* steps, the policies that run, and the exclusions of the configuration   *)
(* they look at.  A definition is a named policy or the schedule of one VM *)
(* (`apply`); a schedule that is migrated becomes the policy of its VM.    *)
(***************************************************************************)
EXTENDS Naturals, FiniteSets

CONSTANTS
    Policy,         \* ids of named policies
    VM,
    Request,        \* threads of the route handlers
    MaxRequests,    \* bound: requests that are served, deletions among them
    MaxRestarts,    \* bound: restarts and replacements of the service
    Faults          \* "save": a write of the catalog or the configuration raises;
                    \* "replace": the service of new settings cannot be made

ASSUME SchedulesFaults == Faults \subseteq {"save", "replace"}
ASSUME SchedulesBounds == MaxRequests \in Nat /\ MaxRestarts \in Nat
ASSUME SchedulesIds == Policy \intersect VM = {}

\* The ids of the timers: "schedule:<id>", and "vm-backup:<vm>".
PolicyKey == {"schedule"} \X (Policy \union VM)
VmKey == {"vm-backup"} \X VM
Key == PolicyKey \union VmKey

\* What a definition says: whether its frequency is not "disabled", and its VMs.
NoRow == [on |-> FALSE, vms |-> {"none"}]
Definition(k) ==
    IF k \in VmKey THEN [on : BOOLEAN, vms : {{k[2]}}]
                   ELSE [on : BOOLEAN, vms : SUBSET VM]

VARIABLES
    rows,       \* the tables schedule_policies and schedules
    timers,     \* the VMs in the arguments of a timer, none if there is no timer
    up,         \* the scheduler has not been shut down
    request,    \* what each thread is doing
    runs,       \* the VMs each policy that runs has still to back up
    config,     \* service.config.excluded_vm_ids
    file,       \* the same in config.toml
    oldRuns,    \* runs on a service that was replaced
    oldConfig,  \* the exclusions of that service
    served,     \* the requests and deletions that have begun
    restarts,   \* the restarts and replacements
    hurt,       \* history: keys of requests that overlapped or failed
    removed,    \* history: VMs that were deleted from the repository
    unresumed,  \* history: keys of schedules that were on at a start
    contended,  \* history: updates of the configuration overlapped or were cut off
    wanted,     \* history: the VMs users excluded
    breach,     \* history: VMs a policy backed up while they were excluded, by service
    unseen      \* history: VMs excluded while a policy ran on a replaced service

timerVars == <<rows, timers, up, hurt, removed, unresumed>>
runVars == <<runs, oldRuns, oldConfig, breach>>
configVars == <<config, file, contended, wanted, unseen>>
boundVars == <<served, restarts>>
vars == <<timerVars, request, runVars, configVars, boundVars>>

Idle == [pc |-> "idle"]

\* The timer a definition calls for: none if it is disabled or empty.
Armed(k) == IF rows[k] # NoRow /\ rows[k].on THEN rows[k].vms ELSE {}

PolicyPc == {"remove", "save", "add"}

Busy(k) == \E r \in Request : request[r].pc \in PolicyPc /\ request[r].key = k

Updating == {r \in Request : request[r].pc \in {"write", "assign"}}

Goto(r, pc) == request' = [request EXCEPT ![r].pc = pc]
Return(r) == request' = [request EXCEPT ![r] = Idle]

Init ==
    /\ rows = [k \in Key |-> NoRow]
    /\ timers = [k \in Key |-> {}]
    /\ request = [r \in Request |-> Idle]
    /\ runs = [k \in Key |-> {}] /\ oldRuns = [k \in Key |-> {}]
    /\ config = {} /\ file = {} /\ up = TRUE
    /\ served = 0 /\ restarts = 0
    /\ hurt = {} /\ removed = {} /\ unresumed = {}
    /\ contended = FALSE /\ wanted = {} /\ oldConfig = {}
    /\ breach = {} /\ unseen = {}

Serve(r) == request[r] = Idle /\ served < MaxRequests /\ served' = served + 1

------------------------------------------------------------------------------
(* apply, apply_policy and delete_policy *)

\* The lookup of the timer, with which each of them begins.
Lookup(r, k, op, value) ==
    /\ Serve(r)
    /\ request' = [request EXCEPT ![r] =
                      [pc |-> IF timers[k] = {} THEN "save" ELSE "remove",
                       op |-> op, key |-> k, value |-> value, live |-> TRUE]]
    /\ hurt' = IF Busy(k) THEN hurt \union {k} ELSE hurt
    /\ UNCHANGED <<rows, timers, up, removed, unresumed, runVars, configVars, restarts>>

Apply(r) == \E k \in Key : \E value \in Definition(k) : Lookup(r, k, "apply", value)

DeletePolicy(r) == \E k \in PolicyKey : Lookup(r, k, "delete", NoRow)

\* Seeded bug: the timer is left to be replaced.
RemoveNothing(r) ==
    /\ request[r].pc = "remove"
    /\ Goto(r, "save")
    /\ UNCHANGED <<timerVars, runVars, configVars, boundVars>>

\* Seeded bug: the thread stays where it is.
RemoveStays(r) ==
    /\ request[r].pc = "remove"
    /\ Goto(r, "removed")
    /\ timers' = [timers EXCEPT ![request[r].key] = {}]
    /\ UNCHANGED <<rows, up, hurt, removed, unresumed, runVars, configVars, boundVars>>

\* remove_job raises if the timer is gone, or was one of a scheduler that has been
\* shut down; nothing is saved then.
Remove(r) ==
    LET k == request[r].key
    IN  /\ request[r].pc = "remove"
        /\ IF request[r].live /\ timers[k] # {}
             THEN /\ timers' = [timers EXCEPT ![k] = {}]
                  /\ Goto(r, "save") /\ UNCHANGED hurt
             ELSE /\ Return(r) /\ hurt' = hurt \union {k}
                  /\ UNCHANGED timers
        /\ UNCHANGED <<rows, up, removed, unresumed, runVars, configVars, boundVars>>

\* save_schedule, save_schedule_policy or delete_schedule_policy; a definition that is
\* disabled or empty gets no timer.
Save(r) ==
    LET k == request[r].key
        value == request[r].value
    IN  /\ request[r].pc = "save"
        /\ \/ /\ rows' = [rows EXCEPT ![k] = value]
              /\ IF request[r].op = "apply" /\ value.on /\ value.vms # {}
                   THEN Goto(r, "add") ELSE Return(r)
              /\ UNCHANGED hurt
           \/ /\ "save" \in Faults
              /\ Return(r) /\ hurt' = hurt \union {k}
              /\ UNCHANGED rows
        /\ UNCHANGED <<timers, up, removed, unresumed, runVars, configVars, boundVars>>

\* add_job; one that is added to a scheduler that has been shut down never fires.
AddTimer(r) ==
    LET k == request[r].key
    IN  /\ request[r].pc = "add"
        /\ Return(r)
        /\ IF request[r].live
             THEN /\ timers' = [timers EXCEPT ![k] = request[r].value.vms]
                  /\ unresumed' = unresumed \ {k}
             ELSE UNCHANGED <<timers, unresumed>>
        /\ UNCHANGED <<rows, up, hurt, removed, runVars, configVars, boundVars>>

\* The part of delete_vm that is about schedules; the timers are left as they are.
DeleteVm(v) ==
    /\ v \notin removed /\ served < MaxRequests /\ served' = served + 1
    /\ rows' = [k \in Key |->
                   IF k \in VmKey /\ k[2] = v THEN NoRow
                   ELSE IF k \in PolicyKey /\ rows[k] # NoRow
                     THEN [rows[k] EXCEPT !.vms = @ \ {v}]
                   ELSE rows[k]]
    /\ removed' = removed \union {v}
    /\ UNCHANGED <<timers, up, hurt, unresumed, request, runVars, configVars, restarts>>

------------------------------------------------------------------------------
(* Updates of the configuration: read, save_config, assignment *)

Update(r, op, v, value) ==
    /\ Serve(r)
    /\ request' = [request EXCEPT ![r] = [pc |-> "write", op |-> op, vm |-> v, value |-> value]]
    /\ contended' = (contended \/ Updating # {})
    /\ UNCHANGED <<timerVars, runVars, config, file, wanted, unseen, restarts>>

ExcludeVm(r) == \E v \in VM : Update(r, "exclude", v, config \union {v})
IncludeVm(r) == \E v \in VM : Update(r, "include", v, config \ {v})

\* update_settings keeps the exclusions it has read.
UpdateSettings(r) == \E v \in VM : Update(r, "settings", v, config)

WriteConfig(r) ==
    /\ request[r].pc = "write"
    /\ \/ file' = request[r].value /\ Goto(r, "assign")
       \/ "save" \in Faults /\ Return(r) /\ UNCHANGED file
    /\ UNCHANGED <<timerVars, runVars, config, contended, wanted, unseen, boundVars>>

\* What the user has asked for is answered.
Answer(r) ==
    LET v == request[r].vm
    IN  IF request[r].op = "exclude"
          THEN /\ wanted' = wanted \union {v}
               /\ unseen' = IF \E k \in Key : oldRuns[k] # {} THEN unseen \union {v} ELSE unseen
          ELSE wanted' = wanted \ {v} /\ UNCHANGED unseen

\* Seeded bug: what was saved is used after the next start only.
AssignNothing(r) ==
    /\ request[r].pc = "assign" /\ request[r].op # "settings"
    /\ Answer(r)
    /\ Return(r)
    /\ UNCHANGED <<timerVars, runVars, config, file, contended, boundVars>>

\* The service in use gets the new configuration, and no other service.
AssignConfig(r) ==
    /\ request[r].pc = "assign" /\ request[r].op # "settings"
    /\ config' = request[r].value
    /\ Answer(r)
    /\ Return(r)
    /\ UNCHANGED <<timerVars, runVars, file, contended, boundVars>>

------------------------------------------------------------------------------
(* A policy that runs *)

\* One run of a policy at a time.  A run that finds the repository unavailable ends at
\* once, and is left out here.
Fire(k) ==
    /\ up /\ runs[k] = {} /\ timers[k] # {}
    /\ runs' = [runs EXCEPT ![k] = timers[k]]
    /\ UNCHANGED <<timerVars, request, oldRuns, oldConfig, breach, configVars, boundVars>>

\* v is backed up by a policy on a service with these exclusions, unless they name it.
BackUp(v, by, exclusions) ==
    breach' = breach \union ({by} \X (({v} \ exclusions) \intersect wanted))

\* Seeded bug: the exclusions are not looked at.
RunUnchecked(k) ==
    /\ \E v \in runs[k] :
          /\ runs' = [runs EXCEPT ![k] = @ \ {v}]
          /\ BackUp(v, "current", {})
    /\ UNCHANGED <<timerVars, request, oldRuns, oldConfig, configVars, boundVars>>

\* The next VM is backed up if it is not excluded; a backup that raises is logged.
Run(k) ==
    /\ \E v \in runs[k] :
          /\ runs' = [runs EXCEPT ![k] = @ \ {v}]
          /\ BackUp(v, "current", config)
    /\ UNCHANGED <<timerVars, request, oldRuns, oldConfig, configVars, boundVars>>

\* The same on a service that was replaced, with the exclusions it had: those a user
\* made since are not seen.
RunOld(k) ==
    /\ \E v \in oldRuns[k] :
          /\ oldRuns' = [oldRuns EXCEPT ![k] = @ \ {v}]
          /\ BackUp(v, "replaced", oldConfig)
    /\ UNCHANGED <<timerVars, request, runs, oldConfig, configVars, boundVars>>

------------------------------------------------------------------------------
(* Starts of a scheduler *)

\* start: schedules are migrated while there is no policy; then every policy gets its
\* timer, and schedules get none.
Migrated ==
    IF \A k \in PolicyKey : rows[k] = NoRow
      THEN [k \in Key |-> IF k \in PolicyKey /\ k[2] \in VM
                            THEN rows[<<"vm-backup", k[2]>>] ELSE rows[k]]
      ELSE rows

StartScheduler ==
    /\ rows' = Migrated
    /\ timers' = [k \in Key |-> IF k \in PolicyKey THEN Armed(k)' ELSE {}]
    /\ up' = TRUE
    /\ removed' = {}
    /\ unresumed' = {k \in VmKey : Armed(k) # {}}

Interruption == restarts < MaxRestarts /\ restarts' = restarts + 1

\* A new process.
Restart ==
    /\ Interruption
    /\ StartScheduler /\ hurt' = {}
    /\ request' = [r \in Request |-> Idle]
    /\ runs' = [k \in Key |-> {}] /\ oldRuns' = runs'
    /\ config' = file
    /\ contended' = (contended \/ Updating # {})
    /\ oldConfig' = {}
    /\ UNCHANGED <<file, wanted, unseen, breach, served>>

\* update_settings and trust_ssh_host replace the service and its scheduler: requests
\* go on with the old scheduler, and so do the policies that run (bound: on one replaced
\* service at a time).  If the new service cannot be made, the old one stays, with a
\* scheduler that has been shut down.
Replace(r) ==
    /\ request[r].pc = "assign" /\ request[r].op = "settings"
    /\ Interruption
    /\ \/ /\ \A k \in Key : oldRuns[k] = {}
          /\ StartScheduler
          /\ config' = request[r].value
          /\ hurt' = {k \in Key : Busy(k)}
          /\ request' = [q \in Request |->
                            IF q = r THEN Idle
                            ELSE IF request[q].pc \in PolicyPc
                              THEN [request[q] EXCEPT !.live = FALSE]
                            ELSE request[q]]
          /\ oldRuns' = runs /\ runs' = [k \in Key |-> {}]
          /\ oldConfig' = config
       \/ /\ "replace" \in Faults
          /\ up' = FALSE
          /\ timers' = [k \in Key |-> {}] /\ hurt' = Key
          /\ Return(r)
          /\ UNCHANGED <<rows, removed, unresumed, config, runs, oldRuns, oldConfig>>
    /\ UNCHANGED <<file, contended, wanted, unseen, breach, served>>

------------------------------------------------------------------------------

Next ==
    \/ \E r \in Request :
          \/ Apply(r) \/ DeletePolicy(r) \/ Remove(r) \/ Save(r) \/ AddTimer(r)
          \/ ExcludeVm(r) \/ IncludeVm(r) \/ UpdateSettings(r)
          \/ WriteConfig(r) \/ AssignConfig(r) \/ Replace(r)
    \/ \E v \in VM : DeleteVm(v)
    \/ \E k \in Key : Fire(k) \/ Run(k) \/ RunOld(k)
    \/ Restart

Spec == Init /\ [][Next]_vars

------------------------------------------------------------------------------

\* The type of every variable.
TypeOK ==
    /\ \A k \in Key : rows[k] = NoRow \/ rows[k] \in Definition(k)
    /\ timers \in [Key -> SUBSET VM] /\ up \in BOOLEAN
    /\ \A r \in Request :
          request[r].pc \in {"idle", "write", "assign"} \union PolicyPc
    /\ runs \in [Key -> SUBSET VM] /\ oldRuns \in [Key -> SUBSET VM]
    /\ \A e \in {config, oldConfig, file, removed, wanted, unseen} : e \subseteq VM
    /\ breach \subseteq {"current", "replaced"} \X VM
    /\ served \in 0..MaxRequests /\ restarts \in 0..MaxRestarts
    /\ hurt \subseteq Key /\ unresumed \subseteq VmKey

\* architecture.md:15 "definitions are stored in SQLite and rebuilt at startup": where
\* no two requests for the same definition overlapped and none failed, a definition has
\* the timer it calls for.  Left out are VMs whose backups were deleted, which stay in
\* the arguments of timers, and schedules of one VM, which no start gives a timer.
TimersFollowRows ==
    \A k \in Key \ hurt :
        ~Busy(k) => \/ timers[k] \ removed = Armed(k) \ removed
                    \/ timers[k] = {} /\ k \in unresumed

\* An exclusion is in force when its request is answered, and is in the file whenever
\* no update is under way, unless updates overlapped or a restart cut one off.
ExclusionsKept ==
    ~contended => config = wanted /\ (Updating = {} => file = wanted)

\* README.md:150 "Excluded VMs ... are skipped by every schedule until included again":
\* also in a policy that was running when the VM was excluded.  The exception is a policy
\* that goes on on a service that was replaced (web.py:784): it keeps to the exclusions
\* of that time (scheduler.py:111), and backs up a VM that was excluded since.
ExcludedAreSkipped ==
    ~contended => breach \subseteq {"replaced"} \X unseen
=============================================================================
