------------------------- MODULE Monitoring_proofs ---------------------------
(***************************************************************************)
(* The notices and the storage refresh of Monitoring, for any number of    *)
(* backups, requests and ticks of the clock and under every fault: one     *)
(* refresh at a time owns the state that is shown, a user's                *)
(* acknowledgement settles exactly the failures that were there, and the   *)
(* label of a device follows the damage it reports.                        *)
(***************************************************************************)
EXTENDS Monitoring, FiniteSetTheorems, SequenceTheorems, WellFoundedInduction, TLAPS

\* The state that is shown is that of the one thread that refreshes.
RefreshInv ==
    /\ \A r \in Refreshing, s \in Refreshing : r = s
    /\ \A r \in Request :
          /\ request[r].pc \in {"respond", "queued"} => refresh = "queued"
          /\ request[r].pc \in {"collect", "settle"} => refresh = "running"
          /\ request[r].pc = "settle" => fresh
    /\ refresh \in {"queued", "running"} => Refreshing # {} \/ lost
    /\ refresh = "success" => fresh

\* Nothing has a time that is still to come.
Clock ==
    /\ acknowledged <= now /\ file <= now
    /\ \A j \in Job : finished[j] <= now /\ stamp[j] <= now
    /\ \A r \in Request : request[r].value <= now

\* One update at a time has the configuration, and wrote to the file what it will assign.
ConfigInv ==
    /\ \A r \in Updating, s \in Updating : r = s
    /\ Updating = {} => file = acknowledged
    /\ \A r \in Updating :
          /\ file = IF request[r].pc = "write" THEN acknowledged ELSE request[r].value
          /\ IF request[r].form THEN request[r].value = acknowledged
             ELSE acknowledged < request[r].value

\* The failures up to a time, and the backups that have read the clock by then, are
\* among those known.
Covered(time, failures, stamped) ==
    \A j \in Job :
        /\ status[j] = "failed" /\ finished[j] <= time =>
               <<j, finished[j]>> \in failures \union stamped
        /\ thread[j] = "stamped" /\ stamp[j] <= time => <<j, stamp[j]>> \in stamped

\* What a user has dismissed is what the time of the acknowledgement tells, and an
\* acknowledgement on its way has seen all that its time will dismiss.
NoticeInv ==
    /\ \A e \in dismissed : acknowledged > 0 /\ e[2] <= acknowledged
    /\ acknowledged > 0 => Covered(acknowledged, dismissed, raced)
    /\ \A r \in Updating : ~request[r].form =>
          /\ \A e \in request[r].seen : e[2] <= request[r].value
          /\ Covered(request[r].value, request[r].seen, request[r].missed)

MonitoringInv == TypeOK /\ RefreshInv /\ Clock /\ (~contended => ConfigInv /\ NoticeInv)

------------------------------------------------------------------------------


LEMMA MonitoringInit == Init => MonitoringInv
<1> SUFFICES ASSUME Init
             PROVE  MonitoringInv
  OBVIOUS
<1> USE MonitoringBounds
<1>1. 0 \in Time
  BY DEF Time
<1>2. TypeOK
  <2>1. Idle \in [pc : {"idle", "write", "assign"} \union RefreshPc, form : BOOLEAN,
                  value : Time, seen : SUBSET Failure, missed : SUBSET Failure]
    BY <1>1 DEF Idle
  <2>2. {fresh, lost, contended} \subseteq BOOLEAN
    BY DEF Init
  <2>3. \A times \in {started, finished, stamp} : times \in [Job -> Time]
    BY <1>1 DEF Init
  <2> QED
    BY <1>1, <2>1, <2>2, <2>3 DEF Init, TypeOK
<1>3. Refreshing = {} /\ Updating = {}
  BY DEF Init, Refreshing, Updating, Idle, RefreshPc
<1>4. RefreshInv
  BY <1>3 DEF Init, RefreshInv, Idle
<1>5. Clock /\ ConfigInv /\ NoticeInv
  <2>1. Clock
    BY DEF Init, Clock, Idle
  <2>2. ConfigInv /\ NoticeInv
    BY <1>3 DEF Init, ConfigInv, NoticeInv
  <2> QED
    BY <2>1, <2>2
<1> QED
  BY <1>2, <1>4, <1>5 DEF MonitoringInv

\* The types.
LEMMA TypeStep == TypeOK /\ [Next]_vars => TypeOK'
<1> SUFFICES ASSUME TypeOK, [Next]_vars
             PROVE  TypeOK'
  OBVIOUS
<1> USE MonitoringBounds
<1> DEFINE Row == [pc : {"idle", "write", "assign"} \union RefreshPc, form : BOOLEAN,
                   value : Time, seen : SUBSET Failure, missed : SUBSET Failure]
<1>1. 0 \in Time /\ Idle \in Row
  BY DEF Time, Idle
<1>2. ReadClock => now' \in Time
  BY DEF ReadClock, TypeOK, Time
<1>3. Failures \subseteq Failure /\ Unlisted \subseteq Failure
  BY DEF Failures, Unlisted, Failure, TypeOK
<1>4. ASSUME ReadClock, Interrupt
      PROVE  /\ status' \in [Job -> {"absent", "running", "success", "failed"}]
             /\ finished' \in [Job -> Time]
  BY <1>2, <1>4 DEF Interrupt, TypeOK
<1>5. ASSUME NEW j \in Job, Begin(j) \/ Stamp(j) \/ Record(j)
      PROVE  TypeOK'
  <2>1. CASE Begin(j)
    BY <2>1, <1>2 DEF Begin, TypeOK, configVars, refreshVars, seenVars
  <2>2. CASE Stamp(j)
    BY <2>2, <1>2 DEF Stamp, TypeOK, configVars, refreshVars, seenVars
  <2>3. CASE Record(j)
    BY <2>3 DEF Record, TypeOK, configVars, refreshVars, seenVars
  <2> QED
    BY <1>5, <2>1, <2>2, <2>3
<1>6. ASSUME NEW r \in Request, NEW form \in BOOLEAN, NEW value \in Time,
             Update(r, form, value), now' \in Time
      PROVE  TypeOK'
  <2>1. [pc |-> "write", form |-> form, value |-> value, seen |-> Failures,
         missed |-> Unlisted] \in Row
    BY <1>3
  <2>2. request' \in [Request -> Row] /\ contended' \in BOOLEAN
    BY <1>6, <2>1 DEF Update, TypeOK
  <2> QED
    BY <1>6, <2>2 DEF Update, TypeOK, rowVars, refreshVars, seenVars
<1>7. ASSUME NEW r \in Request, NEW pc \in {"idle", "write", "assign"} \union RefreshPc,
             Goto(r, pc) \/ Return(r)
      PROVE  request' \in [Request -> Row]
  <2>1. request \in [Request -> Row]
    BY DEF TypeOK
  <2>2. CASE Goto(r, pc)
    <3>1. [request[r] EXCEPT !.pc = pc] \in Row
      BY <2>1
    <3>2. request' = [request EXCEPT ![r] = [request[r] EXCEPT !.pc = pc]]
      BY <2>1, <2>2 DEF Goto
    <3> QED
      BY <2>1, <3>1, <3>2
  <2>3. CASE Return(r)
    BY <2>1, <2>3, <1>1 DEF Return
  <2> QED
    BY <1>7, <2>2, <2>3
<1>8. ASSUME NEW r \in Request, Write(r) \/ Assign(r) \/ Replace(r)
      PROVE  TypeOK'
  <2>1. /\ request[r].value \in Time
        /\ request[r].seen \subseteq Failure /\ request[r].missed \subseteq Failure
    BY DEF TypeOK
  <2>2. request' \in [Request -> Row]
    BY <1>8, <1>7 DEF Write, Assign, Replace
  <2>3. CASE Write(r)
    BY <2>3, <2>1, <2>2 DEF Write, TypeOK, rowVars, refreshVars, seenVars
  <2>4. CASE Assign(r)
    BY <2>4, <2>1, <2>2 DEF Assign, TypeOK, rowVars, refreshVars
  <2>5. CASE Replace(r)
    <3>1. now' \in Time /\ acknowledged' \in Time
      BY <2>5, <2>1, <1>2 DEF Replace, TypeOK
    <3>2. /\ status' \in [Job -> {"absent", "running", "success", "failed"}]
          /\ finished' \in [Job -> Time]
      BY <2>5, <1>4 DEF Replace, TypeOK
    <3> QED
      BY <2>5, <2>2, <3>1, <3>2 DEF Replace, TypeOK, refreshVars, seenVars
  <2> QED
    BY <1>8, <2>3, <2>4, <2>5
<1>9. ASSUME NEW r \in Request, Queue(r) \/ RefreshStep(r)
      PROVE  TypeOK'
  <2>1. request' \in [Request -> Row]
    <3>1. CASE Queue(r)
      BY <3>1, <1>7 DEF Queue, Goto, RefreshPc
    <3>2. CASE RefreshStep(r)
      BY <3>2, <1>7 DEF RefreshStep, Respond, RunRefresh, Collect, Settle, RefreshPc
    <3> QED
      BY <1>9, <3>1, <3>2
  <2>2. /\ refresh' \in {"idle", "queued", "running", "failed", "success"}
        /\ fresh' \in BOOLEAN /\ lost' \in BOOLEAN
    BY <1>9 DEF Queue, RefreshStep, Respond, RunRefresh, Collect, Settle, TypeOK
  <2>3. UNCHANGED <<now, rowVars, configVars, seenVars>>
    BY <1>9 DEF Queue, RefreshStep, Respond, RunRefresh, Collect, Settle
  <2> QED
    BY <2>1, <2>2, <2>3 DEF TypeOK, rowVars, configVars, seenVars
<1>10. CASE Restart
  <2>1. request' \in [Request -> Row] /\ now' \in Time /\ acknowledged' \in Time
    BY <1>10, <1>1, <1>2 DEF Restart, TypeOK
  <2>2. /\ status' \in [Job -> {"absent", "running", "success", "failed"}]
        /\ finished' \in [Job -> Time]
    BY <1>10, <1>4 DEF Restart
  <2>3. /\ thread' \in [Job -> {"idle", "running", "stamped", "over"}]
        /\ {fresh', lost', contended'} \subseteq BOOLEAN
    BY <1>10 DEF Restart, TypeOK
  <2> QED
    BY <1>10, <2>1, <2>2, <2>3 DEF Restart, TypeOK, seenVars
<1>11. CASE UNCHANGED vars
  BY <1>11 DEF vars, rowVars, configVars, refreshVars, seenVars, TypeOK
<1>12. ASSUME NEW r \in Request, Acknowledge(r) \/ UpdateSettings(r)
       PROVE  TypeOK'
  BY <1>12, <1>2, <1>6 DEF Acknowledge, UpdateSettings, TypeOK
<1> QED
  BY <1>5, <1>8, <1>9, <1>10, <1>11, <1>12 DEF Next

\* The thread that refreshes.
LEMMA RefreshKept == TypeOK /\ RefreshInv /\ [Next]_vars => RefreshInv'
<1> SUFFICES ASSUME TypeOK, RefreshInv, [Next]_vars
             PROVE  RefreshInv'
  OBVIOUS
<1> USE DEF RefreshPc
<1>1. ASSUME UNCHANGED refreshVars,
             \A r \in Request : \/ request'[r].pc = request[r].pc
                                \/ /\ request'[r].pc \notin RefreshPc
                                   /\ request[r].pc \notin RefreshPc
      PROVE  RefreshInv'
  <2>1. Refreshing' = Refreshing
    BY <1>1 DEF Refreshing
  <2> QED
    BY <1>1, <2>1 DEF RefreshInv, refreshVars
<1>2. ASSUME NEW r \in Request, NEW pc \in {"idle", "write", "assign"}, request[r].pc \notin RefreshPc,
             \/ Goto(r, pc) \/ Return(r)
             \/ \E row : request' = [request EXCEPT ![r] = row] /\ row.pc = pc
      PROVE  \A s \in Request : \/ request'[s].pc = request[s].pc
                                \/ request'[s].pc \notin RefreshPc /\ request[s].pc \notin RefreshPc
  BY <1>2 DEF Goto, Return, Idle, TypeOK
<1>3. CASE \E j \in Job : Begin(j) \/ Stamp(j) \/ Record(j)
  BY <1>1, <1>3 DEF Begin, Stamp, Record
<1>4. ASSUME NEW r \in Request, Acknowledge(r) \/ UpdateSettings(r)
      PROVE  RefreshInv'
  <2>1. UNCHANGED refreshVars /\ request[r].pc = "idle"
    BY <1>4 DEF Acknowledge, UpdateSettings, Update, Idle
  <2>2. ASSUME NEW form, NEW value, Update(r, form, value)
        PROVE  \E row : request' = [request EXCEPT ![r] = row] /\ row.pc = "write"
    <3>1. [pc |-> "write", form |-> form, value |-> value, seen |-> Failures,
           missed |-> Unlisted].pc = "write"
      OBVIOUS
    <3> QED
      BY <2>2, <3>1 DEF Update
  <2> QED
    BY <1>1, <1>2, <1>4, <2>1, <2>2 DEF Acknowledge, UpdateSettings
<1>5. ASSUME NEW r \in Request, Write(r) \/ Assign(r) \/ Replace(r)
      PROVE  RefreshInv'
  <2>1. UNCHANGED refreshVars /\ request[r].pc \notin RefreshPc
    BY <1>5 DEF Write, Assign, Replace
  <2>2. Goto(r, "assign") \/ Return(r)
    BY <1>5 DEF Write, Assign, Replace
  <2> QED
    BY <1>1, <1>2, <2>1, <2>2
<1>6. ASSUME NEW r \in Request, Queue(r)
      PROVE  RefreshInv'
  <2>1. Refreshing = {}
    BY <1>6 DEF Queue, RefreshInv, Refreshing
  <2>2. /\ request' \in [Request -> [pc : {"idle", "write", "assign"} \union RefreshPc,
                                     form : BOOLEAN, value : Time,
                                     seen : SUBSET Failure, missed : SUBSET Failure]]
        /\ \A s \in Request : request'[s].pc = IF s = r THEN "respond" ELSE request[s].pc
    BY <1>6 DEF Queue, TypeOK
  <2>3. Refreshing' = {r}
    BY <2>1, <2>2 DEF Refreshing
  <2> QED
    BY <1>6, <2>1, <2>2, <2>3 DEF Queue, RefreshInv, Refreshing
<1>7. ASSUME NEW r \in Request, RefreshStep(r)
      PROVE  RefreshInv'
  <2>1. r \in Refreshing /\ \A s \in Request : s # r => request[s].pc \notin RefreshPc
    BY <1>7 DEF RefreshStep, Respond, RunRefresh, Collect, Settle, Refreshing, RefreshInv
  <2>2. \A s \in Request : s # r => request'[s] = request[s]
    BY <1>7 DEF RefreshStep, Respond, RunRefresh, Collect, Settle, Goto, Return, TypeOK
  <2>3. Refreshing' \subseteq {r}
    BY <2>1, <2>2 DEF Refreshing
  <2>4. ASSUME Return(r)
        PROVE  Refreshing' = {} /\ \A s \in Request : request'[s].pc \notin RefreshPc
    <3>1. request'[r] = Idle
      BY <2>4 DEF Return, TypeOK
    <3>2. \A s \in Request : request'[s].pc \notin RefreshPc
      BY <3>1, <2>1, <2>2 DEF Idle
    <3> QED
      BY <3>2 DEF Refreshing
  <2>5. ASSUME NEW pc \in RefreshPc, Goto(r, pc)
        PROVE  Refreshing' = {r} /\ request'[r].pc = pc
    BY <2>3, <2>5 DEF Refreshing, Goto, TypeOK
  <2>6. CASE Respond(r) /\ Goto(r, "queued")
    BY <2>1, <2>2, <2>5, <2>6 DEF Respond, RefreshInv
  <2>7. CASE RunRefresh(r)
    BY <2>1, <2>2, <2>5, <2>7 DEF RunRefresh, RefreshInv
  <2>8. CASE Collect(r) /\ Goto(r, "settle") /\ fresh' = TRUE /\ UNCHANGED refresh
    BY <2>1, <2>2, <2>5, <2>8 DEF Collect, RefreshInv
  <2>9. CASE Settle(r)
    BY <2>1, <2>4, <2>9 DEF Settle, RefreshInv
  <2>10. CASE Respond(r) /\ Return(r) /\ lost' = TRUE
    BY <2>4, <2>10 DEF Respond, RefreshInv
  <2>11. CASE Collect(r) /\ Return(r) /\ refresh' = "failed"
    BY <2>4, <2>11 DEF RefreshInv
  <2> QED
    BY <1>7, <2>6, <2>7, <2>8, <2>9, <2>10, <2>11 DEF RefreshStep, Respond, Collect
<1>8. CASE Restart
  <2>1. Refreshing' = {}
    BY <1>8 DEF Restart, Refreshing, Idle
  <2> QED
    BY <1>8, <2>1 DEF Restart, RefreshInv, Refreshing
<1>9. CASE UNCHANGED vars
  BY <1>1, <1>9 DEF vars
<1> QED
  BY <1>3, <1>4, <1>5, <1>6, <1>7, <1>8, <1>9 DEF Next

------------------------------------------------------------------------------

(* The notices. *)

\* What each kind of step does to the threads of the updates.
LEMMA UpdatesAside ==
    ASSUME TypeOK, NEW r \in Request, Queue(r) \/ RefreshStep(r)
    PROVE  /\ Updating' = Updating
           /\ \A s \in Updating : request'[s] = request[s]
           /\ \A s \in Request : request'[s].value \in {0, request[s].value}
           /\ UNCHANGED <<now, rowVars, configVars, seenVars>>
<1>1. request[r].pc \notin {"write", "assign"}
  BY DEF Queue, RefreshStep, Respond, RunRefresh, Collect, Settle, Idle
<1>2. \/ Return(r)
      \/ \E pc \in RefreshPc : Goto(r, pc)
  BY DEF Queue, RefreshStep, Respond, RunRefresh, Collect, Settle, Goto, RefreshPc
<1>3. /\ \A s \in Request : s # r => request'[s] = request[s]
      /\ request'[r].pc \notin {"write", "assign"}
      /\ request'[r].value \in {0, request[r].value}
  BY <1>2 DEF Return, Goto, RefreshPc, Idle, TypeOK
<1> QED
  BY <1>1, <1>3 DEF Updating, Queue, RefreshStep, Respond, RunRefresh, Collect, Settle

\* An update begins with the time of the acknowledgement, or with the one it keeps.
LEMMA UpdateShape ==
    ASSUME TypeOK, NEW r \in Request, Acknowledge(r) \/ UpdateSettings(r)
    PROVE  \E form \in BOOLEAN, value \in Nat :
              /\ Update(r, form, value)
              /\ IF form THEN now' = now /\ value = acknowledged
                         ELSE now' = now + 1 /\ value = now'
<1> USE MonitoringBounds DEF Time
<1>1. CASE Acknowledge(r)
  <2>1. now' = now + 1 /\ now' \in Nat
    BY <1>1 DEF Acknowledge, ReadClock, TypeOK
  <2>2. PICK value \in Nat : value = now'
    BY <2>1
  <2>3. Update(r, FALSE, value)
    BY <1>1, <2>2 DEF Acknowledge, Update
  <2> QED
    BY <2>1, <2>2, <2>3
<1>2. CASE UpdateSettings(r)
  <2>1. PICK value \in Nat : value = acknowledged
    BY DEF TypeOK
  <2>2. Update(r, TRUE, value) /\ now' = now
    BY <1>2, <2>1 DEF UpdateSettings, Update
  <2> QED
    BY <2>1, <2>2
<1> QED
  BY <1>1, <1>2

LEMMA ClockStep == TypeOK /\ Clock /\ [Next]_vars => Clock' /\ now <= now'
<1> SUFFICES ASSUME TypeOK, Clock, [Next]_vars
             PROVE  Clock' /\ now <= now'
  OBVIOUS
<1> USE MonitoringBounds DEF Time
<1>1. ReadClock => now' = now + 1
  BY DEF ReadClock
<1>2. now \in Nat /\ \A j \in Job : finished[j] \in Nat /\ stamp[j] \in Nat
  BY DEF TypeOK
<1>3. ASSUME NEW j \in Job, Begin(j) \/ Stamp(j) \/ Record(j)
      PROVE  Clock' /\ now <= now'
  <2>1. now' \in {now, now + 1} /\ UNCHANGED <<configVars, request>>
    BY <1>1, <1>3 DEF Begin, Stamp, Record
  <2>2. \A i \in Job : finished'[i] <= now' /\ stamp'[i] <= now'
    <3>1. CASE Begin(j)
      BY <3>1, <1>1, <1>2 DEF Begin, Clock
    <3>2. CASE Stamp(j)
      BY <3>2, <1>1, <1>2 DEF Stamp, Clock, TypeOK
    <3>3. CASE Record(j)
      BY <3>3, <1>2 DEF Record, Clock, TypeOK
    <3> QED
      BY <1>3, <3>1, <3>2, <3>3
  <2> QED
    BY <2>1, <2>2, <1>2 DEF Clock, configVars, TypeOK
<1>4. ASSUME NEW r \in Request, NEW form, NEW value \in Nat, Update(r, form, value),
             value <= now', now' \in {now, now + 1}
      PROVE  Clock' /\ now <= now'
  <2>1. \A s \in Request : request'[s].value \in {value, request[s].value}
    BY <1>4 DEF Update, TypeOK
  <2> QED
    BY <1>2, <1>4, <2>1 DEF Update, Clock, rowVars, TypeOK
<1>5. ASSUME NEW r \in Request, Acknowledge(r) \/ UpdateSettings(r)
      PROVE  Clock' /\ now <= now'
  <2>1. PICK form \in BOOLEAN, value \in Nat :
           /\ Update(r, form, value)
           /\ IF form THEN now' = now /\ value = acknowledged
                      ELSE now' = now + 1 /\ value = now'
    BY <1>5, UpdateShape
  <2> QED
    BY <1>2, <1>4, <2>1 DEF Clock
<1>6. ASSUME ReadClock, Interrupt
      PROVE  \A j \in Job : finished'[j] <= now'
  BY <1>1, <1>2, <1>6 DEF Interrupt, Clock
<1>7. ASSUME NEW r \in Request, Write(r) \/ Assign(r) \/ Replace(r)
      PROVE  Clock' /\ now <= now'
  <2>1. \A s \in Request : request'[s].value \in {0, request[s].value}
    BY <1>7 DEF Write, Assign, Replace, Goto, Return, Idle, TypeOK
  <2>2. now' \in {now, now + 1} /\ UNCHANGED stamp
    BY <1>1, <1>7 DEF Write, Assign, Replace, rowVars
  <2>3. /\ acknowledged' \in {acknowledged, request[r].value}
        /\ file' \in {file, request[r].value}
    BY <1>7 DEF Write, Assign, Replace
  <2>4. \A j \in Job : finished'[j] <= now'
    BY <1>2, <1>6, <1>7 DEF Write, Assign, Replace, rowVars, Clock
  <2> QED
    BY <1>2, <2>1, <2>2, <2>3, <2>4 DEF Clock, TypeOK
<1>8. ASSUME NEW r \in Request, Queue(r) \/ RefreshStep(r)
      PROVE  Clock' /\ now <= now'
  BY <1>2, <1>8, UpdatesAside DEF Clock, rowVars, configVars, TypeOK
<1>9. CASE Restart
  <2>1. \A r \in Request : request'[r].value = 0
    BY <1>9 DEF Restart, Idle
  <2>2. \A j \in Job : finished'[j] <= now'
    BY <1>6, <1>9 DEF Restart
  <2> QED
    BY <1>1, <1>2, <1>9, <2>1, <2>2 DEF Restart, Clock, TypeOK
<1>10. CASE UNCHANGED vars
  BY <1>2, <1>10 DEF vars, rowVars, configVars, Clock
<1> QED
  BY <1>3, <1>5, <1>7, <1>8, <1>9, <1>10 DEF Next

\* One update at a time.
LEMMA ConfigStep ==
    TypeOK /\ Clock /\ ConfigInv /\ [Next]_vars /\ ~contended' => ConfigInv'
<1> SUFFICES ASSUME TypeOK, Clock, ConfigInv, [Next]_vars, ~contended'
             PROVE  ConfigInv'
  OBVIOUS
<1> USE MonitoringBounds DEF Time
<1>1. CASE \E j \in Job : Begin(j) \/ Stamp(j) \/ Record(j)
  BY <1>1 DEF Begin, Stamp, Record, configVars, ConfigInv, Updating
<1>2. ASSUME NEW r \in Request, NEW form \in BOOLEAN, NEW value \in Nat,
             Update(r, form, value),
             IF form THEN value = acknowledged ELSE acknowledged < value
      PROVE  ConfigInv'
  <2>1. Updating = {}
    BY <1>2 DEF Update
  <2>2. request'[r] = [pc |-> "write", form |-> form, value |-> value,
                       seen |-> Failures, missed |-> Unlisted]
    BY <1>2 DEF Update, TypeOK
  <2>3. Updating' = {r}
    BY <1>2, <2>1, <2>2 DEF Update, Updating, TypeOK
  <2> QED
    BY <1>2, <2>1, <2>2, <2>3 DEF Update, ConfigInv
<1>3. ASSUME NEW r \in Request, Acknowledge(r) \/ UpdateSettings(r)
      PROVE  ConfigInv'
  <2>1. acknowledged \in Nat /\ now \in Nat /\ acknowledged <= now
    BY DEF TypeOK, Clock
  <2>2. PICK form \in BOOLEAN, value \in Nat :
           /\ Update(r, form, value)
           /\ IF form THEN now' = now /\ value = acknowledged
                      ELSE now' = now + 1 /\ value = now'
    BY <1>3, UpdateShape
  <2> QED
    BY <1>2, <2>1, <2>2
<1>4. ASSUME NEW r \in Request, Write(r) \/ Assign(r) \/ Replace(r)
      PROVE  ConfigInv'
  <2>1. Updating = {r}
    BY <1>4 DEF Write, Assign, Replace, Updating, ConfigInv
  <2>2. ASSUME Return(r)
        PROVE  Updating' = {}
    BY <2>1, <2>2 DEF Return, Idle, Updating, TypeOK
  <2>3. CASE Write(r) /\ Return(r) /\ UNCHANGED file
    BY <2>1, <2>2, <2>3 DEF Write, ConfigInv
  <2>4. CASE Write(r) /\ Goto(r, "assign") /\ file' = request[r].value
    <3>1. request'[r] = [request[r] EXCEPT !.pc = "assign"]
      BY <2>4 DEF Goto, TypeOK
    <3>2. Updating' = {r}
      BY <2>1, <2>4, <3>1 DEF Goto, Updating, TypeOK
    <3>3. /\ request'[r].pc = "assign" /\ request'[r].value = request[r].value
          /\ request'[r].form = request[r].form
      BY <3>1 DEF TypeOK
    <3> QED
      BY <2>1, <2>4, <3>2, <3>3 DEF Write, ConfigInv
  <2>5. CASE Assign(r)
    BY <2>1, <2>2, <2>5 DEF Assign, ConfigInv
  <2>6. CASE Replace(r)
    BY <2>1, <2>2, <2>6 DEF Replace, ConfigInv
  <2> QED
    BY <1>4, <2>3, <2>4, <2>5, <2>6 DEF Write
<1>5. ASSUME NEW r \in Request, Queue(r) \/ RefreshStep(r)
      PROVE  ConfigInv'
  BY <1>5, UpdatesAside DEF ConfigInv, configVars
<1>6. CASE Restart
  <2>1. Updating = {} /\ Updating' = {}
    BY <1>6 DEF Restart, Updating, Idle
  <2> QED
    BY <1>6, <2>1 DEF Restart, ConfigInv
<1>7. CASE UNCHANGED vars
  BY <1>7 DEF vars, configVars, ConfigInv, Updating
<1> QED
  BY <1>1, <1>3, <1>4, <1>5, <1>6, <1>7 DEF Next

\* What is known of the failures up to a time that is past stays so.
LEMMA CoveredKept ==
    ASSUME TypeOK, Clock, [Next]_vars,
           NEW time \in Nat, time <= now, NEW F, NEW S, Covered(time, F, S)
    PROVE  Covered(time, F, S)'
<1> USE MonitoringBounds DEF Time
<1>1. CASE UNCHANGED rowVars
  BY <1>1 DEF Covered, rowVars
<1>2. ASSUME NEW j \in Job, Begin(j)
      PROVE  Covered(time, F, S)'
  BY <1>2 DEF Begin, Covered, TypeOK
<1>3. ASSUME NEW j \in Job, Stamp(j)
      PROVE  Covered(time, F, S)'
  <2>1. stamp'[j] = now + 1 /\ now \in Nat
    BY <1>3 DEF Stamp, ReadClock, TypeOK
  <2>2. \A i \in Job : i # j => thread'[i] = thread[i] /\ stamp'[i] = stamp[i]
    BY <1>3 DEF Stamp, TypeOK
  <2>3. ~(stamp'[j] <= time)
    BY <2>1
  <2>4. UNCHANGED <<status, finished>>
    BY <1>3 DEF Stamp
  <2> QED
    BY <2>2, <2>3, <2>4 DEF Covered
<1>4. ASSUME NEW j \in Job, Record(j)
      PROVE  Covered(time, F, S)'
  BY <1>4 DEF Record, Covered, TypeOK
<1>5. ASSUME ReadClock, Interrupt, UNCHANGED stamp,
             \A j \in Job : thread'[j] = "stamped" => thread[j] = "stamped"
      PROVE  Covered(time, F, S)'
  <2>1. now' = now + 1 /\ now \in Nat
    BY <1>5 DEF ReadClock, TypeOK
  <2>2. \A j \in Job : \/ ~(finished'[j] <= time)
                       \/ finished'[j] = finished[j] /\ status'[j] = status[j]
    BY <1>5, <2>1 DEF Interrupt
  <2> QED
    BY <1>5, <2>2 DEF Covered
<1>6. CASE Restart
  BY <1>5, <1>6 DEF Restart
<1>7. ASSUME NEW r \in Request, Replace(r)
      PROVE  Covered(time, F, S)'
  BY <1>1, <1>5, <1>7 DEF Replace, rowVars
<1> QED
  BY <1>1, <1>2, <1>3, <1>4, <1>6, <1>7, UpdatesAside DEF Next, vars, Acknowledge,
     UpdateSettings, Update, Write, Assign

LEMMA NoticeStep ==
    TypeOK /\ Clock /\ ConfigInv /\ NoticeInv /\ [Next]_vars /\ ~contended' => NoticeInv'
<1> SUFFICES ASSUME TypeOK, Clock, ConfigInv, NoticeInv, [Next]_vars, ~contended'
             PROVE  NoticeInv'
  OBVIOUS
<1> USE MonitoringBounds DEF Time
<1>1. /\ acknowledged \in Nat /\ acknowledged <= now
      /\ \A r \in Request : request[r].value \in Nat /\ request[r].value <= now
  BY DEF TypeOK, Clock
<1>2. ASSUME NEW time \in Nat, time <= now, NEW F, NEW S, Covered(time, F, S)
      PROVE  Covered(time, F, S)'
  BY <1>2, CoveredKept
<1>3. ASSUME UNCHANGED <<acknowledged, dismissed, raced>>,
             \A r \in Updating' :
                 \/ request'[r].form
                 \/ /\ r \in Updating /\ request'[r].form = request[r].form
                    /\ request'[r].value = request[r].value
                    /\ request'[r].seen = request[r].seen
                    /\ request'[r].missed = request[r].missed
      PROVE  NoticeInv'
  <2>1. acknowledged' > 0 => Covered(acknowledged, dismissed, raced)'
    BY <1>1, <1>2, <1>3 DEF NoticeInv
  <2>2. ASSUME NEW r \in Updating', ~request'[r].form
        PROVE  /\ \A e \in request'[r].seen : e[2] <= request'[r].value
               /\ Covered(request[r].value, request[r].seen, request[r].missed)'
    <3>1. /\ r \in Updating /\ request'[r].form = request[r].form
          /\ request'[r].value = request[r].value
          /\ request'[r].seen = request[r].seen
          /\ request'[r].missed = request[r].missed
      BY <1>3, <2>2
    <3>2. r \in Request
      BY <3>1 DEF Updating
    <3>3. /\ \A e \in request[r].seen : e[2] <= request[r].value
          /\ Covered(request[r].value, request[r].seen, request[r].missed)
      BY <2>2, <3>1 DEF NoticeInv
    <3> QED
      BY <1>1, <1>2, <3>1, <3>2, <3>3
  <2> QED
    BY <1>3, <2>1, <2>2 DEF NoticeInv
<1>4. CASE \E j \in Job : Begin(j) \/ Stamp(j) \/ Record(j)
  BY <1>3, <1>4 DEF Begin, Stamp, Record, configVars, seenVars, Updating
<1>5. ASSUME NEW r \in Request, Acknowledge(r) \/ UpdateSettings(r)
      PROVE  NoticeInv'
  <2>1. PICK form \in BOOLEAN, value \in Nat :
           /\ Update(r, form, value)
           /\ IF form THEN now' = now /\ value = acknowledged
                      ELSE now' = now + 1 /\ value = now'
    BY <1>5, UpdateShape
  <2>2. /\ request' = [request EXCEPT ![r] = [pc |-> "write", form |-> form, value |-> value,
                                              seen |-> Failures, missed |-> Unlisted]]
        /\ UNCHANGED <<rowVars, acknowledged, seenVars>>
    BY <2>1 DEF Update
  <2>3. /\ request'[r].form = form /\ request'[r].value = value
        /\ request'[r].seen = Failures /\ request'[r].missed = Unlisted
        /\ \A s \in Request : s # r => request'[s] = request[s]
    BY <2>2 DEF TypeOK
  <2>4. /\ Covered(value, Failures, Unlisted)
        /\ ~form => \A e \in Failures : e[2] <= value
    BY <2>1 DEF Covered, Failures, Unlisted, Clock, TypeOK
  <2>5. acknowledged' > 0 => Covered(acknowledged, dismissed, raced)'
    BY <1>1, <1>2, <2>2 DEF NoticeInv, seenVars
  <2>6. ASSUME NEW s \in Updating', ~request'[s].form
        PROVE  /\ \A e \in request'[s].seen : e[2] <= request'[s].value
               /\ Covered(request[s].value, request[s].seen, request[s].missed)'
    <3>1. CASE s = r
      BY <2>2, <2>3, <2>4, <2>6, <3>1 DEF Covered, rowVars
    <3>2. CASE s # r
      <4>1. s \in Updating /\ request'[s] = request[s]
        BY <2>3, <3>2 DEF Updating
      <4> QED
        BY <2>2, <2>6, <4>1 DEF NoticeInv, Covered, rowVars
    <3> QED
      BY <3>1, <3>2
  <2> QED
    BY <2>2, <2>5, <2>6 DEF NoticeInv, seenVars
<1>6. ASSUME NEW r \in Request, Write(r)
      PROVE  NoticeInv'
  BY <1>3, <1>6 DEF Write, Goto, Return, Updating, Idle, TypeOK, rowVars, seenVars
<1>7. ASSUME NEW r \in Request, Assign(r)
      PROVE  NoticeInv'
  <2>1. Updating = {r} /\ acknowledged < request[r].value
    BY <1>7 DEF Assign, Updating, ConfigInv
  <2>2. Updating' = {}
    BY <1>7, <2>1 DEF Assign, Return, Idle, Updating, TypeOK
  <2>3. /\ \A e \in request[r].seen : e[2] <= request[r].value
        /\ Covered(request[r].value, request[r].seen, request[r].missed)
    BY <1>7, <2>1 DEF Assign, NoticeInv
  <2>4. \A e \in dismissed' : acknowledged' > 0 /\ e[2] <= acknowledged'
    <3>1. ASSUME NEW e \in dismissed
          PROVE  e[2] <= acknowledged /\ e[2] \in Nat
      BY DEF NoticeInv, TypeOK, Failure
    <3> QED
      BY <1>1, <1>7, <2>1, <2>3, <3>1 DEF Assign
  <2>5. Covered(acknowledged, dismissed, raced)'
    BY <1>7, <2>3 DEF Assign, Covered, rowVars
  <2> QED
    BY <2>2, <2>4, <2>5 DEF NoticeInv
<1>8. ASSUME NEW r \in Request, Replace(r)
      PROVE  NoticeInv'
  <2>1. Updating = {r}
    BY <1>8 DEF Replace, Updating, ConfigInv
  <2>2. Updating' = {}
    BY <1>8, <2>1 DEF Replace, Return, Idle, Updating, TypeOK
  <2>3. UNCHANGED <<acknowledged, dismissed, raced>>
    BY <1>8, <2>1 DEF Replace, ConfigInv, seenVars
  <2> QED
    BY <1>3, <2>2, <2>3
<1>9. ASSUME NEW r \in Request, Queue(r) \/ RefreshStep(r)
      PROVE  NoticeInv'
  BY <1>3, <1>9, UpdatesAside DEF configVars, seenVars
<1>10. CASE Restart
  <2>1. Updating = {} /\ Updating' = {}
    BY <1>10 DEF Restart, Updating, Idle
  <2>2. UNCHANGED <<acknowledged, dismissed, raced>>
    BY <1>10, <2>1 DEF Restart, ConfigInv, seenVars
  <2> QED
    BY <1>3, <2>1, <2>2
<1>11. CASE UNCHANGED vars
  BY <1>3, <1>11 DEF vars, configVars, seenVars, Updating
<1> QED
  BY <1>4, <1>5, <1>6, <1>7, <1>8, <1>9, <1>10, <1>11 DEF Next

LEMMA MonitoringNext == MonitoringInv /\ [Next]_vars => MonitoringInv'
<1> SUFFICES ASSUME MonitoringInv, [Next]_vars
             PROVE  MonitoringInv'
  OBVIOUS
<1>1. ~contended' => ~contended
  BY UpdatesAside DEF Next, vars, configVars, Begin, Stamp, Record, Acknowledge, UpdateSettings,
     Update, Write, Assign, Replace, Restart, MonitoringInv, TypeOK
<1> QED
  BY <1>1, TypeStep, RefreshKept, ClockStep, ConfigStep, NoticeStep DEF MonitoringInv

\* The variables of the web interface keep their types.
THEOREM TypeCorrect == Spec => []TypeOK
<1>1. MonitoringInv => TypeOK
  BY DEF MonitoringInv
<1> QED
  BY MonitoringInit, MonitoringNext, <1>1, PTL DEF Spec

\* queue_storage_refresh (web.py): of all requests one refresh is on its way, and the
\* status that is shown is its status.
THEOREM OneRefresh == Spec => []RefreshIsOne
<1>1. MonitoringInv => RefreshIsOne
  <2> SUFFICES ASSUME MonitoringInv
               PROVE  RefreshIsOne
    OBVIOUS
  <2>1. Cardinality(Refreshing) <= 1
    <3>1. CASE Refreshing = {}
      BY <3>1, FS_EmptySet
    <3>2. CASE Refreshing # {}
      <4>1. PICK r \in Refreshing : Refreshing = {r}
        BY <3>2 DEF MonitoringInv, RefreshInv
      <4>2. Cardinality({r}) = 1
        BY FS_Singleton
      <4> QED
        BY <4>1, <4>2
    <3> QED
      BY <3>1, <3>2
  <2>2. Refreshing # {} => refresh \in {"queued", "running"}
    BY DEF MonitoringInv, RefreshInv, Refreshing, RefreshPc
  <2> QED
    BY <2>1, <2>2 DEF MonitoringInv, RefreshInv, RefreshIsOne
<1> QED
  BY MonitoringInit, MonitoringNext, <1>1, PTL DEF Spec

\* acknowledge_task_errors (web.py): of the newest rows a failure is brought up unless
\* it was recorded when a user acknowledged, or had read the clock by then.
THEOREM NoticesHold == Spec => []NoticesFollowUsers
<1>1. MonitoringInv => NoticesFollowUsers
  <2> SUFFICES ASSUME MonitoringInv, ~contended, NEW j \in Listed, status[j] = "failed"
               PROVE  /\ j \in Unacknowledged => <<j, finished[j]>> \notin dismissed
                      /\ j \notin Unacknowledged => <<j, finished[j]>> \in dismissed \union raced
    BY DEF NoticesFollowUsers
  <2>1. /\ acknowledged \in Nat /\ j \in Job /\ finished[j] \in Nat
        /\ j \in Unacknowledged <=> (acknowledged = 0 \/ finished[j] > acknowledged)
    BY DEF MonitoringInv, TypeOK, Time, Listed, Unacknowledged
  <2>2. <<j, finished[j]>> \in dismissed => acknowledged > 0 /\ finished[j] <= acknowledged
    BY DEF MonitoringInv, NoticeInv
  <2>3. acknowledged > 0 /\ finished[j] <= acknowledged =>
            <<j, finished[j]>> \in dismissed \union raced
    BY <2>1 DEF MonitoringInv, NoticeInv, Covered
  <2> QED
    BY <2>1, <2>2, <2>3
<1> QED
  BY MonitoringInit, MonitoringNext, <1>1, PTL DEF Spec

------------------------------------------------------------------------------
(***************************************************************************)
(* The label of a device.  The score after a walk over the counters is a   *)
(* recursive function of the order, so the facts about it are proved by    *)
(* induction on the length of the walk: Climb is that induction, stated    *)
(* over a set, from the well-foundedness of the finite sets.               *)
(***************************************************************************)

\* Induction up to n, over a set: the rule of the library takes an operator.
LEMMA Climb ==
    ASSUME NEW n \in Nat, NEW S, 0 \in S,
           \A i \in 1..n : i - 1 \in S => i \in S
    PROVE  0..n \subseteq S
<1> SUFFICES ASSUME NEW low \in 0..n, low \notin S
             PROVE  FALSE
  OBVIOUS
<1> DEFINE Missed == {A \in SUBSET (0..n) : \E m \in 0..n : A = 0..m /\ m \notin S}
           R == StrictSubsetOrdering(0..n)
<1>1. IsFiniteSet(0..n)
  BY FS_Interval
<1>2. Missed \subseteq FiniteSubsetsOf(0..n)
  <2>1. ASSUME NEW A \in SUBSET (0..n)
        PROVE  IsFiniteSet(A)
    BY <1>1, FS_Subset
  <2> QED
    BY <2>1 DEF FiniteSubsetsOf
<1>3. Missed # {}
  <2>1. 0..low \in Missed
    OBVIOUS
  <2> QED
    BY <2>1
<1>4. PICK A \in Missed : \A B \in Missed : <<B, A>> \notin R
  <2>1. IsWellFoundedOn(R, FiniteSubsetsOf(0..n))
    BY FS_StrictSubsetOrderingWellFounded
  <2> HIDE DEF Missed, R
  <2> QED
    BY <1>2, <1>3, <2>1, WFMin
<1>5. PICK m \in 0..n : A = 0..m /\ m \notin S
  OBVIOUS
<1>6. m - 1 \notin S /\ m - 1 \in 0..n
  <2>1. m # 0 /\ m \in 1..n
    BY <1>5
  <2> QED
    BY <1>5, <2>1
<1>7. 0..(m - 1) \in Missed
  BY <1>6
<1>8. <<0..(m - 1), A>> \in R
  <2>1. m \in A /\ m \notin 0..(m - 1) /\ 0..(m - 1) \subseteq A
    BY <1>5
  <2>2. 0..(m - 1) \subseteq 0..n /\ A \subseteq 0..n
    BY <1>5
  <2> QED
    BY <2>1, <2>2 DEF StrictSubsetOrdering
<1> QED
  BY <1>4, <1>7, <1>8

\* A function that is defined step by step up to n exists.
LEMMA Recursion ==
    ASSUME NEW n \in Nat, NEW b \in Int, NEW h \in [(1..n) -> [Int -> Int]]
    PROVE  \E g \in [0..n -> Int] :
               g = [i \in 0..n |-> IF i = 0 THEN b ELSE h[i][g[i - 1]]]
<1> DEFINE Upto(m, g) == g[0] = b /\ \A i \in 1..m : g[i] = h[i][g[i - 1]]
           S == {m \in 0..n : \E g \in [0..m -> Int] : Upto(m, g)}
<1>1. 0 \in S
  <2> DEFINE e == [i \in 0..0 |-> b]
  <2>1. e \in [0..0 -> Int] /\ Upto(0, e)
    OBVIOUS
  <2> HIDE DEF e, Upto
  <2>2. \E g \in [0..0 -> Int] : Upto(0, g)
    BY <2>1
  <2> QED
    BY <2>2
<1>2. ASSUME NEW m \in 1..n, m - 1 \in S
      PROVE  m \in S
  <2>1. PICK prefix \in [0..(m - 1) -> Int] : Upto(m - 1, prefix)
    BY <1>2
  <2> DEFINE e == [i \in 0..m |-> IF i = m THEN h[m][prefix[m - 1]] ELSE prefix[i]]
  <2>2. h[m][prefix[m - 1]] \in Int
    <3>1. prefix[m - 1] \in Int /\ h[m] \in [Int -> Int]
      OBVIOUS
    <3> QED
      BY <3>1
  <2>3. e \in [0..m -> Int]
    BY <2>2
  <2>4. e[0] = b
    BY <2>1
  <2>5. ASSUME NEW i \in 1..m
        PROVE  e[i] = h[i][e[i - 1]]
    <3>1. e[i - 1] = prefix[i - 1]
      OBVIOUS
    <3>2. CASE i = m
      BY <3>1, <3>2
    <3>3. CASE i # m
      <4>1. i \in 1..(m - 1) /\ e[i] = prefix[i]
        BY <3>3
      <4> QED
        BY <2>1, <3>1, <4>1
    <3> QED
      BY <3>2, <3>3
  <2>6. Upto(m, e)
    <3> HIDE DEF e
    <3> QED
      BY <2>4, <2>5
  <2> HIDE DEF e, Upto
  <2>7. \E g \in [0..m -> Int] : Upto(m, g)
    BY <2>3, <2>6
  <2> QED
    BY <2>7
<1>3. n \in S
  <2> HIDE DEF S
  <2>1. 0..n \subseteq S
    BY <1>1, <1>2, Climb
  <2> QED
    BY <2>1
<1>4. PICK g \in [0..n -> Int] : Upto(n, g)
  BY <1>3
<1>5. g = [i \in 0..n |-> IF i = 0 THEN b ELSE h[i][g[i - 1]]]
  <2>1. ASSUME NEW i \in 0..n
        PROVE  g[i] = IF i = 0 THEN b ELSE h[i][g[i - 1]]
    BY <1>4
  <2> QED
    BY <2>1
<1> QED
  BY <1>5

\* What a counter takes from the score.
Loss(name, row) == IF row.raw > 0 THEN Penalty(name, row.raw) ELSE 0

Row == [normalized : Int, threshold : Int, raw : Int]

\* One counter: the score does not rise, and is capped where a threshold is reached.
LEMMA CountFact ==
    ASSUME NEW score \in Int, NEW name, NEW row \in Row
    PROVE  /\ Loss(name, row) \in Nat
           /\ Count(score, name, row) \in Int
           /\ Count(score, name, row) <= score
           /\ Reached(row) => Count(score, name, row) <= 20
           /\ ~Reached(row) => Count(score, name, row) = score - Loss(name, row)
<1>1. row.raw \in Int
  BY DEF Row
<1>2. Loss(name, row) \in Nat
  BY <1>1 DEF Loss, Penalty, Least
<1>3. Count(score, name, row) =
          (IF Reached(row) THEN Least(score, 20) ELSE score) - Loss(name, row)
  BY <1>1 DEF Count, Loss, Least, Penalty
<1> QED
  BY <1>2, <1>3 DEF Least

\* A counter that is no better takes no less, and has reached its threshold if the better one has.
LEMMA WorseRow ==
    ASSUME NEW name, NEW a \in Row, NEW b \in Row,
           b.raw >= a.raw, b.threshold = a.threshold,
           b.normalized \in 1..a.normalized \/ b.normalized = a.normalized
    PROVE  /\ Loss(name, a) <= Loss(name, b)
           /\ Reached(a) => Reached(b)
<1>1. Loss(name, a) <= Loss(name, b)
  BY DEF Loss, Penalty, Least, Row
<1>2. Reached(a) => Reached(b)
  BY DEF Reached, Row
<1> QED
  BY <1>1, <1>2

LEMMA StartFact ==
    ASSUME NEW d \in Documents
    PROVE  /\ StartScore(d) \in Int /\ StartScore(d) <= 100
           /\ ~d.passed => StartScore(d) <= 20
  BY DocumentTypes DEF StartScore, Least, Clip, NoWear


\* An order as a sequence.
LEMMA OrderLength ==
    ASSUME NEW n \in Nat, NEW N, NEW order \in [1..n -> N]
    PROVE  Len(order) = n
  BY SeqDef, LenProperties

\* The scores are what their definition says.
LEMMA ScoresFact ==
    ASSUME NEW d \in Documents, NEW n \in Nat, NEW order \in [1..n -> DOMAIN d.rows]
    PROVE  /\ Scores(d, order) \in [0..n -> Int]
           /\ Scores(d, order)[0] = StartScore(d)
           /\ \A i \in 1..n :
                 Scores(d, order)[i] = Count(Scores(d, order)[i - 1], order[i], d.rows[order[i]])
<1> DEFINE h == [i \in 1..n |-> [s \in Int |-> Count(s, order[i], d.rows[order[i]])]]
           Def(f) == f = [i \in 0..n |-> IF i = 0 THEN StartScore(d)
                                         ELSE Count(f[i - 1], order[i], d.rows[order[i]])]
<1>1. \A i \in 1..n : d.rows[order[i]] \in Row
  BY DocumentTypes DEF Row
<1>2. h \in [(1..n) -> [Int -> Int]]
  BY <1>1, CountFact
<1>3. StartScore(d) \in Int
  BY StartFact
<1>4. PICK g \in [0..n -> Int] :
          g = [i \in 0..n |-> IF i = 0 THEN StartScore(d) ELSE h[i][g[i - 1]]]
  <2> HIDE DEF h
  <2> QED
    BY <1>2, <1>3, Recursion
<1>5. Def(g)
  <2>1. \A i \in 1..n : h[i][g[i - 1]] = Count(g[i - 1], order[i], d.rows[order[i]])
    OBVIOUS
  <2> HIDE DEF h
  <2> QED
    BY <1>4, <2>1
<1>6. Scores(d, order) = CHOOSE f : Def(f)
  <2>1. Len(order) = n
    BY OrderLength
  <2> QED
    BY <2>1 DEF Scores
<1>7. Def(Scores(d, order))
  <2> HIDE DEF Def
  <2> QED
    BY <1>5, <1>6
<1> DEFINE f == Scores(d, order)
<1>8. f[0] = StartScore(d)
  BY <1>7
<1>9. \A i \in 1..n : f[i] = Count(f[i - 1], order[i], d.rows[order[i]])
  BY <1>7
<1>10. f \in [0..n -> Int]
  <2> DEFINE S == {i \in 0..n : f[i] \in Int}
  <2>1. 0 \in S
    BY <1>3, <1>8
  <2>2. ASSUME NEW i \in 1..n, i - 1 \in S
        PROVE  i \in S
    <3>1. d.rows[order[i]] \in Row /\ f[i - 1] \in Int
      BY <1>1, <2>2
    <3> HIDE DEF f
    <3>2. Count(f[i - 1], order[i], d.rows[order[i]]) \in Int
      BY <3>1, CountFact
    <3>3. f[i] \in Int
      BY <1>9, <3>2
    <3> QED
      BY <3>3
  <2>3. 0..n \subseteq S
    <3> HIDE DEF S
    <3> QED
      BY <2>1, <2>2, Climb
  <2>4. f = [i \in 0..n |-> f[i]]
    BY <1>7
  <2> HIDE DEF f
  <2> QED
    BY <2>3, <2>4
<1> QED
  BY <1>8, <1>9, <1>10

\* Where the device failed its test or a counter reached its threshold, the score is low.
LEMMA CapHolds ==
    ASSUME NEW d \in Documents, NEW n \in Nat, NEW order \in [1..n -> DOMAIN d.rows],
           ~d.passed \/ \E i \in 1..n : Reached(d.rows[order[i]])
    PROVE  Scores(d, order)[n] <= 20
<1> DEFINE f == Scores(d, order)
           Low(i) == ~d.passed \/ \E k \in 1..i : Reached(d.rows[order[k]])
           S == {i \in 0..n : Low(i) => f[i] <= 20}
<1>1. /\ f \in [0..n -> Int] /\ f[0] = StartScore(d)
      /\ \A i \in 1..n : f[i] = Count(f[i - 1], order[i], d.rows[order[i]])
  BY ScoresFact
<1> HIDE DEF f
<1>2. 0 \in S
  <2>1. Low(0) => f[0] <= 20
    BY <1>1, StartFact
  <2> QED
    BY <2>1
<1>3. ASSUME NEW i \in 1..n, i - 1 \in S
      PROVE  i \in S
  <2>1. d.rows[order[i]] \in Row /\ f[i - 1] \in Int /\ f[i] \in Int
    BY <1>1, DocumentTypes DEF Row
  <2>2. f[i] <= f[i - 1] /\ (Reached(d.rows[order[i]]) => f[i] <= 20)
    BY <1>1, <2>1, CountFact
  <2>3. Low(i) => Low(i - 1) \/ Reached(d.rows[order[i]])
    OBVIOUS
  <2>4. Low(i - 1) => f[i - 1] <= 20
    BY <1>3
  <2>5. Low(i) => f[i] <= 20
    <3> HIDE DEF Low
    <3> QED
      BY <2>1, <2>2, <2>3, <2>4
  <2> QED
    BY <2>5
<1>4. n \in S
  <2> HIDE DEF S
  <2>1. 0..n \subseteq S
    BY <1>2, <1>3, Climb
  <2> QED
    BY <2>1
<1> QED
  BY <1>4 DEF f

\* The sums of the values of a sequence of numbers.
Sums(v, n) ==
    LET sum[i \in 0..n] == IF i = 0 THEN 0 ELSE sum[i - 1] + v[i]
    IN  sum

LEMMA SumsFact ==
    ASSUME NEW n \in Nat, NEW v \in [1..n -> Nat]
    PROVE  /\ Sums(v, n) \in [0..n -> Nat]
           /\ Sums(v, n)[0] = 0
           /\ \A i \in 1..n : Sums(v, n)[i] = Sums(v, n)[i - 1] + v[i]
<1> DEFINE h == [i \in 1..n |-> [s \in Int |-> s + v[i]]]
           Def(f) == f = [i \in 0..n |-> IF i = 0 THEN 0 ELSE f[i - 1] + v[i]]
<1>1. h \in [(1..n) -> [Int -> Int]]
  OBVIOUS
<1>2. PICK g \in [0..n -> Int] : g = [i \in 0..n |-> IF i = 0 THEN 0 ELSE h[i][g[i - 1]]]
  <2> DEFINE b == 0
  <2>1. b \in Int
    OBVIOUS
  <2> HIDE DEF h, b
  <2>2. \E g \in [0..n -> Int] : g = [i \in 0..n |-> IF i = 0 THEN b ELSE h[i][g[i - 1]]]
    BY <1>1, <2>1, Recursion
  <2> USE DEF b
  <2> QED
    BY <2>2
<1>3. Def(g)
  <2>1. \A i \in 1..n : h[i][g[i - 1]] = g[i - 1] + v[i]
    OBVIOUS
  <2>2. g = [i \in 0..n |-> g[i]]
    OBVIOUS
  <2>3. ASSUME NEW i \in 0..n
        PROVE  g[i] = IF i = 0 THEN 0 ELSE g[i - 1] + v[i]
    <3>1. g[i] = IF i = 0 THEN 0 ELSE h[i][g[i - 1]]
      <4> HIDE DEF h
      <4> QED
        BY <1>2
    <3>2. i # 0 => i \in 1..n
      OBVIOUS
    <3> HIDE DEF h
    <3> QED
      BY <2>1, <3>1, <3>2
  <2> HIDE DEF h
  <2> QED
    BY <2>2, <2>3
<1>4. Def(Sums(v, n))
  <2>1. Sums(v, n) = CHOOSE f : Def(f)
    BY DEF Sums
  <2> HIDE DEF Def
  <2> QED
    BY <1>3, <2>1
<1> DEFINE f == Sums(v, n)
<1>5. f[0] = 0 /\ \A i \in 1..n : f[i] = f[i - 1] + v[i]
  BY <1>4
<1>6. f \in [0..n -> Nat]
  <2> DEFINE S == {i \in 0..n : f[i] \in Nat}
  <2>1. f = [i \in 0..n |-> f[i]]
    BY <1>4
  <2> HIDE DEF f
  <2>2. 0 \in S
    BY <1>5
  <2>3. ASSUME NEW i \in 1..n, i - 1 \in S
        PROVE  i \in S
    BY <1>5, <2>3
  <2>4. 0..n \subseteq S
    <3> HIDE DEF S
    <3> QED
      BY <2>2, <2>3, Climb
  <2> QED
    BY <2>1, <2>4
<1> QED
  BY <1>5, <1>6

\* Where no counter has reached its threshold, the score is what is left after all of them.
LEMMA ScoreIsRest ==
    ASSUME NEW d \in Documents, NEW n \in Nat, NEW order \in [1..n -> DOMAIN d.rows],
           \A i \in 1..n : ~Reached(d.rows[order[i]])
    PROVE  Scores(d, order)[n] =
               StartScore(d) - Sums([i \in 1..n |-> Loss(order[i], d.rows[order[i]])], n)[n]
<1> DEFINE f == Scores(d, order)
           v == [i \in 1..n |-> Loss(order[i], d.rows[order[i]])]
           g == Sums(v, n)
           b == StartScore(d)
           S == {i \in 0..n : f[i] = b - g[i]}
<1>1. /\ f \in [0..n -> Int] /\ f[0] = b
      /\ \A i \in 1..n : f[i] = Count(f[i - 1], order[i], d.rows[order[i]])
  BY ScoresFact
<1>2. \A i \in 1..n : d.rows[order[i]] \in Row
  BY DocumentTypes DEF Row
<1>3. v \in [1..n -> Nat]
  BY <1>2, CountFact
<1>4. \A i \in 1..n : v[i] = Loss(order[i], d.rows[order[i]])
  OBVIOUS
<1>5. b \in Int
  BY StartFact
<1> HIDE DEF f, v, b
<1>6. /\ g \in [0..n -> Nat] /\ g[0] = 0
      /\ \A i \in 1..n : g[i] = g[i - 1] + v[i]
  BY <1>3, SumsFact
<1> HIDE DEF g
<1>7. 0 \in S
  BY <1>1, <1>5, <1>6
<1>8. ASSUME NEW i \in 1..n, i - 1 \in S
      PROVE  i \in S
  <2>1. f[i - 1] \in Int /\ f[i - 1] = b - g[i - 1]
    BY <1>1, <1>8
  <2> DEFINE row == d.rows[order[i]]
  <2>2. f[i] = f[i - 1] - v[i]
    <3>1. row \in Row /\ ~Reached(row)
      BY <1>2
    <3>2. v[i] = Loss(order[i], row) /\ f[i] = Count(f[i - 1], order[i], row)
      BY <1>1, <1>4
    <3> HIDE DEF row
    <3>3. Count(f[i - 1], order[i], row) = f[i - 1] - Loss(order[i], row)
      BY <2>1, <3>1, CountFact
    <3> QED
      BY <3>2, <3>3
  <2>3. /\ v[i] \in Nat /\ g[i - 1] \in Nat /\ g[i] = g[i - 1] + v[i]
    BY <1>3, <1>6
  <2>4. f[i] = b - g[i]
    BY <1>5, <2>1, <2>2, <2>3
  <2> QED
    BY <2>4
<1>9. n \in S
  <2> HIDE DEF S
  <2>1. 0..n \subseteq S
    BY <1>7, <1>8, Climb
  <2> QED
    BY <2>1
<1> QED
  BY <1>9 DEF f, g, v, b

LEMMA SumsGrow ==
    ASSUME NEW n \in Nat, NEW v \in [1..n -> Nat], NEW w \in [1..n -> Nat],
           \A i \in 1..n : v[i] <= w[i]
    PROVE  Sums(v, n)[n] <= Sums(w, n)[n]
<1> DEFINE f == Sums(v, n)
           g == Sums(w, n)
           S == {i \in 0..n : f[i] <= g[i]}
<1>1. /\ f \in [0..n -> Nat] /\ f[0] = 0 /\ \A i \in 1..n : f[i] = f[i - 1] + v[i]
      /\ g \in [0..n -> Nat] /\ g[0] = 0 /\ \A i \in 1..n : g[i] = g[i - 1] + w[i]
  BY SumsFact
<1> HIDE DEF f, g
<1>2. 0 \in S
  BY <1>1
<1>3. ASSUME NEW i \in 1..n, i - 1 \in S
      PROVE  i \in S
  <2>1. /\ f[i - 1] \in Nat /\ g[i - 1] \in Nat /\ v[i] \in Nat /\ w[i] \in Nat
        /\ f[i - 1] <= g[i - 1] /\ v[i] <= w[i]
    BY <1>1, <1>3
  <2>2. f[i] = f[i - 1] + v[i] /\ g[i] = g[i - 1] + w[i]
    BY <1>1
  <2>3. f[i] <= g[i]
    BY <2>1, <2>2
  <2> QED
    BY <2>3
<1>4. n \in S
  <2> HIDE DEF S
  <2>1. 0..n \subseteq S
    BY <1>2, <1>3, Climb
  <2> QED
    BY <2>1
<1> QED
  BY <1>4 DEF f, g

\* What the counters of a set take, in an order.
Part(w, order, n, A) == [i \in 1..n |-> IF order[i] \in A THEN w[order[i]] ELSE 0]

\* An order of some of the names.
InOrder(order, n, N) ==
    order \in [1..n -> N] /\ \A i, k \in 1..n : i # k => order[i] # order[k]

\* An order that leaves out no name.
WalksAll(order, n, N) == \A x \in N : \E i \in 1..n : order[i] = x

\* Numbers that are no more than what the counters take.
Within(v, w, order, n) == v \in [1..n -> Nat] /\ \A i \in 1..n : v[i] <= w[order[i]]

\* One counter more takes its own loss more, wherever it comes in the order.
LEMMA OneMore ==
    ASSUME NEW N, NEW w \in [N -> Nat], NEW n \in Nat, NEW order, InOrder(order, n, N),
           NEW A, NEW x, x \notin A, \E i \in 1..n : order[i] = x
    PROVE  Sums(Part(w, order, n, A \union {x}), n)[n] = Sums(Part(w, order, n, A), n)[n] + w[x]
<1>0. PICK at \in 1..n : order[at] = x
  OBVIOUS
<1> DEFINE v == Part(w, order, n, A)
           u == Part(w, order, n, A \union {x})
           f == Sums(v, n)
           g == Sums(u, n)
           S == {i \in 0..n : g[i] = f[i] + IF at <= i THEN w[x] ELSE 0}
<1>1. v \in [1..n -> Nat] /\ u \in [1..n -> Nat]
  BY DEF Part, InOrder
<1>2. w[x] \in Nat /\ \A i \in 1..n : u[i] = IF i = at THEN v[i] + w[x] ELSE v[i]
  BY <1>0 DEF Part, InOrder
<1> HIDE DEF v, u
<1>3. /\ f \in [0..n -> Nat] /\ f[0] = 0 /\ \A i \in 1..n : f[i] = f[i - 1] + v[i]
      /\ g \in [0..n -> Nat] /\ g[0] = 0 /\ \A i \in 1..n : g[i] = g[i - 1] + u[i]
  BY <1>1, SumsFact
<1> HIDE DEF f, g
<1> DEFINE c == w[x]
<1> HIDE DEF c
<1>4. 0 \in S
  BY <1>3
<1>5. ASSUME NEW i \in 1..n, i - 1 \in S
      PROVE  i \in S
  <2>1. /\ f[i - 1] \in Nat /\ g[i - 1] \in Nat /\ v[i] \in Nat /\ c \in Nat
        /\ f[i] = f[i - 1] + v[i] /\ g[i] = g[i - 1] + u[i]
    <3>1. c \in Nat
      BY <1>2 DEF c
    <3>2. f[i - 1] \in Nat /\ g[i - 1] \in Nat
      BY <1>3
    <3>3. v[i] \in Nat
      BY <1>1
    <3>4. f[i] = f[i - 1] + v[i] /\ g[i] = g[i - 1] + u[i]
      BY <1>3
    <3> QED
      BY <3>1, <3>2, <3>3, <3>4
  <2>2. g[i - 1] = f[i - 1] + IF at <= i - 1 THEN c ELSE 0
    BY <1>5 DEF c
  <2>3. u[i] = IF i = at THEN v[i] + c ELSE v[i]
    BY <1>2 DEF c
  <2>4. g[i] = f[i] + IF at <= i THEN c ELSE 0
    BY <2>1, <2>2, <2>3
  <2> QED
    BY <2>4 DEF c
<1>6. n \in S
  <2> HIDE DEF S
  <2>1. 0..n \subseteq S
    BY <1>4, <1>5, Climb
  <2> QED
    BY <2>1
<1>7. g[n] = f[n] + w[x]
  BY <1>6
<1> QED
  BY <1>7 DEF f, g, u, v

\* The counters of one device, each of them among those of another and no worse, take
\* no more together, whatever the two orders are.
LEMMA LessIsTaken ==
    ASSUME NEW N, NEW w \in [N -> Nat],
           NEW m \in Nat, NEW p, InOrder(p, m, N), NEW v, Within(v, w, p, m),
           NEW n \in Nat, NEW q, InOrder(q, n, N), WalksAll(q, n, N)
    PROVE  Sums(v, m)[m] <= Sums(Part(w, q, n, N), n)[n]
<1> USE DEF Within, WalksAll
<1> DEFINE f == Sums(v, m)
           Taken(i) == {p[k] : k \in 1..i}
           G(i) == Sums(Part(w, q, n, Taken(i)), n)[n]
           S == {i \in 0..m : f[i] <= G(i)}
<1>1. /\ f \in [0..m -> Nat] /\ f[0] = 0 /\ \A i \in 1..m : f[i] = f[i - 1] + v[i]
  BY SumsFact
<1> HIDE DEF f
<1>2. \A A : /\ Part(w, q, n, A) \in [1..n -> Nat]
             /\ Sums(Part(w, q, n, A), n)[n] \in Nat
  <2> SUFFICES ASSUME NEW A
               PROVE  /\ Part(w, q, n, A) \in [1..n -> Nat]
                      /\ Sums(Part(w, q, n, A), n)[n] \in Nat
    OBVIOUS
  <2>1. Part(w, q, n, A) \in [1..n -> Nat]
    BY DEF Part, InOrder
  <2> DEFINE some == Part(w, q, n, A)
  <2> HIDE DEF some
  <2>2. Sums(some, n) \in [0..n -> Nat]
    BY <2>1, SumsFact DEF some
  <2>3. Sums(some, n)[n] \in Nat
    BY <2>2
  <2> QED
    BY <2>1, <2>3 DEF some
<1>3. 0 \in S
  <2>1. G(0) \in Nat
    BY <1>2
  <2> HIDE DEF G
  <2> QED
    BY <1>1, <2>1
<1>4. ASSUME NEW i \in 1..m, i - 1 \in S
      PROVE  i \in S
  <2>1. PICK at \in 1..n : q[at] = p[i]
    BY DEF InOrder
  <2>2. Taken(i) = Taken(i - 1) \union {q[at]} /\ q[at] \notin Taken(i - 1)
    <3>1. 1..i = (1..(i - 1)) \union {i} /\ i \notin 1..(i - 1)
      OBVIOUS
    <3>2. \A k \in 1..(i - 1) : k \in 1..m /\ k # i
      OBVIOUS
    <3> QED
      BY <2>1, <3>1, <3>2 DEF InOrder
  <2>3. G(i) = G(i - 1) + w[p[i]]
    <3> HIDE DEF Taken
    <3> DEFINE A == Taken(i - 1)
               x == q[at]
    <3>1. x \notin A /\ \E k \in 1..n : q[k] = x
      BY <2>2
    <3> HIDE DEF A, x, Within, WalksAll
    <3>2. Sums(Part(w, q, n, A \union {x}), n)[n] = Sums(Part(w, q, n, A), n)[n] + w[x]
      BY <3>1, OneMore
    <3>3. Sums(Part(w, q, n, Taken(i - 1) \union {q[at]}), n)[n] = G(i - 1) + w[q[at]]
      BY <3>2 DEF A, x
    <3> QED
      BY <2>1, <2>2, <3>3
  <2>4. f[i - 1] <= G(i - 1) /\ G(i - 1) \in Nat
    BY <1>2, <1>4
  <2>5. /\ f[i - 1] \in Nat /\ v[i] \in Nat /\ w[p[i]] \in Nat /\ v[i] <= w[p[i]]
        /\ f[i] = f[i - 1] + v[i]
    BY <1>1 DEF InOrder
  <2>6. f[i] <= G(i)
    <3> HIDE DEF G
    <3> QED
      BY <2>3, <2>4, <2>5
  <2> QED
    BY <2>6
<1>5. f[m] <= G(m)
  <2>1. m \in S
    <3> HIDE DEF S
    <3>1. 0..m \subseteq S
      BY <1>3, <1>4, Climb
    <3> QED
      BY <3>1
  <2> QED
    BY <2>1
<1>6. G(m) <= Sums(Part(w, q, n, N), n)[n]
  <2> DEFINE all == Part(w, q, n, N)
             some == Part(w, q, n, Taken(m))
  <2>1. all \in [1..n -> Nat] /\ some \in [1..n -> Nat]
    BY <1>2
  <2>2. \A k \in 1..n : some[k] <= all[k]
    BY DEF Part, InOrder
  <2> HIDE DEF all, some
  <2>3. Sums(some, n)[n] <= Sums(all, n)[n]
    BY <2>1, <2>2, SumsGrow
  <2> QED
    BY <2>3 DEF all, some
<1>7. Sums(Part(w, q, n, N), n)[n] \in Nat
  BY <1>2
<1>8. f[m] \in Nat /\ G(m) \in Nat
  BY <1>1, <1>2
<1> DEFINE a == f[m]
           b == G(m)
           c == Sums(Part(w, q, n, N), n)[n]
<1>9. a \in Nat /\ b \in Nat /\ c \in Nat /\ a <= b /\ b <= c
  BY <1>5, <1>6, <1>7, <1>8
<1>10. a <= c
  <2> HIDE DEF a, b, c
  <2> QED
    BY <1>9
<1> QED
  BY <1>10 DEF f

\* An order of a document's counters walks each of them once.
LEMMA OrderFact ==
    ASSUME NEW d \in Documents, NEW order \in Orders(d)
    PROVE  /\ Cardinality(DOMAIN d.rows) \in Nat
           /\ Len(order) = Cardinality(DOMAIN d.rows)
           /\ InOrder(order, Cardinality(DOMAIN d.rows), DOMAIN d.rows)
           /\ WalksAll(order, Cardinality(DOMAIN d.rows), DOMAIN d.rows)
<1> DEFINE N == DOMAIN d.rows
           n == Cardinality(N)
<1>1. IsFiniteSet(N)
  BY DocumentTypes
<1>2. n \in Nat
  BY <1>1, FS_CardinalityType
<1>3. order \in [1..n -> N] /\ \A i, k \in 1..n : i # k => order[i] # order[k]
  BY DEF Orders, SetToSeqs
<1> HIDE DEF N
<1>4. Len(order) = n
  BY <1>2, <1>3, OrderLength
<1>5. order \in Injection(1..n, N)
  BY <1>3 DEF Injection, IsInjective
<1>6. Cardinality(1..n) = n
  <2>1. Cardinality(1..n) = IF 1 > n THEN 0 ELSE n - 1 + 1
    BY <1>2, FS_Interval
  <2> QED
    BY <1>2, <2>1
<1>7. order \in Surjection(1..n, N)
  BY <1>1, <1>5, <1>6, FS_Injection
<1>8. \A name \in N : \E i \in 1..n : order[i] = name
  BY <1>7 DEF Surjection
<1> QED
  BY <1>2, <1>3, <1>4, <1>8 DEF N, InOrder, WalksAll

\* A fault that caps the score.
Capped(d) == ~d.passed \/ \E name \in DOMAIN d.rows : Reached(d.rows[name])

LEMMA CappedIsLow ==
    ASSUME NEW d \in Documents, Capped(d), NEW order \in Orders(d)
    PROVE  Scores(d, order)[Len(order)] \in Int /\ Scores(d, order)[Len(order)] <= 20
<1> DEFINE N == DOMAIN d.rows
           n == Cardinality(N)
<1>1. /\ n \in Nat /\ Len(order) = n
      /\ order \in [1..n -> N] /\ \A name \in N : \E i \in 1..n : order[i] = name
  BY OrderFact DEF InOrder, WalksAll
<1>2. ~d.passed \/ \E i \in 1..n : Reached(d.rows[order[i]])
  BY <1>1 DEF Capped
<1> HIDE DEF n
<1>3. Scores(d, order) \in [0..n -> Int]
  BY <1>1, ScoresFact
<1>4. Scores(d, order)[n] <= 20
  BY <1>1, <1>2, CapHolds
<1>5. Scores(d, order)[n] \in Int
  BY <1>1, <1>3
<1> QED
  BY <1>1, <1>4, <1>5

LEMMA WorseScoresLess ==
    ASSUME NEW d \in Documents, NEW e \in Documents, Worse(d, e), ~Capped(e),
           NEW p \in Orders(d), NEW q \in Orders(e)
    PROVE  /\ Scores(d, p)[Len(p)] \in Int /\ Scores(e, q)[Len(q)] \in Int
           /\ Scores(e, q)[Len(q)] <= Scores(d, p)[Len(p)]
<1> DEFINE M == DOMAIN d.rows
           N == DOMAIN e.rows
           m == Cardinality(M)
           n == Cardinality(N)
           w == [name \in N |-> Loss(name, e.rows[name])]
           v == [i \in 1..m |-> Loss(p[i], d.rows[p[i]])]
           u == [k \in 1..n |-> Loss(q[k], e.rows[q[k]])]
           b == StartScore(e)
<1>1. m \in Nat /\ Len(p) = m /\ InOrder(p, m, M)
  BY OrderFact
<1>2. n \in Nat /\ Len(q) = n /\ InOrder(q, n, N) /\ WalksAll(q, n, N)
  BY OrderFact
<1>3. M \subseteq N
  BY DEF Worse
<1>4. InOrder(p, m, N)
  BY <1>1, <1>3 DEF InOrder
<1>5. ASSUME NEW name \in M
      PROVE  /\ d.rows[name] \in Row /\ e.rows[name] \in Row
             /\ Loss(name, d.rows[name]) <= Loss(name, e.rows[name])
             /\ ~Reached(d.rows[name])
  <2>1. d.rows[name] \in Row /\ e.rows[name] \in Row
    BY <1>3, DocumentTypes DEF Row
  <2>2. ~Reached(e.rows[name])
    BY <1>3 DEF Capped
  <2> DEFINE r == d.rows[name]
             t == e.rows[name]
  <2>3. /\ t.raw >= r.raw /\ t.threshold = r.threshold
        /\ t.normalized \in 1..r.normalized \/ t.normalized = r.normalized
    BY DEF Worse
  <2>4. Loss(name, r) <= Loss(name, t) /\ (Reached(r) => Reached(t))
    <3> HIDE DEF r, t
    <3>1. r \in Row /\ t \in Row
      BY <2>1 DEF r, t
    <3> QED
      BY <2>3, <3>1, WorseRow
  <2> QED
    BY <2>1, <2>2, <2>4
<1>6. w \in [N -> Nat] /\ u \in [1..n -> Nat] /\ v \in [1..m -> Nat]
  <2>1. \A name \in N : e.rows[name] \in Row
    BY DocumentTypes DEF Row
  <2>2. \A name \in N : Loss(name, e.rows[name]) \in Nat
    BY <2>1, CountFact
  <2>3. \A name \in M : Loss(name, d.rows[name]) \in Nat
    BY <1>5, CountFact
  <2> QED
    BY <1>1, <1>2, <2>2, <2>3 DEF InOrder
<1>7. u = Part(w, q, n, N)
  BY <1>2 DEF InOrder, Part
<1>8. Within(v, w, p, m)
  <2>1. \A i \in 1..m : v[i] <= w[p[i]]
    BY <1>1, <1>3, <1>5 DEF InOrder
  <2> HIDE DEF v
  <2> QED
    BY <1>6, <2>1 DEF Within
<1>9. Sums(v, m)[m] <= Sums(u, n)[n]
  <2> HIDE DEF m, n, w, u, v, M, N
  <2>1. Sums(v, m)[m] <= Sums(Part(w, q, n, N), n)[n]
    BY <1>1, <1>2, <1>4, <1>6, <1>8, LessIsTaken
  <2> QED
    BY <1>7, <2>1
<1>10. b \in Int /\ StartScore(d) = b
  <2>1. d.passed = e.passed /\ d.wear = e.wear
    BY DocumentTypes DEF Worse, Capped
  <2> QED
    BY <2>1, StartFact DEF StartScore
<1>11. Scores(d, p)[m] = b - Sums(v, m)[m]
  <2>1. \A i \in 1..m : ~Reached(d.rows[p[i]])
    BY <1>1, <1>5 DEF InOrder
  <2>2. p \in [1..m -> DOMAIN d.rows]
    BY <1>1 DEF InOrder
  <2> HIDE DEF m
  <2>3. Scores(d, p)[m] = StartScore(d) - Sums(v, m)[m]
    BY <1>1, <2>1, <2>2, ScoreIsRest
  <2> QED
    BY <1>10, <2>3
<1>12. Scores(e, q)[n] = b - Sums(u, n)[n]
  <2>1. q \in [1..n -> DOMAIN e.rows]
    BY <1>2 DEF InOrder
  <2>2. \A k \in 1..n : ~Reached(e.rows[q[k]])
    BY <2>1 DEF Capped
  <2> HIDE DEF n
  <2> QED
    BY <1>2, <2>1, <2>2, ScoreIsRest
<1>13. Sums(v, m)[m] \in Nat /\ Sums(u, n)[n] \in Nat
  <2> HIDE DEF m, n, u, v
  <2>1. Sums(v, m) \in [0..m -> Nat] /\ Sums(u, n) \in [0..n -> Nat]
    BY <1>1, <1>2, <1>6, SumsFact
  <2> QED
    BY <1>1, <1>2, <2>1
<1> DEFINE x == Sums(v, m)[m]
           y == Sums(u, n)[n]
<1> HIDE DEF x, y, b, m, n
<1>14. x \in Nat /\ y \in Nat /\ x <= y /\ Scores(d, p)[m] = b - x /\ Scores(e, q)[n] = b - y
  BY <1>9, <1>11, <1>12, <1>13 DEF x, y
<1> QED
  BY <1>1, <1>2, <1>10, <1>14

\* media_health (esxi.py): a device that reports no less damage never has the better
\* label, in whatever orders the counters of the two are walked.
LEMMA DamageIsShown == DamageShows
<1> SUFFICES ASSUME NEW d \in Documents, NEW e \in Documents, Worse(d, e),
                    NEW p \in Orders(d), NEW q \in Orders(e)
             PROVE  Grade(d, p) <= Grade(e, q)
  BY DEF DamageShows
<1> DEFINE a == Score(d, p)
           b == Score(e, q)
           Limits(x) == IF ~MediaFault(x) /\ x.wear # NoWear THEN <<50, 25, 10>> ELSE <<90, 70, 40>>
           A == {i \in 1..3 : a < Limits(d)[i]}
           B == {i \in 1..3 : b < Limits(e)[i]}
<1>1. A \subseteq B
  <2>1. CASE Capped(e)
    <3>1. MediaFault(e)
      BY <2>1 DEF Capped, MediaFault
    <3>2. b <= 20
      BY <2>1, CappedIsLow DEF Score, Clip, Least
    <3>3. b \in Int
      BY <2>1, CappedIsLow DEF Score, Clip, Least
    <3> HIDE DEF b
    <3>4. B = 1..3
      BY <3>1, <3>2, <3>3
    <3> QED
      BY <3>4
  <2>2. CASE ~Capped(e)
    <3> DEFINE s == Scores(d, p)[Len(p)]
               t == Scores(e, q)[Len(q)]
    <3>1. s \in Int /\ t \in Int /\ t <= s
      BY <2>2, WorseScoresLess
    <3> HIDE DEF s, t
    <3>2. a \in Int /\ b \in Int /\ b <= a
      <4>1. a = Clip(s) /\ b = Clip(t)
        BY DEF Score, s, t
      <4> QED
        BY <3>1, <4>1 DEF Clip, Least
    <3>3. d.wear = e.wear /\ (MediaFault(d) => MediaFault(e))
      <4>1. d.wear = e.wear
        BY DEF Worse
      <4>2. ~(~d.passed)
        BY <2>2 DEF Worse, Capped
      <4>3. ASSUME NEW name \in DOMAIN d.rows
            PROVE  /\ name \in DOMAIN e.rows
                   /\ Reached(d.rows[name]) => Reached(e.rows[name])
                   /\ d.rows[name].raw > 0 => e.rows[name].raw > 0
        <5> DEFINE r == d.rows[name]
                   x == e.rows[name]
        <5>1. /\ name \in DOMAIN e.rows
              /\ x.raw >= r.raw /\ x.threshold = r.threshold
              /\ x.normalized \in 1..r.normalized \/ x.normalized = r.normalized
          BY DEF Worse
        <5>2. r \in Row /\ x \in Row
          BY <5>1, DocumentTypes DEF Row
        <5> HIDE DEF r, x
        <5>3. Reached(r) => Reached(x)
          BY <5>1, <5>2, WorseRow
        <5>4. r.raw > 0 => x.raw > 0
          BY <5>1, <5>2 DEF Row
        <5> QED
          BY <5>1, <5>3, <5>4 DEF r, x
      <4>4. MediaFault(d) => MediaFault(e)
        BY <4>2, <4>3 DEF MediaFault
      <4> QED
        BY <4>1, <4>4
    <3> HIDE DEF a, b
    <3>4. \A i \in 1..3 : /\ Limits(d)[i] \in Int /\ Limits(e)[i] \in Int
                          /\ Limits(d)[i] <= Limits(e)[i]
      BY <3>3
    <3> HIDE DEF Limits
    <3> QED
      BY <3>2, <3>4
  <2> QED
    BY <2>1, <2>2
<1>2. IsFiniteSet(1..3)
  <2> DEFINE three == 3
  <2>1. three \in Nat
    OBVIOUS
  <2> HIDE DEF three
  <2>2. IsFiniteSet(1..three)
    BY <2>1, FS_Interval
  <2> QED
    BY <2>2 DEF three
<1>3. IsFiniteSet(A) /\ IsFiniteSet(B)
  BY <1>2, FS_Subset
<1>4. Cardinality(A) \in Nat /\ Cardinality(B) \in Nat
  BY <1>3, FS_CardinalityType
<1>5. Cardinality(A) <= Cardinality(B)
  BY <1>1, <1>3, FS_Subset
<1>6. Grade(d, p) = 1 + Cardinality(A) /\ Grade(e, q) = 1 + Cardinality(B)
  BY DEF Grade
<1> QED
  BY <1>4, <1>5, <1>6

\* media_health (esxi.py): in a saved inventory a device that reports no less damage
\* than another has no better label, in whatever order either was walked, for any
\* documents of any number of counters.
THEOREM LabelHolds == Spec => []LabelFollowsDamage
<1>1. LabelFollowsDamage
  BY DamageIsShown DEF LabelFollowsDamage
<1> QED
  BY <1>1, PTL
=============================================================================
