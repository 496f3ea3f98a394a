-------------------------- MODULE Schedules_proofs ----------------------------
(***************************************************************************)
(* Timers and exclusions of Schedules, for any number of policies, VMs,    *)
(* requests and restarts and under every fault: definitions have the       *)
(* timers they call for, and exclusions are kept and obeyed.               *)
(***************************************************************************)
EXTENDS Schedules, TLAPS

Row == [on : BOOLEAN, vms : SUBSET (VM \union {"none"})]

\* What a thread knows of a request for a definition, and for the configuration.
PolicyRecord == [pc : PolicyPc, op : {"apply", "delete"}, key : Key, value : Row,
                 live : BOOLEAN]
ConfigRecord == [pc : {"write", "assign"}, op : {"exclude", "include", "settings"}, vm : VM,
                 value : SUBSET VM]

Shape ==
    /\ request \in [Request -> {Idle} \union PolicyRecord \union ConfigRecord]
    /\ \A r \in Request : request[r].pc \in PolicyPc =>
           request[r].value = NoRow \/ request[r].value \in Definition(request[r].key)
    /\ \A r \in Request : request[r].pc = "add" => request[r].value.on
    /\ \A r \in Request : request[r].pc \in PolicyPc /\ request[r].op = "delete" =>
           request[r].value = NoRow
    /\ TypeOK /\ rows \in [Key -> Row]

\* Request r is at work on definition k.
Works(r, k) == request[r].pc \in PolicyPc /\ request[r].key = k

\* Definition k has the timer it calls for, or a request is about to give it.
KeyInv(k) ==
    /\ \A r \in Request, q \in Request : Works(r, k) /\ Works(q, k) => r = q
    /\ \A r \in Request : Works(r, k) =>
          /\ request[r].live
          /\ request[r].pc = "save" => timers[k] = {}
          /\ request[r].pc = "add" => request[r].value.vms \ removed = Armed(k) \ removed
    /\ ~Busy(k) => \/ timers[k] \ removed = Armed(k) \ removed
                   \/ timers[k] = {} /\ k \in unresumed

\* What an update of the configuration makes of the exclusions.
Result(r) ==
    IF request[r].op = "exclude" THEN config \union {request[r].vm}
    ELSE IF request[r].op = "include" THEN config \ {request[r].vm}
    ELSE config

\* One update at a time has the configuration, and wrote to the file what it will assign.
ConfigInv ==
    /\ \A r \in Updating, q \in Updating : r = q
    /\ Updating = {} => file = config
    /\ \A r \in Updating :
          /\ request[r].value = Result(r)
          /\ file = IF request[r].pc = "write" THEN config ELSE request[r].value
    /\ config = wanted

\* What a policy that goes on on a replaced service does not see was excluded since.
BreachInv ==
    /\ breach \subseteq {"replaced"} \X unseen
    /\ (\E k \in Key : oldRuns[k] # {}) => wanted \ oldConfig \subseteq unseen

SchedulesInv ==
    /\ Shape
    /\ \A k \in Key \ hurt : KeyInv(k)
    /\ ~contended => ConfigInv /\ BreachInv

------------------------------------------------------------------------------

(* Keys and definitions. *)

LEMMA KeyKinds ==
    /\ \A k \in PolicyKey : k \notin VmKey /\ k \in Key /\ Definition(k) = [on : BOOLEAN, vms : SUBSET VM]
    /\ \A k \in VmKey : /\ k \notin PolicyKey /\ k \in Key /\ k[2] \in VM
                        /\ Definition(k) = [on : BOOLEAN, vms : {{k[2]}}]
    /\ \A k \in Key : k \in PolicyKey \/ k \in VmKey
<1>1. ASSUME NEW k \in PolicyKey
      PROVE  k \notin VmKey /\ k \in Key
  BY DEF PolicyKey, VmKey, Key
<1>2. ASSUME NEW k \in VmKey
      PROVE  k \notin PolicyKey /\ k \in Key /\ k[2] \in VM
  BY DEF PolicyKey, VmKey, Key
<1> QED
  <2>1. \A k \in PolicyKey : Definition(k) = [on : BOOLEAN, vms : SUBSET VM]
    BY <1>1 DEF Definition
  <2>2. \A k \in VmKey : Definition(k) = [on : BOOLEAN, vms : {{k[2]}}]
    BY DEF Definition
  <2> QED
    BY <1>1, <1>2, <2>1, <2>2 DEF Key

LEMMA DefinitionIsRow ==
    /\ NoRow \in Row
    /\ \A k \in Key : Definition(k) \subseteq Row /\ \A row \in Definition(k) : row.vms \subseteq VM
<1>1. ASSUME NEW k \in Key, NEW row \in Definition(k)
      PROVE  row \in [on : BOOLEAN, vms : SUBSET VM]
  <2>1. CASE k \in PolicyKey
    BY <2>1, KeyKinds
  <2>2. CASE k \in VmKey
    <3>1. row \in [on : BOOLEAN, vms : {{k[2]}}]
      BY <2>2, KeyKinds
    <3>2. {k[2]} \in SUBSET VM
      BY <2>2, KeyKinds
    <3> QED
      BY <3>1, <3>2
  <2> QED
    BY <2>1, <2>2, KeyKinds
<1>2. ASSUME NEW row \in [on : BOOLEAN, vms : SUBSET VM]
      PROVE  row \in Row /\ row.vms \subseteq VM
  <2>1. row.vms \subseteq VM
    OBVIOUS
  <2>2. row.vms \in SUBSET (VM \union {"none"})
    BY <2>1
  <2> QED
    BY <2>1, <2>2 DEF Row
<1>3. NoRow \in Row
  BY DEF NoRow, Row
<1>4. ASSUME NEW k \in Key
      PROVE  Definition(k) \subseteq Row /\ \A row \in Definition(k) : row.vms \subseteq VM
  BY <1>1, <1>2
<1> QED
  BY <1>3, <1>4

\* What a migration at a start makes of a row is a row of its key.
LEMMA MigratedRows ==
    ASSUME Shape
    PROVE  /\ Migrated \in [Key -> Row]
           /\ \A k \in Key : Migrated[k] = NoRow \/ Migrated[k] \in Definition(k)
           /\ \A k \in VmKey : Migrated[k] = rows[k]
<1>1. CASE \A k \in PolicyKey : rows[k] = NoRow
  <2>1. ASSUME NEW k \in Key
        PROVE  LET row == IF k \in PolicyKey /\ k[2] \in VM
                            THEN rows[<<"vm-backup", k[2]>>] ELSE rows[k]
               IN  row \in Row /\ (row = NoRow \/ row \in Definition(k))
    <3>1. CASE k \in PolicyKey /\ k[2] \in VM
      <4>1. <<"vm-backup", k[2]>> \in VmKey
        BY <3>1 DEF VmKey
      <4>2. rows[<<"vm-backup", k[2]>>] \in Row
        BY <4>1, KeyKinds DEF Shape
      <4>3. \/ rows[<<"vm-backup", k[2]>>] = NoRow
            \/ rows[<<"vm-backup", k[2]>>] \in Definition(<<"vm-backup", k[2]>>)
        BY <4>1, KeyKinds DEF Shape, TypeOK
      <4>4. Definition(<<"vm-backup", k[2]>>) \subseteq Definition(k)
        <5>1. Definition(<<"vm-backup", k[2]>>) = [on : BOOLEAN, vms : {{k[2]}}]
          BY <4>1 DEF Definition
        <5>2. Definition(k) = [on : BOOLEAN, vms : SUBSET VM]
          BY <3>1, KeyKinds
        <5>3. {k[2]} \in SUBSET VM
          BY <3>1
        <5>4. ASSUME NEW row \in [on : BOOLEAN, vms : {{k[2]}}]
              PROVE  row \in [on : BOOLEAN, vms : SUBSET VM]
          BY <5>3
        <5> QED
          BY <5>1, <5>2, <5>4
      <4> QED
        BY <3>1, <4>2, <4>3, <4>4
    <3>2. CASE ~(k \in PolicyKey /\ k[2] \in VM)
      BY <3>2 DEF Shape, TypeOK
    <3> QED
      BY <3>1, <3>2
  <2>2. Migrated = [k \in Key |-> IF k \in PolicyKey /\ k[2] \in VM
                                    THEN rows[<<"vm-backup", k[2]>>] ELSE rows[k]]
    BY <1>1 DEF Migrated
  <2> QED
    BY <2>1, <2>2, KeyKinds
<1>2. CASE ~\A k \in PolicyKey : rows[k] = NoRow
  BY <1>2, KeyKinds DEF Migrated, Shape, TypeOK
<1> QED
  BY <1>1, <1>2

LEMMA ArmedType == Shape => \A k \in Key : Armed(k) \subseteq VM
BY DefinitionIsRow DEF Shape, TypeOK, Armed, NoRow

LEMMA SchedulesInit == Init => SchedulesInv
<1> SUFFICES ASSUME Init
             PROVE  SchedulesInv
  OBVIOUS
<1>1. \A r \in Request : request[r].pc = "idle"
  BY DEF Init, Idle
<1>2. Shape
  BY <1>1, SchedulesBounds, DefinitionIsRow DEF Init, Shape, TypeOK, PolicyPc
<1>3. \A k \in Key : KeyInv(k)
  BY <1>1 DEF Init, KeyInv, Works, PolicyPc, Armed, NoRow
<1>4. Updating = {}
  BY <1>1 DEF Updating
<1>5. ConfigInv /\ BreachInv
  BY <1>4 DEF Init, ConfigInv, BreachInv
<1> QED
  BY <1>2, <1>3, <1>5 DEF SchedulesInv

------------------------------------------------------------------------------

(* The types. *)

LEMMA ThreadShape ==
    ASSUME Shape, NEW r \in Request
    PROVE  /\ request[r].pc \in PolicyPc => request[r] \in PolicyRecord
           /\ request[r].pc \in {"write", "assign"} => request[r] \in ConfigRecord
BY DEF Shape, Idle, PolicyRecord, ConfigRecord, PolicyPc

LEMMA ShapeStep == Shape /\ [Next]_vars => Shape'
<1> SUFFICES ASSUME Shape, [Next]_vars
             PROVE  Shape'
  OBVIOUS
<1> USE SchedulesBounds DEF timerVars, runVars, configVars, boundVars
<1> DEFINE Threads == [Request -> {Idle} \union PolicyRecord \union ConfigRecord]
           Values == \A r \in Request :
               /\ request[r].pc \in PolicyPc => \/ request[r].value = NoRow
                                               \/ request[r].value \in Definition(request[r].key)
               /\ request[r].pc = "add" => request[r].value.on
               /\ request[r].pc \in PolicyPc /\ request[r].op = "delete" =>
                      request[r].value = NoRow
<1>1. ASSUME NEW r \in Request, Return(r)
      PROVE  request' \in Threads /\ Values'
  BY <1>1 DEF Return, Shape, Idle, PolicyPc
<1>2. ASSUME NEW r \in Request, NEW pc \in PolicyPc, request[r].pc \in PolicyPc, Goto(r, pc),
             pc = "add" => request[r].value.on
      PROVE  request' \in Threads /\ Values'
  <2>1. request[r] \in PolicyRecord
    BY <1>2, ThreadShape
  <2>2. [request[r] EXCEPT !.pc = pc] \in PolicyRecord
    BY <2>1 DEF PolicyRecord
  <2>3. request' = [request EXCEPT ![r] = [request[r] EXCEPT !.pc = pc]]
    BY <1>2, <2>1 DEF Goto, Shape
  <2>4. request' \in Threads
    BY <2>2, <2>3 DEF Shape
  <2>5. /\ request'[r].value = request[r].value /\ request'[r].key = request[r].key
        /\ request'[r].pc = pc /\ request'[r].op = request[r].op
        /\ \A q \in Request : q # r => request'[q] = request[q]
    BY <2>1, <2>3 DEF Shape, PolicyRecord
  <2> QED
    BY <1>2, <2>4, <2>5 DEF Shape
<1>3. ASSUME NEW r \in Request, request[r].pc = "write", Goto(r, "assign")
      PROVE  request' \in Threads /\ Values'
  <2>1. request[r] \in ConfigRecord
    BY <1>3, ThreadShape
  <2>2. [request[r] EXCEPT !.pc = "assign"] \in ConfigRecord
    BY <2>1 DEF ConfigRecord
  <2>3. request' = [request EXCEPT ![r] = [request[r] EXCEPT !.pc = "assign"]]
    BY <1>3, <2>1 DEF Goto, Shape
  <2> QED
    BY <2>1, <2>2, <2>3 DEF Shape, PolicyPc, ConfigRecord
<1>4. ASSUME request' \in Threads, Values'
      PROVE  \A r \in Request : request'[r].pc \in {"idle", "write", "assign"} \union PolicyPc
  BY <1>4 DEF Idle, PolicyRecord, ConfigRecord
<1>5. ASSUME NEW r \in Request, NEW k \in Key, NEW op \in {"apply", "delete"}, NEW value,
             value = NoRow \/ value \in Definition(k), op = "delete" => value = NoRow,
             Lookup(r, k, op, value)
      PROVE  Shape'
  <2> DEFINE new == [pc |-> IF timers[k] = {} THEN "save" ELSE "remove", op |-> op, key |-> k,
                     value |-> value, live |-> TRUE]
  <2>1. new \in PolicyRecord
    BY <1>5, DefinitionIsRow DEF PolicyRecord, PolicyPc
  <2>2. request' = [request EXCEPT ![r] = new]
    BY <1>5 DEF Lookup
  <2>3. request' \in Threads /\ Values'
    BY <1>5, <2>1, <2>2 DEF Shape
  <2>4. served' \in 0..MaxRequests
    BY <1>5 DEF Lookup, Serve, Shape, TypeOK
  <2>5. hurt' \subseteq Key
    BY <1>5 DEF Lookup, Shape, TypeOK
  <2> QED
    BY <1>4, <1>5, <2>3, <2>4, <2>5 DEF Lookup, Shape, TypeOK
<1>6. ASSUME NEW r \in Request, Apply(r) \/ DeletePolicy(r)
      PROVE  Shape'
  BY <1>5, <1>6, KeyKinds DEF Apply, DeletePolicy
<1>7. ASSUME NEW r \in Request, Remove(r) \/ Save(r) \/ AddTimer(r)
      PROVE  Shape'
  <2>1. request[r] \in PolicyRecord /\ request[r].key \in Key
    BY <1>7, ThreadShape DEF Remove, Save, AddTimer, PolicyPc, PolicyRecord
  <2>2. request' \in Threads /\ Values'
    BY <1>1, <1>2, <1>7 DEF Remove, Save, AddTimer, PolicyPc
  <2>3. hurt' \subseteq Key /\ unresumed' \subseteq VmKey
    BY <1>7, <2>1 DEF Remove, Save, AddTimer, Shape, TypeOK
  <2>4. CASE Remove(r)
    BY <1>4, <2>1, <2>2, <2>3, <2>4 DEF Remove, Shape, TypeOK
  <2>5. CASE Save(r)
    <3>1. request[r].value \in Row
      BY <2>1 DEF PolicyRecord
    <3>2. request[r].value = NoRow \/ request[r].value \in Definition(request[r].key)
      BY <2>5 DEF Save, Shape, PolicyPc
    <3>3. rows' \in [Key -> Row] /\ \A k \in Key : rows'[k] = NoRow \/ rows'[k] \in Definition(k)
      BY <2>1, <2>5, <3>1, <3>2 DEF Save, Shape, TypeOK
    <3> QED
      BY <1>4, <2>2, <2>3, <2>5, <3>3 DEF Save, Shape, TypeOK
  <2>6. CASE AddTimer(r)
    <3>1. request[r].value \in Definition(request[r].key)
      BY <2>6 DEF AddTimer, Shape, PolicyPc, NoRow
    <3>2. request[r].value.vms \subseteq VM
      BY <2>1, <3>1, DefinitionIsRow
    <3>3. timers' \in [Key -> SUBSET VM]
      BY <2>6, <3>2 DEF AddTimer, Shape, TypeOK
    <3> QED
      BY <1>4, <2>2, <2>3, <2>6, <3>3 DEF AddTimer, Shape, TypeOK
  <2> QED
    BY <1>7, <2>4, <2>5, <2>6
<1>8. ASSUME NEW v \in VM, DeleteVm(v)
      PROVE  Shape'
  <2>1. ASSUME NEW k \in Key
        PROVE  rows'[k] \in Row /\ (rows'[k] = NoRow \/ rows'[k] \in Definition(k))
    <3>1. rows[k] \in Row /\ (rows[k] = NoRow \/ rows[k] \in Definition(k))
      BY DEF Shape, TypeOK
    <3>2. CASE k \in PolicyKey /\ rows[k] # NoRow
      <4>1. rows'[k] = [rows[k] EXCEPT !.vms = @ \ {v}]
        BY <1>8, <3>2, KeyKinds DEF DeleteVm
      <4>2. rows[k] \in [on : BOOLEAN, vms : SUBSET VM]
        BY <3>1, <3>2, KeyKinds
      <4>3. rows'[k] \in [on : BOOLEAN, vms : SUBSET VM]
        BY <4>1, <4>2
      <4> QED
        BY <3>2, <4>3, KeyKinds DEF Row
    <3>3. CASE ~(k \in PolicyKey /\ rows[k] # NoRow)
      BY <1>8, <3>1, <3>3, DefinitionIsRow DEF DeleteVm
    <3> QED
      BY <3>2, <3>3
  <2>2. rows' \in [Key -> Row]
    BY <1>8, <2>1 DEF DeleteVm
  <2> QED
    BY <1>8, <2>1, <2>2 DEF DeleteVm, Shape, TypeOK
<1>9. ASSUME NEW r \in Request, NEW op \in {"exclude", "include", "settings"}, NEW v \in VM,
             NEW value \in SUBSET VM, Update(r, op, v, value)
      PROVE  Shape'
  <2> DEFINE new == [pc |-> "write", op |-> op, vm |-> v, value |-> value]
  <2>1. new \in ConfigRecord
    BY DEF ConfigRecord
  <2>2. request' = [request EXCEPT ![r] = new]
    BY <1>9 DEF Update
  <2>3. request' \in Threads /\ Values'
    BY <2>1, <2>2 DEF Shape, PolicyPc
  <2>4. served' \in 0..MaxRequests
    BY <1>9 DEF Update, Serve, Shape, TypeOK
  <2> QED
    BY <1>4, <1>9, <2>3, <2>4 DEF Update, Shape, TypeOK
<1>10. ASSUME NEW r \in Request, ExcludeVm(r) \/ IncludeVm(r) \/ UpdateSettings(r)
       PROVE  Shape'
  <2>1. config \in SUBSET VM
    BY DEF Shape, TypeOK
  <2> QED
    BY <1>9, <1>10, <2>1 DEF ExcludeVm, IncludeVm, UpdateSettings, Update
<1>11. ASSUME NEW r \in Request, WriteConfig(r) \/ AssignConfig(r)
       PROVE  Shape'
  <2>1. request[r].value \subseteq VM /\ request[r].vm \in VM
    BY <1>11, ThreadShape DEF WriteConfig, AssignConfig, ConfigRecord
  <2>2. request' \in Threads /\ Values'
    BY <1>1, <1>3, <1>11 DEF WriteConfig, AssignConfig
  <2>3. /\ file' \subseteq VM /\ config' \subseteq VM
        /\ wanted' \subseteq VM /\ unseen' \subseteq VM
    BY <1>11, <2>1 DEF WriteConfig, AssignConfig, Answer, Shape, TypeOK
  <2> QED
    BY <1>4, <1>11, <2>2, <2>3 DEF WriteConfig, AssignConfig, Shape, TypeOK
<1>12. ASSUME NEW k \in Key, Fire(k) \/ Run(k) \/ RunOld(k)
       PROVE  Shape'
  <2>1. breach' \subseteq {"current", "replaced"} \X VM
    BY <1>12 DEF Fire, Run, RunOld, BackUp, Shape, TypeOK
  <2> QED
    BY <1>12, <2>1 DEF Fire, Run, RunOld, Shape, TypeOK
<1>13. ASSUME StartScheduler
       PROVE  /\ rows' \in [Key -> Row]
              /\ \A k \in Key : rows'[k] = NoRow \/ rows'[k] \in Definition(k)
              /\ timers' \in [Key -> SUBSET VM] /\ up' \in BOOLEAN
              /\ removed' \subseteq VM /\ unresumed' \subseteq VmKey
  <2>1. /\ rows' \in [Key -> Row]
        /\ \A k \in Key : rows'[k] = NoRow \/ rows'[k] \in Definition(k)
    BY <1>13, MigratedRows DEF StartScheduler
  <2>2. \A k \in Key : Armed(k)' \subseteq VM
    BY <2>1, DefinitionIsRow DEF Armed, NoRow
  <2> QED
    BY <1>13, <2>1, <2>2 DEF StartScheduler
<1>14. CASE Restart
  <2>1. request' \in Threads /\ Values'
    BY <1>14 DEF Restart, Idle, PolicyPc
  <2>2. restarts' \in 0..MaxRestarts
    BY <1>14 DEF Restart, Interruption, Shape, TypeOK
  <2> QED
    BY <1>4, <1>13, <1>14, <2>1, <2>2 DEF Restart, Shape, TypeOK
<1>15. ASSUME NEW r \in Request, Replace(r)
       PROVE  Shape'
  <2>1. request[r].value \subseteq VM
    BY <1>15, ThreadShape DEF Replace, ConfigRecord
  <2>2. restarts' \in 0..MaxRestarts
    BY <1>15 DEF Replace, Interruption, Shape, TypeOK
  <2>3. ASSUME NEW q \in Request, q # r, request[q].pc \in PolicyPc
        PROVE  LET row == [request[q] EXCEPT !.live = FALSE]
               IN  /\ row \in PolicyRecord
                   /\ row.pc = request[q].pc /\ row.value = request[q].value
                   /\ row.key = request[q].key /\ row.op = request[q].op
    BY <2>3, ThreadShape DEF PolicyRecord
  <2>4. ASSUME request' = [q \in Request |->
                              IF q = r THEN Idle
                              ELSE IF request[q].pc \in PolicyPc
                                THEN [request[q] EXCEPT !.live = FALSE]
                              ELSE request[q]]
        PROVE  request' \in Threads /\ Values'
    <3>1. ASSUME NEW q \in Request
          PROVE  /\ request'[q] \in {Idle} \union PolicyRecord \union ConfigRecord
                 /\ request'[q].pc \in PolicyPc =>
                        \/ request'[q].value = NoRow
                        \/ request'[q].value \in Definition(request'[q].key)
                 /\ request'[q].pc = "add" => request'[q].value.on
                 /\ request'[q].pc \in PolicyPc /\ request'[q].op = "delete" =>
                        request'[q].value = NoRow
      <4>1. CASE q = r
        BY <2>4, <4>1 DEF Idle, PolicyPc
      <4>2. CASE q # r /\ request[q].pc \in PolicyPc
        BY <2>3, <2>4, <4>2 DEF Shape
      <4>3. CASE q # r /\ request[q].pc \notin PolicyPc
        BY <2>4, <4>3 DEF Shape, PolicyPc
      <4> QED
        BY <4>1, <4>2, <4>3
    <3> QED
      BY <2>4, <3>1
  <2>5. request' \in Threads /\ Values'
    BY <1>1, <1>15, <2>4 DEF Replace
  <2>6. CASE StartScheduler /\ config' = request[r].value /\ hurt' = {k \in Key : Busy(k)}
             /\ oldRuns' = runs /\ runs' = [k \in Key |-> {}] /\ oldConfig' = config
    BY <1>4, <1>13, <1>15, <2>1, <2>2, <2>5, <2>6 DEF Replace, Shape, TypeOK
  <2>7. CASE /\ up' = FALSE
             /\ timers' = [k \in Key |-> {}] /\ hurt' = Key
             /\ UNCHANGED <<rows, removed, unresumed, config, runs, oldRuns, oldConfig>>
    BY <1>4, <1>15, <2>2, <2>5, <2>7 DEF Replace, Shape, TypeOK
  <2> QED
    BY <1>15, <2>6, <2>7 DEF Replace
<1>16. CASE UNCHANGED vars
  BY <1>16 DEF vars, Shape, TypeOK
<1> QED
  BY <1>6, <1>7, <1>8, <1>10, <1>11, <1>12, <1>14, <1>15, <1>16 DEF Next

------------------------------------------------------------------------------

(* The exclusions. *)

LEMMA ThreadMoves ==
    ASSUME Shape, NEW r \in Request
    PROVE  /\ Return(r) => /\ request'[r].pc = "idle"
                            /\ \A q \in Request : q # r => request'[q] = request[q]
           /\ \A pc : request[r].pc # "idle" /\ Goto(r, pc) =>
                  /\ request'[r].pc = pc
                  /\ \A q \in Request : q # r => request'[q] = request[q]
<1>1. ASSUME Return(r)
      PROVE  /\ request'[r].pc = "idle"
             /\ \A q \in Request : q # r => request'[q] = request[q]
  BY <1>1 DEF Return, Idle, Shape
<1>2. ASSUME NEW pc, request[r].pc # "idle", Goto(r, pc)
      PROVE  /\ request'[r].pc = pc
             /\ \A q \in Request : q # r => request'[q] = request[q]
  <2>1. request[r] \in PolicyRecord \/ request[r] \in ConfigRecord
    BY <1>2 DEF Shape, Idle
  <2>2. request'[r] = [request[r] EXCEPT !.pc = pc]
    BY <1>2 DEF Goto, Shape
  <2> QED
    BY <1>2, <2>1, <2>2 DEF Goto, Shape, PolicyRecord, ConfigRecord
<1> QED
  BY <1>1, <1>2

\* A replaced service keeps the requests for definitions where they are.
LEMMA ReplaceMoves ==
    ASSUME Shape, NEW r \in Request, Replace(r), NEW q \in Request
    PROVE  /\ request'[q].pc \in {"idle", request[q].pc}
           /\ q = r => request'[q].pc = "idle"
           /\ request'[q].pc \in PolicyPc => request'[q].key = request[q].key
<1>1. CASE Return(r)
  BY <1>1, ThreadMoves DEF Replace, PolicyPc
<1>2. CASE q = r \/ request[q].pc \notin PolicyPc
  BY <1>1, <1>2 DEF Replace, Idle, PolicyPc
<1>3. CASE q # r /\ request[q].pc \in PolicyPc
  <2>1. LET row == [request[q] EXCEPT !.live = FALSE]
        IN  row.pc = request[q].pc /\ row.key = request[q].key
    BY <1>3, ThreadShape DEF PolicyRecord
  <2> QED
    BY <1>1, <1>3, <2>1 DEF Replace
<1> QED
  BY <1>2, <1>3

\* Requests for definitions leave the threads of the others as they are.
LEMMA PolicyThreads ==
    ASSUME Shape, NEW r \in Request,
           Apply(r) \/ DeletePolicy(r) \/ Remove(r) \/ Save(r) \/ AddTimer(r)
    PROVE  /\ \A q \in Request : q # r => request'[q] = request[q]
           /\ request[r].pc \in {"idle"} \union PolicyPc
           /\ request'[r].pc \in {"idle"} \union PolicyPc
           /\ UNCHANGED <<configVars, runVars>>
<1>1. CASE Apply(r) \/ DeletePolicy(r)
  BY <1>1 DEF Apply, DeletePolicy, Lookup, Serve, Idle, Shape, PolicyPc
<1>2. CASE Remove(r) \/ Save(r) \/ AddTimer(r)
  BY <1>2, ThreadMoves DEF Remove, Save, AddTimer, PolicyPc
<1> QED
  BY <1>1, <1>2

LEMMA ConfigStep ==
    Shape /\ ConfigInv /\ [Next]_vars /\ ~contended' => ConfigInv'
<1> SUFFICES ASSUME Shape, ConfigInv, [Next]_vars, ~contended'
             PROVE  ConfigInv'
  OBVIOUS
<1>1. ASSUME UNCHANGED configVars, Updating' = Updating,
             \A r \in Updating : request'[r] = request[r]
      PROVE  ConfigInv'
  BY <1>1 DEF ConfigInv, configVars, Result
<1>2. ASSUME NEW r \in Request,
             Apply(r) \/ DeletePolicy(r) \/ Remove(r) \/ Save(r) \/ AddTimer(r)
      PROVE  ConfigInv'
  <2>1. Updating' = Updating /\ \A q \in Updating : request'[q] = request[q]
    BY <1>2, PolicyThreads DEF Updating, PolicyPc
  <2> QED
    BY <1>1, <1>2, <2>1, PolicyThreads
<1>3. CASE \/ \E v \in VM : DeleteVm(v)
           \/ \E k \in Key : Fire(k) \/ Run(k) \/ RunOld(k)
           \/ UNCHANGED vars
  BY <1>1, <1>3 DEF DeleteVm, Fire, Run, RunOld, vars, Updating
<1>4. ASSUME NEW r \in Request, NEW op \in {"exclude", "include", "settings"}, NEW v \in VM,
             NEW value \in SUBSET VM, Update(r, op, v, value),
             value = IF op = "exclude" THEN config \union {v}
                     ELSE IF op = "include" THEN config \ {v} ELSE config
      PROVE  ConfigInv'
  <2>1. Updating = {} /\ UNCHANGED <<config, file, wanted>>
    BY <1>4 DEF Update
  <2>2. /\ request'[r] = [pc |-> "write", op |-> op, vm |-> v, value |-> value]
        /\ \A q \in Request : q # r => request'[q] = request[q]
    BY <1>4 DEF Update, Shape
  <2>3. Updating' = {r}
    BY <2>1, <2>2 DEF Updating
  <2> QED
    BY <1>4, <2>1, <2>2, <2>3 DEF ConfigInv, Result
<1>5. ASSUME NEW r \in Request, ExcludeVm(r) \/ IncludeVm(r) \/ UpdateSettings(r)
      PROVE  ConfigInv'
  <2>1. config \in SUBSET VM
    BY DEF Shape, TypeOK
  <2>2. PICK v \in VM : \/ Update(r, "exclude", v, config \union {v})
                          \/ Update(r, "include", v, config \ {v})
                          \/ Update(r, "settings", v, config)
    BY <1>5 DEF ExcludeVm, IncludeVm, UpdateSettings
  <2> QED
    BY <1>4, <2>1, <2>2
<1>6. ASSUME NEW r \in Request, WriteConfig(r) \/ AssignConfig(r) \/ Replace(r)
      PROVE  ConfigInv'
  <2>1. /\ Updating = {r} /\ request[r] \in ConfigRecord
        /\ request[r].value = Result(r) /\ config = wanted
        /\ file = IF request[r].pc = "write" THEN config ELSE request[r].value
    BY <1>6, ThreadShape DEF WriteConfig, AssignConfig, Replace, Updating, ConfigInv
  <2>2. ASSUME Return(r)
        PROVE  Updating' = {}
    BY <2>1, <2>2 DEF Return, Idle, Updating, Shape
  <2>3. CASE WriteConfig(r) /\ Return(r) /\ UNCHANGED file
    BY <2>1, <2>2, <2>3 DEF WriteConfig, ConfigInv
  <2>4. CASE WriteConfig(r) /\ Goto(r, "assign") /\ file' = request[r].value
    <3>1. /\ request'[r] = [request[r] EXCEPT !.pc = "assign"]
          /\ \A q \in Request : q # r => request'[q] = request[q]
      BY <2>1, <2>4 DEF Goto, Shape
    <3>2. Updating' = {r}
      BY <2>1, <3>1 DEF Updating, ConfigRecord
    <3>3. /\ request'[r].pc = "assign" /\ request'[r].value = request[r].value
          /\ request'[r].op = request[r].op /\ request'[r].vm = request[r].vm
      BY <2>1, <3>1 DEF ConfigRecord
    <3> QED
      BY <2>1, <2>4, <3>2, <3>3 DEF WriteConfig, ConfigInv, Result
  <2>5. CASE AssignConfig(r)
    BY <2>1, <2>2, <2>5 DEF AssignConfig, Answer, ConfigInv, Result, ConfigRecord
  <2>6. CASE Replace(r)
    <3>1. Updating' = {}
      BY <2>1, <2>6, ReplaceMoves DEF Updating
    <3> QED
      BY <2>1, <2>6, <3>1 DEF Replace, ConfigInv, Result
  <2> QED
    BY <1>6, <2>3, <2>4, <2>5, <2>6 DEF WriteConfig
<1>7. CASE Restart
  <2>1. Updating = {} /\ Updating' = {}
    BY <1>7 DEF Restart, Updating, Idle
  <2> QED
    BY <1>7, <2>1 DEF Restart, ConfigInv
<1> QED
  BY <1>2, <1>3, <1>5, <1>6, <1>7 DEF Next

LEMMA BreachStep ==
    Shape /\ ConfigInv /\ BreachInv /\ [Next]_vars /\ ~contended' => BreachInv'
<1> SUFFICES ASSUME Shape, ConfigInv, BreachInv, [Next]_vars
             PROVE  BreachInv'
  OBVIOUS
<1>1. ASSUME UNCHANGED <<wanted, unseen, oldRuns, oldConfig, breach>>
      PROVE  BreachInv'
  BY <1>1 DEF BreachInv
<1>2. ASSUME NEW k \in Key, Run(k)
      PROVE  BreachInv'
  <2>1. UNCHANGED breach
    BY <1>2 DEF Run, BackUp, ConfigInv
  <2> QED
    BY <1>1, <1>2, <2>1 DEF Run, configVars
<1>3. ASSUME NEW k \in Key, RunOld(k)
      PROVE  BreachInv'
  <2>1. wanted \ oldConfig \subseteq unseen
    BY <1>3 DEF RunOld, BreachInv
  <2>2. breach' \subseteq {"replaced"} \X unseen
    BY <1>3, <2>1 DEF RunOld, BackUp, BreachInv
  <2> QED
    BY <1>3, <2>1, <2>2 DEF RunOld, BreachInv, configVars
<1>4. ASSUME NEW r \in Request, AssignConfig(r)
      PROVE  BreachInv'
  <2>1. unseen \subseteq unseen' /\ UNCHANGED runVars
    BY <1>4 DEF AssignConfig, Answer
  <2>2. (\E k \in Key : oldRuns[k] # {}) => wanted' \ oldConfig \subseteq unseen'
    BY <1>4 DEF AssignConfig, Answer, BreachInv
  <2> QED
    BY <2>1, <2>2 DEF BreachInv, runVars
<1>5. ASSUME NEW r \in Request, Replace(r)
      PROVE  BreachInv'
  BY <1>1, <1>5 DEF Replace, ConfigInv, BreachInv
<1>6. CASE Restart
  BY <1>6 DEF Restart, BreachInv
<1>7. ASSUME NEW r \in Request,
             \/ Apply(r) \/ DeletePolicy(r) \/ Remove(r) \/ Save(r) \/ AddTimer(r)
             \/ ExcludeVm(r) \/ IncludeVm(r) \/ UpdateSettings(r) \/ WriteConfig(r)
      PROVE  BreachInv'
  BY <1>1, <1>7 DEF Apply, DeletePolicy, Lookup, Remove, Save, AddTimer, ExcludeVm, IncludeVm,
     UpdateSettings, Update, WriteConfig, runVars, configVars
<1>8. CASE \/ \E v \in VM : DeleteVm(v)
           \/ \E k \in Key : Fire(k)
           \/ UNCHANGED vars
  BY <1>1, <1>8 DEF DeleteVm, Fire, vars, runVars, configVars
<1> QED
  BY <1>2, <1>3, <1>4, <1>5, <1>6, <1>7, <1>8 DEF Next

------------------------------------------------------------------------------

(* The timers. *)

\* A step that leaves the request, the row and the timer of k alone.
LEMMA KeyAside ==
    ASSUME NEW k \in Key, KeyInv(k),
           \A r \in Request : Works(r, k)' <=> Works(r, k),
           \A r \in Request : Works(r, k) => request'[r] = request[r],
           timers'[k] = timers[k], rows'[k] = rows[k], UNCHANGED removed,
           k \in unresumed => k \in unresumed'
    PROVE  KeyInv(k)'
<1>1. Busy(k)' <=> Busy(k)
  BY DEF Busy, Works
<1>2. Armed(k)' = Armed(k)
  BY DEF Armed
<1> QED
  BY <1>1, <1>2 DEF KeyInv

LEMMA KeyStep ==
    Shape /\ (\A k \in Key \ hurt : KeyInv(k)) /\ [Next]_vars
        => \A k \in Key \ hurt' : KeyInv(k)'
<1> SUFFICES ASSUME Shape, \A k \in Key \ hurt : KeyInv(k), [Next]_vars, NEW k \in Key \ hurt'
             PROVE  KeyInv(k)'
  OBVIOUS
<1> USE DEF timerVars, runVars, configVars, boundVars
<1>1. ASSUME NEW r \in Request, Apply(r) \/ DeletePolicy(r)
      PROVE  KeyInv(k)'
  <2>0. PICK b \in Key, op \in {"apply", "delete"} : \E value : Lookup(r, b, op, value)
    BY <1>1, KeyKinds DEF Apply, DeletePolicy
  <2>1. PICK value : Lookup(r, b, op, value)
    BY <2>0
  <2>2. /\ request'[r] = [pc |-> IF timers[b] = {} THEN "save" ELSE "remove",
                          op |-> op, key |-> b, value |-> value, live |-> TRUE]
        /\ \A q \in Request : q # r => request'[q] = request[q]
        /\ ~Works(r, k)
    BY <2>1 DEF Lookup, Serve, Idle, Works, Shape, PolicyPc
  <2>3. KeyInv(k) /\ UNCHANGED <<rows, timers, removed, unresumed>>
    BY <2>1 DEF Lookup
  <2>4. CASE b # k
    <3>1. \A q \in Request : Works(q, k)' <=> Works(q, k)
      BY <2>2, <2>4 DEF Works
    <3> QED
      BY <2>2, <2>3, <3>1, KeyAside
  <2>5. CASE b = k
    <3>1. ~Busy(k)
      BY <2>1, <2>5 DEF Lookup
    <3>2. \A q \in Request : Works(q, k)' <=> q = r
      BY <2>2, <2>5, <3>1 DEF Works, Busy, PolicyPc
    <3>3. /\ request'[r].live /\ request'[r].pc # "add"
          /\ request'[r].pc = "save" => timers[k] = {}
      BY <2>2, <2>5
    <3>4. Busy(k)'
      BY <3>2 DEF Busy, Works
    <3> QED
      BY <2>3, <3>2, <3>3, <3>4 DEF KeyInv
  <2> QED
    BY <2>4, <2>5
<1>2. ASSUME NEW r \in Request, Remove(r) \/ Save(r) \/ AddTimer(r)
      PROVE  KeyInv(k)'
  <2> DEFINE b == request[r].key
  <2>1. request[r] \in PolicyRecord /\ b \in Key /\ Works(r, b)
    BY <1>2, ThreadShape DEF Remove, Save, AddTimer, PolicyRecord, Works, PolicyPc
  <2>2. /\ \A q \in Request : q # r => request'[q] = request[q]
        /\ Return(r) => ~Works(r, k)'
        /\ \A pc \in PolicyPc : Goto(r, pc) =>
               /\ request'[r] = [request[r] EXCEPT !.pc = pc]
               /\ request'[r].pc = pc /\ request'[r].key = b
               /\ request'[r].value = request[r].value /\ request'[r].live = request[r].live
    BY <1>2, <2>1, PolicyThreads DEF Return, Goto, Works, Idle, PolicyPc, PolicyRecord, Shape
  <2>3. \/ Return(r)
        \/ \E pc \in PolicyPc : Goto(r, pc)
    BY <1>2 DEF Remove, Save, AddTimer, PolicyPc
  <2>4. KeyInv(k) /\ UNCHANGED removed
    BY <1>2 DEF Remove, Save, AddTimer
  <2>5. CASE b # k
    <3>1. \A q \in Request : Works(q, k)' <=> Works(q, k)
      BY <2>2, <2>3, <2>5 DEF Works
    <3>2. \A q \in Request : Works(q, k) => request'[q] = request[q]
      BY <2>2, <2>5 DEF Works
    <3>3. timers'[k] = timers[k] /\ rows'[k] = rows[k]
      BY <1>2, <2>5 DEF Remove, Save, AddTimer, Shape, TypeOK
    <3>4. k \in unresumed => k \in unresumed'
      BY <1>2, <2>5 DEF Remove, Save, AddTimer
    <3> QED
      BY <2>4, <3>1, <3>2, <3>3, <3>4, KeyAside
  <2>6. CASE b = k
    <3>1. \A q \in Request : q # r => ~Works(q, k)
      BY <2>1, <2>4, <2>6 DEF KeyInv
    <3>2. /\ request[r].live
          /\ request[r].pc = "save" => timers[k] = {}
          /\ request[r].pc = "add" => request[r].value.vms \ removed = Armed(k) \ removed
      BY <2>1, <2>4, <2>6 DEF KeyInv
    <3>3. \A q \in Request : q # r => ~Works(q, k)'
      BY <2>2, <3>1 DEF Works
    <3>4. ASSUME Return(r)
          PROVE  ~Busy(k)' /\ \A q \in Request : ~Works(q, k)'
      BY <2>2, <3>3, <3>4 DEF Busy, Works
    <3>5. ASSUME NEW pc \in PolicyPc, Goto(r, pc)
          PROVE  Busy(k)' /\ \A q \in Request : Works(q, k)' <=> q = r
      BY <2>2, <2>6, <3>3, <3>5 DEF Busy, Works
    <3>6. CASE Remove(r)
      <4>1. Goto(r, "save") /\ timers'[k] = {}
        BY <2>6, <3>6 DEF Remove, Shape, TypeOK
      <4>2. "save" \in PolicyPc
        BY DEF PolicyPc
      <4> QED
        BY <2>2, <3>2, <3>5, <4>1, <4>2 DEF KeyInv
    <3>7. CASE Save(r)
      <4>1. /\ timers'[k] = {} /\ rows'[k] = request[r].value
            /\ IF request[r].op = "apply" /\ request[r].value.on /\ request[r].value.vms # {}
                 THEN Goto(r, "add") ELSE Return(r)
        BY <2>6, <3>2, <3>7 DEF Save, Shape, TypeOK
      <4>2. CASE Goto(r, "add") /\ request[r].value.on
        <5>1. Armed(k)' = request[r].value.vms
          BY <4>1, <4>2 DEF Armed, NoRow
        <5>2. "add" \in PolicyPc
          BY DEF PolicyPc
        <5> QED
          BY <2>2, <2>4, <3>2, <3>5, <4>2, <5>1, <5>2 DEF KeyInv
      <4>3. CASE Return(r) /\ ~(request[r].op = "apply" /\ request[r].value.on
                                                       /\ request[r].value.vms # {})
        <5>1. request[r].op = "delete" => request[r].value = NoRow
          BY <2>1 DEF Works, Shape
        <5>2. Armed(k)' = {}
          BY <2>1, <4>1, <4>3, <5>1 DEF Armed, PolicyRecord
        <5> QED
          BY <3>4, <4>1, <4>3, <5>2 DEF KeyInv
      <4> QED
        BY <4>1, <4>2, <4>3
    <3>8. CASE AddTimer(r)
      <4>1. timers'[k] = request[r].value.vms /\ Return(r) /\ UNCHANGED rows
        BY <2>6, <3>2, <3>8 DEF AddTimer, Shape, TypeOK
      <4>2. Armed(k)' = Armed(k)
        BY <4>1 DEF Armed
      <4> QED
        BY <2>4, <3>2, <3>4, <3>8, <4>1, <4>2 DEF KeyInv, AddTimer
    <3> QED
      BY <1>2, <3>6, <3>7, <3>8
  <2> QED
    BY <2>5, <2>6
<1>3. ASSUME NEW r \in Request, \/ ExcludeVm(r) \/ IncludeVm(r) \/ UpdateSettings(r)
                                \/ WriteConfig(r) \/ AssignConfig(r)
      PROVE  KeyInv(k)'
  <2>1. /\ \A q \in Request : q # r => request'[q] = request[q]
        /\ ~Works(r, k) /\ ~Works(r, k)'
    <3>1. CASE WriteConfig(r) \/ AssignConfig(r)
      BY <3>1, ThreadMoves DEF WriteConfig, AssignConfig, Works, PolicyPc
    <3>2. CASE ExcludeVm(r) \/ IncludeVm(r) \/ UpdateSettings(r)
      BY <3>2 DEF ExcludeVm, IncludeVm, UpdateSettings, Update, Serve, Idle, Works, PolicyPc, Shape
    <3> QED
      BY <1>3, <3>1, <3>2
  <2>2. UNCHANGED timerVars
    BY <1>3 DEF ExcludeVm, IncludeVm, UpdateSettings, Update, WriteConfig, AssignConfig
  <2>3. \A q \in Request : Works(q, k)' <=> Works(q, k)
    BY <2>1 DEF Works
  <2> QED
    BY <2>1, <2>2, <2>3, KeyAside
<1>4. ASSUME NEW b \in Key, Fire(b) \/ Run(b) \/ RunOld(b)
      PROVE  KeyInv(k)'
  BY <1>4, KeyAside DEF Fire, Run, RunOld, Works
<1>5. ASSUME NEW v \in VM, DeleteVm(v)
      PROVE  KeyInv(k)'
  <2>1. /\ UNCHANGED <<timers, request, unresumed>> /\ KeyInv(k)
        /\ removed' = removed \union {v}
    BY <1>5 DEF DeleteVm
  <2>2. \/ Armed(k)' = Armed(k)
        \/ Armed(k)' = Armed(k) \ {v}
        \/ Armed(k)' = {} /\ Armed(k) \subseteq {v}
    <3>1. rows[k] \in Row /\ (rows[k] = NoRow \/ rows[k] \in Definition(k))
      BY DEF Shape, TypeOK
    <3>2. CASE k \in VmKey /\ k[2] = v
      <4>1. rows'[k] = NoRow
        BY <1>5, <3>2 DEF DeleteVm
      <4>2. rows[k] \in [on : BOOLEAN, vms : {{k[2]}}] \/ rows[k] = NoRow
        BY <3>1, <3>2, KeyKinds
      <4>3. rows[k] = NoRow \/ rows[k].vms = {v}
        BY <3>2, <4>2
      <4>4. Armed(k) \subseteq {v}
        BY <4>3 DEF Armed
      <4>5. Armed(k)' = {}
        BY <4>1 DEF Armed
      <4> QED
        BY <4>4, <4>5
    <3>3. CASE k \in PolicyKey /\ rows[k] # NoRow
      <4>1. rows'[k] = [rows[k] EXCEPT !.vms = @ \ {v}]
        BY <1>5, <3>3, KeyKinds DEF DeleteVm
      <4>2. /\ rows'[k] = [on |-> rows[k].on, vms |-> rows[k].vms \ {v}]
            /\ rows'[k].on = rows[k].on /\ rows'[k].vms = rows[k].vms \ {v}
        <5>1. rows[k] = [on |-> rows[k].on, vms |-> rows[k].vms]
          BY <3>1 DEF Row
        <5> QED
          BY <4>1, <5>1
      <4>3. rows[k].on => rows'[k] # NoRow
        BY <4>2 DEF NoRow
      <4> QED
        BY <3>3, <4>2, <4>3 DEF Armed
    <3>4. CASE ~(k \in VmKey /\ k[2] = v) /\ ~(k \in PolicyKey /\ rows[k] # NoRow)
      <4>1. rows'[k] = rows[k]
        BY <1>5, <3>4 DEF DeleteVm
      <4> QED
        BY <4>1 DEF Armed
    <3> QED
      BY <3>2, <3>3, <3>4
  <2>3. /\ Busy(k)' <=> Busy(k)
        /\ \A r \in Request : Works(r, k)' <=> Works(r, k)
    BY <2>1 DEF Busy, Works
  <2>4. Armed(k)' \ removed' = (Armed(k) \ removed) \ {v}
    BY <2>1, <2>2
  <2> QED
    BY <2>1, <2>3, <2>4 DEF KeyInv
<1>6. ASSUME StartScheduler, ~Busy(k)', \A r \in Request : ~Works(r, k)'
      PROVE  KeyInv(k)'
  <2>1. CASE k \in PolicyKey
    BY <1>6, <2>1 DEF StartScheduler, KeyInv
  <2>2. CASE k \notin PolicyKey
    <3>1. k \in VmKey /\ timers'[k] = {} /\ rows'[k] = rows[k]
      BY <1>6, <2>2, KeyKinds, MigratedRows DEF StartScheduler
    <3>2. Armed(k)' = Armed(k)
      BY <3>1 DEF Armed
    <3> QED
      BY <1>6, <3>1, <3>2 DEF StartScheduler, KeyInv
  <2> QED
    BY <2>1, <2>2
<1>7. CASE Restart
  <2>1. \A r \in Request : ~Works(r, k)'
    BY <1>7 DEF Restart, Works, Idle, PolicyPc
  <2>2. ~Busy(k)'
    BY <2>1 DEF Busy, Works
  <2> QED
    BY <1>6, <1>7, <2>1, <2>2 DEF Restart
<1>8. ASSUME NEW r \in Request, Replace(r)
      PROVE  KeyInv(k)'
  <2>1. CASE hurt' = Key
    BY <2>1
  <2>2. CASE StartScheduler /\ hurt' = {b \in Key : Busy(b)}
    <3>1. \A q \in Request : ~Works(q, k)'
      BY <1>8, <2>2, ReplaceMoves DEF Works, Busy, PolicyPc
    <3>2. ~Busy(k)'
      BY <3>1 DEF Busy, Works
    <3> QED
      BY <1>6, <2>2, <3>1, <3>2
  <2> QED
    BY <1>8, <2>1, <2>2 DEF Replace
<1>9. CASE UNCHANGED vars
  BY <1>9, KeyAside DEF vars, Works
<1> QED
  BY <1>1, <1>2, <1>3, <1>4, <1>5, <1>7, <1>8, <1>9 DEF Next

LEMMA SchedulesNext == SchedulesInv /\ [Next]_vars => SchedulesInv'
<1> SUFFICES ASSUME SchedulesInv, [Next]_vars
             PROVE  SchedulesInv'
  OBVIOUS
<1>1. ~contended' => ~contended
  BY DEF Next, vars, timerVars, configVars, Apply, DeletePolicy, Lookup, Remove, Save, AddTimer, DeleteVm,
     ExcludeVm, IncludeVm, UpdateSettings, Update, WriteConfig, AssignConfig, Fire, Run, RunOld,
     Restart, Replace
<1> QED
  BY <1>1, ShapeStep, KeyStep, ConfigStep, BreachStep DEF SchedulesInv

\* The variables of the scheduler keep their types.
THEOREM TypeCorrect == Spec => []TypeOK
<1>1. SchedulesInv => TypeOK
  BY DEF SchedulesInv, Shape
<1> QED
  BY SchedulesInit, SchedulesNext, <1>1, PTL DEF Spec

\* apply_policy and start (scheduler.py): where no two requests for a definition
\* overlapped and none failed, it has the timer it calls for.
THEOREM TimersHold == Spec => []TimersFollowRows
<1>1. SchedulesInv => TimersFollowRows
  BY DEF SchedulesInv, KeyInv, TimersFollowRows
<1> QED
  BY SchedulesInit, SchedulesNext, <1>1, PTL DEF Spec

\* An exclusion that was answered is in force, and in the file when no update is under
\* way, unless updates overlapped or were cut off.
THEOREM ExclusionsHold == Spec => []ExclusionsKept
<1>1. SchedulesInv => ExclusionsKept
  BY DEF SchedulesInv, ConfigInv, ExclusionsKept
<1> QED
  BY SchedulesInit, SchedulesNext, <1>1, PTL DEF Spec

\* A policy, also one that was running by then, backs up no VM that is excluded, unless
\* it goes on on a service that was replaced and the VM was excluded since (web.py:784,
\* scheduler.py:111), which the earlier service's exclusions do not name.
THEOREM ExcludedSpared == Spec => []ExcludedAreSkipped
<1>1. SchedulesInv => ExcludedAreSkipped
  BY DEF SchedulesInv, BreachInv, ExcludedAreSkipped
<1> QED
  BY SchedulesInit, SchedulesNext, <1>1, PTL DEF Spec
=============================================================================
