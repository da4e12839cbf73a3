--------------------------- MODULE WebServerProofs ---------------------------
(***************************************************************************)
(* What TLAPS proves of WebServer and Go2rtc, for any cameras and any      *)
(* number of changes of the configuration.                                 *)
(***************************************************************************)
EXTENDS WebServer, TLAPS

-----------------------------------------------------------------------------
(***************************************************************************)
(* Types.                                                                  *)
(***************************************************************************)

TaskStates == [pc : {"idle", "stopping", "creating", "readying"},
               on : Nat, serves : Configs]

LEMMA TaskShapes ==
    ASSUME RelayTypeOK
    PROVE  /\ Idle \in TaskStates
           /\ Creating \in TaskStates
           /\ TaskAt("stopping", handle, 0) \in TaskStates
           /\ TaskAt("readying", 0, 0) \in TaskStates
BY ConfigsAssumption DEF Idle, Creating, TaskAt, TaskStates, RelayTypeOK, Configs

LEMMA TaskType ==
    ASSUME RelayTypeOK
    PROVE  task \in [Tasks -> TaskStates]
BY DEF RelayTypeOK, TaskStates

LEMMA AfterStopType ==
    ASSUME RelayTypeOK, NEW t \in Tasks, AfterStop(t)
    PROVE  /\ task' \in [Tasks -> TaskStates]
           /\ handle' = 0
<1>1. (IF t = "apply" THEN Creating ELSE Idle) \in TaskStates
  BY TaskShapes
<1> QED
  BY <1>1, TaskType DEF AfterStop

LEMMA StopType ==
    ASSUME RelayTypeOK, NEW t \in Tasks, Stop(t), UNCHANGED spawned
    PROVE  /\ task' \in [Tasks -> TaskStates]
           /\ handle' \in 0 .. spawned'
           /\ ending' \subseteq 1 .. spawned'
<1>1. CASE handle \in Numbers
  BY <1>1, TaskShapes, TaskType DEF Stop, RelayTypeOK
<1>2. CASE handle \notin Numbers
  BY <1>2, AfterStopType DEF Stop, RelayTypeOK
<1> QED
  BY <1>1, <1>2

\* The relay's part of the state has its type after every step of the relay,
\* and after every call the server makes to it.
LEMMA RelayTypeStep ==
    ASSUME RelayTypeOK,
           \/ Relaying \/ ConfigChanges
           \/ \E t \in Tasks : StartCalled(t) \/ StopCalled(t)
           \/ \E r \in relays : RelayDies(r)
           \/ UNCHANGED relayVars
    PROVE  RelayTypeOK'
<1>0. /\ config \in 0 .. MaxConfigs /\ pending \in 0 .. config
      /\ config \in Nat /\ spawned \in Nat
  BY ConfigsAssumption DEF RelayTypeOK, Configs
<1> USE DEF TaskStates
<1>1. CASE ConfigChanges
  BY <1>0, <1>1, ConfigsAssumption DEF ConfigChanges, Scheduled, RelayTypeOK, Configs, Numbers
<1>2. CASE ApplyBegins
  <2>1. "apply" \in Tasks
    BY DEF Tasks
  <2>2. pending' \in 0 .. config'
    BY <1>0, <1>2 DEF ApplyBegins
  <2>3. UNCHANGED <<config, relays, spawned, broken>> /\ Stop("apply")
    BY <1>2 DEF ApplyBegins
  <2> QED
    BY <2>1, <2>2, <2>3, StopType DEF RelayTypeOK, Numbers
<1>3. ASSUME NEW t \in Tasks, Stopped(t) PROVE RelayTypeOK'
  <2>1. AfterStop(t) /\ UNCHANGED <<config, pending, relays, spawned, ending, broken>>
    BY <1>3 DEF Stopped
  <2> QED
    BY <1>0, <2>1, AfterStopType DEF RelayTypeOK, Numbers
<1>4. ASSUME NEW t \in Tasks, Created(t) PROVE RelayTypeOK'
  <2>1. task' \in [Tasks -> TaskStates]
    BY <1>4, TaskShapes, TaskType DEF Created
  <2>2. [no |-> spawned', serves |-> task[t].serves] \in Relays
    BY <1>0, <1>4, TaskType DEF Created, Relays
  <2>3. spawned' = spawned + 1 /\ handle' = spawned'
    BY <1>4 DEF Created
  <2>4. relays' = relays \cup {[no |-> spawned', serves |-> task[t].serves]}
    BY <1>4 DEF Created
  <2>5. relays' \subseteq Relays
    BY <2>2, <2>4 DEF RelayTypeOK
  <2>6. Numbers' = Numbers \cup {spawned'}
    <3>1. PICK new : new = [no |-> spawned', serves |-> task[t].serves]
      OBVIOUS
    <3>2. new.no = spawned'
      BY <3>1
    <3>3. relays' = relays \cup {new}
      BY <2>4, <3>1
    <3> QED
      BY <3>2, <3>3 DEF Numbers
  <2>7. Numbers' \cup ending' \subseteq 1 .. spawned'
    BY <1>0, <1>4, <2>3, <2>6 DEF Created, RelayTypeOK
  <2>8. UNCHANGED <<config, pending, ending>> /\ broken' = FALSE
    BY <1>4 DEF Created
  <2>9. spawned' \in Nat /\ handle' \in 0 .. spawned'
    BY <1>0, <2>3
  <2> QED
    BY <2>1, <2>5, <2>7, <2>8, <2>9 DEF RelayTypeOK
<1>5. ASSUME NEW t \in Tasks, CreateFails(t) PROVE RelayTypeOK'
  BY <1>0, <1>5, TaskShapes, TaskType DEF CreateFails, RelayTypeOK, Numbers
<1>6. ASSUME NEW t \in Tasks, Ready(t) PROVE RelayTypeOK'
  BY <1>0, <1>6, TaskShapes, TaskType DEF Ready, RelayTypeOK, Numbers
<1>7. ASSUME NEW r \in relays, RelayEnds(r) \/ RelayDies(r) PROVE RelayTypeOK'
  BY <1>0, <1>7 DEF RelayEnds, RelayDies, RelayTypeOK, Numbers
<1>8. ASSUME NEW t \in Tasks, StartCalled(t) PROVE RelayTypeOK'
  <2>1. task' \in [Tasks -> TaskStates]
    BY <1>8, TaskShapes, TaskType DEF StartCalled
  <2> QED
    BY <1>0, <1>8, <2>1 DEF StartCalled, RelayTypeOK, Numbers
<1>9. ASSUME NEW t \in Tasks, StopCalled(t) PROVE RelayTypeOK'
  <2>1. UNCHANGED <<config, pending, relays, spawned, broken>> /\ Stop(t)
    BY <1>9 DEF StopCalled
  <2> QED
    BY <1>0, <2>1, StopType DEF RelayTypeOK, Numbers
<1>10. CASE UNCHANGED relayVars
  BY <1>0, <1>10 DEF relayVars, RelayTypeOK, Numbers
<1> QED
  BY <1>1, <1>2, <1>3, <1>4, <1>5, <1>6, <1>7, <1>8, <1>9, <1>10 DEF Relaying

LEMMA RelayTypeInit == InitRelay => RelayTypeOK
<1> SUFFICES ASSUME InitRelay PROVE RelayTypeOK
  OBVIOUS
<1>1. 0 \in Configs
  BY ConfigsAssumption DEF Configs
<1>2. Idle \in TaskStates
  BY <1>1 DEF Idle, TaskAt, TaskStates
<1>3. task \in [Tasks -> TaskStates]
  BY <1>2 DEF InitRelay
<1>4. Numbers = {} /\ relays \subseteq Relays
  BY DEF InitRelay, Numbers
<1>5. pending \in 0 .. config /\ handle \in 0 .. spawned /\ spawned \in Nat
  BY DEF InitRelay
<1> QED
  BY <1>1, <1>3, <1>4, <1>5 DEF InitRelay, RelayTypeOK, TaskStates

\* What any step of the server does to the relay.
LEMMA ServerSteps ==
    ASSUME [Next]_vars
    PROVE  \/ Relaying \/ ConfigChanges
           \/ StartCalled("startup") \/ StopCalled("shutdown")
           \/ \E r \in relays : RelayDies(r)
           \/ UNCHANGED relayVars
BY DEF Next, vars, relayVars, RelayRuns, RelayFails, Boot, Lifecycle, ConfigSaved,
       ShutdownBegins, CameraStarts, CameraStops, StartsRelay, StopsRelay, Serves,
       StartAborts, Closes, ShutdownStops, Booted, BootBegins

LEMMA ServerTypeStep == TypeOK /\ [Next]_vars => TypeOK'
<1> SUFFICES ASSUME TypeOK, [Next]_vars PROVE TypeOK'
  OBVIOUS
<1>1. RelayTypeOK'
  BY ServerSteps, RelayTypeStep DEF TypeOK, Tasks
<1> USE <1>1 DEF TypeOK
<1>2. CASE RelayRuns \/ RelayFails \/ ConfigSaved
  BY <1>2 DEF RelayRuns, RelayFails, ConfigSaved, serverVars
<1>3. ASSUME NEW c \in Cameras, BootBegins(c) PROVE TypeOK'
  BY <1>3 DEF BootBegins
<1>4. CASE Booted
  BY <1>4 DEF Booted, FailureIsCaught
<1>5. CASE StartsRelay \/ StartAborts \/ Serves \/ StopsRelay \/ Closes \/ ShutdownBegins
  BY <1>5 DEF StartsRelay, StartAborts, Serves, StopsRelay, Closes, ShutdownBegins,
              serverVars
<1>6. ASSUME NEW c \in Cameras, CameraStarts(c) \/ CameraStops(c) \/ ShutdownStops(c)
      PROVE  TypeOK'
  BY <1>6 DEF CameraStarts, CameraStops, ShutdownStops
<1>7. CASE UNCHANGED vars
  BY <1>7 DEF vars, serverVars
<1> QED
  BY <1>2, <1>3, <1>4, <1>5, <1>6, <1>7 DEF Next, Boot, Lifecycle

LEMMA ServerTypeInit == Init => TypeOK
BY RelayTypeInit DEF Init, TypeOK

\* The state of the server and of go2rtc always has its type; with it, no more
\* syncs wait than the configuration had changes.
THEOREM TypeCorrect == Spec => []TypeOK
BY ServerTypeInit, ServerTypeStep, PTL DEF Spec

-----------------------------------------------------------------------------
(***************************************************************************)
(* One process.                                                            *)
(***************************************************************************)

\* Whatever runs is in hand; a task waits for the process in hand or for one
\* that another task has forgotten meanwhile; and while one is being created
\* there is none.
RelayInHand ==
    /\ \A r, s \in relays : r = s
    /\ \A r \in relays : r.no = handle
    /\ \A t \in Tasks : task[t].pc = "stopping" => handle \in {0, task[t].on}
    /\ \A t \in Tasks : task[t].pc = "creating" => relays = {}

\* Who does what: only the start-up starts go2rtc before requests are served,
\* only apply_config replaces it afterwards, and the shutdown only stops it.
TasksKeepApart ==
    /\ task["startup"].pc # "stopping"
    /\ task["shutdown"].pc \in {"idle", "stopping"}
    /\ server = "starting" => ~Busy("apply") /\ pending = 0
    /\ server # "starting" => ~Busy("startup")

OneRelayInv == TypeOK /\ RelayInHand /\ TasksKeepApart

\* At most one task creates a process.
LEMMA OneCreates ==
    ASSUME OneRelayInv, NEW t \in Tasks, NEW u \in Tasks,
           task[t].pc = "creating", task[u].pc = "creating"
    PROVE  t = u
BY DEF OneRelayInv, TasksKeepApart, Tasks, Busy

\* A task whose process is not running has nothing running to forget.
LEMMA NothingRuns ==
    ASSUME OneRelayInv,
           \/ handle \notin Numbers
           \/ \E t \in Tasks : task[t].pc = "stopping" /\ task[t].on \notin Numbers
    PROVE  relays = {}
<1>1. \A r \in relays : r.no \in Numbers /\ r.no = handle
  BY DEF Numbers, OneRelayInv, RelayInHand
<1>2. 0 \notin Numbers
  BY DEF OneRelayInv, TypeOK, RelayTypeOK
<1> QED
  BY <1>1, <1>2 DEF OneRelayInv, RelayInHand

LEMMA AfterStopInHand ==
    ASSUME OneRelayInv, NEW t \in Tasks, AfterStop(t), relays = {}, UNCHANGED relays
    PROVE  RelayInHand'
BY TaskType, AfterStopType DEF AfterStop, RelayInHand, OneRelayInv, TypeOK

LEMMA StopInHand ==
    ASSUME OneRelayInv, NEW t \in Tasks, Stop(t), UNCHANGED relays
    PROVE  RelayInHand'
<1>1. CASE handle \in Numbers
  <2>1. task' = [task EXCEPT ![t] = TaskAt("stopping", handle, 0)] /\ UNCHANGED handle
    BY <1>1 DEF Stop
  <2>2. \A u \in Tasks : u # t => task'[u] = task[u]
    BY <2>1, TaskType DEF OneRelayInv, TypeOK
  <2>3. task'[t].pc = "stopping" /\ task'[t].on = handle
    BY <2>1, TaskType DEF OneRelayInv, TypeOK, TaskAt
  <2> QED
    BY <2>1, <2>2, <2>3 DEF OneRelayInv, RelayInHand
<1>2. CASE handle \notin Numbers
  BY <1>2, NothingRuns, AfterStopInHand DEF Stop
<1> QED
  BY <1>1, <1>2

\* A step that creates nothing, stops nothing and forgets nothing.
LEMMA LessInHand ==
    ASSUME OneRelayInv, relays' \subseteq relays, UNCHANGED handle,
           \A t \in Tasks : task'[t] = task[t]
                            \/ task'[t].pc \notin {"stopping", "creating"}
    PROVE  RelayInHand'
<1>1. RelayInHand
  BY DEF OneRelayInv
<1>2. \A t \in Tasks : task'[t].pc \in {"stopping", "creating"} => task'[t] = task[t]
  OBVIOUS
<1> QED
  BY <1>1, <1>2 DEF RelayInHand

LEMMA InHandStep ==
    ASSUME OneRelayInv, [Next]_vars
    PROVE  RelayInHand'
<1>0. /\ task \in [Tasks -> TaskStates]
      /\ {"startup", "apply", "shutdown"} \subseteq Tasks
  BY TaskType DEF OneRelayInv, TypeOK, Tasks
<1>1. CASE ConfigChanges
  BY <1>1, LessInHand DEF ConfigChanges
<1>2. CASE ApplyBegins
  BY <1>0, <1>2, StopInHand DEF ApplyBegins
<1>3. ASSUME NEW t \in Tasks, Stopped(t) PROVE RelayInHand'
  BY <1>3, NothingRuns, AfterStopInHand DEF Stopped
<1>4. ASSUME NEW t \in Tasks, Created(t) PROVE RelayInHand'
  <2>1. relays = {} /\ ~Woken
    BY <1>4 DEF Created, OneRelayInv, RelayInHand
  <2>2. PICK new : new = [no |-> spawned', serves |-> task[t].serves]
    OBVIOUS
  <2>3. relays' = {new} /\ new.no = handle'
    BY <1>4, <2>1, <2>2 DEF Created
  <2>4. Numbers = {}
    BY <2>1 DEF Numbers
  <2>5. \A u \in Tasks : task[u].pc # "stopping"
    BY <2>1, <2>4 DEF Woken
  <2>6. \A u \in Tasks : u # t => task[u].pc # "creating"
    BY <1>4, OneCreates DEF Created
  <2>7. /\ \A u \in Tasks : u # t => task'[u] = task[u]
        /\ task'[t].pc = "readying"
    BY <1>0, <1>4 DEF Created, TaskAt
  <2> QED
    BY <2>3, <2>5, <2>6, <2>7 DEF RelayInHand
<1>5. ASSUME NEW t \in Tasks, CreateFails(t) PROVE RelayInHand'
  <2>1. relays = {} /\ relays' = {} /\ handle' = 0
    BY <1>5 DEF CreateFails, OneRelayInv, RelayInHand
  <2> QED
    BY <2>1 DEF RelayInHand
<1>6. ASSUME NEW t \in Tasks, Ready(t) PROVE RelayInHand'
  <2>1. \A u \in Tasks : task'[u] = task[u] \/ task'[u].pc = "idle"
    BY <1>0, <1>6 DEF Ready, Idle, TaskAt
  <2> QED
    BY <1>6, <2>1, LessInHand DEF Ready
<1>7. ASSUME NEW r \in relays, RelayEnds(r) \/ RelayDies(r) PROVE RelayInHand'
  BY <1>7, LessInHand DEF RelayEnds, RelayDies
<1>8. CASE StartCalled("startup")
  <2>1. CASE handle \in Numbers
    <3>1. \A u \in Tasks : task'[u] = task[u] \/ task'[u].pc = "idle"
      BY <1>0, <1>8, <2>1 DEF StartCalled, Idle, TaskAt
    <3> QED
      BY <1>8, <3>1, LessInHand DEF StartCalled
  <2>2. CASE handle \notin Numbers
    <3>1. relays = {} /\ relays' = {} /\ UNCHANGED handle
      BY <1>8, <2>2, NothingRuns DEF StartCalled
    <3>2. \A u \in Tasks : task'[u].pc = "stopping" => task'[u] = task[u]
      BY <1>0, <1>8, <2>2 DEF StartCalled, Creating, TaskAt
    <3> QED
      BY <3>1, <3>2 DEF OneRelayInv, RelayInHand
  <2> QED
    BY <2>1, <2>2
<1>9. CASE StopCalled("shutdown")
  BY <1>0, <1>9, StopInHand DEF StopCalled
<1>10. CASE UNCHANGED relayVars
  BY <1>10, LessInHand DEF relayVars
<1> QED
  BY <1>1, <1>2, <1>3, <1>4, <1>5, <1>6, <1>7, <1>8, <1>9, <1>10, ServerSteps DEF Relaying

LEMMA ApartStep ==
    ASSUME OneRelayInv, [Next]_vars
    PROVE  TasksKeepApart'
<1>0. /\ task \in [Tasks -> TaskStates]
      /\ TasksKeepApart
      /\ Tasks = {"startup", "apply", "shutdown"}
  BY TaskType DEF OneRelayInv, TypeOK, Tasks
<1> USE DEF TasksKeepApart, Busy
<1>1. CASE RelayRuns
  <2>0. UNCHANGED server /\ Relaying
    BY <1>1 DEF RelayRuns, serverVars
  <2>1. CASE ApplyBegins
    <3>1. \A t \in Tasks : t # "apply" => task'[t] = task[t]
      BY <1>0, <2>1 DEF ApplyBegins, Stop, AfterStop
    <3>2. server # "starting"
      BY <1>0, <2>1 DEF ApplyBegins, OneRelayInv, TypeOK, RelayTypeOK
    <3> QED
      BY <1>0, <2>0, <3>1, <3>2
  <2>2. ASSUME NEW t \in Tasks, Stopped(t) PROVE TasksKeepApart'
    <3>1. /\ UNCHANGED pending
          /\ task[t].pc = "stopping"
          /\ task' = [task EXCEPT ![t] = IF t = "apply" THEN Creating ELSE Idle]
      BY <2>2 DEF Stopped, AfterStop
    <3> QED
      BY <1>0, <2>0, <3>1 DEF Idle, TaskAt
  <2>3. ASSUME NEW t \in Tasks, Created(t) PROVE TasksKeepApart'
    BY <1>0, <2>0, <2>3 DEF Created, TaskAt
  <2>4. ASSUME NEW t \in Tasks, CreateFails(t) PROVE TasksKeepApart'
    BY <1>0, <2>0, <2>4 DEF CreateFails, Idle, TaskAt
  <2>5. ASSUME NEW t \in Tasks, Ready(t) PROVE TasksKeepApart'
    BY <1>0, <2>0, <2>5 DEF Ready, Idle, TaskAt
  <2>6. ASSUME NEW r \in relays, RelayEnds(r) PROVE TasksKeepApart'
    BY <1>0, <2>0, <2>6 DEF RelayEnds
  <2> QED
    BY <2>0, <2>1, <2>2, <2>3, <2>4, <2>5, <2>6 DEF Relaying
<1>2. CASE RelayFails
  BY <1>0, <1>2 DEF RelayFails, RelayDies, serverVars
<1>3. CASE Boot
  BY <1>0, <1>3 DEF Boot, Booted, BootBegins, relayVars
<1>4. CASE StartsRelay
  BY <1>0, <1>4 DEF StartsRelay, StartCalled, serverVars, Creating, Idle, TaskAt
<1>5. CASE Serves
  BY <1>0, <1>5 DEF Serves, relayVars
<1>6. CASE StopsRelay
  BY <1>0, <1>6 DEF StopsRelay, StopCalled, Stop, AfterStop, Idle, TaskAt
<1>7. CASE StartAborts \/ Closes \/ ShutdownBegins
  BY <1>0, <1>7 DEF StartAborts, Closes, ShutdownBegins, relayVars
<1>8. ASSUME NEW c \in Cameras, ShutdownStops(c) \/ CameraStarts(c) \/ CameraStops(c)
      PROVE  TasksKeepApart'
  BY <1>0, <1>8 DEF ShutdownStops, CameraStarts, CameraStops, relayVars
<1>9. CASE ConfigSaved
  BY <1>0, <1>9 DEF ConfigSaved, ConfigChanges, serverVars
<1>10. CASE UNCHANGED vars
  BY <1>0, <1>10 DEF vars, relayVars, serverVars
<1> QED
  BY <1>1, <1>2, <1>3, <1>4, <1>5, <1>6, <1>7, <1>8, <1>9, <1>10 DEF Next, Lifecycle

LEMMA OneRelayInit == Init => OneRelayInv
<1> SUFFICES ASSUME Init PROVE OneRelayInv
  OBVIOUS
<1>1. \A t \in Tasks : task[t].pc = "idle"
  BY DEF Init, InitRelay, Idle, TaskAt
<1> QED
  BY <1>1, ServerTypeInit
  DEF OneRelayInv, RelayInHand, TasksKeepApart, Busy, Init, InitRelay, Tasks

\* However changes of the configuration, the start-up and the shutdown overlap,
\* never do two go2rtc processes run, and the one that runs can be stopped.
THEOREM OneRelayTheorem == Spec => []OneRelay
<1>1. OneRelayInv /\ [Next]_vars => OneRelayInv'
  BY ServerTypeStep, InHandStep, ApartStep DEF OneRelayInv
<1>2. OneRelayInv => OneRelay
  BY DEF OneRelayInv, RelayInHand, OneRelay
<1> QED
  BY OneRelayInit, <1>1, <1>2, PTL DEF Spec

=============================================================================
