----------------------- MODULE CameraSupervisorProofs -----------------------
(***************************************************************************)
(* What TLAPS proves of CameraSupervisor, for any restart limit, crashes   *)
(* and failed starts: of stops, pending restarts and the status with any   *)
(* number of overlapping requests of any kind; of the process and the      *)
(* reset of the attempts with requests one at a time (OneAtATime).         *)
(***************************************************************************)
EXTENDS CameraSupervisor, TLAPS

\* A pending restart is the one the instance's handle refers to, which is the
\* one stop_camera cancels.
RestartIsTracked == \A r \in Procs : Pending(r) => restart_task = r

IInv == TypeOK /\ RestartIsTracked /\ StopHaltsRestart /\ RestartingIsPending

-----------------------------------------------------------------------------

LEMMA ProcNumbers == None \notin Procs /\ \A p \in Procs : p \in Nat
BY BoundsAssumption DEF Procs

\* The states a request can be left in are states of a call.
LEMMA CallShapes ==
    /\ Idle \in CallStates
    /\ At("spawning", None, "end") \in CallStates
    /\ \A then \in {"end", "start", "delete"} :
         /\ At("reaping", None, then) \in CallStates
         /\ \A p \in Procs : /\ At("terminating", p, then) \in CallStates
                             /\ At("killing", p, then) \in CallStates
    /\ At("pausing", None, "start") \in CallStates
BY DEF At, Idle, CallStates, CallPcs

LEMMA ReaderShapes ==
    /\ Reader("none", None) \in ReaderStates
    /\ Reader("begin", None) \in ReaderStates
    /\ Reader("done", None) \in ReaderStates
    /\ \A p \in Procs : Reader("reading", p) \in ReaderStates
    /\ \A p \in Procs : Reader("waiting", p) \in ReaderStates
BY DEF Reader, ReaderStates

LEMMA TypeInit == Init => TypeOK
<1> SUFFICES ASSUME Init PROVE TypeOK
  OBVIOUS
<1>1. call \in [Callers -> CallStates]
  BY CallShapes DEF Init
<1>2. reader \in [Procs -> ReaderStates]
  BY ReaderShapes DEF Init
<1>3. requests \in 0 .. MaxRequests /\ crashes \in 0 .. MaxCrashes
  BY BoundsAssumption DEF Init
<1> QED
  BY <1>1, <1>2, <1>3 DEF Init, TypeOK, Statuses, ProcStates, TimerStates

-----------------------------------------------------------------------------
(***************************************************************************)
(* What the shared parts of the operations leave behind.                   *)
(***************************************************************************)

LEMMA StartBegunType ==
    ASSUME TypeOK, StartBegun
    PROVE  /\ manually_stopped' \in BOOLEAN
           /\ stability' \in [Procs -> {"none", "sleeping", "done"}]
BY DEF StartBegun, StabilityCancelled, TypeOK

LEMMA SpawnedType ==
    ASSUME TypeOK, Spawned
    PROVE  /\ {listed', manually_stopped'} \subseteq BOOLEAN
           /\ status' \in {"running", "error"}
           /\ {process', restart_task', log_task', stability_task'} \subseteq Procs \cup {None}
           /\ restart_attempt' \in Nat
           /\ proc' \in [Procs -> ProcStates]
           /\ reader' \in [Procs -> ReaderStates]
           /\ stability' \in [Procs -> {"none", "sleeping", "done"}]
           /\ requests' \in 0 .. MaxRequests
           /\ crashes' \in 0 .. MaxCrashes
<1>1. /\ UNCHANGED <<listed, manually_stopped, restart_attempt, restart_task>>
      /\ UNCHANGED <<requests, crashes>>
  BY DEF Spawned, boundVars
<1>2. CASE \E p \in Procs : Adopt(p)
  <2>1. PICK p \in Procs : Adopt(p)
    BY <1>2
  <2> QED
    BY <1>1, <2>1, ReaderShapes DEF Adopt, TypeOK, ProcStates
<1>3. CASE /\ status' = "error"
           /\ UNCHANGED <<process, log_task, stability_task, proc, reader, stability>>
  BY <1>1, <1>3 DEF TypeOK
<1> QED
  BY <1>2, <1>3 DEF Spawned

LEMMA StoppedType ==
    ASSUME TypeOK, NEW c \in Callers, NEW then \in {"end", "start", "delete"},
           Stopped(c, then)
    PROVE  listed' \in BOOLEAN /\ call' \in [Callers -> CallStates]
BY CallShapes DEF Stopped, TypeOK

LEMMA ForgetType ==
    ASSUME TypeOK, NEW c \in Callers, NEW then \in {"end", "start", "delete"},
           Forget(c, then)
    PROVE  /\ listed' \in BOOLEAN
           /\ status' = "stopped"
           /\ process' = None
           /\ reader' \in [Procs -> ReaderStates]
           /\ call' \in [Callers -> CallStates]
<1>1. CASE log_task # None /\ reader[log_task].pc # "done"
  BY <1>1, CallShapes, ReaderShapes DEF Forget, TypeOK
<1>2. CASE ~(log_task # None /\ reader[log_task].pc # "done")
  BY <1>2, StoppedType DEF Forget, TypeOK
<1> QED
  BY <1>1, <1>2

\* A request that is not being served has no continuation; every other has one.
LEMMA CallThen ==
    ASSUME TypeOK, NEW c \in Callers
    PROVE  /\ call[c].then \in {"end", "start", "delete"}
           /\ call[c].of \in Procs \cup {None}
BY DEF TypeOK, CallStates

\* A stop cancels the restart its handle refers to.
LEMMA CancelRestartType ==
    ASSUME TypeOK, CancelRestart
    PROVE  /\ timer' \in [Procs -> TimerStates]
           /\ restart_task' \in Procs \cup {None}
BY DEF CancelRestart, TypeOK, TimerStates

LEMMA StopCallType ==
    ASSUME TypeOK, NEW c \in Callers, NEW then \in {"end", "start", "delete"},
           StopCall(c, then)
    PROVE  /\ listed' \in BOOLEAN
           /\ manually_stopped' = TRUE
           /\ status' \in Statuses
           /\ process' \in Procs \cup {None}
           /\ restart_task' \in Procs \cup {None}
           /\ reader' \in [Procs -> ReaderStates]
           /\ timer' \in [Procs -> TimerStates]
           /\ call' \in [Callers -> CallStates]
           /\ UNCHANGED <<restart_attempt, log_task, stability_task, stability, proc, crashes>>
<1>1. /\ manually_stopped' = TRUE
      /\ UNCHANGED <<restart_attempt, log_task, stability_task, stability, proc, crashes>>
  BY DEF StopCall
<1>2. timer' \in [Procs -> TimerStates] /\ restart_task' \in Procs \cup {None}
  BY CancelRestartType DEF StopCall
<1>3. /\ listed' \in BOOLEAN
      /\ status' \in Statuses
      /\ process' \in Procs \cup {None}
      /\ reader' \in [Procs -> ReaderStates]
      /\ call' \in [Callers -> CallStates]
  <2>1. CASE status \notin {"running", "restarting"} \/ process = None
    <3>1. status' = "stopped" /\ Stopped(c, then) /\ UNCHANGED <<process, reader>>
      BY <2>1 DEF StopCall
    <3> QED
      BY <3>1, StoppedType DEF TypeOK, Statuses
  <2>2. CASE status \in {"running", "restarting"} /\ process # None /\ Exited(process)
    BY <2>2, ForgetType DEF StopCall, Statuses
  <2>3. CASE status \in {"running", "restarting"} /\ process # None /\ ~Exited(process)
    <3>1. /\ call' = [call EXCEPT ![c] = At("terminating", process, then)]
          /\ UNCHANGED <<listed, status, process, reader>>
      BY <2>3 DEF StopCall
    <3> QED
      BY <2>3, <3>1, CallShapes DEF TypeOK
  <2> QED
    BY <2>1, <2>2, <2>3
<1> QED
  BY <1>1, <1>2, <1>3

LEMMA StartCallType ==
    ASSUME TypeOK, NEW c \in Callers, StartCall(c)
    PROVE  /\ manually_stopped' \in BOOLEAN
           /\ stability' \in [Procs -> {"none", "sleeping", "done"}]
           /\ call' \in [Callers -> CallStates]
           /\ UNCHANGED <<listed, status, process, restart_attempt, restart_task,
                          log_task, stability_task, proc, reader, timer, crashes>>
<1>1. UNCHANGED <<listed, status, process, restart_attempt, restart_task,
                  log_task, stability_task, proc, reader, timer, crashes>>
  BY DEF StartCall, handleVars
<1>2. CASE StartBegun /\ call' = [call EXCEPT ![c] = At("spawning", None, "end")]
  BY <1>1, <1>2, StartBegunType, CallShapes DEF TypeOK
<1>3. CASE /\ call' = [call EXCEPT ![c] = Idle]
           /\ UNCHANGED <<manually_stopped, stability>>
  BY <1>1, <1>3, CallShapes DEF TypeOK
<1> QED
  BY <1>2, <1>3 DEF StartCall

-----------------------------------------------------------------------------
(***************************************************************************)
(* Type correctness.                                                       *)
(***************************************************************************)
LEMMA TypeStep == TypeOK /\ [Next]_vars => TypeOK'
<1> SUFFICES ASSUME TypeOK, [Next]_vars
             PROVE  TypeOK'
  OBVIOUS
<1> USE DEF instanceVars, handleVars, taskVars, boundVars
<1>1. ASSUME NEW c \in Callers, Request(c)
      PROVE  TypeOK'
  <2>1. requests' \in 0 .. MaxRequests
    BY <1>1, BoundsAssumption DEF Request, TypeOK
  <2>2. CASE StartCall(c)
    BY <2>1, <2>2, StartCallType DEF TypeOK
  <2>3. ASSUME NEW then \in {"end", "start", "delete"}, StopCall(c, then)
        PROVE  TypeOK'
    BY <2>1, <2>3, StopCallType DEF TypeOK
  <2>4. CASE DeleteCall(c)
    <3>1. CASE StopCall(c, "delete")
      BY <2>3, <3>1
    <3>2. CASE /\ Stopped(c, "delete")
               /\ UNCHANGED <<status, process, manually_stopped, restart_attempt,
                              handleVars, taskVars, proc, crashes>>
      BY <2>1, <3>2, StoppedType DEF TypeOK
    <3> QED
      BY <2>4, <3>1, <3>2 DEF DeleteCall
  <2> QED
    BY <1>1, <2>2, <2>3, <2>4 DEF Request
<1>2. ASSUME NEW c \in Callers, Resume(c)
      PROVE  TypeOK'
  <2>1. CASE CallerSpawned(c)
    BY <2>1, SpawnedType, CallShapes DEF CallerSpawned, TypeOK, Statuses
  <2>2. CASE StopTimedOut(c)
    <3>1. CASE process # None /\ Exited(process)
      BY <2>2, <3>1, ForgetType, CallThen DEF StopTimedOut, TypeOK, Statuses
    <3>2. CASE process = None
      BY <2>2, <3>2, CallShapes DEF StopTimedOut, TypeOK
    <3>3. CASE process # None /\ ~Exited(process)
      <4>1. /\ proc' = [proc EXCEPT ![process] = "killed"]
            /\ call' = [call EXCEPT ![c] = At("killing", process, call[c].then)]
        BY <2>2, <3>3 DEF StopTimedOut, TypeOK
      <4>2. call' \in [Callers -> CallStates]
        BY <3>3, <4>1, CallThen, CallShapes DEF TypeOK
      <4> QED
        BY <2>2, <3>3, <4>1, <4>2 DEF StopTimedOut, TypeOK, ProcStates
    <3> QED
      BY <3>1, <3>2, <3>3
  <2>3. CASE StopExited(c)
    BY <2>3, ForgetType, CallThen DEF StopExited, TypeOK, Statuses
  <2>4. CASE Reaped(c)
    BY <2>4, StoppedType, CallThen DEF Reaped, TypeOK
  <2>5. CASE PauseOver(c)
    BY <2>5, StartCallType DEF PauseOver, TypeOK
  <2> QED
    BY <1>2, <2>1, <2>2, <2>3, <2>4, <2>5 DEF Resume
<1>3. ASSUME NEW r \in Procs, ReadLogs(r)
      PROVE  TypeOK'
  <2>1. CASE ReaderBegins(r)
    BY <2>1, ReaderShapes DEF ReaderBegins, TypeOK
  <2>2. CASE ReaderDrained(r)
    BY <2>2, ReaderShapes DEF ReaderDrained, TypeOK
  <2>3. CASE ReaderJudges(r)
    <3>1. /\ reader' \in [Procs -> ReaderStates]
          /\ UNCHANGED <<listed, process, manually_stopped, log_task, stability_task,
                         stability, proc, call, requests, crashes>>
      BY <2>3, ReaderShapes DEF ReaderJudges, TypeOK
    <3>2. CASE ScheduleRestart(r)
      BY <3>1, <3>2 DEF ScheduleRestart, TypeOK, Statuses, TimerStates
    <3>3. CASE UNCHANGED <<restart_attempt, timer, restart_task>>
      BY <2>3, <3>1, <3>3 DEF ReaderJudges, TypeOK, Statuses, ScheduleRestart
    <3> QED
      BY <2>3, <3>2, <3>3 DEF ReaderJudges
  <2> QED
    BY <1>3, <2>1, <2>2, <2>3 DEF ReadLogs
<1>4. ASSUME NEW r \in Procs, AutoRestarts(r)
      PROVE  TypeOK'
  <2>1. CASE TimerFires(r)
    BY <2>1, StartBegunType DEF TimerFires, TypeOK, Statuses, TimerStates
  <2>2. CASE TimerSpawned(r)
    BY <2>2, SpawnedType DEF TimerSpawned, TypeOK, Statuses, TimerStates
  <2> QED
    BY <1>4, <2>1, <2>2 DEF AutoRestarts
<1>5. ASSUME NEW p \in Procs, StabilityElapsed(p)
      PROVE  TypeOK'
  BY <1>5 DEF StabilityElapsed, TypeOK
<1>6. ASSUME NEW p \in Procs, ProcessCrashes(p)
      PROVE  TypeOK'
  <2>1. crashes' \in 0 .. MaxCrashes
    BY <1>6, BoundsAssumption DEF ProcessCrashes, TypeOK
  <2> QED
    BY <1>6, <2>1 DEF ProcessCrashes, TypeOK, ProcStates
<1>7. ASSUME NEW p \in Procs, ProcessEnds(p) \/ ProcessDies(p)
      PROVE  TypeOK'
  BY <1>7 DEF ProcessEnds, ProcessDies, TypeOK, ProcStates
<1>8. CASE UNCHANGED vars
  BY <1>8 DEF vars, TypeOK
<1> QED
  BY <1>1, <1>2, <1>3, <1>4, <1>5, <1>6, <1>7, <1>8 DEF Next

\* The supervisor's state always has its type.
THEOREM TypeCorrect == Spec => []TypeOK
BY TypeInit, TypeStep, PTL DEF Spec

-----------------------------------------------------------------------------
(***************************************************************************)
(* The inductive invariant.  A stop cancels the one restart its handle     *)
(* refers to, so that a second pending restart would survive it: what      *)
(* excludes one is that the handle is tested before a restart is           *)
(* scheduled.                                                              *)
(***************************************************************************)

\* Nothing is pending once a stop has cancelled what its handle refers to.
LEMMA CancelRestartInv ==
    ASSUME TypeOK, RestartIsTracked, CancelRestart
    PROVE  \A r \in Procs : ~Pending(r)'
BY ProcNumbers DEF TypeOK, RestartIsTracked, CancelRestart, Pending

LEMMA StopCallInv ==
    ASSUME IInv, NEW c \in Callers, NEW then \in {"end", "start", "delete"},
           StopCall(c, then)
    PROVE  RestartIsTracked' /\ StopHaltsRestart' /\ RestartingIsPending'
BY CancelRestartInv DEF IInv, StopCall, RestartIsTracked, StopHaltsRestart,
                        RestartingIsPending

LEMMA StartCallInv ==
    ASSUME IInv, NEW c \in Callers, StartCall(c), call[c].pc # "spawning"
    PROVE  RestartIsTracked' /\ StopHaltsRestart' /\ RestartingIsPending'
<1>1. UNCHANGED <<status, restart_task, timer>>
  BY DEF StartCall, handleVars
<1>2. CASE StartBegun /\ call' = [call EXCEPT ![c] = At("spawning", None, "end")]
  <2>1. ~manually_stopped' /\ call'[c].pc = "spawning"
    BY <1>2 DEF StartBegun, IInv, TypeOK, At
  <2> QED
    BY <1>1, <2>1 DEF IInv, RestartIsTracked, StopHaltsRestart, RestartingIsPending, Pending
<1>3. CASE /\ call' = [call EXCEPT ![c] = Idle]
           /\ UNCHANGED <<manually_stopped, stability>>
  <2>1. \A d \in Callers : call[d].pc = "spawning" => call'[d].pc = "spawning"
    BY <1>3 DEF IInv, TypeOK
  <2> QED
    BY <1>1, <1>3, <2>1
       DEF IInv, RestartIsTracked, StopHaltsRestart, RestartingIsPending, Pending
<1> QED
  BY <1>2, <1>3 DEF StartCall

\* The restarts stay what they are, and the status or the starts do not change.
LEMMA QuietInv ==
    ASSUME IInv, UNCHANGED <<timer, restart_task, manually_stopped>>,
           \/ status' # "restarting"
           \/ /\ UNCHANGED status
              /\ \A c \in Callers : call[c].pc = "spawning" => call'[c].pc = "spawning"
    PROVE  RestartIsTracked' /\ StopHaltsRestart' /\ RestartingIsPending'
BY DEF IInv, RestartIsTracked, StopHaltsRestart, RestartingIsPending, Pending

LEMMA IInvInit == Init => IInv
BY TypeInit DEF Init, IInv, RestartIsTracked, StopHaltsRestart, RestartingIsPending, Pending

LEMMA IInvStep == IInv /\ [Next]_vars => IInv'
<1> SUFFICES ASSUME IInv, [Next]_vars
             PROVE  RestartIsTracked' /\ StopHaltsRestart' /\ RestartingIsPending'
  BY TypeStep DEF IInv
<1> USE DEF instanceVars, handleVars, taskVars, boundVars
<1>1. ASSUME NEW c \in Callers, Request(c)
      PROVE  RestartIsTracked' /\ StopHaltsRestart' /\ RestartingIsPending'
  <2>1. call[c].pc # "spawning"
    BY <1>1 DEF Request, Idle, At
  <2>2. CASE StartCall(c)
    BY <2>1, <2>2, StartCallInv
  <2>3. ASSUME NEW then \in {"end", "start", "delete"}, StopCall(c, then)
        PROVE  RestartIsTracked' /\ StopHaltsRestart' /\ RestartingIsPending'
    BY <2>3, StopCallInv
  <2>4. CASE DeleteCall(c) /\ ~StopCall(c, "delete")
    <3>1. \A d \in Callers : call[d].pc = "spawning" => call'[d].pc = "spawning"
      BY <2>1, <2>4 DEF DeleteCall, Stopped, IInv, TypeOK
    <3> QED
      BY <2>4, <3>1, QuietInv DEF DeleteCall
  <2> QED
    BY <1>1, <2>2, <2>3, <2>4 DEF Request, DeleteCall
<1>2. ASSUME NEW c \in Callers, Resume(c)
      PROVE  RestartIsTracked' /\ StopHaltsRestart' /\ RestartingIsPending'
  <2>1. CASE CallerSpawned(c)
    <3>1. status' # "restarting" /\ UNCHANGED <<timer, restart_task, manually_stopped>>
      BY <2>1 DEF CallerSpawned, Spawned, Adopt
    <3> QED
      BY <3>1, QuietInv
  <2>2. CASE StopTimedOut(c) \/ StopExited(c) \/ Reaped(c)
    <3>1. /\ UNCHANGED <<timer, restart_task, manually_stopped>>
          /\ status' \in {status, "stopped"}
      BY <2>2 DEF StopTimedOut, StopExited, Reaped, Forget
    <3>2. \A d \in Callers : call[d].pc = "spawning" => call'[d].pc = "spawning"
      BY <2>2 DEF StopTimedOut, StopExited, Reaped, Forget, Stopped, IInv, TypeOK
    <3> QED
      BY <3>1, <3>2, QuietInv
  <2>3. CASE PauseOver(c)
    BY <2>3, StartCallInv DEF PauseOver
  <2> QED
    BY <1>2, <2>1, <2>2, <2>3 DEF Resume
<1>3. ASSUME NEW r \in Procs, ReadLogs(r)
      PROVE  RestartIsTracked' /\ StopHaltsRestart' /\ RestartingIsPending'
  <2>1. CASE ReaderBegins(r) \/ ReaderDrained(r)
    BY <2>1, QuietInv DEF ReaderBegins, ReaderDrained
  <2>2. CASE ReaderJudges(r)
    <3>1. UNCHANGED <<manually_stopped, call>>
      BY <2>2 DEF ReaderJudges
    <3>2. CASE UNCHANGED <<timer, restart_task>> /\ status' \in {status, "error", "stopped"}
      BY <3>1, <3>2, QuietInv DEF IInv, TypeOK
    <3>3. CASE /\ MayRestart
               /\ timer' = [timer EXCEPT ![r] = "sleeping"]
               /\ restart_task' = r
      <4>1. /\ ~manually_stopped
            /\ \A q \in Procs : ~Pending(q)
        BY <3>3, ProcNumbers DEF MayRestart, IInv, RestartIsTracked
      <4>2. timer' = [timer EXCEPT ![r] = "sleeping"] /\ restart_task' = r
        BY <3>3
      <4>3. Pending(r)' /\ \A q \in Procs : q # r => ~Pending(q)'
        BY <4>1, <4>2 DEF Pending, IInv, TypeOK
      <4> QED
        BY <3>1, <4>1, <4>2, <4>3
           DEF RestartIsTracked, StopHaltsRestart, RestartingIsPending
    <3> QED
      BY <2>2, <3>2, <3>3 DEF ReaderJudges, ScheduleRestart
  <2> QED
    BY <1>3, <2>1, <2>2 DEF ReadLogs
<1>4. ASSUME NEW r \in Procs, AutoRestarts(r)
      PROVE  RestartIsTracked' /\ StopHaltsRestart' /\ RestartingIsPending'
  <2>1. CASE TimerFires(r)
    <3>1. UNCHANGED <<restart_task, call>>
      BY <2>1 DEF TimerFires
    <3>2. CASE ~manually_stopped /\ timer' = [timer EXCEPT ![r] = "spawning"]
      <4>1. Pending(r) /\ Pending(r)' /\ ~manually_stopped'
        BY <2>1, <3>2 DEF TimerFires, StartBegun, Pending, IInv, TypeOK
      <4>2. \A q \in Procs : q # r => (Pending(q)' <=> Pending(q))
        BY <3>2 DEF Pending, IInv, TypeOK
      <4> QED
        BY <3>1, <4>1, <4>2
           DEF IInv, RestartIsTracked, StopHaltsRestart, RestartingIsPending
    <3>3. CASE /\ timer' = [timer EXCEPT ![r] = "done"]
               /\ manually_stopped \/ ~listed \/ status = "running"
               /\ status' = IF manually_stopped \/ listed THEN status ELSE "error"
               /\ UNCHANGED manually_stopped
      <4>1. \A q \in Procs : Pending(q)' => Pending(q)
        BY <3>3 DEF Pending, IInv, TypeOK
      <4>2. status' = "restarting" => manually_stopped'
        BY <3>3
      <4> QED
        BY <3>1, <3>3, <4>1, <4>2
           DEF IInv, RestartIsTracked, StopHaltsRestart, RestartingIsPending
    <3> QED
      BY <2>1, <3>2, <3>3 DEF TimerFires
  <2>2. CASE TimerSpawned(r)
    <3>1. status' # "restarting" /\ UNCHANGED <<restart_task, manually_stopped>>
      BY <2>2 DEF TimerSpawned, Spawned, Adopt
    <3>2. \A q \in Procs : Pending(q)' => Pending(q)
      BY <2>2 DEF TimerSpawned, Pending, IInv, TypeOK
    <3> QED
      BY <3>1, <3>2 DEF IInv, RestartIsTracked, StopHaltsRestart, RestartingIsPending
  <2> QED
    BY <1>4, <2>1, <2>2 DEF AutoRestarts
<1>5. ASSUME NEW p \in Procs, \/ StabilityElapsed(p) \/ ProcessCrashes(p)
                              \/ ProcessEnds(p) \/ ProcessDies(p)
      PROVE  RestartIsTracked' /\ StopHaltsRestart' /\ RestartingIsPending'
  BY <1>5, QuietInv DEF StabilityElapsed, ProcessCrashes, ProcessEnds, ProcessDies
<1>6. CASE UNCHANGED vars
  BY <1>6, QuietInv DEF vars
<1> QED
  BY <1>1, <1>2, <1>3, <1>4, <1>5, <1>6 DEF Next

\* The inductive invariant holds of every reachable state of the supervisor,
\* its requests and its timers; the theorems below read it off.
THEOREM Invariance == Spec => []IInv
BY IInvInit, IInvStep, PTL DEF Spec

\* After a stop no auto-restart is pending, however requests overlap.
THEOREM StopHaltsRestartTheorem == Spec => []StopHaltsRestart
<1>1. IInv => StopHaltsRestart
  BY DEF IInv
<1> QED
  BY <1>1, Invariance, PTL

\* The status "restarting" always announces a start.
THEOREM RestartingTheorem == Spec => []RestartingIsPending
<1>1. IInv => RestartingIsPending
  BY DEF IInv
<1> QED
  BY <1>1, Invariance, PTL

-----------------------------------------------------------------------------
(***************************************************************************)
(* Requests one at a time.  No process is lost, and no run is credited to  *)
(* another, as long as one start at most is on its way and a start finds   *)
(* nothing running; the inductive invariant says how the handles of the    *)
(* instance keep it so.  A user's start may overtake an auto-restart that  *)
(* is creating its process, and so may a delete, which does not stop what  *)
(* is not running yet: the theorems are about cameras that have either     *)
(* auto-restart or these requests.                                         *)
(***************************************************************************)
OneAtATime ==
    /\ \A c, d \in Callers : c = d
    /\ AutoRestart => "start" \notin Requests /\ "delete" \notin Requests

\* A process is being created.
Starting ==
    \/ \E c \in Callers : call[c].pc = "spawning"
    \/ \E r \in Procs : timer[r] = "spawning"

\* While the status is "running" all handles are those of one process, whose
\* reader is the only one; the stability timer of an earlier run is cancelled.
RunInv ==
    /\ status = "running" => process # None /\ stability_task = process
    /\ process # None => proc[process] # "unborn" /\ log_task = process
    /\ \A r \in Procs : reader[r].pc \in {"begin", "reading", "waiting"} =>
         /\ status = "running" /\ process = r
         /\ reader[r].pc # "begin" => reader[r].of = r
    /\ \A p \in Procs : stability[p] = "sleeping" => stability_task = p

\* A restart is pending only while the status says so, and what is started
\* replaces nothing.
StartInv ==
    /\ \A r \in Procs : Pending(r) => status = "restarting" /\ AutoRestart
    /\ Starting => status # "running" /\ \A p \in Procs : stability[p] # "sleeping"

\* A stop that waits for a process waits for the instance's, and lets no restart
\* begin; nor does a start that is on its way.
StopInv ==
    \A c \in Callers :
        /\ call[c].pc \in {"terminating", "killing", "reaping", "pausing"} => manually_stopped
        /\ call[c].pc \in {"terminating", "killing"} => process # None /\ call[c].of = process
        /\ call[c].pc = "reaping" => status # "running"
        /\ call[c].pc = "spawning" => \A r \in Procs : ~Pending(r)

\* Nothing is on its way for a camera that has been deleted.
DeleteInv ==
    /\ \A c \in Callers : call[c].then = "delete" => ~AutoRestart
    /\ ~listed => /\ ~AutoRestart /\ status # "running"
                  /\ \A c \in Callers : call[c].pc = "idle"

OneInv == IInv /\ Supervised /\ RunInv /\ StartInv /\ StopInv /\ DeleteInv

LEMMA OneInvInit == Init => OneInv
<1> SUFFICES ASSUME Init PROVE OneInv
  OBVIOUS
<1>1. IInv
  BY IInvInit
<1> QED
  BY <1>1 DEF Init, OneInv, Supervised, RunInv, StartInv, StopInv, DeleteInv, Starting, Alive, Pending,
              Reader, Idle, At

\* start_camera up to the creation of the process.
LEMMA StartBegunOne ==
    ASSUME OneInv, StartBegun
    PROVE  /\ status # "running"
           /\ ~manually_stopped'
           /\ \A p \in Procs : stability'[p] # "sleeping"
<1>1. TypeOK /\ RunInv
  BY DEF OneInv, IInv
<1>2. \A p \in Procs : stability'[p] # "sleeping"
  BY <1>1, ProcNumbers DEF StartBegun, StabilityCancelled, RunInv, TypeOK
<1> QED
  BY <1>2 DEF StartBegun

\* The process that a start creates is the only one.
LEMMA SpawnedOne ==
    ASSUME OneInv, listed, Spawned, Starting, ~Starting'
    PROVE  Supervised' /\ RunInv' /\ status' \in {"running", "error"}
<1>1. TypeOK /\ RunInv /\ Supervised
  BY DEF OneInv, IInv
<1>2. status # "running" /\ \A p \in Procs : stability[p] # "sleeping"
  BY DEF OneInv, StartInv
<1>3. \A p \in Procs : ~Alive(p) /\ reader[p].pc \notin {"begin", "reading", "waiting"}
  BY <1>1, <1>2 DEF Supervised, RunInv
<1>4. listed'
  BY DEF Spawned
<1>5. ASSUME NEW p \in Procs, Adopt(p)
      PROVE  Supervised' /\ RunInv' /\ status' \in {"running", "error"}
  <2>1. process' = p /\ status' = "running" /\ log_task' = p /\ stability_task' = p
    BY <1>5 DEF Adopt
  <2>2. \A q \in Procs : /\ proc'[q] = IF q = p THEN "alive" ELSE proc[q]
                         /\ reader'[q] = IF q = p THEN Reader("begin", None) ELSE reader[q]
                         /\ stability'[q] = IF q = p THEN "sleeping" ELSE stability[q]
    BY <1>1, <1>5 DEF Adopt, TypeOK
  <2>3. \A q \in Procs : Alive(q)' => q = p
    BY <1>3, <2>2 DEF Alive
  <2>4. Supervised'
    BY <1>1, <1>4, <2>1, <2>3 DEF Supervised, RunInv
  <2>5. RunInv'
    BY <1>1, <1>2, <1>3, <1>4, <2>1, <2>2, ProcNumbers DEF RunInv, Reader
  <2> QED
    BY <2>1, <2>4, <2>5
<1>6. ASSUME status' = "error",
             UNCHANGED <<process, log_task, stability_task, proc, reader, stability>>
      PROVE  Supervised' /\ RunInv' /\ status' \in {"running", "error"}
  BY <1>1, <1>2, <1>3, <1>4, <1>6 DEF Supervised, RunInv, Alive
<1> QED
  BY <1>5, <1>6 DEF Spawned

\* The return of stop_camera, which may be that of delete_camera.
DeletesWell(c) ==
    /\ call'[c].then = "delete" => ~AutoRestart
    /\ ~listed' => ~AutoRestart /\ status' # "running" /\ call'[c].pc = "idle"

LEMMA StoppedOne ==
    ASSUME OneInv, listed, NEW c \in Callers, NEW then \in {"end", "start", "delete"},
           then = "delete" => ~AutoRestart, status' # "running", Stopped(c, then)
    PROVE  call'[c].pc \in {"idle", "pausing"} /\ DeletesWell(c)
BY DEF Stopped, OneInv, IInv, TypeOK, DeletesWell, Idle, At

\* The process that is forgotten has exited, so that none is left.
LEMMA ForgetOne ==
    ASSUME OneInv, listed, NEW c \in Callers, NEW then \in {"end", "start", "delete"},
           then = "delete" => ~AutoRestart,
           Forget(c, then), process # None, Exited(process),
           UNCHANGED <<proc, log_task, stability_task, stability>>
    PROVE  /\ Supervised' /\ RunInv' /\ status' = "stopped"
           /\ call'[c].pc \in {"idle", "pausing", "reaping"}
           /\ DeletesWell(c)
<1>1. TypeOK /\ RunInv /\ Supervised
  BY DEF OneInv, IInv
<1>2. \A p \in Procs : ~Alive(p)
  BY <1>1 DEF Supervised, Alive, Exited
<1>3. log_task = process /\ process \in Procs
  BY <1>1 DEF RunInv, TypeOK
<1>4. status' = "stopped" /\ process' = None
  BY DEF Forget
<1>5. \A r \in Procs : reader'[r].pc \notin {"begin", "reading", "waiting"}
  <2>1. \A r \in Procs : r # process => reader[r].pc \notin {"begin", "reading", "waiting"}
    BY <1>1 DEF RunInv
  <2>2. CASE reader[process].pc # "done"
    <3>1. reader' = [reader EXCEPT ![process] = Reader("done", None)]
      BY <1>3, <2>2 DEF Forget
    <3> QED
      BY <1>1, <1>3, <2>1, <3>1 DEF Reader, TypeOK
  <2>3. CASE reader[process].pc = "done"
    <3>1. reader' = reader
      BY <1>3, <2>3 DEF Forget
    <3> QED
      BY <2>1, <2>3, <3>1
  <2> QED
    BY <2>2, <2>3
<1>6. call'[c].pc \in {"idle", "pausing", "reaping"} /\ DeletesWell(c)
  <2>1. CASE Stopped(c, then)
    BY <1>4, <2>1, StoppedOne
  <2>2. CASE ~Stopped(c, then)
    <3>1. call' = [call EXCEPT ![c] = At("reaping", None, then)] /\ UNCHANGED listed
      BY <2>2 DEF Forget
    <3>2. call'[c] = At("reaping", None, then)
      BY <1>1, <3>1 DEF TypeOK
    <3>3. call'[c].pc = "reaping" /\ call'[c].then = then
      BY <3>2 DEF At
    <3> QED
      BY <3>1, <3>3 DEF DeletesWell
  <2> QED
    BY <2>1, <2>2
<1>7. Supervised'
  BY <1>2 DEF Supervised, Alive
<1>8. RunInv'
  BY <1>1, <1>4, <1>5 DEF RunInv
<1> QED
  BY <1>4, <1>6, <1>7, <1>8

\* What a step of request c leaves: no restart pending if the camera is stopped,
\* and c waiting for nothing, or stopping the instance's process.
Settles(c) ==
    /\ call'[c].pc \in {"idle", "reaping", "pausing", "terminating", "killing"}
    /\ DeletesWell(c)
    /\ manually_stopped' \/ (call'[c].pc = "idle" /\ UNCHANGED <<timer, status>>)
    /\ manually_stopped' => \A r \in Procs : ~Pending(r)'
    /\ call'[c].pc \in {"terminating", "killing"} => process' # None /\ call'[c].of = process'
    /\ call'[c].pc = "reaping" => status' # "running"
    /\ UNCHANGED stability

LEMMA CallerOne ==
    ASSUME OneAtATime, OneInv, NEW c \in Callers, Settles(c)
    PROVE  StartInv' /\ StopInv' /\ DeleteInv'
<1>1. \A d \in Callers : d = c
  BY DEF OneAtATime
<1>2. StopInv' /\ DeleteInv'
  BY <1>1 DEF StopInv, DeleteInv, Settles, DeletesWell
<1>3. Starting' <=> \E r \in Procs : timer'[r] = "spawning"
  BY <1>1 DEF Starting, Settles
<1>4. (\E r \in Procs : timer'[r] = "spawning") => ~manually_stopped'
  BY DEF Pending, Settles
<1>5. CASE manually_stopped'
  BY <1>2, <1>3, <1>4, <1>5 DEF StartInv, Settles
<1>6. CASE ~manually_stopped'
  <2>1. UNCHANGED <<timer, status, stability>>
    BY <1>6 DEF Settles
  <2>2. Starting' => Starting
    BY <1>3, <2>1 DEF Starting
  <2> QED
    BY <1>2, <2>1, <2>2 DEF OneInv, StartInv, Pending
<1> QED
  BY <1>5, <1>6

\* What does not touch the process, its tasks' handles and the status leaves the
\* run as it is.
LEMMA RunKept ==
    ASSUME OneInv, UNCHANGED <<listed, status, process, log_task, stability_task, proc, reader>>,
           \A p \in Procs : stability'[p] = "sleeping" => stability[p] = "sleeping"
    PROVE  Supervised' /\ RunInv'
BY DEF OneInv, Supervised, RunInv, Alive

\* stop_camera up to its first await: nothing is pending any more, and the
\* request is done or waits for the instance's process.
LEMMA StopCallOne ==
    ASSUME OneAtATime, OneInv, IInv', listed, NEW c \in Callers,
           NEW then \in {"end", "start", "delete"}, then = "delete" => ~AutoRestart,
           StopCall(c, then)
    PROVE  Supervised' /\ RunInv' /\ StartInv' /\ StopInv' /\ DeleteInv'
<1>1. TypeOK /\ RunInv /\ Supervised
  BY DEF OneInv, IInv
<1>2. /\ manually_stopped'
      /\ UNCHANGED <<log_task, stability_task, stability, proc>>
  BY DEF StopCall
<1>3. \A r \in Procs : ~Pending(r)'
  BY <1>2 DEF IInv, StopHaltsRestart
<1>4. CASE status \notin {"running", "restarting"} \/ process = None
  <2>1. status' = "stopped" /\ Stopped(c, then) /\ UNCHANGED <<process, reader>>
    BY <1>4 DEF StopCall
  <2>2. /\ status # "running"
        /\ call'[c].pc \in {"idle", "pausing"} /\ DeletesWell(c)
    BY <1>1, <1>4, <2>1, StoppedOne DEF RunInv
  <2>3. Supervised' /\ RunInv'
    BY <1>1, <1>2, <2>1, <2>2 DEF Supervised, RunInv, Alive
  <2>4. Settles(c)
    BY <1>2, <1>3, <2>2 DEF Settles
  <2> QED
    BY <2>3, <2>4, CallerOne
<1>5. CASE status \in {"running", "restarting"} /\ process # None /\ Exited(process)
  <2>1. Forget(c, then)
    BY <1>5 DEF StopCall
  <2>2. /\ Supervised' /\ RunInv' /\ status' = "stopped"
        /\ call'[c].pc \in {"idle", "pausing", "reaping"} /\ DeletesWell(c)
    BY <1>2, <1>5, <2>1, ForgetOne
  <2>3. Settles(c)
    BY <1>2, <1>3, <2>2 DEF Settles
  <2> QED
    BY <2>2, <2>3, CallerOne
<1>6. CASE status \in {"running", "restarting"} /\ process # None /\ ~Exited(process)
  <2>1. /\ call' = [call EXCEPT ![c] = At("terminating", process, then)]
        /\ UNCHANGED <<listed, status, process, reader>>
    BY <1>6 DEF StopCall
  <2>2. call'[c].pc = "terminating" /\ call'[c].of = process /\ DeletesWell(c)
    BY <1>1, <2>1 DEF At, TypeOK, DeletesWell
  <2>3. Supervised' /\ RunInv'
    BY <1>2, <2>1, RunKept
  <2>4. Settles(c)
    BY <1>2, <1>3, <1>6, <2>1, <2>2 DEF Settles
  <2> QED
    BY <2>3, <2>4, CallerOne
<1> QED
  BY <1>4, <1>5, <1>6

\* A request begins start_camera, after a stop has ended every restart or with
\* auto-restart off.
LEMMA StartCallOne ==
    ASSUME OneAtATime, OneInv, listed, NEW c \in Callers, StartCall(c),
           \A r \in Procs : ~Pending(r)
    PROVE  Supervised' /\ RunInv' /\ StartInv' /\ StopInv' /\ DeleteInv'
<1>1. TypeOK /\ \A d \in Callers : d = c
  BY DEF OneInv, IInv, OneAtATime
<1>2. UNCHANGED <<listed, status, process, log_task, stability_task, proc, reader, timer>>
  BY DEF StartCall, handleVars
<1>3. \A r \in Procs : ~Pending(r)' /\ timer'[r] # "spawning"
  BY <1>2 DEF Pending
<1>4. CASE StartBegun /\ call' = [call EXCEPT ![c] = At("spawning", None, "end")]
  <2>1. status # "running" /\ \A p \in Procs : stability'[p] # "sleeping"
    BY <1>4, StartBegunOne
  <2>2. call'[c].pc = "spawning" /\ call'[c].then = "end"
    BY <1>1, <1>4 DEF At, TypeOK
  <2>3. Supervised' /\ RunInv'
    BY <1>2, <2>1, RunKept
  <2>4. StartInv'
    BY <1>2, <1>3, <2>1 DEF StartInv
  <2>5. StopInv' /\ DeleteInv'
    BY <1>1, <1>2, <1>3, <2>2 DEF StopInv, DeleteInv
  <2> QED
    BY <2>3, <2>4, <2>5
<1>5. CASE /\ call' = [call EXCEPT ![c] = Idle]
           /\ UNCHANGED <<manually_stopped, stability>>
  <2>1. call'[c].pc = "idle" /\ DeletesWell(c)
    BY <1>1, <1>2, <1>5 DEF Idle, At, TypeOK, DeletesWell
  <2>2. Supervised' /\ RunInv'
    BY <1>2, <1>5, RunKept
  <2>3. Settles(c)
    BY <1>2, <1>3, <1>5, <2>1 DEF Settles
  <2> QED
    BY <2>2, <2>3, CallerOne
<1> QED
  BY <1>4, <1>5 DEF StartCall

\* A camera that does not run is deleted at once.
LEMMA DeleteCallOne ==
    ASSUME OneAtATime, OneInv, IInv', listed, NEW c \in Callers,
           "delete" \in Requests, DeleteCall(c)
    PROVE  Supervised' /\ RunInv' /\ StartInv' /\ StopInv' /\ DeleteInv'
<1>1. ~AutoRestart
  BY DEF OneAtATime
<1>2. CASE StopCall(c, "delete")
  BY <1>1, <1>2, StopCallOne
<1>3. CASE ~StopCall(c, "delete")
  <2>1. /\ status # "running" /\ Stopped(c, "delete")
        /\ UNCHANGED <<status, process, manually_stopped, log_task, stability_task>>
        /\ UNCHANGED <<proc, reader, timer, stability>>
    BY <1>3 DEF DeleteCall, handleVars, taskVars
  <2>2. call'[c].pc \in {"idle", "pausing"} /\ DeletesWell(c)
    BY <1>1, <2>1, StoppedOne
  <2>3. Supervised' /\ RunInv'
    BY <2>1 DEF OneInv, Supervised, RunInv, Alive
  <2>4. call'[c].pc = "idle" /\ \A r \in Procs : ~Pending(r)'
    BY <1>1, <2>1 DEF Stopped, Idle, At, OneInv, IInv, TypeOK, StartInv, Pending
  <2>5. Settles(c)
    BY <2>1, <2>2, <2>4 DEF Settles
  <2> QED
    BY <2>3, <2>5, CallerOne
<1> QED
  BY <1>2, <1>3

-----------------------------------------------------------------------------
(***************************************************************************)
(* The invariant is inductive.                                             *)
(***************************************************************************)

\* A stop that goes on after an await.
LEMMA StopGoesOn ==
    ASSUME OneAtATime, OneInv, IInv', NEW c \in Callers,
           StopTimedOut(c) \/ StopExited(c) \/ Reaped(c)
    PROVE  Supervised' /\ RunInv' /\ StartInv' /\ StopInv' /\ DeleteInv'
<1>1. TypeOK /\ RunInv /\ Supervised
  BY DEF OneInv, IInv
<1>2. /\ manually_stopped'
      /\ UNCHANGED <<log_task, stability_task, stability>>
  BY DEF StopTimedOut, StopExited, Reaped, handleVars, taskVars, OneInv, StopInv
<1>3. \A r \in Procs : ~Pending(r)'
  BY <1>2 DEF IInv, StopHaltsRestart
<1>4. /\ call[c].then \in {"end", "start", "delete"}
      /\ call[c].then = "delete" => ~AutoRestart
      /\ listed
  BY <1>1, CallThen DEF StopTimedOut, StopExited, Reaped, OneInv, DeleteInv
<1>5. ASSUME Forget(c, call[c].then), UNCHANGED proc, process # None, Exited(process)
      PROVE  Supervised' /\ RunInv' /\ StartInv' /\ StopInv' /\ DeleteInv'
  <2>1. /\ Supervised' /\ RunInv' /\ status' = "stopped"
        /\ call'[c].pc \in {"idle", "pausing", "reaping"} /\ DeletesWell(c)
    BY <1>2, <1>4, <1>5, ForgetOne
  <2>2. Settles(c)
    BY <1>2, <1>3, <2>1 DEF Settles
  <2> QED
    BY <2>1, <2>2, CallerOne
<1>6. CASE StopTimedOut(c)
  <2>1. process # None /\ call[c].of = process /\ process \in Procs
    BY <1>1, <1>6 DEF StopTimedOut, OneInv, StopInv, TypeOK
  <2>2. /\ proc' = [proc EXCEPT ![process] = "killed"]
        /\ call' = [call EXCEPT ![c] = At("killing", process, call[c].then)]
        /\ UNCHANGED <<listed, status, process, reader>>
        /\ Alive(process)
    <3>1. ~Exited(process)
      BY <1>6, <2>1 DEF StopTimedOut
    <3>2. Alive(process)
      BY <1>1, <2>1, <3>1 DEF Exited, Alive, RunInv, TypeOK, ProcStates
    <3>3. call' = [call EXCEPT ![c] = At("killing", process, call[c].then)]
      BY <1>1, <1>6, <2>1, <3>1 DEF StopTimedOut, TypeOK
    <3> QED
      BY <1>6, <2>1, <3>1, <3>2, <3>3 DEF StopTimedOut
  <2>3. call'[c].pc = "killing" /\ call'[c].of = process /\ DeletesWell(c)
    BY <1>1, <1>4, <2>2 DEF At, TypeOK, DeletesWell
  <2>4. \A p \in Procs : proc'[p] = IF p = process THEN "killed" ELSE proc[p]
    BY <1>1, <2>2 DEF TypeOK
  <2>5. Supervised'
    BY <1>1, <2>1, <2>2, <2>4 DEF Supervised, Alive
  <2>6. RunInv'
    BY <1>1, <1>2, <2>1, <2>2, <2>4 DEF RunInv
  <2>7. Settles(c)
    BY <1>2, <1>3, <2>1, <2>2, <2>3 DEF Settles
  <2> QED
    BY <2>5, <2>6, <2>7, CallerOne
<1>7. CASE StopExited(c)
  <2>1. process # None /\ call[c].of = process /\ Exited(process)
    BY <1>7 DEF StopExited, OneInv, StopInv
  <2> QED
    BY <1>5, <1>7, <2>1 DEF StopExited
<1>8. CASE Reaped(c)
  <2>1. /\ Stopped(c, call[c].then)
        /\ UNCHANGED <<status, process, log_task, stability_task, proc, reader, stability>>
    BY <1>8 DEF Reaped, handleVars, taskVars
  <2>2. status # "running" /\ \A p \in Procs : ~Alive(p)
    BY <1>1, <1>8 DEF Reaped, Supervised, OneInv, StopInv
  <2>3. call'[c].pc \in {"idle", "pausing"} /\ DeletesWell(c)
    BY <1>4, <2>1, <2>2, StoppedOne
  <2>4. Supervised' /\ RunInv'
    BY <1>1, <2>1, <2>2 DEF Supervised, RunInv, Alive
  <2>5. Settles(c)
    BY <1>2, <1>3, <2>3 DEF Settles
  <2> QED
    BY <2>4, <2>5, CallerOne
<1> QED
  BY <1>6, <1>7, <1>8

\* A reader ends with the run of its process.
LEMMA ReadLogsOne ==
    ASSUME OneAtATime, OneInv, NEW r \in Procs, ReadLogs(r)
    PROVE  Supervised' /\ RunInv' /\ StartInv' /\ StopInv' /\ DeleteInv'
<1>1. TypeOK /\ RunInv /\ Supervised /\ StartInv /\ StopInv /\ DeleteInv
  BY DEF OneInv, IInv
<1>2. /\ UNCHANGED <<listed, process, manually_stopped, log_task, stability_task,
                     stability, proc, call>>
      /\ reader[r].pc \in {"begin", "reading", "waiting"}
  BY DEF ReadLogs, ReaderBegins, ReaderDrained, ReaderJudges, instanceVars, handleVars
<1>3. status = "running" /\ process = r
  BY <1>1, <1>2 DEF RunInv
<1>4. ~Starting /\ \A q \in Procs : ~Pending(q)
  BY <1>1, <1>3 DEF StartInv
<1> DeleteInv'
  BY <1>1, <1>2, <1>3 DEF DeleteInv
<1>5. CASE ReaderBegins(r) \/ ReaderDrained(r)
  <2>1. UNCHANGED <<status, timer>>
    BY <1>5 DEF ReaderBegins, ReaderDrained, instanceVars
  <2>2. \A q \in Procs : q # r => reader'[q] = reader[q]
    BY <1>1, <1>5 DEF ReaderBegins, ReaderDrained, TypeOK
  <2>3. reader'[r].of = r
    <3>1. process # None
      BY <1>1, <1>3 DEF RunInv
    <3> QED
      BY <1>1, <1>3, <1>5, <3>1 DEF ReaderBegins, ReaderDrained, TypeOK, Reader
  <2>4. RunInv'
    BY <1>1, <1>2, <1>3, <2>1, <2>2, <2>3 DEF RunInv
  <2>5. Supervised'
    BY <1>1, <1>2, <2>1 DEF Supervised, Alive
  <2>6. StartInv'
    BY <1>1, <1>2, <1>4, <2>1 DEF StartInv, Starting, Pending
  <2>7. StopInv'
    BY <1>1, <1>2, <2>1 DEF StopInv, Pending
  <2> QED
    BY <2>4, <2>5, <2>6, <2>7
<1>6. CASE ReaderJudges(r)
  <2>1. reader[r].of = r /\ Exited(r) /\ reader' = [reader EXCEPT ![r] = Reader("done", None)]
    BY <1>1, <1>6 DEF ReaderJudges, RunInv
  <2>2. \A q \in Procs : reader'[q].pc \notin {"begin", "reading", "waiting"}
    BY <1>1, <1>3, <2>1 DEF RunInv, TypeOK, Reader
  <2>3. \A p \in Procs : ~Alive(p)
    BY <1>1, <1>3, <2>1 DEF Supervised, Alive, Exited
  <2>4. status' \in {"error", "stopped", "restarting"}
    BY <1>3, <1>6 DEF ReaderJudges, ScheduleRestart, TypeOK, ProcStates, Exited
  <2>5. Supervised'
    BY <1>2, <2>3 DEF Supervised, Alive
  <2>6. RunInv'
    BY <1>1, <1>2, <1>3, <2>2, <2>4 DEF RunInv
  <2>7. CASE UNCHANGED timer
    <3>1. StartInv'
      BY <1>2, <1>4, <2>4, <2>7 DEF StartInv, Starting, Pending
    <3>2. StopInv'
      BY <1>1, <1>2, <1>3, <2>7 DEF StopInv, Pending
    <3> QED
      BY <2>5, <2>6, <3>1, <3>2
  <2>8. CASE timer' # timer
    <3>1. /\ MayRestart /\ status' = "restarting"
          /\ timer' = [timer EXCEPT ![r] = "sleeping"]
      BY <1>6, <2>8 DEF ReaderJudges, ScheduleRestart
    <3>2. \A q \in Procs : timer'[q] = IF q = r THEN "sleeping" ELSE timer[q]
      BY <1>1, <3>1 DEF TypeOK
    <3>3. ~Starting'
      BY <1>2, <1>4, <3>2 DEF Starting
    <3>4. StartInv'
      BY <3>1, <3>3 DEF StartInv, MayRestart
    <3>5. StopInv'
      BY <1>1, <1>2, <1>3, <1>4 DEF StopInv, Starting
    <3> QED
      BY <2>5, <2>6, <3>4, <3>5
  <2> QED
    BY <2>7, <2>8
<1> QED
  BY <1>5, <1>6 DEF ReadLogs

\* The auto-restart timer starts what is not running.
LEMMA AutoRestartsOne ==
    ASSUME OneAtATime, OneInv, NEW r \in Procs, AutoRestarts(r)
    PROVE  Supervised' /\ RunInv' /\ StartInv' /\ StopInv' /\ DeleteInv'
<1>1. TypeOK /\ RunInv /\ Supervised /\ StartInv /\ StopInv /\ DeleteInv /\ RestartIsTracked
  BY DEF OneInv, IInv
<1>2. Pending(r) /\ UNCHANGED <<listed, call>>
  BY DEF AutoRestarts, TimerFires, TimerSpawned, Spawned, Pending
<1>3. status = "restarting" /\ AutoRestart /\ ~manually_stopped
  BY <1>1, <1>2 DEF StartInv, OneInv, IInv, StopHaltsRestart
<1>4. \A q \in Procs : Pending(q) => q = r
  BY <1>1, <1>2, ProcNumbers DEF RestartIsTracked
<1>5. \A c \in Callers : call[c].pc \notin {"spawning", "terminating", "killing", "reaping", "pausing"}
  BY <1>1, <1>2, <1>3 DEF StopInv
<1>6. listed /\ StopInv' /\ DeleteInv'
  BY <1>1, <1>2, <1>3, <1>5 DEF StopInv, DeleteInv
<1>7. CASE TimerFires(r)
  <2>1. StartBegun /\ timer' = [timer EXCEPT ![r] = "spawning"] /\ UNCHANGED status
    BY <1>3, <1>6, <1>7 DEF TimerFires
  <2>2. UNCHANGED <<process, log_task, stability_task, proc, reader>>
    BY <1>7 DEF TimerFires, handleVars
  <2>3. \A p \in Procs : stability'[p] # "sleeping"
    BY <2>1, StartBegunOne
  <2>4. Supervised' /\ RunInv'
    BY <1>2, <2>1, <2>2, <2>3, RunKept
  <2>5. StartInv'
    BY <1>3, <2>1, <2>3 DEF StartInv
  <2> QED
    BY <1>6, <2>4, <2>5
<1>8. CASE TimerSpawned(r)
  <2>1. Spawned /\ timer[r] = "spawning" /\ timer' = [timer EXCEPT ![r] = "done"]
    BY <1>8 DEF TimerSpawned
  <2>2. \A q \in Procs : ~Pending(q)' /\ timer'[q] # "spawning"
    BY <1>1, <1>4, <2>1 DEF Pending, TypeOK
  <2>3. ~Starting'
    BY <1>2, <1>5, <2>2 DEF Starting
  <2>4. Supervised' /\ RunInv'
    BY <1>6, <2>1, <2>3, SpawnedOne DEF Starting
  <2>5. StartInv'
    BY <2>2, <2>3 DEF StartInv
  <2> QED
    BY <1>6, <2>4, <2>5
<1> QED
  BY <1>7, <1>8 DEF AutoRestarts

\* A process begins to exist when it is adopted, and ends on its own.
LEMMA ProcessOne ==
    ASSUME OneInv, NEW p \in Procs, ProcessCrashes(p) \/ ProcessEnds(p) \/ ProcessDies(p)
    PROVE  Supervised' /\ RunInv' /\ StartInv' /\ StopInv' /\ DeleteInv'
<1>1. TypeOK /\ RunInv /\ Supervised /\ StartInv /\ StopInv /\ DeleteInv
  BY DEF OneInv, IInv
<1>2. /\ UNCHANGED <<listed, status, process, manually_stopped, log_task, stability_task>>
      /\ UNCHANGED <<reader, timer, stability, call>>
      /\ \A q \in Procs : proc'[q] = proc[q] \/ (q = p /\ proc'[q] \in {"ok", "failed"})
  BY <1>1 DEF ProcessCrashes, ProcessEnds, ProcessDies, TypeOK, instanceVars, handleVars, taskVars
<1>3. Supervised'
  BY <1>1, <1>2 DEF Supervised, Alive
<1>4. RunInv'
  BY <1>1, <1>2 DEF RunInv, TypeOK
<1>5. StartInv' /\ StopInv' /\ DeleteInv'
  BY <1>1, <1>2 DEF StartInv, Starting, StopInv, DeleteInv, Pending
<1> QED
  BY <1>3, <1>4, <1>5

LEMMA OneInvStep == OneAtATime /\ OneInv /\ [Next]_vars => OneInv'
<1> SUFFICES ASSUME OneAtATime, OneInv, [Next]_vars, IInv'
             PROVE  Supervised' /\ RunInv' /\ StartInv' /\ StopInv' /\ DeleteInv'
  BY IInvStep DEF OneInv
<1>1. ASSUME NEW c \in Callers, Request(c)
      PROVE  Supervised' /\ RunInv' /\ StartInv' /\ StopInv' /\ DeleteInv'
  <2>1. CASE "start" \in Requests /\ StartCall(c)
    <3>1. \A r \in Procs : ~Pending(r)
      BY <2>1 DEF OneAtATime, OneInv, StartInv
    <3> QED
      BY <1>1, <2>1, <3>1, StartCallOne DEF Request
  <2>2. CASE StopCall(c, "end") \/ StopCall(c, "start")
    BY <1>1, <2>2, StopCallOne DEF Request
  <2>3. CASE "delete" \in Requests /\ DeleteCall(c)
    BY <1>1, <2>3, DeleteCallOne DEF Request
  <2> QED
    BY <1>1, <2>1, <2>2, <2>3 DEF Request
<1>2. ASSUME NEW c \in Callers, Resume(c)
      PROVE  Supervised' /\ RunInv' /\ StartInv' /\ StopInv' /\ DeleteInv'
  <2>1. CASE CallerSpawned(c)
    <3>1. /\ Spawned /\ call[c].pc = "spawning" /\ UNCHANGED timer
          /\ call' = [call EXCEPT ![c] = Idle]
      BY <2>1 DEF CallerSpawned
    <3>2. Starting /\ \A r \in Procs : ~Pending(r)' /\ timer'[r] # "spawning"
      BY <3>1 DEF Starting, OneInv, StopInv, Pending
    <3>3. call'[c].pc = "idle" /\ call'[c].then = "end" /\ \A d \in Callers : d = c
      BY <3>1 DEF OneInv, IInv, TypeOK, Idle, At, OneAtATime
    <3>4. ~Starting'
      BY <3>2, <3>3 DEF Starting
    <3>5. listed /\ listed'
      BY <3>1 DEF OneInv, DeleteInv, Spawned
    <3>6. Supervised' /\ RunInv'
      BY <3>1, <3>2, <3>4, <3>5, SpawnedOne
    <3>7. StartInv' /\ StopInv' /\ DeleteInv'
      BY <3>2, <3>3, <3>4, <3>5 DEF StartInv, StopInv, DeleteInv
    <3> QED
      BY <3>6, <3>7
  <2>2. CASE StopTimedOut(c) \/ StopExited(c) \/ Reaped(c)
    BY <2>2, StopGoesOn
  <2>3. CASE PauseOver(c)
    <3>1. listed /\ StartCall(c) /\ \A r \in Procs : ~Pending(r)
      BY <2>3 DEF PauseOver, OneInv, StopInv, DeleteInv, IInv, StopHaltsRestart
    <3> QED
      BY <3>1, StartCallOne
  <2> QED
    BY <1>2, <2>1, <2>2, <2>3 DEF Resume
<1>3. ASSUME NEW r \in Procs, ReadLogs(r) \/ AutoRestarts(r)
      PROVE  Supervised' /\ RunInv' /\ StartInv' /\ StopInv' /\ DeleteInv'
  BY <1>3, ReadLogsOne, AutoRestartsOne
<1>4. ASSUME NEW p \in Procs, StabilityElapsed(p)
      PROVE  Supervised' /\ RunInv' /\ StartInv' /\ StopInv' /\ DeleteInv'
  <2>1. /\ UNCHANGED <<listed, status, process, manually_stopped, log_task, stability_task>>
        /\ UNCHANGED <<proc, reader, timer, call>>
        /\ \A q \in Procs : stability'[q] = "sleeping" => stability[q] = "sleeping"
    BY <1>4 DEF StabilityElapsed, handleVars, OneInv, IInv, TypeOK
  <2>2. Supervised' /\ RunInv'
    BY <2>1, RunKept
  <2>3. StartInv' /\ StopInv' /\ DeleteInv'
    BY <2>1 DEF OneInv, StartInv, Starting, StopInv, DeleteInv, Pending
  <2> QED
    BY <2>2, <2>3
<1>5. ASSUME NEW p \in Procs, ProcessCrashes(p) \/ ProcessEnds(p) \/ ProcessDies(p)
      PROVE  Supervised' /\ RunInv' /\ StartInv' /\ StopInv' /\ DeleteInv'
  BY <1>5, ProcessOne
<1>6. CASE UNCHANGED vars
  BY <1>6 DEF vars, instanceVars, handleVars, taskVars, boundVars, OneInv, Supervised, RunInv,
              StartInv, Starting, StopInv, DeleteInv, Alive, Pending
<1> QED
  BY <1>1, <1>2, <1>3, <1>4, <1>5, <1>6 DEF Next

LEMMA OneInvariance ==
    ASSUME OneAtATime
    PROVE  Spec => []OneInv
<1>1. OneInv /\ [Next]_vars => OneInv'
  BY OneInvStep
<1> QED
  BY <1>1, OneInvInit, PTL DEF Spec

\* With requests one at a time a process that lives is the instance's, its status
\* says "running" and the camera is configured: none is ever lost, whatever
\* crashes, slow exits, failed starts, readers and restarts do meanwhile.
THEOREM SupervisedTheorem ==
    ASSUME OneAtATime
    PROVE  Spec => []Supervised
<1>1. OneInv => Supervised
  BY DEF OneInv
<1> QED
  BY <1>1, OneInvariance, PTL

\* Only the timer that was started with the current process lowers the count of
\* attempts: no other step does, and no timer left over from an earlier run.
THEOREM ResetIsEarnedTheorem ==
    ASSUME OneAtATime
    PROVE  Spec => ResetIsEarned
<1> DEFINE Earned == restart_attempt' < restart_attempt =>
             /\ status = "running"
             /\ \E p \in Procs :
                  process = p /\ stability[p] = "sleeping" /\ stability'[p] = "done"
<1>1. OneInv /\ [Next]_vars => [Earned]_vars
  <2> SUFFICES ASSUME OneInv, Next, restart_attempt' < restart_attempt
               PROVE  Earned
    BY DEF Earned
  <2>1. PICK q \in Procs : StabilityElapsed(q)
    BY DEF Next, Request, StartCall, StopCall, DeleteCall, Resume, CallerSpawned, Spawned,
           StopTimedOut, StopExited, Reaped, PauseOver, ReadLogs, ReaderBegins, ReaderDrained,
           ReaderJudges, ScheduleRestart, AutoRestarts, TimerFires, TimerSpawned,
           ProcessCrashes, ProcessEnds, ProcessDies, instanceVars, OneInv, IInv, TypeOK
  <2>2. status = "running" /\ stability[q] = "sleeping" /\ stability'[q] = "done"
    BY <2>1 DEF StabilityElapsed, OneInv, IInv, TypeOK
  <2>3. process = q
    BY <2>2 DEF OneInv, RunInv
  <2> QED
    BY <2>2, <2>3
<1> QED
  BY <1>1, OneInvariance, PTL DEF Spec, ResetIsEarned

=============================================================================
