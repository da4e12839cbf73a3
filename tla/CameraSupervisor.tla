-------------------------- MODULE CameraSupervisor --------------------------
(***************************************************************************)
(* How the web server supervises the process of one camera: start, stop,   *)
(* restart and delete requests, the readers of the process output, the     *)
(* auto-restart timers and the stability timers of                         *)
(* unifi/web/camera_manager.py (CameraManager, CameraInstance).  Cameras   *)
(* share nothing but the configuration and the counter of diagnostics      *)
(* ports, so one camera is modelled.                                       *)
(*                                                                         *)
(* Everything runs on one asyncio loop, so an action is the code between   *)
(* two awaits that can suspend.  A process, the task that reads its        *)
(* output, the restart that task may schedule and the stability timer      *)
(* started with the process carry the same number.                         *)
(*                                                                         *)
(* Before some definitions stands a faulty variant of it, named for a slip *)
(* that code like this invites.  No specification here uses one; each      *)
(* breaks the property PROJECT.json pairs it with.                         *)
(***************************************************************************)
EXTENDS Integers, FiniteSets

CONSTANTS
    Callers,        \* handlers of HTTP requests
    None,           \* Python's None
    Requests,       \* the requests they may serve
    AutoRestart,    \* auto_restart_enabled
    MaxAttempts,    \* auto_restart_max_attempts, 0 for no limit
    SpawnFails,     \* TRUE when creating a process may raise
    MaxRequests,    \* bound: requests served in a behaviour
    MaxCrashes      \* bound: processes that end by themselves with an error

ASSUME CallersAssumption == Requests \subseteq {"start", "stop", "restart", "delete"}
ASSUME BoundsAssumption ==
    /\ MaxRequests \in Nat
    /\ MaxCrashes \in Nat
    /\ MaxAttempts \in Nat
    /\ None \notin Nat
ASSUME SwitchesAssumption == {AutoRestart, SpawnFails} \subseteq BOOLEAN

\* A process is created by a request or by a restart that follows a crash.
Procs == 1 .. MaxRequests + MaxCrashes

VARIABLES
    listed,            \* the instance is in CameraManager.instances
    status,            \* instance.status
    process,           \* instance.process
    manually_stopped,  \* instance.manually_stopped
    restart_attempt,   \* instance.restart_attempt
    restart_task,      \* instance._restart_task
    log_task,          \* instance._log_task
    stability_task,    \* instance._stability_task
    proc,              \* the operating system's processes
    reader,            \* the _read_logs tasks
    timer,             \* the _auto_restart tasks
    stability,         \* the _reset_backoff_after_stable_run tasks
    call,              \* where each request is suspended
    requests, crashes  \* counted for the bounds

instanceVars == <<listed, status, process, manually_stopped, restart_attempt>>
handleVars == <<restart_task, log_task, stability_task>>
taskVars == <<reader, timer, stability>>
boundVars == <<requests, crashes>>
vars == <<instanceVars, handleVars, taskVars, proc, call, boundVars>>

Statuses == {"stopped", "running", "error", "restarting"}
ProcStates == {"unborn", "alive", "killed", "ok", "failed"}
TimerStates == {"none", "sleeping", "spawning", "done"}
ReaderStates ==
    [pc : {"none", "begin", "reading", "waiting", "done"}, of : Procs \cup {None}]
CallPcs == {"idle", "spawning", "terminating", "killing", "reaping", "pausing"}
CallStates == [pc : CallPcs, of : Procs \cup {None}, then : {"end", "start", "delete"}]

Reader(pc, p) == [pc |-> pc, of |-> p]
At(pc, p, then) == [pc |-> pc, of |-> p, then |-> then]
Idle == At("idle", None, "end")

Alive(p) == proc[p] \in {"alive", "killed"}
Exited(p) == proc[p] \in {"ok", "failed"}
Pending(r) == timer[r] \in {"sleeping", "spawning"}

(***************************************************************************)
(* The camera is configured and not started.                               *)
(***************************************************************************)
Init ==
    /\ listed = TRUE
    /\ status = "stopped"
    /\ process = None
    /\ manually_stopped = FALSE
    /\ restart_attempt = 0
    /\ restart_task = None
    /\ log_task = None
    /\ stability_task = None
    /\ proc = [p \in Procs |-> "unborn"]
    /\ reader = [p \in Procs |-> Reader("none", None)]
    /\ timer = [p \in Procs |-> "none"]
    /\ stability = [p \in Procs |-> "none"]
    /\ call = [c \in Callers |-> Idle]
    /\ requests = 0
    /\ crashes = 0

-----------------------------------------------------------------------------
(***************************************************************************)
(* start_camera, run by requests and by the auto-restart timer.            *)
(***************************************************************************)

StabilityKept == stability

\* The stability timer of the previous run is cancelled.
StabilityCancelled ==
    IF stability_task = None THEN stability
                             ELSE [stability EXCEPT ![stability_task] = "done"]

\* Up to the creation of the process, which suspends.
StartBegun ==
    /\ listed
    /\ status # "running"
    /\ manually_stopped' = FALSE
    /\ stability' = StabilityCancelled

AdoptWithoutStatus(p) ==
    /\ proc' = [proc EXCEPT ![p] = "alive"]
    /\ process' = p
    /\ UNCHANGED status
    /\ log_task' = p
    /\ reader' = [reader EXCEPT ![p] = Reader("begin", None)]
    /\ stability' = [stability EXCEPT ![p] = "sleeping"]
    /\ stability_task' = p

\* The process p exists: adopt it and create the tasks that attend to it.
Adopt(p) ==
    /\ proc' = [proc EXCEPT ![p] = "alive"]
    /\ process' = p
    /\ status' = "running"
    /\ log_task' = p
    /\ reader' = [reader EXCEPT ![p] = Reader("begin", None)]
    /\ stability' = [stability EXCEPT ![p] = "sleeping"]
    /\ stability_task' = p

\* Someone has been woken by the exit of a process and not run yet.
Woken ==
    \/ \E c \in Callers : call[c].pc \in {"terminating", "killing"} /\ Exited(call[c].of)
    \/ \E r \in Procs : reader[r].pc = "waiting" /\ Exited(reader[r].of)

\* create_subprocess_exec returned, or raised.  It takes several turns of the
\* loop, so that whoever is woken meanwhile runs first.
Spawned ==
    /\ ~Woken
    /\ \/ \E p \in Procs :
            /\ proc[p] = "unborn"
            /\ \A q \in Procs : q < p => proc[q] # "unborn"
            /\ Adopt(p)
       \/ /\ SpawnFails
          /\ status' = "error"
          /\ UNCHANGED <<process, log_task, stability_task, proc, reader, stability>>
    /\ UNCHANGED <<listed, manually_stopped, restart_attempt, restart_task, boundVars>>

\* A request begins start_camera: 404 when the camera is gone, nothing to do
\* when it runs.
StartCall(c) ==
    /\ \/ /\ StartBegun
          /\ call' = [call EXCEPT ![c] = At("spawning", None, "end")]
       \/ /\ ~listed \/ status = "running"
          /\ call' = [call EXCEPT ![c] = Idle]
          /\ UNCHANGED <<manually_stopped, stability>>
    /\ UNCHANGED <<listed, status, process, restart_attempt, handleVars, proc,
                   reader, timer, crashes>>

CallerSpawned(c) ==
    /\ call[c].pc = "spawning"
    /\ Spawned
    /\ call' = [call EXCEPT ![c] = Idle]
    /\ UNCHANGED timer

-----------------------------------------------------------------------------
(***************************************************************************)
(* _auto_restart and _reset_backoff_after_stable_run.                      *)
(***************************************************************************)

\* The delay is over.  start_camera raises when the camera has been deleted.
TimerFires(r) ==
    /\ timer[r] = "sleeping"
    /\ \/ /\ ~manually_stopped
          /\ StartBegun
          /\ timer' = [timer EXCEPT ![r] = "spawning"]
          /\ UNCHANGED status
       \/ /\ manually_stopped \/ ~listed \/ status = "running"
          /\ timer' = [timer EXCEPT ![r] = "done"]
          /\ status' = IF manually_stopped \/ listed THEN status ELSE "error"
          /\ UNCHANGED <<manually_stopped, stability>>
    /\ UNCHANGED <<listed, process, restart_attempt, handleVars, proc, reader,
                   call, boundVars>>

TimerSpawned(r) ==
    /\ timer[r] = "spawning"
    /\ Spawned
    /\ timer' = [timer EXCEPT ![r] = "done"]
    /\ UNCHANGED call

StabilityDecays(p) ==
    /\ stability[p] = "sleeping"
    /\ stability' = [stability EXCEPT ![p] = "done"]
    /\ restart_attempt' = IF status = "running" THEN restart_attempt - 1
                                                ELSE restart_attempt
    /\ UNCHANGED <<listed, status, process, manually_stopped, handleVars, proc,
                   reader, timer, call, boundVars>>

\* Five minutes have passed since process p was started.
StabilityElapsed(p) ==
    /\ stability[p] = "sleeping"
    /\ stability' = [stability EXCEPT ![p] = "done"]
    /\ restart_attempt' = IF status = "running" THEN 0 ELSE restart_attempt
    /\ UNCHANGED <<listed, status, process, manually_stopped, handleVars, proc,
                   reader, timer, call, boundVars>>

-----------------------------------------------------------------------------
(***************************************************************************)
(* _read_logs and _maybe_schedule_restart.                                 *)
(***************************************************************************)

\* The task reads whichever process the instance has when it first runs.
ReaderBegins(r) ==
    /\ reader[r].pc = "begin"
    /\ reader' = [reader EXCEPT ![r] =
                    IF process = None THEN Reader("done", None)
                                      ELSE Reader("reading", process)]
    /\ UNCHANGED <<instanceVars, handleVars, timer, stability, proc, call, boundVars>>

\* Its streams have ended (or another task reads them, which raises), and it
\* waits for whichever process the instance has now: None raises.
ReaderDrained(r) ==
    /\ reader[r].pc = "reading"
    /\ \/ Exited(reader[r].of)
       \/ \E s \in Procs \ {r} : reader[s] = reader[r]
    /\ reader' = [reader EXCEPT ![r] =
                    IF process = None THEN Reader("done", None)
                                      ELSE Reader("waiting", process)]
    /\ UNCHANGED <<instanceVars, handleVars, timer, stability, proc, call, boundVars>>

MayRestartOnce ==
    /\ ~manually_stopped
    /\ restart_task = None
    /\ AutoRestart

\* _maybe_schedule_restart has something to do.
MayRestart ==
    /\ ~manually_stopped
    /\ restart_task # None => ~Pending(restart_task)
    /\ AutoRestart

ScheduleBeforeLimit(r) ==
    /\ restart_attempt' = restart_attempt + 1
    /\ status' = "restarting"
    /\ IF MaxAttempts > 0 /\ restart_attempt + 1 > MaxAttempts
       THEN UNCHANGED <<timer, restart_task>>
       ELSE /\ timer' = [timer EXCEPT ![r] = "sleeping"]
            /\ restart_task' = r

\* Schedule a restart, unless the attempts are used up.
ScheduleRestart(r) ==
    LET attempt == restart_attempt + 1
    IN  /\ restart_attempt' = attempt
        /\ IF MaxAttempts > 0 /\ attempt > MaxAttempts
           THEN /\ status' = "error"
                /\ UNCHANGED <<timer, restart_task>>
           ELSE /\ status' = "restarting"
                /\ timer' = [timer EXCEPT ![r] = "sleeping"]
                /\ restart_task' = r

\* The process the task waited for has exited; -15, -9 and 0 are "ok".
ReaderJudges(r) ==
    /\ reader[r].pc = "waiting"
    /\ Exited(reader[r].of)
    /\ reader' = [reader EXCEPT ![r] = Reader("done", None)]
    /\ \/ /\ status = "running" /\ proc[reader[r].of] = "failed" /\ MayRestart
          /\ ScheduleRestart(r)
       \/ /\ status = "running" /\ proc[reader[r].of] = "failed" /\ ~MayRestart
          /\ status' = "error"
          /\ UNCHANGED <<restart_attempt, timer, restart_task>>
       \/ /\ status = "running" /\ proc[reader[r].of] = "ok"
          /\ status' = "stopped"
          /\ UNCHANGED <<restart_attempt, timer, restart_task>>
       \/ /\ status # "running"
          /\ UNCHANGED <<status, restart_attempt, timer, restart_task>>
    /\ UNCHANGED <<listed, process, manually_stopped, log_task, stability_task,
                   stability, proc, call, boundVars>>

-----------------------------------------------------------------------------
(***************************************************************************)
(* stop_camera, and restart_camera and delete_camera, which call it.       *)
(***************************************************************************)

\* stop_camera has returned: restart_camera sleeps for a second,
\* delete_camera drops the camera.
Stopped(c, then) ==
    /\ call' = [call EXCEPT ![c] = IF then = "start" THEN At("pausing", None, "start")
                                                     ELSE Idle]
    /\ listed' = (listed /\ then # "delete")

\* The process is gone: forget it, cancel the task handle's reader and wait
\* for its end.
Forget(c, then) ==
    /\ status' = "stopped"
    /\ process' = None
    /\ IF log_task # None /\ reader[log_task].pc # "done"
       THEN /\ reader' = [reader EXCEPT ![log_task] = Reader("done", None)]
            /\ call' = [call EXCEPT ![c] = At("reaping", None, then)]
            /\ UNCHANGED listed
       ELSE Stopped(c, then) /\ UNCHANGED reader

ForgetRestart ==
    /\ restart_task' = IF restart_task # None /\ Pending(restart_task) THEN None
                                                                      ELSE restart_task
    /\ UNCHANGED timer

\* Cancel a pending auto-restart.  A restart that is creating its process is
\* interrupted there, and asyncio kills the process.
CancelRestart ==
    IF restart_task # None /\ Pending(restart_task)
    THEN /\ timer' = [timer EXCEPT ![restart_task] = "done"]
         /\ restart_task' = None
    ELSE UNCHANGED <<timer, restart_task>>

\* stop_camera up to its first await.
StopCall(c, then) ==
    /\ manually_stopped' = TRUE
    /\ CancelRestart
    /\ \/ /\ status \notin {"running", "restarting"} \/ process = None
          /\ status' = "stopped"
          /\ Stopped(c, then)
          /\ UNCHANGED <<process, reader>>
       \/ /\ status \in {"running", "restarting"} /\ process # None
          /\ IF Exited(process)
             THEN Forget(c, then)
             ELSE /\ call' = [call EXCEPT ![c] = At("terminating", process, then)]
                  /\ UNCHANGED <<listed, status, process, reader>>
    /\ UNCHANGED <<restart_attempt, log_task, stability_task, stability, proc, crashes>>

StopForgetsRunning(c) ==
    /\ call[c].pc = "terminating" /\ ~Exited(call[c].of)
    /\ Forget(c, call[c].then)
    /\ UNCHANGED <<manually_stopped, restart_attempt, handleVars, proc, timer,
                   stability, boundVars>>

KillForgotten(c) ==
    /\ call[c].pc = "terminating" /\ ~Exited(call[c].of)
    /\ call' = [call EXCEPT ![c] = At("killing", @.of, @.then)]
    /\ UNCHANGED <<instanceVars, handleVars, taskVars, proc, boundVars>>

\* Five seconds after SIGTERM: kill instance.process, whichever it is by now.
StopTimedOut(c) ==
    /\ call[c].pc = "terminating" /\ ~Exited(call[c].of)
    /\ IF process # None /\ Exited(process)
       THEN Forget(c, call[c].then) /\ UNCHANGED proc
       ELSE /\ IF process = None
               THEN call' = [call EXCEPT ![c] = Idle] /\ UNCHANGED proc
               ELSE /\ proc' = [proc EXCEPT ![process] = "killed"]
                    /\ call' = [call EXCEPT ![c] = At("killing", process, @.then)]
            /\ UNCHANGED <<listed, status, process, reader>>
    /\ UNCHANGED <<manually_stopped, restart_attempt, handleVars, timer, stability,
                   boundVars>>

\* The process the request waited for has exited.
StopExited(c) ==
    /\ call[c].pc \in {"terminating", "killing"} /\ Exited(call[c].of)
    /\ Forget(c, call[c].then)
    /\ UNCHANGED <<manually_stopped, restart_attempt, handleVars, proc, timer,
                   stability, boundVars>>

\* The cancelled reader has ended.
Reaped(c) ==
    /\ call[c].pc = "reaping"
    /\ Stopped(c, call[c].then)
    /\ UNCHANGED <<status, process, manually_stopped, restart_attempt, handleVars,
                   taskVars, proc, boundVars>>

\* restart_camera goes on to start_camera.
PauseOver(c) ==
    /\ call[c].pc = "pausing"
    /\ StartCall(c)
    /\ UNCHANGED requests

\* delete_camera stops the camera first if its status is "running".
DeleteCall(c) ==
    \/ /\ status = "running"
       /\ StopCall(c, "delete")
    \/ /\ status # "running"
       /\ Stopped(c, "delete")
       /\ UNCHANGED <<status, process, manually_stopped, restart_attempt, handleVars,
                      taskVars, proc, crashes>>

Request(c) ==
    /\ call[c] = Idle
    /\ listed
    /\ requests < MaxRequests
    /\ requests' = requests + 1
    /\ \/ "start" \in Requests /\ StartCall(c)
       \/ "stop" \in Requests /\ StopCall(c, "end")
       \/ "restart" \in Requests /\ StopCall(c, "start")
       \/ "delete" \in Requests /\ DeleteCall(c)

-----------------------------------------------------------------------------
(***************************************************************************)
(* The operating system's processes.                                       *)
(***************************************************************************)

ProcessCrashes(p) ==
    /\ proc[p] = "alive"
    /\ crashes < MaxCrashes
    /\ proc' = [proc EXCEPT ![p] = "failed"]
    /\ crashes' = crashes + 1
    /\ UNCHANGED <<instanceVars, handleVars, taskVars, call, requests>>

\* It ends well, or of the SIGTERM a stop has sent.
ProcessEnds(p) ==
    /\ proc[p] = "alive"
    /\ proc' = [proc EXCEPT ![p] = "ok"]
    /\ UNCHANGED <<instanceVars, handleVars, taskVars, call, boundVars>>

ProcessDies(p) ==
    /\ proc[p] = "killed"
    /\ proc' = [proc EXCEPT ![p] = "ok"]
    /\ UNCHANGED <<instanceVars, handleVars, taskVars, call, boundVars>>

Resume(c) ==
    CallerSpawned(c) \/ StopTimedOut(c) \/ StopExited(c) \/ Reaped(c) \/ PauseOver(c)

ReadLogs(r) == ReaderBegins(r) \/ ReaderDrained(r) \/ ReaderJudges(r)

AutoRestarts(r) == TimerFires(r) \/ TimerSpawned(r)

Next ==
    \/ \E c \in Callers : Request(c) \/ Resume(c)
    \/ \E r \in Procs : ReadLogs(r) \/ AutoRestarts(r) \/ StabilityElapsed(r)
    \/ \E p \in Procs : ProcessCrashes(p) \/ ProcessEnds(p) \/ ProcessDies(p)

(***************************************************************************)
(* The loop runs every ready task, timers fire and a killed process dies.  *)
(* Nothing obliges users to ask for anything, a process to heed SIGTERM.   *)
(***************************************************************************)
Fairness ==
    /\ \A c \in Callers : WF_vars(Resume(c))
    /\ \A r \in Procs : WF_vars(ReadLogs(r)) /\ WF_vars(AutoRestarts(r))
    /\ \A p \in Procs : WF_vars(ProcessDies(p))

Spec == Init /\ [][Next]_vars
FairSpec == Spec /\ Fairness

-----------------------------------------------------------------------------
(***************************************************************************)
(* Properties.                                                             *)
(***************************************************************************)

\* Every variable has its type.
TypeOK ==
    /\ {listed, manually_stopped} \subseteq BOOLEAN
    /\ status \in Statuses
    /\ {process, restart_task, log_task, stability_task} \subseteq Procs \cup {None}
    /\ restart_attempt \in Nat
    /\ proc \in [Procs -> ProcStates]
    /\ reader \in [Procs -> ReaderStates]
    /\ timer \in [Procs -> TimerStates]
    /\ stability \in [Procs -> {"none", "sleeping", "done"}]
    /\ call \in [Callers -> CallStates]
    /\ requests \in 0 .. MaxRequests
    /\ crashes \in 0 .. MaxCrashes

\* A running process is the one the camera's status speaks of and the next
\* stop or delete ends: with requests one at a time none is ever lost, whatever
\* crashes, slow exits and log readers do meanwhile.
Supervised == \A p \in Procs : Alive(p) => process = p /\ status = "running" /\ listed

\* A comment of stop_all on the stop of a camera whose restart is pending:
\* it "actually halts the auto-restart instead of leaving zombie restart timers
\* running".  After a stop no restart is pending, however requests overlap.
StopHaltsRestart == manually_stopped => \A r \in Procs : ~Pending(r)

\* The status "restarting" is never a dead end: a restart is pending or a start
\* is on its way, unless the user has stopped the camera.
RestartingIsPending ==
    status = "restarting" =>
        \/ manually_stopped
        \/ \E r \in Procs : Pending(r)
        \/ \E c \in Callers : call[c].pc = "spawning"

\* The docstring of _reset_backoff_after_stable_run: "after camera runs stably
\* for 5 minutes".  Nothing but a timer lowers the count of attempts, and the
\* timer is the one started with the current process, which is still running.
ResetIsEarned ==
    [][restart_attempt' < restart_attempt =>
         /\ status = "running"
         /\ \E p \in Procs :
              process = p /\ stability[p] = "sleeping" /\ stability'[p] = "done"]_vars

\* A stop ends, also when the process ignores SIGTERM.
StopCompletes ==
    \A c \in Callers : call[c].pc = "terminating" ~> call[c].pc \in {"idle", "pausing"}

\* "Restart crashed cameras automatically": with no limit on the attempts and
\* processes that can be created, a crashed camera comes back unless stopped.
CrashIsAnswered ==
    \A p \in Procs :
        (process = p /\ proc[p] = "failed" /\ ~manually_stopped)
        ~> (manually_stopped \/ \E q \in Procs : Alive(q))


=============================================================================
