-------------------------- MODULE AnalyticsEvents --------------------------
(***************************************************************************)
(* The life of the generic motion ("EventAnalytics") events of one camera: *)
(* UnifiCamBase.trigger_analytics_start / _stop, the linger task that      *)
(* delays the "start" message, send(), and the part of Core.run that       *)
(* closes the camera and connects again (unifi/cams/base.py,               *)
(* unifi/core.py).                                                         *)
(*                                                                         *)
(* Everything runs on one asyncio loop, so an action is the code between   *)
(* two awaits that can suspend.  A camera source calls the two operations  *)
(* from coroutines, the Callers, in one of three ways:                     *)
(*   "poll"    a loop per connection that awaits each call (reolink,       *)
(*             reolink_nvr, dahua); an exception ends it and it is         *)
(*             cancelled when the connection is closed, but for one place  *)
(*             where it takes the cancellation for another's: then it      *)
(*             survives, and later runs beside the loop of the next        *)
(*             connection;                                                 *)
(*   "message" a task per MQTT message (frigate), with one such call at    *)
(*             its end; exceptions are logged, the tasks are cancelled     *)
(*             when the connection is closed;                              *)
(*   "http"    request handlers of the motion HTTP API (rtsp, tapo); they  *)
(*             are not cancelled before runner.cleanup().                  *)
(*                                                                         *)
(* Before some definitions stands a faulty variant of it, named for a slip *)
(* that code like this invites.  No specification here uses one; each      *)
(* breaks the property PROJECT.json pairs it with.                         *)
(***************************************************************************)
EXTENDS Integers, FiniteSets

CONSTANTS
    Callers,           \* coroutines that may call start and stop; of "poll", a
                       \* bound: as many loops as may exist at the same time
    Closer,            \* the coroutine that runs UnifiCamBase.close()
    None,              \* Python's None
    CallerKind,        \* "poll", "message" or "http"
    MaxEvents,         \* bound: analytics events registered in a behaviour
    MaxDrops,          \* bound: connections lost or forced to reconnect
    Backpressure,      \* TRUE when ws.send may suspend with the message written
    ForcedReconnects,  \* TRUE when Protect may send Reboot / UpdateFirmwareRequest
    LongEvents         \* TRUE when an event may outlive the one-hour history

ASSUME CallersAssumption ==
    /\ Callers # {}
    /\ Closer \notin Callers
    /\ CallerKind \in {"poll", "message", "http"}
ASSUME BoundsAssumption ==
    /\ MaxEvents \in Nat
    /\ MaxDrops \in Nat
    /\ None \notin Nat
ASSUME SwitchesAssumption ==
    {Backpressure, ForcedReconnects, LongEvents} \subseteq BOOLEAN

Events == 1 .. MaxEvents
Coroutines == Callers \cup {Closer}

VARIABLES
    session,    \* self._session: an open socket, a closed one, or None
    phase,      \* Core.connect: tasks running, cam.close() running to dial again
                \* or to end the program, backing off, program ended
    history,    \* _analytics_event_history: not in it, end_time None, or ended
    active,     \* _active_analytics_event_id
    handle,     \* the event whose linger task _analytics_start_task refers to
    task,       \* the linger task of every event
    call,       \* where each coroutine is suspended inside a call
    nextEvent,  \* the next event id
    cancelled,  \* callers with a CancelledError they have not met yet
    survivors,  \* loops that have swallowed theirs
    atClose,    \* history variable: nextEvent when the last close() began
    drops,      \* connections lost so far, counted for the bound
    starts,     \* "start" messages written to the socket, by event
    stops,      \* "stop" messages written to the socket, by event
    open        \* the events Protect takes to be in progress

camVars == <<history, active, handle, task, call, nextEvent>>
closeVars == <<cancelled, survivors, atClose>>
wireVars == <<starts, stops, open>>
vars == <<session, phase, camVars, closeVars, drops, wireVars>>

Sessions == {"up", "lost", "none"}
Phases == {"running", "closing", "backoff", "ending", "exited"}
TaskStates == {"none", "linger", "sending", "cancelling", "done"}
CallPcs == {"idle", "begin", "cancelling", "fetching", "sending", "dead"}
CallStates == [pc : CallPcs, ev : Events \cup {None}, awaits : Events \cup {None}]

\* Suspended at pc in a call about event e, waiting for the linger task of a.
At(pc, e, a) == [pc |-> pc, ev |-> e, awaits |-> a]
Idle == At("idle", None, None)
Dead == At("dead", None, None)

\* The place of the connection's own loop: the first no survivor occupies.
Loop == CHOOSE c \in Callers : c \notin survivors

\* Every place but the loop's is empty when there are loops.
LoopOnly == [c \in Coroutines |->
               IF CallerKind = "poll" /\ c \in Callers /\ c # Loop THEN Dead ELSE Idle]

(***************************************************************************)
(* The initial state: connected, no motion seen yet.                       *)
(***************************************************************************)
Init ==
    /\ session = "up"
    /\ phase = "running"
    /\ history = [e \in Events |-> "absent"]
    /\ active = None
    /\ handle = None
    /\ task = [e \in Events |-> "none"]
    /\ cancelled = {}
    /\ survivors = {}
    /\ atClose = 1
    /\ call = LoopOnly
    /\ nextEvent = 1
    /\ drops = 0
    /\ starts = [e \in Events |-> 0]
    /\ stops = [e \in Events |-> 0]
    /\ open = {}

-----------------------------------------------------------------------------
(***************************************************************************)
(* Coroutines.                                                             *)
(***************************************************************************)

\* The callers Core.connect cancels with their connection.  A survivor is in
\* the tasks of an earlier one, which nobody cancels again.
Cancellable ==
    {c \in Callers \ survivors :
        \/ CallerKind = "poll" /\ call[c] # Dead
        \/ CallerKind = "message" /\ call[c] # Idle}

\* c may begin a call: its source is running; or c serves the HTTP API, whose
\* runner is cleaned up only after UnifiCamBase.close() has returned; or c is a
\* loop that nobody will stop.
MayCall(c) ==
    /\ call[c] = Idle
    /\ \/ phase = "running"
       \/ CallerKind = "http" /\ phase = "closing"
       \/ c \in survivors

\* What is left of coroutine c when an exception leaves the call.
Raised(c) == IF c # Closer /\ CallerKind = "poll" THEN Dead ELSE Idle

-----------------------------------------------------------------------------
(***************************************************************************)
(* trigger_analytics_start.  It never awaits.  When motionEvents is off    *)
(* the code returns at once, which is a stuttering step here.              *)
(***************************************************************************)

\* The events _cleanup_old_analytics_events may find older than one hour.
Expirable ==
    {e \in Events : \/ history[e] = "ended"
                    \/ history[e] = "live" /\ LongEvents /\ task[e] = "done"}

\* There is an active event, with a record: the start is a duplicate.
Duplicate(kept) == active # None /\ kept[active] # "absent"

RegisterAfterCounting(kept) ==
    /\ nextEvent <= MaxEvents
    /\ nextEvent' = nextEvent + 1
    /\ history' = [kept EXCEPT ![nextEvent] = "live"]
    /\ active' = nextEvent'
    /\ handle' = nextEvent
    /\ task' = [task EXCEPT ![nextEvent] = "linger"]

\* Record the event, make it the active one and create its linger task.
Register(kept) ==
    /\ nextEvent <= MaxEvents
    /\ history' = [kept EXCEPT ![nextEvent] = "live"]
    /\ active' = nextEvent
    /\ handle' = nextEvent
    /\ task' = [task EXCEPT ![nextEvent] = "linger"]
    /\ nextEvent' = nextEvent + 1

trigger_analytics_start(c) ==
    /\ MayCall(c)
    /\ \E old \in SUBSET Expirable :
         LET kept == [e \in Events |-> IF e \in old THEN "absent" ELSE history[e]]
         IN  \/ /\ Duplicate(kept)
                /\ history' = kept
                /\ UNCHANGED <<active, handle, task, nextEvent>>
             \/ ~Duplicate(kept) /\ Register(kept)
    /\ UNCHANGED <<session, phase, call, closeVars, drops, wireVars>>

-----------------------------------------------------------------------------
(***************************************************************************)
(* _delayed_analytics_start / _send_analytics_start_event: the linger task *)
(***************************************************************************)

\* The sleep is over: send "start" unless the event is gone or has ended.
\* On a closed socket send() clears _session and raises; without a session
\* it returns silently.  Either way the task ends.
LingerElapsed(e) ==
    /\ task[e] = "linger"
    /\ \/ /\ history[e] = "live" /\ session = "up"
          /\ starts' = [starts EXCEPT ![e] = @ + 1]
          /\ open' = open \cup {e}
          /\ \E s \in {"done"} \cup (IF Backpressure THEN {"sending"} ELSE {}) :
               task' = [task EXCEPT ![e] = s]
          /\ UNCHANGED session
       \/ /\ history[e] # "live" \/ session # "up"
          /\ session' = IF history[e] = "live" THEN "none" ELSE session
          /\ task' = [task EXCEPT ![e] = "done"]
          /\ UNCHANGED <<starts, open>>
    /\ UNCHANGED <<phase, history, active, handle, call, nextEvent, closeVars,
                   drops, stops>>

StartRetried(e) ==
    /\ task[e] = "sending"
    /\ task' = [task EXCEPT ![e] = IF session = "up" THEN "done" ELSE "linger"]
    /\ session' = IF session = "up" THEN "up" ELSE "none"
    /\ UNCHANGED <<phase, history, active, handle, call, nextEvent, closeVars,
                   drops, wireVars>>

\* The socket drained, or was closed under the sender.
StartWritten(e) ==
    /\ task[e] = "sending"
    /\ task' = [task EXCEPT ![e] = "done"]
    /\ session' = IF session = "up" THEN "up" ELSE "none"
    /\ UNCHANGED <<phase, history, active, handle, call, nextEvent, closeVars,
                   drops, wireVars>>

\* The task meets the CancelledError a stop has thrown into it.
StartCancelled(e) ==
    /\ task[e] = "cancelling"
    /\ task' = [task EXCEPT ![e] = "done"]
    /\ UNCHANGED <<session, phase, history, active, handle, call, nextEvent,
                   closeVars, drops, wireVars>>

LingerTask(e) == LingerElapsed(e) \/ StartWritten(e) \/ StartCancelled(e)

-----------------------------------------------------------------------------
(***************************************************************************)
(* trigger_analytics_stop.                                                 *)
(***************************************************************************)

\* The tail of the stop of event e by c: record the end, write "stop".  The
\* record is held by reference, so ending one that has left the history is
\* not seen there.
EndEvent(c, e) ==
    /\ history' = [history EXCEPT ![e] = IF @ = "absent" THEN @ ELSE "ended"]
    /\ \/ /\ session = "up"
          /\ stops' = [stops EXCEPT ![e] = @ + 1]
          /\ open' = open \ {e}
          /\ \/ active' = None /\ call' = [call EXCEPT ![c] = Idle]
             \/ /\ Backpressure
                /\ call' = [call EXCEPT ![c] = At("sending", e, None)]
                /\ UNCHANGED active
          /\ UNCHANGED session
       \/ /\ session = "none"
          /\ active' = None
          /\ call' = [call EXCEPT ![c] = Idle]
          /\ UNCHANGED <<session, stops, open>>
       \/ /\ session = "lost"
          /\ session' = "none"
          /\ call' = [call EXCEPT ![c] = Raised(c)]
          /\ UNCHANGED <<active, stops, open>>

StopNotWaitingForStart(c) ==
    \/ /\ active # None /\ history[active] = "absent"
       /\ active' = None
       /\ call' = [call EXCEPT ![c] = Idle]
       /\ UNCHANGED <<session, history, task, stops, open>>
    \/ /\ active # None /\ history[active] # "absent"
       /\ EndEvent(c, active)
       /\ UNCHANGED task

\* The part up to the first await that suspends.  The fetch is spared when an
\* associated smart detect event has snapshots (frigate) and does not suspend
\* when the source hands out a file it keeps (rtsp, tapo).
StopEvent(c) ==
    \/ /\ active # None /\ history[active] = "absent"
       /\ active' = None
       /\ call' = [call EXCEPT ![c] = Idle]
       /\ UNCHANGED <<session, history, task, stops, open>>
    \/ /\ active # None /\ history[active] # "absent"
       /\ handle # None /\ task[handle] # "done"
       /\ task' = [task EXCEPT ![handle] = "cancelling"]
       /\ call' = [call EXCEPT ![c] = At("cancelling", active, handle)]
       /\ UNCHANGED <<session, history, active, stops, open>>
    \/ /\ active # None /\ history[active] # "absent"
       /\ handle = None \/ task[handle] = "done"
       /\ \/ EndEvent(c, active)
          \/ /\ call' = [call EXCEPT ![c] = At("fetching", active, None)]
             /\ UNCHANGED <<session, history, active, stops, open>>
       /\ UNCHANGED task

trigger_analytics_stop(c) ==
    /\ MayCall(c)
    /\ StopEvent(c)
    /\ UNCHANGED <<phase, handle, nextEvent, closeVars, drops, starts>>

\* The cancelled linger task has ended: forget the event.  For a caller that is
\* itself cancelled at this await "except CancelledError: pass" takes its
\* cancellation for the task's: a loop never learns that it was to end, while
\* the task of a message has nothing left to do.
LingerCancelled(c) ==
    /\ call[c].pc = "cancelling"
    /\ task[call[c].awaits] = "done"
    /\ history[call[c].ev] # "absent"
    /\ history' = [history EXCEPT ![call[c].ev] = "absent"]
    /\ active' = None
    /\ call' = [call EXCEPT ![c] = Idle]
    /\ cancelled' = cancelled \ {c}
    /\ survivors' = survivors \cup (IF CallerKind = "poll" THEN cancelled \cap {c} ELSE {})
    /\ UNCHANGED <<session, phase, handle, task, nextEvent, atClose, drops, wireVars>>

\* A second stop that waited for the same task finds the record deleted: the
\* KeyError ends a loop.  When it is the connection's own, gather() passes the
\* error on: close() runs, nobody is cancelled, and the program ends.
RecordGone(c) ==
    /\ call[c].pc = "cancelling"
    /\ task[call[c].awaits] = "done"
    /\ history[call[c].ev] = "absent"
    /\ cancelled' = cancelled \ {c}
    /\ \/ /\ CallerKind = "poll" /\ c \in Callers \ (survivors \cup cancelled)
          /\ phase' = "ending"
          /\ atClose' = nextEvent
          /\ call' = [call EXCEPT ![c] = Dead, ![Closer] = At("begin", None, None)]
       \/ /\ CallerKind # "poll" \/ c \in {Closer} \cup survivors \cup cancelled
          /\ call' = [call EXCEPT ![c] = Raised(c)]
          /\ UNCHANGED <<phase, atClose>>
    /\ UNCHANGED <<session, history, active, handle, task, nextEvent, survivors,
                   drops, wireVars>>

FetchErrorsEscape(c) ==
    /\ call[c].pc = "fetching"
    /\ c \notin cancelled
    /\ \/ EndEvent(c, call[c].ev)
       \/ /\ call' = [call EXCEPT ![c] = Raised(c)]
          /\ UNCHANGED <<session, history, active, stops, open>>
    /\ UNCHANGED <<phase, handle, task, nextEvent, closeVars, drops, starts>>

\* fetch_snapshots_for_event returned, or failed and was logged.
SnapshotsFetched(c) ==
    /\ call[c].pc = "fetching"
    /\ c \notin cancelled
    /\ EndEvent(c, call[c].ev)
    /\ UNCHANGED <<phase, handle, task, nextEvent, closeVars, drops, starts>>

\* The "stop" message has drained, or its socket was closed.
StopWritten(c) ==
    /\ call[c].pc = "sending"
    /\ c \notin cancelled
    /\ \/ /\ session = "up"
          /\ active' = None
          /\ call' = [call EXCEPT ![c] = Idle]
          /\ UNCHANGED session
       \/ /\ session # "up"
          /\ session' = "none"
          /\ call' = [call EXCEPT ![c] = Raised(c)]
          /\ UNCHANGED active
    /\ UNCHANGED <<phase, history, handle, task, nextEvent, closeVars, drops, wireVars>>

\* A cancelled caller meets its CancelledError at another await.
CallerCancelled(c) ==
    /\ c \in cancelled
    /\ call[c].pc # "cancelling"
    /\ call' = [call EXCEPT ![c] = Raised(c)]
    /\ cancelled' = cancelled \ {c}
    /\ UNCHANGED <<session, phase, history, active, handle, task, nextEvent,
                   survivors, atClose, drops, wireVars>>

Resume(c) ==
    \/ LingerCancelled(c)
    \/ RecordGone(c)
    \/ SnapshotsFetched(c)
    \/ StopWritten(c)
    \/ CallerCancelled(c)

-----------------------------------------------------------------------------
(***************************************************************************)
(* The connection: UnifiCamBase._run, Core.run and close().                *)
(***************************************************************************)

\* Protect, or the network, closes the socket.
ConnectionLost ==
    /\ session = "up"
    /\ drops < MaxDrops
    /\ session' = "lost"
    /\ open' = {}
    /\ drops' = drops + 1
    /\ UNCHANGED <<phase, camVars, closeVars, starts, stops>>

\* Core.connect catches the RetryableError, cancels the tasks and awaits
\* cam.close(), which stops what is in progress.
BeginClose ==
    /\ phase' = "closing"
    /\ call' = [call EXCEPT ![Closer] = At("begin", None, None)]
    /\ cancelled' = Cancellable
    /\ atClose' = nextEvent
    /\ UNCHANGED <<history, active, handle, task, nextEvent, survivors, wireVars>>

RecvKeepsSession ==
    /\ phase = "running"
    /\ session # "up"
    /\ BeginClose
    /\ UNCHANGED <<session, drops>>

\* ws.recv() raised ConnectionClosed.  When the program is already about to end
\* the RetryableError has no reader.
RecvClosed ==
    /\ session' = "none"
    /\ \/ phase = "running" /\ session # "up" /\ BeginClose
       \/ /\ phase = "ending" /\ session = "lost"
          /\ UNCHANGED <<phase, camVars, closeVars, wireVars>>
    /\ UNCHANGED drops

\* process() returned True (Reboot, UpdateFirmwareRequest): _session stays.
ForcedReconnect ==
    /\ phase = "running"
    /\ session \in {"up", "lost"}
    /\ ForcedReconnects
    /\ drops < MaxDrops
    /\ drops' = drops + 1
    /\ BeginClose
    /\ UNCHANGED session

\* stop_all_motion_events: stop the analytics event, if there is one.
stop_all_motion_events ==
    /\ call[Closer].pc = "begin"
    /\ \/ /\ active = None
          /\ call' = [call EXCEPT ![Closer] = Idle]
          /\ UNCHANGED <<session, history, active, task, stops, open>>
       \/ StopEvent(Closer)
    /\ UNCHANGED <<phase, handle, nextEvent, closeVars, drops, starts>>

ClosedBeforeCloser ==
    /\ phase = "closing"
    /\ call[Closer].pc # "begin"
    /\ phase' = "backoff"
    /\ session' = IF session = "none" THEN "none" ELSE "lost"
    /\ open' = {}
    /\ UNCHANGED <<camVars, closeVars, drops, starts, stops>>

\* close() is over: runner.cleanup() ends the HTTP handlers still waiting and
\* ws.close() closes the socket.
Closed ==
    /\ phase = "closing"
    /\ call[Closer] = Idle
    /\ phase' = "backoff"
    /\ call' = [c \in Coroutines |-> IF CallerKind = "http" THEN Idle ELSE call[c]]
    /\ session' = IF session = "none" THEN "none" ELSE "lost"
    /\ open' = {}
    /\ UNCHANGED <<history, active, handle, task, nextEvent, closeVars, drops,
                   starts, stops>>

\* After another failure the program ends with close(), and all tasks with it.
ProgramEnds ==
    /\ phase = "ending"
    /\ call[Closer] = Idle
    /\ phase' = "exited"
    /\ session' = "none"
    /\ open' = {}
    /\ call' = [c \in Coroutines |-> IF c = Closer THEN Idle ELSE Dead]
    /\ task' = [e \in Events |-> IF task[e] = "none" THEN "none" ELSE "done"]
    /\ UNCHANGED <<history, active, handle, nextEvent, closeVars, drops, starts, stops>>

\* The next websockets.connect succeeds and _run and run() start again, beside
\* the loops that have survived.  By then (two seconds at least) cancelled
\* tasks have ended and a sender that waited on the old socket has been woken
\* by its close.
Connected ==
    /\ phase = "backoff"
    /\ cancelled = {}
    /\ Callers \ survivors # {}
    /\ \A c \in Callers : call[c].pc # "sending"
    /\ \A e \in Events : task[e] \notin {"sending", "cancelling"}
    /\ phase' = "running"
    /\ session' = "up"
    /\ call' = [c \in Coroutines |->
                 IF c \in Callers \ survivors THEN LoopOnly[c] ELSE call[c]]
    /\ UNCHANGED <<history, active, handle, task, nextEvent, closeVars, drops, wireVars>>

Core ==
    \/ RecvClosed
    \/ ForcedReconnect
    \/ stop_all_motion_events
    \/ Closed
    \/ ProgramEnds
    \/ Connected

Next ==
    \/ \E c \in Callers : trigger_analytics_start(c) \/ trigger_analytics_stop(c)
    \/ \E c \in Coroutines : Resume(c)
    \/ \E e \in Events : LingerTask(e)
    \/ ConnectionLost
    \/ Core

(***************************************************************************)
(* The loop runs every ready task: timers fire, awaited fetches end (they  *)
(* have timeouts), sends drain or fail (keepalive), Core.run retries for   *)
(* ever.  Nothing obliges the source to report motion, Protect to close.   *)
(***************************************************************************)
Fairness ==
    /\ \A c \in Coroutines : WF_vars(Resume(c))
    /\ \A e \in Events : WF_vars(LingerTask(e))
    /\ WF_vars(RecvClosed)
    /\ WF_vars(stop_all_motion_events)
    /\ WF_vars(Closed)
    /\ WF_vars(ProgramEnds)
    /\ WF_vars(Connected)

Spec == Init /\ [][Next]_vars
FairSpec == Spec /\ Fairness

-----------------------------------------------------------------------------
(***************************************************************************)
(* Properties.                                                             *)
(***************************************************************************)

\* Every variable has its type.
TypeOK ==
    /\ session \in Sessions
    /\ phase \in Phases
    /\ history \in [Events -> {"absent", "live", "ended"}]
    /\ active \in Events \cup {None}
    /\ handle \in Events \cup {None}
    /\ task \in [Events -> TaskStates]
    /\ call \in [Coroutines -> CallStates]
    /\ nextEvent \in 1 .. MaxEvents + 1
    /\ cancelled \subseteq Callers
    /\ survivors \subseteq Callers
    /\ atClose \in 1 .. MaxEvents + 1
    /\ drops \in Nat
    /\ starts \in [Events -> Nat]
    /\ stops \in [Events -> Nat]
    /\ open \subseteq Events

\* Protect never sees an event start twice, nor start after it has stopped,
\* however stops, timers, cancellations and reconnections interleave.
StartComesFirst ==
    [][\A e \in Events : starts'[e] > starts[e] => starts[e] = 0 /\ stops[e] = 0]_vars

\* The docstring of stop_all_motion_events: "Stop all active motion events ...
\* Useful during cleanup or when forcing a reset of event state".  When close()
\* is over, and until the next connection, no event is active that it found: at
\* most one that has begun since, by a loop that survived or the HTTP API.
CloseResets == phase = "backoff" /\ active # None => active >= atClose

\* A stop that was suspended, by its caller or by close(), and resumes after the
\* events have moved on, clears no newer event's id: that one would never be
\* stopped.  So until a loop survives its cancellation.
LateStopSpares ==
    [][survivors' = {} =>
         \A c \in Coroutines :
             /\ call[c].pc \in {"cancelling", "fetching", "sending"}
             /\ call'[c] # call[c]
             /\ active' # active
             => active = call[c].ev]_vars

\* What Protect is told refines MotionFeed: one event at a time, started once
\* and stopped at most once, nothing stopped that is not in progress.  So until
\* a loop survives its cancellation: two loops overlap like two HTTP handlers.
Feed == INSTANCE MotionFeed WITH Events <- Events, starts <- starts, stops <- stops, open <- open
FeedSpec == Feed!Init /\ [][survivors' = {} => Feed!Next]_(Feed!vars)

\* A stop that waits for its snapshots ends the event at Protect, even if the
\* connection is lost or closed meanwhile.
StopEndsEvent ==
    \A c \in Callers : \A e \in Events :
        (call[c].pc = "fetching" /\ call[c].ev = e) ~> (e \notin open)

=============================================================================
