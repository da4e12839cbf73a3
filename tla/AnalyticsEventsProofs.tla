----------------------- MODULE AnalyticsEventsProofs -----------------------
(***************************************************************************)
(* What TLAPS proves of AnalyticsEvents, for any number of events and      *)
(* reconnections.  What is said of the order of the messages holds for     *)
(* any callers of any kind and sends that may suspend; what is said of     *)
(* close() where nobody forces a reconnection; what is said of late stops, *)
(* and of the promise of MotionFeed, under the condition PollLoops and     *)
(* until a loop survives its cancellation.                                 *)
(***************************************************************************)
EXTENDS AnalyticsEvents, TLAPS

\* An event id not yet handed out has left no trace.
FreshInv ==
    \A e \in Events : e >= nextEvent =>
        /\ task[e] = "none"
        /\ starts[e] = 0
        /\ stops[e] = 0

\* The one task handle the camera keeps belongs to the event it calls active.
HandleIsActive == active # None => handle = active

\* The handle refers to a task that was created.
HandleInv ==
    /\ HandleIsActive
    /\ handle # None => handle < nextEvent

\* A "start" on the wire was written by the event's task, on its way out; a
\* "stop" on the wire means that the task is over.
WireInv ==
    \A e \in Events :
        /\ starts[e] > 0 => task[e] \in {"sending", "cancelling", "done"}
        /\ stops[e] > 0 => task[e] = "done"

\* A stop beyond the check of the linger task works on an event whose task is
\* over; one that waits for the task waits for a task that will end.
CallInv ==
    \A c \in Coroutines :
        /\ call[c].pc \in {"fetching", "sending"} =>
             /\ call[c].ev \in Events
             /\ task[call[c].ev] = "done"
        /\ call[c].pc = "cancelling" =>
             /\ call[c].ev \in Events
             /\ call[c].awaits \in Events

IInv == TypeOK /\ FreshInv /\ HandleInv /\ WireInv /\ CallInv

-----------------------------------------------------------------------------

\* Event ids are positive numbers, None is not one of them.
LEMMA EventIds ==
    /\ None \notin Events
    /\ \A e \in Events : e \in Nat /\ e >= 1 /\ e <= MaxEvents
    /\ MaxEvents \in Nat
    /\ \A n \in Nat : n >= 1 /\ n <= MaxEvents => n \in Events
BY BoundsAssumption DEF Events

\* The states a coroutine can be left in are states of a call.
LEMMA CallShapes ==
    /\ Idle \in CallStates
    /\ Dead \in CallStates
    /\ \A c \in Coroutines : Raised(c) \in CallStates
    /\ LoopOnly \in [Coroutines -> CallStates]
    /\ At("begin", None, None) \in CallStates
    /\ \A e \in Events \cup {None} : At("sending", e, None) \in CallStates
    /\ \A e \in Events : At("fetching", e, None) \in CallStates
    /\ \A e, a \in Events : At("cancelling", e, a) \in CallStates
BY DEF At, Idle, Dead, Raised, LoopOnly, CallStates, CallPcs

LEMMA TypeInit == Init => TypeOK
<1> SUFFICES ASSUME Init PROVE TypeOK
  OBVIOUS
<1>1. call \in [Coroutines -> CallStates]
  BY CallShapes DEF Init
<1>2. nextEvent \in 1 .. MaxEvents + 1
  BY EventIds DEF Init
<1> QED
  BY <1>1, <1>2 DEF Init, TypeOK, Sessions, Phases, TaskStates

\* The tail of a stop keeps the types of what it assigns.
LEMMA EndEventType ==
    ASSUME TypeOK, NEW c \in Coroutines, NEW e \in Events \cup {None}, EndEvent(c, e)
    PROVE  /\ session' \in Sessions
           /\ history' \in [Events -> {"absent", "live", "ended"}]
           /\ active' \in Events \cup {None}
           /\ call' \in [Coroutines -> CallStates]
           /\ stops' \in [Events -> Nat]
           /\ open' \subseteq Events
<1>1. CASE session = "up"
  <2>1. history' \in [Events -> {"absent", "live", "ended"}]
    BY DEF EndEvent, TypeOK
  <2>2. stops' \in [Events -> Nat] /\ open' \subseteq Events
    BY <1>1 DEF EndEvent, TypeOK
  <2>3. call' \in [Coroutines -> CallStates]
    BY <1>1, CallShapes DEF EndEvent, TypeOK
  <2>4. session' \in Sessions /\ active' \in Events \cup {None}
    BY <1>1 DEF EndEvent, TypeOK
  <2> QED
    BY <2>1, <2>2, <2>3, <2>4
<1>2. CASE session = "none"
  BY <1>2, CallShapes DEF EndEvent, TypeOK, Sessions
<1>3. CASE session = "lost"
  BY <1>3, CallShapes DEF EndEvent, TypeOK, Sessions
<1> QED
  BY <1>1, <1>2, <1>3 DEF EndEvent

\* So does the part of a stop before the first await.
LEMMA StopEventType ==
    ASSUME TypeOK, NEW c \in Coroutines, StopEvent(c)
    PROVE  /\ session' \in Sessions
           /\ history' \in [Events -> {"absent", "live", "ended"}]
           /\ active' \in Events \cup {None}
           /\ task' \in [Events -> TaskStates]
           /\ call' \in [Coroutines -> CallStates]
           /\ stops' \in [Events -> Nat]
           /\ open' \subseteq Events
<1>1. active \in Events
  BY DEF StopEvent, TypeOK
<1>2. CASE history[active] = "absent"
  BY <1>1, <1>2, CallShapes DEF StopEvent, TypeOK
<1>3. CASE history[active] # "absent" /\ handle # None /\ task[handle] # "done"
  <2>1. handle \in Events
    BY <1>3 DEF TypeOK
  <2> QED
    BY <1>1, <1>3, <2>1, CallShapes DEF StopEvent, TypeOK, TaskStates
<1>4. CASE history[active] # "absent" /\ (handle = None \/ task[handle] = "done")
  <2>1. CASE EndEvent(c, active)
    BY <1>1, <1>4, <2>1, EndEventType DEF StopEvent, TypeOK
  <2>2. CASE ~EndEvent(c, active)
    BY <1>1, <1>4, <2>2, CallShapes DEF StopEvent, TypeOK
  <2> QED
    BY <2>1, <2>2
<1> QED
  BY <1>2, <1>3, <1>4

-----------------------------------------------------------------------------
(***************************************************************************)
(* Type correctness.                                                       *)
(***************************************************************************)
LEMMA TypeStep == TypeOK /\ [Next]_vars => TypeOK'
<1> SUFFICES ASSUME TypeOK, [Next]_vars
             PROVE  TypeOK'
  OBVIOUS
<1> USE DEF camVars, wireVars, closeVars
<1>1. ASSUME NEW c \in Callers, trigger_analytics_start(c)
      PROVE  TypeOK'
  <2>1. PICK old \in SUBSET Expirable :
          LET kept == [e \in Events |-> IF e \in old THEN "absent" ELSE history[e]]
          IN  \/ /\ history' = kept
                 /\ UNCHANGED <<active, handle, task, nextEvent>>
              \/ /\ nextEvent <= MaxEvents
                 /\ history' = [kept EXCEPT ![nextEvent] = "live"]
                 /\ active' = nextEvent
                 /\ handle' = nextEvent
                 /\ task' = [task EXCEPT ![nextEvent] = "linger"]
                 /\ nextEvent' = nextEvent + 1
    BY <1>1 DEF trigger_analytics_start, Register
  <2>2. nextEvent <= MaxEvents => nextEvent \in Events
    BY EventIds DEF TypeOK
  <2>3. history' \in [Events -> {"absent", "live", "ended"}]
    BY <2>1, <2>2 DEF TypeOK
  <2>4. /\ active' \in Events \cup {None}
        /\ handle' \in Events \cup {None}
        /\ task' \in [Events -> TaskStates]
        /\ nextEvent' \in 1 .. MaxEvents + 1
    BY <2>1, <2>2, EventIds DEF TypeOK, TaskStates
  <2> QED
    BY <1>1, <2>3, <2>4 DEF trigger_analytics_start, TypeOK
<1>2. ASSUME NEW c \in Callers, trigger_analytics_stop(c)
      PROVE  TypeOK'
  BY <1>2, StopEventType DEF trigger_analytics_stop, TypeOK, Coroutines
<1>3. ASSUME NEW c \in Coroutines, Resume(c)
      PROVE  TypeOK'
  <2>1. CASE LingerCancelled(c)
    BY <2>1, CallShapes DEF LingerCancelled, TypeOK
  <2>5. CASE RecordGone(c)
    <3>1. /\ phase' \in {phase, "ending"} /\ atClose' \in {atClose, nextEvent}
          /\ cancelled' = cancelled \ {c}
          /\ UNCHANGED <<session, history, active, handle, task, nextEvent, survivors,
                         drops, wireVars>>
      BY <2>5 DEF RecordGone
    <3>2. call' \in [Coroutines -> CallStates]
      BY <2>5, CallShapes DEF RecordGone, TypeOK
    <3> QED
      BY <3>1, <3>2 DEF TypeOK, Phases
  <2>2. CASE SnapshotsFetched(c)
    <3>1. call[c].ev \in Events \cup {None}
      BY DEF TypeOK, CallStates
    <3> QED
      BY <2>2, <3>1, EndEventType DEF SnapshotsFetched, TypeOK
  <2>3. CASE StopWritten(c)
    BY <2>3, CallShapes DEF StopWritten, TypeOK, Sessions
  <2>4. CASE CallerCancelled(c)
    BY <2>4, CallShapes DEF CallerCancelled, TypeOK
  <2> QED
    BY <1>3, <2>1, <2>2, <2>3, <2>4, <2>5 DEF Resume
<1>4. ASSUME NEW e \in Events, LingerTask(e)
      PROVE  TypeOK'
  <2>1. CASE LingerElapsed(e)
    BY <2>1 DEF LingerElapsed, TypeOK, Sessions, TaskStates
  <2>2. CASE StartWritten(e)
    BY <2>2 DEF StartWritten, TypeOK, Sessions, TaskStates
  <2>3. CASE StartCancelled(e)
    BY <2>3 DEF StartCancelled, TypeOK, TaskStates
  <2> QED
    BY <1>4, <2>1, <2>2, <2>3 DEF LingerTask
<1>5. CASE ConnectionLost
  BY <1>5 DEF ConnectionLost, TypeOK, Sessions
<1>6. CASE Core
  <2>1. CASE RecvClosed
    <3>1. CASE BeginClose
      BY <2>1, <3>1, CallShapes
         DEF RecvClosed, BeginClose, Cancellable, TypeOK, Sessions, Phases
    <3>2. CASE ~BeginClose
      BY <2>1, <3>2 DEF RecvClosed, TypeOK, Sessions
    <3> QED
      BY <3>1, <3>2
  <2>2. CASE ForcedReconnect
    <3>1. BeginClose /\ drops' = drops + 1 /\ UNCHANGED session
      BY <2>2 DEF ForcedReconnect
    <3>2. drops' \in Nat
      BY <3>1 DEF TypeOK
    <3>3. call' \in [Coroutines -> CallStates]
      BY <3>1, CallShapes DEF BeginClose, TypeOK
    <3> QED
      BY <3>1, <3>2, <3>3 DEF BeginClose, Cancellable, TypeOK, Phases
  <2>3. CASE stop_all_motion_events
    <3>1. CASE active = None
      <4>1. ~StopEvent(Closer)
        BY <3>1 DEF StopEvent
      <4> QED
        BY <2>3, <4>1, CallShapes DEF stop_all_motion_events, TypeOK
    <3>2. CASE active # None
      BY <2>3, <3>2, StopEventType DEF stop_all_motion_events, TypeOK, Coroutines
    <3> QED
      BY <3>1, <3>2
  <2>4. CASE Closed
    BY <2>4, CallShapes DEF Closed, TypeOK, Sessions, Phases
  <2>5. CASE ProgramEnds
    <3>1. task' \in [Events -> TaskStates]
      BY <2>5 DEF ProgramEnds, TypeOK, TaskStates
    <3>2. call' \in [Coroutines -> CallStates]
      BY <2>5, CallShapes DEF ProgramEnds
    <3> QED
      BY <2>5, <3>1, <3>2 DEF ProgramEnds, TypeOK, Sessions, Phases
  <2>6. CASE Connected
    <3>1. call' \in [Coroutines -> CallStates]
      BY <2>6, CallShapes DEF Connected, TypeOK
    <3> QED
      BY <2>6, <3>1 DEF Connected, TypeOK, Sessions, Phases
  <2> QED
    BY <1>6, <2>1, <2>2, <2>3, <2>4, <2>5, <2>6 DEF Core
<1>7. CASE UNCHANGED vars
  BY <1>7 DEF vars, TypeOK
<1> QED
  BY <1>1, <1>2, <1>3, <1>4, <1>5, <1>6, <1>7 DEF Next

\* The camera's state, and Protect's view of it, always has its type.
THEOREM TypeCorrect == Spec => []TypeOK
BY TypeInit, TypeStep, PTL DEF Spec

-----------------------------------------------------------------------------
(***************************************************************************)
(* The inductive invariant.  A stop cancels whatever task the handle names *)
(* and, past that check, takes the start for sent: what it may rely on is  *)
(* that the handle is the active event's (HandleInv), that events not yet  *)
(* handed out are untouched (FreshInv), and that the task of every event   *)
(* that is being stopped, or has been, is over (CallInv, WireInv).         *)
(***************************************************************************)

\* The tail of a stop whose linger task is over keeps the invariant's parts.
LEMMA EndEventInv ==
    ASSUME IInv, NEW c \in Coroutines, NEW e \in Events, task[e] = "done",
           EndEvent(c, e), UNCHANGED <<task, handle, nextEvent, starts>>
    PROVE  FreshInv' /\ HandleInv' /\ WireInv' /\ CallInv'
<1>1. active' \in {active, None}
  BY DEF EndEvent
<1>2. \A f \in Events : f # e => stops'[f] = stops[f]
  BY DEF EndEvent, IInv, TypeOK
<1>3. \A d \in Coroutines : d # c => call'[d] = call[d]
  BY DEF EndEvent, IInv, TypeOK
<1>4. call'[c] \in {Idle, Raised(c), At("sending", e, None)}
  BY DEF EndEvent, IInv, TypeOK
<1>5. FreshInv'
  BY <1>2 DEF IInv, FreshInv
<1>6. HandleInv'
  BY <1>1 DEF IInv, HandleInv, HandleIsActive
<1>7. WireInv'
  BY <1>2 DEF IInv, WireInv
<1>8. CallInv'
  BY <1>3, <1>4 DEF IInv, CallInv, At, Idle, Dead, Raised
<1> QED
  BY <1>5, <1>6, <1>7, <1>8

\* The part of a stop before the first await does, too.
LEMMA StopEventInv ==
    ASSUME IInv, NEW c \in Coroutines, StopEvent(c),
           UNCHANGED <<handle, nextEvent, starts>>
    PROVE  FreshInv' /\ HandleInv' /\ WireInv' /\ CallInv'
<1>1. active \in Events /\ handle = active
  BY DEF StopEvent, IInv, TypeOK, HandleInv, HandleIsActive
<1>2. CASE history[active] = "absent"
  <2>1. active' = None /\ call' = [call EXCEPT ![c] = Idle] /\ UNCHANGED <<task, stops>>
    BY <1>2 DEF StopEvent
  <2> QED
    BY <2>1 DEF IInv, TypeOK, FreshInv, HandleInv, HandleIsActive, WireInv, CallInv,
                Idle, At
<1>3. CASE history[active] # "absent" /\ task[active] # "done"
  <2>1. /\ task' = [task EXCEPT ![active] = "cancelling"]
        /\ call' = [call EXCEPT ![c] = At("cancelling", active, active)]
        /\ UNCHANGED <<active, stops>>
    BY <1>1, <1>3, EventIds DEF StopEvent
  <2>2. FreshInv'
    BY <1>1, <2>1, EventIds DEF IInv, TypeOK, FreshInv, HandleInv
  <2>3. HandleInv'
    BY <2>1 DEF IInv, HandleInv, HandleIsActive
  <2>4. WireInv'
    BY <1>3, <2>1 DEF IInv, TypeOK, WireInv
  <2>5. CallInv'
    BY <1>1, <1>3, <2>1 DEF IInv, TypeOK, CallInv, At
  <2> QED
    BY <2>2, <2>3, <2>4, <2>5
<1>4. CASE history[active] # "absent" /\ task[active] = "done"
  <2>1. UNCHANGED task
    BY <1>1, <1>4 DEF StopEvent
  <2>2. CASE EndEvent(c, active)
    BY <1>1, <1>4, <2>1, <2>2, EndEventInv
  <2>3. CASE ~EndEvent(c, active)
    <3>1. /\ call' = [call EXCEPT ![c] = At("fetching", active, None)]
          /\ UNCHANGED <<active, stops>>
      BY <1>1, <1>4, <2>3 DEF StopEvent
    <3> QED
      BY <1>1, <1>4, <2>1, <3>1
         DEF IInv, TypeOK, FreshInv, HandleInv, HandleIsActive, WireInv, CallInv, At
  <2> QED
    BY <2>2, <2>3
<1> QED
  BY <1>2, <1>3, <1>4

LEMMA IInvInit == Init => IInv
<1> SUFFICES ASSUME Init PROVE IInv
  OBVIOUS
<1>1. TypeOK
  BY TypeInit
<1> QED
  BY <1>1 DEF Init, IInv, FreshInv, HandleInv, HandleIsActive, WireInv, CallInv, LoopOnly,
              Idle, Dead, At

LEMMA IInvStep == IInv /\ [Next]_vars => IInv'
<1> SUFFICES ASSUME IInv, [Next]_vars
             PROVE  FreshInv' /\ HandleInv' /\ WireInv' /\ CallInv'
  BY TypeStep DEF IInv
<1> USE DEF camVars, wireVars, closeVars
<1>1. ASSUME NEW c \in Callers, trigger_analytics_start(c)
      PROVE  FreshInv' /\ HandleInv' /\ WireInv' /\ CallInv'
  <2>1. CASE UNCHANGED <<active, handle, task, nextEvent>>
    BY <1>1, <2>1 DEF trigger_analytics_start, IInv, FreshInv, HandleInv,
                      HandleIsActive, WireInv, CallInv
  <2>2. CASE /\ nextEvent <= MaxEvents
             /\ active' = nextEvent
             /\ handle' = nextEvent
             /\ task' = [task EXCEPT ![nextEvent] = "linger"]
             /\ nextEvent' = nextEvent + 1
    <3>1. nextEvent \in Events /\ nextEvent \in Nat /\ task[nextEvent] = "none"
      BY <2>2, EventIds DEF IInv, TypeOK, FreshInv
    <3>2. UNCHANGED <<call, starts, stops>>
      BY <1>1 DEF trigger_analytics_start
    <3>3. FreshInv'
      BY <2>2, <3>1, <3>2, EventIds DEF IInv, TypeOK, FreshInv
    <3>4. HandleInv'
      BY <2>2, <3>1 DEF HandleInv, HandleIsActive
    <3>5. WireInv'
      BY <2>2, <3>1, <3>2 DEF IInv, TypeOK, FreshInv, WireInv
    <3>6. CallInv'
      BY <2>2, <3>1, <3>2 DEF IInv, TypeOK, CallInv
    <3> QED
      BY <3>3, <3>4, <3>5, <3>6
  <2> QED
    BY <1>1, <2>1, <2>2 DEF trigger_analytics_start, Register
<1>2. ASSUME NEW c \in Callers, trigger_analytics_stop(c)
      PROVE  FreshInv' /\ HandleInv' /\ WireInv' /\ CallInv'
  BY <1>2, StopEventInv DEF trigger_analytics_stop, Coroutines
<1>3. ASSUME NEW c \in Coroutines, Resume(c)
      PROVE  FreshInv' /\ HandleInv' /\ WireInv' /\ CallInv'
  <2>1. CASE ~SnapshotsFetched(c)
    <3>1. /\ active' \in {active, None}
          /\ UNCHANGED <<task, handle, nextEvent, starts, stops>>
          /\ call' \in {[call EXCEPT ![c] = Idle], [call EXCEPT ![c] = Raised(c)],
                        [call EXCEPT ![c] = Dead, ![Closer] = At("begin", None, None)]}
      BY <1>3, <2>1 DEF Resume, LingerCancelled, RecordGone, StopWritten, CallerCancelled
    <3>2. \A d \in Coroutines :
            \/ call'[d] = call[d]
            \/ call'[d].pc \in {"idle", "dead", "begin"}
      BY <3>1 DEF IInv, TypeOK, Idle, Dead, Raised, At
    <3> QED
      BY <3>1, <3>2 DEF IInv, FreshInv, HandleInv, HandleIsActive, WireInv, CallInv
  <2>2. CASE SnapshotsFetched(c)
    BY <2>2, EndEventInv DEF SnapshotsFetched, IInv, CallInv
  <2> QED
    BY <2>1, <2>2
<1>4. ASSUME NEW e \in Events, LingerTask(e)
      PROVE  FreshInv' /\ HandleInv' /\ WireInv' /\ CallInv'
  <2>1. /\ UNCHANGED <<active, handle, call, nextEvent, stops>>
        /\ task[e] \in {"linger", "sending", "cancelling"}
        /\ task'[e] \in {"sending", "done"}
        /\ \A f \in Events : f # e => task'[f] = task[f] /\ starts'[f] = starts[f]
    BY <1>4 DEF LingerTask, LingerElapsed, StartWritten, StartCancelled, IInv, TypeOK
  <2>2. FreshInv'
    BY <2>1 DEF IInv, FreshInv
  <2>3. HandleInv'
    BY <2>1 DEF IInv, HandleInv, HandleIsActive
  <2>4. WireInv'
    BY <2>1 DEF IInv, WireInv
  <2>5. CallInv'
    BY <2>1 DEF IInv, CallInv
  <2> QED
    BY <2>2, <2>3, <2>4, <2>5
<1>5. CASE ConnectionLost
  BY <1>5 DEF ConnectionLost, IInv, FreshInv, HandleInv, HandleIsActive, WireInv, CallInv
<1>6. CASE Core
  <2>1. CASE stop_all_motion_events /\ active # None
    BY <2>1, StopEventInv DEF stop_all_motion_events, Coroutines
  <2>2. CASE \/ RecvClosed \/ ForcedReconnect \/ Closed \/ Connected
             \/ stop_all_motion_events /\ active = None
    <3>1. UNCHANGED <<active, handle, task, nextEvent, starts, stops>>
      BY <2>2 DEF RecvClosed, ForcedReconnect, BeginClose, Closed, Connected,
                  stop_all_motion_events, StopEvent
    <3>2. \A c \in Coroutines : call'[c] \in {call[c], Idle, Dead, At("begin", None, None)}
      BY <2>2 DEF RecvClosed, ForcedReconnect, BeginClose, Closed, Connected, LoopOnly,
                  stop_all_motion_events, StopEvent, IInv, TypeOK
    <3> QED
      BY <3>1, <3>2 DEF IInv, FreshInv, HandleInv, HandleIsActive, WireInv, CallInv,
                        Idle, Dead, At
  <2>3. CASE ProgramEnds
    <3>1. UNCHANGED <<active, handle, nextEvent, starts, stops>>
      BY <2>3 DEF ProgramEnds
    <3>2. \A e \in Events : task'[e] = IF task[e] = "none" THEN "none" ELSE "done"
      BY <2>3 DEF ProgramEnds
    <3>3. \A c \in Coroutines : call'[c].pc \in {"idle", "dead"}
      BY <2>3 DEF ProgramEnds, Idle, Dead, At
    <3> QED
      BY <3>1, <3>2, <3>3 DEF IInv, FreshInv, HandleInv, HandleIsActive, WireInv, CallInv
  <2> QED
    BY <1>6, <2>1, <2>2, <2>3 DEF Core
<1>7. CASE UNCHANGED vars
  BY <1>7 DEF vars, IInv, FreshInv, HandleInv, HandleIsActive, WireInv, CallInv
<1> QED
  BY <1>1, <1>2, <1>3, <1>4, <1>5, <1>6, <1>7 DEF Next

\* The inductive invariant holds of every reachable state of the camera and its
\* callers; the theorems below read it off.
THEOREM Invariance == Spec => []IInv
BY IInvInit, IInvStep, PTL DEF Spec

\* No event starts twice or after its stop at Protect.
THEOREM StartComesFirstTheorem == Spec => StartComesFirst
<1> DEFINE First == \A e \in Events :
                      starts'[e] > starts[e] => starts[e] = 0 /\ stops[e] = 0
<1>1. IInv /\ [Next]_vars => [First]_vars
  <2> SUFFICES ASSUME IInv, Next, NEW e \in Events, starts'[e] > starts[e]
               PROVE  starts[e] = 0 /\ stops[e] = 0
    BY DEF First
  <2>1. PICK f \in Events : LingerElapsed(f)
    BY DEF Next, trigger_analytics_start, Register, trigger_analytics_stop, Resume, LingerCancelled,
           RecordGone, SnapshotsFetched, StopWritten, CallerCancelled, LingerTask,
           StartWritten, StartCancelled, ConnectionLost, Core, RecvClosed, ForcedReconnect,
           BeginClose, stop_all_motion_events, Closed, ProgramEnds, Connected, wireVars,
           IInv, TypeOK
  <2>2. task[e] = "linger"
    BY <2>1 DEF LingerElapsed, IInv, TypeOK
  <2> QED
    BY <2>2 DEF IInv, TypeOK, WireInv
<1> QED
  BY <1>1, Invariance, PTL DEF Spec, StartComesFirst

-----------------------------------------------------------------------------
(***************************************************************************)
(* What a close leaves behind.  It ends the event it finds when the socket *)
(* was lost to a closed connection, which sets _session to None, so that   *)
(* its stop cannot raise.  ForcedReconnect is where that may fail.         *)
(***************************************************************************)

\* The active event, if there is one, has begun after the close.
NoneFromBefore == active # None => active >= atClose

\* The closer, until it is done, works on the active event or that one is new;
\* without a session its stop cannot raise, so when it is done no event from
\* before is active.
CloseInv ==
    /\ atClose <= nextEvent
    /\ phase \in {"closing", "backoff"} => session = "none"
    /\ phase = "backoff" => NoneFromBefore
    /\ phase = "closing" =>
         /\ call[Closer].pc \in {"begin", "cancelling", "fetching", "idle"}
         /\ call[Closer].pc = "idle" => NoneFromBefore
         /\ call[Closer].pc \in {"cancelling", "fetching"} =>
              NoneFromBefore \/ active = call[Closer].ev
         /\ call[Closer].pc = "cancelling" =>
              NoneFromBefore \/ history[active] # "absent"

LEMMA CloseInvInit == Init => CloseInv
BY DEF Init, CloseInv, Coroutines

\* Without a session the tail of a stop forgets the event and returns.
LEMMA EndWithoutSession ==
    ASSUME TypeOK, NEW c \in Coroutines, NEW e \in Events, EndEvent(c, e), session = "none"
    PROVE  session' = "none" /\ active' = None /\ call' = [call EXCEPT ![c] = Idle]
BY DEF EndEvent

\* A step of a caller leaves the closer's call alone.
LEMMA CloserApart ==
    ASSUME TypeOK, NEW c \in Callers, NEW r,
           call' = [call EXCEPT ![c] = r]
    PROVE  call'[Closer] = call[Closer]
BY CallersAssumption DEF TypeOK, Coroutines

\* While there is no session none appears, and the active event changes to none
\* or to a new one; its record goes only when it is ended, unless it is replaced.
LEMMA CallersSpareCloser ==
    ASSUME TypeOK, NEW c \in Callers, session = "none",
           trigger_analytics_stop(c) \/ Resume(c)
    PROVE  /\ session' = "none"
           /\ UNCHANGED <<phase, nextEvent, atClose>> \/ phase' = "ending"
           /\ phase' # "ending" => call'[Closer] = call[Closer]
           /\ \/ active' = None
              \/ /\ active' = active
                 /\ \A e \in Events : history'[e] = "absent" => history[e] = "absent"
<1>0. c \in Coroutines /\ Closer \notin Callers
  BY CallersAssumption DEF Coroutines
<1> USE DEF closeVars
<1>1. ASSUME NEW e \in Events \cup {None}, EndEvent(c, e),
             UNCHANGED <<phase, nextEvent, atClose>>
      PROVE  /\ session' = "none" /\ active' = None
             /\ call'[Closer] = call[Closer]
  <2>1. session' = "none" /\ active' = None /\ call' = [call EXCEPT ![c] = Idle]
    BY <1>1 DEF EndEvent
  <2> QED
    BY <2>1, CloserApart
<1>2. CASE trigger_analytics_stop(c)
  <2>1. StopEvent(c) /\ UNCHANGED <<phase, nextEvent, atClose>>
    BY <1>2 DEF trigger_analytics_stop
  <2>2. active \in Events
    BY <2>1 DEF StopEvent, TypeOK
  <2>3. CASE EndEvent(c, active)
    BY <1>1, <2>1, <2>2, <2>3
  <2>4. CASE ~EndEvent(c, active)
    <3>1. UNCHANGED <<session, history>> /\ active' \in {active, None}
      BY <2>1, <2>4 DEF StopEvent
    <3>2. \E r : call' = [call EXCEPT ![c] = r]
      BY <2>1, <2>4 DEF StopEvent
    <3> QED
      BY <2>1, <3>1, <3>2, CloserApart
  <2> QED
    BY <2>3, <2>4
<1>3. CASE LingerCancelled(c) \/ CallerCancelled(c) \/ StopWritten(c)
  <2>1. UNCHANGED <<phase, nextEvent, atClose>> /\ session' = "none"
    BY <1>3 DEF LingerCancelled, CallerCancelled, StopWritten
  <2>2. active' = None \/ UNCHANGED <<active, history>>
    BY <1>3 DEF LingerCancelled, CallerCancelled, StopWritten
  <2>3. \E r : call' = [call EXCEPT ![c] = r]
    BY <1>3 DEF LingerCancelled, CallerCancelled, StopWritten
  <2> QED
    BY <2>1, <2>2, <2>3, CloserApart
<1>4. CASE RecordGone(c)
  <2>1. UNCHANGED <<session, active, history, nextEvent>>
    BY <1>4 DEF RecordGone
  <2>2. CASE phase' = "ending"
    BY <2>1, <2>2
  <2>3. CASE phase' # "ending"
    <3>1. UNCHANGED <<phase, atClose>> /\ \E r : call' = [call EXCEPT ![c] = r]
      BY <1>4, <2>3 DEF RecordGone
    <3> QED
      BY <2>1, <3>1, CloserApart
  <2> QED
    BY <2>2, <2>3
<1>5. CASE SnapshotsFetched(c)
  <2>1. call[c].ev \in Events \cup {None}
    BY <1>0 DEF TypeOK, CallStates
  <2> QED
    BY <1>1, <1>5, <2>1 DEF SnapshotsFetched
<1> QED
  BY <1>2, <1>3, <1>4, <1>5 DEF Resume

\* What the invariant says of the closer rests on its call, the active event,
\* that one's record and the session only.
LEMMA CloseInvKept ==
    ASSUME TypeOK, CloseInv, UNCHANGED <<phase, atClose, nextEvent>>,
           session = "none" => session' = "none",
           call'[Closer] = call[Closer],
           \/ active' = None
           \/ /\ active' = active
              /\ \A e \in Events : history'[e] = "absent" => history[e] = "absent"
    PROVE  CloseInv'
BY DEF CloseInv, NoneFromBefore, TypeOK

LEMMA CloseInvStep ==
    ASSUME ~ForcedReconnects, TypeOK, CloseInv, CallInv, [Next]_vars
    PROVE  CloseInv'
<1> USE DEF camVars, wireVars, closeVars
<1>0. Closer \in Coroutines /\ Callers \subseteq Coroutines /\ Closer \notin Callers
  BY CallersAssumption DEF Coroutines
<1>00. nextEvent \in Nat /\ atClose \in Nat /\ None \notin Nat
  BY BoundsAssumption DEF TypeOK
<1>1. ASSUME NEW c \in Callers, trigger_analytics_start(c)
      PROVE  CloseInv'
  <2>1. UNCHANGED <<session, phase, call, atClose>>
    BY <1>1 DEF trigger_analytics_start
  <2>2. CASE active' = nextEvent /\ nextEvent' = nextEvent + 1
    BY <1>00, <2>1, <2>2 DEF CloseInv, NoneFromBefore
  <2>3. CASE /\ UNCHANGED <<active, nextEvent>>
             /\ active # None /\ history'[active] # "absent"
    BY <2>1, <2>3 DEF CloseInv, NoneFromBefore
  <2> QED
    BY <1>1, <2>2, <2>3 DEF trigger_analytics_start, Register, Duplicate
<1>2. ASSUME NEW c \in Callers, trigger_analytics_stop(c) \/ Resume(c)
      PROVE  CloseInv'
  <2>1. CASE phase \in {"closing", "backoff"}
    <3>1. session = "none"
      BY <2>1 DEF CloseInv
    <3>2. /\ session' = "none"
          /\ UNCHANGED <<phase, nextEvent, atClose>> \/ phase' = "ending"
          /\ phase' # "ending" => call'[Closer] = call[Closer]
          /\ \/ active' = None
             \/ /\ active' = active
                /\ \A e \in Events : history'[e] = "absent" => history[e] = "absent"
      BY <1>2, <3>1, CallersSpareCloser
    <3>3. CASE phase' = "ending"
      <4>1. atClose' \in {atClose, nextEvent} /\ UNCHANGED nextEvent
        BY <1>2 DEF trigger_analytics_stop, Resume, LingerCancelled, RecordGone,
                    SnapshotsFetched, StopWritten, CallerCancelled
      <4> QED
        BY <1>00, <3>3, <4>1 DEF CloseInv
    <3>4. CASE phase' # "ending"
      BY <3>1, <3>2, <3>4, CloseInvKept
    <3> QED
      BY <3>3, <3>4
  <2>2. CASE phase \notin {"closing", "backoff"}
    <3>1. phase' \in {phase, "ending"} /\ atClose' \in {atClose, nextEvent} /\ UNCHANGED nextEvent
      BY <1>2 DEF trigger_analytics_stop, Resume, LingerCancelled, RecordGone,
                  SnapshotsFetched, StopWritten, CallerCancelled
    <3> QED
      BY <1>00, <2>2, <3>1 DEF CloseInv
  <2> QED
    BY <2>1, <2>2
<1>4. ASSUME Resume(Closer)
      PROVE  CloseInv'
  <2>1. CASE phase = "closing"
    <3>1. session = "none" /\ call[Closer].pc \in {"cancelling", "fetching"}
      BY <1>0, <1>4, <2>1 DEF Resume, LingerCancelled, RecordGone, SnapshotsFetched, StopWritten,
                        CallerCancelled, CloseInv, TypeOK
    <3>2. ~StopWritten(Closer) /\ ~CallerCancelled(Closer)
      BY <1>0, <3>1 DEF StopWritten, CallerCancelled, TypeOK
    <3>3. CASE LingerCancelled(Closer)
      <4>1. active' = None /\ call'[Closer] = Idle /\ UNCHANGED <<session, phase, atClose, nextEvent>>
        BY <1>0, <3>3 DEF LingerCancelled, TypeOK
      <4> QED
        BY <2>1, <3>1, <4>1 DEF CloseInv, NoneFromBefore, Idle, At
    <3>4. CASE RecordGone(Closer)
      <4>1. /\ call'[Closer] = Idle
            /\ UNCHANGED <<session, phase, active, atClose, nextEvent>>
        BY <1>0, <3>4 DEF RecordGone, Raised, TypeOK
      <4>2. NoneFromBefore
        BY <2>1, <3>4 DEF RecordGone, CloseInv, NoneFromBefore
      <4> QED
        BY <2>1, <3>1, <4>1, <4>2 DEF CloseInv, NoneFromBefore, Idle, At
    <3>5. CASE SnapshotsFetched(Closer)
      <4>1. call[Closer].ev \in Events
        BY <1>0, <3>5 DEF SnapshotsFetched, CallInv
      <4>2. EndEvent(Closer, call[Closer].ev) /\ UNCHANGED <<phase, atClose, nextEvent>>
        BY <3>5 DEF SnapshotsFetched
      <4>3. active' = None /\ call' = [call EXCEPT ![Closer] = Idle] /\ session' = "none"
        BY <1>0, <3>1, <4>1, <4>2, EndWithoutSession
      <4> QED
        BY <1>0, <2>1, <4>2, <4>3 DEF TypeOK, CloseInv, NoneFromBefore, Idle, At
    <3> QED
      BY <1>4, <3>2, <3>3, <3>4, <3>5 DEF Resume
  <2>2. CASE phase # "closing"
    <3>1. CASE RecordGone(Closer)
      <4>1. UNCHANGED <<session, phase, active, atClose, nextEvent>>
        BY <1>0, <3>1 DEF RecordGone
      <4> QED
        BY <2>2, <4>1 DEF CloseInv, NoneFromBefore
    <3>2. CASE ~RecordGone(Closer)
      <4>1. UNCHANGED <<phase, atClose, nextEvent>> /\ active' \in {active, None}
        BY <1>4, <3>2 DEF Resume, LingerCancelled, SnapshotsFetched, StopWritten,
                          CallerCancelled, EndEvent
      <4>2. session = "none" => session' = "none"
        BY <1>4, <3>2 DEF Resume, LingerCancelled, SnapshotsFetched, StopWritten,
                          CallerCancelled, EndEvent
      <4> QED
        BY <2>2, <4>1, <4>2 DEF CloseInv, NoneFromBefore
    <3> QED
      BY <3>1, <3>2
  <2> QED
    BY <2>1, <2>2
<1>5. ASSUME NEW e \in Events, LingerTask(e)
      PROVE  CloseInv'
  <2>1. /\ UNCHANGED <<phase, history, active, call, nextEvent, atClose>>
        /\ session' \in {session, "none"}
    BY <1>5 DEF LingerTask, LingerElapsed, StartWritten, StartCancelled
  <2> QED
    BY <2>1 DEF CloseInv, NoneFromBefore
<1>6. CASE ConnectionLost
  BY <1>6 DEF ConnectionLost, CloseInv, NoneFromBefore
<1>7. CASE RecvClosed
  <2>1. CASE BeginClose
    BY <1>0, <1>00, <1>7, <2>1 DEF RecvClosed, BeginClose, CloseInv, TypeOK, At
  <2>2. CASE ~BeginClose
    BY <1>7, <2>2 DEF RecvClosed, CloseInv, NoneFromBefore
  <2> QED
    BY <2>1, <2>2
<1>8. CASE ForcedReconnect
  BY <1>8 DEF ForcedReconnect
<1>9. CASE stop_all_motion_events
  <2>1. call[Closer].pc = "begin" /\ UNCHANGED <<phase, nextEvent, atClose>>
    BY <1>9 DEF stop_all_motion_events
  <2>2. CASE active = None
    <3>1. UNCHANGED <<session, active>> /\ call'[Closer] = Idle
      BY <1>0, <1>9, <2>2 DEF stop_all_motion_events, StopEvent, TypeOK
    <3> QED
      BY <2>1, <2>2, <3>1 DEF CloseInv, NoneFromBefore, Idle, At
  <2>3. CASE active # None
    <3>1. StopEvent(Closer) /\ active \in Events
      BY <1>9, <2>3 DEF stop_all_motion_events, TypeOK
    <3>2. CASE UNCHANGED <<session, active>> /\ history[active] # "absent"
               /\ \/ /\ call' = [call EXCEPT ![Closer] = At("cancelling", active, handle)]
                     /\ UNCHANGED history
                  \/ call' = [call EXCEPT ![Closer] = At("fetching", active, None)]
      BY <1>0, <2>1, <3>2 DEF CloseInv, NoneFromBefore, At, TypeOK
    <3>3. CASE /\ active' = None /\ session' = session
               /\ call' = [call EXCEPT ![Closer] = Idle]
      BY <1>0, <2>1, <3>3 DEF CloseInv, NoneFromBefore, Idle, At, TypeOK
    <3>4. CASE EndEvent(Closer, active)
      <4>1. CASE session = "none"
        BY <1>0, <2>1, <3>1, <3>3, <3>4, <4>1, EndWithoutSession
      <4>2. CASE session # "none"
        BY <2>1, <4>2 DEF CloseInv
      <4> QED
        BY <4>1, <4>2
    <3> QED
      BY <2>1, <3>1, <3>2, <3>3, <3>4 DEF StopEvent
  <2> QED
    BY <2>2, <2>3
<1>10. CASE Closed
  BY <1>0, <1>10 DEF Closed, CloseInv, NoneFromBefore, Idle, At
<1>11. CASE ProgramEnds
  BY <1>11 DEF ProgramEnds, CloseInv
<1>12. CASE Connected
  BY <1>12 DEF Connected, CloseInv
<1>13. CASE UNCHANGED vars
  BY <1>13 DEF vars, CloseInv, NoneFromBefore
<1> QED
  BY <1>1, <1>2, <1>4, <1>5, <1>6, <1>7, <1>8, <1>9, <1>10, <1>11, <1>12, <1>13
     DEF Next, Core, Coroutines

\* A connection that is lost takes its events along: when close() is over, and
\* until the camera is connected again, no event is active that had begun before
\* it, whoever calls, how often and in which order.
THEOREM CloseResetsTheorem ==
    ASSUME ~ForcedReconnects
    PROVE  Spec => []CloseResets
<1>1. Init => CloseInv
  BY CloseInvInit
<1>2. IInv /\ CloseInv /\ [Next]_vars => CloseInv'
  BY CloseInvStep DEF IInv
<1>3. CloseInv => CloseResets
  BY DEF CloseInv, CloseResets, NoneFromBefore
<1> QED
  BY <1>1, <1>2, <1>3, Invariance, PTL DEF Spec

-----------------------------------------------------------------------------
(***************************************************************************)
(* The refinement.  A camera with poll loops, whose sends do not suspend   *)
(* and whose events do not outlive the history, keeps what MotionFeed      *)
(* promises Protect as long as each loop ends with its connection.         *)
(***************************************************************************)
PollLoops ==
    /\ CallerKind = "poll"
    /\ ~Backpressure
    /\ ~ForcedReconnects
    /\ ~LongEvents

\* There is at most one loop.  While its connection is being closed it is about
\* to end, the closer is alone at work, and no event begins.
LoopInv ==
    /\ \A c, d \in Callers : call[c].pc # "dead" /\ call[d].pc # "dead" => c = d
    /\ phase \in {"running", "closing", "backoff"}
    /\ phase # "closing" => call[Closer] = Idle
    /\ phase = "running" => cancelled = {}
    /\ phase # "running" =>
         /\ atClose = nextEvent
         /\ \A c \in Callers : call[c].pc # "dead" => c \in cancelled

\* The active event has a record.  It is marked ended only by a stop that met
\* the closed socket, and that has killed the poll loop.
RecordInv ==
    active # None =>
      /\ history[active] # "absent"
      /\ phase = "running" /\ history[active] = "ended" =>
           /\ session # "up"
           /\ \A c \in Callers : call[c].pc = "dead"

\* Only the active event has a linger task that may still send.
TaskInv ==
    \A e \in Events :
        /\ task[e] # "sending"
        /\ task[e] = "linger" => e = active /\ history[e] = "live"
        /\ session = "up" /\ task[e] = "cancelling" =>
             /\ e = active
             /\ \E c \in Callers : call[c].pc = "cancelling"

\* Protect sees the active event in progress, or none; and while connected it
\* sees the active event as soon as its task is over, unless that was cancelled.
OpenInv ==
    /\ open # {} =>
         /\ session = "up"
         /\ active # None
         /\ open = {active}
         /\ task[active] = "done"
         /\ \A c \in Callers : call[c].pc # "cancelling"
    /\ /\ session = "up"
       /\ active # None
       /\ task[active] = "done"
       /\ \A c \in Callers : call[c].pc # "cancelling"
       => open = {active}

\* A suspended stop works on the active event, unless the other one, of the
\* caller or of the closer, was done before it.
StopsInv ==
    \A c \in Coroutines :
        /\ call[c].pc # "sending"
        /\ call[c].pc \in {"cancelling", "fetching"} =>
             /\ active \in {None, call[c].ev}
             /\ phase = "running" => active = call[c].ev /\ history[active] = "live"
        /\ call[c].pc = "cancelling" =>
             /\ call[c].awaits = call[c].ev
             /\ task[call[c].ev] \in {"cancelling", "done"}

PollInv == RecordInv /\ TaskInv /\ OpenInv /\ StopsInv

\* All that holds of a camera until a loop survives.
OneLoopInv == IInv /\ CloseInv /\ LoopInv /\ PollInv

LEMMA PollInvInit == Init /\ PollLoops => LoopInv /\ PollInv
<1> SUFFICES ASSUME Init, PollLoops PROVE LoopInv /\ PollInv
  OBVIOUS
<1>0. Closer \in Coroutines /\ Callers \subseteq Coroutines /\ Closer \notin Callers
  BY CallersAssumption DEF Coroutines
<1>1. \A c \in Coroutines : call[c] \in {Idle, Dead}
  BY DEF Init, LoopOnly
<1>2. \A c \in Callers : call[c].pc # "dead" => c = Loop
  BY <1>0 DEF Init, LoopOnly, PollLoops, Dead, At
<1>3. call[Closer] = Idle
  BY <1>0 DEF Init, LoopOnly
<1>4. LoopInv
  BY <1>2, <1>3 DEF Init, LoopInv
<1>5. PollInv
  BY <1>1 DEF Init, PollInv, RecordInv, TaskInv, OpenInv, StopsInv, Idle, Dead, At
<1> QED
  BY <1>4, <1>5

\* The closer is not one of the callers.
LEMMA Roles ==
    /\ Closer \notin Callers
    /\ Coroutines = Callers \cup {Closer}
BY CallersAssumption DEF Coroutines

\* While the socket is open the tasks of the connection run and nobody closes;
\* what it leaves is no event.
LEMMA Connection ==
    ASSUME OneLoopInv
    PROVE  /\ session = "up" => phase = "running"
           /\ phase = "running" => call[Closer] = Idle
           /\ phase # "running" => session = "none"
           /\ phase = "backoff" => active = None
           /\ session # "up" => open = {}
<1>1. phase \in {"running", "closing", "backoff"}
  BY DEF OneLoopInv, LoopInv
<1>2. phase # "running" => session = "none"
  BY <1>1 DEF OneLoopInv, CloseInv
<1>3. ASSUME phase = "backoff", active # None
      PROVE  FALSE
  <2>1. active < nextEvent /\ active \in Nat /\ nextEvent \in Nat
    BY <1>3, EventIds DEF OneLoopInv, IInv, TypeOK, HandleInv, HandleIsActive
  <2>2. active >= nextEvent
    BY <1>3 DEF OneLoopInv, CloseInv, NoneFromBefore, LoopInv
  <2> QED
    BY <2>1, <2>2
<1> QED
  BY <1>1, <1>2, <1>3 DEF OneLoopInv, LoopInv, PollInv, OpenInv

\* A loop that is cancelled while it waits for the linger task survives, unless
\* the closer has been faster; a loop that is not meets no KeyError.
LEMMA LoopsEnd ==
    ASSUME PollLoops, OneLoopInv, survivors' = {}, NEW c \in Callers
    PROVE  /\ LingerCancelled(c) => phase = "running"
           /\ RecordGone(c) => phase # "running" /\ c \in cancelled
<1>0. c \in Coroutines
  BY Roles
<1>1. ASSUME LingerCancelled(c), phase # "running"
      PROVE  FALSE
  <2>1. c \in cancelled
    BY <1>1 DEF LingerCancelled, OneLoopInv, LoopInv
  <2>2. c \in survivors'
    BY <1>1, <2>1 DEF LingerCancelled, PollLoops
  <2> QED
    BY <2>2
<1>2. ASSUME RecordGone(c)
      PROVE  phase # "running"
  BY <1>0, <1>2 DEF RecordGone, OneLoopInv, PollInv, StopsInv
<1>3. ASSUME RecordGone(c)
      PROVE  c \in cancelled
  BY <1>2, <1>3 DEF RecordGone, OneLoopInv, LoopInv
<1> QED
  BY <1>1, <1>2, <1>3

LEMMA LoopInvStep ==
    ASSUME PollLoops, OneLoopInv, survivors = {}, survivors' = {}, [Next]_vars
    PROVE  LoopInv'
<1> USE DEF closeVars, camVars
<1>0. /\ TypeOK /\ LoopInv
      /\ Closer \in Coroutines /\ Callers \subseteq Coroutines /\ Closer \notin Callers
  BY Roles DEF OneLoopInv, IInv
\* A caller's step, or nobody's, that leaves the connection alone.
<1>a. ASSUME NEW c \in Callers, call[c].pc # "dead", NEW r, call' = [call EXCEPT ![c] = r],
             UNCHANGED <<phase, nextEvent, atClose>>,
             cancelled' \in {cancelled, cancelled \ {c}},
             phase # "running" => r.pc = "dead"
      PROVE  LoopInv'
  <2>1. \A d \in Callers : d # c => call[d].pc = "dead" /\ call'[d] = call[d]
    BY <1>0, <1>a DEF LoopInv, TypeOK
  <2>2. call'[Closer] = call[Closer] /\ call'[c] = r
    BY <1>0, <1>a DEF TypeOK
  <2> QED
    BY <1>0, <1>a, <2>1, <2>2 DEF LoopInv
<1>b. ASSUME phase = "closing", NEW r, call' = [call EXCEPT ![Closer] = r],
             UNCHANGED <<phase, nextEvent, atClose, cancelled>>
      PROVE  LoopInv'
  <2>1. \A d \in Callers : call'[d] = call[d]
    BY <1>0, <1>b DEF TypeOK
  <2> QED
    BY <1>0, <1>b, <2>1 DEF LoopInv
<1>1. ASSUME NEW c \in Callers, trigger_analytics_start(c)
      PROVE  LoopInv'
  <2>1. phase = "running" /\ UNCHANGED <<phase, call, cancelled>>
    BY <1>1 DEF trigger_analytics_start, MayCall, PollLoops
  <2> QED
    BY <1>0, <2>1 DEF LoopInv
<1>2. ASSUME NEW c \in Callers, trigger_analytics_stop(c)
      PROVE  LoopInv'
  <2>1. /\ phase = "running" /\ call[c].pc # "dead"
        /\ UNCHANGED <<phase, nextEvent, atClose, cancelled>>
    BY <1>2 DEF trigger_analytics_stop, MayCall, PollLoops, Idle, At
  <2>2. \E r : call' = [call EXCEPT ![c] = r]
    BY <1>2 DEF trigger_analytics_stop, StopEvent, EndEvent
  <2> QED
    BY <1>a, <2>1, <2>2
<1>3. ASSUME NEW c \in Callers, Resume(c)
      PROVE  LoopInv'
  <2>1. call[c].pc # "dead" \/ CallerCancelled(c)
    BY <1>3 DEF Resume, LingerCancelled, RecordGone, SnapshotsFetched, StopWritten
  <2>2. CASE LingerCancelled(c)
    <3>1. phase = "running"
      BY <2>2, LoopsEnd
    <3> QED
      BY <1>a, <2>2, <3>1 DEF LingerCancelled
  <2>3. CASE RecordGone(c)
    <3>1. phase # "running" /\ c \in cancelled
      BY <2>3, LoopsEnd
    <3>2. /\ call' = [call EXCEPT ![c] = Dead] /\ call[c].pc # "dead"
          /\ cancelled' = cancelled \ {c}
          /\ UNCHANGED <<phase, nextEvent, atClose>>
      BY <1>0, <2>3, <3>1 DEF RecordGone, Raised, PollLoops
    <3> QED
      BY <1>a, <3>2 DEF Dead, At
  <2>4. CASE SnapshotsFetched(c) \/ StopWritten(c)
    <3>1. c \notin cancelled /\ call[c].pc # "dead"
      BY <2>4 DEF SnapshotsFetched, StopWritten
    <3>2. phase = "running"
      BY <1>0, <3>1 DEF LoopInv
    <3>3. UNCHANGED <<phase, nextEvent, atClose, cancelled>>
      BY <2>4 DEF SnapshotsFetched, StopWritten
    <3>4. \E r : call' = [call EXCEPT ![c] = r]
      BY <2>4 DEF SnapshotsFetched, StopWritten, EndEvent
    <3> QED
      BY <1>a, <3>1, <3>2, <3>3, <3>4
  <2>5. CASE CallerCancelled(c)
    <3>1. /\ c \in cancelled /\ cancelled' = cancelled \ {c}
          /\ call' = [call EXCEPT ![c] = Dead]
          /\ UNCHANGED <<phase, nextEvent, atClose>>
      BY <1>0, <2>5 DEF CallerCancelled, Raised, PollLoops
    <3>2. \A d \in Coroutines : call'[d] = IF d = c THEN Dead ELSE call[d]
      BY <1>0, <3>1 DEF TypeOK
    <3> QED
      BY <1>0, <3>1, <3>2 DEF LoopInv, Dead, At
  <2> QED
    BY <1>3, <2>2, <2>3, <2>4, <2>5 DEF Resume
<1>4. ASSUME Resume(Closer)
      PROVE  LoopInv'
  <2>1. Closer \notin cancelled
    BY <1>0 DEF TypeOK
  <2>2. phase = "closing"
    BY <1>0, <1>4, <2>1 DEF Resume, LingerCancelled, RecordGone, SnapshotsFetched, StopWritten,
                            CallerCancelled, LoopInv, Idle, At
  <2>3. UNCHANGED <<phase, nextEvent, atClose>> /\ cancelled' = cancelled
    BY <1>0, <1>4, <2>1 DEF Resume, LingerCancelled, RecordGone, SnapshotsFetched, StopWritten,
                            CallerCancelled
  <2>4. \E r : call' = [call EXCEPT ![Closer] = r]
    BY <1>0, <1>4 DEF Resume, LingerCancelled, RecordGone, SnapshotsFetched, StopWritten,
                      CallerCancelled, EndEvent
  <2> QED
    BY <1>b, <2>2, <2>3, <2>4
<1>5. ASSUME NEW e \in Events, LingerTask(e)
      PROVE  LoopInv'
  BY <1>0, <1>5 DEF LingerTask, LingerElapsed, StartWritten, StartCancelled, LoopInv
<1>6. CASE ConnectionLost
  BY <1>0, <1>6 DEF ConnectionLost, LoopInv
<1>7. CASE RecvClosed
  <2>1. /\ phase' = "closing" /\ cancelled' = Cancellable /\ atClose' = nextEvent
        /\ call' = [call EXCEPT ![Closer] = At("begin", None, None)] /\ UNCHANGED nextEvent
    BY <1>0, <1>7 DEF RecvClosed, BeginClose, LoopInv
  <2>2. \A d \in Callers : call'[d] = call[d]
    BY <1>0, <2>1 DEF TypeOK
  <2>3. \A d \in Callers : call[d].pc # "dead" => d \in Cancellable
    BY DEF Cancellable, PollLoops, Dead, At
  <2> QED
    BY <1>0, <2>1, <2>2, <2>3 DEF LoopInv
<1>8. CASE stop_all_motion_events
  <2>1. call[Closer].pc = "begin" /\ UNCHANGED <<phase, nextEvent, atClose, cancelled>>
    BY <1>8 DEF stop_all_motion_events
  <2>2. phase = "closing"
    BY <1>0, <2>1 DEF LoopInv, Idle, At
  <2>3. \E r : call' = [call EXCEPT ![Closer] = r]
    BY <1>8 DEF stop_all_motion_events, StopEvent, EndEvent
  <2> QED
    BY <1>b, <2>1, <2>2, <2>3
<1>9. CASE Closed
  <2>1. /\ phase = "closing" /\ phase' = "backoff" /\ call[Closer] = Idle
        /\ UNCHANGED <<nextEvent, atClose, cancelled>>
    BY <1>9 DEF Closed
  <2>2. call' = call
    BY <1>0, <1>9 DEF Closed, PollLoops, TypeOK
  <2> QED
    BY <1>0, <2>1, <2>2 DEF LoopInv
<1>10. CASE Connected
  <2>1. phase = "backoff" /\ phase' = "running" /\ cancelled' = {}
    BY <1>10 DEF Connected
  <2>2. \A c \in Coroutines : call'[c] = IF c \in Callers THEN LoopOnly[c] ELSE call[c]
    BY <1>10 DEF Connected
  <2>3. \A c \in Callers : call'[c].pc # "dead" => c = Loop
    BY <1>0, <2>2 DEF LoopOnly, PollLoops, Dead, At
  <2>4. call'[Closer] = Idle
    BY <1>0, <2>1, <2>2 DEF LoopInv
  <2> QED
    BY <1>0, <2>1, <2>3, <2>4 DEF LoopInv
<1>11. ~ProgramEnds /\ ~ForcedReconnect
  BY <1>0 DEF ProgramEnds, ForcedReconnect, LoopInv, PollLoops
<1>12. CASE UNCHANGED vars
  BY <1>0, <1>12 DEF vars, LoopInv
<1> QED
  BY <1>1, <1>2, <1>3, <1>4, <1>5, <1>6, <1>7, <1>8, <1>9, <1>10, <1>11, <1>12
     DEF Next, Core, Coroutines

\* The tail of a stop, run by the poll loop while connected or by the closer.
LEMMA EndEventPoll ==
    ASSUME PollLoops, OneLoopInv, NEW c \in Coroutines, NEW e \in Events,
           EndEvent(c, e), UNCHANGED <<task, phase, starts>>,
           task[e] = "done", active \in {None, e},
           c \in Callers => /\ phase = "running" /\ active = e
                            /\ call[c].pc \notin {"cancelling", "dead"},
           c = Closer => phase # "running"
    PROVE  PollInv' /\ (UNCHANGED wireVars \/ Feed!Stop(e))
<1>0. TypeOK /\ PollInv /\ None \notin Events
  BY EventIds DEF OneLoopInv, IInv
<1>1. \A d \in Callers : d # c => phase # "running" \/ call[d].pc = "dead"
  BY Roles DEF OneLoopInv, LoopInv
<1>2. CASE session = "up"
  <2>1. phase = "running" /\ c \in Callers /\ active = e /\ call[c].pc # "cancelling"
    BY <1>2, Connection, Roles
  <2>2. open = {e}
    BY <1>0, <1>1, <1>2, <2>1 DEF PollInv, OpenInv
  <2>3. /\ active' = None
        /\ open' = {}
        /\ stops' = [stops EXCEPT ![e] = @ + 1]
        /\ call' = [call EXCEPT ![c] = Idle]
    BY <1>2, <2>2 DEF EndEvent, PollLoops
  <2>4. \A f \in Events : task[f] \notin {"linger", "sending", "cancelling"}
    BY <1>0, <1>2, <2>1 DEF PollInv, TaskInv
  <2>5. \A d \in Coroutines : call'[d] = IF d = c THEN Idle ELSE call[d]
    BY <1>0, <2>3 DEF TypeOK
  <2>6. \A d \in Coroutines : call'[d].pc \notin {"sending", "cancelling", "fetching"}
    BY <1>1, <2>1, <2>5, Connection, Roles DEF Idle, At
  <2>7. PollInv'
    BY <2>3, <2>4, <2>6 DEF PollInv, RecordInv, TaskInv, OpenInv, StopsInv
  <2>8. Feed!Stop(e)
    BY <2>2, <2>3 DEF Feed!Stop
  <2> QED
    BY <2>7, <2>8
<1>3. CASE session = "none"
  <2>1. active' = None /\ session' = "none" /\ call' = [call EXCEPT ![c] = Idle]
        /\ UNCHANGED wireVars
    BY <1>3 DEF EndEvent, wireVars
  <2>2. \A d \in Coroutines : call'[d] = IF d = c THEN Idle ELSE call[d]
    BY <1>0, <2>1 DEF TypeOK
  <2>3. \A f \in Events : task[f] \notin {"linger", "sending"}
    BY <1>0 DEF PollInv, TaskInv
  <2>4. open' = {}
    BY <1>3, <2>1, Connection DEF wireVars
  <2>5. RecordInv' /\ TaskInv' /\ OpenInv'
    BY <2>1, <2>3, <2>4 DEF RecordInv, TaskInv, OpenInv
  <2>6. ASSUME NEW d \in Coroutines, d # c, phase = "running"
        PROVE  call[d].pc \notin {"cancelling", "fetching"}
    BY <1>1, <2>6, Connection, Roles DEF Idle, At
  <2>7. StopsInv'
    BY <1>0, <2>1, <2>2, <2>6 DEF PollInv, StopsInv, Idle, At
  <2> QED
    BY <2>1, <2>5, <2>7 DEF PollInv
<1>4. CASE session = "lost"
  <2>1. phase = "running" /\ c \in Callers /\ active = e /\ call[c].pc # "cancelling"
    BY <1>4, Connection, Roles
  <2>2. session' = "none" /\ UNCHANGED wireVars /\ UNCHANGED active
        /\ call' = [call EXCEPT ![c] = Dead]
        /\ history' = [history EXCEPT ![e] = IF @ = "absent" THEN @ ELSE "ended"]
    BY <1>4, <2>1, Roles DEF EndEvent, wireVars, Raised, PollLoops
  <2>3. history[e] # "absent" /\ \A f \in Events : task[f] \notin {"linger", "sending"}
    BY <1>0, <2>1 DEF PollInv, TaskInv, RecordInv
  <2>4. \A d \in Coroutines : call'[d] = IF d = c THEN Dead ELSE call[d]
    BY <1>0, <2>2 DEF TypeOK
  <2>5. \A d \in Coroutines : call'[d].pc \notin {"sending", "cancelling", "fetching"}
    BY <1>1, <2>1, <2>4, Connection, Roles DEF Idle, Dead, At
  <2>6. \A d \in Callers : call'[d].pc = "dead"
    BY <1>1, <2>1, <2>4, Roles DEF Dead, At
  <2>7. open' = {}
    BY <1>4, <2>2, Connection DEF wireVars
  <2>8. RecordInv'
    BY <1>0, <2>1, <2>2, <2>3, <2>6 DEF RecordInv, TypeOK
  <2>9. TaskInv' /\ OpenInv' /\ StopsInv'
    BY <2>2, <2>3, <2>5, <2>7 DEF TaskInv, OpenInv, StopsInv
  <2> QED
    BY <2>2, <2>8, <2>9 DEF PollInv
<1> QED
  BY <1>0, <1>2, <1>3, <1>4 DEF TypeOK, Sessions

\* The part of a stop before the first await, likewise.
LEMMA StopEventPoll ==
    ASSUME PollLoops, OneLoopInv, NEW c \in Coroutines, StopEvent(c),
           call[c].pc \in {"idle", "begin"},
           UNCHANGED <<handle, phase, starts>>,
           c \in Callers => phase = "running",
           c = Closer => phase # "running"
    PROVE  PollInv' /\ (UNCHANGED wireVars \/ \E e \in Events : Feed!Stop(e))
<1>0. TypeOK /\ PollInv /\ None \notin Events
  BY EventIds DEF OneLoopInv, IInv
<1>1. active \in Events /\ handle = active /\ history[active] # "absent"
  BY <1>0 DEF StopEvent, OneLoopInv, IInv, TypeOK, HandleInv, HandleIsActive, PollInv, RecordInv
<1>2. ASSUME c \in Callers
      PROVE  \A d \in Callers : d # c => call[d].pc = "dead"
  BY <1>2 DEF OneLoopInv, LoopInv
<1>3. ASSUME phase = "running"
      PROVE  /\ c \in Callers
             /\ \A d \in Coroutines : call[d].pc \notin {"cancelling", "fetching"}
             /\ history[active] = "live"
  <2>1. c \in Callers /\ \A d \in Coroutines : call[d].pc \notin {"cancelling", "fetching"}
    BY <1>2, <1>3, Connection, Roles DEF Idle, At
  <2>2. history[active] # "ended"
    BY <1>0, <1>1, <1>3, <2>1 DEF PollInv, RecordInv
  <2> QED
    BY <1>0, <1>1, <2>1, <2>2 DEF TypeOK
<1>4. CASE task[active] # "done"
  <2>1. /\ task' = [task EXCEPT ![active] = "cancelling"]
        /\ call' = [call EXCEPT ![c] = At("cancelling", active, active)]
        /\ UNCHANGED <<session, history, active, stops, open>>
    BY <1>0, <1>1, <1>4 DEF StopEvent
  <2>2. \A d \in Coroutines :
          call'[d] = IF d = c THEN At("cancelling", active, active) ELSE call[d]
    BY <1>0, <2>1 DEF TypeOK
  <2>3. \A f \in Events : task'[f] = IF f = active THEN "cancelling" ELSE task[f]
    BY <1>0, <2>1 DEF TypeOK
  <2>4. call'[c].pc = "cancelling"
    BY <2>2 DEF At
  <2>5. open = {}
    BY <1>0, <1>4 DEF PollInv, OpenInv
  <2>6. RecordInv'
    <3>1. \A d \in Callers : call[d].pc = "dead" => d # c
      OBVIOUS
    <3> QED
      BY <1>0, <1>1, <1>3, <2>1 DEF PollInv, RecordInv
  <2>7. TaskInv'
    <3>1. session = "up" => c \in Callers
      BY <1>3, Connection
    <3> QED
      BY <1>0, <2>1, <2>3, <2>4, <3>1 DEF PollInv, TaskInv
  <2>8. OpenInv'
    BY <1>1, <2>1, <2>3, <2>5 DEF OpenInv
  <2>9. StopsInv'
    <3>1. ASSUME NEW d \in Coroutines, d # c, call[d].pc \in {"cancelling", "fetching"}
          PROVE  phase # "running"
      BY <1>3, <3>1
    <3> QED
      BY <1>0, <1>1, <1>3, <2>1, <2>2, <2>3, <3>1 DEF PollInv, StopsInv, At
  <2> QED
    BY <2>1, <2>6, <2>7, <2>8, <2>9 DEF PollInv, wireVars
<1>5. CASE task[active] = "done"
  <2>1. UNCHANGED task
    BY <1>0, <1>1, <1>5 DEF StopEvent
  <2>2. CASE EndEvent(c, active)
    <3>1. c \in Callers => call[c].pc \notin {"cancelling", "dead"}
      OBVIOUS
    <3>2. PollInv' /\ (UNCHANGED wireVars \/ Feed!Stop(active))
      BY <1>1, <1>5, <2>1, <2>2, <3>1, EndEventPoll
    <3> QED
      BY <1>1, <3>2
  <2>3. CASE ~EndEvent(c, active)
    <3>1. /\ call' = [call EXCEPT ![c] = At("fetching", active, None)]
          /\ UNCHANGED <<session, history, active, stops, open>>
      BY <1>0, <1>1, <1>5, <2>3 DEF StopEvent
    <3>2. \A d \in Coroutines :
            call'[d] = IF d = c THEN At("fetching", active, None) ELSE call[d]
      BY <1>0, <3>1 DEF TypeOK
    <3>3. call'[c].pc = "fetching"
      BY <3>2 DEF At
    <3>4. RecordInv'
      BY <1>0, <1>1, <1>3, <3>1 DEF PollInv, RecordInv
    <3>5. TaskInv' /\ OpenInv'
      <4>1. \A d \in Coroutines : call'[d].pc = "cancelling" <=> call[d].pc = "cancelling"
        BY <3>2 DEF At
      <4>2. Callers \subseteq Coroutines
        BY Roles
      <4>3. TaskInv'
        BY <1>0, <2>1, <3>1, <4>1, <4>2 DEF PollInv, TaskInv
      <4>4. OpenInv'
        BY <1>0, <2>1, <3>1, <4>1, <4>2 DEF PollInv, OpenInv
      <4> QED
        BY <4>3, <4>4
    <3>6. StopsInv'
      BY <1>0, <1>3, <2>1, <3>1, <3>2 DEF PollInv, StopsInv, At
    <3> QED
      BY <3>1, <3>4, <3>5, <3>6 DEF PollInv, wireVars
  <2> QED
    BY <2>2, <2>3
<1> QED
  BY <1>4, <1>5

\* The duplicate start of the active event leaves its record; an event is
\* registered only when none is active, and then no linger task is left.
LEMMA StartPoll ==
    ASSUME PollLoops, OneLoopInv, survivors = {}, NEW c \in Callers,
           trigger_analytics_start(c)
    PROVE  PollInv' /\ UNCHANGED wireVars
<1>0. TypeOK /\ PollInv /\ None \notin Events
  BY EventIds DEF OneLoopInv, IInv
<1>1. /\ phase = "running" /\ call[c] = Idle
      /\ UNCHANGED <<session, phase, call>> /\ UNCHANGED wireVars
  BY DEF trigger_analytics_start, MayCall, PollLoops, wireVars
<1>2. \A d \in Callers : d # c => call[d].pc = "dead"
  BY <1>1 DEF OneLoopInv, LoopInv, Idle, At
<1>3. /\ call[c].pc # "dead"
      /\ \A d \in Coroutines : call[d].pc \notin {"cancelling", "fetching", "sending"}
  BY <1>1, <1>2, Connection, Roles DEF Idle, At
<1>4. PICK old \in SUBSET Expirable :
        LET kept == [e \in Events |-> IF e \in old THEN "absent" ELSE history[e]]
        IN  \/ /\ Duplicate(kept)
               /\ history' = kept
               /\ UNCHANGED <<active, handle, task, nextEvent>>
            \/ ~Duplicate(kept) /\ Register(kept)
  BY DEF trigger_analytics_start
<1> DEFINE kept == [e \in Events |-> IF e \in old THEN "absent" ELSE history[e]]
<1>5. \A e \in Events : history[e] # "ended" => kept[e] = history[e]
  BY DEF Expirable, PollLoops
<1>6. \A e \in Events : kept[e] \in {history[e], "absent"}
  OBVIOUS
<1>7. c \in Coroutines /\ Callers \subseteq Coroutines
  BY Roles
<1>8. active # None => active \in Events /\ history[active] = "live" /\ kept[active] = "live"
  BY <1>0, <1>1, <1>3, <1>5, <1>7 DEF PollInv, RecordInv, TypeOK
<1> HIDE DEF kept
<1>9. CASE active # None
  <2>1. history' = kept /\ UNCHANGED <<active, handle, task, nextEvent>>
    BY <1>4, <1>8, <1>9 DEF Duplicate, kept
  <2>2. RecordInv'
    BY <1>8, <2>1 DEF RecordInv
  <2>3. TaskInv'
    BY <1>0, <1>1, <1>5, <2>1 DEF PollInv, TaskInv
  <2>4. OpenInv'
    BY <1>0, <1>1, <2>1 DEF PollInv, OpenInv, wireVars
  <2>5. StopsInv'
    BY <1>1, <1>3 DEF StopsInv
  <2> QED
    BY <1>1, <2>2, <2>3, <2>4, <2>5 DEF PollInv
<1>10. CASE active = None
  <2>1. Register(kept)
    BY <1>4, <1>10 DEF Duplicate, kept
  <2>2. nextEvent \in Events
    BY <1>0, <2>1, EventIds DEF Register, TypeOK
  <2>3. active' = nextEvent /\ history'[nextEvent] = "live"
        /\ \A e \in Events : task'[e] = IF e = nextEvent THEN "linger" ELSE task[e]
    <3>1. kept \in [Events -> {"absent", "live", "ended"}]
      BY <1>0 DEF kept, TypeOK
    <3> QED
      BY <1>0, <2>1, <2>2, <3>1 DEF Register, TypeOK
  <2>4. open = {} /\ \A e \in Events : task[e] # "linger" /\ task[e] # "sending"
                                       /\ (session = "up" => task[e] # "cancelling")
    BY <1>0, <1>10 DEF PollInv, OpenInv, TaskInv
  <2>5. RecordInv' /\ TaskInv' /\ OpenInv'
    BY <1>0, <1>1, <2>2, <2>3, <2>4 DEF RecordInv, TaskInv, OpenInv, wireVars
  <2>6. StopsInv'
    BY <1>1, <1>3 DEF StopsInv
  <2> QED
    BY <1>1, <2>5, <2>6 DEF PollInv
<1> QED
  BY <1>9, <1>10

\* The linger task of an event.
LEMMA LingerPoll ==
    ASSUME PollLoops, OneLoopInv, NEW e \in Events, LingerTask(e)
    PROVE  PollInv' /\ (UNCHANGED wireVars \/ Feed!Start(e))
<1>0. TypeOK /\ PollInv /\ CallInv /\ None \notin Events
  BY EventIds DEF OneLoopInv, IInv
<1>1. UNCHANGED <<phase, history, active, call, stops>>
  BY DEF LingerTask, LingerElapsed, StartWritten, StartCancelled, wireVars
<1>2. Callers \subseteq Coroutines
  BY Roles
<1>3. ~StartWritten(e)
  BY <1>0 DEF StartWritten, PollInv, TaskInv
<1>4. CASE LingerElapsed(e)
  <2>1. task[e] = "linger" /\ e = active /\ history[e] = "live"
    BY <1>0, <1>4 DEF LingerElapsed, PollInv, TaskInv
  <2>2. task' = [task EXCEPT ![e] = "done"]
    BY <1>4 DEF LingerElapsed, PollLoops
  <2>3. \A f \in Events : task'[f] = IF f = e THEN "done" ELSE task[f]
    BY <1>0, <2>2 DEF TypeOK
  <2>4. open = {}
    BY <1>0, <2>1 DEF PollInv, OpenInv
  <2>5. StopsInv'
    BY <1>0, <1>1, <2>3 DEF PollInv, StopsInv, CallInv
  <2>6. RecordInv'
    BY <1>0, <1>1, <2>1 DEF RecordInv
  <2>7. CASE session = "up"
    <3>1. /\ starts' = [starts EXCEPT ![e] = @ + 1]
          /\ open' = {e}
          /\ UNCHANGED session
      BY <1>4, <2>1, <2>4, <2>7 DEF LingerElapsed
    <3>2. ASSUME NEW c \in Callers
          PROVE  call[c].pc # "cancelling"
      <4>1. call[c].pc = "cancelling" => call[c].ev = active /\ task[call[c].ev] # "linger"
        BY <1>0, <1>2, <2>7, Connection DEF PollInv, StopsInv
      <4> QED
        BY <2>1, <4>1
    <3>3. TaskInv'
      BY <1>0, <1>1, <2>3, <3>1 DEF PollInv, TaskInv
    <3>4. OpenInv'
      BY <1>0, <1>1, <2>1, <2>3, <2>7, <3>1, <3>2 DEF OpenInv
    <3>5. starts[e] = 0
      BY <1>0, <2>1 DEF OneLoopInv, IInv, WireInv, TypeOK
    <3>6. starts' = [starts EXCEPT ![e] = 1]
      BY <3>1, <3>5
    <3>7. Feed!Start(e)
      BY <1>1, <2>4, <3>1, <3>5, <3>6 DEF Feed!Start
    <3> QED
      BY <2>5, <2>6, <3>3, <3>4, <3>7 DEF PollInv
  <2>8. CASE session # "up"
    <3>1. UNCHANGED <<starts, open>> /\ session' = "none"
      BY <1>4, <2>1, <2>8 DEF LingerElapsed
    <3>2. TaskInv' /\ OpenInv'
      BY <1>0, <1>1, <2>3, <2>4, <3>1 DEF PollInv, TaskInv, OpenInv
    <3> QED
      BY <1>1, <2>5, <2>6, <3>1, <3>2 DEF PollInv, wireVars
  <2> QED
    BY <2>7, <2>8
<1>5. CASE StartCancelled(e)
  <2>1. /\ task[e] = "cancelling" /\ task' = [task EXCEPT ![e] = "done"]
        /\ UNCHANGED <<session, starts, open>>
    BY <1>5 DEF StartCancelled, wireVars
  <2>2. \A f \in Events : task'[f] = IF f = e THEN "done" ELSE task[f]
    BY <1>0, <2>1 DEF TypeOK
  <2>3. RecordInv' /\ TaskInv'
    BY <1>0, <1>1, <2>1, <2>2 DEF PollInv, RecordInv, TaskInv
  <2>4. StopsInv'
    BY <1>0, <1>1, <2>2 DEF PollInv, StopsInv, CallInv
  <2>5. OpenInv'
    BY <1>0, <1>1, <2>1, <2>2 DEF PollInv, OpenInv, TaskInv
  <2> QED
    BY <1>1, <2>1, <2>3, <2>4, <2>5 DEF PollInv, wireVars
<1> QED
  BY <1>3, <1>4, <1>5 DEF LingerTask

\* What is left of a suspended stop.
LEMMA ResumePoll ==
    ASSUME PollLoops, OneLoopInv, survivors = {}, survivors' = {}, LoopInv',
           NEW c \in Coroutines, Resume(c)
    PROVE  PollInv' /\ (UNCHANGED wireVars \/ \E e \in Events : Feed!Stop(e))
<1>0. TypeOK /\ PollInv /\ CallInv /\ None \notin Events
  BY EventIds DEF OneLoopInv, IInv
<1>1. call[c].pc \in {"cancelling", "fetching"} \/ CallerCancelled(c)
  BY <1>0 DEF Resume, LingerCancelled, RecordGone, SnapshotsFetched, StopWritten,
              PollInv, StopsInv
<1>2. call[c].pc \in {"cancelling", "fetching"} /\ phase = "running" => c \in Callers
  BY Connection, Roles DEF Idle, At
<1>3. call[c].pc \in {"cancelling", "fetching"} =>
        call[c].ev \in Events /\ active \in {None, call[c].ev}
  BY <1>0 DEF CallInv, PollInv, StopsInv
<1>4. CASE LingerCancelled(c) \/ RecordGone(c)
  <2>1. /\ call[c].pc = "cancelling"
        /\ task[call[c].ev] = "done"
        /\ UNCHANGED <<session, phase, task, starts, stops, open>>
    BY <1>0, <1>4 DEF LingerCancelled, RecordGone, LoopInv, PollInv, StopsInv, wireVars
  <2>2. active' = None
    BY <1>0, <1>3, <1>4, <2>1 DEF LingerCancelled, RecordGone, PollInv, RecordInv
  <2>3. call' \in {[call EXCEPT ![c] = Idle], [call EXCEPT ![c] = Raised(c)]}
    BY <1>4, <2>1 DEF LingerCancelled, RecordGone, LoopInv
  <2>4. /\ \A d \in Coroutines : d # c => call'[d] = call[d]
        /\ call'[c].pc \in {"idle", "dead"}
    BY <1>0, <2>3 DEF TypeOK, Idle, Dead, Raised, At
  <2>5. open = {}
    BY <1>0, <1>2, <2>1, Connection DEF PollInv, OpenInv
  <2>6. \A f \in Events :
          task[f] \notin {"linger", "sending"} /\ (session = "up" => task[f] # "cancelling")
    BY <1>0, <1>3, <2>1 DEF PollInv, TaskInv
  <2>7. RecordInv' /\ TaskInv' /\ OpenInv'
    BY <2>1, <2>2, <2>5, <2>6 DEF RecordInv, TaskInv, OpenInv
  <2>8. StopsInv'
    <3>1. ASSUME NEW d \in Coroutines, d # c, phase = "running"
          PROVE  call[d].pc \notin {"cancelling", "fetching"}
      <4>1. d \in Callers => call[d].pc = "dead"
        BY <1>2, <2>1, <3>1 DEF OneLoopInv, LoopInv
      <4> QED
        BY <3>1, <4>1, Connection, Roles DEF Idle, At
    <3> QED
      BY <1>0, <2>1, <2>2, <2>4, <3>1 DEF PollInv, StopsInv
  <2> QED
    BY <2>1, <2>7, <2>8 DEF PollInv, wireVars
<1>5. CASE SnapshotsFetched(c)
  <2>1. /\ call[c].pc = "fetching"
        /\ c \notin cancelled
        /\ EndEvent(c, call[c].ev)
        /\ UNCHANGED <<task, phase, starts>>
    BY <1>5 DEF SnapshotsFetched
  <2>2. task[call[c].ev] = "done"
    BY <1>0, <2>1 DEF CallInv
  <2>3. c \in Callers => /\ phase = "running" /\ active = call[c].ev
                         /\ call[c].pc \notin {"cancelling", "dead"}
    BY <1>0, <2>1 DEF OneLoopInv, LoopInv, PollInv, StopsInv
  <2>4. c = Closer => phase # "running"
    BY <1>2, <2>1, Roles
  <2>5. PollInv' /\ (UNCHANGED wireVars \/ Feed!Stop(call[c].ev))
    BY <1>3, <2>1, <2>2, <2>3, <2>4, EndEventPoll
  <2> QED
    BY <1>3, <2>1, <2>5
<1>6. CASE CallerCancelled(c)
  <2>1. /\ phase # "running"
        /\ call' = [call EXCEPT ![c] = Raised(c)]
        /\ UNCHANGED <<session, phase, history, active, task, starts, stops, open>>
    BY <1>6 DEF CallerCancelled, OneLoopInv, LoopInv, wireVars
  <2>2. /\ \A d \in Coroutines : d # c => call'[d] = call[d]
        /\ call'[c].pc \in {"idle", "dead"}
    BY <1>0, <2>1 DEF TypeOK, Idle, Dead, Raised, At
  <2>3. session = "none" /\ open = {}
    BY <2>1, Connection
  <2>4. RecordInv' /\ TaskInv' /\ OpenInv'
    BY <1>0, <2>1, <2>3 DEF PollInv, RecordInv, TaskInv, OpenInv
  <2>5. StopsInv'
    BY <1>0, <2>1, <2>2 DEF PollInv, StopsInv
  <2> QED
    BY <2>1, <2>4, <2>5 DEF PollInv, wireVars
<1>7. ~StopWritten(c)
  BY <1>0 DEF StopWritten, PollInv, StopsInv
<1> QED
  BY <1>1, <1>4, <1>5, <1>6, <1>7 DEF Resume

\* The end of a connection, the close and the next connection.
LEMMA ConnectionPoll ==
    ASSUME PollLoops, OneLoopInv, survivors = {}, LoopInv', ConnectionLost \/ Core
    PROVE  PollInv' /\ (UNCHANGED wireVars \/ Feed!Disconnect \/ \E e \in Events : Feed!Stop(e))
<1>0. TypeOK /\ PollInv /\ None \notin Events
  BY EventIds DEF OneLoopInv, IInv
<1>00. Closer \in Coroutines /\ Callers \subseteq Coroutines /\ Closer \notin Callers
  BY Roles
<1>000. ~ProgramEnds
  BY DEF ProgramEnds, OneLoopInv, LoopInv
<1>1. CASE ConnectionLost
  <2>1. session' = "lost" /\ open' = {}
        /\ UNCHANGED <<phase, history, active, task, call, starts, stops>>
    BY <1>1 DEF ConnectionLost, camVars
  <2>2. PollInv'
    BY <1>0, <2>1 DEF PollInv, RecordInv, TaskInv, OpenInv, StopsInv
  <2> QED
    BY <2>1, <2>2 DEF Feed!Disconnect
<1>2. CASE RecvClosed
  <2>1. /\ session # "up" /\ session' = "none" /\ phase' = "closing"
        /\ call' = [call EXCEPT ![Closer] = At("begin", None, None)]
        /\ UNCHANGED <<history, active, task, starts, stops, open>>
    BY <1>2 DEF RecvClosed, BeginClose, wireVars, OneLoopInv, LoopInv
  <2>2. \A d \in Coroutines : d # Closer => call'[d] = call[d]
    BY <1>0, <2>1 DEF TypeOK
  <2>3. call'[Closer].pc = "begin"
    BY <1>0, <1>00, <2>1 DEF TypeOK, At
  <2>4. open = {}
    BY <2>1, Connection
  <2>5. PollInv'
    BY <1>0, <2>1, <2>2, <2>3, <2>4 DEF PollInv, RecordInv, TaskInv, OpenInv, StopsInv
  <2> QED
    BY <2>1, <2>5 DEF wireVars
<1>3. CASE stop_all_motion_events
  <2>1. /\ call[Closer].pc = "begin"
        /\ UNCHANGED <<handle, phase, starts>>
    BY <1>3 DEF stop_all_motion_events
  <2>2. phase # "running"
    BY <2>1, Connection DEF Idle, At
  <2>3. CASE StopEvent(Closer)
    BY <1>00, <2>1, <2>2, <2>3, StopEventPoll
  <2>4. CASE ~StopEvent(Closer)
    <3>1. /\ active = None
          /\ call' = [call EXCEPT ![Closer] = Idle]
          /\ UNCHANGED <<session, phase, history, active, task, starts, stops, open>>
      BY <1>3, <2>1, <2>4 DEF stop_all_motion_events
    <3>2. \A d \in Coroutines : d # Closer => call'[d] = call[d]
      BY <1>0, <3>1 DEF TypeOK
    <3>3. call'[Closer].pc = "idle"
      BY <1>0, <1>00, <3>1 DEF TypeOK, Idle, At
    <3>4. session = "none" /\ open = {}
      BY <2>2, Connection
    <3>5. PollInv'
      BY <1>0, <3>1, <3>2, <3>3, <3>4 DEF PollInv, RecordInv, TaskInv, OpenInv, StopsInv
    <3> QED
      BY <3>1, <3>5 DEF wireVars
  <2> QED
    BY <2>3, <2>4
<1>4. CASE Closed
  <2>1. /\ phase = "closing" /\ phase' = "backoff" /\ open' = {}
        /\ UNCHANGED <<history, active, task, starts, stops>>
    BY <1>4 DEF Closed
  <2>2. session = "none"
    BY <2>1, Connection
  <2>3. session' = "none" /\ call' = call
    BY <1>0, <1>4, <2>2 DEF Closed, PollLoops, TypeOK
  <2>4. PollInv'
    BY <1>0, <2>1, <2>2, <2>3 DEF PollInv, RecordInv, TaskInv, OpenInv, StopsInv
  <2> QED
    BY <2>1, <2>4 DEF Feed!Disconnect
<1>5. CASE Connected
  <2>1. /\ phase = "backoff"
        /\ \A e \in Events : task[e] \notin {"sending", "cancelling"}
        /\ \A d \in Callers : call'[d] \in {Idle, Dead}
        /\ UNCHANGED <<history, active, task, starts, stops, open>>
    BY <1>00, <1>5 DEF Connected, LoopOnly, wireVars
  <2>2. active = None /\ open = {}
    BY <2>1, Connection
  <2>3. \A e \in Events : task[e] # "linger"
    BY <1>0, <2>2 DEF PollInv, TaskInv
  <2>4. call'[Closer] = Idle
    BY <1>5 DEF Connected, LoopInv
  <2>5. \A d \in Coroutines : call'[d].pc \in {"idle", "dead"}
    BY <2>1, <2>4, Roles DEF Idle, Dead, At
  <2>6. PollInv'
    BY <2>1, <2>2, <2>3, <2>5 DEF PollInv, RecordInv, TaskInv, OpenInv, StopsInv
  <2> QED
    BY <2>1, <2>6 DEF wireVars
<1> QED
  BY <1>000, <1>1, <1>2, <1>3, <1>4, <1>5 DEF Core, ForcedReconnect, PollLoops

\* Every step keeps the invariant, and maps to a step of the feed or a stutter.
LEMMA PollStep ==
    ASSUME PollLoops, OneLoopInv, survivors = {}, survivors' = {}, [Next]_vars
    PROVE  LoopInv' /\ PollInv' /\ [Feed!Next]_(Feed!vars)
<1> SUFFICES PollInv' /\ [Feed!Next]_(Feed!vars)
  BY LoopInvStep
<1>0. LoopInv'
  BY LoopInvStep
<1>1. ASSUME UNCHANGED wireVars
      PROVE  [Feed!Next]_(Feed!vars)
  BY <1>1 DEF wireVars, Feed!vars
<1>2. ASSUME NEW c \in Callers, trigger_analytics_start(c)
      PROVE  PollInv' /\ [Feed!Next]_(Feed!vars)
  BY <1>1, <1>2, StartPoll
<1>3. ASSUME NEW c \in Callers, trigger_analytics_stop(c)
      PROVE  PollInv' /\ [Feed!Next]_(Feed!vars)
  <2>1. /\ c \in Coroutines /\ c # Closer
        /\ StopEvent(c) /\ call[c].pc = "idle" /\ phase = "running"
        /\ UNCHANGED <<handle, phase, starts>>
    BY <1>3, Roles DEF trigger_analytics_stop, MayCall, PollLoops, Idle, At
  <2>2. PollInv' /\ (UNCHANGED wireVars \/ \E e \in Events : Feed!Stop(e))
    BY <2>1, StopEventPoll
  <2> QED
    BY <1>1, <2>2 DEF Feed!Next
<1>4. ASSUME NEW c \in Coroutines, Resume(c)
      PROVE  PollInv' /\ [Feed!Next]_(Feed!vars)
  BY <1>0, <1>1, <1>4, ResumePoll DEF Feed!Next
<1>5. ASSUME NEW e \in Events, LingerTask(e)
      PROVE  PollInv' /\ [Feed!Next]_(Feed!vars)
  BY <1>1, <1>5, LingerPoll DEF Feed!Next
<1>6. CASE ConnectionLost \/ Core
  BY <1>0, <1>1, <1>6, ConnectionPoll DEF Feed!Next
<1>7. CASE UNCHANGED vars
  <2>1. PollInv'
    BY <1>7 DEF vars, camVars, wireVars, OneLoopInv, PollInv, RecordInv, TaskInv, OpenInv,
                StopsInv
  <2>2. UNCHANGED wireVars
    BY <1>7 DEF vars
  <2> QED
    BY <1>1, <2>1, <2>2
<1> QED
  BY <1>2, <1>3, <1>4, <1>5, <1>6, <1>7 DEF Next

\* Once a loop has survived it stays a survivor.
LEMMA SurvivorsStay ==
    ASSUME [Next]_vars
    PROVE  survivors \subseteq survivors'
BY DEF Next, vars, closeVars, trigger_analytics_start, trigger_analytics_stop, Resume,
       LingerCancelled, RecordGone, SnapshotsFetched, StopWritten, CallerCancelled, LingerTask,
       LingerElapsed, StartWritten, StartCancelled, ConnectionLost, Core, RecvClosed,
       ForcedReconnect, BeginClose, stop_all_motion_events, Closed, ProgramEnds, Connected

\* What holds until a loop survives.
UntilSurvivor == survivors = {} => LoopInv /\ PollInv

LEMMA UntilSurvivorInvariant ==
    ASSUME PollLoops
    PROVE  Spec => [](IInv /\ CloseInv /\ UntilSurvivor)
<1>1. Init => CloseInv /\ UntilSurvivor
  BY CloseInvInit, PollInvInit DEF UntilSurvivor
<1>2. IInv /\ CloseInv /\ [Next]_vars => CloseInv'
  BY CloseInvStep DEF IInv, PollLoops
<1>3. IInv /\ CloseInv /\ UntilSurvivor /\ [Next]_vars => UntilSurvivor'
  <2> SUFFICES ASSUME IInv, CloseInv, UntilSurvivor, [Next]_vars, survivors' = {}
               PROVE  LoopInv' /\ PollInv'
    BY DEF UntilSurvivor
  <2>1. survivors = {}
    BY SurvivorsStay
  <2> QED
    BY <2>1, PollStep DEF UntilSurvivor, OneLoopInv
<1> QED
  BY <1>1, <1>2, <1>3, Invariance, PTL DEF Spec

\* What poll loops make the camera tell Protect refines MotionFeed: one event at
\* a time, started once, stopped at most once, nothing stopped that is not in
\* progress, whatever the linger timers, the fetches and the connection do, as
\* long as every loop ends with its connection.
THEOREM FeedRefinement ==
    ASSUME PollLoops
    PROVE  Spec => FeedSpec
<1>1. Init => Feed!Init
  BY DEF Init, Feed!Init
<1>2. IInv /\ CloseInv /\ UntilSurvivor /\ [Next]_vars
        => [survivors' = {} => Feed!Next]_(Feed!vars)
  <2> SUFFICES ASSUME IInv, CloseInv, UntilSurvivor, [Next]_vars, survivors' = {}
               PROVE  [Feed!Next]_(Feed!vars)
    OBVIOUS
  <2>1. survivors = {}
    BY SurvivorsStay
  <2> QED
    BY <2>1, PollStep DEF UntilSurvivor, OneLoopInv
<1> QED
  BY <1>1, <1>2, UntilSurvivorInvariant, PTL DEF Spec, FeedSpec

\* A stop that was suspended while the events moved on, the loop's or the one of
\* close(), clears no newer event's id, as long as every loop ends with its
\* connection.
THEOREM LateStopTheorem ==
    ASSUME PollLoops
    PROVE  Spec => LateStopSpares
<1> DEFINE Spares == survivors' = {} =>
         \A c \in Coroutines :
             /\ call[c].pc \in {"cancelling", "fetching", "sending"}
             /\ call'[c] # call[c]
             /\ active' # active
             => active = call[c].ev
<1>1. IInv /\ CloseInv /\ UntilSurvivor /\ [Next]_vars => [Spares]_vars
  <2> SUFFICES ASSUME IInv, CloseInv, UntilSurvivor, Next, survivors' = {},
                      NEW c \in Coroutines, call[c].pc \in {"cancelling", "fetching", "sending"},
                      call'[c] # call[c], active' # active
               PROVE  active = call[c].ev
    BY DEF Spares
  <2>1. PollInv
    BY SurvivorsStay DEF UntilSurvivor
  <2>2. active \in {None, call[c].ev}
    BY <2>1 DEF PollInv, StopsInv
  <2>3. ASSUME active = None
        PROVE  FALSE
    <3>1. PICK d \in Callers : trigger_analytics_start(d)
      BY <2>3 DEF Next, trigger_analytics_stop, StopEvent, EndEvent, Resume,
             LingerCancelled, RecordGone, SnapshotsFetched, StopWritten, CallerCancelled,
             LingerTask, LingerElapsed, StartWritten, StartCancelled, ConnectionLost, Core,
             RecvClosed, ForcedReconnect, BeginClose, stop_all_motion_events, Closed,
             ProgramEnds, Connected, camVars
    <3> QED
      BY <3>1 DEF trigger_analytics_start
  <2> QED
    BY <2>2, <2>3
<1> QED
  BY <1>1, UntilSurvivorInvariant, PTL DEF Spec, LateStopSpares

=============================================================================
