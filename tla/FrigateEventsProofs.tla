------------------------ MODULE FrigateEventsProofs ------------------------
(***************************************************************************)
(* What TLAPS proves of FrigateEvents, for any objects and any number of   *)
(* messages: the types, that objects never share an event and (while no    *)
(* connection is lost) that a mapped event is live, with or without        *)
(* timeouts and in any order of messages; that a deferred "OFF" is made up *)
(* for, when nothing times out and no connection is lost; and, when        *)
(* Frigate also publishes an object's messages in order, that what Protect *)
(* sees follows the objects Frigate tracks.                                *)
(***************************************************************************)
EXTENDS FrigateEvents, TLAPS, WellFoundedInduction

-----------------------------------------------------------------------------
(***************************************************************************)
(* Shapes.                                                                 *)
(***************************************************************************)

LEMMA EventIds == None \notin Events /\ \A u \in Events : u \in Nat
BY BoundsAssumption DEF Events

LEMMA DoneShape == Done \in Tasks /\ Done.pc = "done"
BY DEF Done, Tasks, OtherTasks

LEMMA AsleepShape == Asleep \in [pc : {"asleep", "leaving", "left"}, todo : SUBSET Expired]
BY DEF Asleep

\* The moves of a detection handler between its awaits.
LEMMA HandlerMoves ==
    ASSUME handler \in [Messages -> Tasks], NEW m \in Messages,
           handler[m].pc \notin {"done", "stopping"},
           NEW pc \in Pcs \ {"done"}, NEW u \in Events \cup {None}
    PROVE  /\ [handler EXCEPT ![m].pc = pc] \in [Messages -> Tasks]
           /\ [handler EXCEPT ![m].pc = pc, ![m].ev = u] \in [Messages -> Tasks]
<1>1. handler[m] \in DetectionTasks
  BY DEF Tasks, OtherTasks
<1>2. /\ [handler[m] EXCEPT !.pc = pc] \in Tasks
      /\ [handler[m] EXCEPT !.pc = pc, !.ev = u] \in Tasks
  BY <1>1 DEF Tasks, DetectionTasks, OtherTasks
<1> QED
  BY <1>2

LEMMA FinishType ==
    ASSUME handler \in [Messages -> Tasks], NEW m, Finish(m)
    PROVE  handler' \in [Messages -> Tasks]
BY DoneShape DEF Finish

\* A detection handler works on an object.
LEMMA HandlerObject ==
    ASSUME TypeOK, NEW m \in Messages, handler[m].pc \notin {"done", "stopping"}
    PROVE  /\ handler[m].obj \in Objects
           /\ map[handler[m].obj] \in Events \cup {None}
           /\ handler[m].ev \in Events \cup {None}
<1>1. handler[m] \in DetectionTasks
  BY DEF TypeOK, Tasks, OtherTasks
<1> QED
  BY <1>1 DEF TypeOK, DetectionTasks

LEMMA SendType ==
    ASSUME edge \in [Events -> {"none", "enter", "moving", "leave"}],
           leaves \in [Events -> Nat],
           NEW u, NEW e \in {"enter", "moving", "leave"}, Send(u, e)
    PROVE  /\ edge' \in [Events -> {"none", "enter", "moving", "leave"}]
           /\ leaves' \in [Events -> Nat]
<1>1. edge' \in [Events -> {"none", "enter", "moving", "leave"}]
  BY DEF Send
<1>2. CASE u \in Events
  <2>1. leaves[u] + 1 \in Nat
    BY <1>2
  <2> QED
    BY <1>1, <2>1 DEF Send
<1>3. CASE u \notin Events
  BY <1>1, <1>3 DEF Send
<1> QED
  BY <1>2, <1>3

LEMMA LockDroppedType ==
    ASSUME gen \in [Objects -> Nat], NEW m
    PROVE  LockDropped(m) \in [Objects -> Nat]
<1>1. CASE handler[m].obj \in Objects
  <2>1. gen[handler[m].obj] + 1 \in Nat
    BY <1>1
  <2> QED
    BY <2>1 DEF LockDropped
<1>2. CASE handler[m].obj \notin Objects
  BY <1>2 DEF LockDropped
<1> QED
  BY <1>1, <1>2

LEMMA StartType ==
    ASSUME TypeOK, NEW m \in Messages, SmartDetectStart(m),
           handler[m].pc \notin {"done", "stopping"}
    PROVE  /\ handler' \in [Messages -> Tasks]
           /\ nextEvent' \in 1 .. MaxEvents + 1
           /\ edge' \in [Events -> {"none", "enter", "moving", "leave"}]
           /\ leaves' \in [Events -> Nat]
<1>1. nextEvent \in Events /\ nextEvent' \in 1 .. MaxEvents + 1
  BY BoundsAssumption DEF TypeOK, SmartDetectStart, Events
<1>2. Send(nextEvent, "enter")
  BY DEF SmartDetectStart
<1>3. handler' \in [Messages -> Tasks]
  BY <1>1, HandlerMoves DEF TypeOK, SmartDetectStart, Pcs
<1> QED
  BY <1>1, <1>2, <1>3, SendType DEF TypeOK

LEMMA UnmappingType ==
    ASSUME map \in [Objects -> Events \cup {None}], NEW x
    PROVE  Unmapping(x) \in [Objects -> Events \cup {None}]
BY DEF Unmapping

-----------------------------------------------------------------------------

LEMMA TypeInit == Init => TypeOK
<1> SUFFICES ASSUME Init PROVE TypeOK
  OBVIOUS
<1>1. handler \in [Messages -> Tasks]
  BY DoneShape DEF Init
<1>2. monitor \in [pc : {"asleep", "leaving", "left"}, todo : SUBSET Expired]
  BY AsleepShape DEF Init
<1>3. arrived \in 0 .. MaxMessages /\ drops \in 0 .. MaxDrops /\ nextEvent \in 1 .. MaxEvents + 1
  BY BoundsAssumption DEF Init
<1> QED
  BY <1>1, <1>2, <1>3 DEF Init, TypeOK

\* One step of a handler.
LEMMA HandlerType ==
    ASSUME TypeOK, NEW m \in Messages, HandleMessage(m)
    PROVE  TypeOK'
<1>1. CASE HandleNew(m)
  <2>1. handler[m].pc = "waiting"
    BY <1>1 DEF HandleNew, HasLock
  <2>2. CASE SmartDetectStart(m)
    BY <1>1, <2>1, <2>2, StartType DEF HandleNew, TypeOK, brokerVars
  <2>3. CASE ~SmartDetectStart(m)
    <3>1. handler' \in [Messages -> Tasks]
      <4>1. map[handler[m].obj] \in Events \cup {None}
        BY <2>1, HandlerObject
      <4>2. handler' = [handler EXCEPT ![m].pc = "replacing", ![m].ev = map[handler[m].obj]]
        BY <1>1, <2>3 DEF HandleNew
      <4>3. handler \in [Messages -> Tasks] /\ "replacing" \in Pcs \ {"done"}
        BY DEF TypeOK, Pcs
      <4> QED
        BY <2>1, <4>1, <4>2, <4>3, HandlerMoves
    <3>2. /\ edge' \in [Events -> {"none", "enter", "moving", "leave"}]
          /\ leaves' \in [Events -> Nat]
      BY <1>1, <2>3, SendType DEF HandleNew, TypeOK
    <3> QED
      BY <1>1, <2>3, <3>1, <3>2 DEF HandleNew, TypeOK, brokerVars
  <2> QED
    BY <2>2, <2>3
<1>2. CASE Replaced(m)
  <2>1. handler' \in [Messages -> Tasks]
    BY <1>2, HandlerMoves DEF Replaced, Goto, TypeOK, Pcs
  <2> QED
    BY <1>2, <2>1 DEF Replaced, TypeOK, brokerVars, wireVars
<1>3. CASE StartAfterReplaced(m)
  <2>1. CASE SmartDetectStart(m)
    BY <1>3, <2>1, StartType DEF StartAfterReplaced, TypeOK, brokerVars
  <2>2. CASE ~SmartDetectStart(m)
    BY <1>3, <2>2, FinishType DEF StartAfterReplaced, TypeOK, brokerVars, wireVars
  <2> QED
    BY <2>1, <2>2
<1>4. CASE Registered(m)
  <2>1. handler' \in [Messages -> Tasks]
    BY <1>4, HandlerMoves DEF Registered, Goto, TypeOK, Pcs
  <2>2. event' \in [Events -> {"absent", "live", "ended", "gone"}]
    BY <1>4 DEF Registered, TypeOK
  <2> QED
    BY <1>4, <2>1, <2>2 DEF Registered, TypeOK, brokerVars, wireVars
<1>5. CASE Mapped(m)
  <2>1. map' \in [Objects -> Events \cup {None}]
    BY <1>5, HandlerObject DEF Mapped, TypeOK
  <2> QED
    BY <1>5, <2>1, FinishType DEF Mapped, TypeOK, brokerVars, wireVars
<1>6. CASE HandleUpdate(m)
  <2>1. handler[m].pc = "waiting"
    BY <1>6 DEF HandleUpdate, HasLock
  <2>2. CASE SmartDetectStart(m)
    BY <1>6, <2>1, <2>2, StartType DEF HandleUpdate, TypeOK, brokerVars
  <2>3. CASE Finish(m)
    BY <1>6, <2>2, <2>3, FinishType, StartType, SendType, <2>1 DEF HandleUpdate, TypeOK, brokerVars, wireVars
  <2>4. CASE ~SmartDetectStart(m) /\ ~Finish(m)
    <3>1. handler' \in [Messages -> Tasks]
      <4>1. map[handler[m].obj] \in Events \cup {None}
        BY <2>1, HandlerObject
      <4>2. handler' = [handler EXCEPT ![m].pc = "moving", ![m].ev = map[handler[m].obj]]
        BY <1>6, <2>4 DEF HandleUpdate
      <4>3. handler \in [Messages -> Tasks] /\ "moving" \in Pcs \ {"done"}
        BY DEF TypeOK, Pcs
      <4> QED
        BY <2>1, <4>1, <4>2, <4>3, HandlerMoves
    <3>2. /\ edge' \in [Events -> {"none", "enter", "moving", "leave"}]
          /\ leaves' \in [Events -> Nat]
      BY <1>6, <2>4, SendType DEF HandleUpdate, TypeOK
    <3> QED
      BY <1>6, <2>4, <3>1, <3>2 DEF HandleUpdate, TypeOK, brokerVars
  <2> QED
    BY <2>2, <2>3, <2>4
<1>7. CASE Moved(m)
  <2>1. handler' \in [Messages -> Tasks]
    <3>1. CASE Finish(m)
      BY <3>1, FinishType DEF TypeOK
    <3>2. CASE Goto(m, "fetching")
      BY <1>7, <3>2, HandlerMoves DEF Moved, Goto, TypeOK, Pcs
    <3> QED
      BY <1>7, <3>1, <3>2 DEF Moved
  <2> QED
    BY <1>7, <2>1 DEF Moved, TypeOK, brokerVars, wireVars
<1>8. CASE SnapshotsFetched(m)
  BY <1>8, FinishType DEF SnapshotsFetched, TypeOK, brokerVars, wireVars
<1>9. CASE EndUnknown(m)
  <2>1. map' \in [Objects -> Events \cup {None}]
    BY <1>9 DEF EndUnknown, TypeOK
  <2> QED
    BY <1>9, <2>1, FinishType, LockDroppedType DEF EndUnknown, TypeOK, brokerVars, wireVars
<1>10. CASE HandleEnd(m)
  <2>1. handler' \in [Messages -> Tasks]
    <3>1. handler[m].pc = "waiting"
      BY <1>10 DEF HandleEnd, HasLock
    <3>2. map[handler[m].obj] \in Events \cup {None}
      BY <3>1, HandlerObject
    <3>3. handler' = [handler EXCEPT ![m].pc = "final", ![m].ev = map[handler[m].obj]]
      BY <1>10 DEF HandleEnd
    <3>4. handler \in [Messages -> Tasks] /\ "final" \in Pcs \ {"done"}
      BY DEF TypeOK, Pcs
    <3> QED
      BY <3>1, <3>2, <3>3, <3>4, HandlerMoves
  <2> QED
    BY <1>10, <2>1, SendType DEF HandleEnd, TypeOK, brokerVars
<1>11. CASE Leave(m)
  <2>1. handler' \in [Messages -> Tasks]
    BY <1>11, HandlerMoves DEF Leave, Goto, TypeOK, Pcs
  <2> QED
    BY <1>11, <2>1, SendType DEF Leave, TypeOK, brokerVars
<1>12. CASE Left(m)
  <2>1. handler' \in [Messages -> Tasks]
    BY <1>12, HandlerMoves DEF Left, Goto, TypeOK, Pcs
  <2> QED
    BY <1>12, <2>1 DEF Left, TypeOK, brokerVars, wireVars
<1>13. CASE Unmapped(m)
  <2>1. handler' \in [Messages -> Tasks]
    <3>1. /\ analytics \in Events \cup {None}
          /\ handler \in [Messages -> Tasks]
          /\ "stopping" \in Pcs \ {"done"}
      BY DEF TypeOK, Pcs
    <3>2. handler[m].pc = "left"
      BY <1>13 DEF Unmapped
    <3>3. CASE Finish(m)
      BY <3>1, <3>3, FinishType
    <3>4. CASE handler' = [handler EXCEPT ![m].pc = "stopping", ![m].ev = analytics]
      BY <3>1, <3>2, <3>4, HandlerMoves
    <3> QED
      BY <1>13, <3>3, <3>4 DEF Unmapped
  <2>2. gen' \in [Objects -> Nat]
    BY <1>13, LockDroppedType DEF Unmapped, TypeOK
  <2>3. map' \in [Objects -> Events \cup {None}]
    BY <1>13 DEF Unmapped, TypeOK
  <2> QED
    BY <1>13, <2>1, <2>2, <2>3 DEF Unmapped, TypeOK, brokerVars, wireVars
<1>14. CASE AnalyticsStopped(m)
  <2>1. gen' \in [Objects -> Nat]
    BY <1>14, LockDroppedType DEF AnalyticsStopped, TypeOK
  <2>2. analytics' \in Events \cup {None}
    BY <1>14 DEF AnalyticsStopped, TypeOK
  <2> QED
    BY <1>14, <2>1, <2>2, FinishType DEF AnalyticsStopped, TypeOK, brokerVars, wireVars
<1> QED
  BY <1>1, <1>2, <1>3, <1>4, <1>5, <1>6, <1>7, <1>8, <1>9, <1>10, <1>11,
     <1>12, <1>13, <1>14 DEF HandleMessage

\* The rest of a list of expired events is one too.
LEMMA ForceEndType ==
    ASSUME TypeOK, NEW todo \in SUBSET Expired, ForceEnd(todo)
    PROVE  /\ monitor' \in [pc : {"asleep", "leaving", "left"}, todo : SUBSET Expired]
           /\ edge' \in [Events -> {"none", "enter", "moving", "leave"}]
           /\ leaves' \in [Events -> Nat]
<1>1. CASE todo = {}
  BY <1>1, AsleepShape DEF ForceEnd, TypeOK, wireVars
<1>2. CASE todo # {}
  <2>1. Send(First(todo).ev, "leave") /\ monitor' = [pc |-> "leaving", todo |-> todo]
    BY <1>2 DEF ForceEnd
  <2> QED
    BY <2>1, SendType DEF TypeOK
<1> QED
  BY <1>1, <1>2

LEMMA MonitorType ==
    ASSUME TypeOK, Monitor
    PROVE  TypeOK'
<1>1. CASE MonitorTick
  <2>1. MarkExpired \in SUBSET Expired
    BY DEF MarkExpired
  <2> QED
    BY <1>1, <2>1, ForceEndType DEF MonitorTick, TypeOK, brokerVars
<1>2. CASE TimedOut
  BY <1>2 DEF TimedOut, TypeOK, brokerVars, wireVars
<1>3. CASE TimeoutUnmapped
  <2>1. monitor.todo \ {First(monitor.todo)} \in SUBSET Expired
    BY DEF TypeOK
  <2>2. map' \in [Objects -> Events \cup {None}]
    BY <1>3, UnmappingType DEF TimeoutUnmapped, TypeOK
  <2> QED
    BY <1>3, <2>1, <2>2, ForceEndType DEF TimeoutUnmapped, TypeOK, brokerVars
<1> QED
  BY <1>1, <1>2, <1>3 DEF Monitor

LEMMA CancelledType ==
    ASSUME TypeOK, BrokerLost \/ ProtectLost \/ ProtectReboots
    PROVE  TypeOK'
<1>1. TasksCancelled
  BY DEF BrokerLost, ProtectLost, ProtectReboots, Closed
<1>2. /\ map' \in [Objects -> Events \cup {None}]
      /\ drops' \in 0 .. MaxDrops
      /\ handler' \in [Messages -> Tasks]
      /\ monitor' = Asleep
      /\ link' = "down"
      /\ UNCHANGED <<frigate, motionOn, arrived, gen, stale, nextEvent>>
  BY <1>1, UnmappingType, DoneShape, BoundsAssumption DEF TasksCancelled, TypeOK
<1>3. /\ event' \in [Events -> {"absent", "live", "ended", "gone"}]
      /\ analytics' \in Events \cup {None}
      /\ edge' \in [Events -> {"none", "enter", "moving", "leave"}]
  BY DEF BrokerLost, ProtectLost, ProtectReboots, Closed, wireVars, TypeOK
<1>4. leaves' \in [Events -> Nat]
  BY DEF BrokerLost, ProtectLost, ProtectReboots, Closed, wireVars, TypeOK
<1> QED
  BY <1>2, <1>3, <1>4, AsleepShape DEF TypeOK

LEMMA TypeStep ==
    ASSUME TypeOK, [Next]_vars
    PROVE  TypeOK'
<1>1. ASSUME NEW f \in Objects, NEW kind \in Kinds, DetectionMessage(f, kind)
      PROVE  TypeOK'
  <2>1. [pc |-> "waiting", kind |-> kind, obj |-> f, gen |-> gen[f], ev |-> None] \in Tasks
    BY DEF TypeOK, Tasks, DetectionTasks, Pcs
  <2>2. handler' \in [Messages -> Tasks]
    BY <1>1, <2>1 DEF DetectionMessage, TypeOK
  <2>3. arrived' \in 0 .. MaxMessages
    BY <1>1, BoundsAssumption DEF DetectionMessage, TypeOK
  <2>4. frigate' \in [Objects -> {"unseen", "live", "over"}]
    BY <1>1 DEF DetectionMessage, Published, TypeOK
  <2> QED
    BY <1>1, <2>2, <2>3, <2>4 DEF DetectionMessage, TypeOK, wireVars
<1>2. ASSUME NEW f \in Objects, NEW kind \in Kinds, MissedMessage(f, kind)
      PROVE  TypeOK'
  BY <1>2 DEF MissedMessage, Published, TypeOK, wireVars
<1>3. CASE MotionOn
  <2>1. analytics' \in Events \cup {None} /\ nextEvent' \in 1 .. MaxEvents + 1
    BY <1>3, BoundsAssumption DEF MotionOn, TypeOK, Events
  <2>2. arrived' \in 0 .. MaxMessages
    BY <1>3, BoundsAssumption DEF MotionOn, TypeOK
  <2> QED
    BY <1>3, <2>1, <2>2 DEF MotionOn, TypeOK, wireVars
<1>4. CASE MotionOff
  <2>1. [Done EXCEPT !.pc = "stopping", !.ev = analytics] \in Tasks
    BY DEF Done, Tasks, OtherTasks, TypeOK
  <2>2. handler' \in [Messages -> Tasks]
    BY <1>4, <2>1 DEF MotionOff, TypeOK
  <2>3. arrived' \in 0 .. MaxMessages
    BY <1>4, BoundsAssumption DEF MotionOff, TypeOK
  <2> QED
    BY <1>4, <2>2, <2>3 DEF MotionOff, TypeOK, wireVars
<1>5. ASSUME NEW m \in Messages, HandleMessage(m)
      PROVE  TypeOK'
  BY <1>5, HandlerType
<1>6. ASSUME NEW u \in Events, Silence(u)
      PROVE  TypeOK'
  BY <1>6 DEF Silence, TypeOK, brokerVars, wireVars
<1>7. CASE Monitor
  BY <1>7, MonitorType
<1>8. CASE BrokerLost \/ ProtectLost \/ ProtectReboots
  BY <1>8, CancelledType
<1>9. CASE Linked
  BY <1>9 DEF Linked, TypeOK, wireVars
<1>10. CASE UNCHANGED vars
  BY <1>10 DEF vars, brokerVars, wireVars, TypeOK
<1> QED
  BY <1>1, <1>2, <1>3, <1>4, <1>5, <1>6, <1>7, <1>8, <1>9, <1>10 DEF Next

\* Every reachable state is of the declared types: no record, id or queue of
\* tasks takes a form the handlers do not expect, whatever the bounds are.
THEOREM TypeCorrect == Spec => []TypeOK
<1>1. Init => TypeOK
  BY TypeInit
<1>2. TypeOK /\ [Next]_vars => TypeOK'
  BY TypeStep
<1> QED
  BY <1>1, <1>2, PTL DEF Spec

-----------------------------------------------------------------------------
(***************************************************************************)
(* Event ids.                                                              *)
(***************************************************************************)

\* The handlers that start an event go on with the id they have, or stop.
NoNewStart == \A m \in Messages : Starting(m)' => Starting(m) /\ handler'[m].ev = handler[m].ev

\* Mappings are at most deleted.
MapShrinks == \A f \in Objects : map'[f] \in {map[f], None}

\* A step that starts no event and maps none keeps the ids apart.
LEMMA HoldersKept ==
    ASSUME IdsHaveOneHolder, TypeOK, TypeOK', NoNewStart, MapShrinks,
           nextEvent' >= nextEvent
    PROVE  IdsHaveOneHolder'
<1>1. nextEvent \in Nat /\ nextEvent' \in Nat /\ \A u \in Events : u \in Nat /\ u # None
  BY EventIds, BoundsAssumption DEF TypeOK
<1>2. \A f \in Objects : map'[f] # None => map'[f] = map[f] /\ map[f] \in Events
  BY DEF MapShrinks, TypeOK
<1>3. \A f \in Objects : map'[f] # None => map'[f] < nextEvent'
  BY <1>1, <1>2 DEF IdsHaveOneHolder
<1>4. \A m \in Messages : Starting(m)' => handler'[m].ev \in Events /\ handler'[m].ev < nextEvent'
  BY <1>1 DEF IdsHaveOneHolder, NoNewStart
<1>5. \A m \in Messages, f \in Objects : Starting(m)' => map'[f] # handler'[m].ev
  BY <1>1, <1>2 DEF IdsHaveOneHolder, NoNewStart
<1>6. \A m, k \in Messages :
        m # k /\ Starting(m)' /\ Starting(k)' => handler'[m].ev # handler'[k].ev
  BY DEF IdsHaveOneHolder, NoNewStart
<1>7. OwnEvents'
  BY <1>2 DEF IdsHaveOneHolder, OwnEvents
<1> QED
  BY <1>3, <1>4, <1>5, <1>6, <1>7 DEF IdsHaveOneHolder

\* The id a new event gets is nobody's.
LEMMA HolderAdded ==
    ASSUME IdsHaveOneHolder, TypeOK, TypeOK', MapShrinks,
           NEW n \in Messages, SmartDetectStart(n)
    PROVE  IdsHaveOneHolder'
<1>1. /\ nextEvent \in Events /\ nextEvent \in Nat /\ nextEvent' = nextEvent + 1
      /\ \A u \in Events : u \in Nat /\ u # None
  BY EventIds, BoundsAssumption DEF TypeOK, SmartDetectStart, Events
<1>2. \A f \in Objects : map'[f] # None =>
        map'[f] = map[f] /\ map[f] \in Nat /\ map[f] < nextEvent
  BY <1>1 DEF MapShrinks, TypeOK, IdsHaveOneHolder
<1>3. /\ handler'[n].ev = nextEvent
      /\ \A m \in Messages : m # n => handler'[m] = handler[m]
  BY DEF SmartDetectStart, TypeOK, Tasks, DetectionTasks, OtherTasks
<1>4. \A m \in Messages : m # n /\ Starting(m)' =>
        /\ Starting(m)
        /\ handler'[m].ev = handler[m].ev
        /\ handler[m].ev \in Events
        /\ handler[m].ev \in Nat
        /\ handler[m].ev < nextEvent
  BY <1>1, <1>3 DEF Starting, IdsHaveOneHolder
<1>5. \A f \in Objects : map'[f] # None => map'[f] < nextEvent'
  BY <1>1, <1>2
<1>6. \A m \in Messages : Starting(m)' => handler'[m].ev \in Events /\ handler'[m].ev < nextEvent'
  BY <1>1, <1>3, <1>4
<1>7. \A m \in Messages, f \in Objects : Starting(m)' => map'[f] # handler'[m].ev
  BY <1>1, <1>2, <1>3, <1>4 DEF IdsHaveOneHolder
<1>8. \A m, k \in Messages :
        m # k /\ Starting(m)' /\ Starting(k)' => handler'[m].ev # handler'[k].ev
  BY <1>1, <1>3, <1>4 DEF IdsHaveOneHolder
<1>9. OwnEvents'
  BY <1>2 DEF IdsHaveOneHolder, OwnEvents
<1> QED
  BY <1>5, <1>6, <1>7, <1>8, <1>9 DEF IdsHaveOneHolder

\* The handler hands its id over to the map.
LEMMA HolderMapped ==
    ASSUME IdsHaveOneHolder, TypeOK, TypeOK', NEW n \in Messages, Mapped(n)
    PROVE  IdsHaveOneHolder'
<1> DEFINE o == handler[n].obj
           u == handler[n].ev
<1>1. /\ Starting(n) /\ u \in Events /\ u # None /\ u < nextEvent
      /\ o \in Objects
      /\ nextEvent' = nextEvent
  BY EventIds, HandlerObject DEF Mapped, Starting, IdsHaveOneHolder
<1>2. /\ map'[o] = u
      /\ \A f \in Objects : f # o => map'[f] = map[f]
  BY <1>1 DEF Mapped, TypeOK
<1>3. \A m \in Messages : Starting(m)' =>
        m # n /\ Starting(m) /\ handler'[m].ev = handler[m].ev
  BY DoneShape DEF Mapped, Finish, Starting, TypeOK
<1>4. \A f \in Objects : map'[f] # None => map'[f] < nextEvent'
  BY <1>1, <1>2 DEF IdsHaveOneHolder
<1>5. \A m \in Messages : Starting(m)' => handler'[m].ev \in Events /\ handler'[m].ev < nextEvent'
  BY <1>1, <1>3 DEF IdsHaveOneHolder
<1>6. \A m \in Messages, f \in Objects : Starting(m)' => map'[f] # handler'[m].ev
  BY <1>1, <1>2, <1>3 DEF IdsHaveOneHolder
<1>7. \A m, k \in Messages :
        m # k /\ Starting(m)' /\ Starting(k)' => handler'[m].ev # handler'[k].ev
  BY <1>3 DEF IdsHaveOneHolder
<1>8. OwnEvents'
  BY <1>1, <1>2 DEF IdsHaveOneHolder, OwnEvents
<1> QED
  BY <1>4, <1>5, <1>6, <1>7, <1>8 DEF IdsHaveOneHolder

LEMMA HoldersInit == Init => IdsHaveOneHolder
BY DoneShape DEF Init, IdsHaveOneHolder, Starting, OwnEvents

\* How the steps of a handler touch it and the map.
LEMMA GotoKeepsIds ==
    ASSUME TypeOK, NEW m \in Messages, NEW pc, Goto(m, pc),
           pc \in {"entering", "registered"} => Starting(m)
    PROVE  NoNewStart
<1>1. \A k \in Messages : handler'[k].ev = handler[k].ev /\ (k # m => handler'[k].pc = handler[k].pc)
  BY DEF Goto, TypeOK, Tasks, DetectionTasks, OtherTasks
<1>2. handler'[m].pc = pc
  BY DEF Goto, TypeOK, Tasks, DetectionTasks, OtherTasks
<1> QED
  BY <1>1, <1>2 DEF NoNewStart, Starting

LEMMA FinishKeepsIds ==
    ASSUME TypeOK, NEW m \in Messages, Finish(m)
    PROVE  NoNewStart
BY DoneShape DEF Finish, NoNewStart, Starting, TypeOK

LEMMA WorkKeepsIds ==
    ASSUME TypeOK, NEW m \in Messages, NEW u,
           NEW pc \in {"replacing", "moving", "final", "stopping"},
           handler' = [handler EXCEPT ![m].pc = pc, ![m].ev = u]
    PROVE  NoNewStart
<1>1. \A k \in Messages : k # m => handler'[k] = handler[k]
  BY DEF TypeOK
<1>2. handler'[m].pc = pc
  BY DEF TypeOK, Tasks, DetectionTasks, OtherTasks
<1> QED
  BY <1>1, <1>2 DEF NoNewStart, Starting

\* A step of a handler either starts an event, maps one, or does neither.
LEMMA HandlerIds ==
    ASSUME TypeOK, NEW m \in Messages, HandleMessage(m)
    PROVE  \/ Mapped(m)
           \/ MapShrinks /\ SmartDetectStart(m)
           \/ MapShrinks /\ NoNewStart /\ nextEvent' = nextEvent
<1>1. ASSUME UNCHANGED map PROVE MapShrinks
  BY <1>1 DEF MapShrinks
<1>2. ASSUME NEW f, map' = [map EXCEPT ![f] = None] PROVE MapShrinks
  BY <1>2 DEF MapShrinks, TypeOK
<1>3. CASE HandleNew(m)
  BY <1>1, <1>2, <1>3, WorkKeepsIds DEF HandleNew
<1>4. CASE Replaced(m)
  BY <1>1, <1>4, GotoKeepsIds DEF Replaced
<1>5. CASE StartAfterReplaced(m)
  BY <1>1, <1>2, <1>5, FinishKeepsIds DEF StartAfterReplaced
<1>6. CASE Registered(m)
  BY <1>1, <1>6, GotoKeepsIds DEF Registered, Starting
<1>7. CASE HandleUpdate(m)
  BY <1>1, <1>7, FinishKeepsIds, WorkKeepsIds DEF HandleUpdate
<1>8. CASE Moved(m)
  BY <1>1, <1>8, FinishKeepsIds, GotoKeepsIds DEF Moved
<1>9. CASE SnapshotsFetched(m)
  BY <1>1, <1>9, FinishKeepsIds DEF SnapshotsFetched
<1>10. CASE EndUnknown(m)
  BY <1>2, <1>10, FinishKeepsIds DEF EndUnknown
<1>11. CASE HandleEnd(m)
  <2>1. handler' = [handler EXCEPT ![m].pc = "final", ![m].ev = map[handler[m].obj]]
    BY <1>11 DEF HandleEnd
  <2>2. NoNewStart
    BY <2>1, WorkKeepsIds
  <2> QED
    BY <1>1, <1>11, <2>2 DEF HandleEnd
<1>12. CASE Leave(m)
  BY <1>1, <1>12, GotoKeepsIds DEF Leave
<1>13. CASE Left(m)
  BY <1>1, <1>13, GotoKeepsIds DEF Left
<1>14. CASE Unmapped(m)
  <2>1. MapShrinks /\ nextEvent' = nextEvent
    BY <1>2, <1>14 DEF Unmapped
  <2>2. CASE Finish(m)
    BY <2>1, <2>2, FinishKeepsIds
  <2>3. CASE handler' = [handler EXCEPT ![m].pc = "stopping", ![m].ev = analytics]
    <3>1. NoNewStart
      BY <2>3, WorkKeepsIds
    <3> QED
      BY <2>1, <3>1
  <2> QED
    BY <1>14, <2>2, <2>3 DEF Unmapped
<1>15. CASE AnalyticsStopped(m)
  BY <1>1, <1>15, FinishKeepsIds DEF AnalyticsStopped
<1> QED
  BY <1>3, <1>4, <1>5, <1>6, <1>7, <1>8, <1>9, <1>10, <1>11, <1>12, <1>13,
     <1>14, <1>15 DEF HandleMessage

\* What a step does to the ids: a handler maps one, takes a new one, or all are
\* kept or forgotten.
IdStep ==
    \/ \E m \in Messages : Mapped(m)
    \/ \E m \in Messages : MapShrinks /\ SmartDetectStart(m)
    \/ MapShrinks /\ NoNewStart /\ nextEvent' >= nextEvent

LEMMA NextIds ==
    ASSUME TypeOK, [Next]_vars
    PROVE  IdStep
<1>0. nextEvent \in Nat
  BY BoundsAssumption DEF TypeOK
<1>1. ASSUME NEW f \in Objects, NEW kind \in Kinds, DetectionMessage(f, kind)
      PROVE  IdStep
  <2>1. NoNewStart
    BY <1>1 DEF DetectionMessage, NoNewStart, Starting, TypeOK
  <2> QED
    BY <1>0, <1>1, <2>1 DEF DetectionMessage, MapShrinks, IdStep
<1>2. ASSUME NEW m \in Messages, HandleMessage(m)
      PROVE  IdStep
  BY <1>0, <1>2, HandlerIds DEF IdStep
<1>3. CASE MotionOn
  <2>1. NoNewStart
    BY <1>3 DEF MotionOn, NoNewStart, Starting
  <2> QED
    BY <1>0, <1>3, <2>1 DEF MotionOn, MapShrinks, IdStep
<1>4. CASE MotionOff
  <2>1. NoNewStart
    <3>1. [Done EXCEPT !.pc = "stopping", !.ev = analytics].pc = "stopping"
      BY DEF Done
    <3>2. CASE UNCHANGED handler
      BY <3>2 DEF NoNewStart, Starting
    <3>3. CASE handler' = [handler EXCEPT ![arrived + 1] =
                             [Done EXCEPT !.pc = "stopping", !.ev = analytics]]
      BY <3>1, <3>3 DEF NoNewStart, Starting, TypeOK
    <3> QED
      BY <1>4, <3>2, <3>3 DEF MotionOff
  <2> QED
    BY <1>0, <1>4, <2>1 DEF MotionOff, MapShrinks, IdStep
<1>5. ASSUME UNCHANGED <<handler, nextEvent>>, MapShrinks PROVE IdStep
  BY <1>0, <1>5 DEF NoNewStart, Starting, IdStep
<1>6. CASE Monitor
  <2>1. UNCHANGED <<handler, nextEvent>>
    BY <1>6 DEF Monitor, MonitorTick, TimedOut, TimeoutUnmapped
  <2>2. MapShrinks
    BY <1>6 DEF Monitor, MonitorTick, TimedOut, TimeoutUnmapped, Unmapping, MapShrinks
  <2> QED
    BY <1>5, <2>1, <2>2
<1>7. CASE BrokerLost \/ ProtectLost \/ ProtectReboots
  <2>1. TasksCancelled
    BY <1>7 DEF BrokerLost, ProtectLost, ProtectReboots, Closed
  <2>2. MapShrinks
    BY <2>1 DEF TasksCancelled, Unmapping, MapShrinks
  <2>3. NoNewStart /\ nextEvent' = nextEvent
    BY <2>1, DoneShape DEF TasksCancelled, NoNewStart, Starting
  <2> QED
    BY <1>0, <2>2, <2>3 DEF IdStep
<1>8. ASSUME UNCHANGED <<handler, nextEvent, map>> PROVE IdStep
  BY <1>5, <1>8 DEF MapShrinks
<1>9. CASE Linked \/ UNCHANGED vars
  BY <1>8, <1>9 DEF Linked, vars
<1>10. ASSUME NEW f \in Objects, NEW kind \in Kinds, MissedMessage(f, kind)
      PROVE  IdStep
  BY <1>8, <1>10 DEF MissedMessage
<1>11. ASSUME NEW u \in Events, Silence(u)
      PROVE  IdStep
  BY <1>8, <1>11 DEF Silence
<1> QED
  BY <1>1, <1>2, <1>3, <1>4, <1>6, <1>7, <1>9, <1>10, <1>11 DEF Next

LEMMA HoldersStep ==
    ASSUME IdsHaveOneHolder, TypeOK, TypeOK', [Next]_vars
    PROVE  IdsHaveOneHolder'
BY NextIds, HolderMapped, HolderAdded, HoldersKept DEF IdStep

\* No two objects are ever mapped to the same UniFi event: their messages
\* never move or end each other's events, whatever interleaves with the awaits
\* between handing out an id and mapping it.
THEOREM OwnEventsTheorem == Spec => []OwnEvents
<1>1. Init => TypeOK /\ IdsHaveOneHolder
  BY TypeInit, HoldersInit
<1>2. TypeOK /\ IdsHaveOneHolder /\ [Next]_vars => (TypeOK /\ IdsHaveOneHolder)'
  BY TypeStep, HoldersStep
<1>3. IdsHaveOneHolder => OwnEvents
  BY DEF IdsHaveOneHolder
<1> QED
  BY <1>1, <1>2, <1>3, PTL DEF Spec

-----------------------------------------------------------------------------
(***************************************************************************)
(* Mapped events are live, while no connection is lost.                    *)
(***************************************************************************)

\* A handler that ends an event, and one that is about to delete its mapping.
Ending(m) == handler[m].pc \in {"replacing", "replaced", "final", "leaving", "left"}
Deleting(m) == handler[m].pc \in {"replaced", "left"}

\* u has been handed out and, as far as it is mapped, is f's.
Owned(u, f) ==
    /\ u \in Events /\ u < nextEvent
    /\ \A g \in Objects : map[g] = u => g = f
    /\ \A k \in Messages : Starting(k) => handler[k].ev # u

\* A task that has not come or is over leaves no traces.
SlotsFree == \A m \in Messages : m > arrived => handler[m] = Done

\* Only events that have been handed out are recorded or expire, the latter
\* once they are registered.
IdsInUse ==
    /\ \A u \in Events : event[u] # "absent" => u < nextEvent
    /\ \A u \in stale : u < nextEvent
    /\ \A m \in Messages : Starting(m) => handler[m].ev \notin stale

\* Whoever ends an event, handler or monitor, ends it for the object it is
\* mapped by, if any object still maps it.
EndsOwn ==
    /\ \A m \in Messages : Ending(m) => Owned(handler[m].ev, handler[m].obj)
    /\ \A x \in monitor.todo : Owned(x.ev, x.obj)

\* What the tasks have done to the events they hold.
Recorded ==
    /\ \A m \in Messages : handler[m].pc = "registered" => event[handler[m].ev] = "live"
    /\ \A m \in Messages : Deleting(m) => event[handler[m].ev] = "ended"

\* The monitor works on a list, or sleeps.
Listed ==
    /\ monitor.pc # "asleep" => monitor.todo # {}
    /\ monitor.pc = "asleep" => monitor = Asleep

\* The monitor is about to delete the mapping of f to u.
MonitorDeletes(f, u) ==
    monitor.pc = "left" /\ First(monitor.todo).obj = f /\ First(monitor.todo).ev = u

\* A mapped event is live unless somebody is about to delete its mapping.
LiveOrDeleted ==
    drops = 0 => \A f \in Objects : map[f] # None =>
      \/ event[map[f]] = "live"
      \/ \E m \in Messages : Deleting(m) /\ handler[m].obj = f /\ handler[m].ev = map[f]
      \/ MonitorDeletes(f, map[f])

LEMMA FirstIn ==
    ASSUME NEW todo \in SUBSET Expired, todo # {}
    PROVE  First(todo) \in todo
<1> DEFINE S == {x.ev : x \in todo}
           R == OpToRel(<, Nat)
<1>1. S # {} /\ S \subseteq Nat
  BY BoundsAssumption DEF Expired, Events
<1>2. \A y, z \in Nat : <<y, z>> \in R <=> y < z
  BY DEF OpToRel
<1>3. IsWellFoundedOn(R, Nat)
  BY NatLessThanWellFounded
<1>4. PICK u \in S : \A v \in S : u <= v
  <2> HIDE DEF R, S
  <2>1. PICK u \in S : \A v \in S : ~(<<v, u>> \in R)
    BY <1>1, <1>3, WFMin
  <2>2. ASSUME NEW v \in S PROVE u <= v
    <3>1. u \in Nat /\ v \in Nat /\ <<v, u>> \notin R
      BY <1>1, <2>1
    <3>2. ~(v < u)
      BY <1>2, <3>1
    <3> QED
      BY <3>1, <3>2
  <2> QED
    BY <2>2
<1>5. PICK x \in todo : x.ev = u
  OBVIOUS
<1>6. \A y \in todo : x.ev <= y.ev
  BY <1>4, <1>5
<1> QED
  BY <1>6 DEF First

LEMMA MappedOwned ==
    ASSUME TypeOK, IdsHaveOneHolder, NEW f \in Objects, map[f] # None
    PROVE  Owned(map[f], f)
BY DEF TypeOK, IdsHaveOneHolder, OwnEvents, Owned

\* No step gives an event that somebody ends to another object.
LEMMA OwnedKept ==
    ASSUME TypeOK, TypeOK', IdsHaveOneHolder, IdStep, NEW u, NEW f, Owned(u, f)
    PROVE  Owned(u, f)'
<1>0. u \in Nat /\ u # None /\ nextEvent \in Nat /\ nextEvent' \in Nat
  BY EventIds, BoundsAssumption DEF Owned, TypeOK
<1>1. ASSUME NEW m \in Messages, Mapped(m) PROVE Owned(u, f)'
  <2>1. Starting(m) /\ handler[m].ev # u /\ nextEvent' = nextEvent
    BY <1>1 DEF Mapped, Starting, Owned
  <2>2. \A g \in Objects : map'[g] = u => g = f
    BY <1>1, <2>1 DEF Mapped, Owned, TypeOK
  <2>3. \A k \in Messages : Starting(k)' => Starting(k) /\ handler'[k].ev = handler[k].ev
    BY <1>1, DoneShape DEF Mapped, Finish, Starting, TypeOK
  <2> QED
    BY <2>1, <2>2, <2>3 DEF Owned
<1>2. ASSUME NEW m \in Messages, MapShrinks, SmartDetectStart(m) PROVE Owned(u, f)'
  <2>1. nextEvent' = nextEvent + 1 /\ nextEvent # u
    BY <1>0, <1>2 DEF SmartDetectStart, Owned
  <2>2. \A g \in Objects : map'[g] = u => g = f
    BY <1>0, <1>2 DEF MapShrinks, Owned
  <2>3. \A k \in Messages : k # m => handler'[k] = handler[k]
    BY <1>2 DEF SmartDetectStart, TypeOK
  <2>4. handler'[m].ev = nextEvent
    BY <1>2 DEF SmartDetectStart, TypeOK, Tasks, DetectionTasks, OtherTasks
  <2>5. \A k \in Messages : Starting(k)' => handler'[k].ev # u
    BY <2>1, <2>3, <2>4 DEF Starting, Owned
  <2>6. u < nextEvent'
    BY <1>0, <2>1 DEF Owned
  <2> QED
    BY <2>2, <2>5, <2>6 DEF Owned
<1>3. ASSUME MapShrinks, NoNewStart, nextEvent' >= nextEvent PROVE Owned(u, f)'
  <2>1. u < nextEvent'
    BY <1>0, <1>3 DEF Owned
  <2>2. \A g \in Objects : map'[g] = u => g = f
    BY <1>0, <1>3 DEF MapShrinks, Owned
  <2>3. \A k \in Messages : Starting(k)' => handler'[k].ev # u
    BY <1>3 DEF NoNewStart, Owned
  <2> QED
    BY <2>1, <2>2, <2>3 DEF Owned
<1> QED
  BY <1>1, <1>2, <1>3 DEF IdStep

\* A handler that has an id has not been given it before.
LEMMA IdStepStarters ==
    ASSUME TypeOK, IdStep, NEW k \in Messages, Starting(k)'
    PROVE  \/ Starting(k) /\ handler'[k].ev = handler[k].ev
           \/ handler'[k].ev = nextEvent
<1>1. ASSUME NEW m \in Messages, Mapped(m)
      PROVE  Starting(k) /\ handler'[k].ev = handler[k].ev
  BY <1>1, DoneShape DEF Mapped, Finish, Starting, TypeOK
<1>2. ASSUME NEW m \in Messages, SmartDetectStart(m)
      PROVE  \/ Starting(k) /\ handler'[k].ev = handler[k].ev
             \/ handler'[k].ev = nextEvent
  <2>1. k # m => handler'[k] = handler[k]
    BY <1>2 DEF SmartDetectStart, TypeOK
  <2>2. handler'[m].ev = nextEvent
    BY <1>2 DEF SmartDetectStart, TypeOK, Tasks, DetectionTasks, OtherTasks
  <2> QED
    BY <2>1, <2>2 DEF Starting
<1> QED
  BY <1>1, <1>2 DEF IdStep, NoNewStart

\* The task goes on at pc with event u.
Becomes(m, pc, u) == handler' = [handler EXCEPT ![m].pc = pc, ![m].ev = u]

\* The task of a step after it, and that no other task moves.
LEMMA WorkShape ==
    ASSUME TypeOK, NEW m \in Messages, NEW pc, NEW u, Becomes(m, pc, u)
    PROVE  /\ handler'[m].pc = pc /\ handler'[m].ev = u
           /\ handler'[m].obj = handler[m].obj /\ handler'[m].kind = handler[m].kind
           /\ \A k \in Messages : k # m => handler'[k] = handler[k]
BY DEF Becomes, TypeOK, Tasks, DetectionTasks, OtherTasks

LEMMA GotoShape ==
    ASSUME TypeOK, NEW m \in Messages, NEW pc, Goto(m, pc)
    PROVE  /\ handler'[m].pc = pc /\ handler'[m].ev = handler[m].ev
           /\ handler'[m].obj = handler[m].obj /\ handler'[m].kind = handler[m].kind
           /\ \A k \in Messages : k # m => handler'[k] = handler[k]
BY DEF Goto, TypeOK, Tasks, DetectionTasks, OtherTasks

LEMMA FinishShape ==
    ASSUME TypeOK, NEW m \in Messages, Finish(m)
    PROVE  /\ handler'[m] = Done /\ handler'[m].pc = "done"
           /\ \A k \in Messages : k # m => handler'[k] = handler[k]
BY DoneShape DEF Finish, TypeOK

LEMMA StartShape ==
    ASSUME TypeOK, NEW m \in Messages, SmartDetectStart(m)
    PROVE  /\ handler'[m].pc = "entering" /\ handler'[m].ev = nextEvent
           /\ handler'[m].obj = handler[m].obj /\ handler'[m].kind = handler[m].kind
           /\ \A k \in Messages : k # m => handler'[k] = handler[k]
BY WorkShape DEF SmartDetectStart, Becomes

\* What a step of a handler does to its task and to the lists of others.
TaskStep(m) ==
    /\ handler[m].pc # "done"
    /\ \A k \in Messages : k # m => handler'[k] = handler[k]
    /\ UNCHANGED <<monitor, drops, arrived, motionOn>>
    /\ stale' \subseteq stale
    /\ Ending(m)' =>
         /\ handler'[m].obj = handler[m].obj
         /\ handler[m].obj \in Objects
         /\ \/ Ending(m) /\ handler'[m].ev = handler[m].ev
            \/ map[handler[m].obj] # None /\ handler'[m].ev = map[handler[m].obj]

\* What it does to the records of events: it forgets ended ones nobody holds,
\* records the one it starts, and ends the one it is about to unmap.
RecordStep(m) ==
    /\ \A u \in Events :
         \/ event'[u] = event[u]
         \/ event[u] = "ended" /\ u \notin InUse /\ event'[u] = "gone"
         \/ Starting(m) /\ u = handler[m].ev /\ event'[u] = "live"
         \/ Deleting(m)' /\ u = handler'[m].ev /\ event'[u] = "ended"
    /\ handler'[m].pc = "registered" =>
         Starting(m) /\ handler'[m].ev = handler[m].ev /\ event'[handler[m].ev] = "live"
    /\ Deleting(m)' =>
         /\ Ending(m) /\ handler'[m].ev = handler[m].ev
         /\ event'[handler[m].ev] = "ended"
    /\ Deleting(m) => ~Deleting(m)' /\ map'[handler[m].obj] = None

LEMMA HandlerTask ==
    ASSUME TypeOK, NEW m \in Messages, HandleMessage(m)
    PROVE  TaskStep(m)
<1> DEFINE f == handler[m].obj
<1>1. handler[m].pc \notin {"done", "stopping"} => f \in Objects
  BY HandlerObject
<1>2. \A u : Known(u) => u # None
  BY DEF Known
<1>3. CASE HandleNew(m)
  <2>1. handler[m].pc = "waiting"
    BY <1>3 DEF HandleNew, HasLock
  <2>2. CASE SmartDetectStart(m)
    BY <1>3, <2>1, <2>2, StartShape DEF HandleNew, TaskStep, Ending, brokerVars
  <2>3. CASE Known(map[f]) /\ Becomes(m, "replacing", map[f])
    <3>1. /\ handler'[m].obj = f /\ handler'[m].ev = map[f]
          /\ \A k \in Messages : k # m => handler'[k] = handler[k]
      BY <2>3, WorkShape
    <3> QED
      BY <1>1, <1>2, <1>3, <2>1, <2>3, <3>1 DEF HandleNew, TaskStep, brokerVars
  <2> QED
    BY <1>3, <2>2, <2>3 DEF HandleNew, Becomes
<1>4. CASE Replaced(m)
  BY <1>1, <1>4, GotoShape DEF Replaced, TaskStep, Ending, brokerVars
<1>5. CASE StartAfterReplaced(m)
  BY <1>5, StartShape, FinishShape DEF StartAfterReplaced, TaskStep, Ending, brokerVars
<1>6. CASE Registered(m)
  BY <1>6, GotoShape DEF Registered, TaskStep, Ending, brokerVars
<1>7. CASE Mapped(m)
  BY <1>7, FinishShape DEF Mapped, TaskStep, Ending, brokerVars
<1>8. CASE HandleUpdate(m)
  <2>1. handler[m].pc = "waiting"
    BY <1>8 DEF HandleUpdate, HasLock
  <2>2. CASE SmartDetectStart(m) \/ Finish(m)
    BY <1>8, <2>1, <2>2, StartShape, FinishShape DEF HandleUpdate, TaskStep, Ending, brokerVars
  <2>3. CASE Becomes(m, "moving", map[f])
    <3>1. handler'[m].pc = "moving" /\ \A k \in Messages : k # m => handler'[k] = handler[k]
      BY <2>3, WorkShape
    <3> QED
      BY <1>8, <2>1, <3>1 DEF HandleUpdate, TaskStep, Ending, brokerVars
  <2> QED
    BY <1>8, <2>2, <2>3 DEF HandleUpdate, Becomes
<1>9. CASE Moved(m)
  BY <1>9, FinishShape, GotoShape DEF Moved, TaskStep, Ending, brokerVars
<1>10. CASE SnapshotsFetched(m)
  BY <1>10, FinishShape DEF SnapshotsFetched, TaskStep, Ending, brokerVars
<1>11. CASE EndUnknown(m)
  BY <1>11, FinishShape DEF EndUnknown, HasLock, TaskStep, Ending, brokerVars
<1>12. CASE HandleEnd(m)
  <2>1. handler[m].pc = "waiting" /\ Known(map[f])
    BY <1>12 DEF HandleEnd, HasLock
  <2>2. Becomes(m, "final", map[f])
    BY <1>12 DEF HandleEnd, Becomes
  <2>3. /\ handler'[m].obj = f /\ handler'[m].ev = map[f]
        /\ \A k \in Messages : k # m => handler'[k] = handler[k]
    BY <2>2, WorkShape
  <2> QED
    BY <1>1, <1>2, <1>12, <2>1, <2>3 DEF HandleEnd, TaskStep, brokerVars
<1>13. CASE Leave(m)
  BY <1>1, <1>13, GotoShape DEF Leave, TaskStep, Ending, brokerVars
<1>14. CASE Left(m)
  BY <1>1, <1>14, GotoShape DEF Left, TaskStep, Ending, brokerVars
<1>15. CASE Unmapped(m)
  <2>1. CASE Finish(m)
    BY <1>15, <2>1, FinishShape DEF Unmapped, TaskStep, Ending, brokerVars
  <2>2. CASE Becomes(m, "stopping", analytics)
    <3>1. handler'[m].pc = "stopping" /\ \A k \in Messages : k # m => handler'[k] = handler[k]
      BY <2>2, WorkShape
    <3> QED
      BY <1>15, <3>1 DEF Unmapped, TaskStep, Ending, brokerVars
  <2> QED
    BY <1>15, <2>1, <2>2 DEF Unmapped, Becomes
<1>16. CASE AnalyticsStopped(m)
  BY <1>16, FinishShape DEF AnalyticsStopped, TaskStep, Ending, brokerVars
<1> QED
  BY <1>3, <1>4, <1>5, <1>6, <1>7, <1>8, <1>9, <1>10, <1>11, <1>12, <1>13,
     <1>14, <1>15, <1>16 DEF HandleMessage

LEMMA HandlerRecord ==
    ASSUME TypeOK, IdsHaveOneHolder, EndsOwn, Recorded, NEW m \in Messages,
           HandleMessage(m)
    PROVE  RecordStep(m)
<1> DEFINE f == handler[m].obj
           Busy == handler'[m].pc \notin {"registered", "replaced", "left"}
<1>1. ASSUME UNCHANGED event, Busy, Deleting(m) => map'[f] = None PROVE RecordStep(m)
  BY <1>1 DEF RecordStep, Deleting
<1>2. Ending(m) => handler[m].ev \in Events
  BY DEF EndsOwn, Owned
<1>3. handler[m].pc \notin {"done", "stopping"} => f \in Objects
  BY HandlerObject
<1>4. ASSUME NEW pc \in {"replaced", "left"}, Goto(m, pc), Ending(m), ~Deleting(m),
             event' = [event EXCEPT ![handler[m].ev] = "ended"]
      PROVE  RecordStep(m)
  <2>1. handler'[m].pc = pc /\ handler'[m].ev = handler[m].ev
    BY <1>4, GotoShape
  <2>2. event'[handler[m].ev] = "ended" /\ \A u \in Events : u # handler[m].ev => event'[u] = event[u]
    BY <1>2, <1>4 DEF TypeOK
  <2> QED
    BY <1>4, <2>1, <2>2 DEF RecordStep, Deleting
<1>5. CASE HandleNew(m)
  <2>1. Busy
    <3>1. CASE SmartDetectStart(m)
      BY <3>1, StartShape
    <3>2. CASE Becomes(m, "replacing", map[f])
      BY <3>2, WorkShape
    <3> QED
      BY <1>5, <3>1, <3>2 DEF HandleNew, Becomes
  <2>2. UNCHANGED event /\ ~Deleting(m)
    BY <1>5 DEF HandleNew, HasLock, Deleting
  <2> QED
    BY <1>1, <2>1, <2>2
<1>6. CASE Replaced(m)
  BY <1>4, <1>6 DEF Replaced, Ending, Deleting
<1>7. CASE StartAfterReplaced(m)
  <2>1. Busy
    BY <1>7, StartShape, FinishShape DEF StartAfterReplaced
  <2>2. UNCHANGED event /\ map'[f] = None
    BY <1>3, <1>7 DEF StartAfterReplaced, TypeOK
  <2> QED
    BY <1>1, <2>1, <2>2
<1>8. CASE Registered(m)
  <2>1. Starting(m) /\ ~Deleting(m) /\ handler[m].ev \in Events
    BY <1>8 DEF Registered, Starting, Deleting, IdsHaveOneHolder
  <2>2. handler'[m].pc = "registered" /\ handler'[m].ev = handler[m].ev
    BY <1>8, GotoShape DEF Registered
  <2>3. PICK old \in SUBSET ({u \in Events : event[u] = "ended"} \ InUse) :
          event' = [u \in Events |-> IF u \in old THEN "gone"
                                     ELSE IF u = handler[m].ev THEN "live"
                                     ELSE event[u]]
    BY <1>8 DEF Registered
  <2>4. handler[m].ev \notin old
    BY <2>3 DEF InUse
  <2>5. event'[handler[m].ev] = "live"
    BY <2>1, <2>3, <2>4
  <2>6. \A u \in Events :
         \/ event'[u] = event[u]
         \/ event[u] = "ended" /\ u \notin InUse /\ event'[u] = "gone"
         \/ u = handler[m].ev /\ event'[u] = "live"
    BY <2>3
  <2> QED
    BY <2>1, <2>2, <2>5, <2>6 DEF RecordStep, Deleting
<1>9. CASE Mapped(m)
  BY <1>1, <1>9, FinishShape DEF Mapped, Deleting
<1>10. CASE HandleUpdate(m)
  <2>1. Busy
    <3>1. CASE SmartDetectStart(m) \/ Finish(m)
      BY <3>1, StartShape, FinishShape
    <3>2. CASE Becomes(m, "moving", map[f])
      BY <3>2, WorkShape
    <3> QED
      BY <1>10, <3>1, <3>2 DEF HandleUpdate, Becomes
  <2>2. UNCHANGED event /\ ~Deleting(m)
    BY <1>10 DEF HandleUpdate, HasLock, Deleting
  <2> QED
    BY <1>1, <2>1, <2>2
<1>11. CASE Moved(m)
  BY <1>1, <1>11, FinishShape, GotoShape DEF Moved, Deleting
<1>12. CASE SnapshotsFetched(m)
  BY <1>1, <1>12, FinishShape DEF SnapshotsFetched, Deleting
<1>13. CASE EndUnknown(m)
  BY <1>1, <1>13, FinishShape DEF EndUnknown, HasLock, Deleting
<1>14. CASE HandleEnd(m)
  <2>1. Becomes(m, "final", map[f])
    BY <1>14 DEF HandleEnd, Becomes
  <2>2. Busy
    BY <2>1, WorkShape
  <2>3. UNCHANGED event /\ ~Deleting(m)
    BY <1>14 DEF HandleEnd, HasLock, Deleting
  <2> QED
    BY <1>1, <2>2, <2>3
<1>15. CASE Leave(m)
  BY <1>1, <1>15, GotoShape DEF Leave, Deleting
<1>16. CASE Left(m)
  BY <1>4, <1>16 DEF Left, Ending, Deleting
<1>17. CASE Unmapped(m)
  <2>1. UNCHANGED event /\ map'[f] = None
    BY <1>3, <1>17 DEF Unmapped, TypeOK
  <2>2. Busy
    <3>1. CASE Finish(m)
      BY <3>1, FinishShape
    <3>2. CASE Becomes(m, "stopping", analytics)
      BY <3>2, WorkShape
    <3> QED
      BY <1>17, <3>1, <3>2 DEF Unmapped, Becomes
  <2> QED
    BY <1>1, <2>1, <2>2
<1>18. CASE AnalyticsStopped(m)
  BY <1>1, <1>18, FinishShape DEF AnalyticsStopped, Deleting
<1> QED
  BY <1>5, <1>6, <1>7, <1>8, <1>9, <1>10, <1>11, <1>12, <1>13, <1>14, <1>15,
     <1>16, <1>17, <1>18 DEF HandleMessage

\* The inductive invariant.
Kept == SlotsFree /\ IdsInUse /\ EndsOwn /\ Recorded /\ Listed /\ LiveOrDeleted

LEMMA KeptInit == Init => Kept
<1> SUFFICES ASSUME Init PROVE Kept
  OBVIOUS
<1>1. \A m \in Messages : handler[m] = Done /\ handler[m].pc = "done"
  BY DoneShape DEF Init
<1>2. monitor = Asleep /\ monitor.pc = "asleep" /\ monitor.todo = {}
  BY DEF Init, Asleep
<1> QED
  BY <1>1, <1>2 DEF Init, Kept, SlotsFree, IdsInUse, EndsOwn, Recorded, Listed,
     LiveOrDeleted, Starting, Ending, Deleting

\* No step takes an id back.
LEMMA IdsGrow ==
    ASSUME TypeOK, TypeOK', IdStep
    PROVE  nextEvent' >= nextEvent /\ nextEvent \in Nat /\ nextEvent' \in Nat
<1>1. nextEvent \in Nat /\ nextEvent' \in Nat
  BY BoundsAssumption DEF TypeOK
<1>2. nextEvent' = nextEvent \/ nextEvent' = nextEvent + 1 \/ nextEvent' >= nextEvent
  BY DEF IdStep, Mapped, SmartDetectStart
<1> QED
  BY <1>1, <1>2

\* Recording no new event, nor marking one as silent, keeps the ids in use.
LEMMA InUseKept ==
    ASSUME TypeOK, TypeOK', IdStep, IdsInUse, IdsHaveOneHolder, stale' \subseteq stale,
           \A u \in Events : event'[u] # "absent" => u < nextEvent
    PROVE  IdsInUse'
<1>1. nextEvent' >= nextEvent /\ nextEvent \in Nat /\ nextEvent' \in Nat
  BY IdsGrow
<1>2. \A u \in Events : u \in Nat
  BY EventIds
<1>3. \A u \in Events : event'[u] # "absent" => u < nextEvent'
  BY <1>1, <1>2
<1>4. \A u \in stale' : u < nextEvent /\ u < nextEvent'
  BY <1>1, <1>2 DEF IdsInUse, TypeOK
<1>5. ASSUME NEW m \in Messages, Starting(m)' PROVE handler'[m].ev \notin stale'
  <2>1. CASE Starting(m) /\ handler'[m].ev = handler[m].ev
    BY <2>1 DEF IdsInUse
  <2>2. CASE handler'[m].ev = nextEvent
    BY <1>1, <1>4, <2>2
  <2> QED
    BY <1>5, <2>1, <2>2, IdStepStarters
<1> QED
  BY <1>3, <1>4, <1>5 DEF IdsInUse

LEMMA HandlerKeeps ==
    ASSUME TypeOK, TypeOK', IdsHaveOneHolder, Kept, IdStep,
           NEW m \in Messages, HandleMessage(m)
    PROVE  Kept'
<1>1. TaskStep(m)
  BY HandlerTask
<1>2. RecordStep(m)
  BY HandlerRecord DEF Kept
<1>3. SlotsFree'
  BY <1>1, DoneShape DEF TaskStep, SlotsFree, Kept
<1>4. (\A k \in Messages : Ending(k) => Owned(handler[k].ev, handler[k].obj))'
  <2> SUFFICES ASSUME NEW k \in Messages, Ending(k)'
               PROVE  Owned(handler[k].ev, handler[k].obj)'
    OBVIOUS
  <2>1. PICK u, f : u = handler'[k].ev /\ f = handler'[k].obj
    OBVIOUS
  <2>2. Owned(u, f)
    <3>1. CASE k # m
      BY <1>1, <2>1, <3>1 DEF TaskStep, Ending, Kept, EndsOwn
    <3>2. CASE k = m
      BY <1>1, <2>1, <3>2, MappedOwned DEF TaskStep, Kept, EndsOwn
    <3> QED
      BY <3>1, <3>2
  <2>3. Owned(u, f)'
    BY <2>2, OwnedKept
  <2> QED
    BY <2>1, <2>3 DEF Owned
<1>5. \A x \in monitor'.todo : Owned(x.ev, x.obj)'
  BY <1>1, OwnedKept DEF TaskStep, Kept, EndsOwn
<1>6. \A u \in Events : event'[u] # "absent" => u < nextEvent
  BY <1>2 DEF RecordStep, Kept, IdsInUse, IdsHaveOneHolder, EndsOwn, Owned
<1>7. IdsInUse'
  BY <1>1, <1>6, InUseKept DEF TaskStep, Kept
<1>8. \A k \in Messages : handler'[k].pc = "registered" => event'[handler'[k].ev] = "live"
  <2> SUFFICES ASSUME NEW k \in Messages, handler'[k].pc = "registered"
               PROVE  event'[handler'[k].ev] = "live"
    OBVIOUS
  <2>1. CASE k = m
    BY <1>2, <2>1 DEF RecordStep
  <2>2. CASE k # m
    <3>1. handler'[k] = handler[k] /\ Starting(k)
      BY <1>1, <2>2 DEF TaskStep, Starting
    <3>2. event[handler[k].ev] = "live" /\ handler[k].ev \in Events
      BY <3>1 DEF Kept, Recorded, IdsHaveOneHolder
    <3>3. Deleting(m)' => handler'[m].ev # handler[k].ev
      BY <1>2, <3>1 DEF RecordStep, Kept, EndsOwn, Owned
    <3> QED
      BY <1>2, <3>1, <3>2, <3>3 DEF RecordStep
  <2> QED
    BY <2>1, <2>2
<1>9. \A k \in Messages : Deleting(k)' => event'[handler'[k].ev] = "ended"
  <2> SUFFICES ASSUME NEW k \in Messages, Deleting(k)'
               PROVE  event'[handler'[k].ev] = "ended"
    OBVIOUS
  <2>1. CASE k = m
    BY <1>2, <2>1 DEF RecordStep
  <2>2. CASE k # m
    <3>1. handler'[k] = handler[k] /\ Deleting(k) /\ Ending(k)
      BY <1>1, <2>2 DEF TaskStep, Deleting, Ending
    <3>2. /\ event[handler[k].ev] = "ended" /\ handler[k].ev \in Events
          /\ Starting(m) => handler[m].ev # handler[k].ev
      BY <3>1 DEF Kept, Recorded, EndsOwn, Owned
    <3>3. handler[k].ev \in InUse
      BY DEF InUse
    <3> QED
      BY <1>2, <3>1, <3>2, <3>3 DEF RecordStep
  <2> QED
    BY <2>1, <2>2
<1>10. Listed'
  BY <1>1 DEF TaskStep, Kept, Listed
<1>11. LiveOrDeleted'
  <2> SUFFICES ASSUME drops' = 0, NEW f \in Objects, map'[f] # None
               PROVE  \/ event'[map'[f]] = "live"
                      \/ \E k \in Messages : /\ Deleting(k)' /\ handler'[k].obj = f
                                             /\ handler'[k].ev = map'[f]
                      \/ MonitorDeletes(f, map[f])' /\ map'[f] = map[f]
    BY DEF LiveOrDeleted, MonitorDeletes
  <2>0. drops = 0
    BY <1>1 DEF TaskStep
  <2>1. CASE map'[f] = map[f]
    <3>1. map[f] \in Events /\ Owned(map[f], f)
      BY <2>1, MappedOwned DEF TypeOK
    <3>2. CASE event[map[f]] = "live"
      <4>1. CASE Deleting(m)' /\ handler'[m].ev = map[f]
        <5>1. Ending(m) /\ handler[m].ev = map[f] /\ handler'[m].obj = handler[m].obj
          BY <1>1, <1>2, <4>1 DEF TaskStep, RecordStep, Deleting, Ending
        <5>2. handler[m].obj = f
          BY <5>1 DEF Kept, EndsOwn, Owned
        <5> QED
          BY <2>1, <4>1, <5>1, <5>2
      <4>2. CASE ~(Deleting(m)' /\ handler'[m].ev = map[f])
        BY <1>2, <2>1, <3>1, <3>2, <4>2 DEF RecordStep
      <4> QED
        BY <4>1, <4>2
    <3>3. ASSUME NEW k \in Messages, Deleting(k), handler[k].obj = f, handler[k].ev = map[f]
          PROVE  Deleting(k)' /\ handler'[k].obj = f /\ handler'[k].ev = map'[f]
      <4>1. k # m
        BY <1>2, <2>1, <3>3 DEF RecordStep
      <4> QED
        BY <1>1, <2>1, <3>3, <4>1 DEF TaskStep, Deleting
    <3>4. MonitorDeletes(f, map[f]) => MonitorDeletes(f, map[f])'
      BY <1>1, <2>1 DEF TaskStep, MonitorDeletes
    <3> QED
      BY <2>0, <2>1, <3>2, <3>3, <3>4 DEF Kept, LiveOrDeleted
  <2>2. CASE map'[f] # map[f]
    <3>1. \E k \in Messages : Mapped(k) /\ handler[k].obj = f
      <4>1. ~MapShrinks
        BY <2>2 DEF MapShrinks
      <4>2. PICK k \in Messages : Mapped(k)
        BY <4>1 DEF IdStep
      <4>3. handler[k].obj = f
        BY <2>2, <4>2 DEF Mapped, TypeOK
      <4> QED
        BY <4>2, <4>3
    <3>2. PICK k \in Messages : Mapped(k) /\ handler[k].obj = f
      BY <3>1
    <3>3. map'[f] = handler[k].ev /\ event' = event /\ handler[k].pc = "registered"
      BY <3>2 DEF Mapped, TypeOK
    <3> QED
      BY <3>3 DEF Kept, Recorded
  <2> QED
    BY <2>1, <2>2
<1> QED
  BY <1>3, <1>4, <1>5, <1>7, <1>8, <1>9, <1>10, <1>11 DEF Kept, EndsOwn, Recorded

\* A task that does not hold an event: it waits, moves one, or is over.
Idle(t) == t.pc \in {"done", "waiting", "moving", "fetching", "stopping"}

\* A step that touches no event: at most a message arrives.
Arrival ==
    /\ UNCHANGED <<map, event, stale, monitor, drops>>
    /\ \/ UNCHANGED handler
       \/ /\ arrived + 1 \in Messages
          /\ \E t : Idle(t) /\ handler' = [handler EXCEPT ![arrived + 1] = t]
          /\ arrived' = arrived + 1
    /\ arrived' >= arrived

LEMMA ArrivalKeeps ==
    ASSUME TypeOK, TypeOK', IdsHaveOneHolder, Kept, IdStep, Arrival
    PROVE  Kept'
<1>1. arrived \in Nat /\ arrived' \in Nat /\ arrived' >= arrived /\ \A m \in Messages : m \in Nat
  BY BoundsAssumption DEF TypeOK, Arrival, Messages
<1>2. \A m \in Messages :
        \/ handler'[m] = handler[m]
        \/ Idle(handler'[m]) /\ handler[m] = Done /\ arrived' = arrived + 1 /\ m = arrived + 1
  <2>1. CASE UNCHANGED handler
    BY <2>1
  <2>2. CASE ~UNCHANGED handler
    <3>1. PICK t : Idle(t) /\ handler' = [handler EXCEPT ![arrived + 1] = t]
      BY <2>2 DEF Arrival
    <3>2. arrived + 1 \in Messages /\ arrived' = arrived + 1 /\ arrived + 1 > arrived
      BY <1>1, <2>2 DEF Arrival
    <3>3. handler'[arrived + 1] = t
      BY <3>1, <3>2 DEF TypeOK
    <3>4. \A m \in Messages : m # arrived + 1 => handler'[m] = handler[m]
      BY <3>1 DEF TypeOK
    <3>5. handler[arrived + 1] = Done
      BY <3>2 DEF Kept, SlotsFree
    <3> QED
      BY <3>1, <3>2, <3>3, <3>4, <3>5
  <2> QED
    BY <2>1, <2>2
<1>3. \A m \in Messages :
        /\ Starting(m)' \/ Ending(m)' \/ Deleting(m)' => handler'[m] = handler[m]
        /\ Deleting(m) => handler'[m] = handler[m]
  BY <1>2, DoneShape DEF Starting, Ending, Deleting, Idle
<1>4. UNCHANGED <<map, event, stale, monitor, drops>>
  BY DEF Arrival
<1>5. SlotsFree'
  BY <1>1, <1>2 DEF SlotsFree, Kept
<1>6. (\A k \in Messages : Ending(k) => Owned(handler[k].ev, handler[k].obj))'
  <2> SUFFICES ASSUME NEW k \in Messages, Ending(k)'
               PROVE  Owned(handler[k].ev, handler[k].obj)'
    OBVIOUS
  <2>1. PICK u, f : u = handler'[k].ev /\ f = handler'[k].obj
    OBVIOUS
  <2>2. Owned(u, f)
    BY <1>3, <2>1 DEF Kept, EndsOwn, Ending
  <2>3. Owned(u, f)'
    BY <2>2, OwnedKept
  <2> QED
    BY <2>1, <2>3 DEF Owned
<1>7. \A x \in monitor'.todo : Owned(x.ev, x.obj)'
  BY <1>4, OwnedKept DEF Kept, EndsOwn
<1>8. IdsInUse'
  BY <1>4, InUseKept DEF Kept, IdsInUse
<1>9. Recorded'
  BY <1>3, <1>4 DEF Kept, Recorded, Starting, Deleting
<1>10. Listed'
  BY <1>4 DEF Kept, Listed
<1>11. LiveOrDeleted'
  BY <1>3, <1>4 DEF Kept, LiveOrDeleted, MonitorDeletes, Deleting
<1> QED
  BY <1>5, <1>6, <1>7, <1>8, <1>9, <1>10, <1>11 DEF Kept, EndsOwn

LEMMA SilenceKeeps ==
    ASSUME TypeOK, TypeOK', IdsHaveOneHolder, Kept, NEW u \in Events, Silence(u)
    PROVE  Kept'
<1>1. /\ UNCHANGED <<arrived, handler, map, event, monitor, nextEvent, drops>>
      /\ stale' = stale \cup {u}
      /\ event[u] = "live"
      /\ u \notin InUse
  BY DEF Silence, brokerVars
<1>2. \A m \in Messages : handler[m].ev # u
  BY <1>1 DEF InUse
<1>3. IdsInUse'
  BY <1>1, <1>2 DEF Kept, IdsInUse, Starting
<1> QED
  BY <1>1, <1>3 DEF Kept, SlotsFree, EndsOwn, Owned, Starting, Ending, Recorded,
     Deleting, Listed, LiveOrDeleted, MonitorDeletes

\* The monitor's next entry, or its sleep.
LEMMA ForceEndShape ==
    ASSUME NEW todo \in SUBSET Expired, ForceEnd(todo)
    PROVE  /\ monitor'.todo = todo
           /\ monitor'.pc # "left"
           /\ Listed'
BY DEF ForceEnd, Asleep, Listed

LEMMA MonitorKeeps ==
    ASSUME TypeOK, TypeOK', IdsHaveOneHolder, Kept, IdStep, Monitor
    PROVE  Kept'
<1>1. /\ UNCHANGED <<arrived, handler, stale, nextEvent, drops>>
      /\ MapShrinks
  BY DEF Monitor, MonitorTick, TimedOut, TimeoutUnmapped, Unmapping, MapShrinks, brokerVars
<1>2. monitor.todo \in SUBSET Expired
  BY DEF TypeOK
<1>3. SlotsFree'
  BY <1>1 DEF Kept, SlotsFree
<1>4. \A m \in Messages : Ending(m)' => Owned(handler[m].ev, handler[m].obj)'
  <2> SUFFICES ASSUME NEW m \in Messages, Ending(m)
               PROVE  Owned(handler[m].ev, handler[m].obj)'
    BY <1>1 DEF Ending
  <2>1. PICK u, f : u = handler[m].ev /\ f = handler[m].obj
    OBVIOUS
  <2>2. Owned(u, f)
    BY <2>1 DEF Kept, EndsOwn
  <2>3. Owned(u, f)'
    BY <2>2, OwnedKept
  <2> QED
    BY <1>1, <2>1, <2>3 DEF Owned
<1>5. CASE MonitorTick
  <2>1. UNCHANGED <<map, event>> /\ ForceEnd(MarkExpired) /\ monitor = Asleep
    BY <1>5 DEF MonitorTick, brokerVars
  <2>2. MarkExpired \in SUBSET Expired
    BY DEF MarkExpired
  <2>3. \A x \in MarkExpired : Owned(x.ev, x.obj)
    <3> SUFFICES ASSUME NEW x \in MarkExpired PROVE Owned(x.ev, x.obj)
      OBVIOUS
    <3>1. /\ x.ev \in Events /\ x.ev \in stale /\ x.ev # None
          /\ x.obj \in FrigateIds(x.ev) \/ FrigateIds(x.ev) = {}
      BY EventIds DEF MarkExpired, Expired
    <3>2. x.ev < nextEvent /\ \A k \in Messages : Starting(k) => handler[k].ev # x.ev
      BY <3>1 DEF Kept, IdsInUse
    <3>3. \A g \in Objects : map[g] = x.ev => g = x.obj
      BY <3>1 DEF FrigateIds, IdsHaveOneHolder, OwnEvents
    <3> QED
      BY <3>1, <3>2, <3>3 DEF Owned
  <2>4. \A x \in monitor'.todo : Owned(x.ev, x.obj)'
    BY <2>1, <2>2, <2>3, ForceEndShape, OwnedKept
  <2>5. Listed'
    BY <2>1, <2>2, ForceEndShape
  <2>6. LiveOrDeleted'
    <3>1. \A f \in Objects, u \in Events : ~MonitorDeletes(f, u)
      BY <2>1 DEF MonitorDeletes, Asleep
    <3> QED
      BY <1>1, <2>1, <3>1 DEF Kept, LiveOrDeleted, Deleting, TypeOK
  <2>7. IdsInUse' /\ Recorded'
    BY <1>1, <2>1 DEF Kept, IdsInUse, Recorded, Starting, Deleting
  <2> QED
    BY <1>3, <1>4, <1>1, <2>4, <2>5, <2>6, <2>7 DEF Kept, EndsOwn, Ending
<1>6. CASE TimedOut
  <2> DEFINE x == First(monitor.todo)
  <2>1. /\ monitor.pc = "leaving" /\ monitor.todo # {}
        /\ x \in monitor.todo /\ x.ev \in Events
    BY <1>2, <1>6, FirstIn DEF TimedOut, Kept, Listed, Expired
  <2>2. /\ event'[x.ev] = "ended"
        /\ \A u \in Events : u # x.ev => event'[u] = event[u]
        /\ UNCHANGED map
    BY <1>6, <2>1 DEF TimedOut, TypeOK
  <2>3. monitor'.pc = "left" /\ monitor'.todo = monitor.todo
    BY <1>6 DEF TimedOut, TypeOK
  <2>4. Owned(x.ev, x.obj)
    BY <2>1 DEF Kept, EndsOwn
  <2>5. \A y \in monitor'.todo : Owned(y.ev, y.obj)'
    BY <2>3, OwnedKept DEF Kept, EndsOwn
  <2>6. Listed'
    BY <2>1, <2>3 DEF Listed
  <2>7. IdsInUse'
    BY <1>1, <2>2, <2>4 DEF Kept, IdsInUse, Starting, Owned
  <2>8. Recorded'
    <3>1. \A m \in Messages : handler[m].pc = "registered" => event'[handler[m].ev] = "live"
      BY <2>2, <2>4 DEF Kept, Recorded, Owned, Starting, IdsHaveOneHolder
    <3>2. \A m \in Messages : Deleting(m) => event'[handler[m].ev] = "ended"
      BY <2>2 DEF Kept, Recorded, EndsOwn, Owned, Ending, Deleting
    <3> QED
      BY <1>1, <3>1, <3>2 DEF Recorded, Deleting
  <2>9. LiveOrDeleted'
    <3> SUFFICES ASSUME drops' = 0, NEW f \in Objects, map'[f] # None
                 PROVE  \/ event'[map'[f]] = "live"
                        \/ \E m \in Messages : /\ Deleting(m)' /\ handler'[m].obj = f
                                               /\ handler'[m].ev = map'[f]
                        \/ MonitorDeletes(f, map[f])' /\ map'[f] = map[f]
      BY DEF LiveOrDeleted, MonitorDeletes
    <3>1. map'[f] = map[f] /\ map[f] \in Events /\ map[f] # None /\ drops = 0
      BY <1>1, <2>2 DEF TypeOK
    <3>2. CASE map[f] = x.ev
      <4>1. f = x.obj
        BY <2>4, <3>2 DEF Owned
      <4> QED
        BY <2>3, <3>1, <3>2, <4>1 DEF MonitorDeletes
    <3>3. CASE map[f] # x.ev
      <4>1. event'[map[f]] = event[map[f]]
        BY <2>2, <3>1, <3>3
      <4>2. ~MonitorDeletes(f, map[f])
        BY <2>1 DEF MonitorDeletes
      <4> QED
        BY <1>1, <3>1, <4>1, <4>2 DEF Kept, LiveOrDeleted, Deleting
    <3> QED
      BY <3>2, <3>3
  <2> QED
    BY <1>1, <1>3, <1>4, <2>5, <2>6, <2>7, <2>8, <2>9 DEF Kept, EndsOwn, Ending
<1>7. CASE TimeoutUnmapped
  <2> DEFINE x == First(monitor.todo)
             rest == monitor.todo \ {x}
  <2>1. UNCHANGED event /\ ForceEnd(rest) /\ map' = Unmapping(x) /\ rest \in SUBSET Expired
    BY <1>2, <1>7 DEF TimeoutUnmapped, brokerVars
  <2>2. \A y \in monitor'.todo : Owned(y.ev, y.obj)'
    <3>1. monitor'.todo = rest
      BY <2>1, ForceEndShape
    <3> QED
      BY <3>1, OwnedKept DEF Kept, EndsOwn
  <2>3. Listed'
    BY <2>1, ForceEndShape
  <2>4. IdsInUse' /\ Recorded'
    BY <1>1, <2>1 DEF Kept, IdsInUse, Recorded, Starting, Deleting
  <2>5. LiveOrDeleted'
    <3> SUFFICES ASSUME drops' = 0, NEW f \in Objects, map'[f] # None
                 PROVE  \/ event'[map'[f]] = "live"
                        \/ \E m \in Messages : /\ Deleting(m)' /\ handler'[m].obj = f
                                               /\ handler'[m].ev = map'[f]
      BY DEF LiveOrDeleted
    <3>1. map'[f] = map[f] /\ f # x.obj /\ drops = 0
      BY <1>1, <2>1 DEF Unmapping
    <3>2. ~MonitorDeletes(f, map[f])
      BY <3>1 DEF MonitorDeletes
    <3> QED
      BY <1>1, <2>1, <3>1, <3>2 DEF Kept, LiveOrDeleted, Deleting
  <2> QED
    BY <1>1, <1>3, <1>4, <2>2, <2>3, <2>4, <2>5 DEF Kept, EndsOwn, Ending
<1> QED
  BY <1>5, <1>6, <1>7 DEF Monitor

\* A lost connection ends all tasks.
LEMMA CancelledKeeps ==
    ASSUME TypeOK, TypeOK', IdsHaveOneHolder, Kept, IdStep,
           BrokerLost \/ ProtectLost \/ ProtectReboots
    PROVE  Kept'
<1>1. TasksCancelled
  BY DEF BrokerLost, ProtectLost, ProtectReboots, Closed
<1>2. \A m \in Messages : handler'[m] = Done /\ handler'[m].pc = "done"
  BY <1>1, DoneShape DEF TasksCancelled
<1>3. /\ monitor' = Asleep /\ monitor'.pc = "asleep" /\ monitor'.todo = {}
      /\ UNCHANGED <<stale, nextEvent>>
      /\ drops' # 0
  BY <1>1, BoundsAssumption DEF TasksCancelled, Asleep, TypeOK
<1>4. \A u \in Events : event'[u] # "absent" => event[u] # "absent"
  BY DEF BrokerLost, ProtectLost, ProtectReboots, Closed
<1>5. IdsInUse'
  BY <1>2, <1>3, <1>4 DEF Kept, IdsInUse, Starting
<1> QED
  BY <1>2, <1>3, <1>5 DEF Kept, SlotsFree, EndsOwn, Ending, Recorded, Deleting,
     Listed, LiveOrDeleted

LEMMA KeptStep ==
    ASSUME TypeOK, TypeOK', IdsHaveOneHolder, Kept, [Next]_vars
    PROVE  Kept'
<1>0. arrived \in Nat /\ IdStep
  BY NextIds, BoundsAssumption DEF TypeOK
<1>1. ASSUME NEW f \in Objects, NEW kind \in Kinds, DetectionMessage(f, kind)
      PROVE  Kept'
  <2> DEFINE t == [pc |-> "waiting", kind |-> kind, obj |-> f, gen |-> gen[f], ev |-> None]
  <2>1. Idle(t) /\ arrived + 1 \in Messages
    BY <1>0, <1>1, BoundsAssumption DEF DetectionMessage, Idle, Messages
  <2>2. Arrival
    <3>1. handler' = [handler EXCEPT ![arrived + 1] = t]
      BY <1>1 DEF DetectionMessage
    <3>2. arrived' = arrived + 1 /\ arrived' >= arrived
      BY <1>0, <1>1 DEF DetectionMessage
    <3>3. UNCHANGED <<map, event, stale, monitor, drops>>
      BY <1>1 DEF DetectionMessage
    <3> HIDE DEF t
    <3> QED
      BY <2>1, <3>1, <3>2, <3>3 DEF Arrival
  <2> QED
    BY <1>0, <2>2, ArrivalKeeps
<1>2. ASSUME NEW f \in Objects, NEW kind \in Kinds, MissedMessage(f, kind)
      PROVE  Kept'
  BY <1>0, <1>2, ArrivalKeeps DEF MissedMessage, Arrival
<1>3. CASE MotionOn
  BY <1>0, <1>3, ArrivalKeeps DEF MotionOn, Arrival
<1>4. CASE MotionOff
  <2>1. CASE UNCHANGED handler
    BY <1>0, <1>4, <2>1, ArrivalKeeps DEF MotionOff, Arrival
  <2>2. CASE handler' = [handler EXCEPT ![arrived + 1] =
                           [Done EXCEPT !.pc = "stopping", !.ev = analytics]]
    <3> DEFINE t == [Done EXCEPT !.pc = "stopping", !.ev = analytics]
    <3>1. Idle(t) /\ arrived + 1 \in Messages
      BY <1>0, <1>4, BoundsAssumption DEF Done, MotionOff, Idle, Messages
    <3>2. Arrival
      <4>1. handler' = [handler EXCEPT ![arrived + 1] = t]
        BY <2>2
      <4>2. arrived' = arrived + 1 /\ arrived' >= arrived
        BY <1>0, <1>4 DEF MotionOff
      <4>3. UNCHANGED <<map, event, stale, monitor, drops>>
        BY <1>4 DEF MotionOff
      <4> HIDE DEF t
      <4> QED
        BY <3>1, <4>1, <4>2, <4>3 DEF Arrival
    <3> QED
      BY <1>0, <3>2, ArrivalKeeps
  <2> QED
    BY <1>4, <2>1, <2>2 DEF MotionOff
<1>5. ASSUME NEW m \in Messages, HandleMessage(m)
      PROVE  Kept'
  BY <1>0, <1>5, HandlerKeeps
<1>6. ASSUME NEW u \in Events, Silence(u)
      PROVE  Kept'
  BY <1>6, SilenceKeeps
<1>7. CASE Monitor
  BY <1>0, <1>7, MonitorKeeps
<1>8. CASE BrokerLost \/ ProtectLost \/ ProtectReboots
  BY <1>0, <1>8, CancelledKeeps
<1>9. CASE Linked
  BY <1>0, <1>9, ArrivalKeeps DEF Linked, Arrival
<1>10. CASE UNCHANGED vars
  BY <1>0, <1>10, ArrivalKeeps DEF vars, brokerVars, Arrival
<1> QED
  BY <1>1, <1>2, <1>3, <1>4, <1>5, <1>6, <1>7, <1>8, <1>9, <1>10 DEF Next

LEMMA KeptIsInvariant == Spec => [](TypeOK /\ IdsHaveOneHolder /\ Kept)
<1>1. Init => TypeOK /\ IdsHaveOneHolder /\ Kept
  BY TypeInit, HoldersInit, KeptInit
<1>2. TypeOK /\ IdsHaveOneHolder /\ Kept /\ [Next]_vars => (TypeOK /\ IdsHaveOneHolder /\ Kept)'
  BY TypeStep, HoldersStep, KeptStep
<1> QED
  BY <1>1, <1>2, PTL DEF Spec

\* While no connection is lost, an event that is still mapped once the handlers
\* and the monitor have come to rest has not ended, although "new", "end" and a
\* timeout end it and delete its entry in two steps each that interleave.  It
\* does not say that every live event is mapped: the monitor may delete the
\* entry of an event that a handler has put in its place.
THEOREM MapIsLiveTheorem == Spec => []MapIsLive
<1>1. Kept => MapIsLive
  <2> SUFFICES ASSUME Kept, Quiet, drops = 0, NEW f \in Objects, map[f] # None
               PROVE  event[map[f]] = "live"
    BY DEF MapIsLive
  <2>1. \A m \in Messages : ~Deleting(m)
    BY DoneShape DEF Quiet, Deleting
  <2>2. ~MonitorDeletes(f, map[f])
    BY DEF Quiet, Asleep, MonitorDeletes
  <2> QED
    BY <2>1, <2>2 DEF Kept, LiveOrDeleted
<1> QED
  BY <1>1, KeptIsInvariant, PTL

-----------------------------------------------------------------------------
(***************************************************************************)
(* The deferred "OFF".  When the last mapped event times out nobody stops  *)
(* the generic event, and a lost connection cancels the handler that would *)
(* (both are hazards of the code), so this is about undisturbed tracking.  *)
(***************************************************************************)

Undisturbed == ~Timeouts /\ MaxDrops = 0

\* A handler that is about to stop the generic event, or to map a new one.
StopsOrMaps(m) ==
    \/ handler[m].pc = "stopping" /\ handler[m].ev = analytics
    \/ Starting(m)

\* The generic event of a motion that is over is being stopped, or will be by
\* the handler whose event is mapped last.
Deferred ==
    /\ stale = {} /\ monitor = Asleep
    /\ ~motionOn /\ NoneMapped(map) /\ analytics # None =>
         \E m \in Messages : StopsOrMaps(m)

LEMMA DeferredInit == Init => Deferred
BY DEF Init, Deferred

LEMMA AsleepDeletes ==
    ASSUME monitor = Asleep, NEW f, NEW u
    PROVE  ~MonitorDeletes(f, u)
BY DEF Asleep, MonitorDeletes

\* An event is unknown only if no object is mapped to it.
LEMMA MappedIsKnown ==
    ASSUME TypeOK, Kept, monitor = Asleep, drops = 0, NEW f \in Objects, ~Known(map[f])
    PROVE  map[f] = None
<1> SUFFICES ASSUME map[f] # None PROVE FALSE
  OBVIOUS
<1>1. ~MonitorDeletes(f, map[f])
  BY AsleepDeletes
<1> QED
  BY <1>1 DEF Kept, LiveOrDeleted, Recorded, Known

\* A handler's step that changes neither the map nor the generic event.
LEMMA SideStep ==
    ASSUME Deferred, NEW m \in Messages, TaskStep(m), UNCHANGED <<map, analytics>>,
           StopsOrMaps(m) => StopsOrMaps(m)'
    PROVE  Deferred'
<1>1. \A k \in Messages : StopsOrMaps(k) => StopsOrMaps(k)'
  BY DEF TaskStep, StopsOrMaps, Starting
<1>2. UNCHANGED <<monitor, motionOn>> /\ stale' = {}
  BY DEF TaskStep, Deferred
<1> QED
  BY <1>1, <1>2 DEF Deferred, NoneMapped

\* A step after which a new event is about to be mapped.
LEMMA StartDefers ==
    ASSUME TypeOK, Deferred, NEW m \in Messages, TaskStep(m), SmartDetectStart(m)
    PROVE  Deferred'
<1>1. StopsOrMaps(m)'
  BY StartShape DEF StopsOrMaps, Starting
<1>2. UNCHANGED monitor /\ stale' = {}
  BY DEF TaskStep, Deferred
<1> QED
  BY <1>1, <1>2 DEF Deferred

LEMMA HandlerDefers ==
    ASSUME TypeOK, IdsHaveOneHolder, Kept, drops = 0, Deferred, NEW m \in Messages, HandleMessage(m)
    PROVE  Deferred'
<1> DEFINE f == handler[m].obj
<1>1. TaskStep(m)
  BY HandlerTask
<1>2. UNCHANGED <<monitor, motionOn>> /\ stale' = {} /\ monitor = Asleep
  BY <1>1 DEF TaskStep, Deferred
<1>3. handler[m].pc \notin {"done", "stopping"} => f \in Objects
  BY HandlerObject
<1>4. CASE HandleNew(m)
  <2>1. handler[m].pc = "waiting" /\ ~StopsOrMaps(m)
    BY <1>4 DEF HandleNew, HasLock, StopsOrMaps, Starting
  <2>2. SmartDetectStart(m) \/ UNCHANGED <<map, analytics>>
    BY <1>4 DEF HandleNew
  <2> QED
    BY <1>1, <2>1, <2>2, StartDefers, SideStep
<1>5. CASE Replaced(m)
  <2>1. ~StopsOrMaps(m) /\ UNCHANGED <<map, analytics>>
    BY <1>5 DEF Replaced, StopsOrMaps, Starting
  <2> QED
    BY <1>1, <2>1, SideStep
<1>6. CASE StartAfterReplaced(m)
  <2>1. ~StopsOrMaps(m)
    BY <1>6 DEF StartAfterReplaced, StopsOrMaps, Starting
  <2>2. SmartDetectStart(m) \/ UNCHANGED <<map, analytics>>
    BY <1>6 DEF StartAfterReplaced
  <2> QED
    BY <1>1, <2>1, <2>2, StartDefers, SideStep
<1>7. CASE Registered(m)
  <2>1. StopsOrMaps(m)' /\ UNCHANGED <<map, analytics>>
    BY <1>7, GotoShape DEF Registered, StopsOrMaps, Starting
  <2> QED
    BY <1>1, <2>1, SideStep
<1>8. CASE Mapped(m)
  <2>1. handler[m].ev # None /\ f \in Objects
    BY <1>3, <1>8, EventIds DEF Mapped, Starting, IdsHaveOneHolder
  <2> QED
    BY <1>2, <1>8, <2>1 DEF Mapped, Deferred, NoneMapped, TypeOK
<1>9. CASE HandleUpdate(m)
  <2>1. ~StopsOrMaps(m) /\ UNCHANGED <<map, analytics>>
    BY <1>9 DEF HandleUpdate, HasLock, StopsOrMaps, Starting
  <2> QED
    BY <1>1, <2>1, SideStep
<1>10. CASE Moved(m)
  <2>1. ~StopsOrMaps(m) /\ UNCHANGED <<map, analytics>>
    BY <1>10 DEF Moved, StopsOrMaps, Starting
  <2> QED
    BY <1>1, <2>1, SideStep
<1>11. CASE SnapshotsFetched(m)
  <2>1. ~StopsOrMaps(m) /\ UNCHANGED <<map, analytics>>
    BY <1>11 DEF SnapshotsFetched, StopsOrMaps, Starting
  <2> QED
    BY <1>1, <2>1, SideStep
<1>12. CASE EndUnknown(m)
  <2>1. ~StopsOrMaps(m) /\ f \in Objects /\ UNCHANGED analytics
    BY <1>3, <1>12 DEF EndUnknown, HasLock, StopsOrMaps, Starting
  <2>2. map[f] = None
    BY <1>2, <1>12, <2>1, MappedIsKnown DEF EndUnknown
  <2>3. map' = map
    BY <1>12, <2>1, <2>2 DEF EndUnknown, TypeOK
  <2> QED
    BY <1>1, <2>1, <2>3, SideStep
<1>13. CASE HandleEnd(m)
  <2>1. ~StopsOrMaps(m) /\ UNCHANGED <<map, analytics>>
    BY <1>13 DEF HandleEnd, HasLock, StopsOrMaps, Starting
  <2> QED
    BY <1>1, <2>1, SideStep
<1>14. CASE Leave(m)
  <2>1. ~StopsOrMaps(m) /\ UNCHANGED <<map, analytics>>
    BY <1>14 DEF Leave, StopsOrMaps, Starting
  <2> QED
    BY <1>1, <2>1, SideStep
<1>15. CASE Left(m)
  <2>1. ~StopsOrMaps(m) /\ UNCHANGED <<map, analytics>>
    BY <1>15 DEF Left, StopsOrMaps, Starting
  <2> QED
    BY <1>1, <2>1, SideStep
<1>16. CASE Unmapped(m)
  <2>1. ~StopsOrMaps(m) /\ f \in Objects /\ UNCHANGED analytics
    BY <1>3, <1>16 DEF Unmapped, StopsOrMaps, Starting
  <2>2. CASE map[f] = None
    <3>1. map' = map
      BY <1>16, <2>1, <2>2 DEF Unmapped, TypeOK
    <3> QED
      BY <1>1, <2>1, <3>1, SideStep
  <2>3. CASE map[f] # None /\ ~(NoneMapped(map') /\ ~motionOn /\ analytics # None)
    BY <1>2, <2>1, <2>3 DEF Deferred, NoneMapped
  <2>4. CASE Becomes(m, "stopping", analytics)
    <3>1. StopsOrMaps(m)'
      BY <2>1, <2>4, WorkShape DEF StopsOrMaps
    <3> QED
      BY <1>2, <3>1 DEF Deferred
  <2> QED
    BY <1>16, <2>2, <2>3, <2>4 DEF Unmapped, Becomes
<1>17. CASE AnalyticsStopped(m)
  <2>1. CASE analytics' = None
    BY <1>2, <2>1 DEF Deferred
  <2>2. CASE analytics # handler[m].ev /\ UNCHANGED analytics
    <3>1. ~StopsOrMaps(m) /\ UNCHANGED map
      BY <1>17, <2>2 DEF AnalyticsStopped, StopsOrMaps, Starting
    <3> QED
      BY <1>1, <2>2, <3>1, SideStep
  <2> QED
    BY <1>17, <2>1, <2>2 DEF AnalyticsStopped
<1> QED
  BY <1>4, <1>5, <1>6, <1>7, <1>8, <1>9, <1>10, <1>11, <1>12, <1>13, <1>14,
     <1>15, <1>16, <1>17 DEF HandleMessage

LEMMA DeferredStep ==
    ASSUME Undisturbed, TypeOK, IdsHaveOneHolder, Kept, Deferred, [Next]_vars
    PROVE  Deferred'
<1>0. drops = 0 /\ MaxDrops = 0
  BY DEF Undisturbed, TypeOK
<1>1. ASSUME UNCHANGED <<motionOn, map, stale, monitor, analytics>>,
             \A m \in Messages : StopsOrMaps(m) => StopsOrMaps(m)'
      PROVE  Deferred'
  BY <1>1 DEF Deferred, NoneMapped
<1>2. ASSUME UNCHANGED <<motionOn, map, stale, monitor, analytics, handler>> PROVE Deferred'
  BY <1>1, <1>2 DEF StopsOrMaps, Starting
<1>3. arrived + 1 \in Messages => ~StopsOrMaps(arrived + 1)
  <2>1. arrived \in Nat /\ arrived + 1 > arrived
    BY BoundsAssumption DEF TypeOK
  <2> QED
    BY <2>1, DoneShape DEF Kept, SlotsFree, StopsOrMaps, Starting
<1>4. ASSUME NEW f \in Objects, NEW kind \in Kinds, DetectionMessage(f, kind)
      PROVE  Deferred'
  <2>1. \A m \in Messages : m # arrived + 1 => handler'[m] = handler[m]
    BY <1>4 DEF DetectionMessage, TypeOK
  <2>2. UNCHANGED <<motionOn, map, stale, monitor, analytics>>
    BY <1>4 DEF DetectionMessage
  <2>3. \A m \in Messages : StopsOrMaps(m) => StopsOrMaps(m)'
    BY <1>3, <2>1, <2>2 DEF StopsOrMaps, Starting
  <2> QED
    BY <1>1, <2>2, <2>3
<1>5. ASSUME NEW f \in Objects, NEW kind \in Kinds, MissedMessage(f, kind)
      PROVE  Deferred'
  BY <1>2, <1>5 DEF MissedMessage
<1>6. CASE MotionOn
  BY <1>6 DEF MotionOn, Deferred
<1>7. CASE MotionOff
  <2>1. UNCHANGED <<map, stale, monitor, analytics>>
    BY <1>7 DEF MotionOff
  <2>2. CASE ~NoneMapped(map) \/ analytics = None
    BY <2>1, <2>2 DEF Deferred, NoneMapped
  <2>3. CASE handler' = [handler EXCEPT ![arrived + 1] =
                           [Done EXCEPT !.pc = "stopping", !.ev = analytics]]
    <3>1. PICK n \in Messages : n = arrived + 1
      BY <1>7, BoundsAssumption DEF MotionOff, Messages, TypeOK
    <3>2. handler'[n].pc = "stopping" /\ handler'[n].ev = analytics
      BY <2>3, <3>1 DEF Done, TypeOK
    <3>3. StopsOrMaps(n)'
      BY <2>1, <3>2 DEF StopsOrMaps
    <3> QED
      BY <2>1, <3>3 DEF Deferred
  <2> QED
    BY <1>7, <2>2, <2>3 DEF MotionOff
<1>8. ASSUME NEW m \in Messages, HandleMessage(m)
      PROVE  Deferred'
  BY <1>0, <1>8, HandlerDefers
<1>9. ASSUME NEW u \in Events, Silence(u)
      PROVE  Deferred'
  BY <1>9 DEF Silence, Undisturbed
<1>10. CASE Monitor
  <2>1. MarkExpired = {} /\ monitor.pc = "asleep"
    BY DEF Deferred, MarkExpired, Asleep
  <2> QED
    BY <1>10, <2>1 DEF Monitor, MonitorTick, TimedOut, TimeoutUnmapped
<1>11. CASE BrokerLost \/ ProtectLost \/ ProtectReboots
  BY <1>0, <1>11 DEF BrokerLost, ProtectLost, ProtectReboots, Closed, TasksCancelled
<1>12. CASE Linked
  BY <1>2, <1>12 DEF Linked
<1>13. CASE UNCHANGED vars
  BY <1>2, <1>13 DEF vars, brokerVars
<1> QED
  BY <1>4, <1>5, <1>6, <1>7, <1>8, <1>9, <1>10, <1>11, <1>12, <1>13 DEF Next

\* Undisturbed tracking makes up for every "OFF" it has deferred: when all
\* handlers have returned, the motion is over and no object is mapped, no
\* generic event is active, wherever the "OFF" came between the steps of the
\* handlers that map and unmap events.
THEOREM DeferredStopTheorem ==
    ASSUME Undisturbed
    PROVE  Spec => []DeferredStopHappens
<1>1. Init => Deferred
  BY DeferredInit
<1>2. TypeOK /\ IdsHaveOneHolder /\ Kept /\ Deferred /\ [Next]_vars => Deferred'
  BY DeferredStep
<1>3. Deferred => DeferredStopHappens
  BY DoneShape DEF Deferred, DeferredStopHappens, Quiet, StopsOrMaps, Starting
<1> QED
  BY <1>1, <1>2, <1>3, KeptIsInvariant, PTL DEF Spec

-----------------------------------------------------------------------------
(***************************************************************************)
(* Tracking.  Frigate's own order of messages is one "new", updates and at *)
(* most one "end" for an object; nothing of it is lost, nothing times out. *)
(***************************************************************************)

Orderly == InOrder /\ Undisturbed

\* Task m works for object f.
Of(m, f) == handler[m].pc # "done" /\ handler[m].obj = f

\* What a task does depends on its message alone: in particular only "new"
\* starts an event, and it finds none to replace.
Duty(kind, pc) ==
    \/ kind = "new" /\ pc \in {"waiting", "entering", "registered"}
    \/ kind = "update" /\ pc \in {"waiting", "moving", "fetching"}
    \/ kind = "end" /\ pc \in {"waiting", "final", "leaving", "left", "stopping"}

UsesMap(m) == handler[m].pc \in {"moving", "fetching", "final", "leaving", "left"}

IsNew(f) == \E m \in Messages : Of(m, f) /\ handler[m].kind = "new"
IsEnding(f) ==
    \E m \in Messages : Of(m, f) /\ handler[m].kind = "end" /\ handler[m].pc # "stopping"

\* The tasks of an object take turns, in the order of its messages, under one
\* lock; the one at work uses the event the object is mapped to.
InTurn(f) ==
    /\ \A m \in Messages : Of(m, f) =>
         handler[m].gen = gen[f] /\ Duty(handler[m].kind, handler[m].pc)
    /\ \A m, k \in Messages : Of(m, f) /\ Of(k, f) /\ m < k =>
         handler[k].pc = "waiting" /\ handler[k].kind # "new" /\ handler[m].kind # "end"
    /\ \A m \in Messages : Of(m, f) /\ UsesMap(m) => map[f] # None /\ handler[m].ev = map[f]

\* The mapping follows what Frigate has published, by the tasks under way.
Follows(f) ==
    /\ frigate[f] = "unseen" => map[f] = None /\ \A m \in Messages : ~Of(m, f)
    /\ frigate[f] = "live" => \A m \in Messages : Of(m, f) => handler[m].kind # "end"
    /\ IsNew(f) => map[f] = None
    /\ frigate[f] = "over" =>
         \/ IsEnding(f)
         \/ map[f] = None /\ \A m \in Messages : Of(m, f) => handler[m].pc = "stopping"
    /\ (frigate[f] = "live" \/ IsEnding(f)) /\ ~IsNew(f) => map[f] # None

Lane(f) == InTurn(f) /\ Follows(f)
Lanes == \A f \in Objects : Lane(f)

\* The environment is as orderly as assumed.
Still == stale = {} /\ monitor = Asleep /\ link = "up" /\ drops = 0

LEMMA StillInit == Init => Still
BY DEF Init, Still

LEMMA LanesInit == Init => Lanes
<1> SUFFICES ASSUME Init, NEW f \in Objects PROVE Lane(f)
  BY DEF Lanes
<1>1. \A m \in Messages : ~Of(m, f)
  BY DoneShape DEF Init, Of
<1>2. frigate[f] = "unseen" /\ map[f] = None
  BY DEF Init
<1> QED
  BY <1>1, <1>2 DEF Lane, InTurn, Follows, IsNew, IsEnding

LEMMA StillStep ==
    ASSUME Orderly, TypeOK, Still, [Next]_vars
    PROVE  Still'
<1>1. MaxDrops = 0 /\ ~Timeouts
  BY DEF Orderly, Undisturbed
<1>2. ASSUME NEW f \in Objects, NEW kind \in Kinds, DetectionMessage(f, kind) \/ MissedMessage(f, kind)
      PROVE  Still'
  BY <1>2 DEF DetectionMessage, MissedMessage, Still
<1>3. CASE MotionOn \/ MotionOff
  BY <1>3 DEF MotionOn, MotionOff, Still
<1>4. ASSUME NEW m \in Messages, HandleMessage(m)
      PROVE  Still'
  <2>1. TaskStep(m)
    BY <1>4, HandlerTask
  <2>2. link' = link
    BY <1>4 DEF HandleMessage, HandleNew, Replaced, StartAfterReplaced, Registered, Mapped,
       HandleUpdate, Moved, SnapshotsFetched, EndUnknown, HandleEnd, Leave, Left, Unmapped,
       AnalyticsStopped, brokerVars
  <2> QED
    BY <2>1, <2>2 DEF TaskStep, Still
<1>5. ASSUME NEW u \in Events, Silence(u) PROVE Still'
  BY <1>1, <1>5 DEF Silence
<1>6. CASE Monitor
  <2>1. MarkExpired = {} /\ monitor.pc = "asleep"
    BY DEF Still, MarkExpired, Asleep
  <2> QED
    BY <1>6, <2>1 DEF Monitor, MonitorTick, TimedOut, TimeoutUnmapped
<1>7. CASE BrokerLost \/ ProtectLost \/ ProtectReboots
  BY <1>1, <1>7 DEF BrokerLost, ProtectLost, ProtectReboots, Closed, TasksCancelled, Still
<1>8. CASE Linked \/ UNCHANGED vars
  BY <1>8 DEF Linked, vars, brokerVars, Still
<1> QED
  BY <1>2, <1>3, <1>4, <1>5, <1>6, <1>7, <1>8 DEF Next

\* A task that moves is the first of its object's, and an "end" the only one.
LEMMA MovesFirst ==
    ASSUME TypeOK, NEW f \in Objects, Lane(f), NEW m \in Messages, handler[m].obj = f,
           HandleMessage(m)
    PROVE  /\ Of(m, f)
           /\ \A k \in Messages : k # m /\ Of(k, f) =>
                /\ handler[k].pc = "waiting" /\ handler[k].kind # "new"
                /\ handler[m].kind # "end"
<1>1. Of(m, f)
  BY HandlerTask DEF TaskStep, Of
<1>2. handler[m].pc # "waiting" \/ HasLock(m)
  BY DEF HandleMessage, HandleNew, Replaced, StartAfterReplaced, Registered, Mapped,
     HandleUpdate, Moved, SnapshotsFetched, EndUnknown, HandleEnd, Leave, Left, Unmapped,
     AnalyticsStopped
<1>3. ASSUME NEW k \in Messages, k # m, Of(k, f), k < m PROVE FALSE
  <2>1. HasLock(m)
    BY <1>1, <1>2, <1>3 DEF Lane, InTurn
  <2>2. handler[k].gen = handler[m].gen /\ handler[k].obj = handler[m].obj /\ handler[k].pc # "done"
    BY <1>1, <1>3 DEF Lane, InTurn, Of
  <2> QED
    BY <1>3, <2>1, <2>2 DEF HasLock
<1>4. \A k \in Messages : k # m /\ Of(k, f) => m < k
  <2>1. \A k \in Messages : k \in Int /\ m \in Int
    BY DEF Messages
  <2> QED
    BY <1>3, <2>1
<1> QED
  BY <1>1, <1>4 DEF Lane, InTurn

-----------------------------------------------------------------------------
(***************************************************************************)
(* The moves of a task m of object f.                                      *)
(***************************************************************************)

SameTask(m) ==
    /\ handler'[m].obj = handler[m].obj
    /\ handler'[m].kind = handler[m].kind
    /\ handler'[m].gen = handler[m].gen

NewGoes(m, f) ==
    /\ handler[m].kind = "new" /\ SameTask(m)
    /\ handler'[m].pc \in {"entering", "registered"}
    /\ map'[f] = None /\ gen'[f] = gen[f]

NewMaps(m, f) ==
    /\ handler[m].kind = "new" /\ handler'[m].pc = "done"
    /\ map'[f] # None /\ gen'[f] = gen[f]

Updates(m, f) ==
    /\ handler[m].kind = "update"
    /\ \/ handler'[m].pc = "done"
       \/ /\ SameTask(m) /\ handler'[m].pc \in {"moving", "fetching"}
          /\ handler'[m].ev = map[f]
    /\ map[f] # None /\ map'[f] = map[f] /\ gen'[f] = gen[f]

EndGoes(m, f) ==
    /\ handler[m].kind = "end" /\ SameTask(m)
    /\ handler'[m].pc \in {"final", "leaving", "left"}
    /\ handler'[m].ev = map[f]
    /\ map[f] # None /\ map'[f] = map[f] /\ gen'[f] = gen[f]

EndUnmaps(m, f) ==
    /\ handler[m].kind = "end" /\ handler[m].pc = "left"
    /\ map'[f] = None
    /\ \/ handler'[m].pc = "done"
       \/ SameTask(m) /\ handler'[m].pc = "stopping" /\ gen'[f] = gen[f]

EndStops(m, f) ==
    /\ handler[m].kind = "end" /\ handler[m].pc = "stopping"
    /\ handler'[m].pc = "done"
    /\ map'[f] = map[f]

\* Each of them keeps the lane of the object.
LEMMA MoveKeepsLane ==
    ASSUME TypeOK, NEW f \in Objects, Lane(f), NEW m \in Messages, handler[m].obj = f,
           HandleMessage(m), TaskStep(m), frigate' = frigate,
           \/ NewGoes(m, f) \/ NewMaps(m, f) \/ Updates(m, f)
           \/ EndGoes(m, f) \/ EndUnmaps(m, f) \/ EndStops(m, f)
    PROVE  Lane(f)'
<1>1. /\ Of(m, f)
      /\ \A k \in Messages : k # m /\ Of(k, f) =>
           /\ handler[k].pc = "waiting" /\ handler[k].kind # "new"
           /\ handler[m].kind # "end"
  BY MovesFirst
<1>2. \A k \in Messages : k # m => handler'[k] = handler[k] /\ (Of(k, f)' <=> Of(k, f))
  BY DEF TaskStep, Of
<1>3. handler[m].kind # "end" => gen'[f] = gen[f]
  BY DEF NewGoes, NewMaps, Updates, EndGoes, EndUnmaps, EndStops
<1>4. /\ Of(m, f)' => /\ SameTask(m) /\ gen'[f] = gen[f]
                      /\ Duty(handler[m].kind, handler'[m].pc)
      /\ Of(m, f)' /\ UsesMap(m)' => map'[f] # None /\ handler'[m].ev = map'[f]
  BY DEF NewGoes, NewMaps, Updates, EndGoes, EndUnmaps, EndStops, Of, Duty, UsesMap
<1>5. InTurn(f)'
  <2>1. \A k \in Messages : Of(k, f)' =>
          handler'[k].gen = gen'[f] /\ Duty(handler'[k].kind, handler'[k].pc)
    <3>1. ASSUME NEW k \in Messages, k # m, Of(k, f)'
          PROVE  handler'[k].gen = gen'[f] /\ Duty(handler'[k].kind, handler'[k].pc)
      BY <1>1, <1>2, <1>3, <3>1 DEF Lane, InTurn
    <3>2. Of(m, f)' => handler'[m].gen = gen'[f] /\ Duty(handler'[m].kind, handler'[m].pc)
      BY <1>1, <1>4 DEF Lane, InTurn, SameTask
    <3> QED
      BY <3>1, <3>2
  <2>2. \A j, k \in Messages : Of(j, f)' /\ Of(k, f)' /\ j < k =>
          handler'[k].pc = "waiting" /\ handler'[k].kind # "new" /\ handler'[j].kind # "end"
    <3> SUFFICES ASSUME NEW j \in Messages, NEW k \in Messages, Of(j, f)', Of(k, f)', j < k
                 PROVE  handler'[k].pc = "waiting" /\ handler'[k].kind # "new" /\ handler'[j].kind # "end"
      OBVIOUS
    <3>1. Of(j, f) /\ Of(k, f)
      BY <1>1, <1>2
    <3>2. k # m
      <4>1. CASE k = m
        <5>1. j # m
          BY <4>1 DEF Messages
        <5>2. handler[m].pc = "waiting" /\ handler[m].kind # "new" /\ handler[j].kind # "end"
          BY <3>1, <4>1 DEF Lane, InTurn
        <5>3. HasLock(m)
          BY <5>2 DEF HandleMessage, HandleNew, Replaced, StartAfterReplaced, Registered, Mapped,
             HandleUpdate, Moved, SnapshotsFetched, EndUnknown, HandleEnd, Leave, Left, Unmapped,
             AnalyticsStopped
        <5>4. handler[j].gen = handler[m].gen /\ handler[j].obj = handler[m].obj /\ handler[j].pc # "done"
          BY <1>1, <3>1 DEF Lane, InTurn, Of
        <5> QED
          BY <4>1, <5>3, <5>4 DEF HasLock
      <4> QED
        BY <4>1
    <3>3. handler'[k] = handler[k] /\ handler[k].pc = "waiting" /\ handler[k].kind # "new"
      BY <1>1, <1>2, <3>1, <3>2
    <3>4. handler[j].kind # "end"
      BY <3>1 DEF Lane, InTurn
    <3>5. handler'[j].kind = handler[j].kind
      BY <1>2, <1>4 DEF SameTask
    <3> QED
      BY <3>3, <3>4, <3>5
  <2>3. \A k \in Messages : Of(k, f)' /\ UsesMap(k)' => map'[f] # None /\ handler'[k].ev = map'[f]
    BY <1>1, <1>2, <1>4 DEF UsesMap
  <2> QED
    BY <2>1, <2>2, <2>3 DEF InTurn
<1>6. frigate[f] # "unseen"
  BY <1>1 DEF Lane, Follows
<1>7. \A k \in Messages : Of(k, f)' => Of(k, f) /\ handler'[k].kind = handler[k].kind
  BY <1>1, <1>2, <1>4 DEF SameTask
<1>8. IsNew(f)' => handler[m].kind = "new" /\ Of(m, f)'
  BY <1>1, <1>2, <1>7 DEF IsNew
<1>9. handler[m].kind = "end" =>
        /\ frigate[f] = "over"
        /\ \A k \in Messages : Of(k, f)' => k = m
        /\ ~IsNew(f)'
  <2>1. frigate[f] \in {"unseen", "live", "over"}
    BY DEF TypeOK
  <2> QED
    BY <1>1, <1>2, <1>6, <1>8, <2>1 DEF Lane, Follows
<1>10. handler[m].kind # "end" => (IsEnding(f)' <=> IsEnding(f))
  BY <1>2, <1>7 DEF IsEnding
<1>11. frigate[f] = "live" => \A k \in Messages : Of(k, f)' => handler'[k].kind # "end"
  BY <1>7 DEF Lane, Follows
<1>12. CASE NewGoes(m, f)
  <2>1. handler[m].kind = "new" /\ map'[f] = None /\ Of(m, f)'
    BY <1>12, <1>1 DEF NewGoes, SameTask, Of
  <2>2. IsNew(f)'
    BY <1>7, <2>1 DEF IsNew
  <2>3. frigate[f] = "over" => IsEnding(f)
    BY <1>1, <2>1 DEF Lane, Follows, InTurn, Duty
  <2> QED
    BY <1>5, <1>6, <1>10, <1>11, <2>1, <2>2, <2>3 DEF Lane, Follows
<1>13. CASE NewMaps(m, f)
  <2>1. handler[m].kind = "new" /\ map'[f] # None /\ ~Of(m, f)'
    BY <1>13 DEF NewMaps, Of
  <2>2. ~IsNew(f)'
    BY <1>8, <2>1
  <2>3. frigate[f] = "over" => IsEnding(f)
    BY <1>1, <2>1 DEF Lane, Follows, InTurn, Duty
  <2> QED
    BY <1>5, <1>6, <1>10, <1>11, <2>1, <2>2, <2>3 DEF Lane, Follows
<1>14. CASE Updates(m, f)
  <2>1. handler[m].kind = "update" /\ map'[f] # None
    BY <1>14 DEF Updates
  <2>2. ~IsNew(f)'
    BY <1>8, <2>1
  <2>3. frigate[f] = "over" => IsEnding(f)
    BY <1>1, <2>1 DEF Lane, Follows, InTurn, Duty
  <2> QED
    BY <1>5, <1>6, <1>10, <1>11, <2>1, <2>2, <2>3 DEF Lane, Follows
<1>15. CASE EndGoes(m, f)
  <2>1. handler[m].kind = "end" /\ map'[f] # None /\ Of(m, f)' /\ handler'[m].pc # "stopping"
    BY <1>15, <1>1 DEF EndGoes, SameTask, Of
  <2>2. IsEnding(f)'
    BY <1>7, <2>1 DEF IsEnding
  <2> QED
    BY <1>5, <1>9, <2>1, <2>2 DEF Lane, Follows
<1>16. CASE EndUnmaps(m, f)
  <2>1. handler[m].kind = "end" /\ map'[f] = None /\ handler'[m].pc \in {"done", "stopping"}
    BY <1>16 DEF EndUnmaps
  <2>2. \A k \in Messages : Of(k, f)' => handler'[k].pc = "stopping"
    BY <1>9, <2>1 DEF Of
  <2>3. ~IsEnding(f)'
    BY <2>2 DEF IsEnding
  <2> QED
    BY <1>5, <1>9, <2>1, <2>2, <2>3 DEF Lane, Follows
<1>17. CASE EndStops(m, f)
  <2>1. handler[m].kind = "end" /\ handler[m].pc = "stopping" /\ map'[f] = map[f] /\ ~Of(m, f)'
    BY <1>17 DEF EndStops, Of
  <2>2. \A k \in Messages : ~Of(k, f)'
    BY <1>9, <2>1
  <2>3. ~IsEnding(f)' /\ ~IsEnding(f)
    BY <1>1, <2>1, <2>2 DEF IsEnding
  <2>4. map[f] = None
    BY <1>9, <2>1, <2>3 DEF Lane, Follows
  <2> QED
    BY <1>5, <1>9, <2>1, <2>2, <2>3, <2>4 DEF Lane, Follows
<1> QED
  BY <1>12, <1>13, <1>14, <1>15, <1>16, <1>17

\* The other fields of a task stay as they are.
LEMMA SameTaskShape ==
    ASSUME TypeOK, NEW m \in Messages,
           \/ \E pc : Goto(m, pc)
           \/ \E pc, u : Becomes(m, pc, u)
           \/ SmartDetectStart(m)
    PROVE  SameTask(m)
<1>1. ASSUME NEW pc, Goto(m, pc) PROVE SameTask(m)
  BY <1>1 DEF Goto, SameTask, TypeOK, Tasks, DetectionTasks, OtherTasks
<1>2. ASSUME NEW pc, NEW u, Becomes(m, pc, u) PROVE SameTask(m)
  BY <1>2 DEF Becomes, SameTask, TypeOK, Tasks, DetectionTasks, OtherTasks
<1> QED
  BY <1>1, <1>2 DEF SmartDetectStart, Becomes

\* An object that Frigate has announced, and no other task is about to map, is
\* mapped, and its event known, before its "end" is handled.
LEMMA IsMapped ==
    ASSUME TypeOK, Kept, Still, NEW f \in Objects, Lane(f), NEW m \in Messages,
           handler[m].obj = f, handler[m].kind \in {"update", "end"},
           handler[m].pc = "waiting", HandleMessage(m)
    PROVE  map[f] # None /\ Known(map[f])
<1>1. /\ Of(m, f)
      /\ \A k \in Messages : k # m /\ Of(k, f) =>
           handler[k].pc = "waiting" /\ handler[k].kind # "new"
  BY MovesFirst
<1>2. ~IsNew(f)
  BY <1>1 DEF IsNew
<1>3. frigate[f] = "live" \/ IsEnding(f)
  <2>1. frigate[f] \in {"unseen", "live", "over"}
    BY DEF TypeOK
  <2>2. CASE frigate[f] = "unseen"
    BY <1>1, <2>2 DEF Lane, Follows
  <2>3. CASE frigate[f] = "over"
    BY <1>1, <2>3 DEF Lane, Follows
  <2> QED
    BY <2>1, <2>2, <2>3
<1>4. map[f] # None
  BY <1>2, <1>3 DEF Lane, Follows
<1>5. Known(map[f])
  BY <1>4, MappedIsKnown DEF Still
<1> QED
  BY <1>4, <1>5

LEMMA HandlerMove ==
    ASSUME TypeOK, IdsHaveOneHolder, Kept, Still, NEW f \in Objects, Lane(f),
           NEW m \in Messages, handler[m].obj = f, HandleMessage(m)
    PROVE  \/ NewGoes(m, f) \/ NewMaps(m, f) \/ Updates(m, f)
           \/ EndGoes(m, f) \/ EndUnmaps(m, f) \/ EndStops(m, f)
<1>1. Of(m, f)
  BY MovesFirst
<1>2. Duty(handler[m].kind, handler[m].pc) /\ (UsesMap(m) => map[f] # None /\ handler[m].ev = map[f])
  BY <1>1 DEF Lane, InTurn
<1>3. handler[m].kind = "new" => map[f] = None
  BY <1>1 DEF Lane, Follows, IsNew
<1>4. ~Known(None)
  BY DEF Known
<1>5. CASE HandleNew(m)
  <2>1. handler[m].kind = "new" /\ map[f] = None
    BY <1>3, <1>5 DEF HandleNew
  <2>2. SmartDetectStart(m) /\ map' = [map EXCEPT ![f] = None] /\ gen' = gen
    BY <1>4, <1>5, <2>1 DEF HandleNew
  <2>3. SameTask(m) /\ handler'[m].pc = "entering"
    BY <2>2, SameTaskShape, StartShape
  <2> QED
    BY <2>1, <2>2, <2>3 DEF NewGoes, TypeOK
<1>6. CASE Replaced(m) \/ StartAfterReplaced(m)
  BY <1>2, <1>6 DEF Replaced, StartAfterReplaced, Duty
<1>7. CASE Registered(m)
  <2>1. handler[m].kind = "new" /\ map[f] = None
    BY <1>2, <1>3, <1>7 DEF Registered, Duty
  <2>2. Goto(m, "registered") /\ UNCHANGED <<map, gen>>
    BY <1>7 DEF Registered
  <2>3. SameTask(m) /\ handler'[m].pc = "registered"
    BY <2>2, SameTaskShape, GotoShape
  <2> QED
    BY <2>1, <2>2, <2>3 DEF NewGoes
<1>8. CASE Mapped(m)
  <2>1. handler[m].kind = "new"
    BY <1>2, <1>8 DEF Mapped, Duty
  <2>2. handler[m].ev # None
    BY <1>8, EventIds DEF Mapped, Starting, IdsHaveOneHolder
  <2>3. map'[f] = handler[m].ev /\ gen' = gen /\ handler'[m].pc = "done"
    BY <1>8, FinishShape DEF Mapped, TypeOK
  <2> QED
    BY <2>1, <2>2, <2>3 DEF NewMaps
<1>9. CASE HandleUpdate(m)
  <2>1. handler[m].kind = "update" /\ handler[m].pc = "waiting"
    BY <1>9 DEF HandleUpdate, HasLock
  <2>2. map[f] # None /\ Known(map[f])
    BY <2>1, IsMapped
  <2>3. Becomes(m, "moving", map[f]) /\ UNCHANGED <<map, gen>>
    BY <1>9, <2>2 DEF HandleUpdate, Becomes
  <2>4. SameTask(m) /\ handler'[m].pc = "moving" /\ handler'[m].ev = map[f]
    BY <2>3, SameTaskShape, WorkShape
  <2> QED
    BY <2>1, <2>2, <2>3, <2>4 DEF Updates
<1>10. CASE Moved(m)
  <2>1. handler[m].kind = "update" /\ map[f] # None /\ handler[m].ev = map[f]
    BY <1>2, <1>10 DEF Moved, Duty, UsesMap
  <2>2. UNCHANGED <<map, gen>>
    BY <1>10 DEF Moved
  <2>3. \/ handler'[m].pc = "done"
        \/ SameTask(m) /\ handler'[m].pc = "fetching" /\ handler'[m].ev = map[f]
    BY <1>10, <2>1, SameTaskShape, GotoShape, FinishShape DEF Moved
  <2> QED
    BY <2>1, <2>2, <2>3 DEF Updates
<1>11. CASE SnapshotsFetched(m)
  <2>1. handler[m].kind = "update" /\ map[f] # None
    BY <1>2, <1>11 DEF SnapshotsFetched, Duty, UsesMap
  <2> QED
    BY <1>11, <2>1, FinishShape DEF SnapshotsFetched, Updates
<1>12. CASE EndUnknown(m)
  <2>1. handler[m].kind = "end" /\ handler[m].pc = "waiting" /\ ~Known(map[f])
    BY <1>12 DEF EndUnknown, HasLock
  <2> QED
    BY <2>1, IsMapped
<1>13. CASE HandleEnd(m)
  <2>1. handler[m].kind = "end" /\ map[f] # None
    BY <1>4, <1>13 DEF HandleEnd
  <2>2. Becomes(m, "final", map[f]) /\ UNCHANGED <<map, gen>>
    BY <1>13 DEF HandleEnd, Becomes
  <2>3. SameTask(m) /\ handler'[m].pc = "final" /\ handler'[m].ev = map[f]
    BY <2>2, SameTaskShape, WorkShape
  <2> QED
    BY <2>1, <2>2, <2>3 DEF EndGoes
<1>14. CASE Leave(m)
  <2>1. handler[m].kind = "end" /\ map[f] # None /\ handler[m].ev = map[f]
    BY <1>2, <1>14 DEF Leave, Duty, UsesMap
  <2>2. Goto(m, "leaving") /\ UNCHANGED <<map, gen>>
    BY <1>14 DEF Leave
  <2>3. SameTask(m) /\ handler'[m].pc = "leaving" /\ handler'[m].ev = map[f]
    BY <2>1, <2>2, SameTaskShape, GotoShape
  <2> QED
    BY <2>1, <2>2, <2>3 DEF EndGoes
<1>15. CASE Left(m)
  <2>1. handler[m].kind = "end" /\ map[f] # None /\ handler[m].ev = map[f]
    BY <1>2, <1>15 DEF Left, Duty, UsesMap
  <2>2. Goto(m, "left") /\ UNCHANGED <<map, gen>>
    BY <1>15 DEF Left
  <2>3. SameTask(m) /\ handler'[m].pc = "left" /\ handler'[m].ev = map[f]
    BY <2>1, <2>2, SameTaskShape, GotoShape
  <2> QED
    BY <2>1, <2>2, <2>3 DEF EndGoes
<1>16. CASE Unmapped(m)
  <2>1. handler[m].kind = "end" /\ handler[m].pc = "left" /\ map'[f] = None
    BY <1>2, <1>16 DEF Unmapped, Duty, TypeOK
  <2>2. Finish(m) \/ (Becomes(m, "stopping", analytics) /\ gen' = gen)
    BY <1>16 DEF Unmapped, Becomes
  <2>3. \/ handler'[m].pc = "done"
        \/ SameTask(m) /\ handler'[m].pc = "stopping" /\ gen' = gen
    BY <2>2, FinishShape, WorkShape, SameTaskShape
  <2> QED
    BY <2>1, <2>3 DEF EndUnmaps
<1>17. CASE AnalyticsStopped(m)
  BY <1>2, <1>17, FinishShape DEF AnalyticsStopped, Duty, EndStops
<1> QED
  BY <1>5, <1>6, <1>7, <1>8, <1>9, <1>10, <1>11, <1>12, <1>13, <1>14, <1>15,
     <1>16, <1>17 DEF HandleMessage

\* A task leaves the locks and the mappings of other objects alone.
LEMMA HandlerElsewhere ==
    ASSUME TypeOK, NEW m \in Messages, HandleMessage(m)
    PROVE  /\ frigate' = frigate
           /\ \A g \in Objects : g # handler[m].obj => map'[g] = map[g] /\ gen'[g] = gen[g]
<1>1. \A g \in Objects : g # handler[m].obj => LockDropped(m)[g] = gen[g]
  BY DEF LockDropped, TypeOK
<1>2. \A u, g \in Objects : g # handler[m].obj => [map EXCEPT ![handler[m].obj] = u][g] = map[g]
  BY DEF TypeOK
<1>3. CASE HandleNew(m) \/ StartAfterReplaced(m)
  BY <1>3 DEF HandleNew, StartAfterReplaced, brokerVars, TypeOK
<1>4. CASE Replaced(m) \/ Registered(m) \/ HandleUpdate(m) \/ Moved(m) \/ SnapshotsFetched(m)
           \/ HandleEnd(m) \/ Leave(m) \/ Left(m)
  BY <1>4 DEF Replaced, Registered, HandleUpdate, Moved, SnapshotsFetched, HandleEnd,
     Leave, Left, brokerVars
<1>5. CASE Mapped(m)
  BY <1>5 DEF Mapped, brokerVars, TypeOK
<1>6. CASE EndUnknown(m) \/ Unmapped(m)
  BY <1>1, <1>6 DEF EndUnknown, Unmapped, brokerVars, TypeOK
<1>7. CASE AnalyticsStopped(m)
  BY <1>1, <1>7 DEF AnalyticsStopped, brokerVars
<1> QED
  BY <1>3, <1>4, <1>5, <1>6, <1>7 DEF HandleMessage

\* A lane none of whose tasks, messages, locks and mappings change stays.
LEMMA LaneSame ==
    ASSUME NEW f \in Objects, Lane(f), frigate'[f] = frigate[f],
           map'[f] = map[f], gen'[f] = gen[f],
           \A k \in Messages : (Of(k, f) \/ Of(k, f)') => handler'[k] = handler[k]
    PROVE  Lane(f)'
<1>1. \A k \in Messages : Of(k, f)' <=> Of(k, f)
  BY DEF Of
<1>2. InTurn(f)'
  BY <1>1 DEF Lane, InTurn, UsesMap
<1>3. (IsNew(f)' <=> IsNew(f)) /\ (IsEnding(f)' <=> IsEnding(f))
  BY <1>1 DEF IsNew, IsEnding
<1>4. \A k \in Messages : Of(k, f)' => handler'[k] = handler[k] /\ Of(k, f)
  BY <1>1
<1>5. Follows(f)'
  BY <1>1, <1>3, <1>4 DEF Lane, Follows
<1> QED
  BY <1>2, <1>5 DEF Lane

LEMMA HandlerLanes ==
    ASSUME TypeOK, IdsHaveOneHolder, Kept, Still, Lanes, NEW m \in Messages, HandleMessage(m)
    PROVE  Lanes'
<1> SUFFICES ASSUME NEW f \in Objects PROVE Lane(f)'
  BY DEF Lanes
<1>1. TaskStep(m) /\ Lane(f)
  BY HandlerTask DEF Lanes
<1>2. CASE handler[m].obj = f
  BY <1>1, <1>2, HandlerMove, HandlerElsewhere, MoveKeepsLane
<1>3. CASE handler[m].obj # f
  <2>1. handler'[m].pc = "done" \/ SameTask(m)
    <3>1. CASE handler[m].obj \in Objects
      BY <3>1, HandlerMove DEF Lanes, NewGoes, NewMaps, Updates, EndGoes, EndUnmaps, EndStops
    <3>2. CASE handler[m].obj \notin Objects
      <4>1. handler[m].pc \in {"done", "stopping"}
        BY <3>2, HandlerObject
      <4>2. AnalyticsStopped(m)
        BY <4>1 DEF HandleMessage, HandleNew, Replaced, StartAfterReplaced, Registered,
           Mapped, HandleUpdate, Moved, SnapshotsFetched, EndUnknown, HandleEnd, Leave,
           Left, Unmapped, HasLock
      <4> QED
        BY <4>2, FinishShape DEF AnalyticsStopped
    <3> QED
      BY <3>1, <3>2
  <2>2. ~Of(m, f) /\ ~Of(m, f)'
    BY <1>3, <2>1 DEF Of, SameTask
  <2>3. \A k \in Messages : (Of(k, f) \/ Of(k, f)') => handler'[k] = handler[k]
    BY <1>1, <2>2 DEF TaskStep
  <2> QED
    BY <1>1, <1>3, <2>3, HandlerElsewhere, LaneSame
<1> QED
  BY <1>2, <1>3

\* A message takes its place at the end of its object's lane.
LEMMA MessageLanes ==
    ASSUME Orderly, TypeOK, Kept, Still, Lanes,
           NEW f \in Objects, NEW kind \in Kinds, DetectionMessage(f, kind)
    PROVE  Lanes'
<1> SUFFICES ASSUME NEW g \in Objects PROVE Lane(g)'
  BY DEF Lanes
<1> DEFINE t == [pc |-> "waiting", kind |-> kind, obj |-> f, gen |-> gen[f], ev |-> None]
<1>1. PICK n \in Messages : n = arrived + 1
  BY BoundsAssumption DEF DetectionMessage, Messages, TypeOK
<1>2. /\ handler'[n] = t
      /\ \A k \in Messages : k # n => handler'[k] = handler[k]
      /\ UNCHANGED <<map, gen>>
  BY <1>1 DEF DetectionMessage, TypeOK
<1>3. handler[n] = Done /\ \A k \in Messages : k > n => handler[k] = Done
  BY <1>1 DEF Kept, SlotsFree, Messages, TypeOK
<1>4. /\ \A k \in Messages : \A h : Of(k, h) => k < n
      /\ \A h : ~Of(n, h)
  <2>1. \A k \in Messages : \A h : Of(k, h) => k # n /\ ~(k > n)
    BY <1>3, DoneShape DEF Of
  <2>2. \A k \in Messages : k \in Int /\ n \in Int
    BY DEF Messages
  <2> QED
    BY <2>1, <2>2
<1>5. Lane(g)
  BY DEF Lanes
<1>6. CASE g # f
  <2>1. ~Of(n, g)'
    BY <1>2, <1>6 DEF Of
  <2>2. \A k \in Messages : (Of(k, g) \/ Of(k, g)') => handler'[k] = handler[k]
    BY <1>2, <1>4, <2>1
  <2>3. frigate'[g] = frigate[g]
    BY <1>6 DEF DetectionMessage, Published, TypeOK
  <2> QED
    BY <1>2, <1>5, <2>2, <2>3, LaneSame
<1>7. CASE g = f
  <2>1. /\ Of(n, f)' /\ handler'[n].pc = "waiting" /\ handler'[n].kind = kind
        /\ handler'[n].gen = gen'[f] /\ ~UsesMap(n)'
    BY <1>2 DEF Of, UsesMap
  <2>2. \A k \in Messages : k # n => handler'[k] = handler[k] /\ (Of(k, f)' <=> Of(k, f))
    BY <1>2 DEF Of
  <2>3. \/ kind = "new" /\ frigate[f] = "unseen" /\ frigate'[f] = "live"
        \/ kind = "update" /\ frigate[f] = "live" /\ frigate'[f] = "live"
        \/ kind = "end" /\ frigate[f] = "live" /\ frigate'[f] = "over"
    BY DEF DetectionMessage, MayPublish, Published, Orderly, Kinds, TypeOK
  <2>4. frigate[f] = "unseen" => map[f] = None /\ \A k \in Messages : ~Of(k, f)
    BY <1>5, <1>7 DEF Lane, Follows
  <2>5. \A k \in Messages : Of(k, f) => handler[k].kind # "end"
    BY <1>5, <1>7, <2>3, <2>4 DEF Lane, Follows
  <2>6. InTurn(f)'
    <3>1. \A k \in Messages : Of(k, f)' =>
            handler'[k].gen = gen'[f] /\ Duty(handler'[k].kind, handler'[k].pc)
      <4>1. Duty(kind, "waiting")
        BY DEF Duty, Kinds
      <4> QED
        BY <1>2, <1>5, <1>7, <2>1, <2>2, <4>1 DEF Lane, InTurn
    <3>2. \A j, k \in Messages : Of(j, f)' /\ Of(k, f)' /\ j < k =>
            handler'[k].pc = "waiting" /\ handler'[k].kind # "new" /\ handler'[j].kind # "end"
      <4> SUFFICES ASSUME NEW j \in Messages, NEW k \in Messages, Of(j, f)', Of(k, f)', j < k
                   PROVE  /\ handler'[k].pc = "waiting" /\ handler'[k].kind # "new"
                          /\ handler'[j].kind # "end"
        OBVIOUS
      <4>1. j # n
        <5>1. CASE j = n
          <6>1. k # n /\ ~(k < n)
            BY <5>1 DEF Messages
          <6> QED
            BY <1>4, <2>2, <6>1
        <5> QED
          BY <5>1
      <4>2. Of(j, f) /\ handler'[j] = handler[j] /\ handler'[j].kind # "end"
        BY <2>2, <2>5, <4>1
      <4>3. CASE k = n
        BY <2>1, <2>3, <2>4, <4>2, <4>3
      <4>4. CASE k # n
        BY <1>5, <1>7, <2>2, <4>2, <4>4 DEF Lane, InTurn
      <4> QED
        BY <4>2, <4>3, <4>4
    <3>3. \A k \in Messages : Of(k, f)' /\ UsesMap(k)' => map'[f] # None /\ handler'[k].ev = map'[f]
      BY <1>2, <1>5, <1>7, <2>1, <2>2 DEF Lane, InTurn, UsesMap
    <3> QED
      BY <3>1, <3>2, <3>3 DEF InTurn
  <2>7. Follows(f)'
    <3>1. CASE kind = "new"
      <4>1. IsNew(f)' /\ map'[f] = None /\ frigate'[f] = "live"
        BY <1>2, <2>1, <2>3, <2>4, <3>1 DEF IsNew
      <4>2. \A k \in Messages : Of(k, f)' => handler'[k].kind # "end"
        BY <2>1, <2>2, <2>5, <3>1
      <4> QED
        BY <4>1, <4>2 DEF Follows
    <3>2. CASE kind # "new"
      <4>1. IsNew(f)' <=> IsNew(f)
        BY <1>4, <2>1, <2>2, <3>2 DEF IsNew
      <4>2. (IsNew(f) => map[f] = None) /\ (~IsNew(f) => map[f] # None)
        BY <1>5, <1>7, <2>3, <3>2 DEF Lane, Follows
      <4>3. CASE kind = "end"
        <5>1. IsEnding(f)' /\ frigate'[f] = "over"
          BY <2>1, <2>3, <4>3 DEF IsEnding
        <5> QED
          BY <1>2, <4>1, <4>2, <5>1 DEF Follows
      <4>4. CASE kind = "update"
        <5>1. frigate'[f] = "live"
          BY <2>3, <4>4
        <5>2. \A k \in Messages : Of(k, f)' => handler'[k].kind # "end"
          BY <2>1, <2>2, <2>5, <4>4
        <5> QED
          BY <1>2, <4>1, <4>2, <5>1, <5>2 DEF Follows
      <4> QED
        BY <2>3, <3>2, <4>3, <4>4
    <3> QED
      BY <3>1, <3>2
  <2> QED
    BY <1>7, <2>6, <2>7 DEF Lane
<1> QED
  BY <1>6, <1>7

LEMMA LanesStep ==
    ASSUME Orderly, TypeOK, IdsHaveOneHolder, Kept, Still, Lanes, [Next]_vars
    PROVE  Lanes'
<1>1. ASSUME NEW f \in Objects, NEW kind \in Kinds, DetectionMessage(f, kind)
      PROVE  Lanes'
  BY <1>1, MessageLanes
<1>2. ASSUME NEW f \in Objects, NEW kind \in Kinds, MissedMessage(f, kind)
      PROVE  Lanes'
  BY <1>2 DEF MissedMessage, Still
<1>3. ASSUME UNCHANGED <<frigate, map, gen, handler>> PROVE Lanes'
  BY <1>3, LaneSame DEF Lanes
<1>4. CASE MotionOn
  BY <1>3, <1>4 DEF MotionOn
<1>5. CASE MotionOff
  <2>1. CASE UNCHANGED handler
    BY <1>3, <1>5, <2>1 DEF MotionOff
  <2>2. CASE handler' = [handler EXCEPT ![arrived + 1] =
                           [Done EXCEPT !.pc = "stopping", !.ev = analytics]]
    <3>1. PICK n \in Messages : n = arrived + 1
      BY <1>5, BoundsAssumption DEF MotionOff, Messages, TypeOK
    <3>2. handler'[n].obj = None /\ \A k \in Messages : k # n => handler'[k] = handler[k]
      BY <2>2, <3>1 DEF Done, TypeOK
    <3>3. handler[n] = Done
      BY <3>1 DEF Kept, SlotsFree, TypeOK
    <3>4. \A f \in Objects : ~Of(n, f) /\ ~Of(n, f)'
      BY <3>2, <3>3, DoneShape, ObjectsAssumption DEF Of
    <3>5. \A f \in Objects, k \in Messages : (Of(k, f) \/ Of(k, f)') => handler'[k] = handler[k]
      BY <3>2, <3>4
    <3>6. UNCHANGED <<frigate, map, gen>>
      BY <1>5 DEF MotionOff
    <3> QED
      BY <3>5, <3>6, LaneSame DEF Lanes
  <2> QED
    BY <1>5, <2>1, <2>2 DEF MotionOff
<1>6. ASSUME NEW m \in Messages, HandleMessage(m)
      PROVE  Lanes'
  BY <1>6, HandlerLanes
<1>7. ASSUME NEW u \in Events, Silence(u)
      PROVE  Lanes'
  BY <1>3, <1>7 DEF Silence, brokerVars
<1>8. CASE Monitor
  <2>1. MarkExpired = {} /\ monitor.pc = "asleep"
    BY DEF Still, MarkExpired, Asleep
  <2> QED
    BY <1>8, <2>1 DEF Monitor, MonitorTick, TimedOut, TimeoutUnmapped
<1>9. CASE BrokerLost \/ ProtectLost \/ ProtectReboots
  BY <1>9 DEF BrokerLost, ProtectLost, ProtectReboots, Closed, TasksCancelled, Orderly,
     Undisturbed, Still
<1>10. CASE Linked \/ UNCHANGED vars
  BY <1>3, <1>10 DEF Linked, vars, brokerVars
<1> QED
  BY <1>1, <1>2, <1>4, <1>5, <1>6, <1>7, <1>8, <1>9, <1>10 DEF Next

-----------------------------------------------------------------------------
(***************************************************************************)
(* What Protect hears, and the events that are recorded.                   *)
(***************************************************************************)

LeavingNow(m) == handler[m].pc \in {"leaving", "left"}

\* An event that has left is nobody's to use: no handler has it still to map,
\* and who maps it is being unmapped.
LeftForGood(u) ==
    /\ leaves[u] = 1 /\ edge[u] = "leave"
    /\ u < nextEvent
    /\ \A f \in Objects : map[f] = u => \E m \in Messages : Of(m, f) /\ LeavingNow(m)
    /\ \A m \in Messages : Starting(m) => handler[m].ev # u

Wire == \A u \in Events : leaves[u] = 0 \/ LeftForGood(u)

\* A live event is mapped, or about to be.
Held ==
    \A u \in Events : event[u] = "live" =>
      \/ \E f \in Objects : map[f] = u
      \/ \E m \in Messages : handler[m].pc = "registered" /\ handler[m].ev = u

LEMMA WireInit == Init => Wire /\ Held
BY DEF Init, Wire, Held

LEMMA SendShape ==
    ASSUME TypeOK, NEW u \in Events, NEW e, Send(u, e)
    PROVE  /\ edge'[u] = e
           /\ leaves'[u] = IF e = "leave" THEN leaves[u] + 1 ELSE leaves[u]
           /\ \A v \in Events : v # u => edge'[v] = edge[v] /\ leaves'[v] = leaves[v]
BY DEF Send, TypeOK

\* An event that has left stays so, while nothing is sent about it and nobody
\* but its own handler lets go of it.
LEMMA LeftStays ==
    ASSUME TypeOK, TypeOK', IdsHaveOneHolder, IdStep, NEW u \in Events, LeftForGood(u),
           leaves'[u] = leaves[u], edge'[u] = edge[u],
           \A m \in Messages, f \in Objects :
             Of(m, f) /\ LeavingNow(m) => (Of(m, f) /\ LeavingNow(m))' \/ map'[f] = None
    PROVE  LeftForGood(u)'
<1>0. nextEvent' >= nextEvent /\ nextEvent \in Nat /\ nextEvent' \in Nat /\ u \in Nat /\ u # None
  BY IdsGrow, EventIds
<1>1. u < nextEvent'
  BY <1>0 DEF LeftForGood
<1>2. \A m \in Messages : Starting(m)' => handler'[m].ev # u
  <2> SUFFICES ASSUME NEW m \in Messages, Starting(m)' PROVE handler'[m].ev # u
    OBVIOUS
  <2>1. CASE Starting(m) /\ handler'[m].ev = handler[m].ev
    BY <2>1 DEF LeftForGood
  <2>2. CASE handler'[m].ev = nextEvent
    BY <1>0, <2>2 DEF LeftForGood
  <2> QED
    BY <2>1, <2>2, IdStepStarters
<1>3. \A f \in Objects : map'[f] = u => map[f] = u
  <2> SUFFICES ASSUME NEW f \in Objects, map'[f] = u, map[f] # u PROVE FALSE
    OBVIOUS
  <2>1. PICK m \in Messages : Mapped(m)
    BY <1>0 DEF IdStep, MapShrinks
  <2>2. Starting(m) /\ handler[m].ev = u
    BY <2>1 DEF Mapped, Starting, TypeOK
  <2> QED
    BY <2>2 DEF LeftForGood
<1>4. \A f \in Objects : map'[f] = u => \E m \in Messages : Of(m, f)' /\ LeavingNow(m)'
  BY <1>0, <1>3 DEF LeftForGood
<1> QED
  BY <1>1, <1>2, <1>4 DEF LeftForGood

\* What a handler's step sends: nothing, or an edge of an event that has not
\* left, the leave once, by the handler that goes on to unmap it.
HandlerSends(m) ==
    \/ UNCHANGED wireVars
    \/ \E u \in Events, e \in {"enter", "moving"} : Send(u, e) /\ leaves[u] = 0
    \/ /\ Send(handler[m].ev, "leave")
       /\ handler[m].pc = "final" /\ handler'[m].pc = "leaving"
       /\ handler'[m].obj = handler[m].obj
       /\ handler'[m].ev = handler[m].ev
       /\ handler[m].ev \in Events /\ leaves[handler[m].ev] = 0

LEMMA HandlerSend ==
    ASSUME TypeOK, TypeOK', IdsHaveOneHolder, Kept, Still, Lanes, Wire,
           NEW m \in Messages, HandleMessage(m)
    PROVE  HandlerSends(m)
<1> DEFINE f == handler[m].obj
<1>1. nextEvent \in Events => leaves[nextEvent] = 0
  BY EventIds DEF Wire, LeftForGood
<1>2. SmartDetectStart(m) => HandlerSends(m)
  BY <1>1, BoundsAssumption DEF SmartDetectStart, HandlerSends, Events, TypeOK
<1>3. ASSUME f \in Objects, map[f] # None, ~LeavingNow(m)
      PROVE  map[f] \in Events /\ leaves[map[f]] = 0
  <2>1. \A k \in Messages : Of(k, f) => ~LeavingNow(k)
    BY <1>3, MovesFirst DEF Lanes, LeavingNow
  <2> QED
    BY <1>3, <2>1 DEF Wire, LeftForGood, TypeOK
<1>4. CASE HandleNew(m)
  <2>1. handler[m].pc = "waiting"
    BY <1>4 DEF HandleNew, HasLock
  <2>2. CASE SmartDetectStart(m)
    BY <1>2, <2>2
  <2>3. CASE Known(map[f])
    <3>1. f \in Objects
      BY <2>1, HandlerObject
    <3>2. map[f] = None
      BY <1>4, <2>1, <3>1, MovesFirst DEF HandleNew, Lanes, Lane, Follows, IsNew
    <3> QED
      BY <2>3, <3>2 DEF Known
  <2> QED
    BY <1>4, <2>2, <2>3 DEF HandleNew
<1>5. CASE Replaced(m) \/ Registered(m) \/ Mapped(m) \/ Moved(m) \/ SnapshotsFetched(m)
           \/ EndUnknown(m) \/ Left(m) \/ Unmapped(m) \/ AnalyticsStopped(m)
  BY <1>5 DEF Replaced, Registered, Mapped, Moved, SnapshotsFetched, EndUnknown, Left,
     Unmapped, AnalyticsStopped, HandlerSends
<1>6. CASE StartAfterReplaced(m)
  BY <1>2, <1>6 DEF StartAfterReplaced, HandlerSends
<1>7. CASE HandleUpdate(m)
  <2>1. handler[m].pc = "waiting" /\ f \in Objects
    BY <1>7, HandlerObject DEF HandleUpdate, HasLock
  <2>2. CASE SmartDetectStart(m) \/ UNCHANGED wireVars
    BY <1>2, <2>2 DEF HandlerSends
  <2>3. CASE Known(map[f]) /\ Send(map[f], "moving")
    <3>1. map[f] \in Events /\ leaves[map[f]] = 0
      BY <1>3, <2>1, <2>3 DEF Known, LeavingNow
    <3> QED
      BY <2>3, <3>1 DEF HandlerSends
  <2> QED
    BY <1>7, <2>2, <2>3 DEF HandleUpdate
<1>8. CASE HandleEnd(m)
  <2>1. handler[m].pc = "waiting" /\ f \in Objects /\ Known(map[f]) /\ Send(map[f], "moving")
    BY <1>8, HandlerObject DEF HandleEnd, HasLock
  <2>2. map[f] \in Events /\ leaves[map[f]] = 0
    BY <1>3, <2>1 DEF Known, LeavingNow
  <2> QED
    BY <2>1, <2>2 DEF HandlerSends
<1>9. CASE Leave(m)
  <2>1. handler[m].pc = "final" /\ f \in Objects /\ Send(handler[m].ev, "leave") /\ Goto(m, "leaving")
    BY <1>9, HandlerObject DEF Leave
  <2>2. map[f] # None /\ handler[m].ev = map[f]
    BY <2>1 DEF Lanes, Lane, InTurn, Of, UsesMap
  <2>3. handler[m].ev \in Events /\ leaves[handler[m].ev] = 0
    BY <1>3, <2>1, <2>2 DEF LeavingNow
  <2> QED
    BY <2>1, <2>3, GotoShape DEF HandlerSends
<1> QED
  BY <1>4, <1>5, <1>6, <1>7, <1>8, <1>9 DEF HandleMessage

\* A handler that leaves an event goes on until it has unmapped it.
LEMMA LeavingGoesOn ==
    ASSUME TypeOK, NEW m \in Messages, HandleMessage(m), NEW k \in Messages,
           NEW f \in Objects, Of(k, f), LeavingNow(k)
    PROVE  (Of(k, f) /\ LeavingNow(k))' \/ map'[f] = None
<1>1. CASE k # m
  <2>1. handler'[k] = handler[k]
    BY <1>1, HandlerTask DEF TaskStep
  <2> QED
    BY <2>1 DEF Of, LeavingNow
<1>2. CASE k = m
  <2>1. Left(m) \/ Unmapped(m)
    BY <1>2 DEF LeavingNow, HandleMessage, HandleNew, Replaced, StartAfterReplaced,
       Registered, Mapped, HandleUpdate, Moved, SnapshotsFetched, EndUnknown, HandleEnd,
       Leave, AnalyticsStopped, HasLock
  <2>2. CASE Left(m)
    BY <1>2, <2>2, GotoShape DEF Left, Of, LeavingNow
  <2>3. CASE Unmapped(m)
    BY <1>2, <2>3 DEF Unmapped, Of, TypeOK
  <2> QED
    BY <2>1, <2>2, <2>3
<1> QED
  BY <1>1, <1>2

LEMMA HandlerWire ==
    ASSUME TypeOK, TypeOK', IdsHaveOneHolder, IdStep, Kept, Kept', Still, Lanes, Wire,
           NEW m \in Messages, HandleMessage(m)
    PROVE  Wire'
<1> SUFFICES ASSUME NEW u \in Events PROVE leaves'[u] = 0 \/ LeftForGood(u)'
  BY DEF Wire
<1>1. ASSUME leaves'[u] = leaves[u], edge'[u] = edge[u]
      PROVE  leaves'[u] = 0 \/ LeftForGood(u)'
  <2>1. CASE leaves[u] = 0
    BY <1>1, <2>1
  <2>2. CASE LeftForGood(u)
    BY <1>1, <2>2, LeftStays, LeavingGoesOn
  <2> QED
    BY <2>1, <2>2 DEF Wire
<1>2. CASE UNCHANGED wireVars
  BY <1>1, <1>2 DEF wireVars
<1>3. ASSUME NEW v \in Events, NEW e \in {"enter", "moving"}, Send(v, e), leaves[v] = 0
      PROVE  leaves'[u] = 0 \/ LeftForGood(u)'
  BY <1>1, <1>3, SendShape
<1>4. ASSUME Send(handler[m].ev, "leave"), handler[m].pc = "final", handler'[m].pc = "leaving",
             handler'[m].obj = handler[m].obj, handler'[m].ev = handler[m].ev,
             handler[m].ev \in Events, leaves[handler[m].ev] = 0
      PROVE  leaves'[u] = 0 \/ LeftForGood(u)'
  <2>1. CASE u # handler[m].ev
    BY <1>1, <1>4, <2>1, SendShape
  <2>2. CASE u = handler[m].ev
    <3>1. leaves'[u] = 1 /\ edge'[u] = "leave"
      BY <1>4, <2>2, SendShape
    <3>2. Ending(m)' /\ handler'[m].ev = u
      BY <1>4, <2>2 DEF Ending
    <3>3. /\ u < nextEvent'
          /\ \A f \in Objects : map'[f] = u => f = handler'[m].obj
          /\ \A k \in Messages : Starting(k)' => handler'[k].ev # u
      BY <3>2 DEF Kept, EndsOwn, Owned
    <3>4. \A f \in Objects : map'[f] = u => Of(m, f)' /\ LeavingNow(m)'
      BY <1>4, <3>3 DEF Of, LeavingNow
    <3> QED
      BY <3>1, <3>3, <3>4 DEF LeftForGood
  <2> QED
    BY <2>1, <2>2
<1> QED
  BY <1>2, <1>3, <1>4, HandlerSend DEF HandlerSends

LEMMA HandlerHolds ==
    ASSUME TypeOK, IdsHaveOneHolder, Kept, Still, Lanes, Held, NEW m \in Messages,
           HandleMessage(m)
    PROVE  Held'
<1>1. TaskStep(m) /\ RecordStep(m)
  BY HandlerTask, HandlerRecord DEF Kept
<1> SUFFICES ASSUME NEW u \in Events, event'[u] = "live"
             PROVE  \/ \E f \in Objects : map'[f] = u
                    \/ \E k \in Messages : handler'[k].pc = "registered" /\ handler'[k].ev = u
  BY DEF Held
<1>2. CASE event[u] # "live"
  <2>1. Starting(m) /\ u = handler[m].ev
    BY <1>1, <1>2 DEF RecordStep
  <2>2. Registered(m)
    BY <1>2, <2>1 DEF Starting, Kept, Recorded, HandleMessage, HandleNew, Replaced,
       StartAfterReplaced, Mapped, HandleUpdate, Moved, SnapshotsFetched, EndUnknown,
       HandleEnd, Leave, Left, Unmapped, AnalyticsStopped, HasLock
  <2>3. handler'[m].pc = "registered" /\ handler'[m].ev = u
    BY <2>1, <2>2, GotoShape DEF Registered
  <2> QED
    BY <2>3
<1>3. ASSUME NEW f \in Objects, event[u] = "live", map[f] = u
      PROVE  map'[f] = u
  <2>1. CASE handler[m].obj # f
    BY <1>3, <2>1, HandlerElsewhere
  <2>2. CASE handler[m].obj = f
    <3>1. Lane(f) /\ Of(m, f) /\ u # None
      BY <2>2, MovesFirst, EventIds DEF Lanes
    <3>2. handler[m].kind # "new"
      BY <1>3, <3>1 DEF Lane, Follows, IsNew
    <3>3. ~EndUnmaps(m, f)
      <4>1. CASE handler[m].pc = "left"
        <5>1. event[handler[m].ev] = "ended" /\ handler[m].ev = u
          BY <1>3, <3>1, <4>1 DEF Kept, Recorded, Deleting, Lane, InTurn, UsesMap
        <5> QED
          BY <1>3, <5>1
      <4> QED
        BY <4>1 DEF EndUnmaps
    <3>4. Updates(m, f) \/ EndGoes(m, f) \/ EndStops(m, f)
      BY <2>2, <3>1, <3>2, <3>3, HandlerMove DEF NewGoes, NewMaps
    <3> QED
      BY <1>3, <3>4 DEF Updates, EndGoes, EndStops
  <2> QED
    BY <2>1, <2>2
<1>4. ASSUME NEW k \in Messages, handler[k].pc = "registered", handler[k].ev = u
      PROVE  \/ \E f \in Objects : map'[f] = u
             \/ handler'[k].pc = "registered" /\ handler'[k].ev = u
  <2>1. CASE k # m
    BY <1>1, <1>4, <2>1 DEF TaskStep
  <2>2. CASE k = m
    <3>1. Mapped(m) /\ handler[m].obj \in Objects
      BY <1>4, <2>2, HandlerObject DEF HandleMessage, HandleNew, Replaced, StartAfterReplaced,
         Registered, HandleUpdate, Moved, SnapshotsFetched, EndUnknown, HandleEnd, Leave,
         Left, Unmapped, AnalyticsStopped, HasLock
    <3>2. map'[handler[m].obj] = u
      BY <1>4, <2>2, <3>1 DEF Mapped, TypeOK
    <3> QED
      BY <3>1, <3>2
  <2> QED
    BY <2>1, <2>2
<1> QED
  BY <1>2, <1>3, <1>4 DEF Held

\* A step that sends nothing, and neither records, maps nor unmaps an event.
LEMMA SilentStep ==
    ASSUME TypeOK, TypeOK', IdsHaveOneHolder, IdStep, Wire, Held,
           UNCHANGED <<event, map, edge, leaves>>,
           \A k \in Messages : handler[k].pc # "done" => handler'[k] = handler[k]
    PROVE  Wire' /\ Held'
<1>1. \A m \in Messages, f \in Objects :
        Of(m, f) /\ LeavingNow(m) => (Of(m, f) /\ LeavingNow(m))' \/ map'[f] = None
  BY DEF Of, LeavingNow
<1>2. ASSUME NEW u \in Events PROVE leaves'[u] = 0 \/ LeftForGood(u)'
  BY <1>1, LeftStays DEF Wire
<1>3. Held'
  BY DEF Held
<1> QED
  BY <1>2, <1>3 DEF Wire

LEMMA WireStep ==
    ASSUME Orderly, TypeOK, TypeOK', IdsHaveOneHolder, Kept, Kept', Still, Lanes, Wire, Held,
           [Next]_vars
    PROVE  Wire' /\ Held'
<1>0. IdStep
  BY NextIds
<1>1. arrived + 1 \in Messages => handler[arrived + 1].pc = "done"
  BY DoneShape DEF Kept, SlotsFree, TypeOK
<1>2. ASSUME NEW f \in Objects, NEW kind \in Kinds, DetectionMessage(f, kind)
      PROVE  Wire' /\ Held'
  <2>1. \A k \in Messages : handler[k].pc # "done" => handler'[k] = handler[k]
    BY <1>1, <1>2 DEF DetectionMessage, TypeOK
  <2>2. UNCHANGED <<event, map, edge, leaves>>
    BY <1>2 DEF DetectionMessage, wireVars
  <2> QED
    BY <1>0, <2>1, <2>2, SilentStep
<1>3. CASE MotionOff
  <2>1. \A k \in Messages : handler[k].pc # "done" => handler'[k] = handler[k]
    BY <1>1, <1>3 DEF MotionOff, TypeOK
  <2>2. UNCHANGED <<event, map, edge, leaves>>
    BY <1>3 DEF MotionOff, wireVars
  <2> QED
    BY <1>0, <2>1, <2>2, SilentStep
<1>4. ASSUME UNCHANGED <<event, map, edge, leaves, handler>> PROVE Wire' /\ Held'
  BY <1>0, <1>4, SilentStep
<1>5. ASSUME NEW f \in Objects, NEW kind \in Kinds, MissedMessage(f, kind)
      PROVE  Wire' /\ Held'
  BY <1>4, <1>5 DEF MissedMessage, wireVars
<1>6. CASE MotionOn
  BY <1>4, <1>6 DEF MotionOn, wireVars
<1>7. ASSUME NEW m \in Messages, HandleMessage(m)
      PROVE  Wire' /\ Held'
  BY <1>0, <1>7, HandlerWire, HandlerHolds
<1>8. ASSUME NEW u \in Events, Silence(u)
      PROVE  Wire' /\ Held'
  BY <1>4, <1>8 DEF Silence, wireVars
<1>9. CASE Monitor
  <2>1. MarkExpired = {} /\ monitor.pc = "asleep"
    BY DEF Still, MarkExpired, Asleep
  <2> QED
    BY <1>9, <2>1 DEF Monitor, MonitorTick, TimedOut, TimeoutUnmapped
<1>10. CASE BrokerLost \/ ProtectLost \/ ProtectReboots
  BY <1>10 DEF BrokerLost, ProtectLost, ProtectReboots, Closed, TasksCancelled, Orderly,
     Undisturbed, Still
<1>11. CASE Linked \/ UNCHANGED vars
  BY <1>4, <1>11 DEF Linked, vars, wireVars
<1> QED
  BY <1>2, <1>3, <1>5, <1>6, <1>7, <1>8, <1>9, <1>10, <1>11 DEF Next

\* What the invariant says once all is quiet.
LEMMA QuietTracks ==
    ASSUME TypeOK, Kept, Still, Lanes, Wire, Held
    PROVE  ObjectsFollowed
<1>1. NothingAfterLeave
  <2>1. \A u \in Events : leaves[u] \in Nat
    BY DEF TypeOK
  <2> QED
    BY <2>1 DEF Wire, LeftForGood, NothingAfterLeave
<1>2. ASSUME Quiet PROVE \A m \in Messages, f \in Objects : ~Of(m, f) /\ handler[m].pc = "done"
  BY <1>2, DoneShape DEF Quiet, Of
<1>3. ASSUME Quiet, NEW f \in Objects
      PROVE  frigate[f] = "live" <=> map[f] # None /\ event[map[f]] = "live"
  <2>1. ~IsNew(f) /\ ~IsEnding(f)
    BY <1>2, <1>3 DEF IsNew, IsEnding
  <2>2. Follows(f) /\ frigate[f] \in {"unseen", "live", "over"}
    BY DEF Lanes, Lane, TypeOK
  <2>3. map[f] # None => event[map[f]] = "live"
    <3>1. \A m \in Messages : ~Deleting(m)
      BY <1>2, <1>3 DEF Deleting
    <3>2. ~MonitorDeletes(f, map[f])
      BY AsleepDeletes DEF Still
    <3> QED
      BY <3>1, <3>2 DEF Kept, LiveOrDeleted, Still
  <2> QED
    BY <2>1, <2>2, <2>3 DEF Follows
<1>4. ASSUME Quiet, NEW u \in Events, event[u] = "live"
      PROVE  \E f \in Objects : map[f] = u
  <2>1. \A m \in Messages : handler[m].pc # "registered"
    BY <1>4, DoneShape DEF Quiet
  <2> QED
    BY <1>4, <2>1 DEF Held
<1>5. ObjectsAreTracked
  BY <1>3, <1>4 DEF ObjectsAreTracked
<1> QED
  BY <1>1, <1>5 DEF ObjectsFollowed

\* Whatever the number of objects and messages, and however the awaits of
\* their handlers interleave: as long as Frigate publishes in order and nothing
\* is lost or silent, Protect hears of no event after its "leave", each event
\* leaves once, and once all messages are handled exactly the objects Frigate
\* tracks have a live event.
THEOREM ObjectsFollowedTheorem ==
    ASSUME Orderly
    PROVE  Spec => []ObjectsFollowed
<1> DEFINE Inv == /\ TypeOK /\ IdsHaveOneHolder /\ Kept
                  /\ Still /\ Lanes /\ Wire /\ Held
<1>1. Init => Inv
  BY TypeInit, HoldersInit, KeptInit, StillInit, LanesInit, WireInit
<1>2. Inv /\ [Next]_vars => Inv'
  <2> SUFFICES ASSUME Inv, [Next]_vars PROVE Inv'
    OBVIOUS
  <2>1. TypeOK' /\ IdsHaveOneHolder' /\ Kept'
    BY TypeStep, HoldersStep, KeptStep
  <2>2. Still' /\ Lanes'
    BY StillStep, LanesStep
  <2>3. Wire' /\ Held'
    BY <2>1, WireStep
  <2> QED
    BY <2>1, <2>2, <2>3
<1>3. Inv => ObjectsFollowed
  BY QuietTracks
<1> QED
  BY <1>1, <1>2, <1>3, PTL DEF Spec

=============================================================================
