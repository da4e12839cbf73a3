--------------------------- MODULE FrigateEvents ---------------------------
(***************************************************************************)
(* The smart detect ("EventSmartDetect") events of a Frigate camera: the   *)
(* MQTT handlers of FrigateCam, a task per message with one lock per       *)
(* Frigate event id, the map from Frigate to UniFi event ids, the monitor  *)
(* that ends silent events, and the smart detect operations of             *)
(* UnifiCamBase they call (unifi/cams/frigate.py, unifi/cams/base.py).     *)
(*                                                                         *)
(* An action is the code between two awaits that can suspend: the writes   *)
(* to Protect's socket, the notification of diagnostics clients, the fetch *)
(* of snapshots.  The generic motion event appears as the id the camera    *)
(* calls active; AnalyticsEvents has its messages.  Likewise a lost        *)
(* connection to Protect is one step here: AnalyticsEvents takes close()   *)
(* apart.                                                                  *)
(*                                                                         *)
(* Before some definitions stands a faulty variant of it, named for a slip *)
(* that code like this invites.  No specification here uses one; each      *)
(* breaks the property PROJECT.json pairs it with.                         *)
(***************************************************************************)
EXTENDS Integers, FiniteSets

CONSTANTS
    Objects,        \* Frigate event ids, one for every object it tracks
    None,           \* Python's None, and "not in the dict"
    InOrder,        \* TRUE when an object's messages come as new, update*, end
    Timeouts,       \* TRUE when 600 s may pass without an update
    MaxEvents,      \* bound: event ids handed out in a behaviour
    MaxMessages,    \* bound: MQTT messages delivered
    MaxDrops        \* bound: connections lost, to the broker or to Protect

ASSUME ObjectsAssumption == None \notin Objects
ASSUME BoundsAssumption ==
    /\ MaxEvents \in Nat
    /\ MaxMessages \in Nat
    /\ MaxDrops \in Nat
    /\ None \notin Nat
ASSUME SwitchesAssumption == {InOrder, Timeouts} \subseteq BOOLEAN

Events == 1 .. MaxEvents
Messages == 1 .. MaxMessages

VARIABLES
    link,       \* the MQTT connection and the TaskGroup that lives with it
    frigate,    \* what Frigate has published of each object
    motionOn,   \* _motion_is_on
    arrived,    \* messages delivered so far
    handler,    \* the task of every message
    gen,        \* which lock _event_locks holds for each object
    map,        \* frigate_to_unifi_event_map
    event,      \* _active_smart_events: end_time None, ended, or not in it
    stale,      \* events not updated for over event_timeout_seconds
    monitor,    \* monitor_event_timeouts
    analytics,  \* _active_analytics_event_id
    nextEvent,  \* the next event id; both kinds of event draw from it
    drops,      \* connections lost so far, counted for the bound
    edge,       \* the last edgeType sent to Protect, by event
    leaves      \* "leave" messages sent to Protect, by event

brokerVars == <<link, frigate, motionOn, arrived>>
wireVars == <<edge, leaves>>
vars == <<brokerVars, handler, gen, map, event, stale, monitor, analytics,
          nextEvent, drops, wireVars>>

Kinds == {"new", "update", "end"}
Pcs == {"done", "waiting", "replacing", "replaced", "entering", "registered",
        "moving", "fetching", "final", "leaving", "left", "stopping"}
DetectionTasks == [pc : Pcs \ {"done", "stopping"}, kind : Kinds, obj : Objects,
                   gen : Nat, ev : Events \cup {None}]
OtherTasks == [pc : {"done", "stopping"}, kind : Kinds \cup {"off"},
               obj : Objects \cup {None}, gen : Nat, ev : Events \cup {None}]
Tasks == DetectionTasks \cup OtherTasks
Expired == [obj : Objects \cup {None}, ev : Events]
Asleep == [pc |-> "asleep", todo |-> {}]

\* A slot without a task: its message has not come, or has been handled.
Done == [pc |-> "done", kind |-> "off", obj |-> None, gen |-> 0, ev |-> None]

Init ==
    /\ link = "up"
    /\ frigate = [f \in Objects |-> "unseen"]
    /\ motionOn = FALSE
    /\ arrived = 0
    /\ handler = [m \in Messages |-> Done]
    /\ gen = [f \in Objects |-> 0]
    /\ map = [f \in Objects |-> None]
    /\ event = [u \in Events |-> "absent"]
    /\ stale = {}
    /\ monitor = Asleep
    /\ analytics = None
    /\ nextEvent = 1
    /\ drops = 0
    /\ edge = [u \in Events |-> "none"]
    /\ leaves = [u \in Events |-> 0]

-----------------------------------------------------------------------------
(***************************************************************************)
(* Messages.                                                               *)
(***************************************************************************)

\* Frigate may publish a message of this kind about an object.
MayPublish(f, kind) ==
    \/ ~InOrder
    \/ kind = "new" /\ frigate[f] = "unseen"
    \/ kind \in {"update", "end"} /\ frigate[f] = "live"

Published(f, kind) == [frigate EXCEPT ![f] = IF kind = "end" THEN "over" ELSE "live"]

\* The message loop creates a task, which takes its place in the queue of the
\* lock that _event_locks.setdefault returns.
DetectionMessage(f, kind) ==
    /\ link = "up"
    /\ arrived < MaxMessages
    /\ MayPublish(f, kind)
    /\ frigate' = Published(f, kind)
    /\ arrived' = arrived + 1
    /\ handler' = [handler EXCEPT ![arrived + 1] =
         [pc |-> "waiting", kind |-> kind, obj |-> f, gen |-> gen[f], ev |-> None]]
    /\ UNCHANGED <<link, motionOn, gen, map, event, stale, monitor, analytics,
                   nextEvent, drops, wireVars>>

\* Frigate publishes while the camera is not connected to the broker.
MissedMessage(f, kind) ==
    /\ link = "down"
    /\ MayPublish(f, kind)
    /\ frigate' = Published(f, kind)
    /\ frigate' # frigate
    /\ UNCHANGED <<link, motionOn, arrived, handler, gen, map, event, stale,
                   monitor, analytics, nextEvent, drops, wireVars>>

\* handle_motion_event, "ON": start the generic event unless one is active.
MotionOn ==
    /\ link = "up"
    /\ arrived < MaxMessages
    /\ arrived' = arrived + 1
    /\ motionOn' = TRUE
    /\ \/ /\ analytics # None
          /\ UNCHANGED <<analytics, nextEvent>>
       \/ /\ analytics = None
          /\ nextEvent <= MaxEvents
          /\ analytics' = nextEvent
          /\ nextEvent' = nextEvent + 1
    /\ UNCHANGED <<link, frigate, handler, gen, map, event, stale, monitor,
                   drops, wireVars>>

NoneMapped(m) == \A f \in Objects : m[f] = None

\* handle_motion_event, "OFF": stop the generic event, unless Frigate events
\* are mapped; the last of them stops it then.
MotionOff ==
    /\ link = "up"
    /\ arrived < MaxMessages
    /\ arrived' = arrived + 1
    /\ motionOn' = FALSE
    /\ \/ /\ NoneMapped(map) /\ analytics # None
          /\ handler' = [handler EXCEPT ![arrived + 1] =
               [Done EXCEPT !.pc = "stopping", !.ev = analytics]]
       \/ /\ ~NoneMapped(map) \/ analytics = None
          /\ UNCHANGED handler
    /\ UNCHANGED <<link, frigate, gen, map, event, stale, monitor, analytics,
                   nextEvent, drops, wireVars>>

-----------------------------------------------------------------------------
(***************************************************************************)
(* UnifiCamBase.trigger_smart_detect_start, _update and _stop, as seen by  *)
(* the handler that awaits them.                                           *)
(***************************************************************************)

Goto(m, pc) == handler' = [handler EXCEPT ![m].pc = pc]
Finish(m) == handler' = [handler EXCEPT ![m] = Done]

\* Send an edge of event u; the sender suspends.
Send(u, e) ==
    /\ edge' = [edge EXCEPT ![u] = e]
    /\ leaves' = IF e = "leave" THEN [leaves EXCEPT ![u] = @ + 1] ELSE leaves

IdTakenLater(m) ==
    /\ nextEvent <= MaxEvents
    /\ UNCHANGED nextEvent
    /\ Send(nextEvent, "enter")
    /\ handler' = [handler EXCEPT ![m].pc = "entering", ![m].ev = nextEvent]

\* trigger_smart_detect_start up to its send.
SmartDetectStart(m) ==
    /\ nextEvent <= MaxEvents
    /\ nextEvent' = nextEvent + 1
    /\ Send(nextEvent, "enter")
    /\ handler' = [handler EXCEPT ![m].pc = "entering", ![m].ev = nextEvent]

\* Events somebody still works on.
InUse == {handler[m].ev : m \in Messages} \cup {x.ev : x \in monitor.todo}

\* trigger_smart_detect_start after its send: forget some events that ended
\* over an hour ago, record the new one, notify the diagnostics clients.
Registered(m) ==
    /\ handler[m].pc = "entering"
    /\ \E old \in SUBSET ({u \in Events : event[u] = "ended"} \ InUse) :
         event' = [u \in Events |-> IF u \in old THEN "gone"
                                    ELSE IF u = handler[m].ev THEN "live"
                                    ELSE event[u]]
    /\ Goto(m, "registered")
    /\ UNCHANGED <<brokerVars, gen, map, stale, monitor, analytics, nextEvent,
                   drops, wireVars>>

MappedToItself(m) ==
    /\ handler[m].pc = "registered"
    /\ map' = [map EXCEPT ![handler[m].obj] = handler[m].obj]
    /\ stale' = stale \ {handler[m].ev}
    /\ Finish(m)
    /\ UNCHANGED <<brokerVars, gen, event, monitor, analytics, nextEvent,
                   drops, wireVars>>

\* The handler maps the Frigate event to the new event.
Mapped(m) ==
    /\ handler[m].pc = "registered"
    /\ map' = [map EXCEPT ![handler[m].obj] = handler[m].ev]
    /\ stale' = stale \ {handler[m].ev}
    /\ Finish(m)
    /\ UNCHANGED <<brokerVars, gen, event, monitor, analytics, nextEvent,
                   drops, wireVars>>

\* An event in _active_smart_events, ended or not.
Known(u) == u # None /\ event[u] \in {"live", "ended"}

-----------------------------------------------------------------------------
(***************************************************************************)
(* handle_detection_event: take the lock, then handle the message.         *)
(***************************************************************************)

LockIgnored(m) == handler[m].pc = "waiting"

\* asyncio.Lock is fair: m is the first task at its lock.
HasLock(m) ==
    /\ handler[m].pc = "waiting"
    /\ \A k \in Messages :
         k < m /\ handler[k].pc # "done" =>
           handler[k].obj # handler[m].obj \/ handler[k].gen # handler[m].gen

\* The handler of an "end" returned: _event_locks.pop(event_id).
LockDropped(m) ==
    IF handler[m].kind = "end" THEN [gen EXCEPT ![handler[m].obj] = @ + 1] ELSE gen

\* "new": an event still mapped is stopped first, if it is known.
HandleNew(m) ==
    LET f == handler[m].obj IN
    /\ HasLock(m)
    /\ handler[m].kind = "new"
    /\ \/ /\ Known(map[f])
          /\ Send(map[f], "leave")
          /\ handler' = [handler EXCEPT ![m].pc = "replacing", ![m].ev = map[f]]
          /\ UNCHANGED <<map, nextEvent>>
       \/ /\ ~Known(map[f])
          /\ map' = [map EXCEPT ![f] = None]
          /\ SmartDetectStart(m)
    /\ UNCHANGED <<brokerVars, gen, event, stale, monitor, analytics, drops>>

\* "new": the stopped event is recorded as ended.
Replaced(m) ==
    /\ handler[m].pc = "replacing"
    /\ event' = [event EXCEPT ![handler[m].ev] = "ended"]
    /\ Goto(m, "replaced")
    /\ UNCHANGED <<brokerVars, gen, map, stale, monitor, analytics, nextEvent,
                   drops, wireVars>>

\* "new": the old mapping is deleted (a KeyError if the monitor has deleted
\* it meanwhile) and the new event started.
StartAfterReplaced(m) ==
    LET f == handler[m].obj IN
    /\ handler[m].pc = "replaced"
    /\ \/ /\ map[f] = None
          /\ Finish(m)
          /\ UNCHANGED <<map, nextEvent, wireVars>>
       \/ /\ map[f] # None
          /\ map' = [map EXCEPT ![f] = None]
          /\ SmartDetectStart(m)
    /\ UNCHANGED <<brokerVars, gen, event, stale, monitor, analytics, drops>>

\* "update": a known event moves, a mapped one that is not known is skipped,
\* and one that is not mapped is registered as if it were new.
HandleUpdate(m) ==
    LET f == handler[m].obj IN
    /\ HasLock(m)
    /\ handler[m].kind = "update"
    /\ \/ /\ Known(map[f])
          /\ Send(map[f], "moving")
          /\ handler' = [handler EXCEPT ![m].pc = "moving", ![m].ev = map[f]]
          /\ UNCHANGED nextEvent
       \/ /\ map[f] # None /\ ~Known(map[f])
          /\ Finish(m)
          /\ UNCHANGED <<nextEvent, wireVars>>
       \/ /\ map[f] = None
          /\ SmartDetectStart(m)
    /\ UNCHANGED <<brokerVars, gen, map, event, stale, monitor, analytics, drops>>

\* "update": the event is fresh again; its snapshots may be fetched, with the
\* lock held.
Moved(m) ==
    /\ handler[m].pc = "moving"
    /\ stale' = stale \ {handler[m].ev}
    /\ Finish(m) \/ Goto(m, "fetching")
    /\ UNCHANGED <<brokerVars, gen, map, event, monitor, analytics, nextEvent,
                   drops, wireVars>>

SnapshotsFetched(m) ==
    /\ handler[m].pc = "fetching"
    /\ Finish(m)
    /\ UNCHANGED <<brokerVars, gen, map, event, stale, monitor, analytics,
                   nextEvent, drops, wireVars>>

\* "end" of an event that is not mapped, or not known any more.
EndUnknown(m) ==
    /\ HasLock(m)
    /\ handler[m].kind = "end"
    /\ ~Known(map[handler[m].obj])
    /\ map' = [map EXCEPT ![handler[m].obj] = None]
    /\ Finish(m)
    /\ gen' = LockDropped(m)
    /\ UNCHANGED <<brokerVars, event, stale, monitor, analytics, nextEvent,
                   drops, wireVars>>

\* "end" of a known event: its last box goes first, as a "moving" edge.
HandleEnd(m) ==
    /\ HasLock(m)
    /\ handler[m].kind = "end"
    /\ Known(map[handler[m].obj])
    /\ Send(map[handler[m].obj], "moving")
    /\ handler' = [handler EXCEPT ![m].pc = "final", ![m].ev = map[handler[m].obj]]
    /\ UNCHANGED <<brokerVars, gen, map, event, stale, monitor, analytics,
                   nextEvent, drops>>

Leave(m) ==
    /\ handler[m].pc = "final"
    /\ Send(handler[m].ev, "leave")
    /\ Goto(m, "leaving")
    /\ UNCHANGED <<brokerVars, gen, map, event, stale, monitor, analytics,
                   nextEvent, drops>>

Left(m) ==
    /\ handler[m].pc = "leaving"
    /\ event' = [event EXCEPT ![handler[m].ev] = "ended"]
    /\ Goto(m, "left")
    /\ UNCHANGED <<brokerVars, gen, map, stale, monitor, analytics, nextEvent,
                   drops, wireVars>>

StopNotDeferred(m) ==
    LET f == handler[m].obj IN
    /\ handler[m].pc = "left"
    /\ map' = [map EXCEPT ![f] = None]
    /\ Finish(m)
    /\ gen' = IF map[f] = None THEN gen ELSE LockDropped(m)
    /\ UNCHANGED <<brokerVars, event, stale, monitor, analytics, nextEvent,
                   drops, wireVars>>

LockHeldOnError(m) ==
    LET f == handler[m].obj
        deferred == NoneMapped(map') /\ ~motionOn /\ analytics # None
    IN
    /\ handler[m].pc = "left"
    /\ map[f] # None
    /\ map' = [map EXCEPT ![f] = None]
    /\ \/ /\ ~deferred
          /\ Finish(m)
          /\ gen' = LockDropped(m)
       \/ /\ deferred
          /\ handler' = [handler EXCEPT ![m].pc = "stopping", ![m].ev = analytics]
          /\ UNCHANGED gen
    /\ UNCHANGED <<brokerVars, event, stale, monitor, analytics, nextEvent,
                   drops, wireVars>>

\* "end": delete the mapping (a KeyError, and the lock stays, if the monitor
\* has deleted it).  The last event to go stops the generic event, if an
\* "OFF" has been deferred for it.
Unmapped(m) ==
    LET f == handler[m].obj
        deferred == NoneMapped(map') /\ ~motionOn /\ analytics # None
    IN
    /\ handler[m].pc = "left"
    /\ map' = [map EXCEPT ![f] = None]
    /\ \/ /\ map[f] = None
          /\ Finish(m)
          /\ UNCHANGED gen
       \/ /\ map[f] # None /\ ~deferred
          /\ Finish(m)
          /\ gen' = LockDropped(m)
       \/ /\ map[f] # None /\ deferred
          /\ handler' = [handler EXCEPT ![m].pc = "stopping", ![m].ev = analytics]
          /\ UNCHANGED gen
    /\ UNCHANGED <<brokerVars, event, stale, monitor, analytics, nextEvent,
                   drops, wireVars>>

\* trigger_analytics_stop returns.  If another stop has ended the event this
\* one was called for, this one may instead fail on the missing record.
AnalyticsStopped(m) ==
    /\ handler[m].pc = "stopping"
    /\ \/ /\ analytics' = None
          /\ gen' = LockDropped(m)
       \/ /\ analytics # handler[m].ev
          /\ UNCHANGED <<analytics, gen>>
    /\ Finish(m)
    /\ UNCHANGED <<brokerVars, map, event, stale, monitor, nextEvent, drops,
                   wireVars>>

HandleMessage(m) ==
    \/ HandleNew(m) \/ Replaced(m) \/ StartAfterReplaced(m)
    \/ Registered(m) \/ Mapped(m)
    \/ HandleUpdate(m) \/ Moved(m) \/ SnapshotsFetched(m)
    \/ EndUnknown(m) \/ HandleEnd(m) \/ Leave(m) \/ Left(m) \/ Unmapped(m)
    \/ AnalyticsStopped(m)

-----------------------------------------------------------------------------
(***************************************************************************)
(* monitor_event_timeouts.  It takes no lock.                              *)
(***************************************************************************)

\* 600 seconds pass without an update of u.
Silence(u) ==
    /\ Timeouts
    /\ event[u] = "live"
    /\ u \notin stale
    /\ u \notin InUse
    /\ stale' = stale \cup {u}
    /\ UNCHANGED <<brokerVars, handler, gen, map, event, monitor, analytics,
                   nextEvent, drops, wireVars>>

FrigateIds(u) == {f \in Objects : map[f] = u}

MarkMapped ==
    {x \in Expired : /\ event[x.ev] = "live" /\ x.ev \in stale
                     /\ x.obj \in FrigateIds(x.ev)}

\* The list of expired events, each with the Frigate event mapped to it now.
MarkExpired ==
    {x \in Expired : /\ event[x.ev] = "live" /\ x.ev \in stale
                     /\ \/ x.obj \in FrigateIds(x.ev)
                        \/ x.obj = None /\ FrigateIds(x.ev) = {}}

\* The first entry of the list, which is in the order of the event ids.
First(todo) == CHOOSE x \in todo : \A y \in todo : x.ev <= y.ev

\* Stop the next event on the list, or sleep.
ForceEnd(todo) ==
    IF todo = {}
    THEN monitor' = Asleep /\ UNCHANGED wireVars
    ELSE /\ monitor' = [pc |-> "leaving", todo |-> todo]
         /\ Send(First(todo).ev, "leave")

MonitorTick ==
    /\ link = "up"
    /\ monitor = Asleep
    /\ MarkExpired # {}
    /\ ForceEnd(MarkExpired)
    /\ UNCHANGED <<brokerVars, handler, gen, map, event, stale, analytics,
                   nextEvent, drops>>

\* The stop of the expired event is recorded.
TimedOut ==
    /\ monitor.pc = "leaving"
    /\ event' = [event EXCEPT ![First(monitor.todo).ev] = "ended"]
    /\ monitor' = [monitor EXCEPT !.pc = "left"]
    /\ UNCHANGED <<brokerVars, handler, gen, map, stale, analytics, nextEvent,
                   drops, wireVars>>

TimeoutKeepsMap ==
    /\ monitor.pc = "left"
    /\ ForceEnd(monitor.todo \ {First(monitor.todo)})
    /\ UNCHANGED <<brokerVars, handler, gen, map, event, stale, analytics,
                   nextEvent, drops>>

\* Whatever the Frigate event is mapped to by now, its mapping is deleted.
Unmapping(x) == [f \in Objects |-> IF f = x.obj THEN None ELSE map[f]]

TimeoutUnmapped ==
    /\ monitor.pc = "left"
    /\ map' = Unmapping(First(monitor.todo))
    /\ ForceEnd(monitor.todo \ {First(monitor.todo)})
    /\ UNCHANGED <<brokerVars, handler, gen, event, stale, analytics, nextEvent,
                   drops>>

Monitor == MonitorTick \/ TimedOut \/ TimeoutUnmapped

-----------------------------------------------------------------------------
(***************************************************************************)
(* Connections.                                                            *)
(***************************************************************************)

\* The TaskGroup is cancelled: every handler ends where it is suspended, and
\* so does the monitor, whose "finally" still deletes a mapping.
TasksCancelled ==
    /\ link = "up"
    /\ drops < MaxDrops
    /\ drops' = drops + 1
    /\ link' = "down"
    /\ handler' = [m \in Messages |-> Done]
    /\ map' = IF monitor = Asleep THEN map ELSE Unmapping(First(monitor.todo))
    /\ monitor' = Asleep
    /\ UNCHANGED <<frigate, motionOn, arrived, gen, stale, nextEvent>>

\* The broker is lost.  A stop of the generic event may be over the one await
\* that swallows the cancellation.
BrokerLost ==
    /\ TasksCancelled
    /\ \/ UNCHANGED analytics
       \/ /\ \E m \in Messages : handler[m].pc = "stopping"
          /\ analytics' = None
    /\ UNCHANGED <<event, wireVars>>

\* Core.run leaves a connection to Protect, which cancels run() too; close()
\* ends whatever is active and keeps the map.
Closed ==
    /\ TasksCancelled
    /\ event' = [u \in Events |-> IF event[u] = "live" THEN "ended" ELSE event[u]]
    /\ analytics' = None

\* The connection was lost: there is no session to send a "leave" to.
ProtectLost == Closed /\ UNCHANGED wireVars

\* Protect asked for a reboot: the session is still there.
ProtectReboots ==
    /\ Closed
    /\ edge' = [u \in Events |-> IF event[u] = "live" THEN "leave" ELSE edge[u]]
    /\ leaves' = [u \in Events |-> leaves[u] + IF event[u] = "live" THEN 1 ELSE 0]

\* Connected (to Protect if need be, and) to the broker, without a session
\* there: what was published meanwhile is lost.
Linked ==
    /\ link = "down"
    /\ link' = "up"
    /\ UNCHANGED <<frigate, motionOn, arrived, handler, gen, map, event, stale,
                   monitor, analytics, nextEvent, drops, wireVars>>

Next ==
    \/ \E f \in Objects, kind \in Kinds :
         DetectionMessage(f, kind) \/ MissedMessage(f, kind)
    \/ MotionOn \/ MotionOff
    \/ \E m \in Messages : HandleMessage(m)
    \/ \E u \in Events : Silence(u)
    \/ Monitor
    \/ BrokerLost \/ ProtectLost \/ ProtectReboots \/ Linked

(***************************************************************************)
(* The loop runs every ready task: sends drain, fetches time out, the      *)
(* broker can be reached again, and time passes.  Nothing obliges Frigate  *)
(* to publish.                                                             *)
(***************************************************************************)
Fairness ==
    /\ \A m \in Messages : WF_vars(HandleMessage(m))
    /\ \A u \in Events : WF_vars(Silence(u))
    /\ WF_vars(Monitor)
    /\ WF_vars(Linked)

Spec == Init /\ [][Next]_vars
FairSpec == Spec /\ Fairness

-----------------------------------------------------------------------------
(***************************************************************************)
(* Properties.                                                             *)
(***************************************************************************)

\* Every variable has its type.
TypeOK ==
    /\ link \in {"up", "down"}
    /\ frigate \in [Objects -> {"unseen", "live", "over"}]
    /\ motionOn \in BOOLEAN
    /\ arrived \in 0 .. MaxMessages
    /\ handler \in [Messages -> Tasks]
    /\ gen \in [Objects -> Nat]
    /\ map \in [Objects -> Events \cup {None}]
    /\ event \in [Events -> {"absent", "live", "ended", "gone"}]
    /\ stale \subseteq Events
    /\ monitor \in [pc : {"asleep", "leaving", "left"}, todo : SUBSET Expired]
    /\ analytics \in Events \cup {None}
    /\ nextEvent \in 1 .. MaxEvents + 1
    /\ drops \in 0 .. MaxDrops
    /\ edge \in [Events -> {"none", "enter", "moving", "leave"}]
    /\ leaves \in [Events -> Nat]

\* No message is being handled and no event being timed out.
Quiet == monitor = Asleep /\ \A m \in Messages : handler[m] = Done

\* Once an event has left, Protect hears nothing more of it: the messages of
\* an object are handled one after the other although each has its own task.
NothingAfterLeave ==
    /\ \A u \in Events : leaves[u] <= 1
    /\ \A u \in Events : leaves[u] = 1 => edge[u] = "leave"

\* When the messages have been handled, exactly the objects Frigate tracks
\* have an event that has not ended, and every such event is some object's.
ObjectsAreTracked ==
    Quiet =>
      /\ \A f \in Objects :
           frigate[f] = "live" <=> map[f] # None /\ event[map[f]] = "live"
      /\ \A u \in Events : event[u] = "live" => \E f \in Objects : map[f] = u

\* What Protect sees follows the objects Frigate tracks, at every moment and
\* once all is quiet: one object's messages take effect in their order, none
\* after its leave and none without effect.
ObjectsFollowed == NothingAfterLeave /\ ObjectsAreTracked

\* An "OFF" that found events active is made up for when the last one ends:
\* no generic event outlives both the motion and the objects.
DeferredStopHappens ==
    Quiet /\ ~motionOn /\ NoneMapped(map) => analytics = None

\* Two objects never share an event, so that the messages of one neither move
\* nor end the other's: ids are handed out before, and mapped after, awaits
\* that let other messages in.
OwnEvents ==
    \A f, g \in Objects : f # g /\ map[f] # None => map[f] # map[g]

\* A handler that has an id for an event it has not mapped yet.
Starting(m) == handler[m].pc \in {"entering", "registered"}

\* What makes OwnEvents inductive: the ids in the map and in the hands of the
\* handlers have been handed out, each to one holder.
IdsHaveOneHolder ==
    /\ \A f \in Objects : map[f] # None => map[f] < nextEvent
    /\ \A m \in Messages : Starting(m) => handler[m].ev \in Events /\ handler[m].ev < nextEvent
    /\ \A m \in Messages, f \in Objects : Starting(m) => map[f] # handler[m].ev
    /\ \A m, k \in Messages :
         m # k /\ Starting(m) /\ Starting(k) => handler[m].ev # handler[k].ev
    /\ OwnEvents

\* Until a connection is lost, no entry is left behind in the map for an event
\* that has ended, although handlers and the monitor delete entries without
\* excluding each other.
MapIsLive ==
    Quiet /\ drops = 0 => \A f \in Objects : map[f] # None => event[map[f]] = "live"

\* Every recorded event ends, whichever messages are lost and whoever loses
\* track of it: updated no more, it is ended by the monitor.
EventsEnd == \A u \in Events : event[u] = "live" ~> event[u] # "live"

\* Every message is handled to the end: no lock is held for ever.
MessagesAreHandled ==
    \A m \in Messages : handler[m].pc # "done" ~> handler[m].pc = "done"

=============================================================================
