--------------------------- MODULE StreamWatchdog ---------------------------
(***************************************************************************)
(* The ffmpeg pipelines of one camera: started and stopped by Protect's    *)
(* ChangeVideoSettings messages, restarted by a watchdog every 30 seconds, *)
(* torn down when the connection ends (unifi/cams/handlers/                *)
(* video_stream_handlers.py, protocol_handlers.py, base.py and core.py).   *)
(*                                                                         *)
(* Everything runs on one asyncio loop and stop_video_stream blocks it, so *)
(* an action is the code between two awaits that can suspend.  The only    *)
(* such await in starting a stream is get_stream_source, which asks the    *)
(* camera on Dahua (SourceSuspends) and returns a constant elsewhere: the  *)
(* variable source says which, and no step changes it.                     *)
(*                                                                         *)
(* Time is counted in rounds of the watchdog.  Of restart_timestamps the   *)
(* model keeps the ages not over the window: the code drops the others     *)
(* before it counts them, and a stream restarts at most once a round.      *)
(*                                                                         *)
(* Before some definitions stands a faulty variant of it, named for a slip *)
(* that code like this invites.  No specification here uses one; each      *)
(* breaks the property PROJECT.json pairs it with.                         *)
(***************************************************************************)
EXTENDS Integers, FiniteSets

CONSTANTS
    Streams,         \* video1, video2, video3
    None,            \* no handle
    MaxRestarts,     \* MAX_RESTARTS
    Window           \* RESTART_WINDOW, in rounds of WATCHDOG_INTERVAL

ASSUME LimitsAssumption == MaxRestarts \in Nat \ {0} /\ Window \in Nat

Ages == 0 .. Window

VARIABLES
    source,     \* how get_stream_source of this kind of camera answers
    phase,      \* Core.connect: "down" before adoption, "up", "closing" and
                \* "hangingUp" when the program is about to end, "exited"
    wanted,     \* _streams: what Protect asked for last
    handle,     \* _ffmpeg_handles
    orphaned,   \* streams with a live pipeline that is in no handle
    watchdog,   \* where _stream_health_watchdog stands
    protocol,   \* where the receiver stands in process_video_settings
    recent,     \* ages of the automatic restarts since Protect started afresh
    givenUp     \* streams for which "Giving up until Protect re-requests"

state == <<phase, wanted, handle, orphaned, watchdog, protocol, recent, givenUp>>
vars == <<source, state>>

\* A constant, or the answer of a camera, which may fail to give one in time.
Sources == {"at hand", "asked"}
SourceSuspends == source = "asked"

Handles == [alive : BOOLEAN, restarts : SUBSET Ages]
Pipeline(restarts) == [alive |-> TRUE, restarts |-> restarts]

Spawned(s) == handle[s] # None
Running(s) == Spawned(s) /\ handle[s].alive
Dead(s) == Spawned(s) /\ ~handle[s].alive

WatchdogAt(pc, todo) == [pc |-> pc, todo |-> todo, of |-> None, restarts |-> {}]
Absent == WatchdogAt("absent", {})
Asleep == WatchdogAt("asleep", {})
Waiting == [pc |-> "idle", of |-> None, dead |-> FALSE]
Ended == [pc |-> "ended", of |-> None, dead |-> FALSE]

\* Between two awaits the loop runs nothing else.
LoopIsFree == watchdog.pc # "checking"

\* The receiver of the connection is alive: it goes on while close() and
\* ws.close() are awaited, unless it was cancelled or has failed itself.
Receiving == phase \in {"up", "closing", "hangingUp"} /\ protocol # Ended

\* Old restarts are never dropped.
AgedForever(ages) == {a + 1 : a \in ages}

Aged(ages) == {a + 1 : a \in ages} \ {Window + 1}

Init ==
    /\ source \in Sources
    /\ phase = "down"
    /\ wanted = {}
    /\ handle = [s \in Streams |-> None]
    /\ orphaned = {}
    /\ watchdog = Absent
    /\ protocol = Waiting
    /\ recent = [s \in Streams |-> {}]
    /\ givenUp = {}

-----------------------------------------------------------------------------
(***************************************************************************)
(* start_video_stream after its await: whatever handle is there by now is  *)
(* overwritten.                                                            *)
(***************************************************************************)

Spawn(s, restarts) ==
    /\ handle' = [handle EXCEPT ![s] = Pipeline(restarts)]
    /\ orphaned' = IF Running(s) THEN orphaned \cup {s} ELSE orphaned

\* A pipeline that Protect starts takes over the tracking of a dead one.
\* With none to take over it starts afresh.
Adopt(s, dead) ==
    /\ Spawn(s, IF dead THEN handle[s].restarts ELSE {})
    /\ recent' = IF dead THEN recent ELSE [recent EXCEPT ![s] = {}]

-----------------------------------------------------------------------------
(***************************************************************************)
(* _stream_health_watchdog.                                                *)
(***************************************************************************)

TimePasses ==
    /\ handle' = [s \in Streams |->
                    IF Spawned(s) THEN [handle[s] EXCEPT !.restarts = Aged(@)] ELSE None]
    /\ recent' = [s \in Streams |-> Aged(recent[s])]

WatchdogWakes ==
    /\ watchdog.pc = "asleep"
    /\ TimePasses
    /\ watchdog' = WatchdogAt("checking", {s \in Streams : Spawned(s)})
    /\ UNCHANGED <<phase, wanted, orphaned, protocol, givenUp>>

\* A camera slow to answer does not stop the clock.
CameraIsSlow ==
    /\ watchdog.pc = "sourcing"
    /\ TimePasses
    /\ watchdog' = [watchdog EXCEPT !.restarts = Aged(@)]
    /\ UNCHANGED <<phase, wanted, orphaned, protocol, givenUp>>

Checking(s) == watchdog.pc = "checking" /\ s \in watchdog.todo

Checked(s) == WatchdogAt("checking", watchdog.todo \ {s})

\* The first healthy stream ends the round.
FirstAliveEndsRound(s) == WatchdogAt("checking", {})

\* The round goes on with the next stream.
NextStream(s) == Checked(s)

\* Stopped while an earlier stream of the round was being restarted, or alive.
CheckHealthy(s) ==
    /\ Checking(s)
    /\ ~Dead(s)
    /\ watchdog' = NextStream(s)
    /\ UNCHANGED <<phase, wanted, handle, orphaned, protocol, recent, givenUp>>

\* One restart too many.
MayRestartOnceMore(s) == Cardinality(handle[s].restarts) <= MaxRestarts

MayRestart(s) == Cardinality(handle[s].restarts) < MaxRestarts

GiveUp(s) ==
    /\ Checking(s)
    /\ Dead(s)
    /\ ~MayRestart(s)
    /\ handle' = [handle EXCEPT ![s] = None]
    /\ givenUp' = givenUp \cup {s}
    /\ recent' = [recent EXCEPT ![s] = {}]
    /\ watchdog' = Checked(s)
    /\ UNCHANGED <<phase, wanted, orphaned, protocol>>

\* The new pipeline keeps the empty tracking it was created with.
Untracked(ages) == {}

\* The tracking restored on the new pipeline.
Restored(ages) == ages

\* The source is at hand: the stream restarts within the round.
Restart(s) ==
    /\ Checking(s)
    /\ Dead(s)
    /\ MayRestart(s)
    /\ ~SourceSuspends
    /\ Spawn(s, Restored(handle[s].restarts \cup {0}))
    /\ recent' = [recent EXCEPT ![s] = @ \cup {0}]
    /\ watchdog' = Checked(s)
    /\ UNCHANGED <<phase, wanted, protocol, givenUp>>

\* The dead handle is gone while the camera is asked for the source.
AskForRestart(s) ==
    /\ Checking(s)
    /\ Dead(s)
    /\ MayRestart(s)
    /\ SourceSuspends
    /\ handle' = [handle EXCEPT ![s] = None]
    /\ recent' = [recent EXCEPT ![s] = @ \cup {0}]
    /\ watchdog' = [Checked(s) EXCEPT !.pc = "sourcing", !.of = s,
                                      !.restarts = handle[s].restarts \cup {0}]
    /\ UNCHANGED <<phase, wanted, orphaned, protocol, givenUp>>

Sourcing(s) == watchdog.pc = "sourcing" /\ watchdog.of = s

WatchdogSourced(s) ==
    /\ Sourcing(s)
    /\ Spawn(s, Restored(watchdog.restarts))
    /\ watchdog' = Checked(s)
    /\ UNCHANGED <<phase, wanted, protocol, recent, givenUp>>

\* "Failed to restart" is all that is left of the stream.
WatchdogSourceFails(s) ==
    /\ Sourcing(s)
    /\ watchdog' = Checked(s)
    /\ UNCHANGED <<phase, wanted, handle, orphaned, protocol, recent, givenUp>>

RoundOver ==
    /\ watchdog = WatchdogAt("checking", {})
    /\ watchdog' = Asleep
    /\ UNCHANGED <<phase, wanted, handle, orphaned, protocol, recent, givenUp>>

-----------------------------------------------------------------------------
(***************************************************************************)
(* process_video_settings, one stream at a time: a message for several is  *)
(* a series of these that nothing interrupts.                              *)
(***************************************************************************)

\* The handle of a pipeline found dead is left where it is.
DeadHandleKept(s) == IF Dead(s) THEN handle ELSE [handle EXCEPT ![s] = None]

\* stop_video_stream: terminated or dead, the pipeline leaves the handles.
Stopped(s) == [handle EXCEPT ![s] = None]

StopRequested(s) ==
    /\ LoopIsFree
    /\ Receiving
    /\ protocol = Waiting
    /\ handle' = Stopped(s)
    /\ wanted' = wanted \ {s}
    /\ recent' = [recent EXCEPT ![s] = {}]
    /\ UNCHANGED <<phase, orphaned, watchdog, protocol, givenUp>>

\* A stream is spawned whether it runs or not.
AlwaysSpawned(s) == TRUE

MustSpawn(s) == ~Running(s)

StartRequested(s) ==
    /\ LoopIsFree
    /\ Receiving
    /\ protocol = Waiting
    /\ wanted' = wanted \cup {s}
    /\ givenUp' = givenUp \ {s}
    /\ IF MustSpawn(s) /\ ~SourceSuspends
       THEN Adopt(s, Dead(s))
       ELSE UNCHANGED <<handle, orphaned, recent>>
    /\ protocol' = IF MustSpawn(s) /\ SourceSuspends
                   THEN [pc |-> "sourcing", of |-> s, dead |-> Dead(s)]
                   ELSE Waiting
    /\ UNCHANGED <<phase, watchdog>>

\* The handle that was dead before the await may be gone after it.
Lost(s) == protocol.dead /\ ~Spawned(s)

ProtocolSourced(s) ==
    /\ LoopIsFree
    /\ Receiving
    /\ protocol.pc = "sourcing"
    /\ protocol.of = s
    /\ ~Lost(s)
    /\ Adopt(s, protocol.dead)
    /\ protocol' = Waiting
    /\ UNCHANGED <<phase, wanted, watchdog, givenUp>>

-----------------------------------------------------------------------------
(***************************************************************************)
(* The connection: how Core.run ends one.                                  *)
(***************************************************************************)

StreamsClosed == [s \in Streams |-> None]

\* close() when no receiver is left.  It cancels the watchdog, and who waited
\* for a source waits no more.
Close ==
    /\ handle' = StreamsClosed
    /\ watchdog' = Absent
    /\ protocol' = Waiting
    /\ recent' = [s \in Streams |-> {}]
    /\ UNCHANGED <<wanted, orphaned, givenUp>>

\* The camera is adopted and _run creates the watchdog: maybe when the camera's
\* own task has failed meanwhile, and close() has already had none to cancel.
Connected ==
    /\ phase = "down"
    /\ phase' \in {"up", "closing", "hangingUp"}
    /\ watchdog' = Asleep
    /\ UNCHANGED <<wanted, handle, orphaned, protocol, recent, givenUp>>

\* A RetryableError, of either task: the socket closed, a reboot or an upgrade,
\* a source that Protect's request could not have.  The other task is cancelled.
Disconnected ==
    /\ LoopIsFree
    /\ phase = "up"
    /\ phase' = "down"
    /\ Close

\* The receiver fails otherwise.  When it is the first to fail the streams are
\* closed and the program ends; when that is under way, nobody takes notice.
ReceiverFails ==
    /\ LoopIsFree
    /\ Receiving
    /\ \/ phase = "up" /\ phase' = "exited" /\ Close
       \/ /\ phase # "up"
          /\ protocol' = Ended
          /\ UNCHANGED <<phase, wanted, handle, orphaned, watchdog, recent, givenUp>>

\* prev_state = self._ffmpeg_handles[stream_index] raises a KeyError.
HandleMissing ==
    /\ protocol.pc = "sourcing"
    /\ Lost(protocol.of)
    /\ ReceiverFails

\* The camera's own task fails otherwise.  The program will end: close() cancels
\* the watchdog and awaits the end of the motion events, but nobody cancels the
\* receiver.
CameraTaskFails ==
    /\ LoopIsFree
    /\ phase = "up"
    /\ phase' = "closing"
    /\ watchdog' = Absent
    /\ UNCHANGED <<wanted, handle, orphaned, protocol, recent, givenUp>>

\* The end of close(); ws.close() is next.
StreamsClose ==
    /\ LoopIsFree
    /\ phase = "closing"
    /\ phase' = "hangingUp"
    /\ handle' = StreamsClosed
    /\ recent' = [s \in Streams |-> {}]
    /\ UNCHANGED <<wanted, orphaned, watchdog, protocol, givenUp>>

\* The program ends, and with it all its tasks and what it knew of pipelines
\* that the receiver has started since.
ProgramEnds ==
    /\ LoopIsFree
    /\ phase = "hangingUp"
    /\ phase' = "exited"
    /\ orphaned' = orphaned \cup {s \in Streams : Running(s)}
    /\ handle' = StreamsClosed
    /\ watchdog' = Absent
    /\ protocol' = Waiting
    /\ recent' = [s \in Streams |-> {}]
    /\ UNCHANGED <<wanted, givenUp>>

-----------------------------------------------------------------------------
(***************************************************************************)
(* The pipelines end when the camera or Protect drops them.                *)
(***************************************************************************)

PipelineDies(s) ==
    /\ Running(s)
    /\ handle' = [handle EXCEPT ![s].alive = FALSE]
    /\ UNCHANGED <<phase, wanted, orphaned, watchdog, protocol, recent, givenUp>>

OrphanDies(s) ==
    /\ s \in orphaned
    /\ orphaned' = orphaned \ {s}
    /\ UNCHANGED <<phase, wanted, handle, watchdog, protocol, recent, givenUp>>

Check(s) ==
    \/ CheckHealthy(s) \/ GiveUp(s) \/ Restart(s) \/ AskForRestart(s)
    \/ WatchdogSourced(s) \/ WatchdogSourceFails(s)

Answered == HandleMissing \/ \E s \in Streams : ProtocolSourced(s)

Next ==
    /\ UNCHANGED source
    /\ \/ WatchdogWakes \/ CameraIsSlow \/ RoundOver
       \/ Connected \/ Disconnected \/ Answered
       \/ ReceiverFails \/ CameraTaskFails \/ StreamsClose \/ ProgramEnds
       \/ \E s \in Streams :
            \/ Check(s)
            \/ StopRequested(s) \/ StartRequested(s)
            \/ PipelineDies(s) \/ OrphanDies(s)

(***************************************************************************)
(* The watchdog's timer fires, its round goes on and the camera answers or *)
(* times out; its answer to Protect's request is taken up between rounds.  *)
(* Nothing obliges Protect to ask for anything.                            *)
(***************************************************************************)
Fairness ==
    /\ WF_state(WatchdogWakes)
    /\ WF_state(RoundOver)
    /\ \A s \in Streams : WF_state(Check(s))
    /\ SF_state(Answered)

Spec == Init /\ [][Next]_vars
FairSpec == Spec /\ Fairness

-----------------------------------------------------------------------------
(***************************************************************************)
(* Properties.                                                             *)
(***************************************************************************)

WatchdogStates ==
    [pc : {"absent", "asleep", "checking", "sourcing"},
     todo : SUBSET Streams, of : Streams \cup {None}, restarts : SUBSET Ages]

ProtocolStates ==
    [pc : {"idle", "sourcing", "ended"}, of : Streams \cup {None}, dead : BOOLEAN]

\* Every variable has its type.
TypeOK ==
    /\ source \in Sources
    /\ phase \in {"down", "up", "closing", "hangingUp", "exited"}
    /\ wanted \subseteq Streams
    /\ handle \in [Streams -> Handles \cup {None}]
    /\ orphaned \subseteq Streams
    /\ watchdog \in WatchdogStates
    /\ protocol \in ProtocolStates
    /\ recent \in [Streams -> SUBSET Ages]
    /\ givenUp \subseteq Streams

\* A comment in UnifiCamBase on _ffmpeg_handles: "Active FFmpeg stream states by
\* stream name".  Where the source is at hand, a live pipeline is always in a
\* handle, where a stop, the watchdog and close() find it, until the program has
\* ended; and none is left when Core.run dials again.
NoOrphans ==
    ~SourceSuspends =>
        /\ phase # "exited" => orphaned = {}
        /\ phase = "down" => \A s \in Streams : ~Spawned(s)

\* A comment of process_video_settings on the destination /dev/null: "means stop
\* stream".  Where the source is at hand, what the watchdog keeps alive is what
\* Protect wants.
StoppedStaysStopped ==
    ~SourceSuspends => \A s \in Streams : Spawned(s) => s \in wanted

\* "has restarted {MAX_RESTARTS} times in the last {RESTART_WINDOW}s": however
\* often pipelines die and Protect repeats its request meanwhile, and also where
\* the camera is slow to name its source or fails to, the watchdog does not
\* restart one more often.
RestartsAreLimited == \A s \in Streams : Cardinality(recent[s]) <= MaxRestarts

\* The docstring of _stream_health_watchdog: "Periodically check FFmpeg process
\* health and restart dead streams".  A dead stream runs again unless its limit
\* is reached, Protect stops it, the connection ends or its source is asked for.
DeadStreamsRestart ==
    \A s \in Streams :
        (Dead(s) /\ ~SourceSuspends) ~>
            (Running(s) \/ s \notin wanted \/ s \in givenUp \/ phase # "up")

=============================================================================
