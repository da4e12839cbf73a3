# Verification of unifi-camera-proxy

unifi-camera-proxy lets third-party cameras appear in UniFi Protect: one
process per camera speaks Protect's WebSocket protocol and runs `ffmpeg`
pipelines, and a web server starts and supervises these processes. This
directory holds TLA+ models of the parts whose correctness depends on the order
of events, TLC configurations that check them on small instances, and proofs
checked by TLAPS. `PROJECT.json` lists every run, the source lines of every
definition (`map`), the hazards, the findings and the theorems.

All Python code here is asyncio: coroutines of one process share a thread and
switch only at an `await` that really suspends. **In every module an action is
the code between two such awaits.**

## 1. Inventory

| Component | State | Operations | What makes it correct | Module |
|---|---|---|---|---|
| Generic motion events, `cams/base.py` 1442-1836 | `_active_analytics_event_id`, `_analytics_event_history`, `_analytics_start_task`, `_session` | `trigger_analytics_start`, `_stop`, the linger task, `stop_all_motion_events`, `close` | one event at a time at Protect, every start stopped, no event left over a reconnection | `AnalyticsEvents`, `MotionFeed` |
| Frigate tracking, `cams/frigate.py` | `frigate_to_unifi_event_map`, `_event_locks`, `_motion_is_on`, `_active_smart_events` | a task per MQTT message, `monitor_event_timeouts` | each tracked object has one event of its own, which ends | `FrigateEvents` |
| Camera supervisor, `web/camera_manager.py` | `CameraInstance`: process, status, tasks, attempts | start, stop, restart, delete, log reader, auto-restart, stability timer | one process per running camera, none lost; stop means stop; crashes are answered | `CameraSupervisor` |
| Video pipelines, `handlers/video_stream_handlers.py`, `process_video_settings` | `_ffmpeg_handles`, `_streams` | start, stop, watchdog, `close_streams` | every live pipeline is known and wanted; dead ones restart, within a limit | `StreamWatchdog` |
| Connection, adoption, dispatch, `core.py`, `cams/base.py`, `protocol_handlers.py` | socket, both tasks, firmware version | connect with backoff, `_run`, `process`, upgrade, `close` | every request answered once, in order; nothing of a connection outlives it; upgrades complete | `Connection`, `Conversation` |
| Talkback, `cams/base.py` 616-700 | a process | start, stop | no pump outlives its connection or its handle | in `Connection` |
| Snapshots, `snapshot_handlers.py` | cached image files | fetch, resize, upload | the request is answered | their awaits in `Connection` and `AnalyticsEvents` |
| Smart detect events, `cams/base.py` 959-1439 | `_active_smart_events` with descriptor history | start, update, stop | the same per object; ids are unique | in `FrigateEvents` |
| Camera types `rtsp`, `tapo`, `dahua`, `reolink`, `reolink_nvr`, `hikvision` | `motion_in_progress`, HTTP runner | the loops that call start and stop | motion at the camera is motion at Protect | the `Callers` of `AnalyticsEvents`, the sources of `StreamWatchdog` and `Connection` |
| go2rtc, `web/go2rtc.py` | one process, a lock | `start`, `stop`, `apply_config` | at most one process, serving the configuration saved last | `Go2rtc` |
| Web server, `web/server.py`, boot of cameras in `camera_manager.py` | status of every camera, configuration | start-up, boot, requests, shutdown | go2rtc as above; every enabled camera is booted | `WebServer` |
| Status feed, `camera_manager.py` 865-915 | clients, ticker task, a lock | register, unregister, broadcast | who listens has a ticker and comes to see the current statuses | `StatusFeed` |
| Log of a camera, `camera_manager.py`, `camera_ws` | bounded buffer, viewers, a lock | read, broadcast, subscribe | a viewer misses no line | `LogFeed` |
| Diagnostics server, configuration store, sessions and logins, live views | WebSocket clients, YAML file, session table | REST handlers | lookups and single writes | no |
| `clock_sync.py` | buffer | rewrite FLV timestamps | a filter of bytes | no |
| `model_db.py`, `utils.py`, frontend, tools, docs | - | tables, rendering, scripts | - | no |

How they interact: `CameraManager` spawns `main.py`, which runs `Core.run`.
`Core` opens the socket and runs `cam._run` (messages from Protect) beside
`cam.run` (events from the camera). When either raises `RetryableError`, the
other is cancelled, `cam.close()` ends events, talkback and streams, and `Core`
connects again. After any other exception `close()` runs too, but the other task
is not cancelled and runs on until the program has ended. Camera loops, MQTT
tasks and HTTP handlers call `trigger_motion_start/stop` in `base.py`, which
write to the socket through `send`. The supervisor sees only the end of a
process and its output, which it passes on to the viewers of the log; most
changes of a status are pushed to the dashboards, the others reach them with the
next tick. The web server calls the supervisor and, after each change of the
configuration, go2rtc.

What is hard about it, and why tests hardly reach it: calls of several
coroutines around the same `await`; cancellation inside a send; a connection
lost in the middle of a handler; state that outlives a connection; timers that
race requests; snapshots taken before a lock and delivered after it. The tests
of the repository (`tests/`) exercise single handlers. The 40 entries of
`hazards` in `PROJECT.json` name the places.

## 2. Modules

The modules describe separate parts of two programs. Those whose parts share
state are composed: `WebServer` extends `Go2rtc` and says when its operations
are called. Two abstract specifications say what UniFi Protect is promised:
`MotionFeed` of motion events, `Conversation` of its requests.

Where the model of a part reaches behaviour that nobody promised to exclude, no
property forbids it; section 5 lists what was found this way.

### AnalyticsEvents and MotionFeed

`AnalyticsEvents` has one action for each stretch of `trigger_analytics_start`,
`trigger_analytics_stop` and the linger task `_delayed_analytics_start`, and for
what `Core.run` does when a connection ends. `call` records where each coroutine
is suspended, `task` the linger task of every event; `starts`, `stops` and
`open` are what Protect has been told. `CallerKind` selects who calls: poll
loops (reolink, dahua), MQTT tasks (frigate), HTTP handlers (rtsp, tapo).
`cancelled` are the callers that have not met their `CancelledError` yet,
`survivors` the loops that never will: `trigger_analytics_stop` takes the
cancellation of its own caller for that of the linger task (`base.py`
1637-1640), so a loop cancelled there goes on calling while the connection is
closed and dialed again, and then beside its successor. `MotionFeed` is the
abstract promise to Protect; the run `analytics_poll` checks that the detailed
module implements it (`FeedSpec`, with `starts`, `stops` and `open` as the
mapping).

| Run | What it shows |
|---|---|
| `analytics_poll` | poll loops of which one may survive, lost connections: no event that `close()` found is active when it is over (`CloseResets`), and every stop that waits for snapshots ends its event (`StopEndsEvent`); until a loop survives, what Protect is told is a `MotionFeed` (`FeedSpec`), and a stop that was suspended clears no newer event's id (`LateStopSpares`) |
| `analytics_overlap` | two HTTP handlers that call even while `close()` runs, suspended sends, forced reconnects, events over an hour: `StartComesFirst` still holds |

Bounds: 4 events, 2 losses and two loops (a survivor and its successor; a third
connection would need both to survive); for the HTTP handlers 2 events and 1
loss, the fewest with an event that is old while another is new, on both sides
of a reconnection. HTTP handlers do everything MQTT tasks do and are not
cancelled with the connection, so the run with overlapping calls uses them; the
theorems name the kinds of caller they cover.

`FeedSpec` and `LateStopSpares` do not hold with overlapping callers, be they
HTTP handlers or a surviving loop and its successor: a second stop can pass the
check of the linger task after the first one has cancelled it, and a stop that
comes back late clears whatever id is active. Both therefore speak of the time
until a loop has survived (`survivors' = {}`), and `analytics_poll` goes on
beyond it for the other properties. `CloseResets` allows an event that began
after `close()` did, because a survivor or an HTTP handler may start one; it
does not hold for a forced reconnect over a socket that has just died.

### FrigateEvents

Every MQTT message is a task in `handler`, with the point where it is suspended
(`waiting` for the object's lock, `entering`, `moving`, `fetching`, ...). The
locks of one object are told apart by a generation, because `_event_locks.pop`
may drop a lock that tasks still wait for. `event` is `_active_smart_events`:
live, ended (kept for an hour) or gone. `monitor` is the coroutine that ends
silent events, which takes no lock. `BrokerLost`, `ProtectLost` and
`ProtectReboots` cancel the tasks.

| Run | What it shows |
|---|---|
| `frigate_tracking` | two objects, messages in Frigate's order: each object has an event of its own, nothing is sent after a leave and tracked objects and live events correspond (`ObjectsFollowed`), a deferred stop is made up for |
| `frigate_outages` | with the monitor, lost connections, and messages in any order, repeated or missing: every recorded event ends, every message is handled, and before any loss no entry of the map is left for an ended event |

Bounds: 2 objects and 6 messages let the handlers of two objects overlap fully
(new, update, end of one inside the other's); the liveness run has one object
and as many event ids as messages, so that the bound on ids never stops a
handler. `MapIsLive` speaks of the time before the first loss: afterwards
entries are left behind.

### CameraSupervisor

One camera: `listed`, `status`, `process`, `manually_stopped`,
`restart_attempt` and the task handles are the fields of `CameraInstance`;
`proc`, `reader`, `timer`, `stability` are the operating system's processes and
the tasks that belong to them, with a number each; `call` is where each HTTP
request is suspended. Requests are start, stop, restart and delete; start_all,
stop_all and start_all_enabled issue the same ones.

| Run | What it shows |
|---|---|
| `supervisor_auto` | one request at a time, auto-restart: crashed cameras come back with one process, only the current run resets the attempts, every stop ends although a process may ignore SIGTERM |
| `supervisor_race` | two overlapping requests of every kind, failing starts: a stop halts the auto-restart, "restarting" is never a dead end |
| `supervisor_delete` (violated) | overlapping starts make two processes, delete stops one |

`Supervised` needs requests one at a time; with overlapping ones it fails, which
is the finding of `supervisor_delete`. `CrashIsAnswered` needs processes that can
be created: a restart that fails to create one leaves the status `error` and is
not retried, even with no limit on attempts. Bounds: 3 or 4 requests and 2 crashes
are a stop and a start around each of two restarts.

### StreamWatchdog

`handle` is `_ffmpeg_handles`, `wanted` is `_streams`, `orphaned` the streams
with a live pipeline in no handle. `watchdog` and `protocol` are the two
coroutines that start streams. `source` never changes: it is what kind of camera
this is, one whose source is at hand, or one (Dahua) that has to be asked for
it, where both coroutines can be suspended in `get_stream_source` and the answer
may be an error. Time is counted in rounds of the watchdog and timestamps are
kept as ages, so that the state space is finite without a bound on time.
`phase` follows `Core.connect`. After a `RetryableError` the receiver is
cancelled and the connection is `down` until the next one. When the camera's task
fails otherwise (`CameraTaskFails`) the receiver is not cancelled: it serves
requests through `closing` and `hangingUp` until the program has `exited`. When
the receiver itself fails (`ReceiverFails`, of which the KeyError of
`start_video_stream` 146 is one, `HandleMissing`) nothing but `close()` is left.

| Run | What it shows |
|---|---|
| `watchdog` | two streams, both kinds of camera: where the source is at hand, live pipelines of the running program are known and none is left when the next connection is dialed (`NoOrphans`), they are wanted (`StoppedStaysStopped`), and dead streams restart (`DeadStreamsRestart`); the limit on restarts holds for both |

Bounds: two streams, at most 1 restart in 2 rounds: the limit is reached, holds
for a round and is left again. `NoOrphans` says nothing of a program that has
ended, for the reason section 5 gives. The program's own constants (5 in
20 rounds) are covered by the theorem. The conditions of the three properties are
needed: Protect can ask for a source the watchdog is waiting for, and the
watchdog does not try a second time when a source cannot be had.

### Connection and Conversation

`phase` is where `Core.connect` stands, `receiver[k]` and `source[k]` the two
tasks of connection `k`: the one in `UnifiCamBase._run` and the camera's own.
They are kept by connection since a task can outlive its connection, when its
cancellation is swallowed or when the failure was not retryable. `session`,
`watchdog`, `pump` and `fw` are `_session`, `_watchdog_task`, `_talkback_proc`
and `args.fw_version`; `open` is the socket. A request has a number and one of
twelve kinds, by what `process()` awaits and sends for it: `Dispatch` is its
`if` chain, `Reply` the `send(res)` at its end, and the actions after it are the
places in which a handler suspends. `unknown` are the requests whose
`functionName` has no case: the code answers none of them, whatever their
`responseExpected` says. `failure` is the first exception `gather()`
sees: a `RetryableError` (back off and dial again) or another (the program ends,
after `close()`, during which the other task runs on).

| Run | What it shows |
|---|---|
| `connection` | nothing of a connection is left when the next one is dialed; Protect is answered as `Conversation` says; however slow the camera, a request that expects an answer and has a case in `process()` gets it or its connection ends; a firmware upgrade is completed although it may be lost after it was acknowledged |

`Conversation` is what Protect may rely on: each request is answered at most
once, in the order asked and on its connection. The mapping is the identity on
`conn`, `asked` and `answers`. Bounds: two requests of any kind, so that one is
in the inbox while the other is handled; one fault anywhere (dial, socket,
reboot, lost binary) on top of the reconnection of every upgrade, so up to three
connections; two messages in flight.

### Go2rtc and WebServer

`Go2rtc` has the operations of `Go2rtcManager` for three tasks: the start-up, the
shutdown, and whichever `apply_config` holds `_apply_lock`; `pending` counts those
that wait for it. Configurations are counted, processes numbered. `WebServer`
adds the life of the server: `on_startup`, the task that boots one camera after
the other, the requests, `on_shutdown`. What happens inside the start or stop of
a camera is in `CameraSupervisor`.

| Run | What it shows |
|---|---|
| `web_server` | never two go2rtc processes, and the one there is can be stopped; after a series of changes go2rtc serves the last one; every enabled camera is booted although others fail and users interfere |

Bounds: three changes, one for each place of a sync: done, running, waiting;
two cameras, one before the other in the boot.

### StatusFeed

`handler` is `status_ws` of each client, `members` the set of subscribed
clients, `queue` the tasks at `_status_ws_lock`, whose head holds it. A snapshot
is the number of changes of a status it knows of. A change may schedule a
broadcast or not: cameras added, changed or deleted, a stop of one that has
failed and an auto-restart given up schedule none.

| Run | What it shows |
|---|---|
| `status_feed` | while anybody is subscribed there is a ticker; no client sees an older snapshot after a newer one; a client comes to see the current one, by the next tick if not before, also when the change was pushed to nobody or fell between its first snapshot and its subscription |

Bounds: two clients, so that one breaks or leaves while a broadcast serves the
other; two changes, hence broadcasts that wait for the lock in a row.

### LogFeed

`reader` are the readers of stdout and stderr, `Buffer` is `log_buffer`, `queue`
the tasks at `_ws_lock`. `from` is the first line a viewer is due, `shown` how
often it got each, `cut` the lines whose broadcast a stop has cancelled.

| Run | What it shows |
|---|---|
| `log_feed` | a viewer misses no line from the oldest it was greeted with, except those that a stop cut, through starts, stops, breaking viewers and a full buffer |

Bounds: a buffer of two and four lines, so that it runs over twice; two viewers
and two readers, each of which waits for the others at the lock. The run uses
symmetry: it has no liveness property, and nothing tells viewers or streams
apart.

## 3. Fairness

Weak fairness for every continuation of a coroutine: the loop runs every ready
task, timers fire, sends drain or fail, HTTP requests have timeouts. The broker
and Protect can be reached again, since `Core` and the MQTT loop retry for ever;
Protect repeats an upgrade as long as the hello names another version ("Protect
may re-issue", `base.py` 1980), and nothing else. A killed process dies, and a
process that go2rtc's manager terminates ends, since it is killed after five
seconds. A send to a dashboard ends: it is delivered or its socket is found to be
broken. `StreamWatchdog` has strong fairness for taking up a camera's answer,
which the watchdog's rounds delay but never prevent. Nothing obliges users,
Protect, cameras or Frigate to do anything, and no camera process has to heed
SIGTERM. `LogFeed` has no fairness, because a viewer that reads nothing really
holds up the log (section 5).

Deadlock is not checked in models that really stop: a server that is closed, a
process that has exited, bounds that are used up.

## 4. Proofs

TLAPS checks the following for every value of the constants, that is for any
number of coroutines, objects, streams, viewers, requests, faults and cameras,
within the hypotheses named. Every invariant and action property and both
refinements that the passing runs check are proved; the hypotheses of a
theorem contain the constants of the run that checks its property.

* `AnalyticsEventsProofs`: `TypeCorrect` and `StartComesFirstTheorem` (no event
  starts twice or after its stop), for any callers. The invariant says that
  unused ids have left no trace, that the handle is the active event's, that a
  start on the wire was written by the event's task and a stop only after that
  task was over, and that a stop past its check works on a finished task;
  without the last part a suspended stop could not be related to the task it
  has waited for.
  - `CloseResetsTheorem`, without forced reconnects, for any callers: once the
    session is gone the stop that `close()` calls cannot raise, so until the
    closer is done it works on the active event, or that one has begun since
    (`CloseInv`).
  - `FeedRefinement` and `LateStopTheorem`, under `PollLoops` and until a loop
    has survived its cancellation: Protect's view is the active event or nothing
    (`OpenInv`), which holds because only the active event has a linger task that
    may send (`TaskInv`), and because a stop that is suspended works on the
    active event unless the closer has been faster (`StopsInv`). All of it rests
    on there being one loop, and none that begins an event while its connection
    is being closed (`LoopInv`), which is what a survivor ends. Each part of the
    hypothesis is needed: with one poll loop, TLC finds `FeedSpec` violated as
    soon as sends suspend, reconnects are forced or events outlive the hour of
    the history.
* `CameraSupervisorProofs`: `TypeCorrect`, `StopHaltsRestartTheorem` and
  `RestartingTheorem`, for overlapping requests of every kind. The invariant
  adds that a pending restart is the one the instance's handle refers to: a stop
  cancels only that one. `SupervisedTheorem` and `ResetIsEarnedTheorem` are
  about requests one at a time (`OneAtATime`): only the timer of the current
  process lowers the restart count, since all handles of a running camera are
  those of one process (`RunInv`), which a start never replaces, since it finds
  nothing running (`StartInv`) and a stop lets no restart begin (`StopInv`). A
  deleted camera has nothing on its way (`DeleteInv`). The hypothesis excludes
  users' starts and deletes of cameras with auto-restart, which may overtake the
  auto-restart while it creates its process (section 5): TLC finds `Supervised`
  violated with either.
* `FrigateEventsProofs`:
  - `TypeCorrect` and `OwnEventsTheorem` (no two objects share an event), without
    hypotheses. `IdsHaveOneHolder` covers the time between handing out an id and
    mapping it: handlers that hold an id no map has yet hold different ones.
  - `MapIsLiveTheorem`, without hypotheses either: before any loss a mapped
    event is live once handlers and monitor are at rest, and before that it is
    live, or the handler or the monitor that ended it is about to delete exactly
    this entry (`LiveOrDeleted`). It rests on who may end an event, which is
    whoever found it mapped (`EndsOwn`), and on an event being mapped only after
    it was registered and before anybody else knows its id (`Recorded`,
    `IdsInUse`). The converse is not claimed: the monitor's deletion, after its
    awaits, may hit the entry of a newer event, which is then live and unmapped.
  - `DeferredStopTheorem`, under `Undisturbed` (no timeouts, no lost
    connections), for any order of messages. The monitor and a lost connection
    are how a deferred OFF really is forgotten (section 5).
  - `ObjectsFollowedTheorem`, under `Orderly`: undisturbed, and each object's
    messages are one "new", updates and at most one "end", which is what
    Frigate publishes. Then the tasks of an object take turns under one lock in
    the order of its messages (`InTurn`), and its mapping is what the messages
    handled so far say (`Follows`). From that, an event that has left is used by
    nobody any more (`LeftForGood`), and a live event is mapped or about to be
    (`Held`). With timeouts TLC finds either half of the property violated:
    the monitor, which takes no lock, ends an event under its object's handlers.
* `StreamWatchdogProofs`: `TypeCorrect`; `RestartsAreLimitedTheorem`, for slow
  and failing sources too: the restarts seen within the window are always among
  those tracked by the handle, or by the watchdog while it holds the stream;
  and, for cameras whose source is at hand, `NoOrphansTheorem` (in a running
  program every live pipeline is in a handle, and none is left while Core dials)
  and `StoppedTheorem`.
* `ConnectionProofs`: `TypeCorrect`; `NothingLeftBehindTheorem`, from
  `ResidueInv`: only the receiver of the current connection is alive, and it is
  not while a retryable failure is being cleaned up, which is why no step can
  bring watchdog or pump back; and `ConversationTheorem`, the refinement.
  `OrderInv` says where a request that is owed an answer stands: its number is
  above every answer and, once it is in hand, below everything in the inbox. It
  needs `ResidueInv`, because a second receiver could answer out of turn.
* `StatusFeedProofs`: `TypeCorrect`, `MembersHaveTickerTheorem` and
  `SnapshotsMoveForwardTheorem`, without hypotheses. Whoever but a broadcast
  stands at the lock stands there once and for what its state says (`Placed`,
  `OnePlace`), so that cancelling the ticker removes the only job it has.
  Snapshots stand at the lock in the order in which they were taken (`InOrder`),
  and none is older than what a client has seen that is subscribed, or that
  stands before it to subscribe and will be by its turn (`NoneOlder`).
* `LogFeedProofs`: `TypeCorrect` and `NothingMissedTheorem`, without hypotheses.
  A line a viewer is due was shown, is in a job at the lock that still has this
  viewer to serve, or was cut. The invariant adds that no two jobs carry the
  same line or the same reader (`OneEach`), so that a cancelled reader takes
  only its own line along, and that who watches is subscribed until its socket
  is found to be broken (`Subscribed`).
* `WebServerProofs`: `TypeCorrect` and `OneRelayTheorem`. The invariant says
  that the handle refers to the only process and that there is none while one is
  being created (`RelayInHand`), and which task does what (`TasksKeepApart`):
  only the start-up starts go2rtc before requests are served, only
  `apply_config` replaces it afterwards, and the shutdown, which takes no lock,
  only stops it.

The assumptions are those stated with the constants in each module; TLC
evaluates them in every run. The inductive invariants were checked by TLC on the
instances of the runs, and on others within the hypotheses, before they were
proved.

Only model-checked is what needs fairness: `StopEndsEvent`, `CrashIsAnswered`,
`StopCompletes`, `EventsEnd`, `MessagesAreHandled`, `DeadStreamsRestart`,
`RequestsAreAnswered`, `UpgradeCompletes`, `ClientsCatchUp`, `RelayCatchesUp` and
`EveryCameraBoots`. Out of the prover's reach altogether are liveness, ENABLED,
induction over data and recursive operators. No module here has a recursive
operator.

## 5. What the models showed without a property

The finding in `PROJECT.json` contradicts a docstring: overlapping starts of a
camera create two processes, and delete stops one (`supervisor_delete`). The
following the models reach as well; nothing in the repository promises
otherwise, or a comment describes only the usual case. They are the reason for
the conditions of the properties named.

* A brief motion whose start is just draining: the stop cancels the linger task
  inside its send and forgets the event, whose start is written (`base.py`
  1635-1645). Hence `FeedSpec` is checked with sends that do not suspend.
* The same stop swallows a `CancelledError` (`base.py` 1637): cancelled by
  `Core` there, the camera's loop goes on while the connection is closed, and
  then beside that of the next one. `Connection` has it (`TasksCancelled`,
  where `NothingLeftBehind` speaks of the receivers) and so has
  `AnalyticsEvents` (`survivors`). Two loops overlap as two HTTP handlers do,
  and then: the second stop finds the record deleted, and the KeyError (`base.py`
  1645) ends the program when it leaves the connection's own loop; a stop that
  comes late clears the id of a newer event, which is never stopped; and a start
  may be written without a stop, or a stop without a start.
* An event that outlives the hour of the history is dropped by the next start
  (`base.py` 752): its stop only clears the id, and Protect hears of no end.
* After a failure that is not a `RetryableError` nobody cancels the receiver
  (`core.py` 116). A request it serves after `close_streams()` starts a pipeline
  that the ending program leaves behind.
* A request with an unknown `functionName` is answered by nobody, even with
  `responseExpected` (`base.py` 2126-2133). `RequestsAreAnswered` leaves it out.
* Some changes of what `get_all_statuses` returns schedule no broadcast: a stop
  of a camera in `error` (`camera_manager.py` 539-541), an auto-restart given up
  (352-361), a camera added, changed or deleted (671-725). The docstring of
  `status_ws` (`server.py` 416-425) names a push for every start, stop, error
  and restart beside the tick every five seconds; `ClientsCatchUp` relies on the
  tick alone.
* An OFF of Frigate's motion is deferred for events that a reconnection has
  ended (`frigate.py` 618), and not made up for when the last object times out
  (`frigate.py` 672).
* A stop from Protect during the watchdog's request for a source is overridden by
  the restart (`video_stream_handlers.py` 296), and the handle it removed makes
  a concurrent start end the program with a KeyError (146).
* An auto-restart that cannot create its process is not tried again, even with
  no limit on attempts. While it creates one the status is `restarting`: a start
  by the user creates a second process, and a delete drops the camera without
  stopping anything.
* An `apply_config` that goes on after `on_shutdown` has stopped go2rtc creates
  one that nobody stops.
* The boot task starts cameras that a user has added, or stopped, while it ran.
* A line of the log may be shown twice, or after a later one, when readers wait
  for the lock; lines whose broadcast a stop cancels reach nobody; and a viewer
  that reads nothing keeps the lock, and with it the readers of the camera.

## 6. What the models leave out

* Payloads, scores, boxes, snapshots, labels, the text of log lines, command
  lines.
* Event ids are numbers in the order of registration; in the code they come
  from the clock, and an ignored duplicate consumes one too.
* `AnalyticsEvents`: calls while motion events are switched off do nothing. The
  socket buffers are Protect's: written is told. Whether a poll loop calls start
  or stop is left open, so `motion_in_progress`, which outlives a connection and
  keeps lasting motion from being reported again, does not appear. The end of a
  caller that was cancelled is its own step; that of the linger task is
  `StartCancelled`.
* `FrigateEvents`: the loss of the connection to Protect is one step, in which
  the cancelled tasks have also ended, and the
  generic event is only the id that is active: `AnalyticsEvents` has its
  details. Every send and every notification may suspend. Labels and snapshot
  events are left out; the fetch of snapshots is a point of suspension.
* `CameraSupervisor`: names synchronised to Protect (the name is read before the
  awaits of its delivery, `camera_manager.py` 419, so a later rename can be
  overtaken), `next_restart_at`, the diagnostics port. Creating a process takes
  several turns of the loop. Cancelling a restart that is creating a process
  kills that process, as asyncio does.
* `StreamWatchdog`: destinations (a start for a running stream is ignored, even
  with another one), failures of `Popen`, the 2 seconds a stop may block the
  loop. A message for several streams is a series of single ones. Wall-clock
  jumps are not modelled.
* `Connection`: message ids are the numbers Protect gives; the contents of the
  hello but its version; a camera without a talkback url, which ignores those
  requests. The streams that `close()` ends are in `StreamWatchdog`, the events
  in `AnalyticsEvents`.
* `Go2rtc`: a server without the binary (`_available`) has no process, and every
  operation returns at once. A file that cannot be written or streams that cannot
  be built end an `apply_config` like a process that cannot be created
  (`CreateFails`), and at start-up end the program (`StartAborts`).
* `WebServer`: sessions, logins, kiosk tokens, rate limits, validation, the
  proxies. They read or write one table within a request.
* `StatusFeed`, `LogFeed`: what a snapshot or a line says. A client connects
  once; a new connection is a new client.
* Not modelled at all: the diagnostics server of a camera (a set of clients as in
  `StatusFeed`, without a ticker); the configuration store (one synchronous
  write, never interleaved); live views; `clock_sync.py`, a filter of bytes with
  neither concurrency nor a promise beyond its layout (the 32-bit timestamp of
  its trailer, line 44, overflows after 13 hours with the modifier of 90); camera
  models, frontend, tools, packaging.

## 7. Plan

Modelling is complete as far as the sections above say, and what the passing
runs check of safety is proved. What could be added are results for the cases
the hypotheses of section 4 exclude, where the properties as they stand do not
hold:

1. `CameraSupervisor`: with overlapping requests, the processes outside the
   instance's handle are those whose start was overtaken by another.
2. `FrigateEvents`: with timeouts, an event that is updated after its leave was
   ended by the monitor, not by a handler.
3. `AnalyticsEvents`: with suspended sends, an event whose start is written late
   is one whose stop has cancelled the linger task; with a surviving loop, which
   part of `MotionFeed` two overlapping loops still keep.
