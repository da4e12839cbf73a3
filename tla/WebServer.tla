------------------------------ MODULE WebServer ------------------------------
(***************************************************************************)
(* The start and the end of the web server around the parts it manages:    *)
(* on_startup starts go2rtc and then, in a task of its own, one camera     *)
(* after the other; requests change the configuration and start and stop   *)
(* cameras; on_shutdown stops cameras and go2rtc (unifi/web/server.py,     *)
(* unifi/web/camera_manager.py).  Go2rtc models the streaming server;      *)
(* what starting and stopping a camera involves is in CameraSupervisor.    *)
(***************************************************************************)
EXTENDS Go2rtc

CONSTANTS
    Cameras,     \* the enabled cameras of the configuration
    NoCamera

ASSUME CamerasAssumption == IsFiniteSet(Cameras) /\ NoCamera \notin Cameras

VARIABLES
    server,      \* "starting", "serving", "stoppingCameras", "stoppingRelay", "closed"
    status,      \* of every camera: "stopped", "running" or "error"
    bootTodo,    \* cameras start_all_enabled has not come to
    booting,     \* the one whose process it is creating
    booted,      \* those it has started or found running
    stopTodo     \* cameras stop_all has not come to

serverVars == <<server, status, bootTodo, booting, booted, stopTodo>>
vars == <<relayVars, serverVars>>

Init ==
    /\ InitRelay
    /\ server = "starting"
    /\ status = [c \in Cameras |-> "stopped"]
    /\ bootTodo = {}
    /\ booting = NoCamera
    /\ booted = {}
    /\ stopTodo = {}

-----------------------------------------------------------------------------
\* on_startup calls start_streaming_server, before requests are accepted.
StartsRelay ==
    /\ server = "starting"
    /\ spawned = 0
    /\ ~broken
    /\ StartCalled("startup")
    /\ UNCHANGED serverVars

\* Its file cannot be written: the exception leaves on_startup and ends the
\* program before it has served a request.
StartAborts ==
    /\ server = "starting"
    /\ spawned = 0
    /\ ~broken
    /\ ~Busy("startup")
    /\ server' = "closed"
    /\ UNCHANGED <<relayVars, status, bootTodo, booting, booted, stopTodo>>

\* It has returned, with go2rtc or without; start_all_enabled is left to a task.
Serves ==
    /\ server = "starting"
    /\ spawned > 0 \/ broken
    /\ ~Busy("startup")
    /\ server' = "serving"
    /\ bootTodo' = Cameras
    /\ UNCHANGED <<relayVars, status, booting, booted, stopTodo>>

\* start_all_enabled, 1.5 seconds after the camera before.
BootBegins(c) ==
    /\ booting = NoCamera
    /\ c \in bootTodo
    /\ bootTodo' = bootTodo \ {c}
    /\ IF status[c] = "running"
       THEN booted' = booted \cup {c} /\ UNCHANGED booting
       ELSE booting' = c /\ UNCHANGED booted
    /\ UNCHANGED <<relayVars, server, status, stopTodo>>

\* One that cannot be started ends the task.
FailureEndsBoot == bootTodo' = {}

\* start_camera catches what goes wrong.
FailureIsCaught == UNCHANGED bootTodo

Booted ==
    /\ booting # NoCamera
    /\ \/ /\ status' = [status EXCEPT ![booting] = "running"]
          /\ UNCHANGED bootTodo
       \/ /\ status' = [status EXCEPT ![booting] = "error"]
          /\ FailureIsCaught
    /\ booted' = booted \cup {booting}
    /\ booting' = NoCamera
    /\ UNCHANGED <<relayVars, server, stopTodo>>

\* Requests.
CameraStarts(c) ==
    /\ server = "serving"
    /\ status[c] # "running"
    /\ status' = [status EXCEPT ![c] = "running"]
    /\ UNCHANGED <<relayVars, server, bootTodo, booting, booted, stopTodo>>

CameraStops(c) ==
    /\ server = "serving"
    /\ status[c] = "running"
    /\ status' = [status EXCEPT ![c] = "stopped"]
    /\ UNCHANGED <<relayVars, server, bootTodo, booting, booted, stopTodo>>

\* add_camera, update_camera, delete_camera and update_global.
ConfigSaved ==
    /\ server = "serving"
    /\ ConfigChanges
    /\ UNCHANGED serverVars

\* on_shutdown: stop_all takes the cameras there are.
ShutdownBegins ==
    /\ server = "serving"
    /\ server' = "stoppingCameras"
    /\ stopTodo' = Cameras
    /\ UNCHANGED <<relayVars, status, bootTodo, booting, booted>>

ShutdownStops(c) ==
    /\ server = "stoppingCameras"
    /\ c \in stopTodo
    /\ stopTodo' = stopTodo \ {c}
    /\ status' = [status EXCEPT ![c] = IF @ = "running" THEN "stopped" ELSE @]
    /\ UNCHANGED <<relayVars, server, bootTodo, booting, booted>>

\* stop_streaming_server, which does not take the lock.
StopsRelay ==
    /\ server = "stoppingCameras"
    /\ stopTodo = {}
    /\ server' = "stoppingRelay"
    /\ StopCalled("shutdown")
    /\ UNCHANGED <<status, bootTodo, booting, booted, stopTodo>>

Closes ==
    /\ server = "stoppingRelay"
    /\ ~Busy("shutdown")
    /\ server' = "closed"
    /\ UNCHANGED <<relayVars, status, bootTodo, booting, booted, stopTodo>>

-----------------------------------------------------------------------------
\* Once closed, the program ends and takes its tasks with it.
RelayRuns ==
    /\ server # "closed"
    /\ Relaying
    /\ UNCHANGED serverVars

RelayFails ==
    /\ server # "closed"
    /\ \E r \in relays : RelayDies(r)
    /\ UNCHANGED serverVars

Boot == server # "closed" /\ (Booted \/ \E c \in Cameras : BootBegins(c))

Lifecycle ==
    \/ StartsRelay \/ Serves \/ StopsRelay \/ Closes
    \/ \E c \in Cameras : ShutdownStops(c)

Next ==
    \/ RelayRuns \/ RelayFails \/ Boot \/ Lifecycle
    \/ StartAborts \/ ConfigSaved \/ ShutdownBegins
    \/ \E c \in Cameras : CameraStarts(c) \/ CameraStops(c)

(***************************************************************************)
(* The loop runs its tasks and their timers fire; nothing obliges anybody  *)
(* to make a request or to shut the server down.                           *)
(***************************************************************************)
Fairness == WF_vars(RelayRuns) /\ WF_vars(Boot) /\ WF_vars(Lifecycle)

Spec == Init /\ [][Next]_vars
FairSpec == Spec /\ Fairness

-----------------------------------------------------------------------------
(***************************************************************************)
(* Properties.                                                             *)
(***************************************************************************)

\* Every variable has its type.
TypeOK ==
    /\ RelayTypeOK
    /\ server \in {"starting", "serving", "stoppingCameras", "stoppingRelay", "closed"}
    /\ status \in [Cameras -> {"stopped", "running", "error"}]
    /\ {bootTodo, booted, stopTodo} \subseteq SUBSET Cameras
    /\ booting \in Cameras \cup {NoCamera}

\* The docstring of apply_config: "Rewrite the go2rtc config from the app config
\* and (re)start go2rtc".  After the last of several quick changes go2rtc comes
\* to serve the configuration that is saved, unless it dies or cannot be created
\* or the server shuts down.
RelayCatchesUp ==
    \A n \in Configs :
        (server = "serving" /\ config = n)
            ~> (\/ \E r \in relays : r.no = handle /\ r.serves >= n
                \/ broken
                \/ server # "serving")

\* start_all_enabled comes to every enabled camera, whatever becomes of the ones
\* before it and whatever users start and stop meanwhile.
EveryCameraBoots ==
    \A c \in Cameras : server = "serving" ~> (c \in booted \/ server # "serving")

=============================================================================
