----------------------------- MODULE Connection -----------------------------
(***************************************************************************)
(* The connection of one camera process to UniFi Protect: Core.run dials,  *)
(* runs a task that receives messages beside the task of the camera, tears *)
(* both down and dials again (unifi/core.py); UnifiCamBase adopts the      *)
(* camera, dispatches the messages and answers them, follows Protect's     *)
(* firmware upgrades and runs the pump of two-way audio                    *)
(* (unifi/cams/base.py, unifi/cams/handlers).                              *)
(*                                                                         *)
(* Everything runs on one asyncio loop, so an action is the code between   *)
(* two awaits that can suspend.  Requests are numbered as Protect sends    *)
(* them; of a request the model keeps the number and the kind.             *)
(*                                                                         *)
(* Before some definitions stands a faulty variant of it, named for a slip *)
(* that code like this invites.  No specification here uses one; each      *)
(* breaks the property PROJECT.json pairs it with.                         *)
(***************************************************************************)
EXTENDS Integers, Sequences

CONSTANTS
    MaxRequests,    \* bound: requests Protect sends, upgrades aside
    MaxFaults       \* bound: failures that end a connection or an attempt

ASSUME BoundsAssumption == MaxRequests \in Nat /\ MaxFaults \in Nat

(***************************************************************************)
(* The kinds of requests, by what process() does with them:                *)
(*   "static"    answered from what the camera knows (most kinds);         *)
(*   "picture"   ChangeIspSettings: the camera is asked first;             *)
(*   "streams"   ChangeVideoSettings: pipelines start and stop first;      *)
(*   "snapshot"  GetRequest: fetched and uploaded first; "quietSnapshot"   *)
(*               is one that expects no answer;                            *)
(*   "talk", "hangUp"  ChangeTalkbackSettings with and without a url;      *)
(*   "ignored"   nothing: a hello, a move, what expects no response;       *)
(*   "unknown"   nothing either, although an answer is expected: a kind    *)
(*               without a case in process() is only logged;               *)
(*   "reboot"    Reboot;                                                   *)
(*   "upgrade", "upgradeHeader"  UpdateFirmwareRequest with the version in *)
(*               the URI, or only in the binary's header.                  *)
(***************************************************************************)
Upgrades == {"upgrade", "upgradeHeader"}
Quiet == {"quietSnapshot", "ignored", "reboot"}
Kinds == {"static", "picture", "streams", "snapshot", "talk", "hangUp", "unknown"}
            \cup Quiet \cup Upgrades

\* Every connection but the first follows a fault or the upgrade.
Conns == 1 .. MaxFaults + 2
Requests == [no : Nat, kind : Kinds]
NoRequest == [no |-> 0, kind |-> "ignored"]

VARIABLES
    phase,      \* where Core.connect stands
    conn,       \* the connection, counted
    open,       \* whether its socket is open
    session,    \* self._session: the connection it refers to, or 0
    failure,    \* how the first task of the connection to fail has failed
    receiver,   \* UnifiCamBase._run, by connection
    source,     \* the camera's own run(), by connection
    watchdog,   \* _watchdog_task runs
    pump,       \* _talkback_proc: "none", "alive" or "dead"
    stray,      \* a pump is alive that _talkback_proc does not refer to
    fw,         \* args.fw_version: the "old" or the one Protect has, "new"
    reported,   \* the version in the hello of this connection, or "none"
    inbox,      \* requests that are sent and not yet received
    requests,   \* how many Protect has sent
    asked,      \* those of this connection that expect an answer
    unknown,    \* those of asked of a kind that process() does not know
    answers,    \* those answered on this connection, in order
    faults      \* failures so far, counted for the bound

coreVars == <<phase, conn, open, session, failure>>
upgradeVars == <<fw, reported>>
pumpVars == <<pump, stray>>
protectVars == <<inbox, requests, asked, unknown>>
vars == <<coreVars, receiver, source, watchdog, pumpVars, upgradeVars,
          protectVars, answers, faults>>

At(pc, req) == [pc |-> pc, req |-> req]
Absent == At("absent", NoRequest)
Adopting == At("adopting", NoRequest)
Waiting == At("waiting", NoRequest)
Gone == At("gone", NoRequest)

Init ==
    /\ phase = "dialing"
    /\ conn = 0
    /\ open = FALSE
    /\ session = 0
    /\ failure = "none"
    /\ receiver = [k \in Conns |-> Absent]
    /\ source = [k \in Conns |-> "absent"]
    /\ watchdog = FALSE
    /\ pump = "none"
    /\ stray = FALSE
    /\ fw = "old"
    /\ reported = "none"
    /\ inbox = <<>>
    /\ requests = 0
    /\ asked = {}
    /\ unknown = {}
    /\ answers = <<>>
    /\ faults = 0

-----------------------------------------------------------------------------
(***************************************************************************)
(* Core.connect, repeated by backoff while it returns True.                *)
(***************************************************************************)

Fault == faults < MaxFaults /\ faults' = faults + 1

\* Rate limited, or the controller cannot be reached.
DialFails ==
    /\ phase = "dialing"
    /\ Fault
    /\ phase' = "backoff"
    /\ UNCHANGED <<conn, open, session, failure, receiver, source, watchdog,
                   pumpVars, upgradeVars, protectVars, answers>>

\* Any other status, such as that of an invalid token, ends the program.
DialRefused ==
    /\ phase = "dialing"
    /\ phase' = "exited"
    /\ UNCHANGED <<conn, open, session, failure, receiver, source, watchdog,
                   pumpVars, upgradeVars, protectVars, answers, faults>>

BackedOff ==
    /\ phase = "backoff"
    /\ phase' = "dialing"
    /\ UNCHANGED <<conn, open, session, failure, receiver, source, watchdog,
                   pumpVars, upgradeVars, protectVars, answers, faults>>

\* Set only when there is none.
SessionOnce == IF session = 0 THEN conn + 1 ELSE session

\* self._session = ws
NewSession == conn + 1

\* Both tasks are created; _run sets the session in its first step.
Dialed ==
    /\ phase = "dialing"
    /\ conn + 1 \in Conns
    /\ phase' = "up"
    /\ conn' = conn + 1
    /\ open' = TRUE
    /\ session' = NewSession
    /\ failure' = "none"
    /\ receiver' = [receiver EXCEPT ![conn'] = Adopting]
    /\ source' = [source EXCEPT ![conn'] = "running"]
    /\ inbox' = <<>>
    /\ asked' = {}
    /\ unknown' = {}
    /\ answers' = <<>>
    /\ reported' = "none"
    /\ UNCHANGED <<watchdog, pumpVars, fw, requests, faults>>

\* Neither task is cancelled.
NoneCancelled == UNCHANGED <<receiver, source>>

\* A cancelled task is gone, except when the camera's task is in the middle of
\* trigger_analytics_stop, where it awaits the start it has just cancelled and
\* takes the CancelledError for that of the start.
TasksCancelled ==
    /\ receiver' = [receiver EXCEPT ![conn] = Gone]
    /\ source' = [source EXCEPT ![conn] = IF @ = "stopping" THEN "running" ELSE "gone"]

\* gather() raises, and close() begins.  After an error that is not retryable
\* the other task goes on.
TearDown ==
    /\ phase = "up"
    /\ failure # "none"
    /\ IF failure = "retryable" THEN TasksCancelled ELSE UNCHANGED <<receiver, source>>
    /\ phase' = "closing"
    /\ watchdog' = FALSE
    /\ UNCHANGED <<conn, open, session, failure, pumpVars, upgradeVars,
                   protectVars, answers, faults>>

\* stop_talkback: the pump is waited for, and killed if need be.
PumpStopped == pump' = "none" /\ UNCHANGED stray

\* close() after it has ended the motion events; ws.close() begins.
Cleanup ==
    /\ phase = "closing"
    /\ PumpStopped
    /\ phase' = "hangingUp"
    /\ UNCHANGED <<conn, open, session, failure, receiver, source, watchdog,
                   upgradeVars, protectVars, answers, faults>>

HungUp ==
    /\ phase = "hangingUp"
    /\ open' = FALSE
    /\ phase' = IF failure = "retryable" THEN "backoff" ELSE "exited"
    /\ UNCHANGED <<conn, session, failure, receiver, source, watchdog, pumpVars,
                   upgradeVars, protectVars, answers, faults>>

-----------------------------------------------------------------------------
(***************************************************************************)
(* Tasks that fail.  gather() knows the first failure of its own tasks.    *)
(***************************************************************************)

Alive == phase # "exited"

FailureSeen(k, how) ==
    failure' = IF k = conn /\ failure = "none" THEN how ELSE failure

ReceiverFails(k, how) ==
    /\ receiver' = [receiver EXCEPT ![k] = Gone]
    /\ FailureSeen(k, how)

\* A message written now goes out.
Sendable == session = conn /\ open /\ phase # "hangingUp"

\* send() finds its socket closed, before or after it has written.
SendFails(k) ==
    /\ session # 0
    /\ ~Sendable
    /\ session' = 0
    /\ ReceiverFails(k, "retryable")

-----------------------------------------------------------------------------
(***************************************************************************)
(* UnifiCamBase._run: adoption.                                            *)
(***************************************************************************)

ReceiverAt(k, pc) == Alive /\ receiver[k].pc = pc

\* init_adoption has probed the streams: the hello goes out with the version of
\* this moment, or nowhere when there is no session.
HelloSent(k) ==
    /\ ReceiverAt(k, "adopting")
    /\ \/ /\ Sendable \/ session = 0
          /\ reported' = IF Sendable THEN fw ELSE reported
          /\ receiver' = [receiver EXCEPT ![k].pc = "greeting"]
          /\ UNCHANGED <<session, failure>>
       \/ SendFails(k) /\ UNCHANGED reported
    /\ UNCHANGED <<phase, conn, open, source, watchdog, pumpVars, fw, protectVars,
                   answers, faults>>

\* The hello has drained; the watchdog of the streams starts.
Adopted(k) ==
    /\ ReceiverAt(k, "greeting")
    /\ receiver' = [receiver EXCEPT ![k] = Waiting]
    /\ watchdog' = TRUE
    /\ UNCHANGED <<coreVars, source, pumpVars, upgradeVars, protectVars, answers, faults>>

\* recv() raises when the socket is closed and nothing is left to read.
ReceiverLosesSocket(k) ==
    /\ ReceiverAt(k, "waiting")
    /\ k < conn \/ (~open /\ inbox = <<>>)
    /\ session' = 0
    /\ ReceiverFails(k, "retryable")
    /\ UNCHANGED <<phase, conn, open, source, watchdog, pumpVars, upgradeVars,
                   protectVars, answers, faults>>

\* While a hello, an answer or an acknowledgement drains.
DrainFails(k) ==
    /\ \E pc \in {"greeting", "answering", "acking"} : ReceiverAt(k, pc)
    /\ SendFails(k)
    /\ UNCHANGED <<phase, conn, open, source, watchdog, pumpVars, upgradeVars,
                   protectVars, answers, faults>>

-----------------------------------------------------------------------------
(***************************************************************************)
(* UnifiCamBase.process.  The handlers await nothing but the camera, the   *)
(* snapshot's way to Protect and the socket.                               *)
(***************************************************************************)

\* The upload is taken for the answer.
UploadAnswers(r) == r.kind \notin Quiet \cup {"unknown", "snapshot"}

\* process() has a response for it.
HasResponse(r) == r.kind \notin Quiet \cup {"unknown"}

\* send(res), and on to the next message when there is nothing to send.
Reply(k, r) ==
    \/ /\ HasResponse(r)
       /\ Sendable
       /\ answers' = Append(answers, r.no)
       /\ receiver' = [receiver EXCEPT ![k] = At("answering", r)]
       /\ UNCHANGED <<session, failure>>
    \/ /\ ~HasResponse(r) \/ session = 0
       /\ receiver' = [receiver EXCEPT ![k] = Waiting]
       /\ UNCHANGED <<session, failure, answers>>
    \/ /\ HasResponse(r)
       /\ SendFails(k)
       /\ UNCHANGED answers

\* Suspends in the handler of r, at pc.
Suspend(k, pc, r) ==
    /\ receiver' = [receiver EXCEPT ![k] = At(pc, r)]
    /\ UNCHANGED <<session, failure, answers>>

\* "return True", and the caller raises RetryableError.
ForceReconnect(k) ==
    /\ ReceiverFails(k, "retryable")
    /\ UNCHANGED <<session, answers>>

\* The pump that plays goes on beside the new one.
StartedBeside ==
    /\ pump' = "alive"
    /\ stray' = (stray \/ pump = "alive")

\* stop_talkback, then start_talkback.
Restarted == pump' = "alive" /\ UNCHANGED stray

\* What process() does with a request, by its kind.

\* The camera is not asked, or there is nothing to do.
AnswersAtOnce(k, r) ==
    /\ r.kind \in {"static", "ignored", "unknown"}
    /\ Reply(k, r)
    /\ UNCHANGED pumpVars

AsksCamera(k, r) ==
    /\ r.kind = "picture"
    /\ Suspend(k, "handling", r)
    /\ UNCHANGED pumpVars

ChangesStreams(k, r) ==
    /\ r.kind = "streams"
    /\ Suspend(k, "handling", r)
    /\ UNCHANGED pumpVars

\* A cached picture is uploaded; otherwise one is fetched.
SnapshotPlaces == {"uploading", "fetching"}

FetchesSnapshot(k, r) ==
    /\ r.kind \in {"snapshot", "quietSnapshot"}
    /\ \E pc \in SnapshotPlaces : Suspend(k, pc, r)
    /\ UNCHANGED pumpVars

\* process_talkback_settings, for a camera with a talkback-url.
TalkbackSettings(k, r) ==
    /\ r.kind \in {"talk", "hangUp"}
    /\ IF r.kind = "talk" THEN Restarted ELSE PumpStopped
    /\ Reply(k, r)

\* The acknowledgement, lost when there is no session.
Acknowledge(k, r) ==
    /\ r.kind \in Upgrades
    /\ \/ /\ Sendable
          /\ answers' = Append(answers, r.no)
          /\ receiver' = [receiver EXCEPT ![k] = At("acking", r)]
          /\ UNCHANGED <<session, failure>>
       \/ session = 0 /\ Suspend(k, "acking", r)
       \/ SendFails(k) /\ UNCHANGED answers
    /\ UNCHANGED pumpVars

Reboots(k, r) ==
    /\ r.kind = "reboot"
    /\ ForceReconnect(k)
    /\ UNCHANGED pumpVars

Dispatch(k, r) ==
    \/ AnswersAtOnce(k, r) \/ AsksCamera(k, r) \/ ChangesStreams(k, r)
    \/ FetchesSnapshot(k, r) \/ TalkbackSettings(k, r)
    \/ Acknowledge(k, r) \/ Reboots(k, r)

Received(k) ==
    /\ ReceiverAt(k, "waiting")
    /\ k = conn
    /\ inbox # <<>>
    /\ Dispatch(k, Head(inbox))
    /\ inbox' = Tail(inbox)
    /\ UNCHANGED <<phase, conn, open, source, watchdog, upgradeVars, requests,
                   asked, unknown, faults>>

Answered(k) ==
    /\ ReceiverAt(k, "answering")
    /\ receiver' = [receiver EXCEPT ![k] = Waiting]
    /\ UNCHANGED <<coreVars, source, watchdog, pumpVars, upgradeVars, protectVars,
                   answers, faults>>

\* What a step inside a handler leaves alone.
HandlerFrame == UNCHANGED <<phase, conn, open, source, watchdog, pumpVars, protectVars>>

\* The camera has answered, or not needed to.
CameraHandled(k) ==
    /\ ReceiverAt(k, "handling")
    /\ Reply(k, receiver[k].req)
    /\ HandlerFrame
    /\ UNCHANGED <<upgradeVars, faults>>

\* A source that the camera does not name is retryable; a lost handle, or a
\* camera that cannot be reached for its picture settings, is not.
CameraFails(k) ==
    /\ ReceiverAt(k, "handling")
    /\ \/ receiver[k].req.kind = "streams" /\ Fault /\ ReceiverFails(k, "retryable")
       \/ ReceiverFails(k, "fatal") /\ UNCHANGED faults
    /\ HandlerFrame
    /\ UNCHANGED <<session, upgradeVars, answers>>

\* The picture is there: _upload_file_to_protect is next.
SnapshotFetched(k) ==
    /\ ReceiverAt(k, "fetching")
    /\ Suspend(k, "uploading", receiver[k].req)
    /\ HandlerFrame
    /\ UNCHANGED <<upgradeVars, faults>>

\* No picture, or uploaded or refused: the answer does not tell.
SnapshotHandled(k) ==
    /\ \E pc \in {"fetching", "uploading"} : ReceiverAt(k, pc)
    /\ Reply(k, receiver[k].req)
    /\ HandlerFrame
    /\ UNCHANGED <<upgradeVars, faults>>

\* The upload catches ClientError, which a timeout is not.
UploadTimesOut(k) ==
    /\ ReceiverAt(k, "uploading")
    /\ ReceiverFails(k, "fatal")
    /\ HandlerFrame
    /\ UNCHANGED <<session, upgradeVars, answers, faults>>

-----------------------------------------------------------------------------
(***************************************************************************)
(* process_upgrade, between the acknowledgement and the reconnection.      *)
(***************************************************************************)

\* The camera reconnects and says what it said before.
VersionKept == fw

VersionTaken == "new"

\* The version stands in the URI, or has to be fetched.
UpgradeAcknowledged(k) ==
    /\ ReceiverAt(k, "acking")
    /\ LET r == receiver[k].req IN
         \/ /\ r.kind = "upgrade"
            /\ fw' = VersionTaken
            /\ ForceReconnect(k)
         \/ /\ r.kind = "upgradeHeader"
            /\ Suspend(k, "upgrading", r)
            /\ UNCHANGED fw
    /\ HandlerFrame
    /\ UNCHANGED <<reported, faults>>

HeaderFetched(k) ==
    /\ ReceiverAt(k, "upgrading")
    /\ fw' = VersionTaken
    /\ ForceReconnect(k)
    /\ HandlerFrame
    /\ UNCHANGED <<reported, faults>>

\* "keeping current fw_version (Protect may re-issue)".
HeaderMissing(k) ==
    /\ ReceiverAt(k, "upgrading")
    /\ Fault
    /\ ForceReconnect(k)
    /\ HandlerFrame
    /\ UNCHANGED upgradeVars

-----------------------------------------------------------------------------
(***************************************************************************)
(* The camera's own task: what it does to the connection.                  *)
(***************************************************************************)

SourceAt(k, pc) == Alive /\ source[k] = pc

SourceFrame == UNCHANGED <<phase, conn, open, receiver, watchdog, pumpVars,
                           upgradeVars, protectVars, answers>>

\* Into and out of the await of a cancelled start.
SourceStops(k) ==
    /\ \/ SourceAt(k, "running") /\ source' = [source EXCEPT ![k] = "stopping"]
       \/ SourceAt(k, "stopping") /\ source' = [source EXCEPT ![k] = "running"]
    /\ SourceFrame
    /\ UNCHANGED <<session, failure, faults>>

\* run() returns: the HTTP API serves on, or there is nothing to watch.
SourceReturns(k) ==
    /\ SourceAt(k, "running")
    /\ source' = [source EXCEPT ![k] = "gone"]
    /\ SourceFrame
    /\ UNCHANGED <<session, failure, faults>>

SourceFails(k) ==
    /\ SourceAt(k, "running")
    /\ source' = [source EXCEPT ![k] = "gone"]
    /\ FailureSeen(k, "fatal")
    /\ SourceFrame
    /\ UNCHANGED <<session, faults>>

\* An event that cannot be sent; one without a session is dropped.
EventFails(k) ==
    /\ SourceAt(k, "running")
    /\ session # 0
    /\ ~Sendable
    /\ session' = 0
    /\ source' = [source EXCEPT ![k] = "gone"]
    /\ FailureSeen(k, "retryable")
    /\ SourceFrame
    /\ UNCHANGED faults

-----------------------------------------------------------------------------
(***************************************************************************)
(* Protect, the network and the pump.                                      *)
(***************************************************************************)

Sent(kind) ==
    /\ open
    /\ Len(inbox) < 2
    /\ requests' = requests + 1
    /\ inbox' = Append(inbox, [no |-> requests', kind |-> kind])
    /\ asked' = IF kind \in Quiet THEN asked ELSE asked \cup {requests'}
    /\ unknown' = IF kind = "unknown" THEN unknown \cup {requests'} ELSE unknown
    /\ UNCHANGED <<coreVars, receiver, source, watchdog, pumpVars, upgradeVars, answers>>

Asks(kind) ==
    /\ requests < MaxRequests
    /\ Sent(kind)
    /\ IF kind = "reboot" THEN Fault ELSE UNCHANGED faults

\* Protect upgrades a camera whose hello names another version, one request at
\* a time, and again after every hello that still does.
AsksUpgrade(kind) ==
    /\ reported = "old"
    /\ \A i \in 1 .. Len(inbox) : inbox[i].kind \notin Upgrades
    /\ \A k \in Conns : receiver[k].pc \notin {"acking", "upgrading"}
    /\ Sent(kind)
    /\ UNCHANGED faults

SocketLost ==
    /\ open
    /\ Fault
    /\ open' = FALSE
    /\ UNCHANGED <<phase, conn, session, failure, receiver, source, watchdog,
                   pumpVars, upgradeVars, protectVars, answers>>

PumpDies ==
    /\ pump = "alive"
    /\ pump' = "dead"
    /\ UNCHANGED <<coreVars, receiver, source, watchdog, stray, upgradeVars,
                   protectVars, answers, faults>>

-----------------------------------------------------------------------------
Core == BackedOff \/ Dialed \/ TearDown \/ Cleanup \/ HungUp

\* The steps of a receiver that it can always take, whatever the others do.
Receives(k) ==
    \/ HelloSent(k) \/ Adopted(k) \/ Received(k) \/ Answered(k)
    \/ ReceiverLosesSocket(k) \/ DrainFails(k)
    \/ CameraHandled(k) \/ CameraFails(k)
    \/ SnapshotFetched(k) \/ SnapshotHandled(k) \/ UploadTimesOut(k)
    \/ UpgradeAcknowledged(k) \/ HeaderFetched(k) \/ HeaderMissing(k)

Sources(k) == SourceStops(k) \/ SourceReturns(k) \/ SourceFails(k) \/ EventFails(k)

Next ==
    \/ Core \/ DialFails \/ DialRefused \/ SocketLost \/ PumpDies
    \/ \E k \in Conns : Receives(k) \/ Sources(k)
    \/ \E kind \in Kinds \ Upgrades : Asks(kind)
    \/ \E kind \in Upgrades : AsksUpgrade(kind)

(***************************************************************************)
(* The loop runs every task that can go on, timeouts and closed sockets    *)
(* see to it that the others can, the controller is reached again and      *)
(* Protect insists on its upgrade.  Nothing obliges it to ask for more.    *)
(***************************************************************************)
Fairness ==
    /\ WF_vars(Core)
    /\ \A k \in Conns : WF_vars(Receives(k))
    /\ WF_vars(\E kind \in Upgrades : AsksUpgrade(kind))

Spec == Init /\ [][Next]_vars
FairSpec == Spec /\ Fairness

-----------------------------------------------------------------------------
(***************************************************************************)
(* Properties.                                                             *)
(***************************************************************************)

ReceiverStates ==
    [pc : {"absent", "adopting", "greeting", "waiting", "handling", "fetching",
           "uploading", "answering", "acking", "upgrading", "gone"},
     req : Requests]

\* Every variable has its type.
TypeOK ==
    /\ phase \in {"dialing", "backoff", "up", "closing", "hangingUp", "exited"}
    /\ conn \in Conns \cup {0}
    /\ session \in {0, conn}
    /\ failure \in {"none", "retryable", "fatal"}
    /\ receiver \in [Conns -> ReceiverStates]
    /\ source \in [Conns -> {"absent", "running", "stopping", "gone"}]
    /\ {open, watchdog, stray} \subseteq BOOLEAN
    /\ pump \in {"none", "alive", "dead"}
    /\ fw \in {"old", "new"}
    /\ reported \in {"none", "old", "new"}
    /\ inbox \in Seq(Requests)
    /\ requests \in Nat
    /\ asked \subseteq Nat
    /\ unknown \subseteq asked
    /\ answers \in Seq(Nat)
    /\ faults \in Nat

\* Core.connect cancels what is left of a connection and close() says "Cleaning
\* up instance" before it dials again: no receiver of an old connection, no
\* watchdog and no pump is left to interfere with the next one, and there is
\* never a pump that stop_talkback would not find.
NothingLeftBehind ==
    /\ ~stray
    /\ phase \in {"backoff", "dialing"} =>
         /\ pump # "alive"
         /\ ~watchdog
         /\ \A k \in Conns : receiver[k] \in {Absent, Gone}

\* Protect's view: process() answers a request at most once, in order, and on
\* its own connection, through lost sockets, reboots, upgrades and failing
\* cameras.
Talk == INSTANCE Conversation WITH line <- conn, asked <- asked, answers <- answers
ConversationSpec == Talk!Spec

Outstanding(n) ==
    /\ n \in asked \ unknown
    /\ \A i \in 1 .. Len(answers) : answers[i] # n

\* However slow the camera and whatever requests stand before it, a request that
\* expects an answer and has a case in process() gets it, or its connection ends.
RequestsAreAnswered ==
    \A n \in 1 .. MaxRequests + MaxFaults + 2 :
        Outstanding(n) ~> (~Outstanding(n) \/ phase # "up")

\* The comment on UpdateFirmwareRequest: "the next hello reports the new version
\* and Protect marks the upgrade complete".  An upgrade may be lost with its
\* connection after it was acknowledged; as long as Protect issues it again, a
\* hello reports it in the end.
UpgradeCompletes == <>(reported = "new" \/ phase = "exited")

=============================================================================
