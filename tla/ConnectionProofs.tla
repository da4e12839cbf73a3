-------------------------- MODULE ConnectionProofs --------------------------
(***************************************************************************)
(* What TLAPS proves of Connection, for any number of requests, faults and *)
(* connections: types, that a connection leaves nothing behind, and that   *)
(* what Protect is told implements Conversation.                           *)
(***************************************************************************)
EXTENDS Connection, SequenceTheorems, TLAPS

-----------------------------------------------------------------------------
(***************************************************************************)
(* Types.                                                                  *)
(***************************************************************************)

Failures == {"none", "retryable", "fatal"}

LEMMA KindsDiffer ==
    /\ Upgrades \subseteq Kinds
    /\ Upgrades \cap Quiet = {}
    /\ "unknown" \notin Upgrades
BY DEF Upgrades, Quiet, Kinds

LEMMA ReceiverShapes ==
    /\ Absent \in ReceiverStates
    /\ Adopting \in ReceiverStates
    /\ Waiting \in ReceiverStates
    /\ Gone \in ReceiverStates
    /\ \A r \in Requests :
         \A pc \in {"handling", "fetching", "uploading", "answering", "acking", "upgrading"} :
           At(pc, r) \in ReceiverStates
<1>1. NoRequest \in Requests
  BY DEF NoRequest, Requests, Kinds, Quiet
<1> QED
  BY <1>1 DEF Absent, Adopting, Waiting, Gone, At, ReceiverStates

\* What a handler may do to the variables it writes.
HandlerType ==
    /\ receiver' \in [Conns -> ReceiverStates]
    /\ session' \in {0, conn}
    /\ failure' \in Failures
    /\ answers' \in Seq(Nat)

LEMMA FailsType ==
    ASSUME TypeOK, NEW k \in Conns, NEW how \in Failures, ReceiverFails(k, how)
    PROVE  /\ receiver' \in [Conns -> ReceiverStates]
           /\ failure' \in Failures
BY ReceiverShapes DEF ReceiverFails, FailureSeen, TypeOK, Failures

LEMMA SendFailsType ==
    ASSUME TypeOK, NEW k \in Conns, SendFails(k)
    PROVE  /\ receiver' \in [Conns -> ReceiverStates]
           /\ failure' \in Failures
           /\ session' = 0
BY FailsType DEF SendFails, Failures

LEMMA SuspendType ==
    ASSUME TypeOK, NEW k \in Conns, NEW r \in Requests,
           NEW pc \in {"handling", "fetching", "uploading", "acking", "upgrading"},
           Suspend(k, pc, r)
    PROVE  HandlerType
BY ReceiverShapes DEF Suspend, TypeOK, HandlerType, Failures

LEMMA AnswersType ==
    ASSUME TypeOK, NEW r \in Requests
    PROVE  Append(answers, r.no) \in Seq(Nat)
BY DEF TypeOK, Requests

LEMMA ReplyType ==
    ASSUME TypeOK, NEW k \in Conns, NEW r \in Requests, Reply(k, r)
    PROVE  HandlerType
<1>1. CASE SendFails(k) /\ UNCHANGED answers
  BY <1>1, SendFailsType DEF HandlerType, TypeOK
<1>2. CASE /\ answers' = Append(answers, r.no)
           /\ receiver' = [receiver EXCEPT ![k] = At("answering", r)]
           /\ UNCHANGED <<session, failure>>
  BY <1>2, ReceiverShapes, AnswersType DEF HandlerType, TypeOK, Failures
<1>3. CASE /\ receiver' = [receiver EXCEPT ![k] = Waiting]
           /\ UNCHANGED <<session, failure, answers>>
  BY <1>3, ReceiverShapes DEF HandlerType, TypeOK, Failures
<1> QED
  BY <1>1, <1>2, <1>3 DEF Reply

LEMMA ForceType ==
    ASSUME TypeOK, NEW k \in Conns, ForceReconnect(k)
    PROVE  HandlerType
BY FailsType DEF ForceReconnect, HandlerType, TypeOK, Failures

LEMMA DispatchType ==
    ASSUME TypeOK, NEW k \in Conns, NEW r \in Requests, Dispatch(k, r)
    PROVE  /\ HandlerType
           /\ pump' \in {"none", "alive", "dead"}
           /\ stray' \in BOOLEAN
<1> USE DEF TypeOK
<1>1. CASE AnswersAtOnce(k, r)
  BY <1>1, ReplyType DEF AnswersAtOnce, pumpVars
<1>2. CASE AsksCamera(k, r) \/ ChangesStreams(k, r)
  BY <1>2, SuspendType DEF AsksCamera, ChangesStreams, pumpVars
<1>3. CASE FetchesSnapshot(k, r)
  BY <1>3, SuspendType DEF FetchesSnapshot, SnapshotPlaces, pumpVars
<1>4. CASE TalkbackSettings(k, r)
  BY <1>4, ReplyType DEF TalkbackSettings, Restarted, PumpStopped
<1>5. CASE Acknowledge(k, r)
  <2>1. UNCHANGED pumpVars
    BY <1>5 DEF Acknowledge
  <2>2. CASE /\ answers' = Append(answers, r.no)
             /\ receiver' = [receiver EXCEPT ![k] = At("acking", r)]
             /\ UNCHANGED <<session, failure>>
    BY <2>1, <2>2, ReceiverShapes, AnswersType DEF HandlerType, Failures, pumpVars
  <2>3. CASE Suspend(k, "acking", r)
    BY <2>1, <2>3, SuspendType DEF pumpVars
  <2>4. CASE SendFails(k) /\ UNCHANGED answers
    BY <2>1, <2>4, SendFailsType DEF HandlerType, pumpVars
  <2> QED
    BY <1>5, <2>2, <2>3, <2>4 DEF Acknowledge
<1>6. CASE Reboots(k, r)
  BY <1>6, ForceType DEF Reboots, pumpVars
<1> QED
  BY <1>1, <1>2, <1>3, <1>4, <1>5, <1>6 DEF Dispatch

LEMMA InboxType ==
    ASSUME TypeOK, inbox # <<>>
    PROVE  /\ Head(inbox) \in Requests
           /\ Tail(inbox) \in Seq(Requests)
           /\ Len(inbox) \in Nat \ {0}
BY HeadTailProperties DEF TypeOK

LEMMA SentType ==
    ASSUME TypeOK, NEW kind \in Kinds, Sent(kind)
    PROVE  /\ inbox' \in Seq(Requests)
           /\ requests' \in Nat
           /\ asked' \subseteq Nat
           /\ unknown' \subseteq asked'
<1>1. requests' \in Nat
  BY DEF Sent, TypeOK
<1>2. [no |-> requests', kind |-> kind] \in Requests
  BY <1>1 DEF Requests
<1>3. unknown' \subseteq asked'
  BY DEF Sent, TypeOK, Quiet
<1> QED
  BY <1>1, <1>2, <1>3 DEF Sent, TypeOK

\* A receiver's request is one.
LEMMA InHandType ==
    ASSUME TypeOK, NEW k \in Conns
    PROVE  receiver[k] \in ReceiverStates /\ receiver[k].req \in Requests
BY DEF TypeOK, ReceiverStates

LEMMA ReceivesType ==
    ASSUME TypeOK, NEW k \in Conns, Receives(k)
    PROVE  TypeOK'
<1> USE DEF TypeOK, HandlerType, Failures, coreVars, upgradeVars, pumpVars, protectVars, HandlerFrame
<1>0. receiver[k].req \in Requests
  BY InHandType
<1>1. CASE HelloSent(k)
  <2>1. CASE /\ receiver' = [receiver EXCEPT ![k].pc = "greeting"]
             /\ reported' = IF Sendable THEN fw ELSE reported
             /\ UNCHANGED <<session, failure>>
    <3>1. [receiver[k] EXCEPT !.pc = "greeting"] \in ReceiverStates
      BY InHandType DEF ReceiverStates
    <3> QED
      BY <1>1, <2>1, <3>1 DEF HelloSent
  <2>2. CASE SendFails(k) /\ UNCHANGED reported
    BY <1>1, <2>2, SendFailsType DEF HelloSent
  <2> QED
    BY <1>1, <2>1, <2>2 DEF HelloSent
<1>2. CASE Adopted(k) \/ Answered(k)
  BY <1>2, ReceiverShapes DEF Adopted, Answered
<1>3. CASE Received(k)
  BY <1>3, InboxType, DispatchType DEF Received
<1>4. CASE ReceiverLosesSocket(k)
  BY <1>4, FailsType DEF ReceiverLosesSocket
<1>5. CASE DrainFails(k)
  BY <1>5, SendFailsType DEF DrainFails
<1>6. CASE CameraHandled(k)
  BY <1>0, <1>6, ReplyType DEF CameraHandled
<1>7. CASE CameraFails(k)
  BY <1>7, FailsType DEF CameraFails, Fault
<1>8. CASE SnapshotFetched(k)
  BY <1>0, <1>8, SuspendType DEF SnapshotFetched
<1>9. CASE SnapshotHandled(k)
  BY <1>0, <1>9, ReplyType DEF SnapshotHandled
<1>10. CASE UploadTimesOut(k)
  BY <1>10, FailsType DEF UploadTimesOut
<1>11. CASE UpgradeAcknowledged(k)
  <2>1. CASE fw' = VersionTaken /\ ForceReconnect(k)
    BY <1>11, <2>1, ForceType DEF UpgradeAcknowledged, VersionTaken
  <2>2. CASE Suspend(k, "upgrading", receiver[k].req) /\ UNCHANGED fw
    BY <1>0, <1>11, <2>2, SuspendType DEF UpgradeAcknowledged
  <2> QED
    BY <1>11, <2>1, <2>2 DEF UpgradeAcknowledged
<1>12. CASE HeaderFetched(k)
  BY <1>12, ForceType DEF HeaderFetched, VersionTaken
<1>13. CASE HeaderMissing(k)
  BY <1>13, ForceType DEF HeaderMissing, Fault
<1> QED
  BY <1>1, <1>2, <1>3, <1>4, <1>5, <1>6, <1>7, <1>8, <1>9, <1>10, <1>11, <1>12, <1>13
  DEF Receives

LEMMA TypeStep == TypeOK /\ [Next]_vars => TypeOK'
<1> SUFFICES ASSUME TypeOK, [Next]_vars PROVE TypeOK'
  OBVIOUS
<1> USE DEF TypeOK, Failures, coreVars, upgradeVars, pumpVars, protectVars
<1>1. CASE Dialed
  BY <1>1, ReceiverShapes DEF Dialed, NewSession, Conns
<1>2. CASE TearDown
  <2>1. receiver' \in [Conns -> ReceiverStates]
    BY <1>2, ReceiverShapes DEF TearDown, TasksCancelled
  <2>2. source' \in [Conns -> {"absent", "running", "stopping", "gone"}]
    BY <1>2 DEF TearDown, TasksCancelled
  <2> QED
    BY <1>2, <2>1, <2>2 DEF TearDown
<1>3. CASE BackedOff \/ Cleanup \/ HungUp
  BY <1>3 DEF BackedOff, Cleanup, HungUp, PumpStopped
<1>4. CASE DialFails \/ DialRefused \/ SocketLost \/ PumpDies
  <2>1. CASE DialFails \/ SocketLost
    <3>1. faults' \in Nat
      BY <2>1 DEF DialFails, SocketLost, Fault
    <3>2. CASE DialFails
      BY <3>1, <3>2 DEF DialFails
    <3>3. CASE SocketLost
      BY <3>1, <3>3 DEF SocketLost
    <3> QED
      BY <2>1, <3>2, <3>3
  <2>2. CASE DialRefused \/ PumpDies
    BY <2>2 DEF DialRefused, PumpDies
  <2> QED
    BY <1>4, <2>1, <2>2
<1>5. ASSUME NEW k \in Conns, Receives(k) PROVE TypeOK'
  BY <1>5, ReceivesType
<1>6. ASSUME NEW k \in Conns, Sources(k) PROVE TypeOK'
  BY <1>6 DEF Sources, SourceStops, SourceReturns, SourceFails, EventFails, FailureSeen,
              SourceFrame
<1>7. ASSUME NEW kind \in Kinds \ Upgrades, Asks(kind) PROVE TypeOK'
  <2>1. Sent(kind)
    BY <1>7 DEF Asks
  <2>2. faults' \in Nat
    BY <1>7 DEF Asks, Fault
  <2> QED
    BY <2>1, <2>2, SentType DEF Sent
<1>8. ASSUME NEW kind \in Upgrades, AsksUpgrade(kind) PROVE TypeOK'
  <2>1. Sent(kind) /\ UNCHANGED faults /\ kind \in Kinds
    BY <1>8, KindsDiffer DEF AsksUpgrade
  <2> QED
    BY <2>1, SentType DEF Sent
<1>9. CASE UNCHANGED vars
  BY <1>9 DEF vars
<1> QED
  BY <1>1, <1>2, <1>3, <1>4, <1>5, <1>6, <1>7, <1>8, <1>9 DEF Next, Core

LEMMA TypeInit == Init => TypeOK
<1> SUFFICES ASSUME Init PROVE TypeOK
  OBVIOUS
<1>1. receiver \in [Conns -> ReceiverStates]
  BY ReceiverShapes DEF Init
<1>2. source \in [Conns -> {"absent", "running", "stopping", "gone"}]
  BY DEF Init
<1>3. inbox \in Seq(Requests) /\ answers \in Seq(Nat)
  BY EmptySeq DEF Init
<1> QED
  BY <1>1, <1>2, <1>3 DEF Init, TypeOK

\* The state of a connection always has its type.
THEOREM TypeCorrect == Spec => []TypeOK
BY TypeInit, TypeStep, PTL DEF Spec

-----------------------------------------------------------------------------
(***************************************************************************)
(* A connection leaves nothing behind.  While it is torn down for the next *)
(* one, its tasks are already cancelled: that is what the next one needs.  *)
(***************************************************************************)

\* The tasks have been cancelled, or there are none.
Quenched ==
    \/ phase \in {"backoff", "dialing"}
    \/ phase \in {"closing", "hangingUp"} /\ failure = "retryable"

ClosesForAReason == phase \in {"closing", "hangingUp"} => failure # "none"

OneReceiver ==
    \A k \in Conns : receiver[k] \in {Absent, Gone} \/ (k = conn /\ ~Quenched)

ResidueInv ==
    /\ TypeOK
    /\ ~stray
    /\ ClosesForAReason
    /\ OneReceiver
    /\ Quenched => ~watchdog
    /\ Quenched /\ phase # "closing" => pump # "alive"

\* What the step of receiver k does to the others and to the failure.
KeepsToItself(k) ==
    /\ \A j \in Conns \ {k} : receiver'[j] = receiver[j]
    /\ failure # "none" => failure' = failure

LEMMA FailsAlone ==
    ASSUME TypeOK, NEW k \in Conns, NEW how, ReceiverFails(k, how)
    PROVE  KeepsToItself(k)
BY DEF ReceiverFails, FailureSeen, TypeOK, KeepsToItself

LEMMA SendFailsAlone ==
    ASSUME TypeOK, NEW k \in Conns, SendFails(k)
    PROVE  KeepsToItself(k)
BY FailsAlone DEF SendFails

LEMMA ReplyAlone ==
    ASSUME TypeOK, NEW k \in Conns, NEW r, Reply(k, r)
    PROVE  KeepsToItself(k)
BY SendFailsAlone DEF Reply, TypeOK, KeepsToItself

LEMMA DispatchAlone ==
    ASSUME TypeOK, NEW k \in Conns, NEW r, Dispatch(k, r)
    PROVE  KeepsToItself(k) /\ UNCHANGED stray
<1>1. CASE AnswersAtOnce(k, r) \/ TalkbackSettings(k, r)
  BY <1>1, ReplyAlone
  DEF AnswersAtOnce, TalkbackSettings, Restarted, PumpStopped, pumpVars
<1>2. CASE AsksCamera(k, r) \/ ChangesStreams(k, r) \/ FetchesSnapshot(k, r)
  BY <1>2 DEF AsksCamera, ChangesStreams, FetchesSnapshot, Suspend, pumpVars, TypeOK,
              KeepsToItself
<1>3. CASE Acknowledge(k, r)
  BY <1>3, SendFailsAlone DEF Acknowledge, Suspend, pumpVars, TypeOK, KeepsToItself
<1>4. CASE Reboots(k, r)
  BY <1>4, FailsAlone DEF Reboots, ForceReconnect, pumpVars
<1> QED
  BY <1>1, <1>2, <1>3, <1>4 DEF Dispatch

\* Only a receiver that is alive takes a step, and it leaves the others alone.
LEMMA ReceivesAlone ==
    ASSUME TypeOK, NEW k \in Conns, Receives(k)
    PROVE  /\ receiver[k] \notin {Absent, Gone}
           /\ KeepsToItself(k)
           /\ UNCHANGED <<phase, conn, stray>>
<1>1. receiver[k] \notin {Absent, Gone}
  BY DEF Receives, HelloSent, Adopted, Received, Answered, ReceiverLosesSocket, DrainFails,
         CameraHandled, CameraFails, SnapshotFetched, SnapshotHandled, UploadTimesOut,
         UpgradeAcknowledged, HeaderFetched, HeaderMissing, ReceiverAt, Absent, Gone, At
<1>2. KeepsToItself(k)
  <2>1. CASE HelloSent(k)
    BY <2>1, SendFailsAlone DEF HelloSent, TypeOK, KeepsToItself
  <2>2. CASE Adopted(k) \/ Answered(k)
    BY <2>2 DEF Adopted, Answered, coreVars, TypeOK, KeepsToItself
  <2>3. CASE Received(k)
    BY <2>3, DispatchAlone DEF Received
  <2>4. CASE ReceiverLosesSocket(k) \/ CameraFails(k) \/ UploadTimesOut(k)
    BY <2>4, FailsAlone DEF ReceiverLosesSocket, CameraFails, UploadTimesOut
  <2>5. CASE DrainFails(k)
    BY <2>5, SendFailsAlone DEF DrainFails
  <2>6. CASE CameraHandled(k) \/ SnapshotHandled(k)
    BY <2>6, ReplyAlone DEF CameraHandled, SnapshotHandled
  <2>7. CASE SnapshotFetched(k)
    BY <2>7 DEF SnapshotFetched, Suspend, TypeOK, KeepsToItself
  <2>8. CASE UpgradeAcknowledged(k)
    BY <2>8, FailsAlone DEF UpgradeAcknowledged, ForceReconnect, Suspend, TypeOK, KeepsToItself
  <2>9. CASE HeaderFetched(k) \/ HeaderMissing(k)
    BY <2>9, FailsAlone DEF HeaderFetched, HeaderMissing, ForceReconnect
  <2> QED
    BY <2>1, <2>2, <2>3, <2>4, <2>5, <2>6, <2>7, <2>8, <2>9 DEF Receives
<1>3. UNCHANGED <<phase, conn, stray>>
  <2>1. CASE Received(k)
    BY <2>1, DispatchAlone DEF Received
  <2>2. CASE HelloSent(k) \/ Adopted(k) \/ Answered(k) \/ ReceiverLosesSocket(k) \/ DrainFails(k)
    BY <2>2 DEF HelloSent, Adopted, Answered, ReceiverLosesSocket, DrainFails, coreVars,
                pumpVars
  <2>3. CASE HandlerFrame
    BY <2>3 DEF HandlerFrame, pumpVars
  <2> QED
    BY <2>1, <2>2, <2>3 DEF Receives, CameraHandled, CameraFails, SnapshotFetched,
       SnapshotHandled, UploadTimesOut, UpgradeAcknowledged, HeaderFetched, HeaderMissing
<1> QED
  BY <1>1, <1>2, <1>3

LEMMA ResidueInit == Init => ResidueInv
BY TypeInit DEF Init, ResidueInv, ClosesForAReason, OneReceiver

LEMMA ResidueStep == ResidueInv /\ [Next]_vars => ResidueInv'
<1> SUFFICES ASSUME ResidueInv, [Next]_vars PROVE ResidueInv'
  OBVIOUS
<1>0. TypeOK /\ TypeOK'
  BY TypeStep DEF ResidueInv
<1> USE DEF ResidueInv, ClosesForAReason, OneReceiver, Quenched
<1>1. CASE Dialed
  <2>1. \A k \in Conns : receiver'[k] = IF k = conn' THEN Adopting ELSE receiver[k]
    BY <1>0, <1>1 DEF Dialed, TypeOK
  <2> QED
    BY <1>0, <1>1, <2>1 DEF Dialed, pumpVars
<1>2. CASE TearDown
  <2>1. failure = "retryable" => receiver'[conn] = Gone \/ conn \notin Conns
    BY <1>0, <1>2 DEF TearDown, TasksCancelled, TypeOK
  <2>2. \A k \in Conns \ {conn} : receiver'[k] = receiver[k]
    BY <1>0, <1>2 DEF TearDown, TasksCancelled, TypeOK
  <2> QED
    BY <1>0, <1>2, <2>1, <2>2 DEF TearDown, pumpVars
<1>3. CASE BackedOff \/ DialFails \/ DialRefused
  BY <1>0, <1>3 DEF BackedOff, DialFails, DialRefused, pumpVars
<1>4. CASE Cleanup \/ HungUp
  BY <1>0, <1>4 DEF Cleanup, HungUp, PumpStopped, pumpVars, TypeOK
<1>5. CASE SocketLost \/ PumpDies
  BY <1>0, <1>5 DEF SocketLost, PumpDies, coreVars, pumpVars
<1>6. ASSUME NEW k \in Conns, Receives(k) PROVE ResidueInv'
  <2>1. k = conn /\ ~Quenched
    BY <1>0, <1>6, ReceivesAlone
  <2>2. ~Quenched'
    BY <1>0, <1>6, <2>1, ReceivesAlone DEF KeepsToItself
  <2> QED
    BY <1>0, <1>6, <2>1, <2>2, ReceivesAlone DEF KeepsToItself
<1>7. ASSUME NEW k \in Conns, Sources(k) PROVE ResidueInv'
  <2>1. UNCHANGED <<phase, conn, receiver, watchdog, pump, stray>>
    BY <1>7 DEF Sources, SourceStops, SourceReturns, SourceFails, EventFails, SourceFrame,
                pumpVars
  <2>2. failure # "none" => failure' = failure
    BY <1>7 DEF Sources, SourceStops, SourceReturns, SourceFails, EventFails, FailureSeen
  <2> QED
    BY <1>0, <2>1, <2>2
<1>8. ASSUME NEW kind, Sent(kind) PROVE ResidueInv'
  BY <1>0, <1>8 DEF Sent, coreVars, pumpVars
<1>9. CASE UNCHANGED vars
  BY <1>0, <1>9 DEF vars, coreVars, pumpVars
<1> QED
  BY <1>1, <1>2, <1>3, <1>4, <1>5, <1>6, <1>7, <1>8, <1>9 DEF Next, Core, Asks, AsksUpgrade

\* However a connection ends and whatever its receiver, its watchdog and its pump
\* are doing then, none of them is left when Core.run dials again, and no pump
\* escapes _talkback_proc.
THEOREM NothingLeftBehindTheorem == Spec => []NothingLeftBehind
<1>1. ResidueInv => NothingLeftBehind
  BY DEF ResidueInv, OneReceiver, Quenched, NothingLeftBehind
<1> QED
  BY <1>1, ResidueInit, ResidueStep, PTL DEF Spec

-----------------------------------------------------------------------------
(***************************************************************************)
(* What Protect is told implements Conversation.  Requests are answered in *)
(* order because the receiver has one in hand at a time: what it still has *)
(* to answer stands between what is answered and what is in the inbox.     *)
(***************************************************************************)

\* The places in which an answer is still owed.
Owing == {"handling", "fetching", "uploading"}

\* r is asked if it expects an answer, and its turn has not passed.
Due(r) ==
    /\ r.no <= requests
    /\ HasResponse(r) => r.no \in asked
    /\ \A a \in 1 .. Len(answers) : answers[a] < r.no

\* r is due after the step.
DueThen(r) ==
    /\ r.no <= requests'
    /\ HasResponse(r) => r.no \in asked'
    /\ \A a \in 1 .. Len(answers') : answers'[a] < r.no

InboxInOrder ==
    /\ \A i \in 1 .. Len(inbox) : Due(inbox[i])
    /\ \A i, j \in 1 .. Len(inbox) : i < j => inbox[i].no < inbox[j].no

InHandInOrder ==
    \A k \in Conns : receiver[k].pc \in Owing =>
        /\ Due(receiver[k].req)
        /\ \A i \in 1 .. Len(inbox) : receiver[k].req.no < inbox[i].no

Numbered ==
    /\ \A n \in asked : n <= requests
    /\ \A a \in 1 .. Len(answers) : answers[a] <= requests

OrderInv == ResidueInv /\ Numbered /\ InboxInOrder /\ InHandInOrder

\* What may become of request r while receiver k has it in hand.
TakenUp(k, r) ==
    \/ /\ UNCHANGED answers
       /\ receiver'[k].pc \in Owing => receiver'[k].req = r
    \/ /\ HasResponse(r)
       /\ answers' = Append(answers, r.no)
       /\ receiver'[k].pc \notin Owing

LEMMA NotOwing ==
    /\ Absent.pc \notin Owing
    /\ Adopting.pc \notin Owing
    /\ Waiting.pc \notin Owing
    /\ Gone.pc \notin Owing
    /\ \A r : At("answering", r).pc \notin Owing /\ At("acking", r).pc \notin Owing
    /\ \A pc, r : At(pc, r).pc = pc /\ At(pc, r).req = r
BY DEF Absent, Adopting, Waiting, Gone, At, Owing

LEMMA FailsTakenUp ==
    ASSUME TypeOK, NEW k \in Conns, NEW how, ReceiverFails(k, how)
    PROVE  receiver'[k].pc \notin Owing
BY NotOwing DEF ReceiverFails, TypeOK

LEMMA ReplyTakenUp ==
    ASSUME TypeOK, NEW k \in Conns, NEW r, Reply(k, r)
    PROVE  TakenUp(k, r)
<1>1. CASE SendFails(k) /\ UNCHANGED answers
  BY <1>1, FailsTakenUp DEF SendFails, TakenUp
<1>2. CASE /\ HasResponse(r)
           /\ answers' = Append(answers, r.no)
           /\ receiver' = [receiver EXCEPT ![k] = At("answering", r)]
  BY <1>2, NotOwing DEF TypeOK, TakenUp
<1>3. CASE /\ receiver' = [receiver EXCEPT ![k] = Waiting]
           /\ UNCHANGED answers
  BY <1>3, NotOwing DEF TypeOK, TakenUp
<1> QED
  BY <1>1, <1>2, <1>3 DEF Reply

LEMMA SuspendTakenUp ==
    ASSUME TypeOK, NEW k \in Conns, NEW pc, NEW r, Suspend(k, pc, r)
    PROVE  TakenUp(k, r)
BY NotOwing DEF Suspend, TypeOK, TakenUp

LEMMA DispatchTakenUp ==
    ASSUME TypeOK, NEW k \in Conns, NEW r, Dispatch(k, r)
    PROVE  TakenUp(k, r)
<1>1. CASE AnswersAtOnce(k, r) \/ TalkbackSettings(k, r)
  BY <1>1, ReplyTakenUp DEF AnswersAtOnce, TalkbackSettings
<1>2. CASE AsksCamera(k, r) \/ ChangesStreams(k, r) \/ FetchesSnapshot(k, r)
  BY <1>2, SuspendTakenUp DEF AsksCamera, ChangesStreams, FetchesSnapshot
<1>3. CASE Acknowledge(k, r)
  <2>1. HasResponse(r)
    BY <1>3, KindsDiffer DEF Acknowledge, HasResponse
  <2>2. CASE /\ answers' = Append(answers, r.no)
             /\ receiver' = [receiver EXCEPT ![k] = At("acking", r)]
    BY <2>1, <2>2, NotOwing DEF TypeOK, TakenUp
  <2>3. CASE Suspend(k, "acking", r)
    BY <2>3, SuspendTakenUp
  <2>4. CASE SendFails(k) /\ UNCHANGED answers
    BY <2>4, FailsTakenUp DEF SendFails, TakenUp
  <2> QED
    BY <1>3, <2>2, <2>3, <2>4 DEF Acknowledge
<1>4. CASE Reboots(k, r)
  BY <1>4, FailsTakenUp DEF Reboots, ForceReconnect, TakenUp
<1> QED
  BY <1>1, <1>2, <1>3, <1>4 DEF Dispatch

\* A step of a receiver takes the first request out of the inbox, deals with the
\* one in hand, or answers nothing.
LEMMA ReceivesTakenUp ==
    ASSUME TypeOK, NEW k \in Conns, Receives(k)
    PROVE  /\ UNCHANGED <<requests, asked>>
           /\ \/ /\ inbox # <<>>
                 /\ inbox' = Tail(inbox)
                 /\ TakenUp(k, Head(inbox))
              \/ /\ UNCHANGED inbox
                 /\ receiver[k].pc \in Owing
                 /\ TakenUp(k, receiver[k].req)
              \/ /\ UNCHANGED <<inbox, answers>>
                 /\ receiver'[k].pc \notin Owing
<1> USE DEF protectVars, HandlerFrame
<1>1. CASE Received(k)
  BY <1>1, DispatchTakenUp DEF Received
<1>2. CASE CameraHandled(k) \/ SnapshotHandled(k)
  BY <1>2, ReplyTakenUp DEF CameraHandled, SnapshotHandled, ReceiverAt, Owing
<1>3. CASE SnapshotFetched(k)
  BY <1>3, SuspendTakenUp DEF SnapshotFetched, ReceiverAt, Owing
<1>4. CASE CameraFails(k) \/ UploadTimesOut(k)
  BY <1>4, FailsTakenUp DEF CameraFails, UploadTimesOut
<1>5. CASE HelloSent(k)
  <2>1. CASE receiver' = [receiver EXCEPT ![k].pc = "greeting"]
    <3>1. receiver'[k].pc = "greeting"
      BY <2>1, InHandType DEF TypeOK, ReceiverStates
    <3> QED
      BY <1>5, <3>1 DEF HelloSent, Owing
  <2>2. CASE SendFails(k)
    BY <1>5, <2>2, FailsTakenUp DEF HelloSent, SendFails
  <2> QED
    BY <1>5, <2>1, <2>2 DEF HelloSent
<1>6. CASE Adopted(k) \/ Answered(k)
  BY <1>6, NotOwing DEF Adopted, Answered, TypeOK
<1>7. CASE ReceiverLosesSocket(k) \/ DrainFails(k)
  BY <1>7, FailsTakenUp DEF ReceiverLosesSocket, DrainFails, SendFails
<1>8. CASE UpgradeAcknowledged(k)
  <2>1. CASE ForceReconnect(k)
    BY <1>8, <2>1, FailsTakenUp DEF UpgradeAcknowledged, ForceReconnect
  <2>2. CASE Suspend(k, "upgrading", receiver[k].req)
    <3>1. receiver'[k].pc = "upgrading"
      BY <2>2, NotOwing DEF Suspend, TypeOK
    <3> QED
      BY <1>8, <2>2, <3>1 DEF UpgradeAcknowledged, Suspend, Owing
  <2> QED
    BY <1>8, <2>1, <2>2 DEF UpgradeAcknowledged
<1>9. CASE HeaderFetched(k) \/ HeaderMissing(k)
  BY <1>9, FailsTakenUp DEF HeaderFetched, HeaderMissing, ForceReconnect
<1> QED
  BY <1>1, <1>2, <1>3, <1>4, <1>5, <1>6, <1>7, <1>8, <1>9 DEF Receives

\* Once request r, which is due, is dealt with, those after it are due still.
LEMMA StillDue ==
    ASSUME TypeOK, TypeOK', NEW k \in Conns, NEW r \in Requests, NEW s \in Requests,
           TakenUp(k, r), UNCHANGED <<requests, asked>>,
           Due(s), r.no < s.no
    PROVE  DueThen(s)
<1>1. CASE UNCHANGED answers
  BY <1>1 DEF Due, DueThen
<1>2. CASE answers' = Append(answers, r.no)
  <2>1. \A a \in 1 .. Len(answers') : answers'[a] < s.no
    <3>1. /\ Len(answers) \in Nat
          /\ Len(answers') = Len(answers) + 1
          /\ answers'[Len(answers) + 1] = r.no
          /\ \A a \in 1 .. Len(answers) : answers'[a] = answers[a]
      BY <1>2 DEF TypeOK, Requests
    <3> QED
      BY <3>1 DEF Due
  <2> QED
    BY <2>1 DEF Due, DueThen
<1> QED
  BY <1>1, <1>2 DEF TakenUp

\* The answer, if there is one, is one that Conversation allows.
LEMMA AnswersInTurn ==
    ASSUME TypeOK, NEW k \in Conns, NEW r \in Requests,
           TakenUp(k, r), UNCHANGED <<conn, asked>>, Due(r)
    PROVE  Talk!Next \/ UNCHANGED Talk!vars
BY DEF TakenUp, Due, Talk!Next, Talk!Answer, Talk!vars

LEMMA NumberedStill ==
    ASSUME TypeOK, NEW k \in Conns, NEW r \in Requests,
           TakenUp(k, r), UNCHANGED <<requests, asked>>, Due(r), Numbered
    PROVE  Numbered'
<1>1. CASE UNCHANGED answers
  BY <1>1 DEF Numbered
<1>2. CASE answers' = Append(answers, r.no)
  BY <1>2 DEF Due, Numbered, TypeOK, Requests
<1> QED
  BY <1>1, <1>2 DEF TakenUp

\* A step of a receiver keeps the order, and is one of Conversation.
LEMMA ReceivesInTurn ==
    ASSUME OrderInv, TypeOK', NEW k \in Conns, Receives(k)
    PROVE  /\ Numbered' /\ InboxInOrder' /\ InHandInOrder'
           /\ Talk!Next \/ UNCHANGED Talk!vars
<1> USE DEF OrderInv, ResidueInv
<1>1. UNCHANGED <<conn, requests, asked>>
  BY ReceivesAlone, ReceivesTakenUp
<1>2. \A j \in Conns \ {k} : receiver'[j] \in {Absent, Gone}
  BY ReceivesAlone DEF KeepsToItself, OneReceiver
<1>3. \A j \in Conns \ {k} : receiver'[j].pc \notin Owing
  BY <1>2, NotOwing
<1>4. CASE /\ inbox # <<>>
           /\ inbox' = Tail(inbox)
           /\ TakenUp(k, Head(inbox))
  <2> DEFINE r == Head(inbox)
  <2>1. /\ r \in Requests
        /\ r = inbox[1]
        /\ Len(inbox) \in Nat \ {0}
        /\ Len(inbox') = Len(inbox) - 1
        /\ \A i \in 1 .. Len(inbox') : inbox'[i] = inbox[i + 1]
    BY <1>4, InboxType, HeadTailProperties DEF TypeOK
  <2>2. \A i \in 1 .. Len(inbox) : inbox[i] \in Requests
    BY DEF TypeOK
  <2>3. Due(r) /\ \A i \in 1 .. Len(inbox') : r.no < inbox'[i].no
    BY <2>1 DEF InboxInOrder
  <2>4. \A i \in 1 .. Len(inbox') : DueThen(inbox'[i])
    BY <1>1, <1>4, <2>1, <2>2, <2>3, StillDue DEF InboxInOrder
  <2>5. InboxInOrder'
    <3>1. \A i, j \in 1 .. Len(inbox') : i < j => inbox'[i].no < inbox'[j].no
      BY <2>1 DEF InboxInOrder
    <3>2. (\A i \in 1 .. Len(inbox) : Due(inbox[i]))'
      BY <2>4 DEF Due, DueThen
    <3> QED
      BY <3>1, <3>2 DEF InboxInOrder
  <2>6. receiver'[k].pc \in Owing => receiver'[k].req = r /\ DueThen(r)
    BY <1>1, <1>4, <2>3 DEF TakenUp, Due, DueThen
  <2>7. InHandInOrder'
    BY <1>3, <2>3, <2>6 DEF InHandInOrder, Due, DueThen
  <2> QED
    BY <1>1, <1>4, <2>1, <2>3, <2>5, <2>7, NumberedStill, AnswersInTurn
<1>5. CASE /\ UNCHANGED inbox
           /\ receiver[k].pc \in Owing
           /\ TakenUp(k, receiver[k].req)
  <2> DEFINE r == receiver[k].req
  <2>1. r \in Requests
    BY InHandType
  <2>2. Due(r) /\ \A i \in 1 .. Len(inbox) : r.no < inbox[i].no
    BY <1>5 DEF InHandInOrder
  <2>3. \A i \in 1 .. Len(inbox) : inbox[i] \in Requests
    BY DEF TypeOK
  <2>4. \A i \in 1 .. Len(inbox) : DueThen(inbox[i])
    BY <1>1, <1>5, <2>1, <2>2, <2>3, StillDue DEF InboxInOrder
  <2>5. InboxInOrder'
    BY <1>5, <2>4 DEF InboxInOrder, Due, DueThen
  <2>6. receiver'[k].pc \in Owing => receiver'[k].req = r /\ DueThen(r)
    BY <1>1, <1>5, <2>2 DEF TakenUp, Due, DueThen
  <2>7. InHandInOrder'
    BY <1>3, <1>5, <2>2, <2>6 DEF InHandInOrder, Due, DueThen
  <2> QED
    BY <1>1, <1>5, <2>1, <2>2, <2>5, <2>7, NumberedStill, AnswersInTurn
<1>6. CASE /\ UNCHANGED <<inbox, answers>>
           /\ receiver'[k].pc \notin Owing
  <2>1. InHandInOrder'
    BY <1>3, <1>6 DEF InHandInOrder
  <2> QED
    BY <1>1, <1>6, <2>1 DEF Numbered, InboxInOrder, Due, Talk!vars
<1> QED
  BY <1>4, <1>5, <1>6, ReceivesTakenUp

\* What Protect asks is due, and its number is the highest.
LEMMA SentInTurn ==
    ASSUME OrderInv, TypeOK', NEW kind \in Kinds, Sent(kind)
    PROVE  /\ Numbered' /\ InboxInOrder' /\ InHandInOrder'
           /\ Talk!Next \/ UNCHANGED Talk!vars
<1> USE DEF OrderInv, ResidueInv, coreVars
<1> DEFINE r == [no |-> requests + 1, kind |-> kind]
<1>1. /\ requests \in Nat
      /\ requests' = requests + 1
      /\ UNCHANGED <<answers, receiver, conn>>
      /\ asked \subseteq asked'
      /\ kind \notin Quiet => requests' \in asked'
      /\ asked' \subseteq asked \cup {requests'}
      /\ r \in Requests
  BY DEF Sent, TypeOK, Requests
<1>2. /\ Len(inbox) \in Nat
      /\ Len(inbox') = Len(inbox) + 1
      /\ inbox'[Len(inbox) + 1] = r
      /\ \A i \in 1 .. Len(inbox) : inbox'[i] = inbox[i]
  BY <1>1 DEF Sent, TypeOK
<1>3. \A s \in Requests : Due(s) => DueThen(s)
  BY <1>1 DEF Due, DueThen, Requests
<1>4. DueThen(r)
  BY <1>1 DEF DueThen, Numbered, HasResponse, TypeOK
<1>5. \A i \in 1 .. Len(inbox) : inbox[i] \in Requests /\ inbox[i].no < r.no
  <2>1. \A i \in 1 .. Len(inbox) : inbox[i] \in Requests
    BY DEF TypeOK
  <2>2. \A i \in 1 .. Len(inbox) : inbox[i].no <= requests
    BY DEF InboxInOrder, Due
  <2> QED
    BY <1>1, <2>1, <2>2 DEF Requests
<1>6. InboxInOrder'
  <2>1. \A i \in 1 .. Len(inbox') : DueThen(inbox'[i])
    BY <1>2, <1>3, <1>4, <1>5 DEF InboxInOrder
  <2>2. \A i, j \in 1 .. Len(inbox') : i < j => inbox'[i].no < inbox'[j].no
    BY <1>2, <1>5 DEF InboxInOrder
  <2> QED
    BY <2>1, <2>2 DEF InboxInOrder, Due, DueThen
<1>7. InHandInOrder'
  <2> SUFFICES ASSUME NEW k \in Conns, receiver[k].pc \in Owing
               PROVE  /\ DueThen(receiver[k].req)
                      /\ \A i \in 1 .. Len(inbox') : receiver[k].req.no < inbox'[i].no
    BY <1>1 DEF InHandInOrder, Due, DueThen
  <2>1. receiver[k].req \in Requests
    BY InHandType
  <2>2. Due(receiver[k].req) /\ \A i \in 1 .. Len(inbox) : receiver[k].req.no < inbox[i].no
    BY DEF InHandInOrder
  <2>3. receiver[k].req.no < r.no
    BY <1>1, <2>1, <2>2 DEF Due, Requests
  <2> QED
    BY <1>1, <1>2, <1>3, <2>1, <2>2, <2>3
<1>8. Numbered'
  BY <1>1 DEF Numbered, TypeOK
<1>9. CASE asked' = asked
  BY <1>1, <1>6, <1>7, <1>8, <1>9 DEF Talk!vars
<1>10. CASE asked' = asked \cup {requests'}
  <2>1. \A m \in asked : m < requests'
    BY <1>1 DEF Numbered, TypeOK
  <2>2. Talk!Ask
    BY <1>1, <1>10, <2>1 DEF Talk!Ask
  <2> QED
    BY <1>6, <1>7, <1>8, <2>2 DEF Talk!Next
<1> QED
  BY <1>9, <1>10 DEF Sent

LEMMA OrderInit == Init => OrderInv /\ Talk!Init
BY ResidueInit, NotOwing
DEF Init, OrderInv, Numbered, InboxInOrder, InHandInOrder, Talk!Init

LEMMA OrderStep ==
    OrderInv /\ [Next]_vars => OrderInv' /\ [Talk!Next]_(Talk!vars)
<1> SUFFICES ASSUME OrderInv, [Next]_vars
             PROVE  OrderInv' /\ (Talk!Next \/ UNCHANGED Talk!vars)
  OBVIOUS
<1>0. ResidueInv' /\ TypeOK'
  BY ResidueStep DEF OrderInv, ResidueInv
<1> DEFINE Kept == Numbered' /\ InboxInOrder' /\ InHandInOrder'
<1>1. CASE Dialed
  <2>1. /\ requests' = requests
        /\ inbox' = <<>> /\ asked' = {} /\ answers' = <<>>
        /\ conn' = conn + 1
    BY <1>1 DEF Dialed
  <2>2. \A k \in Conns : receiver'[k] \in {Absent, Gone, Adopting}
    BY <1>1 DEF Dialed, OrderInv, ResidueInv, OneReceiver, Quenched, TypeOK
  <2>3. Kept
    BY <2>1, <2>2, NotOwing DEF Numbered, InboxInOrder, InHandInOrder
  <2>4. Talk!Redial
    BY <2>1 DEF Talk!Redial
  <2> QED
    BY <1>0, <2>3, <2>4 DEF OrderInv, Talk!Next
<1>2. ASSUME UNCHANGED <<conn, requests, inbox, asked, answers>>,
             \A k \in Conns : receiver'[k] = receiver[k] \/ receiver'[k] = Gone
      PROVE  OrderInv' /\ UNCHANGED Talk!vars
  <2>1. Numbered' /\ InboxInOrder'
    BY <1>2 DEF OrderInv, Numbered, InboxInOrder, Due
  <2>2. InHandInOrder'
    BY <1>2, NotOwing DEF OrderInv, InHandInOrder, Due
  <2> QED
    BY <1>0, <1>2, <2>1, <2>2 DEF OrderInv, Talk!vars
<1>3. CASE TearDown
  BY <1>2, <1>3 DEF TearDown, TasksCancelled, protectVars, OrderInv, ResidueInv, TypeOK
<1>4. CASE \/ BackedOff \/ Cleanup \/ HungUp
           \/ DialFails \/ DialRefused \/ SocketLost \/ PumpDies
  BY <1>2, <1>4 DEF BackedOff, Cleanup, HungUp, DialFails, DialRefused, SocketLost,
                    PumpDies, coreVars, protectVars
<1>5. ASSUME NEW k \in Conns, Sources(k) PROVE OrderInv' /\ UNCHANGED Talk!vars
  BY <1>2, <1>5 DEF Sources, SourceStops, SourceReturns, SourceFails, EventFails,
                    SourceFrame, protectVars
<1>6. CASE UNCHANGED vars
  BY <1>2, <1>6 DEF vars, coreVars, protectVars
<1>7. ASSUME NEW k \in Conns, Receives(k)
      PROVE  OrderInv' /\ (Talk!Next \/ UNCHANGED Talk!vars)
  BY <1>0, <1>7, ReceivesInTurn DEF OrderInv
<1>8. ASSUME NEW kind \in Kinds, Sent(kind)
      PROVE  OrderInv' /\ (Talk!Next \/ UNCHANGED Talk!vars)
  BY <1>0, <1>8, SentInTurn DEF OrderInv
<1> QED
  BY <1>1, <1>3, <1>4, <1>5, <1>6, <1>7, <1>8, KindsDiffer
  DEF Next, Core, Asks, AsksUpgrade

\* Whatever fails, every request is answered at most once, in the order asked and
\* on the connection it was asked on.
THEOREM ConversationTheorem == Spec => ConversationSpec
<1>1. OrderInv /\ [Next]_vars => [Talk!Next]_(Talk!vars)
  BY OrderStep
<1>2. OrderInv /\ [Next]_vars => OrderInv'
  BY OrderStep
<1> QED
  BY <1>1, <1>2, OrderInit, PTL DEF Spec, ConversationSpec, Talk!Spec

=============================================================================
