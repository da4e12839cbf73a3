------------------------ MODULE StreamWatchdogProofs ------------------------
(***************************************************************************)
(* What TLAPS proves of StreamWatchdog, for any streams, restart limit and *)
(* window, and for cameras that are slow to name their source or fail to.  *)
(***************************************************************************)
EXTENDS StreamWatchdog, FiniteSetTheorems, Functions, TLAPS

-----------------------------------------------------------------------------
(***************************************************************************)
(* Ages.                                                                   *)
(***************************************************************************)

\* A round later the ages are ages still.
LEMMA AgedType ==
    ASSUME NEW ages \in SUBSET Ages
    PROVE  Aged(ages) \in SUBSET Ages
BY LimitsAssumption DEF Aged, Ages

LEMMA AgesFinite ==
    ASSUME NEW ages \in SUBSET Ages
    PROVE  IsFiniteSet(ages) /\ Cardinality(ages) \in Nat
<1>1. IsFiniteSet(Ages)
  BY LimitsAssumption, FS_Interval DEF Ages
<1> QED
  BY <1>1, FS_Subset, FS_CardinalityType

\* Growing older makes no restart out of nothing.
LEMMA AgedIsNoMore ==
    ASSUME NEW ages \in SUBSET Ages
    PROVE  Cardinality(Aged(ages)) <= Cardinality(ages)
<1> DEFINE grown == {a + 1 : a \in ages}
           f == [a \in ages |-> a + 1]
<1>1. IsFiniteSet(ages)
  BY AgesFinite
<1>2. f \in Surjection(ages, grown)
  BY DEF Surjection
<1>3. IsFiniteSet(grown) /\ Cardinality(grown) <= Cardinality(ages)
  BY ONLY <1>1, <1>2, FS_Surjection
<1>4. IsFiniteSet(Aged(ages)) /\ Cardinality(Aged(ages)) <= Cardinality(grown)
  BY <1>3, FS_Subset DEF Aged
<1>5. /\ Cardinality(ages) \in Nat
      /\ Cardinality(grown) \in Nat
      /\ Cardinality(Aged(ages)) \in Nat
  BY <1>1, <1>3, <1>4, FS_CardinalityType
<1> QED
  BY <1>3, <1>4, <1>5

\* One restart is one more at most.
LEMMA OneMore ==
    ASSUME NEW ages \in SUBSET Ages, Cardinality(ages) < MaxRestarts
    PROVE  Cardinality(ages \cup {0}) <= MaxRestarts
<1>1. IsFiniteSet(ages) /\ Cardinality(ages) \in Nat
  BY AgesFinite
<1>2. Cardinality(ages \cup {0}) =
        IF 0 \in ages THEN Cardinality(ages) ELSE Cardinality(ages) + 1
  BY <1>1, FS_AddElement
<1> QED
  BY <1>1, <1>2, LimitsAssumption

LEMMA AgedSubset ==
    ASSUME NEW a, NEW b, a \subseteq b
    PROVE  Aged(a) \subseteq Aged(b)
BY DEF Aged

LEMMA ZeroIsAge == 0 \in Ages
BY LimitsAssumption DEF Ages

-----------------------------------------------------------------------------
(***************************************************************************)
(* Types.                                                                  *)
(***************************************************************************)

LEMMA WatchdogShapes ==
    ASSUME NEW todo \in SUBSET Streams
    PROVE  /\ WatchdogAt("checking", todo) \in WatchdogStates
           /\ Asleep \in WatchdogStates
           /\ Absent \in WatchdogStates
BY DEF WatchdogAt, Asleep, Absent, WatchdogStates

LEMMA CheckedType ==
    ASSUME TypeOK, NEW s \in Streams
    PROVE  /\ Checked(s) \in WatchdogStates
           /\ NextStream(s) \in WatchdogStates
<1>1. watchdog.todo \ {s} \in SUBSET Streams
  BY DEF TypeOK, WatchdogStates
<1> QED
  BY <1>1, WatchdogShapes DEF Checked, NextStream

LEMMA WaitingType == {Waiting, Ended} \subseteq ProtocolStates
BY DEF Waiting, Ended, ProtocolStates

LEMMA HandleType ==
    ASSUME TypeOK, NEW s \in Streams, Spawned(s)
    PROVE  handle[s] \in Handles /\ handle[s].restarts \in SUBSET Ages
BY DEF TypeOK, Spawned, Handles

LEMMA SpawnType ==
    ASSUME TypeOK, NEW s \in Streams, NEW restarts \in SUBSET Ages, Spawn(s, restarts)
    PROVE  /\ handle' \in [Streams -> Handles \cup {None}]
           /\ orphaned' \subseteq Streams
<1>1. Pipeline(restarts) \in Handles
  BY DEF Pipeline, Handles
<1> QED
  BY <1>1 DEF Spawn, TypeOK

LEMMA AdoptType ==
    ASSUME TypeOK, NEW s \in Streams, NEW dead \in BOOLEAN, dead => Spawned(s),
           Adopt(s, dead)
    PROVE  /\ handle' \in [Streams -> Handles \cup {None}]
           /\ orphaned' \subseteq Streams
           /\ recent' \in [Streams -> SUBSET Ages]
<1>1. (IF dead THEN handle[s].restarts ELSE {}) \in SUBSET Ages
  BY HandleType
<1>2. recent' \in [Streams -> SUBSET Ages]
  BY DEF Adopt, TypeOK
<1> QED
  BY <1>1, <1>2, SpawnType DEF Adopt

LEMMA TimeType ==
    ASSUME TypeOK, TimePasses
    PROVE  /\ handle' \in [Streams -> Handles \cup {None}]
           /\ recent' \in [Streams -> SUBSET Ages]
<1>1. ASSUME NEW s \in Streams, Spawned(s)
      PROVE  [handle[s] EXCEPT !.restarts = Aged(@)] \in Handles
  <2>1. handle[s] \in Handles /\ Aged(handle[s].restarts) \in SUBSET Ages
    BY <1>1, HandleType, AgedType
  <2> QED
    BY <2>1 DEF Handles
<1>2. handle' \in [Streams -> Handles \cup {None}]
  BY <1>1 DEF TimePasses
<1>3. ASSUME NEW s \in Streams PROVE Aged(recent[s]) \in SUBSET Ages
  BY AgedType DEF TypeOK
<1> QED
  BY <1>2, <1>3 DEF TimePasses

LEMMA CloseType ==
    ASSUME TypeOK, Close
    PROVE  /\ handle' \in [Streams -> Handles \cup {None}]
           /\ watchdog' \in WatchdogStates
           /\ protocol' \in ProtocolStates
           /\ recent' \in [Streams -> SUBSET Ages]
           /\ UNCHANGED <<wanted, orphaned, givenUp>>
BY WaitingType, WatchdogShapes DEF Close, StreamsClosed

LEMMA SourceNeverChanges == [Next]_vars => UNCHANGED source
BY DEF Next, vars

LEMMA TypeStep == TypeOK /\ [Next]_vars => TypeOK'
<1> SUFFICES ASSUME TypeOK, [Next]_vars PROVE TypeOK'
  OBVIOUS
<1>0. UNCHANGED source
  BY SourceNeverChanges
<1>1. CASE WatchdogWakes
  <2>1. watchdog' \in WatchdogStates
    BY <1>1, WatchdogShapes DEF WatchdogWakes
  <2> QED
    BY <1>0, <1>1, <2>1, TimeType DEF WatchdogWakes, TypeOK
<1>2. CASE CameraIsSlow
  <2>1. watchdog.restarts \in SUBSET Ages /\ watchdog \in WatchdogStates
    BY DEF TypeOK, WatchdogStates
  <2>2. Aged(watchdog.restarts) \in SUBSET Ages
    BY <2>1, AgedType
  <2>3. watchdog' \in WatchdogStates
    BY <1>2, <2>1, <2>2 DEF CameraIsSlow, WatchdogStates
  <2> QED
    BY <1>0, <1>2, <2>3, TimeType DEF CameraIsSlow, TypeOK
<1>3. CASE RoundOver
  BY <1>0, <1>3, WatchdogShapes DEF RoundOver, TypeOK
<1>4. CASE Connected
  BY <1>0, <1>4, WatchdogShapes DEF Connected, TypeOK
<1>5. CASE Disconnected
  BY <1>0, <1>5, CloseType DEF Disconnected, TypeOK
<1>6. CASE ReceiverFails
  BY <1>0, <1>6, CloseType, WaitingType DEF ReceiverFails, TypeOK
<1>61. CASE CameraTaskFails
  BY <1>0, <1>61, WatchdogShapes DEF CameraTaskFails, TypeOK
<1>62. CASE StreamsClose
  BY <1>0, <1>62 DEF StreamsClose, StreamsClosed, TypeOK
<1>63. CASE ProgramEnds
  BY <1>0, <1>63, WaitingType, WatchdogShapes DEF ProgramEnds, StreamsClosed, TypeOK
<1>7. ASSUME NEW s \in Streams, CheckHealthy(s) PROVE TypeOK'
  BY <1>0, <1>7, CheckedType DEF CheckHealthy, TypeOK
<1>8. ASSUME NEW s \in Streams, GiveUp(s) PROVE TypeOK'
  BY <1>0, <1>8, CheckedType DEF GiveUp, TypeOK
<1>9. ASSUME NEW s \in Streams, Restart(s) PROVE TypeOK'
  <2>1. Spawned(s)
    BY <1>9 DEF Restart, Dead
  <2>2. Restored(handle[s].restarts \cup {0}) \in SUBSET Ages
    BY <2>1, HandleType, ZeroIsAge DEF Restored
  <2>3. recent' \in [Streams -> SUBSET Ages]
    BY <1>9, ZeroIsAge DEF Restart, TypeOK
  <2>4. watchdog' \in WatchdogStates
    BY <1>9, CheckedType DEF Restart
  <2>5. handle' \in [Streams -> Handles \cup {None}] /\ orphaned' \subseteq Streams
    BY <1>9, <2>2, SpawnType DEF Restart
  <2> QED
    BY <1>0, <1>9, <2>3, <2>4, <2>5 DEF Restart, TypeOK
<1>10. ASSUME NEW s \in Streams, AskForRestart(s) PROVE TypeOK'
  <2>1. Spawned(s)
    BY <1>10 DEF AskForRestart, Dead
  <2>2. handle[s].restarts \cup {0} \in SUBSET Ages
    BY <2>1, HandleType, ZeroIsAge
  <2>3. recent' \in [Streams -> SUBSET Ages]
    BY <1>10, ZeroIsAge DEF AskForRestart, TypeOK
  <2>4. watchdog' \in WatchdogStates
    <3>1. Checked(s) \in WatchdogStates
      BY CheckedType
    <3>2. watchdog' = [Checked(s) EXCEPT !.pc = "sourcing", !.of = s,
                                         !.restarts = handle[s].restarts \cup {0}]
      BY <1>10 DEF AskForRestart
    <3> QED
      BY <2>2, <3>1, <3>2 DEF WatchdogStates
  <2> QED
    BY <1>0, <1>10, <2>3, <2>4 DEF AskForRestart, TypeOK
<1>11. ASSUME NEW s \in Streams, WatchdogSourced(s) PROVE TypeOK'
  <2>1. Restored(watchdog.restarts) \in SUBSET Ages
    BY DEF Restored, TypeOK, WatchdogStates
  <2>2. handle' \in [Streams -> Handles \cup {None}] /\ orphaned' \subseteq Streams
    BY <1>11, <2>1, SpawnType DEF WatchdogSourced
  <2>3. watchdog' \in WatchdogStates
    BY <1>11, CheckedType DEF WatchdogSourced
  <2> QED
    BY <1>0, <1>11, <2>2, <2>3 DEF WatchdogSourced, TypeOK
<1>12. ASSUME NEW s \in Streams, WatchdogSourceFails(s) PROVE TypeOK'
  BY <1>0, <1>12, CheckedType DEF WatchdogSourceFails, TypeOK
<1>13. ASSUME NEW s \in Streams, StopRequested(s) PROVE TypeOK'
  BY <1>0, <1>13 DEF StopRequested, Stopped, TypeOK
<1>14. ASSUME NEW s \in Streams, StartRequested(s) PROVE TypeOK'
  <2>1. Dead(s) \in BOOLEAN /\ (Dead(s) => Spawned(s))
    BY DEF Dead, Spawned
  <2>2. /\ handle' \in [Streams -> Handles \cup {None}]
        /\ orphaned' \subseteq Streams
        /\ recent' \in [Streams -> SUBSET Ages]
    <3>1. CASE Adopt(s, Dead(s))
      BY <2>1, <3>1, AdoptType
    <3>2. CASE UNCHANGED <<handle, orphaned, recent>>
      BY <3>2 DEF TypeOK
    <3> QED
      BY <1>14, <3>1, <3>2 DEF StartRequested
  <2>3. [pc |-> "sourcing", of |-> s, dead |-> Dead(s)] \in ProtocolStates
    BY <2>1 DEF ProtocolStates
  <2>4. protocol' \in ProtocolStates
    BY <1>14, <2>3, WaitingType DEF StartRequested
  <2> QED
    BY <1>0, <1>14, <2>2, <2>4 DEF StartRequested, TypeOK
<1>15. ASSUME NEW s \in Streams, ProtocolSourced(s) PROVE TypeOK'
  <2>1. protocol.dead \in BOOLEAN /\ (protocol.dead => Spawned(s))
    BY <1>15 DEF ProtocolSourced, Lost, TypeOK, ProtocolStates
  <2>2. /\ handle' \in [Streams -> Handles \cup {None}]
        /\ orphaned' \subseteq Streams
        /\ recent' \in [Streams -> SUBSET Ages]
    BY <1>15, <2>1, AdoptType DEF ProtocolSourced
  <2> QED
    BY <1>0, <1>15, <2>2, WaitingType DEF ProtocolSourced, TypeOK
<1>16. ASSUME NEW s \in Streams, PipelineDies(s) PROVE TypeOK'
  <2>1. handle[s] \in Handles
    BY <1>16, HandleType DEF PipelineDies, Running
  <2>2. [handle[s] EXCEPT !.alive = FALSE] \in Handles
    BY <2>1 DEF Handles
  <2> QED
    BY <1>0, <1>16, <2>2 DEF PipelineDies, TypeOK
<1>17. ASSUME NEW s \in Streams, OrphanDies(s) PROVE TypeOK'
  BY <1>0, <1>17 DEF OrphanDies, TypeOK
<1>18. CASE UNCHANGED vars
  BY <1>0, <1>18 DEF vars, state, TypeOK
<1> QED
  BY <1>1, <1>2, <1>3, <1>4, <1>5, <1>6, <1>61, <1>62, <1>63, <1>7, <1>8, <1>9, <1>10,
     <1>11, <1>12, <1>13, <1>14, <1>15, <1>16, <1>17, <1>18
  DEF Next, Check, Answered, HandleMissing

LEMMA TypeInit == Init => TypeOK
BY WaitingType, WatchdogShapes DEF Init, TypeOK

\* The state of the streams always has its type.
THEOREM TypeCorrect == Spec => []TypeOK
BY TypeInit, TypeStep, PTL DEF Spec

-----------------------------------------------------------------------------
(***************************************************************************)
(* The limit on restarts.                                                  *)
(***************************************************************************)

\* What the window has seen of a stream's restarts is in the tracking of its
\* pipeline, or in the watchdog's hands while it asks for the source.
Tracked(s, restarts) == recent[s] \subseteq restarts /\ Cardinality(restarts) <= MaxRestarts

RestartsAreTracked ==
    /\ \A s \in Streams : Spawned(s) => Tracked(s, handle[s].restarts)
    /\ \A s \in Streams : Sourcing(s) => Tracked(s, watchdog.restarts)

LimitInv == TypeOK /\ RestartsAreTracked /\ RestartsAreLimited

\* Restarts that are tracked are no more than the limit.
LEMMA RecentLimited ==
    ASSUME NEW restarts \in SUBSET Ages, NEW seen \in SUBSET restarts,
           Cardinality(restarts) <= MaxRestarts
    PROVE  Cardinality(seen) <= MaxRestarts
<1>1. Cardinality(seen) <= Cardinality(restarts)
  BY AgesFinite, FS_Subset
<1>2. Cardinality(seen) \in Nat /\ Cardinality(restarts) \in Nat
  BY AgesFinite
<1> QED
  BY <1>1, <1>2, LimitsAssumption

LEMMA TrackedAges ==
    ASSUME NEW seen \in SUBSET Ages, NEW restarts \in SUBSET Ages,
           seen \subseteq restarts, Cardinality(restarts) <= MaxRestarts
    PROVE  Aged(seen) \subseteq Aged(restarts) /\ Cardinality(Aged(restarts)) <= MaxRestarts
<1>1. Cardinality(Aged(restarts)) <= Cardinality(restarts)
  BY AgedIsNoMore
<1>2. Cardinality(restarts) \in Nat /\ Cardinality(Aged(restarts)) \in Nat
  BY AgesFinite, AgedType
<1> QED
  BY <1>1, <1>2, AgedSubset, LimitsAssumption

LEMMA NoneIsLimited == Cardinality({}) <= MaxRestarts
BY FS_EmptySet, LimitsAssumption

\* A round of time keeps the pipelines tracked.
LEMMA TimeTracked ==
    ASSUME LimitInv, TimePasses
    PROVE  /\ \A s \in Streams : Spawned(s)' => Tracked(s, handle[s].restarts)'
           /\ RestartsAreLimited'
<1>1. ASSUME NEW s \in Streams, Spawned(s)'
      PROVE  Tracked(s, handle[s].restarts)'
  <2>1. Spawned(s)
    BY <1>1 DEF TimePasses, Spawned
  <2>2. /\ handle[s] \in Handles
        /\ handle[s].restarts \in SUBSET Ages
        /\ recent[s] \in SUBSET Ages
    BY <2>1, HandleType DEF LimitInv, TypeOK
  <2>3. handle'[s] = [handle[s] EXCEPT !.restarts = Aged(handle[s].restarts)]
    BY <2>1 DEF TimePasses
  <2>4. handle'[s].restarts = Aged(handle[s].restarts)
    BY <2>2, <2>3 DEF Handles
  <2>5. recent'[s] = Aged(recent[s])
    BY DEF TimePasses
  <2>6. Tracked(s, handle[s].restarts)
    BY <2>1 DEF LimitInv, RestartsAreTracked
  <2> QED
    BY <2>2, <2>4, <2>5, <2>6, TrackedAges DEF Tracked
<1>2. ASSUME NEW s \in Streams
      PROVE  Cardinality(recent'[s]) <= MaxRestarts
  <2>1. recent[s] \in SUBSET Ages /\ Cardinality(recent[s]) <= MaxRestarts
    BY DEF LimitInv, TypeOK, RestartsAreLimited
  <2> QED
    BY <2>1, TrackedAges DEF TimePasses
<1> QED
  BY <1>1, <1>2 DEF RestartsAreLimited

\* A new pipeline with the tracking of its stream keeps all of them tracked.
LEMMA SpawnTracked ==
    ASSUME LimitInv, NEW s \in Streams, NEW restarts, Spawn(s, restarts),
           Tracked(s, restarts)', \A t \in Streams \ {s} : recent'[t] = recent[t]
    PROVE  \A t \in Streams : Spawned(t)' => Tracked(t, handle[t].restarts)'
<1> SUFFICES ASSUME NEW t \in Streams, Spawned(t)'
             PROVE  Tracked(t, handle[t].restarts)'
  OBVIOUS
<1>1. CASE t = s
  <2>1. handle'[s].restarts = restarts
    BY DEF Spawn, Pipeline, LimitInv, TypeOK
  <2> QED
    BY <1>1, <2>1 DEF Tracked
<1>2. CASE t # s
  <2>1. handle'[t] = handle[t]
    BY <1>2 DEF Spawn, LimitInv, TypeOK
  <2> QED
    BY <1>2, <2>1 DEF Tracked, Spawned, LimitInv, RestartsAreTracked
<1> QED
  BY <1>1, <1>2

\* Protect's start of a stream: the pipeline takes over what is tracked or
\* starts afresh.
LEMMA AdoptTracked ==
    ASSUME LimitInv, NEW s \in Streams, NEW dead \in BOOLEAN, dead => Spawned(s),
           Adopt(s, dead), UNCHANGED watchdog
    PROVE  RestartsAreTracked' /\ RestartsAreLimited'
<1>0. PICK restarts : restarts = IF dead THEN handle[s].restarts ELSE {}
  OBVIOUS
<1>1. \A t \in Streams : recent'[t] = recent[t] \/ recent'[t] = {}
  BY DEF Adopt, LimitInv, TypeOK
<1>2. \A t \in Streams \ {s} : recent'[t] = recent[t]
  BY DEF Adopt, LimitInv, TypeOK
<1>3. Tracked(s, restarts)'
  <2>1. CASE dead
    <3>1. Tracked(s, handle[s].restarts)
      BY <2>1 DEF LimitInv, RestartsAreTracked
    <3>2. recent'[s] = recent[s] /\ restarts = handle[s].restarts
      BY <1>0, <2>1 DEF Adopt
    <3>3. recent'[s] \subseteq restarts /\ Cardinality(restarts) <= MaxRestarts
      BY <3>1, <3>2 DEF Tracked
    <3> QED
      BY <3>3 DEF Tracked
  <2>2. CASE ~dead
    <3>1. recent'[s] = {} /\ restarts = {}
      BY <1>0, <2>2 DEF Adopt, LimitInv, TypeOK
    <3> QED
      BY <3>1, NoneIsLimited DEF Tracked
  <2> QED
    BY <2>1, <2>2
<1>4. Spawn(s, restarts)
  BY <1>0 DEF Adopt
<1>5. \A t \in Streams : Spawned(t)' => Tracked(t, handle[t].restarts)'
  BY <1>2, <1>3, <1>4, SpawnTracked
<1>6. \A t \in Streams : Sourcing(t)' => Tracked(t, watchdog.restarts)'
  <2> SUFFICES ASSUME NEW t \in Streams, Sourcing(t)'
               PROVE  Tracked(t, watchdog.restarts)'
    OBVIOUS
  <2>1. Tracked(t, watchdog.restarts)
    BY DEF LimitInv, RestartsAreTracked, Sourcing
  <2> QED
    BY <1>1, <2>1 DEF Tracked
<1>7. RestartsAreLimited'
  BY <1>1, NoneIsLimited DEF LimitInv, RestartsAreLimited
<1> QED
  BY <1>5, <1>6, <1>7 DEF RestartsAreTracked

\* Outside a request for a source the watchdog has nothing in its hands.
LEMMA CheckedHoldsNothing ==
    /\ \A s, t \in Streams : Checked(s).pc # "sourcing"
    /\ Asleep.pc # "sourcing" /\ Absent.pc # "sourcing"
    /\ \A todo : WatchdogAt("checking", todo).pc # "sourcing"
BY DEF Checked, WatchdogAt, Asleep, Absent

LEMMA CloseTracked ==
    ASSUME LimitInv, Close
    PROVE  RestartsAreTracked' /\ RestartsAreLimited'
<1>1. \A s \in Streams : ~Spawned(s)'
  BY DEF Close, StreamsClosed, Spawned
<1>2. \A s \in Streams : ~Sourcing(s)'
  BY CheckedHoldsNothing DEF Close, Sourcing
<1>3. RestartsAreLimited'
  BY NoneIsLimited DEF Close, RestartsAreLimited
<1> QED
  BY <1>1, <1>2, <1>3 DEF RestartsAreTracked

LEMMA LimitInit == Init => RestartsAreTracked /\ RestartsAreLimited
BY CheckedHoldsNothing, NoneIsLimited
DEF Init, RestartsAreTracked, RestartsAreLimited, Spawned, Sourcing

\* A step that takes handles away or leaves them, and resets or leaves what was
\* seen of the streams.
LEMMA LessTracked ==
    ASSUME LimitInv,
           \A s \in Streams : Spawned(s)' => Spawned(s) /\ handle'[s].restarts = handle[s].restarts,
           \A s \in Streams : recent'[s] = recent[s] \/ recent'[s] = {},
           watchdog'.pc # "sourcing" \/ UNCHANGED watchdog
    PROVE  RestartsAreTracked' /\ RestartsAreLimited'
<1>1. ASSUME NEW s \in Streams, Spawned(s)' PROVE Tracked(s, handle[s].restarts)'
  BY <1>1 DEF LimitInv, RestartsAreTracked, Tracked
<1>2. ASSUME NEW s \in Streams, Sourcing(s)' PROVE Tracked(s, watchdog.restarts)'
  <2>1. UNCHANGED watchdog /\ Tracked(s, watchdog.restarts)
    BY <1>2 DEF LimitInv, RestartsAreTracked, Sourcing
  <2> QED
    BY <2>1 DEF Tracked
<1>3. RestartsAreLimited'
  BY NoneIsLimited DEF LimitInv, RestartsAreLimited
<1> QED
  BY <1>1, <1>2, <1>3 DEF RestartsAreTracked

LEMMA LimitStep == LimitInv /\ [Next]_vars => RestartsAreTracked' /\ RestartsAreLimited'
<1> SUFFICES ASSUME LimitInv, [Next]_vars PROVE RestartsAreTracked' /\ RestartsAreLimited'
  OBVIOUS
<1>0. TypeOK
  BY DEF LimitInv
<1>1. CASE WatchdogWakes
  <2>1. \A s \in Streams : ~Sourcing(s)'
    BY <1>1, CheckedHoldsNothing DEF WatchdogWakes, Sourcing
  <2> QED
    BY <1>1, <2>1, TimeTracked DEF WatchdogWakes, RestartsAreTracked
<1>2. CASE CameraIsSlow
  <2>1. ASSUME NEW s \in Streams, Sourcing(s)' PROVE Tracked(s, watchdog.restarts)'
    <3>1. watchdog \in WatchdogStates
      BY <1>0 DEF TypeOK
    <3>2. watchdog'.restarts = Aged(watchdog.restarts) /\ watchdog'.of = watchdog.of
      BY <1>2, <3>1 DEF CameraIsSlow, WatchdogStates
    <3>3. Tracked(s, watchdog.restarts)
      BY <1>2, <2>1, <3>2 DEF CameraIsSlow, Sourcing, LimitInv, RestartsAreTracked
    <3>4. recent'[s] = Aged(recent[s])
      BY <1>2 DEF CameraIsSlow, TimePasses
    <3>5. watchdog.restarts \in SUBSET Ages /\ recent[s] \in SUBSET Ages
      BY <1>0, <3>1 DEF TypeOK, WatchdogStates
    <3> QED
      BY <3>2, <3>3, <3>4, <3>5, TrackedAges DEF Tracked
  <2> QED
    BY <1>2, <2>1, TimeTracked DEF CameraIsSlow, RestartsAreTracked
<1>3. CASE RoundOver
  BY <1>3, LessTracked, CheckedHoldsNothing DEF RoundOver, Spawned
<1>4. CASE Connected
  BY <1>4, LessTracked, CheckedHoldsNothing DEF Connected, Spawned
<1>5. CASE Disconnected \/ (ReceiverFails /\ Close)
  BY <1>5, CloseTracked DEF Disconnected
<1>51. CASE ReceiverFails /\ ~Close
  BY <1>51, LessTracked DEF ReceiverFails, Spawned
<1>52. CASE CameraTaskFails
  BY <1>52, LessTracked, CheckedHoldsNothing DEF CameraTaskFails, Spawned
<1>53. CASE StreamsClose
  <2>1. \A s \in Streams : ~Spawned(s)'
    BY <1>53 DEF StreamsClose, StreamsClosed, Spawned
  <2>2. \A s \in Streams : recent'[s] = {}
    BY <1>53 DEF StreamsClose
  <2> QED
    BY <1>53, <2>1, <2>2, LessTracked DEF StreamsClose
<1>54. CASE ProgramEnds
  <2>1. \A s \in Streams : ~Spawned(s)'
    BY <1>54 DEF ProgramEnds, StreamsClosed, Spawned
  <2>2. \A s \in Streams : recent'[s] = {}
    BY <1>54 DEF ProgramEnds
  <2> QED
    BY <1>54, <2>1, <2>2, LessTracked, CheckedHoldsNothing DEF ProgramEnds
<1>6. ASSUME NEW s \in Streams, CheckHealthy(s) PROVE RestartsAreTracked' /\ RestartsAreLimited'
  BY <1>6, LessTracked, CheckedHoldsNothing DEF CheckHealthy, NextStream, Spawned
<1>7. ASSUME NEW s \in Streams, GiveUp(s) PROVE RestartsAreTracked' /\ RestartsAreLimited'
  <2>1. \A t \in Streams : Spawned(t)' => Spawned(t) /\ handle'[t].restarts = handle[t].restarts
    BY <1>0, <1>7 DEF GiveUp, Spawned, TypeOK
  <2>2. \A t \in Streams : recent'[t] = recent[t] \/ recent'[t] = {}
    BY <1>0, <1>7 DEF GiveUp, TypeOK
  <2> QED
    BY <1>7, <2>1, <2>2, LessTracked, CheckedHoldsNothing DEF GiveUp
<1>8. ASSUME NEW s \in Streams, Restart(s) PROVE RestartsAreTracked' /\ RestartsAreLimited'
  <2>1. PICK restarts : restarts = handle[s].restarts \cup {0}
    OBVIOUS
  <2>2. restarts \in SUBSET Ages /\ handle[s].restarts \in SUBSET Ages
    BY <1>0, <1>8, <2>1, HandleType, ZeroIsAge DEF Restart, Dead
  <2>3. Tracked(s, handle[s].restarts) /\ Cardinality(restarts) <= MaxRestarts
    BY <1>8, <2>1, <2>2, OneMore DEF Restart, Dead, MayRestart, LimitInv, RestartsAreTracked
  <2>4. /\ recent'[s] = recent[s] \cup {0}
        /\ \A t \in Streams \ {s} : recent'[t] = recent[t]
    BY <1>0, <1>8 DEF Restart, TypeOK
  <2>5. Tracked(s, restarts)'
    BY <2>1, <2>3, <2>4 DEF Tracked
  <2>6. Spawn(s, restarts)
    BY <1>8, <2>1 DEF Restart, Restored
  <2>7. \A t \in Streams : Spawned(t)' => Tracked(t, handle[t].restarts)'
    BY <2>4, <2>5, <2>6, SpawnTracked
  <2>8. \A t \in Streams : ~Sourcing(t)'
    BY <1>8, CheckedHoldsNothing DEF Restart, Sourcing
  <2>9. Cardinality(recent'[s]) <= MaxRestarts
    BY <2>1, <2>2, <2>3, <2>4, RecentLimited DEF Tracked
  <2> QED
    BY <2>4, <2>7, <2>8, <2>9 DEF RestartsAreTracked, RestartsAreLimited, LimitInv
<1>9. ASSUME NEW s \in Streams, AskForRestart(s) PROVE RestartsAreTracked' /\ RestartsAreLimited'
  <2>1. PICK restarts : restarts = handle[s].restarts \cup {0}
    OBVIOUS
  <2>2. restarts \in SUBSET Ages /\ handle[s].restarts \in SUBSET Ages
    BY <1>0, <1>9, <2>1, HandleType, ZeroIsAge DEF AskForRestart, Dead
  <2>3. Tracked(s, handle[s].restarts) /\ Cardinality(restarts) <= MaxRestarts
    BY <1>9, <2>1, <2>2, OneMore DEF AskForRestart, Dead, MayRestart, LimitInv, RestartsAreTracked
  <2>4. /\ recent'[s] = recent[s] \cup {0}
        /\ \A t \in Streams \ {s} : recent'[t] = recent[t]
    BY <1>0, <1>9 DEF AskForRestart, TypeOK
  <2>5. \A t \in Streams : Spawned(t)' => t # s /\ handle'[t] = handle[t]
    BY <1>0, <1>9 DEF AskForRestart, Spawned, TypeOK
  <2>6. \A t \in Streams : Spawned(t)' => Tracked(t, handle[t].restarts)'
    BY <2>4, <2>5 DEF LimitInv, RestartsAreTracked, Spawned, Tracked
  <2>7. watchdog'.restarts = restarts /\ watchdog'.of = s
    <3>1. Checked(s) \in WatchdogStates
      BY <1>0, CheckedType
    <3>2. watchdog' = [Checked(s) EXCEPT !.pc = "sourcing", !.of = s, !.restarts = restarts]
      BY <1>9, <2>1 DEF AskForRestart
    <3> QED
      BY <3>1, <3>2 DEF WatchdogStates
  <2>8. \A t \in Streams : Sourcing(t)' => Tracked(t, watchdog.restarts)'
    BY <2>1, <2>3, <2>4, <2>7 DEF Sourcing, Tracked
  <2>9. Cardinality(recent'[s]) <= MaxRestarts
    BY <2>1, <2>2, <2>3, <2>4, RecentLimited DEF Tracked
  <2> QED
    BY <2>4, <2>6, <2>8, <2>9 DEF RestartsAreTracked, RestartsAreLimited, LimitInv
<1>10. ASSUME NEW s \in Streams, WatchdogSourced(s)
       PROVE  RestartsAreTracked' /\ RestartsAreLimited'
  <2>1. PICK restarts : restarts = watchdog.restarts
    OBVIOUS
  <2>2. Tracked(s, restarts) /\ UNCHANGED recent
    BY <1>10, <2>1 DEF WatchdogSourced, LimitInv, RestartsAreTracked
  <2>3. Spawn(s, restarts)
    BY <1>10, <2>1 DEF WatchdogSourced, Restored
  <2>4. \A t \in Streams : Spawned(t)' => Tracked(t, handle[t].restarts)'
    BY <2>2, <2>3, SpawnTracked DEF Tracked
  <2>5. \A t \in Streams : ~Sourcing(t)'
    BY <1>10, CheckedHoldsNothing DEF WatchdogSourced, Sourcing
  <2> QED
    BY <2>2, <2>4, <2>5 DEF RestartsAreTracked, RestartsAreLimited, LimitInv
<1>11. ASSUME NEW s \in Streams, WatchdogSourceFails(s)
       PROVE  RestartsAreTracked' /\ RestartsAreLimited'
  BY <1>11, LessTracked, CheckedHoldsNothing DEF WatchdogSourceFails, Spawned
<1>12. ASSUME NEW s \in Streams, StopRequested(s)
       PROVE  RestartsAreTracked' /\ RestartsAreLimited'
  <2>1. \A t \in Streams : Spawned(t)' => Spawned(t) /\ handle'[t].restarts = handle[t].restarts
    BY <1>0, <1>12 DEF StopRequested, Stopped, Spawned, TypeOK
  <2>2. \A t \in Streams : recent'[t] = recent[t] \/ recent'[t] = {}
    BY <1>0, <1>12 DEF StopRequested, TypeOK
  <2> QED
    BY <1>12, <2>1, <2>2, LessTracked DEF StopRequested
<1>13. ASSUME NEW s \in Streams, StartRequested(s)
       PROVE  RestartsAreTracked' /\ RestartsAreLimited'
  <2>1. CASE Adopt(s, Dead(s))
    <3>1. Dead(s) \in BOOLEAN /\ (Dead(s) => Spawned(s))
      BY DEF Dead, Spawned
    <3>2. PICK dead \in BOOLEAN : dead = Dead(s)
      BY <3>1
    <3> QED
      BY <1>13, <2>1, <3>1, <3>2, AdoptTracked DEF StartRequested
  <2>2. CASE UNCHANGED <<handle, orphaned, recent>>
    BY <1>13, <2>2, LessTracked DEF StartRequested, Spawned
  <2> QED
    BY <1>13, <2>1, <2>2 DEF StartRequested
<1>14. ASSUME NEW s \in Streams, ProtocolSourced(s)
       PROVE  RestartsAreTracked' /\ RestartsAreLimited'
  <2>1. protocol.dead \in BOOLEAN /\ (protocol.dead => Spawned(s))
    BY <1>0, <1>14 DEF ProtocolSourced, Lost, TypeOK, ProtocolStates
  <2>2. PICK dead \in BOOLEAN : dead = protocol.dead
    BY <2>1
  <2> QED
    BY <1>14, <2>1, <2>2, AdoptTracked DEF ProtocolSourced
<1>15. ASSUME NEW s \in Streams, PipelineDies(s)
       PROVE  RestartsAreTracked' /\ RestartsAreLimited'
  <2>1. handle[s] \in Handles
    BY <1>0, <1>15, HandleType DEF PipelineDies, Running
  <2>2. \A t \in Streams : Spawned(t)' => Spawned(t) /\ handle'[t].restarts = handle[t].restarts
    BY <1>0, <1>15, <2>1 DEF PipelineDies, Running, Spawned, TypeOK, Handles
  <2> QED
    BY <1>15, <2>2, LessTracked DEF PipelineDies
<1>16. ASSUME NEW s \in Streams, OrphanDies(s)
       PROVE  RestartsAreTracked' /\ RestartsAreLimited'
  BY <1>16, LessTracked DEF OrphanDies, Spawned
<1>17. CASE UNCHANGED vars
  BY <1>17, LessTracked DEF vars, state, Spawned
<1> QED
  BY <1>1, <1>2, <1>3, <1>4, <1>5, <1>51, <1>52, <1>53, <1>54, <1>6, <1>7, <1>8, <1>9,
     <1>10, <1>11, <1>12, <1>13, <1>14, <1>15, <1>16, <1>17
  DEF Next, Check, Answered, HandleMissing

\* However often pipelines die, requests overlap and cameras delay their source,
\* the watchdog restarts no stream more often than the limit within the window.
THEOREM RestartsAreLimitedTheorem == Spec => []RestartsAreLimited
<1>1. Init => LimitInv
  BY TypeInit, LimitInit DEF LimitInv
<1>2. LimitInv /\ [Next]_vars => LimitInv'
  BY TypeStep, LimitStep DEF LimitInv
<1>3. LimitInv => RestartsAreLimited
  BY DEF LimitInv
<1> QED
  BY <1>1, <1>2, <1>3, PTL DEF Spec

-----------------------------------------------------------------------------
(***************************************************************************)
(* Sources that are at hand.                                               *)
(***************************************************************************)

\* Neither the watchdog nor Protect's handler is ever in the middle of a start,
\* and there is no watchdog without a connection.
NothingIsPending ==
    /\ watchdog.pc # "sourcing"
    /\ protocol \in {Waiting, Ended}
    /\ phase \in {"down", "exited"} => watchdog.pc = "absent"

AllInHandles ==
    /\ phase # "exited" => orphaned = {}
    /\ phase \in {"down", "exited"} => \A s \in Streams : ~Spawned(s)

OnlyWanted == \A s \in Streams : Spawned(s) => s \in wanted

AtHandInv == TypeOK /\ NothingIsPending /\ AllInHandles /\ OnlyWanted

LEMMA AtHandInit == Init => NothingIsPending /\ AllInHandles /\ OnlyWanted
BY DEF Init, NothingIsPending, AllInHandles, OnlyWanted, Absent, WatchdogAt, Spawned

\* A step that adds neither handles nor orphans nor ends the connection.
LEMMA AtHandLess ==
    ASSUME AtHandInv,
           \A s \in Streams : Spawned(s)' => Spawned(s),
           wanted \subseteq wanted', orphaned' \subseteq orphaned, UNCHANGED phase
    PROVE  AllInHandles' /\ OnlyWanted'
BY DEF AtHandInv, AllInHandles, OnlyWanted

LEMMA AtHandSpawn ==
    ASSUME AtHandInv, NEW s \in Streams, NEW restarts, Spawn(s, restarts), ~Running(s),
           phase \notin {"down", "exited"}, UNCHANGED phase, s \in wanted', wanted \subseteq wanted'
    PROVE  AllInHandles' /\ OnlyWanted'
<1>1. \A t \in Streams : Spawned(t)' => t = s \/ Spawned(t)
  BY DEF Spawn, Spawned, AtHandInv, TypeOK
<1>2. UNCHANGED orphaned
  BY DEF Spawn
<1> QED
  BY <1>1, <1>2 DEF AtHandInv, AllInHandles, OnlyWanted

LEMMA AtHandStep ==
    ASSUME ~SourceSuspends, AtHandInv, [Next]_vars
    PROVE  NothingIsPending' /\ AllInHandles' /\ OnlyWanted'
<1> USE DEF NothingIsPending
<1>0. TypeOK /\ NothingIsPending /\ AllInHandles /\ OnlyWanted
  BY DEF AtHandInv
<1>1. CASE WatchdogWakes
  <2>1. \A s \in Streams : Spawned(s)' => Spawned(s)
    BY <1>1 DEF WatchdogWakes, TimePasses, Spawned
  <2> QED
    BY <1>0, <1>1, <2>1, AtHandLess, CheckedHoldsNothing DEF WatchdogWakes
<1>2. CASE CameraIsSlow
  BY <1>0, <1>2 DEF CameraIsSlow
<1>3. CASE RoundOver
  BY <1>0, <1>3, AtHandLess, CheckedHoldsNothing DEF RoundOver, Spawned, WatchdogAt
<1>4. CASE Connected
  BY <1>0, <1>4, CheckedHoldsNothing
  DEF Connected, AllInHandles, OnlyWanted, Spawned
<1>5. CASE Disconnected \/ (ReceiverFails /\ phase = "up")
  <2>1. phase = "up" /\ Close
    BY <1>5 DEF Disconnected, ReceiverFails
  <2>2. \A s \in Streams : ~Spawned(s)'
    BY <2>1 DEF Close, StreamsClosed, Spawned
  <2>3. watchdog'.pc = "absent" /\ protocol' = Waiting /\ UNCHANGED orphaned
    BY <2>1 DEF Close, Absent, WatchdogAt
  <2> QED
    BY <1>0, <2>1, <2>2, <2>3 DEF AllInHandles, OnlyWanted
<1>51. CASE ReceiverFails /\ phase # "up"
  BY <1>0, <1>51, AtHandLess DEF ReceiverFails, Spawned
<1>52. CASE CameraTaskFails
  BY <1>0, <1>52, CheckedHoldsNothing
  DEF CameraTaskFails, AllInHandles, OnlyWanted, Spawned
<1>53. CASE StreamsClose \/ ProgramEnds
  <2>1. \A s \in Streams : ~Spawned(s)'
    BY <1>53 DEF StreamsClose, ProgramEnds, StreamsClosed, Spawned
  <2>2. /\ phase' # "down"
        /\ phase' = "exited" \/ (UNCHANGED orphaned /\ phase = "closing")
        /\ watchdog' = Absent \/ (UNCHANGED watchdog /\ phase' = "hangingUp")
        /\ protocol' \in {protocol, Waiting}
    BY <1>53 DEF StreamsClose, ProgramEnds
  <2> QED
    BY <1>0, <2>1, <2>2 DEF AllInHandles, OnlyWanted, Absent, WatchdogAt
<1>6. ASSUME NEW s \in Streams, CheckHealthy(s)
      PROVE  NothingIsPending' /\ AllInHandles' /\ OnlyWanted'
  BY <1>0, <1>6, AtHandLess, CheckedHoldsNothing DEF CheckHealthy, NextStream, Checking, Spawned
<1>7. ASSUME NEW s \in Streams, GiveUp(s)
      PROVE  NothingIsPending' /\ AllInHandles' /\ OnlyWanted'
  <2>1. \A t \in Streams : Spawned(t)' => Spawned(t)
    BY <1>0, <1>7 DEF GiveUp, Spawned, TypeOK
  <2> QED
    BY <1>0, <1>7, <2>1, AtHandLess, CheckedHoldsNothing DEF GiveUp, Checking
<1>8. ASSUME NEW s \in Streams, Restart(s)
      PROVE  NothingIsPending' /\ AllInHandles' /\ OnlyWanted'
  <2>1. phase \notin {"down", "exited"} /\ s \in wanted /\ ~Running(s)
    BY <1>0, <1>8 DEF Restart, Checking, Dead, Running, OnlyWanted
  <2>2. PICK restarts : restarts = Restored(handle[s].restarts \cup {0})
    OBVIOUS
  <2>3. AllInHandles' /\ OnlyWanted'
    BY <1>8, <2>1, <2>2, AtHandSpawn DEF Restart
  <2> QED
    BY <1>0, <1>8, <2>1, <2>3, CheckedHoldsNothing DEF Restart
<1>9. ASSUME NEW s \in Streams, AskForRestart(s) \/ WatchdogSourced(s) \/ WatchdogSourceFails(s)
      PROVE  FALSE
  BY <1>0, <1>9
  DEF AskForRestart, WatchdogSourced, WatchdogSourceFails, Sourcing
<1>10. ASSUME NEW s \in Streams, StopRequested(s)
       PROVE  NothingIsPending' /\ AllInHandles' /\ OnlyWanted'
  <2>1. \A t \in Streams : Spawned(t)' => Spawned(t) /\ t # s
    BY <1>0, <1>10 DEF StopRequested, Stopped, Spawned, TypeOK
  <2> QED
    BY <1>0, <1>10, <2>1 DEF StopRequested, AllInHandles, OnlyWanted
<1>11. ASSUME NEW s \in Streams, StartRequested(s)
       PROVE  NothingIsPending' /\ AllInHandles' /\ OnlyWanted'
  <2>1. NothingIsPending'
    BY <1>0, <1>11 DEF StartRequested
  <2>2. CASE MustSpawn(s)
    <3>1. PICK restarts : restarts = IF Dead(s) THEN handle[s].restarts ELSE {}
      OBVIOUS
    <3>2. Spawn(s, restarts)
      BY <1>11, <2>2, <3>1 DEF StartRequested, Adopt
    <3> QED
      BY <1>11, <2>1, <2>2, <3>2, AtHandSpawn DEF StartRequested, MustSpawn, Receiving
  <2>3. CASE ~MustSpawn(s)
    BY <1>11, <2>1, <2>3, AtHandLess DEF StartRequested, Spawned
  <2> QED
    BY <2>2, <2>3
<1>12. ASSUME NEW s \in Streams, ProtocolSourced(s)
       PROVE  FALSE
  BY <1>0, <1>12 DEF ProtocolSourced, Waiting, Ended
<1>13. ASSUME NEW s \in Streams, PipelineDies(s)
       PROVE  NothingIsPending' /\ AllInHandles' /\ OnlyWanted'
  <2>1. \A t \in Streams : Spawned(t)' => Spawned(t)
    BY <1>0, <1>13 DEF PipelineDies, Running, Spawned, TypeOK
  <2> QED
    BY <1>0, <1>13, <2>1, AtHandLess DEF PipelineDies
<1>14. ASSUME NEW s \in Streams, OrphanDies(s)
       PROVE  NothingIsPending' /\ AllInHandles' /\ OnlyWanted'
  BY <1>0, <1>14 DEF OrphanDies, AllInHandles, OnlyWanted, Spawned
<1>15. CASE UNCHANGED vars
  BY <1>0, <1>15, AtHandLess DEF vars, state, Spawned
<1> QED
  BY <1>1, <1>2, <1>3, <1>4, <1>5, <1>51, <1>52, <1>53, <1>6, <1>7, <1>8, <1>9, <1>10,
     <1>11, <1>12, <1>13, <1>14, <1>15 DEF Next, Check, Answered, HandleMissing

\* The invariant of a camera whose source is at hand, and only of it.
SourceInv == TypeOK /\ (~SourceSuspends => AtHandInv)

LEMMA SourceInvariant == Spec => []SourceInv
<1>1. Init => SourceInv
  BY TypeInit, AtHandInit DEF SourceInv, AtHandInv
<1>2. SourceInv /\ [Next]_vars => SourceInv'
  BY TypeStep, AtHandStep, SourceNeverChanges DEF SourceInv, AtHandInv, SourceSuspends
<1> QED
  BY <1>1, <1>2, PTL DEF Spec

\* When naming the source takes no await, every live pipeline is in a handle until
\* the program ends, and none is left when Core.run dials again.
THEOREM NoOrphansTheorem == Spec => []NoOrphans
<1>1. SourceInv => NoOrphans
  BY DEF SourceInv, AtHandInv, AllInHandles, NoOrphans
<1> QED
  BY <1>1, SourceInvariant, PTL

\* When naming the source takes no await, a stream that Protect has stopped has
\* no pipeline until Protect starts it again.
THEOREM StoppedTheorem == Spec => []StoppedStaysStopped
<1>1. SourceInv => StoppedStaysStopped
  BY DEF SourceInv, AtHandInv, OnlyWanted, StoppedStaysStopped
<1> QED
  BY <1>1, SourceInvariant, PTL

=============================================================================
