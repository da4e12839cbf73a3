----------------------------- MODULE MotionFeed -----------------------------
(***************************************************************************)
(* What UniFi Protect is promised about the generic motion events of one   *)
(* camera, whatever the camera does to keep the promise: at most one event *)
(* is in progress, an event starts once, only an event in progress stops,  *)
(* and the end of a connection ends what is in progress.  AnalyticsEvents  *)
(* is shown to implement it.                                               *)
(***************************************************************************)
EXTENDS Integers

CONSTANT Events        \* the event ids

VARIABLES starts,      \* "start" messages, by event
          stops,       \* "stop" messages, by event
          open         \* events in progress

vars == <<starts, stops, open>>

Init ==
    /\ starts = [e \in Events |-> 0]
    /\ stops = [e \in Events |-> 0]
    /\ open = {}

Start(e) ==
    /\ open = {}
    /\ starts[e] = 0
    /\ starts' = [starts EXCEPT ![e] = 1]
    /\ open' = {e}
    /\ UNCHANGED stops

Stop(e) ==
    /\ e \in open
    /\ stops' = [stops EXCEPT ![e] = @ + 1]
    /\ open' = {}
    /\ UNCHANGED starts

Disconnect ==
    /\ open' = {}
    /\ UNCHANGED <<starts, stops>>

Next == Disconnect \/ \E e \in Events : Start(e) \/ Stop(e)

Spec == Init /\ [][Next]_vars

=============================================================================
