---------------------------- MODULE Conversation ----------------------------
(***************************************************************************)
(* What UniFi Protect may rely on when it talks to a camera, whatever goes *)
(* wrong below: of the requests that expect an answer, each is answered at *)
(* most once, in the order they were asked, and on the connection they     *)
(* were asked on.  Connection is shown to implement it.                    *)
(***************************************************************************)
EXTENDS Integers, Sequences

VARIABLES line,     \* the connection, counted
          asked,    \* the requests asked on it that expect an answer
          answers   \* the requests answered on it, in order

vars == <<line, asked, answers>>

Init == line = 0 /\ asked = {} /\ answers = <<>>

\* The old line is dead, and whatever was asked on it with it.
Redial ==
    /\ line' = line + 1
    /\ asked' = {}
    /\ answers' = <<>>

\* Protect numbers what it asks.
Ask ==
    /\ \E n \in asked' :
         /\ \A m \in asked : m < n
         /\ asked' = asked \cup {n}
    /\ UNCHANGED <<line, answers>>

Answer(n) ==
    /\ \A i \in 1 .. Len(answers) : answers[i] < n
    /\ answers' = Append(answers, n)
    /\ UNCHANGED <<line, asked>>

Next == Redial \/ Ask \/ \E n \in asked : Answer(n)

Spec == Init /\ [][Next]_vars

=============================================================================
