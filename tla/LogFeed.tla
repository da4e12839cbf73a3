------------------------------- MODULE LogFeed -------------------------------
(***************************************************************************)
(* The log of one camera process on its way to the viewers: two readers,   *)
(* of the process's stdout and stderr, put lines into a bounded buffer and *)
(* broadcast each of them; a viewer that connects is subscribed and sent   *)
(* the buffer; a stop cancels the readers and a start clears the buffer    *)
(* (_read_logs, broadcast_log, stop_camera and start_camera in             *)
(* unifi/web/camera_manager.py, camera_ws in unifi/web/server.py).         *)
(*                                                                         *)
(* An action is the code between two awaits that can suspend.  Lines are   *)
(* numbered as they enter the buffer.  The asyncio lock is fair, so the    *)
(* tasks that hold it and wait for it are a queue whose head holds it.     *)
(*                                                                         *)
(* Before some definitions stands a faulty variant of it, named for a slip *)
(* that code like this invites.  No specification here uses one; each      *)
(* breaks the property PROJECT.json pairs it with.                         *)
(***************************************************************************)
EXTENDS Integers, FiniteSets, Sequences

CONSTANTS
    Viewers,       \* connections of log viewers, each opened at most once
    Streams,       \* stdout and stderr
    BufferSize,    \* maxlen of log_buffer
    MaxLines       \* bound: lines the camera prints

ASSUME LogAssumption ==
    /\ IsFiniteSet(Viewers) /\ IsFiniteSet(Streams)
    /\ Viewers \cap Streams = {}
    /\ BufferSize \in Nat \ {0} /\ MaxLines \in Nat

Lines == 1 .. MaxLines

VARIABLES
    alive,      \* the camera process runs
    reader,     \* read_stream: "off", "reading" or "broadcasting"
    logged,     \* lines that have entered the buffer
    cleared,    \* those of them that a start has cleared
    handler,    \* camera_ws of every viewer
    dead,       \* viewers whose socket is broken
    members,    \* instance.ws_clients
    from,       \* the first line a viewer was sent or is due
    shown,      \* how often a viewer was sent a line
    cut,        \* lines whose broadcast a stop has cancelled
    queue       \* the holder of _ws_lock, then those that wait for it

vars == <<alive, reader, logged, cleared, handler, dead, members, from, shown, cut, queue>>

\* A task at the lock: a reader with its line, or the handler of a viewer.
Jobs == [op : {"join", "leave", "waiting", "sending"},
         who : Viewers \cup Streams, line : Lines \cup {0},
         todo : SUBSET Viewers, failed : SUBSET Viewers]

Job(op, who, line) == [op |-> op, who |-> who, line |-> line, todo |-> {}, failed |-> {}]

Holds(op) == queue # <<>> /\ Head(queue).op = op

\* The lines in log_buffer.
Buffer == {n \in Lines : cleared < n /\ logged - BufferSize < n /\ n <= logged}

Init ==
    /\ alive = FALSE
    /\ reader = [s \in Streams |-> "off"]
    /\ logged = 0
    /\ cleared = 0
    /\ handler = [v \in Viewers |-> "away"]
    /\ dead = {}
    /\ members = {}
    /\ from = [v \in Viewers |-> 0]
    /\ shown = [v \in Viewers |-> [n \in Lines |-> 0]]
    /\ cut = {}
    /\ queue = <<>>

-----------------------------------------------------------------------------
(***************************************************************************)
(* The process and its readers.                                            *)
(***************************************************************************)

ReaderAt(s, pc) == reader[s] = pc

\* start_camera, once the process is created; viewers stay as they are.
Started ==
    /\ ~alive
    /\ \A s \in Streams : ReaderAt(s, "off")
    /\ alive' = TRUE
    /\ reader' = [s \in Streams |-> "reading"]
    /\ cleared' = logged
    /\ UNCHANGED <<logged, handler, dead, members, from, shown, cut, queue>>

\* It exits or is terminated; what it has printed is still to be read.
ProcessEnds ==
    /\ alive
    /\ alive' = FALSE
    /\ UNCHANGED <<reader, logged, cleared, handler, dead, members, from, shown, cut, queue>>

\* The broadcast is left to a task of its own.
LeftToTask(s) == UNCHANGED reader

\* The reader awaits its broadcast.
Awaited(s) == reader' = [reader EXCEPT ![s] = "broadcasting"]

\* A line enters the buffer and, unless nobody listens, is broadcast.
ReadsLine(s) ==
    /\ ReaderAt(s, "reading")
    /\ logged < MaxLines
    /\ logged' = logged + 1
    /\ IF members = {}
       THEN UNCHANGED <<reader, queue>>
       ELSE /\ Awaited(s)
            /\ queue' = Append(queue, Job("waiting", s, logged'))
    /\ UNCHANGED <<alive, cleared, handler, dead, members, from, shown, cut>>

ReadsEnd(s) ==
    /\ ReaderAt(s, "reading")
    /\ ~alive
    /\ reader' = [reader EXCEPT ![s] = "off"]
    /\ UNCHANGED <<alive, logged, cleared, handler, dead, members, from, shown, cut, queue>>

OfViewer(job) == job.who \in Viewers

\* What is left of the lock's queue without the readers, in its order.
ViewersOnly(q) ==
    LET kept == {i \in 1 .. Len(q) : OfViewer(q[i])}
        Place(i) == Cardinality({k \in kept : k <= i})
    IN  [n \in 1 .. Cardinality(kept) |-> q[CHOOSE i \in kept : Place(i) = n]]

\* stop_camera has seen the process end and cancels the readers, wherever they
\* are: a broadcast under way is not finished, one that waits is not begun.
ReadersCancelled ==
    /\ ~alive
    /\ \E s \in Streams : ~ReaderAt(s, "off")
    /\ reader' = [s \in Streams |-> "off"]
    /\ queue' = ViewersOnly(queue)
    /\ cut' = cut \cup {queue[i].line : i \in {j \in 1 .. Len(queue) : ~OfViewer(queue[j])}}
    /\ UNCHANGED <<alive, logged, cleared, handler, dead, members, from, shown>>

-----------------------------------------------------------------------------
(***************************************************************************)
(* broadcast_log, with the lock in hand.                                   *)
(***************************************************************************)

\* The set of viewers cannot change while the lock is held.
SendingBegins ==
    /\ Holds("waiting")
    /\ queue' = <<[Head(queue) EXCEPT !.op = "sending", !.todo = members]>> \o Tail(queue)
    /\ UNCHANGED <<alive, reader, logged, cleared, handler, dead, members, from, shown, cut>>

\* The first broken socket ends the broadcast for every viewer after it.
FirstFailureEnds(job, v) == [job EXCEPT !.todo = {}, !.failed = {v}]

\* The exception is caught and the loop goes on.
FailureNoted(job, v) == [job EXCEPT !.todo = @ \ {v}, !.failed = @ \cup {v}]

\* One viewer after the other, in any order.
Sends(v) ==
    /\ Holds("sending")
    /\ v \in Head(queue).todo
    /\ \/ /\ v \notin dead
          /\ shown' = [shown EXCEPT ![v][Head(queue).line] = @ + 1]
          /\ queue' = <<[Head(queue) EXCEPT !.todo = @ \ {v}]>> \o Tail(queue)
       \/ /\ v \in dead
          /\ queue' = <<FailureNoted(Head(queue), v)>> \o Tail(queue)
          /\ UNCHANGED shown
    /\ UNCHANGED <<alive, reader, logged, cleared, handler, dead, members, from, cut>>

\* The broken ones are dropped, and the reader reads on.
SendingEnds ==
    /\ Holds("sending")
    /\ Head(queue).todo = {}
    /\ members' = members \ Head(queue).failed
    /\ reader' = [reader EXCEPT ![Head(queue).who] = "reading"]
    /\ queue' = Tail(queue)
    /\ UNCHANGED <<alive, logged, cleared, handler, dead, from, shown, cut>>

-----------------------------------------------------------------------------
(***************************************************************************)
(* camera_ws, the handler of a viewer.                                     *)
(***************************************************************************)

Opens(v) ==
    /\ handler[v] = "away"
    /\ handler' = [handler EXCEPT ![v] = "joining"]
    /\ queue' = Append(queue, Job("join", v, 0))
    /\ UNCHANGED <<alive, reader, logged, cleared, dead, members, from, shown, cut>>

\* Subscribed, and the buffer of this moment written to it.
Joined ==
    /\ Holds("join")
    /\ LET v == Head(queue).who IN
         /\ members' = members \cup {v}
         /\ handler' = [handler EXCEPT ![v] = "watching"]
         /\ from' = [from EXCEPT ![v] =
                       IF Buffer = {} THEN logged + 1
                       ELSE CHOOSE n \in Buffer : \A k \in Buffer : n <= k]
         /\ shown' = [shown EXCEPT ![v] = [n \in Lines |-> IF n \in Buffer THEN 1 ELSE 0]]
    /\ queue' = Tail(queue)
    /\ UNCHANGED <<alive, reader, logged, cleared, dead, cut>>

\* A send has raised, or the loop over the viewer's messages has ended.
Leaves(v) ==
    /\ handler[v] = "watching"
    /\ v \in dead
    /\ handler' = [handler EXCEPT ![v] = "leaving"]
    /\ queue' = Append(queue, Job("leave", v, 0))
    /\ UNCHANGED <<alive, reader, logged, cleared, dead, members, from, shown, cut>>

Left ==
    /\ Holds("leave")
    /\ LET v == Head(queue).who IN
         /\ members' = members \ {v}
         /\ handler' = [handler EXCEPT ![v] = "gone"]
    /\ queue' = Tail(queue)
    /\ UNCHANGED <<alive, reader, logged, cleared, dead, from, shown, cut>>

\* A viewer is closed or out of reach.
Breaks(v) ==
    /\ handler[v] \in {"joining", "watching"}
    /\ v \notin dead
    /\ dead' = dead \cup {v}
    /\ UNCHANGED <<alive, reader, logged, cleared, handler, members, from, shown, cut, queue>>

-----------------------------------------------------------------------------
Process == Started \/ ProcessEnds \/ ReadersCancelled
Reading == \E s \in Streams : ReadsLine(s) \/ ReadsEnd(s)
LockTurns == SendingBegins \/ SendingEnds \/ Joined \/ Left \/ \E v \in Viewers : Sends(v)
Viewing == \E v \in Viewers : Opens(v) \/ Leaves(v) \/ Breaks(v)

Next == Process \/ Reading \/ LockTurns \/ Viewing

Spec == Init /\ [][Next]_vars

-----------------------------------------------------------------------------
(***************************************************************************)
(* Properties.                                                             *)
(***************************************************************************)

\* Every variable has its type, and a reader is at the lock exactly while it
\* awaits its broadcast.
TypeOK ==
    /\ alive \in BOOLEAN
    /\ reader \in [Streams -> {"off", "reading", "broadcasting"}]
    /\ logged \in Lines \cup {0}
    /\ cleared \in 0 .. logged
    /\ handler \in [Viewers -> {"away", "joining", "watching", "leaving", "gone"}]
    /\ dead \subseteq Viewers
    /\ members \subseteq Viewers
    /\ from \in [Viewers -> 0 .. MaxLines + 1]
    /\ shown \in [Viewers -> [Lines -> 0 .. 2]]
    /\ cut \subseteq Lines
    /\ queue \in Seq(Jobs)
    /\ \A s \in Streams :
         ReaderAt(s, "broadcasting") <=> \E i \in 1 .. Len(queue) : queue[i].who = s

\* A broadcast of line n is still to reach v.
Due(n, v) ==
    \E i \in 1 .. Len(queue) :
        /\ queue[i].line = n
        /\ queue[i].op = "waiting" \/ v \in queue[i].todo

\* The docstring of camera_ws: "real-time log streaming".  From the oldest line
\* of the buffer it was greeted with, a viewer misses no line, although lines are
\* read, and other viewers come, go and break, while it is being subscribed;
\* except those whose broadcast a stop has cancelled.
NothingMissed ==
    \A v \in Viewers : handler[v] = "watching" /\ v \notin dead =>
        \A n \in Lines : from[v] <= n /\ n <= logged =>
            shown[v][n] > 0 \/ Due(n, v) \/ n \in cut

=============================================================================
