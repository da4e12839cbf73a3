----------------------------- MODULE StatusFeed -----------------------------
(***************************************************************************)
(* The feed of camera statuses of the web server: every dashboard has a    *)
(* websocket, whose handler sends one snapshot and then subscribes it; the *)
(* manager pushes a snapshot on most changes of a status, and a ticker     *)
(* pushes one every five seconds while somebody listens (status_ws in      *)
(* unifi/web/server.py, the "Status WS" part of                            *)
(* unifi/web/camera_manager.py).                                           *)
(*                                                                         *)
(* An action is the code between two awaits that can suspend.  Statuses    *)
(* are counted: a snapshot is the number of changes it knows of.  The      *)
(* asyncio lock is fair, so the tasks that hold it and wait for it are a   *)
(* queue whose head holds it.                                              *)
(*                                                                         *)
(* Before some definitions stands a faulty variant of it, named for a slip *)
(* that code like this invites.  No specification here uses one; each      *)
(* breaks the property PROJECT.json pairs it with.                         *)
(***************************************************************************)
EXTENDS Integers, FiniteSets, Sequences

CONSTANTS
    Clients,       \* connections of dashboards, each opened at most once
    Ticker,        \* the task _status_ticker
    Broadcast,     \* a task that _schedule_status_broadcast creates
    MaxStatuses    \* bound: changes of a status

ASSUME ClientsAssumption ==
    /\ IsFiniteSet(Clients)
    /\ {Ticker, Broadcast} \cap Clients = {}
    /\ Ticker # Broadcast
ASSUME StatusesAssumption == MaxStatuses \in Nat

Statuses == 0 .. MaxStatuses

VARIABLES
    status,     \* the current status, counted
    handler,    \* status_ws of every client
    greeting,   \* the snapshot it sends before it subscribes
    dead,       \* clients whose socket is broken
    seen,       \* the last snapshot a client has received, or -1
    members,    \* _status_ws_clients
    ticker,     \* _status_ticker_task: "none" (or done), "asleep", "pushing"
    scheduled,  \* broadcasts that have not begun
    queue       \* the holder of _status_ws_lock, then those that wait for it

feedVars == <<status, handler, greeting, dead, seen, members, ticker, scheduled, queue>>

\* A task at the lock: what it will do, for whom, with which snapshot and, once
\* it holds the lock, for which clients still.
Jobs == [op : {"join", "leave", "waiting", "pushing"},
         who : Clients \cup {Ticker, Broadcast},
         snapshot : Statuses, todo : SUBSET Clients, failed : SUBSET Clients]

Job(op, who) == [op |-> op, who |-> who, snapshot |-> 0, todo |-> {}, failed |-> {}]
Push(who) == [Job("waiting", who) EXCEPT !.snapshot = status]

Holds(op) == queue # <<>> /\ Head(queue).op = op

InitFeed ==
    /\ status = 0
    /\ handler = [c \in Clients |-> "away"]
    /\ greeting = [c \in Clients |-> 0]
    /\ dead = {}
    /\ seen = [c \in Clients |-> -1]
    /\ members = {}
    /\ ticker = "none"
    /\ scheduled = 0
    /\ queue = <<>>

-----------------------------------------------------------------------------
(***************************************************************************)
(* status_ws, the handler of a client.                                     *)
(***************************************************************************)

HandlerAt(c, pc) == handler[c] = pc

\* Subscribed before the first snapshot is out.
OpensSubscribed(c) ==
    /\ HandlerAt(c, "away")
    /\ handler' = [handler EXCEPT ![c] = "greeting"]
    /\ greeting' = [greeting EXCEPT ![c] = status]
    /\ members' = members \cup {c}
    /\ UNCHANGED <<status, dead, seen, ticker, scheduled, queue>>

\* The first snapshot is taken, and its sending begun.
Opens(c) ==
    /\ HandlerAt(c, "away")
    /\ handler' = [handler EXCEPT ![c] = "greeting"]
    /\ greeting' = [greeting EXCEPT ![c] = status]
    /\ UNCHANGED <<status, dead, seen, members, ticker, scheduled, queue>>

Greeted(c) ==
    /\ HandlerAt(c, "greeting")
    /\ c \notin dead
    /\ seen' = [seen EXCEPT ![c] = greeting[c]]
    /\ handler' = [handler EXCEPT ![c] = "joining"]
    /\ queue' = Append(queue, Job("join", c))
    /\ UNCHANGED <<status, greeting, dead, members, ticker, scheduled>>

\* The send raises, or the loop over the client's messages ends: the finally
\* clause unsubscribes the client, whether or not it was subscribed.
Leaves(c) ==
    /\ HandlerAt(c, "greeting") \/ HandlerAt(c, "listening")
    /\ c \in dead
    /\ handler' = [handler EXCEPT ![c] = "leaving"]
    /\ queue' = Append(queue, Job("leave", c))
    /\ UNCHANGED <<status, greeting, dead, seen, members, ticker, scheduled>>

-----------------------------------------------------------------------------
(***************************************************************************)
(* register_status_ws and unregister_status_ws, with the lock in hand.     *)
(***************************************************************************)

\* The ticker of the client before is taken for granted.
TickerAssumed == ticker

\* A new ticker when there is none or it is done.
TickerEnsured == IF ticker = "none" THEN "asleep" ELSE ticker

Joined ==
    /\ Holds("join")
    /\ LET c == Head(queue).who IN
         /\ members' = members \cup {c}
         /\ handler' = [handler EXCEPT ![c] = "listening"]
    /\ ticker' = TickerEnsured
    /\ queue' = Tail(queue)
    /\ UNCHANGED <<status, greeting, dead, seen, scheduled>>

\* It stays at the lock.
TickerKept(q) == q

\* It gives up its place at the lock, if it has one.
TickerCancelled(q) ==
    IF \E i \in 1 .. Len(q) : q[i].who = Ticker
    THEN LET i == CHOOSE i \in 1 .. Len(q) : q[i].who = Ticker
         IN  SubSeq(q, 1, i - 1) \o SubSeq(q, i + 1, Len(q))
    ELSE q

\* With the last client the ticker is cancelled, asleep or waiting for the lock.
Left ==
    /\ Holds("leave")
    /\ LET c == Head(queue).who IN
         /\ members' = members \ {c}
         /\ handler' = [handler EXCEPT ![c] = "gone"]
    /\ IF members' = {}
       THEN /\ ticker' = "none"
            /\ queue' = TickerCancelled(Tail(queue))
       ELSE /\ queue' = Tail(queue)
            /\ UNCHANGED ticker
    /\ UNCHANGED <<status, greeting, dead, seen, scheduled>>

-----------------------------------------------------------------------------
(***************************************************************************)
(* broadcast_status, run by the ticker or on its own.                      *)
(***************************************************************************)

\* What get_all_statuses returns changes.  A start, a stop of a running camera, a
\* crash or a restart schedules a broadcast when there is somebody to tell.  A
\* camera added, changed or deleted, a stop of one that has failed, and an
\* auto-restart given up schedule none.
StatusChanges ==
    /\ status < MaxStatuses
    /\ status' = status + 1
    /\ \/ members # {} /\ scheduled' = scheduled + 1
       \/ UNCHANGED scheduled
    /\ UNCHANGED <<handler, greeting, dead, seen, members, ticker, queue>>

\* The snapshot is taken before the lock is.
BroadcastBegins ==
    /\ scheduled > 0
    /\ scheduled' = scheduled - 1
    /\ queue' = IF members = {} THEN queue ELSE Append(queue, Push(Broadcast))
    /\ UNCHANGED <<status, handler, greeting, dead, seen, members, ticker>>

\* Five seconds are over.  A ticker whose clients are gone ends.
Ticks ==
    /\ ticker = "asleep"
    /\ IF members = {}
       THEN ticker' = "none" /\ UNCHANGED queue
       ELSE ticker' = "pushing" /\ queue' = Append(queue, Push(Ticker))
    /\ UNCHANGED <<status, handler, greeting, dead, seen, members, scheduled>>

\* The lock is acquired; the set of clients cannot change while it is held.
PushBegins ==
    /\ Holds("waiting")
    /\ queue' = <<[Head(queue) EXCEPT !.op = "pushing", !.todo = members]>> \o Tail(queue)
    /\ UNCHANGED <<status, handler, greeting, dead, seen, members, ticker, scheduled>>

\* The exception is caught and the loop goes on.
FailureNoted(job, c) == [job EXCEPT !.todo = @ \ {c}, !.failed = @ \cup {c}]

\* One client after the other, in any order; send_str raises on a broken socket.
Pushes(c) ==
    /\ Holds("pushing")
    /\ c \in Head(queue).todo
    /\ \/ /\ c \notin dead
          /\ seen' = [seen EXCEPT ![c] = Head(queue).snapshot]
          /\ queue' = <<[Head(queue) EXCEPT !.todo = @ \ {c}]>> \o Tail(queue)
       \/ /\ c \in dead
          /\ queue' = <<FailureNoted(Head(queue), c)>> \o Tail(queue)
          /\ UNCHANGED seen
    /\ UNCHANGED <<status, handler, greeting, dead, members, ticker, scheduled>>

\* The ticker ends with an exception of its broadcast.
TickerRaised(job, left) == IF job.failed # {} \/ left = {} THEN "none" ELSE "asleep"

\* It goes on while there are clients.
TickerAfter(job, left) == IF left = {} THEN "none" ELSE "asleep"

\* The broken ones are dropped.
PushEnds ==
    /\ Holds("pushing")
    /\ Head(queue).todo = {}
    /\ members' = members \ Head(queue).failed
    /\ ticker' = IF Head(queue).who = Ticker
                 THEN TickerAfter(Head(queue), members') ELSE ticker
    /\ queue' = Tail(queue)
    /\ UNCHANGED <<status, handler, greeting, dead, seen, scheduled>>

\* A dashboard is closed or out of reach: sends to it fail from now on, and its
\* handler comes to know.
Breaks(c) ==
    /\ handler[c] \in {"greeting", "joining", "listening"}
    /\ c \notin dead
    /\ dead' = dead \cup {c}
    /\ UNCHANGED <<status, handler, greeting, seen, members, ticker, scheduled, queue>>

-----------------------------------------------------------------------------
LockTurns == Joined \/ Left \/ PushBegins \/ PushEnds \/ \E c \in Clients : Pushes(c)

Feed ==
    \/ LockTurns \/ BroadcastBegins \/ Ticks
    \/ \E c \in Clients : Greeted(c) \/ Leaves(c)

Dashboards == \E c \in Clients : Opens(c) \/ Breaks(c)

(***************************************************************************)
(* The loop runs its tasks, timers fire, and a send to a client ends: it   *)
(* is delivered, or its socket is found to be broken.                      *)
(***************************************************************************)
FeedFairness ==
    /\ WF_feedVars(LockTurns)
    /\ WF_feedVars(BroadcastBegins)
    /\ WF_feedVars(Ticks)
    /\ \A c \in Clients : WF_feedVars(Greeted(c) \/ Leaves(c))

FeedSpec == InitFeed /\ [][Feed \/ Dashboards \/ StatusChanges]_feedVars
FairFeedSpec == FeedSpec /\ FeedFairness

-----------------------------------------------------------------------------
(***************************************************************************)
(* Properties.                                                             *)
(***************************************************************************)

\* Every variable has its type, and the ticker is at the lock exactly while it
\* pushes.
FeedTypeOK ==
    /\ status \in Statuses
    /\ handler \in [Clients -> {"away", "greeting", "joining", "listening", "leaving", "gone"}]
    /\ greeting \in [Clients -> Statuses]
    /\ dead \subseteq Clients
    /\ seen \in [Clients -> Statuses \cup {-1}]
    /\ members \subseteq Clients
    /\ ticker \in {"none", "asleep", "pushing"}
    /\ scheduled \in Nat
    /\ queue \in Seq(Jobs)
    /\ ticker = "pushing" <=> \E i \in 1 .. Len(queue) : queue[i].who = Ticker

\* The docstring of status_ws: "every 5s as a keep-fresh tick".  While somebody
\* listens there is a ticker, though broadcasts drop clients and tickers end on
\* their own; nobody who listens is left without.
MembersHaveTicker == members # {} => ticker # "none"

\* Snapshots are taken before the lock and delivered after it: a dashboard must
\* not be set back to an older one by a broadcast that was overtaken.
SnapshotsMoveForward == [][\A c \in Clients : seen'[c] >= seen[c]]_feedVars

\* The docstring of status_ws promises a push "whenever a camera's state
\* changes"; some changes schedule none, and one that falls between a client's
\* first snapshot and its subscription is pushed to the others.  Whoever listens
\* comes to see the current statuses all the same, by the next tick.
ClientsCatchUp ==
    \A c \in Clients : \A s \in Statuses :
        (HandlerAt(c, "listening") /\ status = s) ~> (seen[c] >= s \/ c \in dead)

=============================================================================
