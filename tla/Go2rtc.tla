------------------------------- MODULE Go2rtc -------------------------------
(***************************************************************************)
(* The streaming server go2rtc, a process that Go2rtcManager starts with   *)
(* all streams baked into its configuration file and replaces whenever the *)
(* configuration changes (unifi/web/go2rtc.py).  WebServer says when its   *)
(* operations are called: start at start-up, stop at shutdown, and one     *)
(* apply_config for every change, in tasks that a lock puts in a row.      *)
(*                                                                         *)
(* An action is the code between two awaits that can suspend.  The         *)
(* configuration is counted, since every caller passes the one object that *)
(* changes are made in.                                                    *)
(*                                                                         *)
(* Before some definitions stands a faulty variant of it, named for a slip *)
(* that code like this invites.  No specification here uses one; each      *)
(* breaks the property PROJECT.json pairs it with.                         *)
(***************************************************************************)
EXTENDS Integers, FiniteSets

CONSTANT MaxConfigs      \* bound: changes of the configuration

ASSUME ConfigsAssumption == MaxConfigs \in Nat

Configs == 0 .. MaxConfigs

\* The tasks that operate on the manager; "apply" holds _apply_lock.
Tasks == {"startup", "apply", "shutdown"}

VARIABLES
    config,     \* the configuration, by the changes made to it
    pending,    \* tasks of apply_config that wait for the lock
    task,       \* where each task is inside the manager
    relays,     \* go2rtc processes that are alive
    handle,     \* the number of self.process, or 0
    spawned,    \* processes created, which are numbered
    ending,     \* the processes told to terminate
    broken      \* go2rtc died or could not be created, and was not replaced

relayVars == <<config, pending, task, relays, handle, spawned, ending, broken>>

Relays == [no : Nat, serves : Configs]
TaskAt(pc, on, serves) == [pc |-> pc, on |-> on, serves |-> serves]
Idle == TaskAt("idle", 0, 0)

Numbers == {r.no : r \in relays}
Busy(t) == task[t].pc # "idle"

InitRelay ==
    /\ config = 0
    /\ pending = 0
    /\ task = [t \in Tasks |-> Idle]
    /\ relays = {}
    /\ handle = 0
    /\ spawned = 0
    /\ ending = {}
    /\ broken = FALSE

-----------------------------------------------------------------------------
\* start, with no process in hand: the file is written, and with it the
\* configuration of this moment chosen.
Creating == TaskAt("creating", 0, config)

\* start returns at once while there is a live process.
StartCalled(t) ==
    /\ ~Busy(t)
    /\ task' = [task EXCEPT ![t] = IF handle \in Numbers THEN Idle ELSE Creating]
    /\ UNCHANGED <<config, pending, relays, handle, spawned, ending, broken>>

\* stop has forgotten the process; apply_config goes on with start.
AfterStop(t) ==
    /\ handle' = 0
    /\ task' = [task EXCEPT ![t] = IF t = "apply" THEN Creating ELSE Idle]

\* The process is told to end and forgotten at once.
NotAwaited(t) ==
    /\ ending' = IF handle \in Numbers THEN ending \cup {handle} ELSE ending
    /\ AfterStop(t)

\* stop: a live process is told to end and waited for.
Stop(t) ==
    IF handle \in Numbers
    THEN /\ ending' = ending \cup {handle}
         /\ task' = [task EXCEPT ![t] = TaskAt("stopping", handle, 0)]
         /\ UNCHANGED handle
    ELSE AfterStop(t) /\ UNCHANGED ending

StopCalled(t) ==
    /\ ~Busy(t)
    /\ Stop(t)
    /\ UNCHANGED <<config, pending, relays, spawned, broken>>

\* A sync that is under way is taken to cover the change.
Coalesced == IF Busy("apply") \/ pending > 0 THEN pending ELSE pending + 1

\* A task of its own for every change, whatever is under way.
Scheduled == pending + 1

\* The configuration changes and _schedule_go2rtc_sync is called.
ConfigChanges ==
    /\ config < MaxConfigs
    /\ config' = config + 1
    /\ pending' = Scheduled
    /\ UNCHANGED <<task, relays, handle, spawned, ending, broken>>

\* apply_config has the lock.
ApplyBegins ==
    /\ pending > 0
    /\ ~Busy("apply")
    /\ pending' = pending - 1
    /\ Stop("apply")
    /\ UNCHANGED <<config, relays, spawned, broken>>

\* The process has ended, after SIGTERM or, five seconds later, SIGKILL.
Stopped(t) ==
    /\ task[t].pc = "stopping"
    /\ task[t].on \notin Numbers
    /\ AfterStop(t)
    /\ UNCHANGED <<config, pending, relays, spawned, ending, broken>>

\* Two tasks that wait for the same process go on in the same round of the
\* loop, before either can have created another.
Woken == \E t \in Tasks : task[t].pc = "stopping" /\ task[t].on \notin Numbers

Created(t) ==
    /\ task[t].pc = "creating"
    /\ ~Woken
    /\ spawned' = spawned + 1
    /\ relays' = relays \cup {[no |-> spawned', serves |-> task[t].serves]}
    /\ handle' = spawned'
    /\ task' = [task EXCEPT ![t] = TaskAt("readying", 0, 0)]
    /\ broken' = FALSE
    /\ UNCHANGED <<config, pending, ending>>

\* A failure schedules another sync.
CreateRetried(t) ==
    /\ task[t].pc = "creating"
    /\ ~Woken
    /\ handle' = 0
    /\ task' = [task EXCEPT ![t] = Idle]
    /\ broken' = TRUE
    /\ pending' = pending + 1
    /\ UNCHANGED <<config, relays, spawned, ending>>

\* The process cannot be created, or the file could not be written before: that
\* exception also leaves apply_config, which has nothing left to do.
CreateFails(t) ==
    /\ task[t].pc = "creating"
    /\ ~Woken
    /\ handle' = 0
    /\ task' = [task EXCEPT ![t] = Idle]
    /\ broken' = TRUE
    /\ UNCHANGED <<config, pending, relays, spawned, ending>>

\* The API answers, or ten seconds are over.
Ready(t) ==
    /\ task[t].pc = "readying"
    /\ task' = [task EXCEPT ![t] = Idle]
    /\ UNCHANGED <<config, pending, relays, handle, spawned, ending, broken>>

-----------------------------------------------------------------------------
RelayEnds(r) ==
    /\ r.no \in ending
    /\ relays' = relays \ {r}
    /\ UNCHANGED <<config, pending, task, handle, spawned, ending, broken>>

\* go2rtc dies on its own, and nobody watches.
RelayDies(r) ==
    /\ r.no \notin ending
    /\ relays' = relays \ {r}
    /\ broken' = TRUE
    /\ UNCHANGED <<config, pending, task, handle, spawned, ending>>

Relaying ==
    \/ ApplyBegins
    \/ \E t \in Tasks : Stopped(t) \/ Created(t) \/ CreateFails(t) \/ Ready(t)
    \/ \E r \in relays : RelayEnds(r)

(***************************************************************************)
(* Tasks go on, and a process that is told to end does.                    *)
(***************************************************************************)
RelayFairness == WF_relayVars(Relaying)

RelaySpec ==
    /\ InitRelay
    /\ [][\/ Relaying \/ ConfigChanges
          \/ StartCalled("startup") \/ StopCalled("shutdown")
          \/ \E r \in relays : RelayDies(r)]_relayVars

-----------------------------------------------------------------------------
(***************************************************************************)
(* Properties.                                                             *)
(***************************************************************************)

\* Every variable has its type; the syncs waiting are at most one for each change
\* and every process in hand or told to end is one that was created.
RelayTypeOK ==
    /\ config \in Configs
    /\ pending \in 0 .. config
    /\ task \in [Tasks -> [pc : {"idle", "stopping", "creating", "readying"},
                           on : Nat, serves : Configs]]
    /\ relays \subseteq Relays
    /\ spawned \in Nat
    /\ handle \in 0 .. spawned
    /\ Numbers \cup ending \subseteq 1 .. spawned
    /\ broken \in BOOLEAN

\* go2rtc binds fixed ports ("bundled" and "managed", says the module's
\* docstring): a second process could not serve anybody.  However changes of the
\* configuration, the start-up and the shutdown overlap, there is never a second
\* one, and the one there is can be stopped.
OneRelay ==
    \A r, s \in relays :
        /\ r = s
        /\ r.no = handle \/ r.no \in ending

=============================================================================
