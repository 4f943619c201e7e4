--------------------------- MODULE BackgroundTasks ---------------------------
(***************************************************************************)
(* The registry of a session's background work and tool operations         *)
(* (runtime/src/background_tasks.rs): tool workers hold operation leases   *)
(* and register shells and child agents, producers report how their tasks  *)
(* end, and a host pauses, resumes or closes the session.                  *)
(*                                                                         *)
(* Every method is one critical section of the registry's mutex, except    *)
(* where the code leaves it: begin_pause and begin_shutdown raise their    *)
(* fence first and then stop the tasks one by one, and an abort signal is  *)
(* fired after the mutex is released.  Those are separate steps here.      *)
(***************************************************************************)
EXTENDS Orders, FiniteSets

CONSTANTS
    Tasks,              \* task ids; an id is registered once
    NoTask,             \* the parent of a task the session itself owns
    Hosts,              \* pause requests of a host
    HistoryLimit,       \* COMPLETED_TASK_LIMIT
    MaxOperations,      \* bound: tool operations at one time
    MaxPauses           \* bound: pause epochs

ASSUME TasksAssumption == IsFiniteSet(Tasks) /\ NoTask \notin Tasks
ASSUME BoundsAssumption ==
    HistoryLimit \in Nat \ {0} /\ MaxOperations \in Nat /\ MaxPauses \in Nat

Active == {"Running", "Stopping"}
Inactive == {"ExecutionUnconfirmed", "Completed", "Failed", "Cancelled"}
Status == Active \cup Inactive
Absent == {"New", "Gone"}       \* not registered yet; removed

VARIABLES
    status,         \* Registry.tasks: the status of each task
    parent,         \* BackgroundTask.parent_id
    history,        \* Registry.history, oldest first
    closing,        \* Registry.closing
    paused,         \* Registry.paused
    pause_epoch,    \* Registry.pause_epoch
    operations,     \* Registry.operations
    sink,           \* Registry.sink is installed
    view,           \* what the events sent to the sink add up to
    unsent,         \* tasks whose abort a stop or register has still to fire
    aborted,        \* tasks whose abort signal is up
    host,           \* each pause request: where it is, its epoch, tasks to stop
    closer          \* the close of the session: where it is, tasks to stop

taskVars == <<status, parent, history, sink, view>>
fenceVars == <<closing, paused, pause_epoch, operations>>
signalVars == <<unsent, aborted>>
vars == <<taskVars, fenceVars, signalVars, host, closer>>

TypeOK ==
    /\ status \in [Tasks -> Status \cup Absent]
    /\ parent \in [Tasks -> Tasks \cup {NoTask}]
    /\ history \in Seq(Tasks)
    /\ closing \in BOOLEAN /\ paused \in BOOLEAN
    /\ pause_epoch \in 0..MaxPauses
    /\ operations \in 0..MaxOperations
    /\ sink \in BOOLEAN
    /\ view \in [Tasks -> Status \cup {"None"}]
    /\ unsent \subseteq Tasks /\ aborted \subseteq Tasks
    /\ host \in [Hosts -> [at : {"idle", "sweep", "wait", "owns"},
                           epoch : 0..MaxPauses, todo : SUBSET Tasks]]
    /\ closer \in [at : {"open", "sweep", "drain", "closed"}, todo : SUBSET Tasks]

Init ==
    /\ status = [t \in Tasks |-> "New"]
    /\ parent = [t \in Tasks |-> NoTask]
    /\ history = <<>>
    /\ closing = FALSE /\ paused = FALSE
    /\ pause_epoch = 0
    /\ operations = 0
    /\ sink = FALSE /\ view = [t \in Tasks |-> "None"]
    /\ unsent = {} /\ aborted = {}
    /\ host = [h \in Hosts |-> [at |-> "idle", epoch |-> 0, todo |-> {}]]
    /\ closer = [at |-> "open", todo |-> {}]

Registered == {t \in Tasks : status[t] \in Status}
Quiet == operations = 0 /\ \A t \in Tasks : status[t] \notin Active

-----------------------------------------------------------------------------
(* The registry's helpers.                                                 *)

(* The updates and removals the sink is told of, if there is one.          *)
(* Mutant: removals are not published.                                     *)
EmitUpdates(updated, s, removed) ==
    view' = IF sink THEN [t \in Tasks |-> IF t \in updated THEN s ELSE view[t]] ELSE view
Emit(updated, s, removed) ==
    view' = IF sink
            THEN [t \in Tasks |-> IF t \in removed THEN "None"
                                  ELSE IF t \in updated THEN s ELSE view[t]]
            ELSE view

(* retain_finished: t joins the history; past the limit the oldest entry   *)
(* leaves it and the registry.                                             *)
Overflow(q) == IF Len(q) > HistoryLimit THEN {Head(q)} ELSE {}

Retain(t, s) ==
    LET q == Append(history, t)
    IN  /\ history' = IF Len(q) > HistoryLimit THEN Tail(q) ELSE q
        /\ status' = [u \in Tasks |-> IF u \in Overflow(q) THEN "Gone"
                                      ELSE IF u = t THEN s ELSE status[u]]
        /\ Emit({t}, s, Overflow(q))

(* The task and its registered descendants, which stop reaches.            *)
Family(t) ==
    {u \in Registered :
        \A S \in SUBSET Registered :
            (t \in S /\ \A v \in Registered : parent[v] \in S => v \in S) => u \in S}

(* stop: every active task of the family is Stopping; their signals are    *)
(* fired after the mutex is released.                                      *)
(* Mutant: only the task itself is signalled.                              *)
StopSignalsOne(t) ==
    LET hit == {u \in Family(t) : status[u] \in Active}
    IN  IF t \in Registered
        THEN /\ status' = [u \in Tasks |-> IF u \in hit THEN "Stopping" ELSE status[u]]
             /\ unsent' = unsent \cup {t}
             /\ Emit(hit, "Stopping", {})
        ELSE UNCHANGED <<status, unsent, view>>
Stop(t) ==
    LET hit == {u \in Family(t) : status[u] \in Active}
    IN  IF t \in Registered
        THEN /\ status' = [u \in Tasks |-> IF u \in hit THEN "Stopping" ELSE status[u]]
             /\ unsent' = unsent \cup hit
             /\ Emit(hit, "Stopping", {})
        ELSE UNCHANGED <<status, unsent, view>>

-----------------------------------------------------------------------------
(* Tool workers and producers.                                             *)

(* Mutant: the fence is not consulted.                                     *)
BeginUnfenced ==
    /\ operations < MaxOperations
    /\ operations' = operations + 1
    /\ UNCHANGED <<taskVars, closing, paused, pause_epoch, signalVars, host, closer>>
BeginOperation ==
    /\ ~paused /\ ~closing
    /\ operations < MaxOperations
    /\ operations' = operations + 1
    /\ UNCHANGED <<taskVars, closing, paused, pause_epoch, signalVars, host, closer>>

(* The last clone of a lease is dropped: by the worker, not by its caller. *)
EndOperation ==
    /\ operations > 0
    /\ operations' = operations - 1
    /\ UNCHANGED <<taskVars, closing, paused, pause_epoch, signalVars, host, closer>>

(* A task that comes late inherits the stop.  Mutants: from a parent that  *)
(* is still stopping only; not from a pause; not from the close.           *)
StoppedParent(p) == p \in Tasks /\ status[p] \in {"Stopping", "Cancelled"}
should_stop_live(p) == closing \/ paused \/ (p \in Tasks /\ status[p] = "Stopping")
should_stop_unpaused(p) == closing \/ StoppedParent(p)
should_stop_open(p) == paused \/ StoppedParent(p)
should_stop(p) == closing \/ paused \/ StoppedParent(p)

(* register, by a tool worker: so under an operation.                      *)
Register(t, p) ==
    LET s == IF should_stop(p) THEN "Stopping" ELSE "Running"
    IN  /\ operations > 0
        /\ status[t] = "New"
        /\ p \in Tasks => status[p] # "New"
        /\ status' = [status EXCEPT ![t] = s]
        /\ parent' = [parent EXCEPT ![t] = p]
        /\ Emit({t}, s, {})
        /\ unsent' = IF should_stop(p) THEN unsent \cup {t} ELSE unsent
        /\ UNCHANGED <<history, sink, fenceVars, aborted, host, closer>>

(* The caller of stop or register fires the signal.                        *)
FireAbort(t) ==
    /\ t \in unsent
    /\ unsent' = unsent \ {t}
    /\ aborted' = aborted \cup {t}
    /\ UNCHANGED <<taskVars, fenceVars, host, closer>>

(* external: the producer's last update.  A shell that exits or an agent   *)
(* that finishes by itself says so even when a stop is under way; it is    *)
(* Cancelled only after a stop.                                            *)
TaskEnds(t, s) ==
    /\ status[t] \in Active
    /\ s \in Inactive
    /\ s = "Cancelled" => status[t] = "Stopping"
    /\ Retain(t, s)
    /\ UNCHANGED <<parent, sink, fenceVars, signalVars, host, closer>>

(* A user, a client or the agent itself stops one task.                    *)
StopTask(t) ==
    /\ t \in Registered
    /\ Stop(t)
    /\ UNCHANGED <<parent, history, sink, fenceVars, aborted, host, closer>>

(* inspect: a result that was looked at becomes the most recent one.       *)
Inspect(t) ==
    /\ t \in Range(history)
    /\ \E q \in Kept(history, Tasks \ {t}) : history' = Append(q, t)
    /\ UNCHANGED <<status, parent, sink, view, fenceVars, signalVars, host, closer>>

(* clear_results: the journal purges what is finished and confirmed.       *)
ClearResults ==
    LET obsolete == {t \in Range(history) : status[t] # "ExecutionUnconfirmed"}
    IN  /\ history' \in Kept(history, Tasks \ obsolete)
        /\ status' = [t \in Tasks |-> IF t \in obsolete THEN "Gone" ELSE status[t]]
        /\ Emit({}, "Gone", obsolete)
        /\ UNCHANGED <<parent, sink, fenceVars, signalVars, host, closer>>

(* set_sink: a new sink, brought up to date under the same lock.           *)
SetSink ==
    /\ sink' = TRUE
    /\ view' = [t \in Tasks |-> IF t \in Registered THEN status[t] ELSE "None"]
    /\ UNCHANGED <<status, parent, history, fenceVars, signalVars, host, closer>>

-----------------------------------------------------------------------------
(* Pause, resume, close.                                                   *)

BeginPause(h) ==
    LET epoch == IF paused THEN pause_epoch ELSE pause_epoch + 1
    IN  /\ host[h].at = "idle"
        /\ epoch <= MaxPauses
        /\ paused' = TRUE
        /\ pause_epoch' = epoch
        /\ host' = [host EXCEPT ![h] = [at |-> "sweep", epoch |-> epoch,
                                        todo |-> Registered]]
        /\ UNCHANGED <<taskVars, closing, operations, signalVars, closer>>

(* One round of begin_pause's loop over the ids it saw.  The code goes     *)
(* through them in the order of their names; here the order is free.       *)
PauseStops(h, t) ==
    /\ host[h].at = "sweep" /\ t \in host[h].todo
    /\ Stop(t)
    /\ host' = [host EXCEPT ![h].todo = @ \ {t}]
    /\ UNCHANGED <<parent, history, sink, fenceVars, aborted, closer>>

PauseSwept(h) ==
    /\ host[h].at = "sweep" /\ host[h].todo = {}
    /\ host' = [host EXCEPT ![h].at = "wait"]
    /\ UNCHANGED <<taskVars, fenceVars, signalVars, closer>>

(* wait_paused: refused when the pause is no longer this one, granted when *)
(* nothing runs, and otherwise it may time out, which leaves the fence up. *)
PauseCurrent(h) == paused /\ pause_epoch = host[h].epoch

WaitPaused(h) ==
    /\ host[h].at = "wait"
    /\ \/ PauseCurrent(h) /\ Quiet /\ host' = [host EXCEPT ![h].at = "owns"]
       \/ ~(PauseCurrent(h) /\ Quiet) /\ host' = [host EXCEPT ![h].at = "idle"]
    /\ UNCHANGED <<taskVars, fenceVars, signalVars, closer>>

(* resume_operations, by a host that was granted control, or late or again *)
(* by one that still has an epoch from an earlier request.                 *)
ResumeOperations(h) ==
    /\ host[h].at \in {"idle", "owns"} /\ host[h].epoch > 0
    /\ paused' = (paused /\ ~(~closing /\ PauseCurrent(h) /\ Quiet))
    /\ host' = [host EXCEPT ![h].at = "idle"]
    /\ UNCHANGED <<taskVars, closing, pause_epoch, operations, signalVars, closer>>

BeginShutdown ==
    /\ closer.at = "open"
    /\ closing' = TRUE
    /\ closer' = [at |-> "sweep", todo |-> Registered]
    /\ UNCHANGED <<taskVars, paused, pause_epoch, operations, signalVars, host>>

ShutdownStops(t) ==
    /\ closer.at = "sweep" /\ t \in closer.todo
    /\ Stop(t)
    /\ closer' = [closer EXCEPT !.todo = @ \ {t}]
    /\ UNCHANGED <<parent, history, sink, fenceVars, aborted, host>>

(* shutdown waits for the tasks, three seconds at most.                    *)
ShutdownDrains ==
    /\ \/ closer.at = "sweep" /\ closer.todo = {} /\ closer' = [closer EXCEPT !.at = "drain"]
       \/ closer.at = "drain" /\ closer' = [closer EXCEPT !.at = "closed"]
    /\ UNCHANGED <<taskVars, fenceVars, signalVars, host>>

-----------------------------------------------------------------------------
TaskStep ==
    \/ BeginOperation \/ EndOperation
    \/ \E t \in Tasks, p \in Tasks \cup {NoTask} : Register(t, p)
    \/ \E t \in Tasks, s \in Inactive : TaskEnds(t, s)
    \/ \E t \in Tasks : FireAbort(t) \/ StopTask(t) \/ Inspect(t)
    \/ ClearResults \/ SetSink

PauseStep(h) ==
    \/ BeginPause(h) \/ PauseSwept(h) \/ WaitPaused(h) \/ ResumeOperations(h)
    \/ \E t \in Tasks : PauseStops(h, t)

CloseStep ==
    \/ BeginShutdown \/ ShutdownDrains
    \/ \E t \in Tasks : ShutdownStops(t)

Next == TaskStep \/ CloseStep \/ \E h \in Hosts : PauseStep(h)

Spec == Init /\ [][Next]_vars

(* A tool worker ends, an abort is fired by the thread that owes it, a     *)
(* task whose signal is up ends (a shell is killed, an agent polls the     *)
(* signal), and a pause that has begun goes on.  Nothing else need happen: *)
(* a task that is not aborted may run for ever.                            *)
Fairness ==
    /\ WF_vars(EndOperation)
    /\ \A t \in Tasks : WF_vars(FireAbort(t))
    /\ \A t \in Tasks : WF_vars(t \in aborted /\ \E s \in Inactive : TaskEnds(t, s))
    /\ \A h \in Hosts, t \in Tasks : WF_vars(PauseStops(h, t))
    /\ \A t \in Tasks : WF_vars(ShutdownStops(t))

FairSpec == Spec /\ Fairness

-----------------------------------------------------------------------------
(* Properties.                                                             *)

(* docs/acp.md, "Human takeover of tools": once a pause has been granted,  *)
(* and until its epoch is resumed, no tool operation is under way and no   *)
(* task is active, whichever worker was about to begin or to register.     *)
GrantedIsQuiet ==
    \A h \in Hosts : (host[h].at = "owns" /\ PauseCurrent(h)) => Quiet

(* "all owned background agents and shells receive cancellation": when the *)
(* sweep of a pause that is still current, or of the close, is over, no    *)
(* task is Running, neither one that was there nor one registered since.   *)
SweepReachesAll ==
    /\ \A h \in Hosts :
          (host[h].at \in {"wait", "owns"} /\ PauseCurrent(h))
              => \A t \in Tasks : status[t] # "Running"
    /\ closer.at \in {"drain", "closed"} => \A t \in Tasks : status[t] # "Running"

(* A task that is Stopping has been told, or somebody still owes it the    *)
(* signal.                                                                 *)
StopIsSignalled ==
    \A t \in Tasks : status[t] = "Stopping" => t \in unsent \cup aborted

(* No child keeps running under a parent that is stopping or was           *)
(* cancelled, even one that registers during or after the stop.            *)
NoRunningOrphan ==
    \A t \in Tasks :
        (status[t] = "Running" /\ parent[t] \in Registered)
            => status[parent[t]] \notin {"Stopping", "Cancelled"}

(* A subscriber that adds up the events it is sent, from the replay on,    *)
(* has the registry's own picture.                                         *)
SinkMirrorsRegistry ==
    sink => \A t \in Tasks :
                view[t] = IF t \in Registered THEN status[t] ELSE "None"

(* A pause always drains: in the end nothing runs, or control was given    *)
(* back.                                                                   *)
PauseDrains == paused ~> (Quiet \/ ~paused)

(* Closing stops everything the session owns.                              *)
CloseDrains == closing ~> \A t \in Tasks : status[t] \notin Active
=============================================================================
