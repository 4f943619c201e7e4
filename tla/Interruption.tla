---------------------------- MODULE Interruption ----------------------------
(***************************************************************************)
(* How a turn asks its host and how it is stopped: the table of pending    *)
(* requests and the session loop that routes answers to it                 *)
(* (engine-core/src/session.rs), the queue that gives one prompt at a time *)
(* the input surface (runtime/src/permissions.rs), and the abort signal    *)
(* the session's turns share (runtime/src/hooks.rs).                       *)
(*                                                                         *)
(* Six kinds of actors interleave: the session loop, the turn's worker,    *)
(* the tool calls of its response, background agents that keep the table   *)
(* of the turn that spawned them, tools on blocking threads, which may     *)
(* outlive their turn, and a host that answers late, twice or never.  A    *)
(* critical section of the table's mutex is one step, and so is each       *)
(* access to the two atomics of the abort signal.                          *)
(***************************************************************************)
EXTENDS Naturals, Sequences, Orders

CONSTANTS
    Calls,              \* tool calls of a response that ask the user
    Agents,             \* background agents with a delegated prompter
    Worker,             \* the turn's worker, which asks for the host context
    Tools,              \* tools running on blocking threads
    MaxRuns,            \* bound: turns and direct tool calls
    MaxRequests,        \* bound: requests in the session
    MaxCommands,        \* bound: commands in the channel
    MaxContinuations    \* MAX_STREAM_CONTINUATIONS

ASSUME ActorsAssumption ==
    Worker \notin Calls \cup Agents /\ Calls \cap Agents = {}
ASSUME BoundsAssumption ==
    {MaxRuns, MaxRequests, MaxCommands, MaxContinuations} \subseteq Nat

Waiters == Calls \cup Agents \cup {Worker}
Runs == 1..MaxRuns
InputReason == {"permission", "question"}
Kinds == InputReason \cup {"host"}
Requests == 0..MaxRequests      \* 0: none

VARIABLES
    \* the session loop
    stage,          \* where the loop is
    run,            \* the foreground run, and with it the RequestTable
    direct,         \* it is a direct tool call, not a turn
    shutdown,       \* a close arrived: no more commands are taken
    commands,       \* the command channel, forwarder thread included
    reported,       \* the last EngineState event sent
    \* the request tables
    next_id,        \* the id allocator
    cancelled,      \* runs whose table is cancelled
    pending,        \* entries of the tables
    queue,          \* PromptQueue of each table; its head holds the lock
    waiter,         \* each waiter's request
    asked,          \* requests made so far; numbers them for the properties
    shown,          \* request events the host has seen
    \* the abort signal and its readers
    aborted, generation,
    worker,         \* where the turn's worker is
    continued,      \* its stream continuations
    view            \* each blocking tool's captured signal and its reading

loopVars == <<stage, run, direct, shutdown, commands, reported>>
tableVars == <<next_id, cancelled, pending, queue, waiter, asked, shown>>
signalVars == <<aborted, generation>>
workerVars == <<worker, continued>>
vars == <<loopVars, tableVars, signalVars, workerVars, view>>

Command == [type : {"cancel", "close"}]
           \cup [type : {"answer"}, id : Requests, req : Requests]

TypeOK ==
    /\ stage \in {"idle", "resetting", "running", "cancelling", "closed"}
    /\ run \in 0..MaxRuns /\ direct \in BOOLEAN /\ shutdown \in BOOLEAN
    /\ commands \in Seq(Command) /\ Len(commands) <= MaxCommands
    /\ reported \in {"idle", "running"} \cup InputReason
    /\ next_id \in Requests /\ asked \in Requests
    /\ cancelled \subseteq Runs
    /\ pending \subseteq [table : Runs, id : Requests, by : Waiters,
                          kind : Kinds, open : BOOLEAN]
    /\ queue \in [Runs -> Seq(Waiters)]
    /\ waiter \in [Waiters -> [home : 0..MaxRuns, kind : Kinds,
                               stage : {"off", "queued", "waiting"},
                               id : Requests, req : Requests,
                               answer : Requests]]
    /\ shown \subseteq [id : Requests, req : Requests]
    /\ aborted \in BOOLEAN /\ generation \in Nat
    /\ worker \in {"off", "starting", "executing", "failing", "unwinding",
                   "recovering", "over"}
    /\ continued \in 0..MaxContinuations
    /\ view \in [Tools -> [generation : Nat,
                           stage : {"off", "live", "reading"},
                           was : BOOLEAN]]

NoRequest == [home |-> 0, kind |-> "host", stage |-> "off",
              id |-> 0, req |-> 0, answer |-> 0]
NoView == [generation |-> 0, stage |-> "off", was |-> FALSE]

Init ==
    /\ stage = "idle" /\ run = 0 /\ direct = FALSE /\ shutdown = FALSE
    /\ commands = << >> /\ reported = "idle"
    /\ next_id = 0 /\ cancelled = {} /\ pending = {}
    /\ queue = [n \in Runs |-> << >>]
    /\ waiter = [w \in Waiters |-> NoRequest]
    /\ asked = 0 /\ shown = {}
    /\ aborted = FALSE /\ generation = 0
    /\ worker = "off" /\ continued = 0
    /\ view = [v \in Tools |-> NoView]

-----------------------------------------------------------------------------
(* The request table. *)

\* The entries a waiter owns; a lease removes exactly its own id.
Owned(w) == {e \in pending : /\ e.table = waiter[w].home
                             /\ e.id = waiter[w].id
                             /\ waiter[w].stage = "waiting"}

HasInput(entries) == \E e \in entries : e.kind \in InputReason

\* Cancellation clears the table for good.  The state goes back to running
\* only if it said that the turn waits for its user.
cancel_all(n) ==
    LET mine == {e \in pending : e.table = n} IN
    /\ cancelled' = cancelled \cup {n}
    /\ pending' = pending \ mine
    /\ reported' = IF HasInput(mine) THEN "running" ELSE reported

\* The id allocator of the next run's table: the session's own, shared.
TableIdsFresh == 0              \* mutant: each table counts from zero
TableIds == next_id

\* Admission, cancellation and the reported state share the table's mutex: a
\* prompt that reaches a cancelled table is never published, and its answer
\* sender is dropped on the spot.
Admit(w, r) ==
    LET n == r.home IN
    /\ pending' = pending \cup
           {[table |-> n, id |-> next_id, by |-> w, kind |-> r.kind,
             open |-> TRUE]}
    /\ reported' = IF r.kind \in InputReason THEN r.kind ELSE reported
    /\ shown' = shown \cup {[id |-> next_id, req |-> r.req]}

Waiting(w, r) ==
    /\ next_id' = next_id + 1
    /\ waiter' = [waiter EXCEPT ![w] = [r EXCEPT !.stage = "waiting",
                                                !.id = next_id]]

\* mutant: a prompt does not look whether its table is cancelled
begin_request_unchecked(w, r) == Waiting(w, r) /\ Admit(w, r)
begin_request(w, r) ==
    /\ Waiting(w, r)
    /\ IF r.home \in cancelled THEN UNCHANGED <<pending, reported, shown>>
                               ELSE Admit(w, r)

\* RequestLease::drop, whether its future finished or was dropped.
DropLease(w) ==
    /\ pending' = pending \ Owned(w)
    /\ reported' = IF HasInput(Owned(w)) /\ waiter[w].home \notin cancelled
                   THEN "running" ELSE reported

\* The queue's guard is dropped with the future, after the lease.
LeaveQueue(w) ==
    LET n == waiter[w].home IN
    \E left \in Kept(queue[n], Waiters \ {w}) : queue' = [queue EXCEPT ![n] = left]

\* An agent keeps the prompter of its turn; a call's future is gone.
Rest(w) == [NoRequest EXCEPT !.home = IF w \in Agents THEN waiter[w].home
                                                      ELSE 0]

\* The queue lets its head, and nobody else, own the user's input.
OwnsInputAtOnce(w) == TRUE      \* mutant: prompts do not queue
OwnsInput(w) ==
    LET n == waiter[w].home IN queue[n] # << >> /\ Head(queue[n]) = w

-----------------------------------------------------------------------------
(* Those who ask. *)

Executing == stage \in {"running", "cancelling"} /\ worker = "executing"

Enqueue(w, kind) ==
    /\ waiter[w].stage = "off"
    /\ asked < MaxRequests
    /\ asked' = asked + 1
    /\ LET n == IF waiter[w].home = 0 THEN run ELSE waiter[w].home IN
       /\ waiter' = [waiter EXCEPT ![w] = [NoRequest EXCEPT
                         !.home = n, !.kind = kind, !.stage = "queued",
                         !.req = asked + 1]]
       /\ queue' = [queue EXCEPT ![n] = Append(@, w)]
    /\ UNCHANGED <<loopVars, next_id, cancelled, pending, shown,
                   signalVars, workerVars, view>>

\* A call of the response needs a permission or asks a question; a direct
\* tool call has only the permission prompter.
CallAsks(w, kind) ==
    /\ w \in Calls /\ Executing
    /\ ~aborted
    /\ direct => kind = "permission"
    /\ Enqueue(w, kind)

\* The turn spawns a background agent with its delegated prompter.
SpawnAgent(w) ==
    /\ w \in Agents /\ Executing /\ ~direct
    /\ waiter[w].home = 0
    /\ waiter' = [waiter EXCEPT ![w].home = run]
    /\ UNCHANGED <<loopVars, next_id, cancelled, pending, queue, asked, shown,
                   signalVars, workerVars, view>>

\* The agent asks through the table of the turn that spawned it, which may be
\* over.
AgentAsks(w) ==
    /\ w \in Agents /\ waiter[w].home # 0
    /\ Enqueue(w, "permission")

Begin(w) ==
    /\ waiter[w].stage = "queued" /\ OwnsInput(w)
    /\ begin_request(w, waiter[w])
    /\ UNCHANGED <<stage, run, direct, shutdown, commands, cancelled, queue,
                   asked, signalVars, workerVars, view>>

\* The oneshot resolves: with the answer, or because its sender is gone.
Resolve(w) ==
    /\ waiter[w].stage = "waiting" /\ w # Worker
    /\ \A e \in Owned(w) : ~e.open
    /\ DropLease(w) /\ LeaveQueue(w)
    /\ waiter' = [waiter EXCEPT ![w] = Rest(w)]
    /\ UNCHANGED <<stage, run, direct, shutdown, commands, next_id, cancelled,
                   asked, shown, signalVars, workerVars, view>>

\* A future dropped before its answer: the response is unwound, or the agent
\* is stopped.
Abandon(w) ==
    /\ waiter[w].stage \in {"queued", "waiting"}
    /\ w \in Calls => worker \in {"failing", "unwinding"}
    /\ w # Worker
    /\ DropLease(w) /\ LeaveQueue(w)
    /\ waiter' = [waiter EXCEPT ![w] = Rest(w)]
    /\ UNCHANGED <<stage, run, direct, shutdown, commands, next_id, cancelled,
                   asked, shown, signalVars, workerVars, view>>

-----------------------------------------------------------------------------
(* The turn's worker. *)

CallsOver == \A w \in Calls : waiter[w].stage = "off"

\* A turn whose engine needs the host's context asks for it first, outside
\* the prompt queue.
AskHost ==
    /\ worker = "starting" /\ ~direct /\ waiter[Worker].stage = "off"
    /\ asked < MaxRequests
    /\ asked' = asked + 1
    /\ begin_request(Worker, [NoRequest EXCEPT !.home = run,
                                               !.req = asked + 1])
    /\ UNCHANGED <<stage, run, direct, shutdown, commands, cancelled, queue,
                   signalVars, workerVars, view>>

\* With the context the turn executes; an error or a cancellation ends it.
HostAnswered ==
    /\ waiter[Worker].stage = "waiting"
    /\ \A e \in Owned(Worker) : ~e.open
    /\ DropLease(Worker)
    /\ waiter' = [waiter EXCEPT ![Worker] = NoRequest]
    /\ \/ waiter[Worker].answer # 0 /\ worker' = "executing"
       \/ worker' = "over"
    /\ UNCHANGED <<stage, run, direct, shutdown, commands, next_id, cancelled,
                   queue, asked, shown, signalVars, continued, view>>

StartExecution ==
    /\ worker = "starting" /\ waiter[Worker].stage = "off"
    /\ worker' = "executing"
    /\ UNCHANGED <<loopVars, tableVars, signalVars, continued, view>>

\* execute_response breaks on an abort it has seen, or on an error; either way
\* it latches the flag for the tools still running and drops their futures.
ResponseBreaks ==
    /\ worker = "executing"
    /\ \/ aborted /\ worker' = "unwinding"
       \/ ~direct /\ ~aborted /\ worker' = "failing"
    /\ aborted' = TRUE
    /\ UNCHANGED <<loopVars, tableVars, generation, continued, view>>

\* The worker's response has settled and it is done.
WorkerEnds ==
    /\ worker \in {"executing", "failing", "unwinding"}
    /\ CallsOver
    /\ worker' = "over"
    /\ UNCHANGED <<loopVars, tableVars, signalVars, continued, view>>

\* HookAbortSignal::reset is two stores; the first ends every captured view.
RaiseGeneration == generation' = generation + 1 /\ UNCHANGED aborted
LowerFlag == aborted' = FALSE /\ UNCHANGED generation

\* mutant: the flag is lowered first
reset_flag_first(store) == IF store = 1 THEN LowerFlag ELSE RaiseGeneration
reset(store) == IF store = 1 THEN RaiseGeneration ELSE LowerFlag

MayContinue == continued < MaxContinuations

\* recover_turn_stream: an interrupted stream continues in the same turn.
Recover ==
    /\ worker = "failing" /\ CallsOver
    /\ MayContinue
    /\ continued' = continued + 1
    /\ reset(1)
    /\ worker' = "recovering"
    /\ UNCHANGED <<loopVars, tableVars, view>>

Continue ==
    /\ worker = "recovering"
    /\ reset(2)
    /\ worker' = "executing"
    /\ UNCHANGED <<loopVars, tableVars, continued, view>>

-----------------------------------------------------------------------------
(* Tools on blocking threads, with the signal their response captured. *)

IsAborted(v) == aborted \/ view[v].generation # generation

\* for_current_turn, captured by the response that starts the tool.
StartTool(v) ==
    /\ Executing /\ view[v].stage = "off" /\ ~aborted
    /\ view' = [view EXCEPT ![v] = [NoView EXCEPT !.stage = "live",
                                                  !.generation = generation]]
    /\ UNCHANGED <<loopVars, tableVars, signalVars, workerVars>>

\* is_aborted loads the flag and, if it is down, the generation.  A tool that
\* finds its call aborted stops; another goes on.  "was" remembers, for the
\* property, whether the view was aborted when the reading began.
ReadFlag(v) ==
    /\ view[v].stage = "live"
    /\ view' = [view EXCEPT ![v] = IF aborted THEN NoView
           ELSE [@ EXCEPT !.stage = "reading", !.was = IsAborted(v)]]
    /\ UNCHANGED <<loopVars, tableVars, signalVars, workerVars>>

ReadGeneration(v) ==
    /\ view[v].stage = "reading"
    /\ view' = [view EXCEPT ![v] =
           IF view[v].generation # generation THEN NoView
           ELSE [@ EXCEPT !.stage = "live", !.was = FALSE]]
    /\ UNCHANGED <<loopVars, tableVars, signalVars, workerVars>>

-----------------------------------------------------------------------------
(* The host. *)

Send(c) ==
    /\ stage # "closed" /\ Len(commands) < MaxCommands
    /\ commands' = Append(commands, c)
    /\ UNCHANGED <<stage, run, direct, shutdown, reported, tableVars,
                   signalVars, workerVars, view>>

\* It may answer any request it was shown, at any time, and again.
HostAnswers == \E s \in shown :
    Send([type |-> "answer", id |-> s.id, req |-> s.req])
HostCancels == Send([type |-> "cancel"])
HostCloses == Send([type |-> "close"])

-----------------------------------------------------------------------------
(* The session loop. *)

\* run_one_turn and run_direct_tool: a new table, the signal reset, the
\* worker spawned.
StartRun ==
    /\ stage = "idle" /\ run < MaxRuns
    /\ run' = run + 1
    /\ direct' \in BOOLEAN
    /\ next_id' = TableIds
    /\ reset(1)
    /\ stage' = "resetting"
    /\ UNCHANGED <<shutdown, commands, reported, cancelled, pending, queue,
                   waiter, asked, shown, workerVars, view>>

RunStarted ==
    /\ stage = "resetting"
    /\ reset(2)
    /\ reported' = "running"
    /\ worker' = IF direct THEN "executing" ELSE "starting"
    /\ stage' = "running"
    /\ UNCHANGED <<run, direct, shutdown, commands, tableVars, continued,
                   view>>

\* take: the answer's sender leaves the entry, which stays until its lease is
\* dropped.  An id nobody waits for is ignored.
TakeAnswer(c) ==
    LET hit == {e \in pending : e.table = run /\ e.id = c.id /\ e.open} IN
    /\ pending' = (pending \ hit) \cup {[e EXCEPT !.open = FALSE] : e \in hit}
    /\ waiter' = [w \in Waiters |->
                    IF \E e \in hit : e.by = w
                    THEN [waiter[w] EXCEPT !.answer = c.req] ELSE waiter[w]]
    /\ UNCHANGED <<stage, run, direct, shutdown, reported, next_id, cancelled,
                   queue, asked, shown, signalVars, workerVars, view>>

Receptive == stage \in {"idle", "running"} /\ ~shutdown /\ commands # << >>

HandleAnswer ==
    /\ Receptive /\ Head(commands).type = "answer"
    /\ commands' = Tail(commands)
    /\ IF stage = "running"
       THEN TakeAnswer(Head(commands))
       ELSE UNCHANGED <<stage, run, direct, shutdown, reported, tableVars,
                        signalVars, workerVars, view>>

\* Cancel, an input that cancels, and Close all abort first.
HandleInterrupt ==
    /\ Receptive /\ stage = "running" /\ Head(commands).type # "answer"
    /\ commands' = Tail(commands)
    /\ shutdown' = (Head(commands).type = "close")
    /\ aborted' = TRUE
    /\ stage' = "cancelling"
    /\ UNCHANGED <<run, direct, reported, tableVars, generation, workerVars,
                   view>>

CancelTable ==
    /\ stage = "cancelling"
    /\ cancel_all(run)
    /\ stage' = "running"
    /\ UNCHANGED <<run, direct, shutdown, commands, next_id, queue, waiter,
                   asked, shown, signalVars, workerVars, view>>

\* Between runs a cancel only raises the flag, for a lifecycle operation.
HandleIdle ==
    /\ Receptive /\ stage = "idle" /\ Head(commands).type # "answer"
    /\ commands' = Tail(commands)
    /\ IF Head(commands).type = "close"
       THEN stage' = "closed" /\ UNCHANGED aborted
       ELSE aborted' = TRUE /\ UNCHANGED stage
    /\ UNCHANGED <<run, direct, shutdown, reported, tableVars, generation,
                   workerVars, view>>

\* The worker's result: whoever still waits on its table is let go.
RunEnds ==
    /\ stage = "running" /\ worker = "over"
    /\ worker' = "off"
    /\ cancelled' = cancelled \cup {run}
    /\ pending' = {e \in pending : e.table # run}
    /\ reported' = "idle"
    /\ stage' = IF shutdown THEN "closed" ELSE "idle"
    /\ direct' = FALSE /\ continued' = 0
    /\ UNCHANGED <<run, shutdown, commands, next_id, queue, waiter, asked,
                   shown, signalVars, view>>

-----------------------------------------------------------------------------
Next ==
    \/ StartRun \/ RunStarted \/ RunEnds
    \/ HandleAnswer \/ HandleInterrupt \/ CancelTable \/ HandleIdle
    \/ HostAnswers \/ HostCancels \/ HostCloses
    \/ AskHost \/ HostAnswered \/ StartExecution
    \/ ResponseBreaks \/ WorkerEnds \/ Recover \/ Continue
    \/ \E w \in Waiters :
          \/ \E kind \in InputReason : CallAsks(w, kind)
          \/ SpawnAgent(w) \/ AgentAsks(w)
          \/ Begin(w) \/ Resolve(w) \/ Abandon(w)
    \/ \E v \in Tools :
          StartTool(v) \/ ReadFlag(v) \/ ReadGeneration(v)

Spec == Init /\ [][Next]_vars

-----------------------------------------------------------------------------
(* Properties. *)

\* An answer reaches the request it was given for and no other one, however
\* late it comes: request ids are never reused, not even in a later turn,
\* whose table is a new one (session.rs, drive and take).
AnswersReachTheirRequest == \A w \in Waiters :
    waiter[w].answer # 0 => waiter[w].answer = waiter[w].req

\* The reported state says that the user is waited for, and what for, exactly
\* while a prompt of the current run owns the input; never after the run was
\* cancelled or for a prompt of an earlier run (begin_request, cancel_all,
\* RequestLease::drop and the prompt queue).
ReportedInputIsOwned ==
    \A kind \in InputReason :
        reported = kind <=>
            \E e \in pending : e.table = run /\ e.kind = kind

\* A tool on a blocking thread never comes back to life: once its call is
\* aborted no reset, by the next turn or by a stream continuation, makes its
\* signal read otherwise, not even between the two stores of the reset, and
\* is_aborted, whose two loads the stores may separate, finds it so (hooks.rs,
\* reset, is_aborted and for_current_turn).
NoReviving == [][\A v \in Tools :
    view[v].stage # "off" /\ view'[v].stage # "off" =>
        /\ IsAborted(v) => IsAborted(v)'
        /\ view[v].stage = "reading" /\ view'[v].stage = "live" =>
               ~view[v].was]_vars

\* The waiter can take its next step without any answer.
Released(w) ==
    \/ waiter[w].stage = "queued"
    \/ waiter[w].stage = "waiting" /\ \A e \in Owned(w) : ~e.open

\* Once a run's table is cancelled, by its user, a close or its end, nobody is
\* held up by it without an answer: not the prompt that owns the input, and so
\* not the ones queued behind it nor those that come later, as an agent's that
\* the run left behind (cancel_all, begin_request and the prompt queue).
CancelReleasesWaiters == \A n \in cancelled :
    /\ queue[n] # << >> => Released(Head(queue[n]))
    /\ waiter[Worker].home = n => Released(Worker)
=============================================================================
