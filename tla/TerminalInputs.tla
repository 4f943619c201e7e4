---------------------------- MODULE TerminalInputs ----------------------------
(***************************************************************************)
(* A terminal session's inputs: the coordinator loop of the REPL           *)
(* (rusty-sudocode-cli/src/main.rs), which owns a TurnInputCoordinator of  *)
(* its own, the runner thread of each turn, and the engine on the other    *)
(* side of the command channel.                                            *)
(*                                                                         *)
(* The terminal never uses the session's input service or its lifecycle.   *)
(* A turn starts with EngineCommand::Prompt, sent by a runner thread that  *)
(* then waits for the turn's terminal event; what is submitted meanwhile   *)
(* follows as EngineCommand::Steer.  The engine answers through its event  *)
(* stream, which a bridge thread splits between the loop and the runner.   *)
(* So an answer may find the loop in another turn than its question.       *)
(*                                                                         *)
(* What people type and what peers, sub-agents, jobs and tasks report      *)
(* reaches the loop through the same channel as everything else; it is not *)
(* a variable here: such an event is an action the loop may take whenever  *)
(* it next receives.  The one other thread that locks the coordinator is   *)
(* the up-arrow hook of the editor; a handler is split in two steps where  *)
(* what the hook takes in between changes what the handler does next.      *)
(***************************************************************************)
EXTENDS TurnInputCoordinator, FiniteSets

CONSTANTS
    Humans,      \* texts a person types
    Machines,    \* texts of peers, sub-agents, scheduled jobs, background tasks
    NoOne,
    MaxStops     \* bound: how often the user presses Esc or Ctrl+C

ASSUME TextsAssumption ==
    /\ Humans \cap Machines = {} /\ NoOne \notin Humans \cup Machines
    /\ MaxStops \in Nat

Texts == Humans \cup Machines

VARIABLES
    coord,          \* the terminal's coordinator
    owner,          \* coordinator id -> the text it stands for
    loop,           \* where the coordinator loop is
    events,         \* coord_rx
    runner,         \* runner_handle: the turn's thread and the text it prompts
    verdict,        \* turn_rx: the terminal event the runner has still to read
    commands,       \* the engine's command channel
    bridge,         \* the engine's event stream
    driver,         \* where the engine's driver is
    shutdown,       \* Close was received during the turn
    inbox,          \* TurnInputInbox.state: open, pending
    worker,         \* where the turn worker is
    batch,          \* ids the worker took from the inbox
    aborted,        \* the session's abort signal
    transcript,     \* texts in the durable transcript, in order
    stops,          \* how often the user pressed Esc or Ctrl+C
    stopRequested,  \* history: the driver met a Cancel in this turn
    submitted,      \* history: texts the loop was given
    returned,       \* history: texts handed back to the editor
    dropped         \* history: texts refused at exit or lost with their turn

loopVars == <<coord, owner, loop, events, stops, submitted>>
engineVars == <<driver, shutdown, inbox, worker, batch, aborted, transcript, stopRequested>>
fates == <<returned, dropped>>
vars == <<loopVars, runner, verdict, commands, bridge, engineVars, fates>>

Message(kind, ids) == [kind |-> kind, ids |-> ids]
Messages(kinds) == [kind : kinds, ids : Seq(Ids)]
Requests == {"Prompt", "Steer", "Cancel", "Close"}
Answers == {"TurnStarted", "InputCommitted", "InputDeferred"}
Verdicts == {"TurnComplete", "TurnFailed"}
Ended == {"complete", "cancelled", "failed"}

NoRunner == [at |-> "none", next |-> <<>>]
ClosedInbox == [open |-> FALSE, pending |-> <<>>]

TypeOK ==
    /\ coord \in Coordinator
    /\ owner \in [Ids -> Texts \cup {NoOne}]
    /\ loop \in {"recv", "flush", "drain", "joining", "exited"}
    /\ events \in Seq(Messages(Answers \cup {"TurnComplete", "PumpQueue"}))
    /\ runner \in [at : {"none", "spawned", "waiting", "ended"}, next : Seq(Texts)]
    /\ verdict \in {"none"} \cup Verdicts
    /\ commands \in Seq(Messages(Requests))
    /\ bridge \in Seq(Messages(Answers \cup Verdicts))
    /\ driver \in {"select", "turn", "closed"} /\ shutdown \in BOOLEAN
    /\ inbox \in [open : BOOLEAN, pending : Seq(Ids)]
    /\ worker \in {"none", "prepare", "loop", "push", "emit", "request", "seal"}
                  \cup Ended
    /\ batch \in Seq(Ids)
    /\ aborted \in BOOLEAN /\ stopRequested \in BOOLEAN
    /\ transcript \in Seq(Texts)
    /\ stops \in 0..MaxStops
    /\ submitted \subseteq Texts /\ returned \subseteq Texts /\ dropped \subseteq Texts

Init ==
    /\ coord = NewCoordinator /\ owner = [i \in Ids |-> NoOne]
    /\ loop = "recv" /\ events = <<>>
    /\ runner = NoRunner /\ verdict = "none"
    /\ commands = <<>> /\ bridge = <<>>
    /\ driver = "select" /\ shutdown = FALSE
    /\ inbox = ClosedInbox /\ worker = "none" /\ batch = <<>>
    /\ aborted = FALSE /\ stopRequested = FALSE
    /\ transcript = <<>>
    /\ stops = 0 /\ submitted = {} /\ returned = {} /\ dropped = {}

Durable == Range(transcript)
TextsOf(ids) == {owner[i] : i \in ids}

-----------------------------------------------------------------------------
(* The coordinator loop: what the engine and the runner report.            *)

Send(kind, ids) == commands' = Append(commands, Message(kind, ids))
PumpQueue == Message("PumpQueue", <<>>)

Received(kind) ==
    /\ loop = "recv"
    /\ events # <<>> /\ Head(events).kind = kind

OnTurnStarted ==
    /\ Received("TurnStarted")
    /\ events' = Tail(events)
    /\ coord' = turn_started(coord)
    /\ \/ /\ started_steers(coord)
          /\ \E s \in InIdOrder(coord.steering) : Send("Steer", s)
       \/ started_cancels(coord) /\ Send("Cancel", <<>>)
       \/ /\ ~started_steers(coord) /\ ~started_cancels(coord)
          /\ UNCHANGED commands
    /\ UNCHANGED <<owner, loop, stops, submitted, runner, verdict, bridge, engineVars, fates>>

OnInputCommitted ==
    /\ Received("InputCommitted")
    /\ events' = Tail(events)
    /\ coord' = committed(coord, Head(events).ids[1])
    /\ UNCHANGED <<owner, loop, stops, submitted, runner, verdict, commands, bridge,
                   engineVars, fates>>

(* Only what the coordinator still holds as steering is put back.          *)
(* Mutant of it: a refusal puts back whatever it names.                    *)
OnInputDeferredAny ==
    /\ Received("InputDeferred")
    /\ coord' = defer(coord, Head(events).ids)
    /\ events' = Tail(events) \o (IF can_start(coord) THEN <<PumpQueue>> ELSE <<>>)
    /\ UNCHANGED <<owner, loop, stops, submitted, runner, verdict, commands, bridge,
                   engineVars, fates>>

OnInputDeferred ==
    /\ Received("InputDeferred")
    /\ \E kept \in Kept(Head(events).ids, coord.steering) : coord' = defer(coord, kept)
    /\ events' = Tail(events) \o (IF can_start(coord) THEN <<PumpQueue>> ELSE <<>>)
    /\ UNCHANGED <<owner, loop, stops, submitted, runner, verdict, commands, bridge,
                   engineVars, fates>>

(* Join the runner, which has nothing left to do once it sent TurnComplete. *)
JoinRunner == runner.at \in {"none", "ended"} /\ runner' = NoRunner

OnTurnComplete ==
    /\ Received("TurnComplete")
    /\ events' = Tail(events)
    /\ \E s \in InIdOrder(coord.steering) : coord' = finish_turn(coord, s)
    /\ JoinRunner
    /\ loop' = "drain"
    /\ UNCHANGED <<owner, stops, submitted, verdict, commands, bridge, engineVars, fates>>

OnPumpQueue ==
    /\ Received("PumpQueue")
    /\ events' = Tail(events)
    /\ \/ is_running(coord) /\ UNCHANGED <<loop, runner>>
       \/ ~is_running(coord) /\ JoinRunner /\ loop' = "drain"
    /\ UNCHANGED <<coord, owner, stops, submitted, verdict, commands, bridge, engineVars, fates>>

(* spawn_iocraft_turn.                                                     *)
Spawn(next) == runner' = [at |-> "spawned", next |-> next]

(* A paused queue waits for the user; any other becomes the next prompt.   *)
Drain ==
    /\ loop = "drain"
    /\ loop' = "recv"
    /\ \/ /\ is_paused(coord) \/ coord.queue = <<>>
          /\ UNCHANGED <<coord, runner>>
       \/ /\ ~is_paused(coord) /\ coord.queue # <<>>
          /\ Spawn([k \in DOMAIN coord.queue |-> owner[coord.queue[k]]])
          /\ coord' = start_turn(drain_next(coord))
    /\ UNCHANGED <<owner, events, stops, submitted, verdict, commands, bridge, engineVars, fates>>

-----------------------------------------------------------------------------
(* The coordinator loop: inputs.                                           *)

NewId == coord.next_id + 1

(* The text gets an id, unless the turn it starts takes it at once.        *)
Named(x) == NewId \in Ids /\ owner' = [owner EXCEPT ![NewId] = x]

EnqueueText(c, x) == Named(x) /\ coord' = enqueue(identify(c), NewId)

(* stage_turn_input with Steer, then deliver_steering_inputs.              *)
StageSteer(x) ==
    /\ Named(x)
    /\ coord' = steer(identify(coord), NewId)
    /\ IF can_deliver(coord) THEN Send("Steer", <<NewId>>) ELSE UNCHANGED commands

StartWith(c, x) ==
    /\ coord' = start_turn(submit_when_idle(c))
    /\ Spawn(<<x>>)
    /\ UNCHANGED owner

Pumped == events' = Append(events, PumpQueue)

GivenTo(x) ==
    /\ loop = "recv" /\ x \notin submitted
    /\ submitted' = submitted \cup {x}
    /\ UNCHANGED <<loop, stops, verdict, bridge, engineVars, fates>>

(* PeerMessage, SubagentCompleted, BackgroundTaskCompleted.                *)
MachineReports(x, steering) ==
    /\ GivenTo(x)
    /\ \/ /\ can_start(coord) /\ has_idle_queue(coord)
          /\ EnqueueText(coord, x) /\ Pumped
          /\ UNCHANGED <<runner, commands>>
       \/ /\ can_start(coord) /\ ~has_idle_queue(coord)
          /\ StartWith(coord, x)
          /\ UNCHANGED <<events, commands>>
       \/ /\ ~can_start(coord) /\ can_steer(coord) /\ steering
          /\ StageSteer(x)
          /\ UNCHANGED <<events, runner>>
       \/ /\ ~can_start(coord) /\ ~(can_steer(coord) /\ steering)
          /\ EnqueueText(coord, x)
          /\ UNCHANGED <<events, runner, commands>>

(* Submit (Enter steers) and Queue, once they are not a command line.  A   *)
(* Queue that is turned off changes nothing.                               *)
HumanSubmits(x, steering) ==
    /\ GivenTo(x)
    /\ \/ /\ has_idle_queue(coord)
          /\ Named(x)
          /\ coord' = submit_during_turn(resume(coord), NewId, TRUE)
          /\ Pumped
          /\ UNCHANGED <<runner, commands>>
       \/ /\ ~has_idle_queue(coord) /\ ~is_running(coord)
          /\ StartWith(resume(coord), x)
          /\ UNCHANGED <<events, commands>>
       \/ /\ is_running(coord) /\ steering /\ ~is_paused(coord)
          /\ StageSteer(x)
          /\ UNCHANGED <<events, runner>>
       \/ /\ is_running(coord) /\ ~(steering /\ ~is_paused(coord))
          /\ EnqueueText(IF steering THEN resume(coord) ELSE coord, x)
          /\ UNCHANGED <<events, runner, commands>>

(* Abort with pending input asks for it now: resume, then deliver it to    *)
(* the running turn or start one.                                          *)
AbortPending ==
    /\ loop = "recv" /\ stops < MaxStops
    /\ has_pending_input(coord)
    /\ coord' = resume(coord)
    /\ stops' = stops + 1
    /\ loop' = "flush"
    /\ UNCHANGED <<owner, events, submitted, runner, verdict, commands, bridge, engineVars, fates>>

FlushPending ==
    /\ loop = "flush"
    /\ loop' = "recv"
    /\ \/ /\ is_running(coord)
          /\ coord' = flush(coord)
          /\ IF can_deliver(coord) /\ coord.queue # <<>>
             THEN Send("Steer", coord.queue) ELSE UNCHANGED commands
          /\ UNCHANGED events
       \/ /\ ~is_running(coord)
          /\ Pumped
          /\ UNCHANGED <<coord, commands>>
    /\ UNCHANGED <<owner, stops, submitted, runner, verdict, bridge, engineVars, fates>>

(* Cancel, or Abort with nothing pending.                                  *)
CancelTurn ==
    /\ loop = "recv" /\ stops < MaxStops
    /\ runner # NoRunner
    /\ coord' = cancel_turn(coord)
    /\ Send("Cancel", <<>>)
    /\ stops' = stops + 1
    /\ UNCHANGED <<owner, loop, events, submitted, runner, verdict, bridge, engineVars, fates>>

(* Exit, and the two steps after it: wait for the runner, then refuse what *)
(* never ran.                                                              *)
Exit ==
    /\ loop = "recv"
    /\ Send("Close", <<>>)
    /\ loop' = "joining"
    /\ UNCHANGED <<coord, owner, events, stops, submitted, runner, verdict, bridge,
                   engineVars, fates>>

ClearAtExit ==
    /\ loop = "joining"
    /\ JoinRunner
    /\ coord' = clear(coord)
    /\ dropped' = dropped
          \cup (TextsOf(Range(coord.queue) \cup coord.steering) \ Durable)
    /\ loop' = "exited"
    /\ UNCHANGED <<owner, events, stops, submitted, verdict, commands, bridge, engineVars, returned>>

(* The up-arrow hook, on the editor's thread: dequeue_all_human.           *)
UpArrow ==
    LET humans == {i \in Range(coord.queue) : owner[i] \in Humans}
    IN  /\ loop # "exited"
        /\ humans # {}
        /\ \E rest \in Kept(coord.queue, Ids \ humans) : coord' = dequeue_all_human(coord, rest)
        /\ returned' = returned \cup TextsOf(humans)
        /\ UNCHANGED <<owner, loop, events, stops, submitted, runner, verdict, commands,
                       bridge, engineVars, dropped>>

-----------------------------------------------------------------------------
(* The runner thread (run_turn_iocraft, drive_turn) and the bridge.        *)

(* The runner is done: its texts are in the transcript or lost with it.    *)
RunnerDone ==
    /\ runner' = [runner EXCEPT !.at = "ended"]
    /\ events' = Append(events, Message("TurnComplete", <<>>))
    /\ dropped' = dropped \cup (Range(runner.next) \ Durable)

RunnerPrompts ==
    /\ runner.at = "spawned"
    /\ runner' = [runner EXCEPT !.at = "waiting"]
    /\ Send("Prompt", <<>>)
    /\ UNCHANGED <<loopVars, verdict, bridge, engineVars, fates>>

(* prompt_blocks cannot read an image, or the engine has gone.             *)
RunnerRefuses ==
    /\ runner.at = "spawned"
    /\ RunnerDone
    /\ UNCHANGED <<coord, owner, loop, stops, submitted, verdict, commands, bridge,
                   engineVars, returned>>

(* The turn's terminal event, or the end of a closed engine's events.      *)
(* Mutant of it: the runner waits for the terminal event only.             *)
RunnerEndsOnVerdict ==
    /\ runner.at = "waiting" /\ verdict # "none"
    /\ RunnerDone
    /\ verdict' = "none"
    /\ UNCHANGED <<coord, owner, loop, stops, submitted, commands, bridge, engineVars, returned>>

RunnerEnds ==
    /\ runner.at = "waiting"
    /\ verdict # "none" \/ (driver = "closed" /\ bridge = <<>>)
    /\ RunnerDone
    /\ verdict' = "none"
    /\ UNCHANGED <<coord, owner, loop, stops, submitted, commands, bridge, engineVars, returned>>

Bridge ==
    /\ bridge # <<>>
    /\ bridge' = Tail(bridge)
    /\ IF Head(bridge).kind \in Verdicts
       THEN verdict' = Head(bridge).kind /\ UNCHANGED events
       ELSE events' = Append(events, Head(bridge)) /\ UNCHANGED verdict
    /\ UNCHANGED <<coord, owner, loop, stops, submitted, runner, commands, engineVars, fates>>

-----------------------------------------------------------------------------
(* The engine's driver: drive and run_one_turn, for the terminal's         *)
(* commands.                                                               *)

Publish(kind, ids) == bridge' = Append(bridge, Message(kind, ids))

Taken(kind) ==
    /\ driver \in {"select", "turn"} /\ ~shutdown
    /\ commands # <<>> /\ Head(commands).kind = kind
    /\ commands' = Tail(commands)

(* completions.begin may refuse the prompt.  run_one_turn ignores a prompt *)
(* that meets a running turn: TerminalOwnsOnce says that none does.        *)
TakePrompt ==
    /\ Taken("Prompt") /\ driver = "select"
    /\ \/ /\ Publish("TurnFailed", <<>>)
          /\ UNCHANGED engineVars
       \/ /\ Publish("TurnStarted", <<>>)
          /\ driver' = "turn"
          /\ inbox' = [inbox EXCEPT !.open = TRUE]
          /\ worker' = "prepare"
          /\ aborted' = FALSE /\ stopRequested' = FALSE
          /\ UNCHANGED <<shutdown, batch, transcript>>
    /\ UNCHANGED <<loopVars, runner, verdict, fates>>

(* Steer: the running turn's inbox takes all of it or it is refused.       *)
TakeSteer ==
    /\ Taken("Steer")
    /\ IF driver = "turn" /\ inbox.open
       THEN /\ inbox' = [inbox EXCEPT !.pending = @ \o Head(commands).ids]
            /\ UNCHANGED bridge
       ELSE /\ Publish("InputDeferred", Head(commands).ids)
            /\ UNCHANGED inbox
    /\ UNCHANGED <<loopVars, runner, verdict, driver, shutdown, worker, batch, aborted,
                   transcript, stopRequested, fates>>

TakeCancel ==
    /\ Taken("Cancel")
    /\ aborted' = TRUE
    /\ stopRequested' = (driver = "turn")
    /\ UNCHANGED <<loopVars, runner, verdict, bridge, driver, shutdown, inbox, worker,
                   batch, transcript, fates>>

TakeClose ==
    /\ Taken("Close")
    /\ IF driver = "turn"
       THEN shutdown' = TRUE /\ aborted' = TRUE /\ UNCHANGED driver
       ELSE driver' = "closed" /\ UNCHANGED <<shutdown, aborted>>
    /\ UNCHANGED <<loopVars, runner, verdict, bridge, inbox, worker, batch, transcript,
                   stopRequested, fates>>

(* The worker's result: close the inbox, defer what it still held, then    *)
(* publish the terminal event.  A cancelled turn is a TurnComplete, unless *)
(* its end cannot be recorded.                                             *)
(* Mutant of it: what the inbox held is forgotten.                         *)
WorkerEndedSilently ==
    /\ driver = "turn" /\ worker \in Ended
    /\ bridge' = Append(bridge,
          Message(IF worker = "failed" THEN "TurnFailed" ELSE "TurnComplete", <<>>))
    /\ inbox' = ClosedInbox
    /\ worker' = "none" /\ batch' = <<>> /\ stopRequested' = FALSE
    /\ driver' = IF shutdown THEN "closed" ELSE "select"
    /\ UNCHANGED <<loopVars, runner, verdict, commands, shutdown, aborted, transcript, fates>>

WorkerEnded ==
    /\ driver = "turn" /\ worker \in Ended
    /\ \E kind \in IF worker = "failed" THEN {"TurnFailed"} ELSE Verdicts :
          bridge' = bridge
             \o (IF inbox.pending = <<>> THEN <<>>
                 ELSE <<Message("InputDeferred", inbox.pending)>>)
             \o <<Message(kind, <<>>)>>
    /\ inbox' = ClosedInbox
    /\ worker' = "none" /\ batch' = <<>> /\ stopRequested' = FALSE
    /\ driver' = IF shutdown THEN "closed" ELSE "select"
    /\ UNCHANGED <<loopVars, runner, verdict, commands, shutdown, aborted, transcript, fates>>

-----------------------------------------------------------------------------
(* The turn worker, as far as the inbox, the transcript and the abort      *)
(* signal go; its own steps are those of SessionInputs.                    *)

workerFrame == <<loopVars, runner, verdict, commands, driver, shutdown, stopRequested, fates>>

Goto(from, to) == worker = from /\ worker' = to

PreparePrompt ==
    /\ \/ Goto("prepare", "failed") /\ UNCHANGED transcript
       \/ Goto("prepare", "cancelled") /\ aborted /\ UNCHANGED transcript
       \/ Goto("prepare", "loop") /\ transcript' = transcript \o runner.next
    /\ UNCHANGED <<workerFrame, bridge, inbox, batch, aborted>>

LoopHead ==
    /\ \/ Goto("loop", "cancelled") /\ aborted /\ UNCHANGED batch
       \/ Goto("loop", "push") /\ ~aborted /\ batch' = inbox.pending
    /\ UNCHANGED <<workerFrame, bridge, inbox, aborted, transcript>>

PushInput ==
    /\ \/ /\ Goto("push", "request") /\ (aborted \/ batch = <<>>)
          /\ UNCHANGED <<inbox, transcript>>
       \/ /\ Goto("push", "failed") /\ ~aborted /\ batch # <<>>
          /\ UNCHANGED <<inbox, transcript>>
       \/ /\ Goto("push", "emit") /\ ~aborted /\ batch # <<>>
          /\ transcript' = Append(transcript, owner[Head(batch)])
          /\ \E rest \in Kept(inbox.pending, Ids \ {Head(batch)}) :
                inbox' = [inbox EXCEPT !.pending = rest]
    /\ UNCHANGED <<workerFrame, bridge, batch, aborted>>

EmitCommitted ==
    /\ Goto("emit", "push")
    /\ Publish("InputCommitted", <<Head(batch)>>)
    /\ batch' = Tail(batch)
    /\ UNCHANGED <<workerFrame, inbox, aborted, transcript>>

(* The model's response.  A broken stream latches the abort signal and     *)
(* resets it to go on, whatever came in between.                           *)
Respond ==
    /\ \/ Goto("request", "failed") /\ UNCHANGED aborted
       \/ Goto("request", "cancelled") /\ aborted /\ UNCHANGED aborted
       \/ Goto("request", "loop") /\ ~aborted /\ UNCHANGED aborted
       \/ Goto("request", "loop") /\ aborted /\ aborted' = FALSE
    /\ UNCHANGED <<workerFrame, bridge, inbox, batch, transcript>>

RespondFinal ==
    /\ Goto("request", "seal") /\ ~aborted
    /\ UNCHANGED <<workerFrame, bridge, inbox, batch, aborted, transcript>>

(* seal_if_empty, then finish_turn_state behind the closed inbox.          *)
SealInbox ==
    /\ \/ /\ inbox.pending = <<>>
          /\ inbox' = [inbox EXCEPT !.open = FALSE]
          /\ \E end \in {IF aborted THEN "cancelled" ELSE "complete", "failed"} :
                Goto("seal", end)
       \/ /\ Goto("seal", "loop") /\ inbox.pending # <<>>
          /\ UNCHANGED inbox
    /\ UNCHANGED <<workerFrame, bridge, batch, aborted, transcript>>

-----------------------------------------------------------------------------
LoopStep ==
    \/ OnTurnStarted \/ OnInputCommitted \/ OnInputDeferred \/ OnTurnComplete
    \/ OnPumpQueue \/ Drain \/ FlushPending \/ ClearAtExit

UserStep ==
    \/ \E x \in Machines, steering \in BOOLEAN : MachineReports(x, steering)
    \/ \E x \in Humans, steering \in BOOLEAN : HumanSubmits(x, steering)
    \/ AbortPending \/ CancelTurn \/ Exit \/ UpArrow

RunnerStep == RunnerPrompts \/ RunnerRefuses \/ RunnerEnds

DriverStep == TakePrompt \/ TakeSteer \/ TakeCancel \/ TakeClose \/ WorkerEnded

WorkerStep ==
    \/ PreparePrompt \/ LoopHead \/ PushInput \/ EmitCommitted \/ Respond
    \/ RespondFinal \/ SealInbox

Exited == loop = "exited" /\ UNCHANGED vars

Next == LoopStep \/ UserStep \/ RunnerStep \/ Bridge \/ DriverStep \/ WorkerStep \/ Exited

Spec == Init /\ [][Next]_vars

(* Fairness: the five threads run.  What people, peers and tasks do is     *)
(* left open.  That the model sometimes answers without a tool call is an  *)
(* assumption about the provider.                                          *)
Fairness ==
    /\ WF_vars(LoopStep)
    /\ WF_vars(RunnerStep)
    /\ WF_vars(Bridge)
    /\ WF_vars(DriverStep)
    /\ WF_vars(WorkerStep)
    /\ SF_vars(RespondFinal)

FairSpec == Spec /\ Fairness

-----------------------------------------------------------------------------
(* Properties.                                                             *)

Coming(channel, kind) == \E k \in DOMAIN channel : channel[k].kind = kind
Carries(channel, id) == \E k \in DOMAIN channel : id \in Range(channel[k].ids)

(* Everything the loop was given is in one place: the queue, the           *)
(* coordinator's steering, the prompt of the turn that is starting, the    *)
(* transcript, the editor, or it went with a failed turn or the exit; and  *)
(* the transcript has it once.  A refusal that arrives after the turn it   *)
(* belongs to, which recovered the input itself (recover_uncommitted: "ids *)
(* make that reply idempotent"), would otherwise run it twice.  Nor does a *)
(* prompt meet a running turn, which ignores it ("renderers serialize      *)
(* turns").                                                                *)
TerminalOwnsOnce ==
    /\ \A x \in submitted :
        Cardinality({p \in {"queue", "steering", "prompt", "applied", "returned", "dropped"} :
            \/ p = "queue" /\ x \in TextsOf(Range(coord.queue))
            \/ p = "steering" /\ x \in TextsOf(coord.steering)
            \/ p = "prompt" /\ runner.at \in {"spawned", "waiting"}
                            /\ x \in Range(runner.next) \ Durable
            \/ p = "applied" /\ x \in Durable \ TextsOf(coord.steering)
            \/ p = "returned" /\ x \in returned
            \/ p = "dropped" /\ x \in dropped}) = 1
    /\ \A i, j \in DOMAIN transcript : transcript[i] = transcript[j] => i = j
    /\ driver = "turn" => ~Coming(commands, "Prompt")

(* Steering that the terminal regards as delivered is on its way, exactly  *)
(* once: in a Steer command, in the inbox, being announced by the worker,  *)
(* or in the answer (deliver_steering_inputs, run_one_turn's Steer arm and *)
(* InputDeferred).  And what the engine may still apply is not yet taken   *)
(* back by the terminal.                                                   *)
SteeringInFlight ==
    /\ can_deliver(coord) =>
        \A id \in coord.steering :
            Cardinality({p \in {"command", "inbox", "worker", "bridge", "event"} :
                \/ p = "command" /\ Carries(commands, id)
                \/ p = "inbox" /\ id \in Range(inbox.pending)
                \/ p = "worker" /\ worker = "emit" /\ id = Head(batch)
                \/ p = "bridge" /\ Carries(bridge, id)
                \/ p = "event" /\ Carries(events, id)}) = 1
    /\ loop # "exited" => Range(inbox.pending) \subseteq coord.steering

(* A Cancel pressed at any moment reaches the turn it was meant for, also  *)
(* one pressed before the engine has begun the turn, which resets the      *)
(* abort signal (turn_started: "Controls accepted during preparation must  *)
(* follow that reset, never precede it").                                  *)
CancelReachesTurn ==
    (coord.phase \in {"Cancelling", "Resuming"} /\ driver = "turn") =>
        \/ stopRequested
        \/ Coming(commands, "Cancel")
        \/ Coming(bridge, "TurnStarted") \/ Coming(events, "TurnStarted")

(* Again and again the terminal is at rest: whatever the loop was given is *)
(* applied, handed back or dropped, or the queue is paused for the user;   *)
(* and no exit is under way, which waits for the runner, which waits for   *)
(* the engine.  So no input stays behind and no exit hangs.                *)
AtRest ==
    /\ submitted \subseteq Durable \cup returned \cup dropped \/ coord.phase = "Paused"
    /\ loop # "joining"
InputsSettle == []<>AtRest
=============================================================================
