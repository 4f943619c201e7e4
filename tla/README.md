# Verification of the sudocode session core

sudocode is a coding agent: a Rust engine that holds sessions with a language
model, runs the tools the model asks for, and serves several kinds of client
(terminal, ACP server, peer agents). This directory holds TLA+ models of the
parts of that engine where threads, clients and storage meet, the TLC
configurations that check them on small instances, and proofs of the central
invariants that TLAPS checks for every instance. All paths below are relative
to `rust/crates/`.

## 1. The system

### Components

| Component | State it keeps | Operations | Where it is hard |
|---|---|---|---|
| Turn input queue, `engine-core/src/input_queue.rs` | queue of inputs, ids handed to the engine (steering), phase Idle / Preparing / Running / Cancelling / Paused | enqueue, steer, flush, recall, drain, start, cancel, finish, defer, resume, clear | an input moves between three owners; a cancel must not restart what it stopped |
| Session input service, `engine-core/src/session_inputs.rs` | the queue behind a mutex, receipts by client id, lifecycle hold, task watch | submit, flush, recall, cancel, lifecycle acquire and release, lease of the next prompt, task notification | driver, turn worker and task producers call it from three threads |
| Session driver, `engine-core/src/session.rs` | the command channel, the running turn, pending questions | one command at a time, `run_one_turn`, close | commands arrive at every point of a turn |
| Terminal loop, `rusty-sudocode-cli/src/main.rs` | a coordinator of its own, the runner thread, the loop's event channel | submit, queue, abort, cancel, up-arrow, machine reports, engine events, exit | questions and answers cross: a refusal may come a turn late; a cancel may come before the turn |
| Turn input inbox, `runtime/src/turn_input.rs` | open flag, steering not taken yet | begin, admit, batch, seal, finish | steering that arrives as the turn ends |
| Turn loop, `runtime/src/conversation/turn.rs` | iteration, recovery budgets, abort signal | prompt commit, steering commit, request, recovery, settlement | pushes fail, streams drop, aborts land anywhere |
| Response and tool scheduler, `runtime/src/conversation/{response,tool_execution}.rs` | one phase per call, updates, results, how far they are saved | admit, advance, complete, cancel, persist | hooks change a call's class late; stages end in any order; saves fail |
| Background tasks, `runtime/src/background_tasks.rs` | tasks and parents, history, operation count, pause epoch, subscriber | register, update, stop, begin / wait / resume pause, close, inspect, clear | stop works outside the lock; workers admitted before a fence go on after it |
| Mailbox reader, `runtime/src/{mailbox,cursor_fence}.rs` | lease, register (holder, epoch, offset), batch being delivered | acquire, claim, poll, deliver, confirm, commit | frozen processes, lost answers, late writes, crashes |
| Abort signal, `runtime/src/hooks.rs` | flag and generation, the generation each response captured | abort, reset, is_aborted | reset is two stores and is_aborted two loads; blocking tools outlive their turn |
| Completion delivery, `runtime/src/subagent_completion*`, `engine-core/src/subagent_completion*` | journal of sources with reducer, context and ordinals; attempt in flight | begin, register, observe, commit, fail, publish, replay, suppress, purge, deliver, receipt | turns fail or are torn, journal writes fail, answers are lost or late, reads race publication |
| Interaction requests, `engine-core/src/session.rs`, `runtime/src/permissions.rs` | one table of requests per run, a shared id allocator, the prompt queue, the reported state | ask, answer, cancel_all, drop of a lease | answers racing a cancel or coming a turn late; background agents that keep an old table |
| Cron scheduler, `runtime/src/cron_*.rs` | the shared store of jobs, the scheduler lease, the list of a pass | tick, claim, fire, record, create, update, enable, remove, trigger | several processes and clients, crashes between claim, fire and record, values read before a write |
| Session persistence, `runtime/src/session*.rs` | transcript, heads | push, fork, compact | partial writes |
| Everything else (provider clients, MCP, configuration, permissions, rendering, plugins, VFS) | | | input and output, parsing, rendering |

### How they interact

There are two kinds of host. An ACP host submits inputs through the driver; the input service gives each one an
id and a receipt, and puts it in the queue or, while a turn can take it, in
the inbox. Between turns the driver leases the whole queue as one prompt and
starts the turn worker. The worker makes the prompt durable, then loops:
commit steering from the inbox, open a model request, run the response with
its tool calls, settle. Every durable push is reported back, which is when an
input leaves the engine's hands. The interactive terminal uses neither the input
service nor its lifecycle: it keeps a coordinator of its own, starts a turn with
`EngineCommand::Prompt` from a runner thread, sends what is submitted meanwhile
as `EngineCommand::Steer`, and learns from the engine's event stream what was
committed or refused. A tool call takes an operation lease from the
background task registry, and may leave a task there that outlives the turn;
a finished task comes back as one more input. A host that takes over the
machine pauses the registry, waits for it to be quiet, and resumes it later.
Peer agents write into a conversation that the mailbox reader tails; what it
delivers becomes input again. While a turn runs, its tools and the agents it
left behind ask the user through the run's request table; an answer, a cancel or
the end of the run lets them go. Sub-agents and background shells are registered
in the completion journal by the turn that starts them; when that turn has
committed and they have ended, their result is published and delivered to the
controller until it is acknowledged. The scheduler of one process at a time fires
due jobs into mailboxes or new sessions.

### What makes each part correct

* inputs: a receipt is a promise. An accepted input is applied exactly once or
  given back, whatever is cancelled, recalled, retried or dropped meanwhile;
* tool calls: a call that may not run beside others runs alone; every call the
  model made is answered once, in order, with what the tool really returned;
* background tasks: a granted pause is quiet until it is resumed; a stop
  reaches the whole family, including children that are still being born;
* reader cursor: the recorded position never passes a message the consumer has
  not taken, and a reader that lost its seat cannot move it back;
* requests and cancellation: an answer is given to the request it was meant for
  or to nobody; a cancel frees everyone who waits; the state shown to the host is
  true; a tool that was cancelled stays cancelled;
* completions: what is delivered is a finished result of a turn that committed;
  a result nobody has read is not lost, and each delivered one is settled;
* cron: each run fires once, though a process dies; a job a client removed or
  disabled is not brought back by an older copy; a due run does not wait for ever.

## 2. Modules

| Module | Models | Notes |
|---|---|---|
| `Orders` | order-preserving filters and sorts | two operators, `Kept` and `Ascending` |
| `TurnInputCoordinator` | `input_queue.rs` | the coordinator as a record and its methods as pure operators |
| `SessionInputs` | input service, driver, inbox, turn loop, in a session of an ACP host | composes the coordinator with its three users |
| `TerminalInputs` | the terminal's loop, runner and bridge, the driver with its `Steer` arms, inbox, turn loop | composes the terminal's coordinator with both sides of the command channel |
| `InputDelivery` | abstract specification | what a session promises about inputs; `SessionInputs` implements it |
| `ToolScheduler` | one response with its tool calls, up to the checkpoint | scheduler and `execute_response` |
| `BackgroundTasks` | the registry, pausing hosts, the close | Unix build |
| `ReaderCursor` | one mailbox conversation read by competing claims | three kinds of storage |
| `Interruption` | request tables, prompt queue, abort signal, and the driver, worker and host that use them | composes the two components that a cancel must reach |
| `CompletionDelivery` | completion journal, its observer, delivery to the controller | the task protocol |
| `CronScheduler` | scheduler processes, the store, its clients | crashes, failing writes, locks and reads |
| `Orders_proofs` | lemmas about the filters and sorts, used by the next modules | TLAPS |
| `*_proofs` for each component above but `TerminalInputs` | theorems | TLAPS |
| `MC*` | the module of each run, with symmetry sets where they are used | no definition of the models is replaced |

Names follow the code: an action is called after the function or the part of
it that it models, variables after the fields. Operators that end in a changed
word and are introduced by "Mutant:" are not part of any specification; each
is a plausible mistake at that place and shows that a property notices it.

### SessionInputs and TurnInputCoordinator

`coord` is the coordinator; `accepted` and `owner` are the receipts; `inbox` is
the shared inbox; `driver`, `worker`, `turn`, `prompt` and `batch` say where
the two threads are; `transcript` is the durable log. Each critical section of
the service's mutex is one step, and each stretch of the worker between two
points where another thread can act is one step. So a steering batch is
pushed (`PushInput`) and acknowledged (`EmitCommitted`) in different steps,
with a cancel, a flush or a recall possible in between. Commands are actions of
the driver: whichever order hosts send them in, it meets them one at a time,
between turns and during a turn. `SealInbox` is the atomic check that the
inbox is empty and may be closed; `RecoverStream` resets the abort signal as
the code does. A host operation may hold the lifecycle or prompt without it: `drive`
asks for none. A guard may be dropped under its running prompt, when the connection
goes (`ReleaseLifecycle` in "Prompting").

A session has one host, so no `Steer` command meets the input service: the driver's
`Steer` arms are in `TerminalInputs`.

The text of inputs, images, compaction and questions are left out. A
continuation of a dropped stream and a compaction retry are counted
(`MaxContinuations`, `MaxCompactions`) because they bound how often a turn may
go back.

### TerminalInputs

`coord` is the terminal's coordinator, with the same operators; `owner` says which
text an id stands for. `loop` is where the coordinator loop is, `events` its channel,
`runner` the thread of the turn with the texts it prompts, `commands` and `bridge` the
two channels between terminal and engine, `verdict` what the bridge has passed to the
runner. Each event of the loop is one action. Only the up-arrow hook locks
the coordinator from another thread; the loop is in a place of its own between two locks
("drain", "flush") where what the hook takes in between matters. The engine's side is
the driver (`TakePrompt`, `TakeSteer`, `TakeCancel`, `TakeClose`, `WorkerEnded`) and the
turn worker with fewer stages than in `SessionInputs`: the ones that touch the
inbox, the transcript or the abort signal. A prompt can be refused (`RunnerRefuses`,
`TakePrompt`), a turn can fail anywhere, and the texts of a prompt that never became
durable are dropped with it, as the code does. A `Queue` submit while the queue is
turned off is rejected and changes nothing, which is a stuttering step. `Steer` sends
fail only when the engine has gone, after the exit has begun.

### ToolScheduler

`phase` is the phase of each call, `parallel` its class, which a pre-hook may
change; `updates` is the scheduler's queue of updates and `observed` what the
observer was told. `pc` is where `execute_response` is in its select loop.
`NextAdmits` is one walk of `admit` over the calls, `Advance` the end of one
stage (hook, approval, tool, post-hook), in whatever order stages end.
`Cleanup` is `cancel`, and `PersistRest` and `Checkpoint` are the saves, each of
which may fail. The walk of `admit` is not recursive here: `Reached(i)` says
that every earlier call lets call `i` be looked at, and `HasSlot(i)` counts the
calls in flight.

### BackgroundTasks

`status`, `parent`, `history`, `operations`, `paused`, `pause_epoch` and
`closing` are the registry's fields; `view` is what a subscriber that adds up
the events it received would show. `stop` marks a family under the lock and
fires abort signals after it: `unsent` are the signals owed, `aborted` the ones
fired. `host` and `closer` are the callers of pause and close, whose sweeps over
the tasks are one step per task. A task is registered only by a tool worker
that holds an operation lease (`tools/src/lib.rs`, `runtime/src/bash.rs`,
`engine-host/src/tool_executor.rs`), hence the guard of `Register`. A resume may
come late, or twice, with an old epoch.

### ReaderCursor

A claim is one attempt to read with a fresh identity. It takes the lock, claims
the register, delivers and commits, and goes. The three values of `backend` are
the three cases of `CursorGuarantee`. A process may freeze at any point, so no
step but `Confirm` (which asks the storage) requires that the claim still has
the lock: what `HeldLease` believes was true when it looked. A conditional write
may be applied with its answer lost, be lost, or still be on its way (`late`)
and arrive after its claim has gone. Only messages addressed to the reader are
counted; the offset is the number of them.

### Interruption

A run is a turn or a direct tool call; each has a table of its own (`cancelled`,
`pending` and `queue` are indexed by run) and all share the id allocator
`next_id`. A waiter is a call of the response, a background agent that keeps the
prompter of its turn, or the worker itself while it waits for the host's context.
It queues for the input (`Enqueue`), publishes its request when it is first in
line (`Begin`), and goes when its oneshot resolves (`Resolve`) or its future is
dropped (`Abandon`), which is `RequestLease::drop`. The loop aborts the signal and
clears the table in two steps (`HandleInterrupt`, `CancelTable`), and both reset
and is_aborted are two steps, so a worker or a tool acts in between. Commands wait
in a channel, so an answer may be given in one run and met in the next. `req`
numbers the requests for the properties: `id` is the number the code uses. What
is asked and answered is left out; the host answers with the kind of answer it was
asked for.

### CompletionDelivery

`journal` is the durable state and each method of `CompletionJournal` is an operator
from journal to journal; `Change` is the locked write of the file, and where the
code goes on after a failed write the action has a second disjunct. A source is a
sub-agent or a shell, with the fields of `Source` and `TerminalSource` and, for a
sub-agent, its entry in the reducer (`worker`, `finished`). `turn`, `ending`,
`failure` and `terminal_retries` are the observer's; `flight`, `lost` and `stale`
are the attempt in flight and the ones given up whose answer may still come. A
crash is `Reopen`, with an engine or for control only. The number of an attempt is
abstracted to whether it is the current one, backoff to a delay, and the receipt's
dispositions to stored, wrong, unavailable and retry. `Purge` is an end.

Whether a call handed its child to the background is not an event: the journal reads it
back from the text the call returned, as JSON. `ObserveToolResult` therefore takes that
text, "background" or "other". "Other" is the result itself, an error, or a handoff whose
text a hook's feedback was added to (`runtime/src/conversation/tool_execution.rs:309`)
or an abort replaced. It makes the reducer forget a sub-agent, running or not, and leaves
a shell unpublished. `ObserveOther` is the result of any other tool and a read whose
text is not recognised.

### CronScheduler

Each read of the store and each locked read-modify-write is one step, so `create`,
`set_enabled`, `update` and `trigger` are two or three. `proc[p].due` is the list a
pass has read at its start. `lease` is the file lock, which the system releases when
its holder dies (`Crash`). A write may fail and nobody hears of it (`NotStored`). The
store's lock may fail too, and the change goes on without it: `UnlockedReads` takes a
copy of the store, and `UnlockedWrites` puts it back over whatever was stored since;
these two steps surround the change itself, which is one of the others. A create whose
registry could not read the file writes a store with the new job only (`CreateBlind`).
The file may hold armed jobs at the start. Time is a counter; a schedule is one of the
three kinds, with one interval. `wanted`, `fired`, `owed`, `refired`, `replaced` and
`undone` remember, for the properties, what clients asked for, which runs fired, which
claimed runs are still to be fired, which entries an unlocked or blind write replaced,
and whose claim did not last.

## 3. What TLC checks

| Run | Instance | Shows |
|---|---|---|
| `session_inputs` | one person, a task, a host operation, three inputs, one continuation, one compaction | `OwnedOnce`, `OncePerClient`, `SteeringHasCarrier`, `LifecycleExcludesLease`, `CancelDoesNotRestart`; `ImplementsDelivery`: the session implements `InputDelivery`; `EventuallyApplied` |
| `terminal_inputs` | two typed texts, one reported by a machine, two ids, one Esc or Ctrl+C | `TerminalOwnsOnce`, `SteeringInFlight`, `CancelReachesTurn`, `InputsSettle` |
| `tool_scheduler` | four calls, two at a time | `OrderFence`, `NeverStuck`, `OutputPreserved`, `ObservedOnce`, `ResultsInOrder`, `ResponseEnds` |
| `background_pause` | two tasks, two hosts, two pauses, one operation at a time, history of one | `GrantedIsQuiet`, `SweepReachesAll`, `StopIsSignalled`, `NoRunningOrphan`, `SinkMirrorsRegistry` |
| `background_live` | two tasks, one host, one pause | `PauseDrains`, `CloseDrains` |
| `reader_cursor` | three claims, two messages, every backend | `OneReader`, `NothingSkipped`, `CursorNeverMovesBack`, `OnlyNewestClaimWrites` |
| `completion_delivery` | a sub-agent and a shell, two turns | `PublishedIsQualified`, `ReceiptIsForItsCompletion`, `NothingDropped`, `NotOvertaken`, `Delivered` |
| `interruption` | one call, one agent, the worker, one blocking tool, two runs, three requests, one continuation | `AnswersReachTheirRequest`, `ReportedInputIsOwned`, `CancelReleasesWaiters`, `NoReviving` |
| `cron_scheduler` | one job, two processes, two clients, two operations, one fault | `RunFiresOnce`, `NothingRevived`, `DueIsHandled` |
| `cancel_lost` | one person, one input | a violation, see section 6 |
| `completion_blocked` | as `completion_delivery` | a violation, see section 6 |
| `cron_trigger` | one cron job, two processes, two clients, no fault | a violation, see section 6 |

Type invariants are not among them: those of `SessionInputs`, `ToolScheduler`,
`BackgroundTasks`, `ReaderCursor`, `CompletionDelivery` and `CronScheduler` are proved.
`Interruption` and `TerminalInputs` state their own as documentation of their state.
`SerialAlone`, which follows from `OrderFence`, and `InboxIdleOutsideTurn`, a part of the
invariant behind `SteeringHasCarrier`, are proved as well.

**Bounds.** Three inputs are enough for one to be in the transcript, one in the
engine's hands and one in the queue behind it, which is what reordering, partial
failure of a batch and duplicate submission need; a retry and a recalled and
resubmitted input use the same client id and a new id. One host operation suffices
for a hold, a refused guard (while a leased turn runs) and a prompt without the
lifecycle; that another operation's guard does not end a hold is left to the proof, which
bounds no set. In the terminal, two ids are a text that is steered or queued twice, while a
third may be the prompt itself, which has no id; one Esc or Ctrl+C may fall at
any step. Four calls with two slots
let a serial call sit between parallel ones with more calls than slots on
either side. Two tasks are a parent and a late child; three add a grandchild or
a sibling whose arrival evicts from a history of one. Two pauses are an old
epoch and the current one. Three claims are a frozen one, the one that overtook
it and one more that takes over from that. Two turns are the one that started a
child and a later one that reads its result, commits over it or fails; the two
children are of both kinds and may be published in either order. Two runs are the
one whose prompts are left over and the next; three requests let a call, an agent of
the first run and one more meet in the second, and one command in the channel is
enough, since it may wait there for any time. Two processes are the holder
of the lease and the one that takes over; two operations of two clients let each
kind overlap with a pass and with another, and the fault (`MaxFaults` counts deaths of
processes and clients and failed writes, locks and reads of the store) falls at any step.
With one job a blind create replaces nothing: that case is covered by the proof, which is
for any jobs. Claims, tasks and hosts are interchangeable where symmetry is used; no
liveness property is checked with symmetry.

**Deadlock** is checked wherever the model cannot simply finish. It is switched
off in `background_live`, where a closed registry with nothing left to do is an
end, in `reader_cursor`, where claims run out, and in the runs of `Interruption`,
`CompletionDelivery` and `CronScheduler`, which end when the session is closed, the
journal purged, or the clock and the clients have used their bounds.

**Fairness.**

* `session_inputs`: the driver's loop, the worker's thread, the installation of the
  watch and a task's report are weakly fair, since each is a thread or a task the
  runtime keeps scheduling. For the driver this stands for the `Notify` that wakes it:
  the run would not find a lost notification. A host gives the lifecycle back because
  its guard is dropped with the operation. Strong fairness of `SettleFinal` is an assumption
  about the provider: a model that answers with tool calls for ever never ends
  its turn, and the code puts no bound on that.
* `terminal_inputs`: the coordinator loop, the runner, the bridge, the driver and the
  worker are threads and run (weak fairness of each); what is typed and reported is left
  open. Strong fairness of `RespondFinal` is the same assumption about the provider.
* `tool_scheduler`: the loop's task is scheduled. That the stream delivers or
  fails, and that hooks, approvals and tools answer, are assumptions about the
  outside world: an approval nobody gives does hold the turn, until an abort.
* `background_live`: workers end, owed signals are fired, sweeps go on, and a task
  that has been signalled ends (a shell is killed, an agent polls its signal). A
  task that has not been signalled may run for ever, which is why the two
  properties say something about the sweeps and the inheritance of stops. The three
  seconds that `shutdown` waits at most are not modelled.
* `completion_delivery`: the delivery's timer, the end of a turn and the retry of the
  journal are weakly fair, being timers and threads of the engine. That an attempt
  gets through, that the controller answers it and that storage takes a write, each
  again and again if it is tried again and again, are assumptions about the outside
  world (strong fairness); any finite number of losses and failures is allowed.
* `cron_scheduler`: the scheduler thread of each process runs (weak fairness of its
  steps). Clients, crashes and the clock owe nothing.

## 4. What is proved

`ToolScheduler_proofs`, for every number of calls and every limit:

* `TypeCorrect`: `TypeOK` is invariant;
* `FenceHolds`: `OrderFence` is invariant. `OrderFence` is inductive together
  with `TypeOK`. The argument is that a call becomes late (approved or running)
  only in a walk that finds every earlier call classified and either complete or
  parallel; a later step can turn only a call that is still being prepared into
  a serial one, and such a call has no late call behind it;
* `SerialCallsRunAlone`: `SerialAlone` follows, since of two late calls the later
  one sees the earlier one unfinished;
* `OutputIsPreserved` (`OutputPreserved`) and `EachIsObservedOnce` (`ObservedOnce`),
  from `CallsInv`. What the observer was told and the updates still queued are one
  sequence, `Told`: nothing in it is repeated, and what it says of a call fits the
  call's phase (`ToldInv`). A complete call has its answer, or the answer is in
  that sequence (`AnswerInv`), and it is the tool's own if and only if it ran
  (`CallInv`);
* `ResultsAreInOrder` (`ResultsInOrder`), from `LogInv`: what is saved are the first
  calls, all with a result, and saving begins when the queue of updates is empty;
* `LoopIsNeverStuck` (`NeverStuck`). A walk of `admit` that leaves nothing to wait
  for would have to leave the first unfinished call neither admitted nor under way;
  `FirstLive` names that call, `QueueInv` (queued calls come last) puts it in the
  reach of the walk, and `PollInv` carries the result to the wait.

`ReaderCursor_proofs`, for any set of claims and any number of messages:

* `ReaderTypeCorrect`, `DeliveredBeforeRecorded` (`NothingSkipped`),
  `FencedReaderIsAlone` (`OneReader`), `PositionNeverMovesBack`
  (`CursorNeverMovesBack`) and `NewestClaimWrites` (`OnlyNewestClaimWrites`).

None of the last four is inductive. The invariant `IInv` adds what makes them
so. `VersionsExist`: nobody knows a version before it exists, so a write that
lands makes every version known so far an old one. `CurrentIsKnown`: with
conditional writes a claim whose token is the current version knows exactly what
is stored, and a late write that can still land moves the position and the epoch
on. `HolderIsAlone`: with a lasting lock the claim that holds it is the only one
and knows the position. `BatchIsAhead`: a batch lies past the reader's offset.
`PositionsAreTaken`: every position that is stored, on its way or in a reader's
hands has been taken up to. `StepsFitBackend` rules out steps of another backend.
TLC checked `IInv` on the instance of `reader_cursor` for each backend before it
was proved. `WritesMoveOn` then shows that each of the four places that write the
register moves it on, and the two action properties follow.

`Interruption_proofs`, for any calls, agents, blocking tools and bounds:

* `AbortedStaysAborted` (`NoReviving`). The action property rests on `SignalInv`:
  no view is of a generation to come (`NotAhead`); between the two stores of a
  reset every live view is of an older generation (`ResetEndsViews`), which is
  why lowering the flag revives none; and a reading that began on an aborted
  view is of an older generation (`ReadingFinds`), so its second load finds it.
  `OthersLeaveViews` shows once that every other step only ever raises the flag;
* `AnswersAreRouted` (`AnswersReachTheirRequest`). Not inductive alone: `TableInv`
  adds that an id names one request in every event and to its waiter, and is
  below the allocator (`IdsNameRequests`), that the waiter of an entry waits for
  exactly that id (`EntriesAreAwaited`), that an answer on its way echoes an event
  the host was shown (`AnswersAreShown`), and that requests are made in a run
  (`AskedInRun`). One lemma per kind of step (asking, going, resting, sending,
  answering, passive) keeps it; `TableStep` sorts the actions into them. The
  shared allocator is what the argument needs: with one per table a late answer
  would meet a new request under its id.

* `ReportedIsOwned` (`ReportedInputIsOwned`) and `CancelLetsGo`
  (`CancelReleasesWaiters`), from `TableInv` and `PromptInv`. The table of a run
  that is over is cancelled (`RunsOver`) and a cancelled table has no entry
  (`Surface`), so every entry is of the current run (`EntriesAreCurrent`). A prompt
  that has an entry is the first of its queue (`Surface`), and those in a queue
  stand in it once, asked there, and are none of them the worker (`Queues`): so there
  is one owner at a time, the state changes with it, and whoever leaves from
  further back (`LeavingQueue`, with `KeptHead` of `Orders_proofs`) changes
  neither. `HostRequest` covers the worker, which asks outside the queue.

`BackgroundTasks_proofs`, for any finite set of tasks, any hosts and bounds:

* `StopsAreSignalled` (`StopIsSignalled`), `StopReachesChildren` (`NoRunningOrphan`)
  and `SinkIsFaithful` (`SinkMirrorsRegistry`), from `TaskInv`, which adds that a
  running task was registered after its parent (`ParentsCameFirst`): so a parent
  that stops finds its children, and a child that comes later finds it stopping;
* `SweepMissesNone` (`SweepReachesAll`) and `GrantMeansQuiet` (`GrantedIsQuiet`), from
  `FenceInv`: while a sweep is under way whoever runs is still before it
  (`SweepsFind`), because what registers behind the fence of a current pause or of
  the close is stopped at once; a request's epoch exists (`EpochsExist`), so
  an old one cannot lower the fence of a newer one; and the fence of the close stays
  up (`CloseIsFenced`);
* `TypesKept` (`TypeOK`).

`CronScheduler_proofs`, for any processes, clients, kinds and bounds and any finite
set of jobs:

* `NoneRevived` (`NothingRevived`), with `StoredAreMinted` (ids are given out before
  they are stored): every locked change starts from the file (`Reloaded`), so an older
  copy of a job decides its time and its kind and never whether it exists or is
  enabled. The exception are the jobs in `replaced`;
* `FiresOnce` (`RunFiresOnce`), from `RunInv`. A run is a job, an arming and a due
  time. One process at a time goes through passes (`LeaseIsHeld`); what was fired is
  past in the store, unless its claim was undone (`FiredArePast`: the entry has a
  later arming or a later time); and a pass knows that the runs still before it
  are due, differ and have not been fired, and that the one it claimed is past
  (`PassOK`). Unlocked and blind writes put the jobs they change in `undone`. A crash
  between claim and fire loses a run and repeats none;
* `StoreTypeCorrect` (`TypeOK`), with what passes and clients have read
  (`PassHasJobs`, `ClientHasRead`).

`SessionInputs_proofs`, for any people, peers, tasks, hosts and any number of
inputs, continuations and compactions:

* `SessionTypeCorrect`, `InboxIsIdle` (`InboxIdleOutsideTurn`), `LifecycleIsExclusive`
  (`LifecycleExcludesLease`) and the action property `CancelledStaysPaused`
  (`CancelDoesNotRestart`), from `ControlInv`: where driver, worker, turn and inbox
  are, together (`TurnControl`), and the lifecycle's own property, which is inductive
  with them: a hold is the operation's from its acquisition until its guard is dropped,
  whoever prompts meanwhile;
* `InputsOwnedOnce` (`OwnedOnce`), `ClientsLoggedOnce` (`OncePerClient`) and
  `SteeringIsCarried` (`SteeringHasCarrier`), from `ControlInv` and `FlowInv`. The
  queue, the engine, the transcript and the editor share out the ids, and only an
  input that is durable and not yet acknowledged is in two hands (`Parties`); no
  queue repeats an input (`Distinct`); an input not taken back is the one
  its client's receipt names (`Receipts`), which is why a retry cannot be logged
  twice; the engine's inputs are in the inbox, the prompt or being
  acknowledged (`Carriers`), with what the batch is at each stage of the worker
  (`BatchStages`). The session's actions do eleven things to inputs (`FlowKind`): each
  action is shown to be of one kind (`FlowKinds`), and each kind to keep the
  invariant;
* `SessionImplementsDelivery` (`ImplementsDelivery`): under the same invariants every
  step of the session is a step of `InputDelivery` or leaves its variables alone.

`CompletionDelivery_proofs`, for any finite sets of sub-agents and shells and any
number of turns:

* `PublishedWithEvidence` (`PublishedIsQualified`), `ReceiptsAreTheirs`
  (`ReceiptIsForItsCompletion`), `NoResultDropped` (`NothingDropped`) and
  `DeliveryTypeCorrect`, from `Inv`. `JournalInv` says it of a journal, so that it can
  be said of what a write left and of what a crash finds: turns are numbered in
  order and a source is closed only when its turn is (`Numbered`); a source's fields
  have the evidence they stand for (`Evidence`, `Answered`); and the journal forgets
  a worker or a read only when the result is published, was returned or read, or the
  turn failed, or because the text of the spawning call was no handoff (`AgentKept`,
  `TerminalKept`). `EngineInv` ties the processes
  around it to the journal;
* the action property `NoneIsOvertaken` (`NotOvertaken`), with `OrderInv`: the
  completion that was sent last comes before all that are pending, while it is
  pending itself.

`Orders_proofs` has what these proofs use of sequences: what a filter, an append or a
removal of the first leaves, that it repeats nothing, and that a filter which keeps
the first element keeps it first.

The assumptions are those named in the modules: the numbers are naturals, limits and
intervals are positive, "nobody" is no actor, the parties are disjoint (people, peers
and tasks; calls, agents and the worker; sub-agents and shells), and the sets of
tasks, jobs and sources are finite. No proof bounds the number of actors.

**Only model-checked.** The liveness properties, because they need fairness and
ENABLED: `EventuallyApplied`, `InputsSettle`, `ResponseEnds`, `PauseDrains`, `CloseDrains`,
`Delivered` and `DueIsHandled`. The three invariants of `TerminalInputs`. Every other
property of a passing run is proved. The type
invariant of `Interruption` is proved in parts only (`SignalType`, `TableType`,
`SurfaceType`): its bounds on ids would need a count of the queued requests.
`PositionNeverMovesBack` says nothing about a storage with expiring leases and
plain writes: there the code promises only at-least-once delivery, which
`DeliveredBeforeRecorded` covers.

## 5. What is not modelled

* Text: prompts, formatting, compaction's choice of what to keep, parsing of
  envelopes, usage accounting. No property here depends on it.
* Compaction and context restarts inside a turn, apart from the number of
  retries; slash commands, model switching, direct tool calls outside a turn
  (`run_tool_call`), context actions. The driver's third `Steer` arm is there
  (`engine-core/src/session.rs:907`); it answers `InputDeferred`, as the arm between
  turns does, and the terminal sends no direct tool call.
* Of the terminal: its slash commands, questions and rendering, the non-interactive
  paths (one prompt and its answer), and a `Steer` that cannot be sent, which happens
  only once the engine has gone.
* Persistence below "a push or a journal write succeeds or fails"; the mailbox's
  sending side and receiver seat; the service supervisor; worker boot. They are the
  plan's next modules.
* Completions: the legacy protocol without tasks, the volatile path without a
  journal, capacity limits, digests and the context a prompt expects. Cron: cron
  expressions and time zones, retry counters (written, never read), the foreground
  command that runs one pass under the same lease.
* Most of the repository's lines are of this kind: of some 194,000 lines of
  implementation the tools, the command line, the provider clients, MCP,
  configuration and plugins make up more than nine tenths, and they are parsing,
  formatting, rendering and input or output, without a protocol of their own
  between concurrent parties. The models cover the code in which there is one.
* The `ExecutionUnconfirmed` status of Windows builds, which registers a task that is
  not active (`runtime/src/bash.rs:996-1011`).
* Provider clients, MCP transports, configuration, rendering, plugins, VFS: input
  and output around the parts above.

`PROJECT.json` lists every component with its status, the hazards this code is
exposed to with the properties that cover them, and the lines each definition
models.

## 6. Disagreements between code and documentation

* `cancel_lost`. `docs/usage.md:111` says "Ctrl+C always cancels." After a dropped
  stream `recover_turn_stream` resets the session's abort signal
  (`runtime/src/conversation/turn.rs:588`) before it tries again. A cancel that
  lands between the failure and the reset is erased, and the turn opens another
  model request.
* `completion_blocked`. `docs/acp.md:1055` says "uncommitted parent evidence is
  `source_context_unconfirmed`". `reconcile` (`runtime/src/subagent_completion.rs:779`)
  looks at the last context of the session: after a failed turn there is none, and a
  replay marks every open source, also those of turns that committed before.
* `cron_trigger`. `docs/usage.md:814` says "a lock ensures one of them fires each run".
  `trigger` (`runtime/src/cron_scheduler.rs:198`) does not take the lease, and writes
  the next run it read at its start back after firing. If the scheduler claimed that
  run meanwhile, the claim is undone and the run fires again.

Met while modelling, and not claims of any document: a direct prompt while the
queue is Paused runs with `is_running` false; a recall that empties a Paused queue
leaves it Paused; a child registered after its parent's record was evicted, or
under a parent that is not stopping below a grandparent that is, does not inherit
the stop; two pause requests share one epoch, as `docs/acp.md` describes, so one
host's resume ends the other's pause; steering that a turn did not apply goes behind
inputs submitted after it (`input_queue.rs:299`), so a lease, which
`session_inputs.rs:381` calls a FIFO batch, is in queue order and not in the order of
submission. A failed turn publishes nothing, so results of earlier turns wait for the
next change of the journal; a sub-agent's result that is read in a turn that
then fails counts as read, unlike a shell's; a failed write of `fail_turn` leaves the
trace active until the journal is opened again. A job whose next run is unset is
never armed by the scheduler, though `cron_registry.rs:102` says the scheduler
computes it: a creator that dies before `arm`, or a trigger of a one-shot, leaves an
enabled job that never fires; `update` reads outside the lock and may write an old
kind or schedule back over another client's (`cron_service.rs:104`, though `:85` says
that absent fields keep their value); a record writes the next run of its claim over a
client's re-arm (`cron_scheduler.rs:183`), which is why `NothingRevived` is about
existence and being enabled and not about the time; a process that dies between claim
and fire loses the run, which `DueIsHandled` excepts; a store whose lock or
read fails is replaced by an older or an almost empty copy
(`cron_registry.rs:161`, `:443`), which the properties except by name (`replaced`,
`undone`); a pass that claims a one-shot disables
it though a client re-scheduled it meanwhile; whether a run was missed is judged by
the start of the pass. An answer of the wrong kind takes the request's sender and
drops it, which denies the request. A handoff whose text a hook's feedback was added
to is not recognised (`runtime/src/subagent_completion.rs:63`): the sub-agent is
forgotten while it runs and the commit settles its source with a result nobody has
read; a shell in the same place is never published. `NothingDropped` names these
sources as its exception.

## 7. Plan

Order of work, most important behaviour first. Items marked done are in this
directory.

1. Inputs from admission to transcript, with their abstract specification (done).
2. The tool calls of a response (done, proved).
3. Background tasks, pause and close (done, proved).
4. Reader lease and cursor fence (done, proved).
5. Completion delivery: journal, attempts, receipts, retry (done, proved).
6. Interaction requests with the abort signal and its generation (done, proved).
7. Cron scheduler: claim before fire, one lease, missed runs (done, proved).
8. `SessionInputs`: its invariants and the refinement of `InputDelivery` (done, proved).
9. The terminal's own queue and the `Steer` command, `TerminalInputs` (done, checked).
10. Proofs of the invariants of `TerminalInputs`, and the whole type invariant of
    `Interruption`, from a count of the queued requests.
11. Session persistence: heads, locks and forks, refining the atomic push used in
    `SessionInputs`.
12. Mailbox sending and the receiver's seat; the service supervisor; worker boot.
