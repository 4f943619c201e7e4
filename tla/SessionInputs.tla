---------------------------- MODULE SessionInputs ----------------------------
(***************************************************************************)
(* One engine session's inputs, from admission to the transcript, in a     *)
(* session whose host uses the input service (EngineCommand::Input: the    *)
(* ACP server).  A session has one host; the terminal, the other one,      *)
(* keeps a coordinator of its own and sends EngineCommand::Steer: that     *)
(* session, with the driver's Steer arms, is TerminalInputs.               *)
(*                                                                         *)
(* Three parties share the state.  The driver (engine-core/src/session.rs, *)
(* drive and run_one_turn) handles the host's commands one at a time and   *)
(* starts turns.  The turn worker (runtime/src/conversation/turn.rs) runs  *)
(* on another thread, reads the inbox (runtime/src/turn_input.rs) and      *)
(* reports what it made durable.  Task producers report finished           *)
(* background tasks from threads of their own.  Every access to the        *)
(* coordinator is one critical section of SessionInputs'                   *)
(* mutex (engine-core/src/session_inputs.rs), hence one step here.         *)
(*                                                                         *)
(* The command channel is not a variable: whatever order commands are      *)
(* sent in, the driver meets them one by one, so each command is an action *)
(* the driver may take when it next receives.  A refused command changes   *)
(* nothing and is a stuttering step.                                       *)
(***************************************************************************)
EXTENDS TurnInputCoordinator, FiniteSets

CONSTANTS
    Humans,             \* client ids of inputs a person submits
    Peers,              \* client ids of inputs a peer agent submits
    Tasks,              \* client ids "background:<task>" of finished tasks
    Hosts,              \* host operations that take the lifecycle, by token
    NoOne,              \* no client, no host
    MaxContinuations,   \* MAX_STREAM_CONTINUATIONS
    MaxCompactions      \* MAX_TURN_COMPACTIONS

ASSUME ClientsAssumption ==
    /\ Humans \cap Peers = {} /\ Humans \cap Tasks = {} /\ Peers \cap Tasks = {}
    /\ NoOne \notin Humans \cup Peers \cup Tasks \cup Hosts
ASSUME LimitsAssumption == MaxContinuations \in Nat /\ MaxCompactions \in Nat

Submitters == Humans \cup Peers
Clients == Submitters \cup Tasks

VARIABLES
    coord,          \* State.queue, the coordinator
    accepted,       \* State.accepted: client id -> input id, 0 when absent
    owner,          \* input id -> client id of its receipt
    recalled,       \* history: ids handed back to the editor
    native,         \* State.native: the host uses session-owned inputs
    watched,        \* State.background_watched: the task sink is installed
    finished,       \* external: background tasks that have ended
    lifecycle,      \* State.lifecycle_held: who holds it, are inputs admitted
    host,           \* external: where each host operation is
    inbox,          \* TurnInputInbox.state: open, pending
    driver,         \* where the driver is
    shutdown,       \* Close or a disconnect was received during the turn
    turn,           \* what the current turn runs
    prompt,         \* ids whose text is the current turn's prompt, in order
    worker,         \* where the turn worker is
    batch,          \* ids the worker still has to announce or to commit
    continuations,  \* stream_continuations of the current turn
    compactions,    \* compaction.count of the current turn
    aborted,        \* the session's abort signal
    stopRequested,  \* history: the running turn has been cancelled
    transcript      \* ids in the durable transcript, in order

budgetVars == <<continuations, compactions>>
clientVars == <<accepted, owner, recalled, native, watched, finished>>
hostVars == <<lifecycle, host>>
turnVars == <<shutdown, turn, prompt, worker, batch, budgetVars, stopRequested>>
vars == <<coord, clientVars, hostVars, inbox, driver, turnVars, aborted, transcript>>

ClosedInbox == [open |-> FALSE, pending |-> <<>>]
NoHold == [holder |-> NoOne, allow_inputs |-> TRUE]
Ended == {"complete", "cancelled", "failed"}
DirectTurns == {"prompt", "management"}

TypeOK ==
    /\ coord \in Coordinator
    /\ accepted \in [Clients -> 0..MaxInputs]
    /\ owner \in [Ids -> Clients \cup {NoOne}]
    /\ recalled \subseteq Ids
    /\ native \in BOOLEAN /\ watched \in BOOLEAN
    /\ finished \subseteq Tasks
    /\ lifecycle \in [holder : Hosts \cup {NoOne}, allow_inputs : BOOLEAN]
    /\ host \in [Hosts -> {"Waiting", "Holding", "Prompting", "Answered", "Refused", "Gone"}]
    /\ inbox \in [open : BOOLEAN, pending : Seq(Ids)]
    /\ driver \in {"select", "starting", "turn", "closed"}
    /\ shutdown \in BOOLEAN
    /\ turn \in {"none", "leased"} \cup DirectTurns
    /\ prompt \in Seq(Ids)
    /\ worker \in {"none", "prepare", "announce", "loop", "commit", "push", "emit",
                   "request", "stream", "recover", "settle", "seal", "finish"} \cup Ended
    /\ batch \in Seq(Ids)
    /\ continuations \in 0..MaxContinuations /\ compactions \in 0..MaxCompactions
    /\ aborted \in BOOLEAN /\ stopRequested \in BOOLEAN
    /\ transcript \in Seq(Ids)

Init ==
    /\ coord = NewCoordinator
    /\ accepted = [c \in Clients |-> 0]
    /\ owner = [i \in Ids |-> NoOne]
    /\ recalled = {}
    /\ native = FALSE /\ watched = FALSE
    /\ finished = {}
    /\ lifecycle = NoHold
    /\ host = [h \in Hosts |-> "Waiting"]
    /\ inbox = ClosedInbox
    /\ driver = "select"
    /\ shutdown = FALSE
    /\ turn = "none" /\ prompt = <<>>
    /\ worker = "none" /\ batch = <<>> /\ continuations = 0 /\ compactions = 0
    /\ aborted = FALSE /\ stopRequested = FALSE
    /\ transcript = <<>>

-----------------------------------------------------------------------------
(* The driver's commands.                                                  *)

(* The driver takes a command between turns and while a turn runs, until   *)
(* Close; after an input command it first installs the task watch.         *)
BetweenTurns == driver = "select"
DuringTurn == driver = "turn" /\ ~shutdown
Receptive == (BetweenTurns \/ DuringTurn) /\ (native => watched)

(* TurnInputInbox: each method is one critical section of its own mutex.   *)
InboxBegins == inbox' = [inbox EXCEPT !.open = TRUE]
InboxAdmits(ids) == inbox' = [inbox EXCEPT !.pending = @ \o ids]
InboxCommits(id) ==
    \E rest \in Kept(inbox.pending, Ids \ {id}) : inbox' = [inbox EXCEPT !.pending = rest]
InboxSeals == inbox.pending = <<>> /\ inbox' = [inbox EXCEPT !.open = FALSE]
InboxFinished == inbox' = ClosedInbox

(* Submit, Flush and FlushOrCancel are refused under an exclusive hold.    *)
InputsAdmitted == lifecycle.allow_inputs

(* State.admit: the inbox takes every input or none; refused inputs, all   *)
(* just moved to steering, are deferred to the back of the queue.          *)
Admit(c, ids) ==
    IF inbox.open
    THEN /\ coord' = c
         /\ InboxAdmits(ids)
    ELSE /\ coord' = defer(c, ids)
         /\ UNCHANGED inbox

(* State.submit of a client id that is not accepted yet.                   *)
AcceptNew(c, steering) ==
    LET base == IF c \in Humans /\ steering THEN resume(coord) ELSE coord
        id == coord.next_id + 1
    IN  /\ coord.next_id < MaxInputs
        /\ IF steering /\ can_deliver(base)
           THEN Admit(steer(identify(base), id), <<id>>)
           ELSE coord' = enqueue(identify(base), id) /\ UNCHANGED inbox
        /\ accepted' = [accepted EXCEPT ![c] = id]
        /\ owner' = [owner EXCEPT ![id] = c]

(* InputAction::Submit.  A client id seen before returns its old receipt.  *)
(* Mutant of it: the receipts are not looked up.                           *)
SubmitAnyway(c, steering) ==
    /\ Receptive /\ InputsAdmitted
    /\ native' = TRUE
    /\ AcceptNew(c, steering)
    /\ UNCHANGED <<recalled, watched, finished, hostVars, driver, turnVars, aborted,
                   transcript>>
Submit(c, steering) ==
    /\ Receptive /\ InputsAdmitted
    /\ native' = TRUE
    /\ \/ /\ accepted[c] = 0
          /\ AcceptNew(c, steering)
       \/ /\ accepted[c] # 0
          /\ UNCHANGED <<coord, inbox, accepted, owner>>
    /\ UNCHANGED <<recalled, watched, finished, hostVars, driver, turnVars, aborted,
                   transcript>>

(* InputAction::Flush and FlushOrCancel: pending input resumes the session *)
(* and enters the running turn; FlushOrCancel with nothing pending cancels *)
(* a running turn.                                                         *)
FlushPending ==
    LET base == resume(coord)
    IN  /\ has_pending_input(coord)
        /\ IF can_deliver(base)
           THEN Admit(flush(base), base.queue)
           ELSE coord' = base /\ UNCHANGED inbox
        /\ UNCHANGED <<aborted, stopRequested>>

CancelEmpty ==
    /\ ~has_pending_input(coord)
    /\ is_running(coord)
    /\ coord' = cancel_turn(coord)
    /\ aborted' = TRUE
    /\ stopRequested' = TRUE
    /\ UNCHANGED inbox

Flush(or_cancel) ==
    /\ Receptive /\ InputsAdmitted
    /\ native' = TRUE
    /\ \/ FlushPending
       \/ or_cancel /\ CancelEmpty
       \/ /\ ~has_pending_input(coord)
          /\ ~(or_cancel /\ is_running(coord))
          /\ UNCHANGED <<coord, inbox, aborted, stopRequested>>
    /\ UNCHANGED <<accepted, owner, recalled, watched, finished, hostVars, driver,
                   shutdown, turn, prompt, worker, batch, budgetVars, transcript>>

(* InputAction::Recall: every queued human input goes back to the editor   *)
(* and its client id may be submitted again.                               *)
Recall ==
    LET humans == {i \in Range(coord.queue) : owner[i] \in Humans}
    IN  /\ Receptive
        /\ native' = TRUE
        /\ \E rest \in Kept(coord.queue, Ids \ humans) : coord' = recall_human(coord, rest)
        /\ accepted' = [c \in Clients |->
                           IF \E i \in humans : owner[i] = c THEN 0 ELSE accepted[c]]
        /\ recalled' = recalled \cup humans
        /\ UNCHANGED <<owner, watched, finished, hostVars, inbox, driver, turnVars,
                       aborted, transcript>>

(* InputAction::AcquireLifecycle from a host operation.  A refused guard   *)
(* is dropped too, so it also sends its release.                           *)
AcquireLifecycle(h, allow) ==
    LET busy == lifecycle.holder # NoOne \/ is_running(coord)
    IN  /\ Receptive
        /\ host[h] = "Waiting"
        /\ host' = [host EXCEPT ![h] = IF busy THEN "Refused" ELSE "Holding"]
        /\ lifecycle' = IF busy THEN lifecycle
                        ELSE [holder |-> h, allow_inputs |-> allow]
        /\ UNCHANGED <<coord, clientVars, inbox, driver, turnVars, aborted, transcript>>

(* InputAction::ReleaseLifecycle: only the holder's token releases.  The   *)
(* guard is dropped when the operation is over, or under its running       *)
(* prompt when the connection goes.                                        *)
ReleaseLifecycle(h) ==
    /\ Receptive
    /\ host[h] \in {"Holding", "Prompting", "Answered", "Refused"}
    /\ host' = [host EXCEPT ![h] = "Gone"]
    /\ lifecycle' = IF lifecycle.holder = h THEN NoHold ELSE lifecycle
    /\ UNCHANGED <<coord, clientVars, inbox, driver, turnVars, aborted, transcript>>

(* EngineCommand::Cancel.  Between turns it pauses whatever is queued.     *)
Cancel ==
    /\ Receptive
    /\ \/ /\ is_running(coord)
          /\ coord' = cancel_turn(coord)
       \/ /\ ~is_running(coord) /\ has_pending_input(coord)
          /\ \E s \in InIdOrder(coord.steering) :
                coord' = finish_turn(cancel_turn(coord), s)
       \/ /\ ~is_running(coord) /\ ~has_pending_input(coord)
          /\ UNCHANGED coord
    /\ aborted' = TRUE
    /\ stopRequested' = (driver = "turn")
    /\ UNCHANGED <<clientVars, hostVars, inbox, driver, shutdown, turn, prompt, worker,
                   batch, budgetVars, transcript>>

(* EngineCommand::Close, or every command sender dropped.                  *)
Close ==
    /\ Receptive
    /\ IF driver = "turn"
       THEN shutdown' = TRUE /\ aborted' = TRUE /\ UNCHANGED driver
       ELSE driver' = "closed" /\ UNCHANGED <<shutdown, aborted>>
    /\ UNCHANGED <<coord, clientVars, hostVars, inbox, turn, prompt, worker, batch,
                   budgetVars, stopRequested, transcript>>

-----------------------------------------------------------------------------
(* Starting and ending a turn.                                             *)

(* next_prompt: between turns, with no hold, the whole queue is leased as  *)
(* one prompt; the coordinator keeps ownership until it is committed.      *)
(* Mutant of it: a host operation does not hold the lease back.            *)
NextPromptUnheld ==
    /\ driver = "select" /\ (native => watched)
    /\ can_start(coord) /\ has_idle_queue(coord)
    /\ coord' = start_turn(flush(coord))
    /\ prompt' = coord.queue
    /\ turn' = "leased"
    /\ driver' = "starting"
    /\ UNCHANGED <<clientVars, hostVars, inbox, shutdown, worker, batch, budgetVars,
                   stopRequested, aborted, transcript>>
NextPrompt ==
    /\ driver = "select" /\ (native => watched)
    /\ lifecycle.holder = NoOne
    /\ can_start(coord) /\ has_idle_queue(coord)
    /\ coord' = start_turn(flush(coord))
    /\ prompt' = coord.queue
    /\ turn' = "leased"
    /\ driver' = "starting"
    /\ UNCHANGED <<clientVars, hostVars, inbox, shutdown, worker, batch, budgetVars,
                   stopRequested, aborted, transcript>>

(* EngineCommand::Prompt or Management from a host operation: it carries   *)
(* text of its own, no queued input.  drive asks for no lifecycle: the     *)
(* operation may hold it or never have asked.                              *)
DirectPrompt(h) ==
    /\ Receptive /\ driver = "select"
    /\ host[h] \in {"Waiting", "Holding"}
    /\ host' = [host EXCEPT ![h] = "Prompting"]
    /\ turn' \in DirectTurns
    /\ prompt' = <<>>
    /\ driver' = "starting"
    /\ UNCHANGED <<coord, clientVars, lifecycle, inbox, shutdown, worker, batch,
                   budgetVars, stopRequested, aborted, transcript>>

(* The host operation whose prompt has ended may release.                  *)
PromptAnswered ==
    host' = [h \in Hosts |-> IF host[h] = "Prompting" THEN "Answered" ELSE host[h]]

(* completions.begin fails: PromptRejected, before the turn exists.        *)
RejectPrompt ==
    /\ driver = "starting"
    /\ \E s \in InIdOrder(coord.steering) : coord' = finish_turn(cancel_turn(coord), s)
    /\ PromptAnswered
    /\ turn' = "none" /\ prompt' = <<>>
    /\ driver' = "select"
    /\ UNCHANGED <<clientVars, lifecycle, inbox, shutdown, worker, batch, budgetVars,
                   stopRequested, aborted, transcript>>

(* run_one_turn up to the spawn: reset the abort signal, open the inbox,   *)
(* then TurnStarted, which a paused coordinator ignores.                   *)
RunOneTurn ==
    /\ driver = "starting"
    /\ coord' = turn_started(IF can_start(coord) THEN start_turn(coord) ELSE coord)
    /\ InboxBegins
    /\ aborted' = FALSE
    /\ stopRequested' = FALSE
    /\ continuations' = 0 /\ compactions' = 0
    /\ worker' = "prepare"
    /\ driver' = "turn"
    /\ UNCHANGED <<clientVars, hostVars, shutdown, turn, prompt, batch, transcript>>

(* The worker's result reaches the driver: close the inbox, defer what it  *)
(* still held, then publish the terminal event.  A TurnComplete whose      *)
(* completion transaction cannot be committed is published as TurnFailed.  *)
WorkerEnded ==
    /\ driver = "turn" /\ worker \in Ended
    /\ InboxFinished
    /\ \E published \in BOOLEAN, kept \in Kept(inbox.pending, coord.steering) :
         LET deferred == defer(coord, kept)
             ended == IF worker = "complete" /\ published THEN deferred
                                                         ELSE cancel_turn(deferred)
         IN  \E s \in InIdOrder(ended.steering) : coord' = finish_turn(ended, s)
    /\ PromptAnswered
    /\ turn' = "none" /\ prompt' = <<>> /\ batch' = <<>>
    /\ worker' = "none"
    /\ stopRequested' = FALSE
    /\ driver' = IF shutdown THEN "closed" ELSE "select"
    /\ UNCHANGED <<clientVars, lifecycle, shutdown, budgetVars, aborted, transcript>>

-----------------------------------------------------------------------------
(* Background tasks.                                                       *)

(* external: a terminal task ends.                                         *)
TaskEnds(t) ==
    /\ t \notin finished
    /\ finished' = finished \cup {t}
    /\ UNCHANGED <<coord, accepted, owner, recalled, native, watched, hostVars, inbox,
                   driver, turnVars, aborted, transcript>>

(* handle_input, after the first input command: install the task sink,     *)
(* which replays every task.                                               *)
WatchBackground ==
    /\ native /\ ~watched
    /\ watched' = TRUE
    /\ UNCHANGED <<coord, accepted, owner, recalled, native, finished, hostVars, inbox,
                   driver, turnVars, aborted, transcript>>

(* observe_notification: a finished task becomes one queued input.         *)
ObserveNotification(t) ==
    /\ watched /\ t \in finished
    /\ accepted[t] = 0
    /\ coord.next_id < MaxInputs
    /\ coord' = enqueue(identify(coord), coord.next_id + 1)
    /\ accepted' = [accepted EXCEPT ![t] = coord.next_id + 1]
    /\ owner' = [owner EXCEPT ![coord.next_id + 1] = t]
    /\ UNCHANGED <<recalled, native, watched, finished, hostVars, inbox, driver,
                   turnVars, aborted, transcript>>

-----------------------------------------------------------------------------
(* The turn worker: run_turn_with_blocks_inner.                            *)

workerFrame == <<clientVars, hostVars, driver, shutdown, turn, prompt, stopRequested>>

Goto(from, to) == worker = from /\ worker' = to

(* Preparing the prompt and pushing it: host context, image preparation,   *)
(* pre-send compaction and the transcript append may each fail; an abort   *)
(* seen by the pre-send compaction cancels.                                *)
PreparePrompt ==
    /\ \/ /\ Goto("prepare", "failed")
          /\ UNCHANGED <<batch, transcript>>
       \/ /\ Goto("prepare", "cancelled") /\ aborted
          /\ UNCHANGED <<batch, transcript>>
       \/ /\ Goto("prepare", "complete") /\ turn = "management"
          /\ UNCHANGED <<batch, transcript>>
       \/ /\ Goto("prepare", "announce") /\ turn # "management"
          /\ transcript' = transcript \o prompt
          /\ batch' = prompt
    /\ UNCHANGED <<workerFrame, coord, inbox, aborted, budgetVars>>

(* on_prompt_committed: one InputCommitted event per input of the prompt.  *)
AnnouncePrompt ==
    /\ worker = "announce"
    /\ \/ /\ batch # <<>>
          /\ coord' = committed(coord, Head(batch))
          /\ batch' = Tail(batch)
          /\ UNCHANGED worker
       \/ /\ batch = <<>>
          /\ worker' = "loop"
          /\ UNCHANGED <<coord, batch>>
    /\ UNCHANGED <<workerFrame, inbox, aborted, budgetVars, transcript>>

(* The head of the loop: an aborted turn stops; otherwise take a snapshot  *)
(* of the inbox.                                                           *)
LoopHead ==
    /\ \/ Goto("loop", "cancelled") /\ aborted /\ UNCHANGED batch
       \/ Goto("loop", "commit") /\ ~aborted /\ batch' = inbox.pending
    /\ UNCHANGED <<workerFrame, coord, inbox, aborted, budgetVars, transcript>>

(* commit_turn_inputs checks the abort signal before it prepares an input  *)
(* and again before it pushes it.                                          *)
CommitNext ==
    /\ \/ Goto("commit", "request") /\ (aborted \/ batch = <<>>)
       \/ Goto("commit", "push") /\ ~aborted /\ batch # <<>>
    /\ UNCHANGED <<workerFrame, coord, inbox, batch, aborted, budgetVars, transcript>>

(* push_user_blocks, then inbox.committed.                                 *)
PushInput ==
    /\ \/ /\ Goto("push", "request") /\ aborted
          /\ UNCHANGED <<inbox, transcript>>
       \/ /\ Goto("push", "failed") /\ ~aborted
          /\ UNCHANGED <<inbox, transcript>>
       \/ /\ Goto("push", "emit") /\ ~aborted
          /\ transcript' = Append(transcript, Head(batch))
          /\ InboxCommits(Head(batch))
    /\ UNCHANGED <<workerFrame, coord, batch, aborted, budgetVars>>

(* on_input_committed.                                                     *)
EmitCommitted ==
    /\ Goto("emit", "commit")
    /\ coord' = committed(coord, Head(batch))
    /\ batch' = Tail(batch)
    /\ UNCHANGED <<workerFrame, inbox, aborted, budgetVars, transcript>>

(* prepare_turn_iteration, enforce_turn_request_budget, open_turn_stream:  *)
(* the iteration limit, the budget or the provider may fail the turn, an   *)
(* abort cancels it, new input restarts the iteration, and so does the     *)
(* compaction of a rejected request while the turn's allowance lasts.      *)
OpenStream ==
    /\ \/ Goto("request", "failed") /\ UNCHANGED compactions
       \/ Goto("request", "cancelled") /\ aborted /\ UNCHANGED compactions
       \/ /\ Goto("request", "loop") /\ ~aborted /\ inbox.pending # <<>>
          /\ UNCHANGED compactions
       \/ /\ Goto("request", "loop") /\ ~aborted /\ compactions < MaxCompactions
          /\ compactions' = compactions + 1
       \/ Goto("request", "stream") /\ ~aborted /\ compactions' \in compactions..MaxCompactions
    /\ UNCHANGED <<workerFrame, coord, inbox, batch, aborted, continuations, transcript>>

(* execute_response.  An error latches the abort signal to stop the tools. *)
ExecuteResponse ==
    \/ /\ \/ Goto("stream", "cancelled") /\ aborted
          \/ Goto("stream", "settle") /\ ~aborted
       /\ UNCHANGED <<workerFrame, coord, inbox, batch, aborted, budgetVars, transcript>>
    \/ /\ \/ Goto("stream", "failed") /\ aborted' \in {aborted, TRUE}
          \/ Goto("stream", "recover") /\ ~aborted /\ aborted' = TRUE
       /\ UNCHANGED <<workerFrame, coord, inbox, batch, budgetVars, transcript>>

(* recover_turn_stream: after the partial reply is saved, the latched      *)
(* signal is reset and the turn continues, a bounded number of times.      *)
RecoverStream ==
    /\ \/ /\ Goto("recover", "loop") /\ continuations < MaxContinuations
          /\ continuations' = continuations + 1
          /\ aborted' = FALSE
       \/ /\ Goto("recover", "failed")
          /\ UNCHANGED <<aborted, continuations>>
    /\ UNCHANGED <<workerFrame, coord, inbox, batch, compactions, transcript>>

(* After a response: an abort cancels; tool calls go round again.          *)
SettleCancelled ==
    /\ Goto("settle", "cancelled") /\ aborted
    /\ UNCHANGED <<workerFrame, coord, inbox, batch, aborted, budgetVars, transcript>>

SettleTools ==
    /\ Goto("settle", "loop") /\ ~aborted
    /\ UNCHANGED <<workerFrame, coord, inbox, batch, aborted, budgetVars, transcript>>

SettleFinal ==
    /\ Goto("settle", "seal") /\ ~aborted
    /\ UNCHANGED <<workerFrame, coord, inbox, batch, aborted, budgetVars, transcript>>

(* seal_if_empty decides, under the inbox lock, that the turn is over.     *)
SealInbox ==
    /\ \/ Goto("seal", "finish") /\ InboxSeals
       \/ /\ Goto("seal", "loop") /\ inbox.pending # <<>>
          /\ UNCHANGED inbox
    /\ UNCHANGED <<workerFrame, coord, batch, aborted, budgetVars, transcript>>

(* finish_turn_state: auto-compaction may be cancelled or fail.            *)
FinishTurnState ==
    /\ \/ Goto("finish", "cancelled") /\ aborted
       \/ Goto("finish", "complete") /\ ~aborted
       \/ Goto("finish", "failed")
    /\ UNCHANGED <<workerFrame, coord, inbox, batch, aborted, budgetVars, transcript>>

WorkerStep ==
    \/ PreparePrompt \/ AnnouncePrompt \/ LoopHead \/ CommitNext \/ PushInput
    \/ EmitCommitted \/ OpenStream \/ ExecuteResponse \/ RecoverStream
    \/ SettleCancelled \/ SettleTools \/ SettleFinal \/ SealInbox \/ FinishTurnState

-----------------------------------------------------------------------------
(* A closed session does nothing more.                                     *)
Closed == driver = "closed" /\ UNCHANGED vars

CommandStep ==
    \/ \E c \in Submitters, steering \in BOOLEAN : Submit(c, steering)
    \/ \E or_cancel \in BOOLEAN : Flush(or_cancel)
    \/ Recall
    \/ \E h \in Hosts, allow \in BOOLEAN : AcquireLifecycle(h, allow)
    \/ \E h \in Hosts : ReleaseLifecycle(h) \/ DirectPrompt(h)
    \/ Cancel
    \/ Close

DriverStep == NextPrompt \/ RejectPrompt \/ RunOneTurn \/ WorkerEnded

TaskStep ==
    \/ WatchBackground
    \/ \E t \in Tasks : TaskEnds(t) \/ ObserveNotification(t)

Next == CommandStep \/ DriverStep \/ TaskStep \/ WorkerStep \/ Closed

Spec == Init /\ [][Next]_vars

(* Fairness.  The driver's loop, the worker thread and the task producers  *)
(* run; a host operation that is over drops its guard, because it is a     *)
(* scope guard (under its prompt it may, and need not).  Nothing in        *)
(* the code bounds the number of tool rounds (max_iterations defaults to   *)
(* usize::MAX), so that the model sometimes answers without a tool call is *)
(* an assumption about the provider.                                       *)
Fairness ==
    /\ WF_vars(DriverStep)
    /\ WF_vars(WorkerStep)
    /\ WF_vars(WatchBackground)
    /\ \A t \in Tasks : WF_vars(ObserveNotification(t))
    /\ \A h \in Hosts : WF_vars(host[h] # "Prompting" /\ ReleaseLifecycle(h))
    /\ SF_vars(SettleFinal)

FairSpec == Spec /\ Fairness

-----------------------------------------------------------------------------
(* Properties.                                                             *)

Queued == Range(coord.queue)
Durable == Range(transcript)

(* Every accepted input is owned by exactly one party: it waits in the     *)
(* queue, or the engine holds it (steering), or it was consumed (durable   *)
(* and acknowledged), or it went back to the editor.  Nothing a host was   *)
(* given a receipt for can vanish at a turn boundary (SessionInputs.admit, *)
(* run_one_turn's InputDeferred, finish_turn).                             *)
OwnedOnce ==
    \A i \in 1..coord.next_id :
        Cardinality({p \in {"queue", "steering", "consumed", "recalled"} :
            \/ p = "queue" /\ i \in Queued
            \/ p = "steering" /\ i \in coord.steering
            \/ p = "consumed" /\ i \in Durable \ coord.steering
            \/ p = "recalled" /\ i \in recalled}) = 1

(* A client id reaches the transcript at most once, however often the host *)
(* retries the submit or recalls and resubmits it (State.accepted).        *)
OncePerClient ==
    \A i, j \in DOMAIN transcript :
        owner[transcript[i]] = owner[transcript[j]] => i = j

(* Inputs the service handed the engine are always in someone's hands:     *)
(* between turns there are none, and during a turn each one is in the      *)
(* inbox or in the prompt or batch the worker has still to acknowledge.    *)
(* Otherwise it would be invisible to next_prompt, which looks only at the *)
(* queue.  (The terminal's Steer commands pass through channels as well:   *)
(* SteeringInFlight of TerminalInputs.)                                    *)
SteeringHasCarrier ==
    /\ driver \in {"select", "closed"} => coord.steering = {}
    /\ coord.steering \subseteq Range(inbox.pending) \cup Range(prompt) \cup Range(batch)
    /\ Range(inbox.pending) \subseteq coord.steering

(* The debug assertion of TurnInputInbox.begin, and the reason it holds:   *)
(* outside a turn the inbox is closed and empty.                           *)
InboxIdleOutsideTurn ==
    driver # "turn" => inbox = ClosedInbox

(* A host operation's hold is its own until it drops its guard: no queued  *)
(* batch is leased or running under it (next_prompt), no other guard that  *)
(* is dropped, a refused one above all, ends it (release_lifecycle), and   *)
(* no hold outlives its operation, which would stop the queue for good.    *)
LifecycleExcludesLease ==
    \A h \in Hosts :
        /\ host[h] = "Holding" => lifecycle.holder = h
        /\ lifecycle.holder = h => /\ turn # "leased"
                                   /\ host[h] \in {"Holding", "Prompting", "Answered"}

(* Once cancelled, a turn that ends leaves its unapplied inputs waiting    *)
(* for the user: the step that ends it never makes the session idle with a *)
(* queue, unless the user resumed in the meantime.                         *)
CancelDoesNotRestart ==
    [][ (driver = "turn" /\ driver' = "select" /\ coord.phase = "Cancelling")
            => (coord'.queue = <<>> \/ coord'.phase = "Paused") ]_vars

(* docs/usage.md:111 "Ctrl+C always cancels": a turn that has been         *)
(* cancelled opens no further model request.                               *)
CancelAlwaysCancels ==
    [][ stopRequested => ~(worker # "stream" /\ worker' = "stream") ]_vars

(* Again and again every input that was accepted is durable or recalled,   *)
(* unless the session is paused for the user or closed: no input waits for *)
(* ever behind turns, prompts and host operations.                         *)
EventuallyApplied ==
    []<>(\/ 1..coord.next_id \subseteq Durable \cup recalled
         \/ coord.phase = "Paused" \/ driver = "closed")

(* The session implements InputDelivery: an input is pending from its      *)
(* receipt until it is in the transcript or recalled.                      *)
statusOf(i) ==
    IF i \in Durable THEN "logged"
    ELSE IF i \in recalled THEN "recalled"
    ELSE IF i <= coord.next_id THEN "pending" ELSE "unsent"

Delivery == INSTANCE InputDelivery WITH
    Inputs <- Ids, status <- [i \in Ids |-> statusOf(i)], log <- transcript

ImplementsDelivery == Delivery!Spec
=============================================================================
