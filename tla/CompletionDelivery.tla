-------------------------- MODULE CompletionDelivery --------------------------
(***************************************************************************)
(* The durable handoff of background results: the journal of one session   *)
(* (runtime/src/subagent_completion.rs and subagent_completion/*.rs), the  *)
(* turn boundary that qualifies a result for delivery and the delivery to  *)
(* a controller with its receipts and retries                              *)
(* (engine-core/src/subagent_completion.rs and .../control.rs).            *)
(*                                                                         *)
(* Controllers speak the task protocol; the older one carries sub-agents   *)
(* only.  A source is a sub-agent or a background terminal, named by a     *)
(* number: the numbers are in the order of the keys of the journal's maps. *)
(* A change is written atomically before memory is replaced, so memory and *)
(* storage are one record; a write that fails changes nothing.             *)
(* The ordinal of a published result is the watermark of the change that   *)
(* published it; only its order matters, so it is counted in publications. *)
(* An attempt's number only says whether it is the one in flight.  Backing *)
(* off before a retry is a delay, and every step may be delayed.           *)
(***************************************************************************)
EXTENDS Naturals, FiniteSets, FiniteSetsExt

CONSTANTS
    Agents,    \* sub-agents, as keys of the journal
    Terminals, \* background shells, as keys of the journal
    MaxTrace   \* bound: number of turns

ASSUME SourcesAreKeys ==
    /\ Agents \subseteq Nat \ {0}
    /\ Terminals \subseteq Nat \ {0}
    /\ Agents \cap Terminals = {}
    /\ IsFiniteSet(Agents) /\ IsFiniteSet(Terminals)
    /\ MaxTrace \in Nat

Sources == Agents \cup Terminals
Traces == 1..MaxTrace
None == 0

Blocks == {"none", "source_context_unconfirmed", "execution_unconfirmed",
           "terminal_manifest_unavailable", "rejected"}

Source ==
    [trace: Traces \cup {None}, closed: BOOLEAN, settled: BOOLEAN,
     payload: BOOLEAN, ordinal: Nat,
     ack: {"none", "acknowledged", "suppressed"}, blocked: Blocks,
     worker: {"absent", "waiting", "background"}, finished: BOOLEAN,
     exec: {"none", "prepared", "running", "terminal", "not_started",
            "execution_unconfirmed"},
     backgrounded: BOOLEAN, collected: BOOLEAN,
     collected_in: Traces \cup {None}]

Journal ==
    [active: Traces \cup {None}, closed_traces: SUBSET Traces,
     context: BOOLEAN, reducing: BOOLEAN, collected: SUBSET Agents,
     deleted: BOOLEAN, src: [Sources -> Source]]

Unregistered ==
    [trace |-> None, closed |-> FALSE, settled |-> FALSE, payload |-> FALSE,
     ordinal |-> 0, ack |-> "none", blocked |-> "none", worker |-> "absent",
     finished |-> FALSE, exec |-> "none", backgrounded |-> FALSE,
     collected |-> FALSE, collected_in |-> None]

NewJournal ==
    [active |-> None, closed_traces |-> {}, context |-> FALSE,
     reducing |-> FALSE, collected |-> {}, deleted |-> FALSE,
     src |-> [s \in Sources |-> Unregistered]]

VARIABLES
    journal,   \* the journal, in memory and on disk
    mode,      \* "live" (an engine runs turns) or "cold" (control only)
    proc,      \* what became of each child: none, starting, alive, ended (its
               \* event is still to come), reported, gone
    turn,      \* trace of the turn the engine runs, or None
    ending,    \* the turn's last event is being observed
    failure,   \* an observation of this turn was not recorded
    terminal_retries, \* sub-agents whose end could not be recorded
    connected, \* a controller is bound
    flight,    \* the completion in flight, or None
    lost,      \* the request in flight, or its answer, will not arrive
    stale,     \* completions of requests that were given up, unanswered
    \* What happened, for the properties:
    committed, \* traces whose turn committed
    handed,    \* what the text of the spawning call was
    readIn,    \* turns in which a result was read explicitly, and recognised
    unrecorded,\* sub-agents read in a step the journal could not record
    taken,     \* completions the controller said it stored or discarded
    refused,   \* completions the controller answered badly
    last       \* the completion of the last request

engine == <<mode, proc, turn, ending, failure, terminal_retries>>
delivery == <<connected, flight, lost, stale, taken, refused, last>>
history == <<committed, handed, readIn, unrecorded>>
vars == <<journal, engine, delivery, history>>

Init ==
    /\ journal = NewJournal
    /\ mode = "live" /\ proc = [s \in Sources |-> "none"]
    /\ turn = None /\ ending = FALSE /\ failure = FALSE
    /\ terminal_retries = {}
    /\ connected = FALSE /\ flight = None /\ lost = FALSE /\ stale = {}
    /\ committed = {} /\ handed = [s \in Sources |-> "none"]
    /\ readIn = [s \in Sources |-> {}] /\ unrecorded = {}
    /\ taken = {} /\ refused = {} /\ last = None

-----------------------------------------------------------------------------
(* The journal's methods, as functions of the journal.                      *)

Of(j, t) == {s \in Sources : j.src[s].trace = t}

Registered(j) == {s \in Sources : j.src[s].trace # None}

NextOrdinal(j) == 1 + Max({j.src[s].ordinal : s \in Sources} \cup {0})

\* A sub-agent's result leaves the reducer when no turn is open, its call was
\* handed to the background and it finished; it is published when its own
\* turn committed.  A closed sub-agent with nothing to wait for is settled.
PublishedAgent(j, s) ==
    LET r == j.src[s]
        ready == ~j.reducing /\ r.worker = "background" /\ r.finished
        fresh == ready /\ r.closed /\ ~r.payload /\ ~r.settled
        worker == IF ready THEN "absent" ELSE r.worker
        idle == /\ r.closed /\ r.blocked = "none" /\ worker = "absent"
                /\ ~r.payload /\ ~fresh
    IN [r EXCEPT !.worker = worker,
                 !.finished = @ /\ ~ready,
                 !.payload = @ \/ fresh,
                 !.ordinal = IF fresh THEN NextOrdinal(j) ELSE @,
                 !.settled = @ \/ idle]

\* Mutant: a shell's exit is published though its call was not handed over.
PublishedTerminalEager(j, s) ==
    LET r == j.src[s]
        open == /\ ~r.settled /\ ~r.payload /\ r.closed /\ r.blocked = "none"
        fresh == open /\ ~r.collected /\ r.exec = "terminal" /\ j.active = None
    IN [r EXCEPT !.settled = @ \/ (open /\ r.collected),
                 !.payload = @ \/ fresh,
                 !.ordinal = IF fresh THEN NextOrdinal(j) ELSE @]

PublishedTerminal(j, s) ==
    LET r == j.src[s]
        open == /\ ~r.settled /\ ~r.payload /\ r.closed /\ r.blocked = "none"
        fresh == /\ open /\ ~r.collected /\ r.exec = "terminal"
                 /\ r.backgrounded /\ j.active = None
    IN [r EXCEPT !.settled = @ \/ (open /\ r.collected),
                 !.payload = @ \/ fresh,
                 !.ordinal = IF fresh THEN NextOrdinal(j) ELSE @]

publish_terminals(j) ==
    [j EXCEPT !.src = [s \in Sources |->
        IF s \in Terminals THEN PublishedTerminal(j, s) ELSE j.src[s]]]

publish(j) ==
    LET src == [s \in Sources |-> IF s \in Agents THEN PublishedAgent(j, s)
                                                  ELSE PublishedTerminal(j, s)]
        empty == ~j.reducing /\ \A s \in Agents : src[s].worker = "absent"
    IN [j EXCEPT !.src = src, !.collected = IF empty THEN {} ELSE @]

begin(j, t) == [j EXCEPT !.active = t, !.reducing = TRUE]

register(j, s) ==
    [j EXCEPT !.src[s] = [Unregistered EXCEPT !.trace = j.active,
                                              !.worker = "waiting"]]

register_terminal(j, s) ==
    [j EXCEPT !.src[s] = [Unregistered EXCEPT !.trace = j.active,
                                              !.exec = "prepared"]]

\* The worker of s has finished; a result that was read as text is dropped.
Finished(j, s) ==
    [j EXCEPT !.src[s].finished = j.src[s].worker # "absent" /\ s \notin j.collected,
              !.src[s].worker = IF s \in j.collected THEN "absent" ELSE @]

Unblocked(j, s) == [j EXCEPT !.src[s].blocked = "none"]

lifecycle(j, s) ==
    IF j.src[s].payload \/ j.src[s].settled THEN j
    ELSE publish(Finished(IF j.src[s].closed THEN Unblocked(j, s) ELSE j, s))

\* The result of the call that spawned s, read back from the text the call
\* returned.  It is "background" if the text is the JSON of a handoff, and
\* "other" if not: the result itself, an error, but also a handoff whose text
\* an abort replaced or a hook added its feedback to, which no longer parses.
\* The worker of a sub-agent is then dropped, and a shell is left as it was.
tool_result(j, s, result) ==
    publish(
        IF s \in Terminals
        THEN [j EXCEPT !.src[s].backgrounded = @ \/ result = "background"]
        ELSE [j EXCEPT !.src[s].worker =
                IF @ # "absent" /\ result = "background" THEN "background" ELSE "absent",
                       !.src[s].finished = @ /\ result = "background"])

\* An explicit read of a sub-agent's result, as JSON or as its notification.
Consumed(j, s, form) ==
    IF form = "json" \/ j.src[s].finished
    THEN [j EXCEPT !.src[s].worker = "absent", !.src[s].finished = FALSE,
                   !.collected = IF form = "text" THEN @ \cup {s} ELSE @]
    ELSE [j EXCEPT !.collected = @ \cup {s}]

\* Mutant: a read counts at once.
terminal_tool_result_at_once(j, s) ==
    IF j.src[s].payload \/ j.src[s].exec # "terminal" THEN j
    ELSE [j EXCEPT !.src[s].collected = TRUE]

\* An explicit read of a terminal counts once the turn that read it commits.
terminal_tool_result(j, s) ==
    IF j.src[s].payload \/ j.src[s].exec # "terminal" THEN j
    ELSE [j EXCEPT !.src[s].collected_in = j.active]

pid_output(j, s, form) ==
    publish(IF s \in Agents THEN Consumed(j, s, form)
                            ELSE terminal_tool_result(j, s))

commit(j, t) ==
    publish([j EXCEPT
        !.active = None, !.context = TRUE, !.reducing = FALSE,
        !.closed_traces = @ \cup {t},
        !.src = [s \in Sources |->
            LET read == j.src[s].collected_in = t
            IN [j.src[s] EXCEPT !.closed = @ \/ j.src[s].trace = t,
                                !.collected = @ \/ read,
                                !.collected_in = IF read THEN None ELSE @]]])

fail_turn(j, t) ==
    IF j.active # t THEN j ELSE
    [j EXCEPT
        !.active = None, !.context = FALSE, !.reducing = FALSE,
        !.closed_traces = @ \cup {t},
        !.src = [s \in Sources |->
            LET mine == j.src[s].trace = t
            IN [j.src[s] EXCEPT
                !.collected_in = IF @ = t THEN None ELSE @,
                !.blocked = IF mine THEN "source_context_unconfirmed" ELSE @,
                !.worker = IF mine THEN "absent" ELSE @,
                !.finished = @ /\ ~mine]]]

\* A terminal without exit evidence when its owner is gone.
Unconfirmed(r) ==
    IF r.exec \in {"none", "terminal", "not_started"} THEN r
    ELSE [r EXCEPT !.exec = "execution_unconfirmed",
                   !.blocked = IF ~r.settled /\ @ = "none"
                               THEN "execution_unconfirmed" ELSE @]

open(j) ==
    LET repaired == IF j.active = None THEN j ELSE fail_turn(j, j.active)
    IN [repaired EXCEPT !.src = [s \in Sources |-> Unconfirmed(repaired.src[s])]]

terminal_not_started(j, s) ==
    [j EXCEPT !.src[s].exec = "not_started", !.src[s].settled = TRUE]

terminal_started(j, s) == [j EXCEPT !.src[s].exec = "running"]

terminal_unconfirmed(j, s) ==
    [j EXCEPT !.src[s].exec = "execution_unconfirmed",
              !.src[s].blocked = IF j.src[s].settled THEN @
                                 ELSE "execution_unconfirmed"]

terminal_finished(j, s) ==
    publish_terminals(
        [j EXCEPT !.src[s].exec = "terminal",
                  !.src[s].blocked = IF @ = "execution_unconfirmed"
                                     THEN "none" ELSE @])

acknowledge(j, s) ==
    [j EXCEPT !.src[s].ack = "acknowledged", !.src[s].settled = TRUE]

quarantine(j, s) == [j EXCEPT !.src[s].blocked = "rejected"]

suppress(j, t) ==
    [j EXCEPT !.src = [s \in Sources |->
        IF j.src[s].trace # t THEN j.src[s] ELSE
        [j.src[s] EXCEPT !.settled = TRUE, !.blocked = "none",
                         !.ack = "suppressed", !.payload = FALSE,
                         !.worker = "absent", !.finished = FALSE]]]

purge(j) == [NewJournal EXCEPT !.deleted = TRUE]

\* Sources a replay still has to account for.
Open(j) == {s \in Registered(j) : ~j.src[s].settled /\ ~j.src[s].payload}

\* What the manifests say: terminal, still running, or unreadable.
FromManifest(j, s, manifest) ==
    CASE manifest = "terminal" -> Finished(Unblocked(j, s), s).src[s]
      [] manifest = "running" ->
            [j.src[s] EXCEPT !.blocked = "execution_unconfirmed"]
      [] OTHER -> [j.src[s] EXCEPT !.blocked = "terminal_manifest_unavailable"]

\* reconcile: the reads in the transcript first, then the manifests.
reconcile(j, replayed, manifest) ==
    IF j.active # None \/ ~j.context
    THEN [j EXCEPT !.src = [s \in Sources |->
            IF s \in Open(j)
            THEN [j.src[s] EXCEPT !.blocked = "source_context_unconfirmed"]
            ELSE j.src[s]]]
    ELSE LET read == [j EXCEPT !.src = [s \in Sources |->
                        IF s \in replayed
                        THEN [j.src[s] EXCEPT !.worker = "absent", !.finished = FALSE]
                        ELSE j.src[s]]]
         IN publish([read EXCEPT !.src = [s \in Sources |->
                IF s \in Agents \cap Open(read) /\ read.src[s].closed
                THEN FromManifest(read, s, manifest[s])
                ELSE read.src[s]]])

-----------------------------------------------------------------------------
(* Processes, turns and children.                                           *)

\* A change of the journal that storage accepts.
Change(j) == ~journal.deleted /\ journal' = j

\* The process dies or lets the session go, and another one opens the journal:
\* with an engine, or for control only.  Everything in memory is lost, the
\* children with it; a child that ended left its manifest.
Reopen(m) ==
    /\ Change(open(journal)) /\ mode' = m
    /\ proc' = [s \in Sources |->
                  CASE proc[s] \in {"starting", "alive"} -> "gone"
                    [] proc[s] = "ended" -> "reported"
                    [] OTHER -> proc[s]]
    /\ turn' = None /\ ending' = FALSE /\ failure' = FALSE
    /\ terminal_retries' = {}
    /\ connected' = FALSE /\ flight' = None /\ lost' = FALSE /\ stale' = {}
    /\ UNCHANGED <<taken, refused, last, history>>

\* The turns are numbered in the order in which they begin.
Begin(t) ==
    /\ mode = "live" /\ turn = None /\ journal.active = None
    /\ t = 1 + Cardinality(journal.closed_traces)
    /\ Change(begin(journal, t))
    /\ turn' = t /\ failure' = FALSE
    /\ UNCHANGED <<mode, proc, ending, terminal_retries, delivery, history>>

\* A sub-agent or a shell is registered before it starts.
Register(s) ==
    /\ mode = "live" /\ journal.active # None /\ s \notin Registered(journal)
    /\ Change(IF s \in Agents THEN register(journal, s)
                               ELSE register_terminal(journal, s))
    /\ proc' = [proc EXCEPT ![s] = IF s \in Agents THEN "alive" ELSE "starting"]
    /\ UNCHANGED <<mode, turn, ending, failure, terminal_retries, delivery, history>>

\* The shell starts or does not; the journal may fail to take note.
Spawn(s, started) ==
    /\ proc[s] = "starting"
    /\ proc' = [proc EXCEPT ![s] = IF started THEN "alive" ELSE "gone"]
    /\ \/ Change(IF started THEN terminal_started(journal, s)
                            ELSE terminal_not_started(journal, s))
       \/ UNCHANGED journal
    /\ UNCHANGED <<mode, turn, ending, failure, terminal_retries, delivery, history>>

\* A sub-agent's thread has written its manifest; its event follows.
ChildEnds(s) ==
    /\ s \in Agents /\ proc[s] = "alive"
    /\ proc' = [proc EXCEPT ![s] = "ended"]
    /\ UNCHANGED <<journal, mode, turn, ending, failure, terminal_retries, delivery, history>>

\* The event of a sub-agent's end; if it cannot be recorded it is retried.
ObserveLifecycle(s) ==
    /\ proc[s] = "ended" /\ ~ending
    /\ proc' = [proc EXCEPT ![s] = "reported"]
    /\ \/ Change(lifecycle(journal, s)) /\ UNCHANGED terminal_retries
       \/ /\ terminal_retries' = terminal_retries \cup {s}
          /\ UNCHANGED journal
    /\ UNCHANGED <<mode, turn, ending, failure, delivery, history>>

\* The monitor of a shell keeps its exit until the journal takes it, or finds
\* out that the exit cannot be known.
TerminalEnds(s, confirmed) ==
    /\ s \in Terminals /\ proc[s] = "alive"
    /\ Change(IF confirmed THEN terminal_finished(journal, s)
                           ELSE terminal_unconfirmed(journal, s))
    /\ proc' = [proc EXCEPT ![s] = IF confirmed THEN "reported" ELSE "gone"]
    /\ UNCHANGED <<mode, turn, ending, failure, terminal_retries, delivery, history>>

\* The call that spawned s returns to the model, with the text of a handoff or
\* another one, whether the child still runs or not.  A shell whose text is no
\* handoff is as if nothing had been observed: it is never published.
ObserveToolResult(s, result) ==
    /\ turn # None /\ ~ending /\ journal.src[s].trace = turn
    /\ handed[s] = "none" /\ proc[s] # "starting"
    /\ handed' = IF s \in Terminals /\ result = "other" THEN handed
                 ELSE [handed EXCEPT ![s] = result]
    /\ \/ Change(tool_result(journal, s, result)) /\ UNCHANGED failure
       \/ failure' = TRUE /\ UNCHANGED journal
    /\ UNCHANGED <<mode, proc, turn, ending, terminal_retries, delivery,
                   committed, readIn, unrecorded>>

\* The model reads a finished result with pid_output, and the text says so.
ObserveRead(s, form) ==
    /\ turn # None /\ ~ending /\ turn \notin readIn[s]
    /\ s \in Registered(journal)
    /\ IF s \in Agents THEN proc[s] \in {"ended", "reported"}
                        ELSE journal.src[s].exec = "terminal" /\ form = "json"
    /\ readIn' = [readIn EXCEPT ![s] = {turn} \cup (IF s \in Agents THEN {} ELSE @)]
    /\ \/ Change(pid_output(journal, s, form)) /\ UNCHANGED <<failure, unrecorded>>
       \/ /\ failure' = TRUE
          /\ unrecorded' = unrecorded \cup ({s} \cap Agents)
          /\ UNCHANGED journal
    /\ UNCHANGED <<mode, proc, turn, ending, terminal_retries, delivery,
                   committed, handed>>

\* Any other tool's result, or a read whose text cannot be recognised.
ObserveOther ==
    /\ turn # None /\ ~ending
    /\ \/ Change(publish(journal)) /\ UNCHANGED failure
       \/ failure' = TRUE /\ UNCHANGED journal
    /\ UNCHANGED <<mode, proc, turn, ending, terminal_retries, delivery, history>>

\* TurnComplete is observed: what could not be recorded is tried once more ...
TurnComplete ==
    /\ turn # None /\ ~ending /\ ending' = TRUE
    /\ UNCHANGED <<journal, mode, proc, turn, failure, terminal_retries, delivery, history>>

\* (as the delivery does whenever it runs)
RetryTerminal(s) ==
    /\ s \in terminal_retries /\ (ending \/ connected)
    /\ Change(lifecycle(journal, s))
    /\ terminal_retries' = terminal_retries \ {s}
    /\ UNCHANGED <<mode, proc, turn, ending, failure, delivery, history>>

\* ... and the turn commits ...
CommitTurn ==
    /\ ending /\ terminal_retries = {} /\ ~failure
    /\ journal.active = turn /\ Change(commit(journal, turn))
    /\ committed' = committed \cup {turn}
    /\ turn' = None /\ ending' = FALSE
    /\ UNCHANGED <<mode, proc, failure, terminal_retries, delivery,
                   handed, readIn, unrecorded>>

\* ... or fails, as TurnFailed does.  The journal may fail to record that too.
FailTurn ==
    /\ turn # None
    /\ Change(fail_turn(journal, turn)) \/ UNCHANGED journal
    /\ turn' = None /\ ending' = FALSE /\ failure' = FALSE
    /\ UNCHANGED <<mode, proc, terminal_retries, delivery, history>>

-----------------------------------------------------------------------------
(* Control and delivery.                                                    *)

Manifests == {"terminal", "running", "unreadable"}

\* What a replay without an engine may find in the manifests.  The end of a
\* child may not have been written, or was overwritten by the mark of a call
\* that timed out at the same moment.
Readable(manifest) ==
    \A s \in Agents : manifest[s] = "terminal" => proc[s] \in {"ended", "reported"}

Replay ==
    /\ mode = "cold"
    /\ \E replayed \in SUBSET unrecorded, manifest \in [Agents -> Manifests] :
           /\ Readable(manifest)
           /\ Change(reconcile(journal, replayed, manifest))
    /\ UNCHANGED <<engine, delivery, history>>

\* The request in flight is given up; its answer may still come.
GiveUp ==
    /\ flight' = None /\ lost' = FALSE
    /\ stale' = IF lost THEN stale ELSE stale \cup ({flight} \ {None})

Configure(on) ==
    /\ connected' = on /\ GiveUp
    /\ UNCHANGED <<journal, engine, taken, refused, last, history>>

Suppress(t) ==
    /\ t \in journal.closed_traces /\ t # journal.active
    /\ Change(suppress(journal, t))
    /\ GiveUp
    /\ UNCHANGED <<engine, connected, taken, refused, last, history>>

Purge ==
    /\ Change(purge(journal))
    /\ GiveUp
    /\ UNCHANGED <<engine, connected, taken, refused, last, history>>

Pending(s) ==
    LET r == journal.src[s]
    IN r.payload /\ ~r.settled /\ r.ack = "none" /\ r.blocked = "none"

\* Mutant: in the order of the map.
BeforeByKey(s, t) == s < t

\* pending_tasks: by ordinal, and by key among those of one change.
Before(s, t) ==
    LET o == journal.src[s].ordinal
        p == journal.src[t].ordinal
    IN o < p \/ (o = p /\ s < t)

Deliver(s) ==
    /\ connected /\ ~ending /\ terminal_retries = {} /\ flight = None
    /\ Pending(s) /\ \A t \in Sources \ {s} : Pending(t) => Before(s, t)
    /\ flight' = s /\ last' = s /\ lost' \in BOOLEAN
    /\ UNCHANGED <<journal, engine, connected, stale, taken, refused, history>>

\* Mutant: the driver wakes up but keeps waiting for the answer.
DeliveryTimesOutIdly ==
    /\ connected /\ flight # None /\ ~ending
    /\ UNCHANGED vars

\* The answer is overdue.
DeliveryTimesOut ==
    /\ connected /\ flight # None /\ ~ending
    /\ GiveUp
    /\ UNCHANGED <<journal, engine, connected, taken, refused, last, history>>

Answers == {"stored", "wrong", "unavailable", "retry"}

\* What the controller says about the completion it was sent.
Says(s, answer) ==
    /\ taken' = IF answer = "stored" THEN taken \cup {s} ELSE taken
    /\ refused' = IF answer = "wrong" THEN refused \cup {s} ELSE refused

\* A receipt for the attempt in flight is applied to the completion in flight.
Applied(s, answer) ==
    /\ flight' = None
    /\ connected' = (connected /\ answer # "unavailable")
    /\ \/ answer = "stored" /\ Change(acknowledge(journal, s))
       \/ answer = "wrong" /\ Change(quarantine(journal, s))
       \/ UNCHANGED journal

Receipt(s, answer) ==
    /\ flight = s /\ ~lost /\ Says(s, answer) /\ Applied(s, answer)
    /\ UNCHANGED <<engine, lost, stale, last, history>>

\* Mutant: the attempt is not compared with the one in flight.
StaleReceiptApplied(s, answer) ==
    /\ s \in stale /\ stale' = stale \ {s} /\ Says(s, answer)
    /\ IF flight = None THEN UNCHANGED <<journal, connected, flight>>
       ELSE Applied(flight, IF answer = "stored" /\ flight # s THEN "wrong" ELSE answer)
    /\ UNCHANGED <<engine, lost, last, history>>

\* A receipt for an attempt that was given up.
StaleReceipt(s, answer) ==
    /\ s \in stale /\ stale' = stale \ {s} /\ Says(s, answer)
    /\ UNCHANGED <<journal, engine, connected, flight, lost, last, history>>

-----------------------------------------------------------------------------

Next ==
    \/ \E m \in {"live", "cold"} : Reopen(m)
    \/ \E t \in Traces : Begin(t) \/ Suppress(t)
    \/ \E s \in Sources : Register(s) \/ ChildEnds(s) \/ ObserveLifecycle(s)
    \/ \E s \in Sources, b \in BOOLEAN : Spawn(s, b) \/ TerminalEnds(s, b)
    \/ \E s \in Sources, r \in {"background", "other"} : ObserveToolResult(s, r)
    \/ \E s \in Sources, f \in {"json", "text"} : ObserveRead(s, f)
    \/ ObserveOther \/ TurnComplete \/ CommitTurn \/ FailTurn
    \/ \E s \in Agents : RetryTerminal(s)
    \/ Replay \/ Purge
    \/ \E on \in BOOLEAN : Configure(on)
    \/ \E s \in Sources : Deliver(s)
    \/ DeliveryTimesOut
    \/ \E s \in Sources, a \in Answers : Receipt(s, a) \/ StaleReceipt(s, a)

Spec == Init /\ [][Next]_vars

\* The driver's loop runs and its timer fires; a request that is sent again and
\* again gets through, a controller that is asked again and again answers, and
\* storage accepts a write that is tried again and again.
Fairness ==
    /\ WF_vars(DeliveryTimesOut)
    /\ WF_vars(CommitTurn \/ (ending /\ FailTurn))
    /\ WF_vars(\E s \in Agents : RetryTerminal(s))
    /\ SF_vars(\E s \in Sources : Deliver(s) /\ ~lost')
    /\ SF_vars(\E s \in Sources :
                 Receipt(s, "stored") /\ journal' = acknowledge(journal, s))

FairSpec == Spec /\ Fairness

-----------------------------------------------------------------------------

\* Types.
TypeOK ==
    /\ journal \in Journal
    /\ mode \in {"live", "cold"}
    /\ proc \in [Sources -> {"none", "starting", "alive", "ended", "reported", "gone"}]
    /\ turn \in Traces \cup {None}
    /\ terminal_retries \subseteq Agents
    /\ flight \in Sources \cup {None} /\ stale \subseteq Sources
    /\ connected \in BOOLEAN /\ lost \in BOOLEAN
    /\ ending \in BOOLEAN /\ failure \in BOOLEAN
    /\ committed \subseteq Traces /\ unrecorded \subseteq Agents
    /\ taken \subseteq Sources /\ refused \subseteq Sources
    /\ last \in Sources \cup {None}
    /\ handed \in [Sources -> {"none", "background", "other"}]
    /\ readIn \in [Sources -> SUBSET Traces]

\* A result is published only with all of its evidence: the call was handed to
\* the background, the child's end is known and the turn that spawned it
\* committed, in whatever order these came and however often the process
\* restarted in between (publish, commit, fail_turn, reconcile).
PublishedIsQualified ==
    \A s \in Sources : journal.src[s].payload =>
        /\ journal.src[s].trace \in committed
        /\ handed[s] = "background"
        /\ proc[s] \in {"ended", "reported"}

\* A completion is acknowledged, or quarantined, only because the controller
\* said so of this very completion: answers to attempts that were given up
\* change nothing (receipt).
ReceiptIsForItsCompletion ==
    \A s \in Sources :
        /\ journal.src[s].ack = "acknowledged" => s \in taken
        /\ journal.src[s].blocked = "rejected" => s \in refused

\* A result is settled without an acknowledgement only if it was read, if (a
\* terminal) it was read in a turn that committed or the command never ran, or
\* if (a sub-agent) the text its call returned was not the handoff of a child
\* in the background: no crash, failed write, failed turn or replay drops a
\* result whose handoff the journal has seen.  That the journal goes by the text
\* is the limit of the promise: where a hook's feedback spoils it the commit
\* settles a child that still runs, though "only an explicit read consumes a
\* result" (Completions::tool_result).
NothingDropped ==
    \A s \in Sources : journal.src[s].settled /\ journal.src[s].ack = "none" =>
        IF s \in Agents THEN handed[s] = "other" \/ readIn[s] # {}
        ELSE \/ journal.src[s].exec = "not_started"
             \/ readIn[s] \cap committed # {}

\* A completion that was sent and is still pending is sent again before any
\* other, across restarts and reconnections (the ordinal of publish): a child
\* that was spawned earlier and ends late does not overtake it.
NotOvertaken ==
    [][\A s \in Sources :
        last = s /\ last' # s => ~Pending(s)]_vars

\* However often attempts, receipts and writes fail, the results of the session
\* are eventually all acknowledged, quarantined or withdrawn, unless the
\* controller goes away (deliver, receipt, retry_terminals).
Delivered ==
    []<>((\A s \in Sources : ~Pending(s)) \/ ~connected)

\* A source is marked source_context_unconfirmed only for want of its own
\* turn's commit, as docs/acp.md says: "uncommitted parent evidence is
\* `source_context_unconfirmed`" (fail_turn and reconcile).
UnconfirmedParentOnly ==
    \A s \in Sources :
        journal.src[s].blocked = "source_context_unconfirmed" =>
            journal.src[s].trace \notin committed
=============================================================================
