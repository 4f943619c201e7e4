---------------------------- MODULE ToolScheduler ----------------------------
(***************************************************************************)
(* The tool calls of one assistant response, from the provider's stream to *)
(* the transcript: ToolScheduler                                           *)
(* (runtime/src/conversation/tool_execution.rs) and the loop that polls it *)
(* next to the stream (execute_response in conversation/response.rs), up   *)
(* to the checkpoint of the results (conversation/turn.rs).                *)
(*                                                                         *)
(* The loop is one task.  Around it run, in any order, the stages it waits *)
(* for (hooks, approvals, tools), the provider, and whoever aborts the     *)
(* turn.  A stage's own content is left out: what counts is how it ends.   *)
(* A stream event that is not a tool call changes nothing here.            *)
(***************************************************************************)
EXTENDS Integers, Sequences, FiniteSets, Functions

CONSTANTS
    MaxCalls,       \* bound: tool calls in one response
    Limit           \* max_tool_use_concurrency()

ASSUME MaxCallsAssumption == MaxCalls \in Nat
ASSUME LimitAssumption == Limit \in Nat \ {0}

Calls == 1..MaxCalls

VARIABLES
    n,          \* calls.len()
    phase,      \* Invocation.phase, "Absent" before the call is enqueued
    parallel,   \* Invocation.parallel
    ran,        \* the tool returned; Invocation.output holds what it returned
    updates,    \* the ToolUpdates not taken yet, oldest first
    result,     \* Invocation.result: "none" until store_result
    pc,         \* where execute_response is
    ended,      \* the provider's stream is over, or was dropped for new input
    aborted,    \* the abort signal of this turn
    failed,     \* error.is_some()
    persisted,  \* persisted_results
    log,        \* calls whose result is in the transcript, in order
    observed    \* history: the updates the observer was told, in order

callVars == <<n, phase, parallel, ran>>
saveVars == <<persisted, log>>
vars == <<callVars, updates, result, pc, ended, aborted, failed, saveVars, observed>>

Waiting == {"Preparing", "Authorizing", "Running", "Finishing"}
Late == {"Authorizing", "Authorized", "Running", "Finishing"}
Phase == {"Absent", "Queued", "Prepared", "Complete"} \cup Waiting \cup Late
Outcome == {"output", "denied", "interrupted"}

Started(i) == [kind |-> "Started", index |-> i, outcome |-> "none"]
Completed(i, o) == [kind |-> "Completed", index |-> i, outcome |-> o]
ToolUpdate ==
    [kind : {"Started", "Completed"}, index : Calls, outcome : Outcome \cup {"none"}]

TypeOK ==
    /\ n \in 0..MaxCalls
    /\ phase \in [Calls -> Phase]
    /\ \A i \in Calls : phase[i] = "Absent" <=> i > n
    /\ parallel \in [Calls -> BOOLEAN]
    /\ ran \in [Calls -> BOOLEAN]
    /\ updates \in Seq(ToolUpdate)
    /\ result \in [Calls -> Outcome \cup {"none"}]
    /\ pc \in {"select", "admit", "pop", "wait", "cleanup", "persist", "checkpoint",
               "returned", "turn failed"}
    /\ ended \in BOOLEAN /\ aborted \in BOOLEAN /\ failed \in BOOLEAN
    /\ persisted \in 0..MaxCalls
    /\ log \in Seq(Calls)
    /\ observed \in Seq(ToolUpdate)

Init ==
    /\ n = 0
    /\ phase = [i \in Calls |-> "Absent"]
    /\ parallel = [i \in Calls |-> FALSE]
    /\ ran = [i \in Calls |-> FALSE]
    /\ updates = <<>>
    /\ result = [i \in Calls |-> "none"]
    /\ pc = "select"
    /\ ended = FALSE /\ aborted = FALSE /\ failed = FALSE
    /\ persisted = 0 /\ log = <<>>
    /\ observed = <<>>

-----------------------------------------------------------------------------
(* The scheduler.                                                          *)

is_finished == updates = <<>> /\ \A i \in 1..n : phase[i] = "Complete"

(* admit walks the calls in order.  It passes a finished call, stops       *)
(* before a serial call that has an unfinished one ahead of it, stops      *)
(* after a serial call, and stops at a queued call when the limit is       *)
(* reached.  Reached(i): the walk handles call i.                          *)
Live(i) == i \in 1..n /\ phase[i] # "Complete"

(* Mutant of inflight: a finished call keeps its slot.                     *)
inflight_leaks == Cardinality({i \in 1..n : phase[i] # "Queued"})
inflight == Cardinality({i \in 1..n : phase[i] \notin {"Queued", "Complete"}})

HasSlot(j) ==
    inflight + Cardinality({k \in 1..(j - 1) : phase[k] = "Queued"}) < Limit

(* Mutant: a serial call does not wait for the parallel ones before it.    *)
ReachedEagerly(i) ==
    /\ Live(i)
    /\ \A j \in 1..(i - 1) : Live(j) => parallel[j]
    /\ \A j \in 1..i : phase[j] = "Queued" => HasSlot(j)
Reached(i) ==
    /\ Live(i)
    /\ \A j \in 1..(i - 1) : Live(j) => parallel[j] /\ parallel[i]
    /\ \A j \in 1..i : phase[j] = "Queued" => HasSlot(j)

(* earlier_unclassified: the pre-hook of an earlier call is still to run   *)
(* or to answer, and may yet turn that call into a serial one.             *)
Classified(i) == \A j \in 1..(i - 1) : phase[j] \notin {"Queued", "Preparing"}

(* What admit makes of call i.                                             *)
Admitted(i) ==
    CASE Reached(i) /\ phase[i] = "Queued" -> "Preparing"
      [] Reached(i) /\ phase[i] = "Prepared" /\ Classified(i) -> "Authorizing"
      [] Reached(i) /\ phase[i] = "Authorized" /\ Classified(i) -> "Running"
      [] OTHER -> phase[i]

(* The updates of the set U, in the order of their calls.                  *)
InCallOrder(U) ==
    {s \in UNION {[1..m -> U] : m \in 0..MaxCalls} :
        /\ Range(s) = U
        /\ \A i, j \in DOMAIN s : i < j => s[i].index < s[j].index}

admit ==
    /\ phase' = [i \in Calls |-> Admitted(i)]
    /\ LET started == {i \in 1..n : phase[i] = "Authorized" /\ Admitted(i) = "Running"}
       IN  \E s \in InCallOrder({Started(i) : i \in started}) : updates' = updates \o s

(* complete: the call is over and its result is announced.                 *)
complete(i, o) ==
    /\ phase' = [phase EXCEPT ![i] = "Complete"]
    /\ updates' = Append(updates, Completed(i, o))

-----------------------------------------------------------------------------
(* execute_response, one step of its select loop at a time.                *)

Over == ended /\ is_finished

(* The loop's head, when the abort signal is not up: break when all is     *)
(* done, else poll the scheduler if it has work.                           *)
Select ==
    /\ pc = "select"
    /\ \/ Over /\ pc' = "persist"
       \/ ~Over /\ ~aborted /\ pc' = (IF is_finished THEN "wait" ELSE "admit")
    /\ UNCHANGED <<callVars, updates, result, ended, aborted, failed, saveVars, observed>>

(* The abort branch comes first in the biased select.                      *)
SeeAbort ==
    /\ pc \in {"select", "wait"} /\ aborted
    /\ pc = "select" => ~Over
    /\ pc' = "cleanup"
    /\ UNCHANGED <<callVars, updates, result, ended, aborted, failed, saveVars, observed>>

(* New input is ready: stop sampling, let the admitted tools settle.       *)
YieldToInput ==
    /\ pc \in {"select", "wait"} /\ ~ended
    /\ ended' = TRUE
    /\ pc' = "select"
    /\ UNCHANGED <<callVars, updates, result, aborted, failed, saveVars, observed>>

(* next: admit unless aborted, then hand out an update if there is one.    *)
NextAdmits ==
    /\ pc = "admit"
    /\ IF aborted THEN UNCHANGED <<phase, updates>> ELSE admit
    /\ pc' = "pop"
    /\ UNCHANGED <<n, parallel, ran, result, ended, aborted, failed, saveVars, observed>>

NextPends ==
    /\ pc = "pop" /\ updates = <<>>
    /\ pc' = "wait"
    /\ UNCHANGED <<callVars, updates, result, ended, aborted, failed, saveVars, observed>>

(* persist_ready_results: push each result that is there, in call order,   *)
(* up to the first gap, or up to a push that fails and leaves nothing.     *)
(* Mutant: results are saved as they come.                                 *)
ReadyAnyOrder(res) == {k \in persisted..n : k > persisted => res[k] # "none"}
Ready(res) == {k \in persisted..n : \A j \in (persisted + 1)..k : res[j] # "none"}

PersistReady(res, k) ==
    /\ k \in Ready(res)
    /\ persisted' = k
    /\ log' = log \o [j \in 1..(k - persisted) |-> persisted + j]

AllReady(res, k) == k + 1 \in 1..n => res[k + 1] = "none"

(* observe_tool_update, then persist_ready_results.                        *)
Stored(u) ==
    IF u.kind = "Completed" THEN [result EXCEPT ![u.index] = u.outcome] ELSE result

ObserveUpdate ==
    /\ pc = "pop" /\ updates # <<>>
    /\ updates' = Tail(updates)
    /\ observed' = Append(observed, Head(updates))
    /\ result' = Stored(Head(updates))
    /\ \E k \in 0..n :
          /\ PersistReady(result', k)
          /\ \/ AllReady(result', k) /\ pc' = "select" /\ UNCHANGED failed
             \/ ~AllReady(result', k) /\ pc' = "cleanup" /\ failed' = TRUE
    /\ UNCHANGED <<callVars, ended, aborted>>

(* advance: a stage ended.  The pre-hook may rewrite the input, so the     *)
(* call is classified again; it may deny the call.                         *)
AdvancePrepared(i) ==
    /\ phase[i] = "Preparing"
    /\ \E p \in BOOLEAN : parallel' = [parallel EXCEPT ![i] = p]
    /\ \/ phase' = [phase EXCEPT ![i] = "Prepared"] /\ UNCHANGED updates
       \/ complete(i, "denied")
    /\ UNCHANGED ran

AdvanceAuthorized(i) ==
    /\ phase[i] = "Authorizing"
    /\ \/ phase' = [phase EXCEPT ![i] = "Authorized"] /\ UNCHANGED updates
       \/ complete(i, "denied")
    /\ UNCHANGED <<parallel, ran>>

AdvanceExecuted(i) ==
    /\ phase[i] = "Running"
    /\ phase' = [phase EXCEPT ![i] = "Finishing"]
    /\ ran' = [ran EXCEPT ![i] = TRUE]
    /\ UNCHANGED <<parallel, updates>>

AdvanceFinished(i) ==
    /\ phase[i] = "Finishing"
    /\ complete(i, "output")
    /\ UNCHANGED <<parallel, ran>>

Advance(i) ==
    /\ pc = "wait"
    /\ \/ AdvancePrepared(i) \/ AdvanceAuthorized(i)
       \/ AdvanceExecuted(i) \/ AdvanceFinished(i)
    /\ pc' = "admit"
    /\ UNCHANGED <<n, result, ended, aborted, failed, saveVars, observed>>

(* The stream delivers a whole tool call: the assistant message that holds *)
(* it is checkpointed and the call enqueued.                               *)
StreamToolUse(safe) ==
    /\ pc = "wait" /\ ~ended /\ n < MaxCalls
    /\ n' = n + 1
    /\ phase' = [phase EXCEPT ![n + 1] = "Queued"]
    /\ parallel' = [parallel EXCEPT ![n + 1] = safe]
    /\ pc' = "select"
    /\ UNCHANGED <<ran, updates, result, ended, aborted, failed, saveVars, observed>>

StreamEnds ==
    /\ pc = "wait" /\ ~ended
    /\ ended' = TRUE
    /\ pc' = "select"
    /\ UNCHANGED <<callVars, updates, result, aborted, failed, saveVars, observed>>

(* The provider fails, the stream stops short, or a tool call is refused:  *)
(* duplicate id, tools not allowed, checkpoint not written.                *)
StreamFails ==
    /\ pc = "wait" /\ ~ended
    /\ failed' = TRUE
    /\ pc' = "cleanup"
    /\ UNCHANGED <<callVars, updates, result, ended, aborted, saveVars, observed>>

(* cancel completes every unfinished call, with the tool's own output when *)
(* it has returned; then all updates are taken and observed.               *)
(* Mutants: output is thrown away; finished calls are answered again.      *)
CancelInterrupts(i) == Completed(i, "interrupted")
AllCalls == 1..n
Unfinished == {i \in 1..n : Live(i)}
CancelOutcome(i) == Completed(i, IF ran[i] THEN "output" ELSE "interrupted")

Cleanup ==
    /\ pc = "cleanup"
    /\ aborted' = TRUE
    /\ phase' = [i \in Calls |-> IF i \in 1..n THEN "Complete" ELSE "Absent"]
    /\ \E s \in InCallOrder({CancelOutcome(i) : i \in Unfinished}) :
          observed' = observed \o updates \o s
    /\ result' = [i \in Calls |->
                    IF Live(i) THEN CancelOutcome(i).outcome
                    ELSE IF \E k \in DOMAIN updates : updates[k].kind = "Completed"
                                                      /\ updates[k].index = i
                    THEN (CHOOSE u \in Range(updates) : u.kind = "Completed"
                                                        /\ u.index = i).outcome
                    ELSE result[i]]
    /\ updates' = <<>>
    /\ pc' = "persist"
    /\ UNCHANGED <<n, parallel, ran, ended, failed, saveVars>>

(* The last persist_ready_results; a failure does not stop the return.     *)
PersistRest ==
    /\ pc = "persist"
    /\ \E k \in 0..n :
          /\ PersistReady(result, k)
          /\ failed' = (failed \/ ~AllReady(result, k))
    /\ pc' = "checkpoint"
    /\ UNCHANGED <<callVars, updates, result, ended, aborted, observed>>

(* checkpoint_turn_response: the final assistant message, then the results *)
(* not persisted so far.  A write that fails fails the turn.               *)
Checkpoint ==
    /\ pc = "checkpoint"
    /\ \E k \in persisted..n :
          /\ log' = log \o [j \in 1..(k - persisted) |-> persisted + j]
          /\ pc' \in (IF k = n THEN {"returned", "turn failed"} ELSE {"turn failed"})
    /\ UNCHANGED <<callVars, updates, result, ended, aborted, failed, persisted, observed>>

(* Somebody cancels the turn.                                              *)
Abort ==
    /\ pc \notin {"returned", "turn failed"} /\ ~aborted
    /\ aborted' = TRUE
    /\ UNCHANGED <<callVars, updates, result, pc, ended, failed, saveVars, observed>>

Returned == pc \in {"returned", "turn failed"} /\ UNCHANGED vars

LoopStep ==
    \/ Select \/ SeeAbort \/ NextAdmits \/ NextPends \/ ObserveUpdate
    \/ Cleanup \/ PersistRest \/ Checkpoint

StreamStep ==
    \/ \E safe \in BOOLEAN : StreamToolUse(safe)
    \/ StreamEnds \/ StreamFails

Next ==
    \/ LoopStep \/ StreamStep \/ YieldToInput
    \/ \E i \in Calls : Advance(i)
    \/ Abort \/ Returned

Spec == Init /\ [][Next]_vars

(* The loop's task runs.  The provider's stream delivers or fails, and     *)
(* hooks, approvals and tools answer: assumptions about the outside world. *)
Fairness ==
    /\ WF_vars(LoopStep)
    /\ WF_vars(StreamStep)
    /\ \A i \in Calls : WF_vars(Advance(i))

FairSpec == Spec /\ Fairness

-----------------------------------------------------------------------------
(* Properties.                                                             *)

(* A call that is not concurrency-safe runs alone: while it is being       *)
(* approved, runs or finishes, no other call of the response does.  The    *)
(* hook of an earlier call may turn it serial after later calls are        *)
(* prepared, or even queued behind it, so this rests on the order in which *)
(* admit lets calls pass.                                                  *)
SerialAlone ==
    \A i, j \in Calls :
        (i # j /\ phase[i] \in Late /\ phase[j] \in Late) => parallel[i] /\ parallel[j]

(* The module comment of tool_execution.rs: "Admission stays ordered so a  *)
(* hook that changes a read into a write fences every later call,          *)
(* including already-prepared ones".                                       *)
OrderFence ==
    \A i, j \in Calls :
        (j < i /\ phase[i] \in Late) =>
            /\ phase[j] \notin {"Queued", "Preparing"}
            /\ phase[j] # "Complete" => parallel[j] /\ parallel[i]

(* The loop waits on the scheduler alone only when a stage is under way;   *)
(* std::future::pending in next is never the only thing left.              *)
NeverStuck ==
    (pc = "wait" /\ ended /\ ~aborted) => \E i \in 1..n : phase[i] \in Waiting

(* "Preserve completed outputs": a tool that returned keeps its output as  *)
(* its result through every cancel, and a call that did not run is never   *)
(* reported as if it had.                                                  *)
OutputPreserved ==
    \A i \in Calls : result[i] # "none" => (result[i] = "output" <=> ran[i])

(* "answer each unfinished id exactly once": the observer sees at most one *)
(* result per call, and a start, if any, before it.                        *)
ObservedOnce ==
    \A k, l \in DOMAIN observed :
        /\ (observed[k].index = observed[l].index /\ observed[k].kind = observed[l].kind)
               => k = l
        /\ (observed[k].index = observed[l].index /\ k < l)
               => observed[k].kind = "Started"

(* Results enter the transcript in call order, without gap or repetition,  *)
(* whichever order the tools finish in and whichever push fails; and a     *)
(* response that returns has a result for every call of it.                *)
ResultsInOrder ==
    /\ \A k \in DOMAIN log : log[k] = k /\ result[k] # "none"
    /\ pc = "returned" => Len(log) = n

(* The response is always over in the end.                                 *)
ResponseEnds == <>(pc \in {"returned", "turn failed"})
=============================================================================
