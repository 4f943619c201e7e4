------------------------ MODULE TurnInputCoordinator ------------------------
(***************************************************************************)
(* The scheduling policy of one session's inputs: the state and the        *)
(* methods of TurnInputCoordinator (engine-core/src/input_queue.rs), as    *)
(* operators from a coordinator to a coordinator.  The session's input     *)
(* service (SessionInputs) and the terminal (TerminalInputs) each own one. *)
(*                                                                         *)
(* An input is known by the id the coordinator gives it.  Ids are handed   *)
(* out in increasing order, so an id is also the input's submission rank.  *)
(***************************************************************************)
EXTENDS Orders

CONSTANT MaxInputs        \* bound: how many ids are ever handed out

ASSUME MaxInputsAssumption == MaxInputs \in Nat

Ids == 1..MaxInputs

(* Cancelling{resume_requested} is two phases here: "Cancelling" and, once  *)
(* a resume was asked for, "Resuming".                                     *)
Phase == {"Idle", "Preparing", "Running", "Cancelling", "Resuming", "Paused"}

(* queue: inputs waiting for a turn boundary, oldest first.  steering:     *)
(* the BTreeMap of inputs handed to the engine and not yet acknowledged.   *)
Coordinator ==
    [queue : Seq(Ids), steering : SUBSET Ids, next_id : 0..MaxInputs, phase : Phase]

NewCoordinator ==
    [queue |-> <<>>, steering |-> {}, next_id |-> 0, phase |-> "Idle"]

can_start(c) == c.phase = "Idle"
can_steer(c) == c.phase \in {"Preparing", "Running"}
can_deliver(c) == c.phase = "Running"
is_running(c) == c.phase \in {"Preparing", "Running", "Cancelling", "Resuming"}
(* Mutant: a turn that is being cancelled does not count as paused.        *)
is_paused_late(c) == c.phase = "Paused"
is_paused(c) == c.phase \in {"Cancelling", "Paused"}
has_idle_queue(c) == ~is_running(c) /\ c.queue # <<>>
has_pending_input(c) == c.queue # <<>> \/ c.steering # {}

start_turn(c) == [c EXCEPT !.phase = "Preparing"]
turn_started(c) == IF c.phase = "Preparing" THEN [c EXCEPT !.phase = "Running"] ELSE c
cancel_turn(c) == [c EXCEPT !.phase = "Cancelling"]

(* The command turn_started returns, read off the coordinator before it:   *)
(* Steer with everything staged during preparation, or the Cancel that     *)
(* came before the engine could take it.  Mutant: no such Cancel.          *)
started_cancels_not(c) == FALSE
started_cancels(c) == c.phase \in {"Cancelling", "Resuming"}

started_steers(c) == c.phase = "Preparing" /\ c.steering # {}

resume(c) ==
    [c EXCEPT !.phase = CASE @ \in {"Cancelling", "Resuming"} -> "Resuming"
                          [] @ = "Paused" -> "Idle"
                          [] OTHER -> @]

(* A fresh input takes the next id; enqueue and steer store it.            *)
identify(c) == [c EXCEPT !.next_id = @ + 1]
enqueue(c, id) == [c EXCEPT !.queue = Append(@, id)]
steer(c, id) == [c EXCEPT !.steering = @ \cup {id}]
flush(c) == [c EXCEPT !.steering = @ \cup Range(c.queue), !.queue = <<>>]
committed(c, id) == [c EXCEPT !.steering = @ \ {id}]

(* The inputs of the set S in the order they were submitted.               *)
InIdOrder(S) == Ascending(S, MaxInputs)

(* defer each of ids, in order: what is still in steering goes to the back *)
(* of the queue.  kept is ids without what steering no longer holds.       *)
(* Mutant of it: the inputs leave steering and reach no queue.             *)
defer_drops(c, kept) == [c EXCEPT !.steering = @ \ Range(kept)]
defer(c, kept) ==
    [c EXCEPT !.queue = @ \o kept, !.steering = @ \ Range(kept)]

(* finish_turn: unacknowledged steering returns to the front of the queue, *)
(* in id order (recover_uncommitted; ordered is that order), and a         *)
(* cancelled turn leaves the session paused while anything is queued.      *)
(* Mutants of it: uncommitted inputs are forgotten; they are not taken     *)
(* back from the engine.                                                   *)
finish_turn_forgets(c, ordered) ==
    [c EXCEPT !.steering = {},
              !.phase = IF is_paused(c) /\ c.queue # <<>> THEN "Paused" ELSE "Idle"]
finish_turn_leaves(c, ordered) ==
    [c EXCEPT !.phase = IF is_paused(c) /\ c.queue # <<>> THEN "Paused" ELSE "Idle"]
finish_turn(c, ordered) ==
    LET q == ordered \o c.queue
    IN  [c EXCEPT !.queue = q,
                  !.steering = {},
                  !.phase = IF is_paused(c) /\ q # <<>> THEN "Paused" ELSE "Idle"]

(* recall_human: rest is the queue without the human inputs.               *)
(* Mutant of it: the editor gets copies.                                   *)
recall_copies(c, rest) == c
recall_human(c, rest) == [c EXCEPT !.queue = rest]

(* The terminal's own calls.  An idle submit becomes a prompt without ever *)
(* getting an id; a submit during a turn is queued, or rejected when the   *)
(* queue is off; drain_next takes the whole queue as the next prompt.      *)
submit_when_idle(c) == c
submit_during_turn(c, id, queue_enabled) ==
    IF queue_enabled THEN enqueue(identify(c), id) ELSE c
drain_next(c) == [c EXCEPT !.queue = <<>>]
dequeue_all_human(c, rest) == [c EXCEPT !.queue = rest]
clear(c) == [c EXCEPT !.queue = <<>>, !.steering = {}]
=============================================================================
