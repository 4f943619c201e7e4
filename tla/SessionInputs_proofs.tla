------------------------- MODULE SessionInputs_proofs -------------------------
(***************************************************************************)
(* Proofs about SessionInputs, for any clients, tasks, hosts and limits.   *)
(***************************************************************************)
EXTENDS SessionInputs, Orders_proofs, FiniteSetTheorems, TLAPS

-----------------------------------------------------------------------------
(* The methods of the coordinator.                                         *)

(* Nothing but the phase.                                                  *)
SameInputs(c, d) ==
    d.queue = c.queue /\ d.steering = c.steering /\ d.next_id = c.next_id

(* The types of the coordinator's fields.                                  *)
LEMMA CoordinatorFields ==
    ASSUME NEW c \in Coordinator
    PROVE  /\ c.queue \in Seq(Ids) /\ c.steering \subseteq Ids
           /\ c.next_id \in 0..MaxInputs /\ c.phase \in Phase
  BY DEF Coordinator

(* A change of phase moves no input.                                       *)
LEMMA PhaseOp ==
    ASSUME NEW c \in Coordinator, NEW ph \in Phase
    PROVE  /\ [c EXCEPT !.phase = ph] \in Coordinator
           /\ [c EXCEPT !.phase = ph].phase = ph
           /\ SameInputs(c, [c EXCEPT !.phase = ph])
  BY DEF Coordinator, SameInputs

(* cancel_turn only changes the phase ...                                  *)
LEMMA CancelOp ==
    ASSUME NEW c \in Coordinator
    PROVE  /\ cancel_turn(c) \in Coordinator /\ SameInputs(c, cancel_turn(c))
           /\ cancel_turn(c).phase = "Cancelling"
  BY PhaseOp DEF cancel_turn, Phase

(* ... and so does start_turn ...                                          *)
LEMMA StartOp ==
    ASSUME NEW c \in Coordinator
    PROVE  /\ start_turn(c) \in Coordinator /\ SameInputs(c, start_turn(c))
           /\ start_turn(c).phase = "Preparing"
  BY PhaseOp DEF start_turn, Phase

(* ... and turn_started ...                                                *)
LEMMA StartedOp ==
    ASSUME NEW c \in Coordinator
    PROVE  /\ turn_started(c) \in Coordinator /\ SameInputs(c, turn_started(c))
           /\ turn_started(c).phase =
                 IF c.phase = "Preparing" THEN "Running" ELSE c.phase
<1>1. CASE c.phase = "Preparing"
  <2>1. turn_started(c) = [c EXCEPT !.phase = "Running"] /\ "Running" \in Phase
    BY <1>1 DEF turn_started, Phase
  <2> QED  BY <1>1, <2>1, PhaseOp
<1>2. CASE c.phase # "Preparing"
  BY <1>2 DEF turn_started, SameInputs
<1> QED  BY <1>1, <1>2

(* ... and resume, which neither starts nor stops a turn.                  *)
LEMMA ResumeOp ==
    ASSUME NEW c \in Coordinator
    PROVE  /\ resume(c) \in Coordinator /\ SameInputs(c, resume(c))
           /\ is_running(resume(c)) <=> is_running(c)
           /\ can_deliver(resume(c)) <=> can_deliver(c)
<1> DEFINE ph == CASE c.phase \in {"Cancelling", "Resuming"} -> "Resuming"
                   [] c.phase = "Paused" -> "Idle"
                   [] OTHER -> c.phase
<1>1. /\ ph \in Phase
      /\ ph \in {"Preparing", "Running", "Cancelling", "Resuming"} <=> is_running(c)
      /\ ph = "Running" <=> c.phase = "Running"
  BY CoordinatorFields DEF Phase, is_running
<1>2. resume(c) = [c EXCEPT !.phase = ph]
  BY DEF resume
<1> HIDE DEF ph
<1>3. resume(c).phase = ph
  BY <1>1, <1>2, PhaseOp
<1> QED  BY <1>1, <1>2, <1>3, PhaseOp DEF is_running, can_deliver

(* A new input takes the next id, in the queue or in steering.             *)
LEMMA EnqueueOp ==
    ASSUME NEW c \in Coordinator, c.next_id < MaxInputs, NEW d,
           d = enqueue(identify(c), c.next_id + 1)
    PROVE  /\ d \in Coordinator
           /\ d.queue = Append(c.queue, c.next_id + 1)
           /\ d.steering = c.steering
           /\ d.next_id = c.next_id + 1 /\ d.phase = c.phase
<1>1. c.next_id + 1 \in 0..MaxInputs /\ c.next_id + 1 \in Ids
  BY MaxInputsAssumption DEF Coordinator, Ids
<1>2. identify(c) \in Coordinator /\ identify(c).next_id = c.next_id + 1
      /\ identify(c).queue = c.queue /\ identify(c).steering = c.steering
      /\ identify(c).phase = c.phase
  BY <1>1 DEF identify, Coordinator
<1>3. Append(c.queue, c.next_id + 1) \in Seq(Ids)
  BY <1>1 DEF Coordinator
<1> QED  BY <1>2, <1>3 DEF enqueue, Coordinator

(* steer gives a fresh input to the engine.                                *)
LEMMA SteerOp ==
    ASSUME NEW c \in Coordinator, c.next_id < MaxInputs, NEW d,
           d = steer(identify(c), c.next_id + 1)
    PROVE  /\ d \in Coordinator
           /\ d.queue = c.queue
           /\ d.steering = c.steering \cup {c.next_id + 1}
           /\ d.next_id = c.next_id + 1 /\ d.phase = c.phase
<1>1. c.next_id + 1 \in 0..MaxInputs /\ c.next_id + 1 \in Ids
  BY MaxInputsAssumption DEF Coordinator, Ids
<1>2. identify(c) \in Coordinator /\ identify(c).next_id = c.next_id + 1
      /\ identify(c).queue = c.queue /\ identify(c).steering = c.steering
      /\ identify(c).phase = c.phase
  BY <1>1 DEF identify, Coordinator
<1> QED  BY <1>1, <1>2 DEF steer, Coordinator

(* flush gives the whole queue to the engine.                              *)
LEMMA FlushOp ==
    ASSUME NEW c \in Coordinator
    PROVE  /\ flush(c) \in Coordinator
           /\ flush(c).queue = <<>>
           /\ flush(c).steering = c.steering \cup Range(c.queue)
           /\ flush(c).next_id = c.next_id /\ flush(c).phase = c.phase
<1>1. Range(c.queue) \subseteq Ids /\ c.queue \in Seq(Ids)
  BY RangeType DEF Coordinator
<1>2. <<>> \in Seq(Ids)
  OBVIOUS
<1> QED  BY <1>1, <1>2 DEF flush, Coordinator

(* committed takes one input from the engine.                              *)
LEMMA CommittedOp ==
    ASSUME NEW c \in Coordinator, NEW id
    PROVE  /\ committed(c, id) \in Coordinator
           /\ committed(c, id).queue = c.queue
           /\ committed(c, id).steering = c.steering \ {id}
           /\ committed(c, id).next_id = c.next_id
           /\ committed(c, id).phase = c.phase
  BY DEF committed, Coordinator

(* defer moves inputs from the engine to the end of the queue.             *)
LEMMA DeferOp ==
    ASSUME NEW c \in Coordinator, NEW k \in Seq(Ids)
    PROVE  /\ defer(c, k) \in Coordinator
           /\ defer(c, k).queue = c.queue \o k
           /\ defer(c, k).steering = c.steering \ Range(k)
           /\ defer(c, k).next_id = c.next_id
           /\ defer(c, k).phase = c.phase
<1>1. c.queue \o k \in Seq(Ids)
  BY DEF Coordinator
<1> QED  BY <1>1 DEF defer, Coordinator

(* finish_turn puts what the engine held at the front of the queue.        *)
LEMMA FinishOp ==
    ASSUME NEW c \in Coordinator, NEW s \in Seq(Ids)
    PROVE  /\ finish_turn(c, s) \in Coordinator
           /\ finish_turn(c, s).queue = s \o c.queue
           /\ finish_turn(c, s).steering = {}
           /\ finish_turn(c, s).next_id = c.next_id
           /\ finish_turn(c, s).phase \in {"Idle", "Paused"}
           /\ is_paused(c) /\ s \o c.queue # <<>> => finish_turn(c, s).phase = "Paused"
<1> DEFINE q == s \o c.queue
           ph == IF is_paused(c) /\ q # <<>> THEN "Paused" ELSE "Idle"
<1>1. q \in Seq(Ids) /\ ph \in Phase
  BY DEF Coordinator, Phase
<1>2. finish_turn(c, s) = [c EXCEPT !.queue = q, !.steering = {}, !.phase = ph]
  BY DEF finish_turn
<1>3. ph \in {"Idle", "Paused"} /\ (is_paused(c) /\ q # <<>> => ph = "Paused")
  OBVIOUS
<1> HIDE DEF q, ph
<1>4. /\ finish_turn(c, s) \in Coordinator
      /\ finish_turn(c, s).queue = q /\ finish_turn(c, s).steering = {}
      /\ finish_turn(c, s).next_id = c.next_id /\ finish_turn(c, s).phase = ph
  BY <1>1, <1>2 DEF Coordinator
<1> QED  BY <1>3, <1>4 DEF q

(* recall_human replaces the queue.                                        *)
LEMMA RecallOp ==
    ASSUME NEW c \in Coordinator, NEW r \in Seq(Ids)
    PROVE  /\ recall_human(c, r) \in Coordinator
           /\ recall_human(c, r).queue = r
           /\ recall_human(c, r).steering = c.steering
           /\ recall_human(c, r).next_id = c.next_id
           /\ recall_human(c, r).phase = c.phase
  BY DEF recall_human, Coordinator

-----------------------------------------------------------------------------
(* The inbox.                                                              *)

Inbox == [open : BOOLEAN, pending : Seq(Ids)]

(* Opening, closing and filling the inbox keep its type.                   *)
LEMMA InboxOp ==
    ASSUME NEW b \in Inbox
    PROVE  /\ b.pending \in Seq(Ids)
           /\ [b EXCEPT !.open = TRUE] \in Inbox
           /\ [b EXCEPT !.open = TRUE].pending = b.pending
           /\ [b EXCEPT !.open = FALSE] \in Inbox
           /\ [b EXCEPT !.open = FALSE].pending = b.pending
           /\ \A q \in Seq(Ids) : /\ [b EXCEPT !.pending = q] \in Inbox
                                  /\ [b EXCEPT !.pending = q].pending = q
  BY DEF Inbox

(* The closed inbox is empty.                                              *)
LEMMA ClosedInboxType == ClosedInbox \in Inbox /\ ClosedInbox.pending = <<>>
<1>1. <<>> \in Seq(Ids)
  OBVIOUS
<1> QED  BY <1>1 DEF ClosedInbox, Inbox

(* The type invariant types the inbox.                                     *)
LEMMA InboxTyped == TypeOK => inbox \in Inbox /\ inbox.pending \in Seq(Ids)
<1>1. TypeOK => inbox \in Inbox
  BY DEF TypeOK, Inbox
<1> QED  BY <1>1, InboxOp

-----------------------------------------------------------------------------
(* What the coordinator's and the inbox's part of each action comes to.    *)

(* A fresh input in the queue.                                             *)
Enqueued ==
    /\ coord'.queue = Append(coord.queue, coord.next_id + 1)
    /\ coord'.steering = coord.steering
    /\ inbox' = inbox

(* A fresh input handed to the running turn.                               *)
Steered ==
    /\ coord'.queue = coord.queue
    /\ coord'.steering = coord.steering \cup {coord.next_id + 1}
    /\ inbox' = [inbox EXCEPT !.pending = @ \o <<coord.next_id + 1>>]

(* The queue and steering never share an input, and hold only ids given.   *)
QueueApart ==
    /\ Range(coord.queue) \cap coord.steering = {}
    /\ coord.steering \subseteq 1..coord.next_id

(* A new input is queued, or handed to the turn that can take it.          *)
LEMMA AcceptNewOp ==
    ASSUME TypeOK, NEW c \in Clients, NEW steering, AcceptNew(c, steering)
    PROVE  /\ coord' \in Coordinator
           /\ coord'.next_id = coord.next_id + 1
           /\ is_running(coord') <=> is_running(coord)
           /\ QueueApart => Enqueued \/ (can_deliver(coord) /\ Steered)
           /\ inbox' = inbox \/ (can_deliver(coord) /\ Steered)
<1> DEFINE base == IF c \in Humans /\ steering THEN resume(coord) ELSE coord
           id == coord.next_id + 1
<1>1. coord \in Coordinator /\ coord.next_id < MaxInputs /\ coord.next_id \in Int
  BY CoordinatorFields DEF TypeOK, AcceptNew
<1>2. /\ base \in Coordinator /\ SameInputs(coord, base)
      /\ is_running(base) <=> is_running(coord)
      /\ can_deliver(base) <=> can_deliver(coord)
  <2>1. SameInputs(coord, coord)
    BY DEF SameInputs
  <2> QED  BY <1>1, <2>1, ResumeOp
<1>3. /\ IF steering /\ can_deliver(base)
         THEN Admit(steer(identify(base), id), <<id>>)
         ELSE coord' = enqueue(identify(base), id) /\ UNCHANGED inbox
  BY DEF AcceptNew
<1>4. base.next_id = coord.next_id /\ base.queue = coord.queue
      /\ base.steering = coord.steering /\ id = base.next_id + 1
  BY <1>2 DEF SameInputs
<1> HIDE DEF base
<1>5. id \in Ids
  BY <1>1, MaxInputsAssumption DEF Ids, Coordinator
<1>6. CASE ~(steering /\ can_deliver(base))
  <2>1. coord' = enqueue(identify(base), base.next_id + 1) /\ inbox' = inbox
    BY <1>3, <1>4, <1>6
  <2>2. /\ coord' \in Coordinator
        /\ coord'.queue = Append(base.queue, base.next_id + 1)
        /\ coord'.steering = base.steering
        /\ coord'.next_id = base.next_id + 1 /\ coord'.phase = base.phase
    BY <1>1, <1>2, <1>4, <2>1, EnqueueOp
  <2> QED  BY <1>2, <1>4, <2>1, <2>2 DEF Enqueued, is_running
<1>7. CASE steering /\ can_deliver(base)
  <2> DEFINE d == steer(identify(base), base.next_id + 1)
  <2>1. Admit(d, <<id>>)
    BY <1>3, <1>4, <1>7
  <2>2. /\ d \in Coordinator
        /\ d.queue = base.queue
        /\ d.steering = base.steering \cup {base.next_id + 1}
        /\ d.next_id = base.next_id + 1 /\ d.phase = base.phase
    BY <1>1, <1>2, <1>4, SteerOp
  <2> HIDE DEF d
  <2>3. CASE inbox.open
    <3>1. coord' = d /\ inbox' = [inbox EXCEPT !.pending = @ \o <<id>>]
      BY <2>1, <2>3 DEF Admit, InboxAdmits
    <3> QED  BY <1>2, <1>4, <1>7, <2>2, <3>1 DEF Steered, is_running
  <2>4. CASE ~inbox.open
    <3> DEFINE k == <<id>>
    <3>1. coord' = defer(d, k) /\ inbox' = inbox
      BY <2>1, <2>4 DEF Admit
    <3>2. k \in Seq(Ids) /\ Range(k) = {id}
      BY <1>5, RangeSingle
    <3>3. base.queue \o k = Append(coord.queue, id)
      BY <1>4, <1>1 DEF Coordinator
    <3> HIDE DEF k
    <3>4. /\ coord' \in Coordinator
          /\ coord'.queue = d.queue \o k
          /\ coord'.steering = d.steering \ Range(k)
          /\ coord'.next_id = d.next_id /\ coord'.phase = d.phase
      BY <2>2, <3>1, <3>2, DeferOp
    <3>5. QueueApart => id \notin coord.steering
      BY <1>1 DEF QueueApart
    <3>6. QueueApart => Enqueued
      BY <1>4, <2>2, <3>1, <3>2, <3>3, <3>4, <3>5 DEF Enqueued
    <3> QED  BY <1>2, <1>4, <2>2, <3>1, <3>4, <3>6 DEF is_running
  <2> QED  BY <2>3, <2>4
<1> QED  BY <1>6, <1>7

(* Queued input handed to the running turn.                                *)
Flushed ==
    /\ coord'.queue = <<>>
    /\ coord'.steering = coord.steering \cup Range(coord.queue)
    /\ inbox' = [inbox EXCEPT !.pending = @ \o coord.queue]

(* Queued input enters the running turn, or nothing moves.                 *)
LEMMA FlushPendingOp ==
    ASSUME TypeOK, FlushPending
    PROVE  /\ coord' \in Coordinator
           /\ coord'.next_id = coord.next_id
           /\ is_running(coord') <=> is_running(coord)
           /\ QueueApart => \/ SameInputs(coord, coord') /\ inbox' = inbox
                            \/ can_deliver(coord) /\ Flushed
           /\ inbox' = inbox \/ (can_deliver(coord) /\ Flushed)
<1> DEFINE base == resume(coord)
<1>1. coord \in Coordinator
  BY DEF TypeOK
<1>2. /\ base \in Coordinator /\ SameInputs(coord, base)
      /\ is_running(base) <=> is_running(coord)
      /\ can_deliver(base) <=> can_deliver(coord)
  BY <1>1, ResumeOp
<1>3. IF can_deliver(base) THEN Admit(flush(base), base.queue)
      ELSE coord' = base /\ UNCHANGED inbox
  BY DEF FlushPending
<1>4. base.next_id = coord.next_id /\ base.queue = coord.queue
      /\ base.steering = coord.steering /\ base.queue \in Seq(Ids)
  BY <1>2, CoordinatorFields DEF SameInputs
<1> HIDE DEF base
<1>5. CASE ~can_deliver(base)
  BY <1>2, <1>3, <1>4, <1>5
<1>6. CASE can_deliver(base)
  <2> DEFINE d == flush(base)
  <2>1. /\ d \in Coordinator
        /\ d.queue = <<>>
        /\ d.steering = base.steering \cup Range(base.queue)
        /\ d.next_id = base.next_id /\ d.phase = base.phase
    BY <1>2, FlushOp
  <2>2. Admit(d, base.queue)
    BY <1>3, <1>6
  <2> HIDE DEF d
  <2>3. CASE inbox.open
    <3>1. coord' = d /\ inbox' = [inbox EXCEPT !.pending = @ \o coord.queue]
      BY <1>4, <2>2, <2>3 DEF Admit, InboxAdmits
    <3> QED  BY <1>2, <1>4, <1>6, <2>1, <3>1 DEF Flushed, is_running
  <2>4. CASE ~inbox.open
    <3>1. coord' = defer(d, base.queue) /\ inbox' = inbox
      BY <2>2, <2>4 DEF Admit
    <3>2. /\ coord' \in Coordinator
          /\ coord'.queue = d.queue \o base.queue
          /\ coord'.steering = d.steering \ Range(base.queue)
          /\ coord'.next_id = d.next_id /\ coord'.phase = d.phase
      BY <1>4, <2>1, <3>1, DeferOp
    <3>3. d.queue \o base.queue = coord.queue
      BY <1>4, <2>1
    <3>4. QueueApart => coord'.steering = coord.steering
      BY <1>4, <2>1, <3>2 DEF QueueApart
    <3>5. QueueApart => SameInputs(coord, coord')
      BY <1>4, <2>1, <3>2, <3>3, <3>4 DEF SameInputs
    <3> QED  BY <1>2, <1>4, <2>1, <3>1, <3>2, <3>5 DEF is_running
  <2> QED  BY <2>3, <2>4
<1> QED  BY <1>5, <1>6

(* The end of a turn: what the engine held is queued again.                *)
Recovered ==
    /\ coord'.steering = {}
    /\ Range(coord'.queue) = Range(coord.queue) \cup coord.steering
    /\ coord'.next_id = coord.next_id
    /\ ~is_running(coord')

(* finish_turn on all that the engine holds loses and repeats nothing.     *)
LEMMA FinishedOp ==
    ASSUME NEW c \in Coordinator, NEW s \in InIdOrder(c.steering)
    PROVE  /\ finish_turn(c, s) \in Coordinator
           /\ finish_turn(c, s).steering = {}
           /\ Range(finish_turn(c, s).queue) = Range(c.queue) \cup c.steering
           /\ finish_turn(c, s).next_id = c.next_id
           /\ ~is_running(finish_turn(c, s))
           /\ IsInjective(c.queue) /\ Range(c.queue) \cap c.steering = {}
                 => IsInjective(finish_turn(c, s).queue)
           /\ is_paused(c) => \/ finish_turn(c, s).queue = <<>>
                              \/ finish_turn(c, s).phase = "Paused"
           /\ c.steering = {} => finish_turn(c, s).queue = c.queue
<1>1. c.queue \in Seq(Ids) /\ c.steering \subseteq Int /\ c.steering \subseteq Ids
  BY CoordinatorFields, MaxInputsAssumption DEF Ids
<1>2. s \in Seq(c.steering) /\ Range(s) = c.steering /\ IsInjective(s)
  BY <1>1, AscendingDistinct, MaxInputsAssumption DEF InIdOrder
<1>3. s \in Seq(Ids)
  BY <1>1, <1>2
<1>4. /\ Range(s \o c.queue) = Range(s) \cup Range(c.queue)
      /\ IsInjective(s) /\ IsInjective(c.queue) /\ Range(s) \cap Range(c.queue) = {}
             => IsInjective(s \o c.queue)
  BY <1>1, <1>3, RangeConcat
<1>5. c.steering = {} => s \o c.queue = c.queue
  <2>1. c.steering = {} => s = <<>>
    BY <1>2, <1>3, RangeType
  <2> QED  BY <1>1, <2>1
<1> QED  BY <1>2, <1>3, <1>4, <1>5, FinishOp DEF is_running

(* The same when the turn was cancelled before its prompt was accepted.    *)
LEMMA CancelFinishOp ==
    ASSUME TypeOK, NEW s \in InIdOrder(coord.steering),
           coord' = finish_turn(cancel_turn(coord), s)
    PROVE  /\ coord' \in Coordinator /\ Recovered
           /\ IsInjective(coord.queue) /\ QueueApart => IsInjective(coord'.queue)
           /\ coord.steering = {} => SameInputs(coord, coord')
<1>1. coord \in Coordinator
  BY DEF TypeOK
<1>2. cancel_turn(coord) \in Coordinator /\ SameInputs(coord, cancel_turn(coord))
  BY <1>1, CancelOp
<1> DEFINE c == cancel_turn(coord)
<1>3. c.queue = coord.queue /\ c.steering = coord.steering /\ c.next_id = coord.next_id
  BY <1>2 DEF SameInputs
<1>4. c \in Coordinator /\ coord' = finish_turn(c, s) /\ s \in InIdOrder(c.steering)
  BY <1>2, <1>3
<1> HIDE DEF c
<1>5. /\ coord' \in Coordinator
      /\ coord'.steering = {}
      /\ Range(coord'.queue) = Range(c.queue) \cup c.steering
      /\ coord'.next_id = c.next_id
      /\ ~is_running(coord')
      /\ IsInjective(c.queue) /\ Range(c.queue) \cap c.steering = {}
            => IsInjective(coord'.queue)
      /\ c.steering = {} => coord'.queue = c.queue
  BY <1>4, FinishedOp
<1> QED  BY <1>3, <1>5 DEF Recovered, QueueApart, SameInputs

(* The same when the worker's result arrives.                              *)
LEMMA WorkerEndedOp ==
    ASSUME TypeOK, WorkerEnded
    PROVE  /\ coord' \in Coordinator /\ Recovered
           /\ IsInjective(coord.queue) /\ QueueApart /\ IsInjective(inbox.pending)
                 => IsInjective(coord'.queue)
           /\ coord.phase = "Cancelling" => coord'.queue = <<>> \/ coord'.phase = "Paused"
<1>1. coord \in Coordinator /\ coord.queue \in Seq(Ids) /\ inbox.pending \in Seq(Ids)
  BY InboxTyped, CoordinatorFields DEF TypeOK
<1>2. PICK published \in BOOLEAN, kept \in Kept(inbox.pending, coord.steering) :
         LET deferred == defer(coord, kept)
             ended == IF worker = "complete" /\ published THEN deferred
                                                         ELSE cancel_turn(deferred)
         IN  \E s \in InIdOrder(ended.steering) : coord' = finish_turn(ended, s)
  BY DEF WorkerEnded
<1> DEFINE deferred == defer(coord, kept)
           ended == IF worker = "complete" /\ published THEN deferred
                                                       ELSE cancel_turn(deferred)
<1>3. PICK s \in InIdOrder(ended.steering) : coord' = finish_turn(ended, s)
  BY <1>2
<1>4. /\ kept \in Seq(Ids) /\ Range(kept) = Range(inbox.pending) \cap coord.steering
      /\ IsInjective(inbox.pending) => IsInjective(kept)
  BY <1>1, KeptType, KeptDistinct
<1>5. /\ deferred \in Coordinator
      /\ deferred.queue = coord.queue \o kept
      /\ deferred.steering = coord.steering \ Range(kept)
      /\ deferred.next_id = coord.next_id
      /\ deferred.phase = coord.phase
  BY <1>1, <1>4, DeferOp
<1> HIDE DEF deferred
<1>6. /\ ended \in Coordinator /\ SameInputs(deferred, ended)
      /\ ended.phase \in {deferred.phase, "Cancelling"}
  <2>1. SameInputs(deferred, deferred)
    BY DEF SameInputs
  <2> QED  BY <1>5, <2>1, CancelOp
<1> HIDE DEF ended
<1>7. /\ coord' \in Coordinator
      /\ coord'.steering = {}
      /\ Range(coord'.queue) = Range(ended.queue) \cup ended.steering
      /\ coord'.next_id = ended.next_id
      /\ ~is_running(coord')
      /\ IsInjective(ended.queue) /\ Range(ended.queue) \cap ended.steering = {}
            => IsInjective(coord'.queue)
      /\ is_paused(ended) => coord'.queue = <<>> \/ coord'.phase = "Paused"
  BY <1>3, <1>6, FinishedOp
<1>8. /\ Range(coord.queue \o kept) = Range(coord.queue) \cup Range(kept)
      /\ IsInjective(coord.queue) /\ IsInjective(kept) /\ Range(coord.queue) \cap Range(kept) = {}
             => IsInjective(coord.queue \o kept)
  BY <1>1, <1>4, RangeConcat
<1>9. /\ ended.queue = coord.queue \o kept /\ ended.steering = coord.steering \ Range(kept)
      /\ ended.next_id = coord.next_id
  BY <1>5, <1>6 DEF SameInputs
<1>10. Recovered
  BY <1>4, <1>7, <1>8, <1>9 DEF Recovered
<1>11. IsInjective(coord.queue) /\ QueueApart /\ IsInjective(inbox.pending)
         => IsInjective(coord'.queue)
  BY <1>4, <1>7, <1>8, <1>9 DEF QueueApart
<1>12. coord.phase = "Cancelling" => is_paused(ended)
  BY <1>5, <1>6 DEF is_paused
<1> QED  BY <1>7, <1>10, <1>11, <1>12

-----------------------------------------------------------------------------
(* Types.                                                                  *)

(* The part of the state that names inputs, and the rest.                  *)
InputTypes ==
    /\ coord \in Coordinator
    /\ accepted \in [Clients -> 0..MaxInputs]
    /\ owner \in [Ids -> Clients \cup {NoOne}]
    /\ recalled \subseteq Ids
    /\ inbox \in [open : BOOLEAN, pending : Seq(Ids)]
    /\ prompt \in Seq(Ids)
    /\ batch \in Seq(Ids)
    /\ transcript \in Seq(Ids)
ControlTypes ==
    /\ native \in BOOLEAN /\ watched \in BOOLEAN
    /\ finished \subseteq Tasks
    /\ lifecycle \in [holder : Hosts \cup {NoOne}, allow_inputs : BOOLEAN]
    /\ host \in [Hosts -> {"Waiting", "Holding", "Prompting", "Answered", "Refused", "Gone"}]
    /\ driver \in {"select", "starting", "turn", "closed"}
    /\ shutdown \in BOOLEAN
    /\ turn \in {"none", "leased"} \cup DirectTurns
    /\ worker \in {"none", "prepare", "announce", "loop", "commit", "push", "emit",
                   "request", "stream", "recover", "settle", "seal", "finish"} \cup Ended
    /\ continuations \in 0..MaxContinuations /\ compactions \in 0..MaxCompactions
    /\ aborted \in BOOLEAN /\ stopRequested \in BOOLEAN

(* The type invariant, in the two halves that are proved apart.            *)
LEMMA TypeSplit == TypeOK <=> InputTypes /\ ControlTypes
  BY DEF TypeOK, InputTypes, ControlTypes

(* The types hold at first.                                                *)
LEMMA TypeInit == Init => TypeOK
<1> SUFFICES ASSUME Init PROVE TypeOK
  OBVIOUS
<1>1. <<>> \in Seq(Ids)
  OBVIOUS
<1>2. coord \in Coordinator
  BY <1>1, MaxInputsAssumption DEF Init, NewCoordinator, Coordinator, Phase
<1>3. inbox \in [open : BOOLEAN, pending : Seq(Ids)]
  BY <1>1 DEF Init, ClosedInbox
<1>4. lifecycle \in [holder : Hosts \cup {NoOne}, allow_inputs : BOOLEAN]
  BY DEF Init, NoHold
<1>5. native \in BOOLEAN /\ watched \in BOOLEAN /\ shutdown \in BOOLEAN
      /\ aborted \in BOOLEAN /\ stopRequested \in BOOLEAN
  BY Zenon DEF Init
<1> QED  BY <1>1, <1>2, <1>3, <1>4, <1>5, MaxInputsAssumption, LimitsAssumption DEF Init, TypeOK

(* AcceptNew keeps the types of all it changes.                            *)
LEMMA AcceptTypes ==
    ASSUME TypeOK, NEW c \in Clients, NEW steering, AcceptNew(c, steering)
    PROVE  /\ coord' \in Coordinator
           /\ inbox' \in [open : BOOLEAN, pending : Seq(Ids)]
           /\ accepted' \in [Clients -> 0..MaxInputs]
           /\ owner' \in [Ids -> Clients \cup {NoOne}]
<1>1. coord.next_id + 1 \in Ids /\ coord.next_id + 1 \in 0..MaxInputs
  <2>1. coord.next_id \in 0..MaxInputs /\ coord.next_id < MaxInputs
    BY CoordinatorFields DEF TypeOK, AcceptNew
  <2> QED  BY <2>1, MaxInputsAssumption DEF Ids
<1>2. coord' \in Coordinator /\ (inbox' = inbox \/ Steered)
  BY AcceptNewOp
<1>3. inbox' \in [open : BOOLEAN, pending : Seq(Ids)]
  <2>1. inbox.pending \o <<coord.next_id + 1>> \in Seq(Ids)
    BY <1>1, InboxTyped
  <2>2. inbox \in Inbox /\ [inbox EXCEPT !.pending = @ \o <<coord.next_id + 1>>] \in Inbox
    BY <2>1, InboxTyped, InboxOp
  <2> QED  BY <1>2, <2>2 DEF Steered, Inbox
<1>4. accepted' \in [Clients -> 0..MaxInputs]
  BY <1>1 DEF AcceptNew, TypeOK
<1>5. owner' \in [Ids -> Clients \cup {NoOne}]
  BY <1>1 DEF AcceptNew, TypeOK
<1> QED  BY <1>2, <1>3, <1>4, <1>5

(* The worker pushes and acknowledges the head of a batch it has.          *)
BatchInHand == worker \in {"push", "emit"} => batch # <<>>

(* Every step keeps the types of the part that names inputs ...            *)
LEMMA InputTypeStep == TypeOK /\ BatchInHand /\ [Next]_vars => InputTypes'
<1> SUFFICES ASSUME TypeOK, BatchInHand, [Next]_vars PROVE InputTypes'
  OBVIOUS
<1> USE DEF InputTypes
<1>t. InputTypes /\ coord.queue \in Seq(Ids) /\ inbox.pending \in Seq(Ids) /\ <<>> \in Seq(Ids)
  BY TypeSplit, InboxTyped, CoordinatorFields
<1>n. inbox \in Inbox
  BY InboxTyped
<1>1. ASSUME NEW c \in Submitters, NEW steering \in BOOLEAN, Submit(c, steering)
      PROVE  InputTypes'
  BY <1>1, <1>t, AcceptTypes DEF Submit, turnVars, Clients
<1>2. ASSUME NEW or_cancel \in BOOLEAN, Flush(or_cancel) PROVE InputTypes'
  <2>1. CASE FlushPending
    <3>1. coord' \in Coordinator /\ (inbox' = inbox \/ Flushed)
      BY <2>1, FlushPendingOp
    <3>2. inbox' \in [open : BOOLEAN, pending : Seq(Ids)]
      <4>1. inbox.pending \o coord.queue \in Seq(Ids)
        BY <1>t
      <4>2. [inbox EXCEPT !.pending = @ \o coord.queue] \in Inbox
        BY <4>1, <1>n, InboxOp
      <4> QED  BY <3>1, <4>2, <1>n DEF Flushed, Inbox
    <3> QED  BY <1>2, <1>t, <3>1, <3>2 DEF Flush
  <2>2. CASE CancelEmpty
    BY <1>2, <2>2, <1>t, CancelOp DEF Flush, CancelEmpty
  <2>3. CASE UNCHANGED <<coord, inbox>>
    BY <1>2, <2>3, <1>t DEF Flush
  <2> QED  BY <1>2, <2>1, <2>2, <2>3 DEF Flush
<1>3. CASE Recall
  <2> DEFINE humans == {i \in Range(coord.queue) : owner[i] \in Humans}
  <2>1. PICK rest \in Kept(coord.queue, Ids \ humans) : coord' = recall_human(coord, rest)
    BY <1>3 DEF Recall
  <2>2. humans \subseteq Ids
    BY <1>t, RangeType
  <2>3. /\ accepted' = [c \in Clients |->
                           IF \E i \in humans : owner[i] = c THEN 0 ELSE accepted[c]]
        /\ recalled' = recalled \cup humans
        /\ UNCHANGED <<owner, inbox, prompt, batch, transcript>>
    BY <1>3 DEF Recall, turnVars
  <2> HIDE DEF humans
  <2>4. rest \in Seq(Ids)
    BY <2>1, <1>t, KeptType
  <2>5. coord' \in Coordinator
    BY <1>t, <2>1, <2>4, RecallOp
  <2>6. accepted' \in [Clients -> 0..MaxInputs]
    BY <1>t, <2>3, MaxInputsAssumption
  <2> QED  BY <1>t, <2>2, <2>3, <2>5, <2>6
<1>4. ASSUME NEW h \in Hosts,
             \/ \E allow \in BOOLEAN : AcquireLifecycle(h, allow)
             \/ ReleaseLifecycle(h)
      PROVE  InputTypes'
  BY <1>4, <1>t DEF AcquireLifecycle, ReleaseLifecycle, clientVars, turnVars
<1>5. ASSUME NEW h \in Hosts, DirectPrompt(h) PROVE InputTypes'
  BY <1>5, <1>t DEF DirectPrompt, clientVars
<1>6. CASE Cancel
  <2>1. coord' \in Coordinator
    BY <1>6, <1>t, CancelOp, CancelFinishOp DEF Cancel
  <2> QED  BY <1>6, <2>1, <1>t DEF Cancel, clientVars
<1>7. CASE Close
  BY <1>7, <1>t DEF Close, clientVars
<1>8. CASE NextPrompt
  <2>1. flush(coord) \in Coordinator
    BY <1>t, FlushOp
  <2>2. coord' \in Coordinator
    BY <1>8, <2>1, StartOp DEF NextPrompt
  <2> QED  BY <1>8, <2>2, <1>t DEF NextPrompt, clientVars
<1>9. CASE RejectPrompt
  <2>1. coord' \in Coordinator
    BY <1>9, CancelFinishOp DEF RejectPrompt
  <2> QED  BY <1>9, <2>1, <1>t DEF RejectPrompt, clientVars
<1>10. CASE RunOneTurn
  <2>1. (IF can_start(coord) THEN start_turn(coord) ELSE coord) \in Coordinator
    BY <1>t, StartOp
  <2>2. coord' \in Coordinator
    BY <1>10, <2>1, StartedOp DEF RunOneTurn
  <2>3. inbox' \in [open : BOOLEAN, pending : Seq(Ids)]
    BY <1>10, <1>n, InboxOp DEF RunOneTurn, InboxBegins, Inbox
  <2> QED  BY <1>10, <2>2, <2>3, <1>t DEF RunOneTurn, clientVars
<1>11. CASE WorkerEnded
  <2>1. coord' \in Coordinator
    BY <1>11, WorkerEndedOp
  <2>2. inbox' \in [open : BOOLEAN, pending : Seq(Ids)]
    BY <1>11, ClosedInboxType DEF WorkerEnded, InboxFinished, Inbox
  <2> QED  BY <1>11, <2>1, <2>2, <1>t DEF WorkerEnded, clientVars
<1>12. CASE WatchBackground
  BY <1>12, <1>t DEF WatchBackground, turnVars
<1>13. ASSUME NEW t \in Tasks, TaskEnds(t) PROVE InputTypes'
  BY <1>13, <1>t DEF TaskEnds, turnVars
<1>14. ASSUME NEW t \in Tasks, ObserveNotification(t) PROVE InputTypes'
  <2>1. coord.next_id + 1 \in Ids /\ coord.next_id + 1 \in 0..MaxInputs
    <3>1. coord.next_id \in 0..MaxInputs /\ coord.next_id < MaxInputs
      BY <1>14, <1>t, CoordinatorFields DEF ObserveNotification
    <3> QED  BY <3>1, MaxInputsAssumption DEF Ids
  <2>2. coord' \in Coordinator
    BY <1>14, <1>t, EnqueueOp DEF ObserveNotification
  <2>3. accepted' \in [Clients -> 0..MaxInputs] /\ owner' \in [Ids -> Clients \cup {NoOne}]
    BY <1>14, <2>1, <1>t DEF ObserveNotification, Clients
  <2> QED  BY <1>14, <2>2, <2>3, <1>t DEF ObserveNotification, turnVars
<1>15. CASE PreparePrompt
  <2>1. transcript' \in Seq(Ids) /\ batch' \in Seq(Ids)
    <3>1. transcript \o prompt \in Seq(Ids)
      BY <1>t
    <3>2. transcript' \in {transcript, transcript \o prompt} /\ batch' \in {batch, prompt}
      BY <1>15 DEF PreparePrompt
    <3> QED  BY <1>t, <3>1, <3>2
  <2> QED  BY <1>15, <2>1, <1>t DEF PreparePrompt, workerFrame, clientVars
<1>16. CASE AnnouncePrompt
  <2>1. coord' \in Coordinator
    BY <1>16, <1>t, CommittedOp DEF AnnouncePrompt
  <2>2. batch' \in Seq(Ids)
    <3>1. batch # <<>> => Tail(batch) \in Seq(Ids)
      BY <1>t
    <3> QED  BY <1>16, <1>t, <3>1 DEF AnnouncePrompt
  <2> QED  BY <1>16, <2>1, <2>2, <1>t DEF AnnouncePrompt, workerFrame, clientVars
<1>17. CASE LoopHead
  BY <1>17, <1>t DEF LoopHead, workerFrame, clientVars
<1>18. CASE PushInput
  <2>1. inbox' \in Inbox
    <3>1. CASE inbox' = inbox
      BY <1>n, <3>1
    <3>2. CASE InboxCommits(Head(batch))
      <4>1. PICK rest \in Kept(inbox.pending, Ids \ {Head(batch)}) :
                inbox' = [inbox EXCEPT !.pending = rest]
        BY <3>2 DEF InboxCommits
      <4>2. rest \in Seq(Ids)
        BY <4>1, <1>t, KeptType
      <4> QED  BY <4>1, <4>2, <1>n, InboxOp
    <3> QED  BY <1>18, <3>1, <3>2 DEF PushInput
  <2>2. CASE transcript' = transcript
    BY <1>18, <2>1, <2>2, <1>t DEF PushInput, workerFrame, clientVars, Inbox
  <2>3. CASE transcript' = Append(transcript, Head(batch))
    <3>1. batch # <<>>
      BY <1>18 DEF PushInput, Goto, BatchInHand
    <3>2. transcript' \in Seq(Ids)
      BY <1>t, <2>3, <3>1
    <3> QED  BY <1>18, <2>1, <3>2, <1>t DEF PushInput, workerFrame, clientVars, Inbox
  <2> QED  BY <1>18, <2>2, <2>3 DEF PushInput
<1>19. CASE EmitCommitted
  <2>1. coord' \in Coordinator
    BY <1>19, <1>t, CommittedOp DEF EmitCommitted
  <2>2. Tail(batch) \in Seq(Ids)
    <3>1. batch # <<>>
      BY <1>19 DEF EmitCommitted, Goto, BatchInHand
    <3> QED  BY <1>t, <3>1
  <2> QED  BY <1>19, <2>1, <2>2, <1>t DEF EmitCommitted, workerFrame, clientVars
<1>20. CASE SealInbox
  <2>1. inbox' \in [open : BOOLEAN, pending : Seq(Ids)]
    BY <1>20, <1>t, <1>n, InboxOp DEF SealInbox, InboxSeals, Inbox
  <2> QED  BY <1>20, <2>1, <1>t DEF SealInbox, workerFrame, clientVars
<1>21. CASE CommitNext \/ OpenStream \/ ExecuteResponse \/ RecoverStream \/ SettleCancelled
            \/ SettleTools \/ SettleFinal \/ FinishTurnState
  BY <1>21, <1>t DEF CommitNext, OpenStream, ExecuteResponse, RecoverStream, SettleCancelled,
     SettleTools, SettleFinal, FinishTurnState, workerFrame, clientVars
<1>22. CASE UNCHANGED vars
  BY <1>22, <1>t DEF vars, clientVars, turnVars
<1> QED  BY <1>1, <1>2, <1>3, <1>4, <1>5, <1>6, <1>7, <1>8, <1>9, <1>10, <1>11, <1>12, <1>13,
            <1>14, <1>15, <1>16, <1>17, <1>18, <1>19, <1>20, <1>21, <1>22
         DEF Next, CommandStep, DriverStep, TaskStep, WorkerStep, Closed

(* What every step of the worker has in common: it is on its way, it ends  *)
(* on its way or in a result, and leaves the rest of the session alone.    *)
WorkerStages == {"prepare", "announce", "loop", "commit", "push", "emit", "request", "stream",
                 "recover", "settle", "seal", "finish"}

(* What a step of the worker leaves alone, and where it can end.           *)
LEMMA WorkerControl ==
    ASSUME TypeOK, WorkerStep
    PROVE  /\ worker \in WorkerStages /\ worker' \in WorkerStages \cup Ended
           /\ UNCHANGED <<accepted, owner, recalled, native, watched, finished, lifecycle, host,
                          driver, shutdown, turn, prompt, stopRequested>>
           /\ continuations' \in 0..MaxContinuations /\ compactions' \in 0..MaxCompactions
           /\ coord'.phase = coord.phase
<1> USE DEF WorkerStages, Ended, Goto, workerFrame, clientVars, hostVars, budgetVars
<1>t. coord \in Coordinator /\ continuations \in 0..MaxContinuations
      /\ compactions \in 0..MaxCompactions
  BY DEF TypeOK
<1>1. CASE PreparePrompt
  BY <1>1, <1>t DEF PreparePrompt
<1>2. CASE AnnouncePrompt
  <2>1. coord'.phase = coord.phase
    BY <1>2, <1>t, CommittedOp DEF AnnouncePrompt
  <2> QED  BY <1>2, <1>t, <2>1 DEF AnnouncePrompt
<1>3. CASE LoopHead
  BY <1>3, <1>t DEF LoopHead
<1>4. CASE CommitNext
  BY <1>4, <1>t DEF CommitNext
<1>5. CASE PushInput
  BY <1>5, <1>t DEF PushInput
<1>6. CASE EmitCommitted
  <2>1. coord'.phase = coord.phase
    BY <1>6, <1>t, CommittedOp DEF EmitCommitted
  <2> QED  BY <1>6, <1>t, <2>1 DEF EmitCommitted
<1>7. CASE OpenStream
  <2>1. compactions' \in 0..MaxCompactions
    BY <1>7, <1>t, LimitsAssumption DEF OpenStream
  <2> QED  BY <1>7, <1>t, <2>1 DEF OpenStream
<1>8. CASE ExecuteResponse
  BY <1>8, <1>t DEF ExecuteResponse
<1>9. CASE RecoverStream
  <2>1. continuations' \in 0..MaxContinuations
    BY <1>9, <1>t, LimitsAssumption DEF RecoverStream
  <2> QED  BY <1>9, <1>t, <2>1 DEF RecoverStream
<1>10. CASE SettleCancelled \/ SettleTools \/ SettleFinal
  BY <1>10, <1>t DEF SettleCancelled, SettleTools, SettleFinal
<1>11. CASE SealInbox
  BY <1>11, <1>t DEF SealInbox
<1>12. CASE FinishTurnState
  BY <1>12, <1>t DEF FinishTurnState
<1> QED  BY <1>1, <1>2, <1>3, <1>4, <1>5, <1>6, <1>7, <1>8, <1>9, <1>10, <1>11, <1>12
         DEF WorkerStep

(* The worker keeps the abort flag a flag.                                 *)
LEMMA WorkerAborts ==
    ASSUME aborted \in BOOLEAN, WorkerStep PROVE aborted' \in BOOLEAN
<1>1. aborted' \in {aborted, TRUE, FALSE}
  BY DEF WorkerStep, PreparePrompt, AnnouncePrompt, LoopHead, CommitNext, PushInput,
     EmitCommitted, OpenStream, ExecuteResponse, RecoverStream, SettleCancelled, SettleTools,
     SettleFinal, SealInbox, FinishTurnState
<1> QED  BY <1>1, Zenon

(* Every step keeps the types of the control state.                        *)
LEMMA ControlTypeStep == TypeOK /\ [Next]_vars => ControlTypes'
<1> SUFFICES ASSUME TypeOK, [Next]_vars PROVE ControlTypes'
  OBVIOUS
<1> USE DEF ControlTypes
<1>t. ControlTypes
  BY TypeSplit
<1>1. ASSUME NEW c \in Submitters, NEW steering \in BOOLEAN, Submit(c, steering)
      PROVE  ControlTypes'
  <2>1. native' \in BOOLEAN
    BY <1>1, Zenon DEF Submit
  <2> QED  BY <1>1, <2>1, <1>t DEF Submit, turnVars, hostVars, budgetVars
<1>2. ASSUME NEW or_cancel \in BOOLEAN, Flush(or_cancel) PROVE ControlTypes'
  <2>1. native' \in BOOLEAN
    BY <1>2, Zenon DEF Flush
  <2>2. aborted' \in BOOLEAN /\ stopRequested' \in BOOLEAN
    BY <1>2, <1>t, Zenon DEF Flush, FlushPending, CancelEmpty
  <2> QED  BY <1>2, <2>1, <2>2, <1>t DEF Flush, hostVars, budgetVars
<1>3. CASE Recall
  <2>1. native' \in BOOLEAN
    BY <1>3, Zenon DEF Recall
  <2> QED  BY <1>3, <2>1, <1>t DEF Recall, turnVars, hostVars, budgetVars
<1>4. ASSUME NEW h \in Hosts, NEW allow \in BOOLEAN, AcquireLifecycle(h, allow)
      PROVE  ControlTypes'
  <2>1. lifecycle' \in [holder : Hosts \cup {NoOne}, allow_inputs : BOOLEAN]
    BY <1>4, <1>t DEF AcquireLifecycle
  <2>2. host' \in [Hosts -> {"Waiting", "Holding", "Prompting", "Answered", "Refused", "Gone"}]
    BY <1>4, <1>t DEF AcquireLifecycle
  <2> QED  BY <1>4, <2>1, <2>2, <1>t DEF AcquireLifecycle, clientVars, turnVars, budgetVars
<1>5. ASSUME NEW h \in Hosts, ReleaseLifecycle(h) PROVE ControlTypes'
  <2>1. lifecycle' \in [holder : Hosts \cup {NoOne}, allow_inputs : BOOLEAN]
    BY <1>5, <1>t DEF ReleaseLifecycle, NoHold
  <2> QED  BY <1>5, <2>1, <1>t DEF ReleaseLifecycle, clientVars, turnVars, budgetVars
<1>6. ASSUME NEW h \in Hosts, DirectPrompt(h) PROVE ControlTypes'
  <2>1. turn' \in {"none", "leased"} \cup DirectTurns
    BY <1>6 DEF DirectPrompt, DirectTurns
  <2> QED  BY <1>6, <2>1, <1>t DEF DirectPrompt, clientVars, budgetVars
<1>7. CASE Cancel
  <2>1. aborted' \in BOOLEAN /\ stopRequested' \in BOOLEAN
    BY <1>7, Zenon DEF Cancel
  <2> QED  BY <1>7, <2>1, <1>t DEF Cancel, clientVars, hostVars, budgetVars
<1>8. CASE Close
  <2>1. aborted' \in BOOLEAN /\ shutdown' \in BOOLEAN
    BY <1>8, <1>t, Zenon DEF Close
  <2>2. driver' \in {"select", "starting", "turn", "closed"}
    BY <1>8, <1>t DEF Close
  <2> QED  BY <1>8, <2>1, <2>2, <1>t DEF Close, clientVars, hostVars, budgetVars
<1>9. CASE NextPrompt
  BY <1>9, <1>t DEF NextPrompt, clientVars, hostVars, budgetVars
<1>10. CASE RejectPrompt
  <2>1. host' \in [Hosts -> {"Waiting", "Holding", "Prompting", "Answered", "Refused", "Gone"}]
    BY <1>10, <1>t DEF RejectPrompt, PromptAnswered
  <2> QED  BY <1>10, <2>1, <1>t DEF RejectPrompt, clientVars, budgetVars
<1>11. CASE RunOneTurn
  <2>1. aborted' \in BOOLEAN /\ stopRequested' \in BOOLEAN
    BY <1>11, Zenon DEF RunOneTurn
  <2>2. continuations' \in 0..MaxContinuations /\ compactions' \in 0..MaxCompactions
    BY <1>11, LimitsAssumption DEF RunOneTurn
  <2> QED  BY <1>11, <2>1, <2>2, <1>t DEF RunOneTurn, clientVars, hostVars
<1>12. CASE WorkerEnded
  <2>1. host' \in [Hosts -> {"Waiting", "Holding", "Prompting", "Answered", "Refused", "Gone"}]
    BY <1>12, <1>t DEF WorkerEnded, PromptAnswered
  <2>2. stopRequested' \in BOOLEAN
    BY <1>12, Zenon DEF WorkerEnded
  <2>3. driver' \in {"select", "starting", "turn", "closed"}
    BY <1>12 DEF WorkerEnded
  <2> QED  BY <1>12, <2>1, <2>2, <2>3, <1>t DEF WorkerEnded, clientVars, budgetVars
<1>13. CASE WatchBackground
  <2>1. watched' \in BOOLEAN
    BY <1>13, Zenon DEF WatchBackground
  <2> QED  BY <1>13, <2>1, <1>t DEF WatchBackground, turnVars, hostVars, budgetVars
<1>14. ASSUME NEW t \in Tasks, TaskEnds(t) \/ ObserveNotification(t) PROVE ControlTypes'
  BY <1>14, <1>t DEF TaskEnds, ObserveNotification, turnVars, hostVars, budgetVars
<1>15. CASE WorkerStep
  <2>1. aborted' \in BOOLEAN
    BY <1>15, <1>t, WorkerAborts
  <2> QED  BY <1>15, <2>1, <1>t, WorkerControl DEF WorkerStages
<1>16. CASE UNCHANGED vars
  BY <1>16, <1>t DEF vars, clientVars, hostVars, turnVars, budgetVars
<1> QED  BY <1>1, <1>2, <1>3, <1>4, <1>5, <1>6, <1>7, <1>8, <1>9, <1>10, <1>11, <1>12, <1>13,
            <1>14, <1>15, <1>16
         DEF Next, CommandStep, DriverStep, TaskStep, Closed

-----------------------------------------------------------------------------
(* Where the driver, the worker, the turn and the inbox are, together.     *)

TurnControl ==
    /\ BatchInHand
    /\ worker = "none" <=> driver # "turn"
    /\ turn = "none" <=> driver \in {"select", "closed"}
    /\ turn # "leased" => prompt = <<>>
    /\ driver \in {"select", "closed"} => ~is_running(coord)
    /\ turn = "leased" => is_running(coord)
    /\ InboxIdleOutsideTurn

ControlInv == TypeOK /\ TurnControl /\ LifecycleExcludesLease

(* The control invariant holds at first.                                   *)
LEMMA ControlInit == Init => ControlInv
<1> SUFFICES ASSUME Init PROVE ControlInv
  OBVIOUS
<1>1. TurnControl
  BY DEF Init, TurnControl, BatchInHand, InboxIdleOutsideTurn, is_running, NewCoordinator
<1>2. LifecycleExcludesLease
  BY ClientsAssumption DEF Init, LifecycleExcludesLease, NoHold
<1> QED  BY <1>1, <1>2, TypeInit DEF ControlInv

(* The phase and the inbox decide what a command does to TurnControl.      *)
LEMMA CommandKeepsTurn ==
    ASSUME TurnControl, driver \in {"select", "turn"},
           is_running(coord') <=> is_running(coord), UNCHANGED <<driver, turn, prompt, worker, batch>>,
           inbox' = inbox \/ can_deliver(coord)
    PROVE  TurnControl'
<1>1. driver # "turn" => inbox' = inbox
  BY DEF TurnControl, is_running, can_deliver
<1> QED  BY <1>1 DEF TurnControl, BatchInHand, InboxIdleOutsideTurn

(* Every step keeps the driver, the worker, the turn and the inbox         *)
(* together.                                                               *)
LEMMA TurnStep == ControlInv /\ [Next]_vars => TurnControl'
<1> SUFFICES ASSUME ControlInv, [Next]_vars PROVE TurnControl'
  OBVIOUS
<1>t. TurnControl /\ TypeOK /\ coord \in Coordinator
  BY DEF ControlInv, TypeOK
<1>r. Receptive => driver \in {"select", "turn"}
  BY DEF Receptive, BetweenTurns, DuringTurn
<1>s. ASSUME UNCHANGED <<coord, inbox, driver, turn, prompt, worker, batch>> PROVE TurnControl'
  BY <1>s, <1>t DEF TurnControl, BatchInHand, InboxIdleOutsideTurn
<1>1. ASSUME NEW c \in Submitters, NEW steering \in BOOLEAN, Submit(c, steering)
      PROVE  TurnControl'
  <2>1. CASE UNCHANGED <<coord, inbox>>
    BY <1>1, <2>1, <1>s DEF Submit, turnVars
  <2>2. CASE AcceptNew(c, steering)
    <3>1. c \in Clients
      BY DEF Clients
    <3>2. is_running(coord') <=> is_running(coord)
      BY <1>t, <2>2, <3>1, AcceptNewOp
    <3>3. inbox' = inbox \/ can_deliver(coord)
      BY <1>t, <2>2, <3>1, AcceptNewOp
    <3> QED  BY <1>1, <1>t, <1>r, <3>2, <3>3, CommandKeepsTurn DEF Submit, turnVars
  <2> QED  BY <1>1, <2>1, <2>2 DEF Submit
<1>2. ASSUME NEW or_cancel \in BOOLEAN, Flush(or_cancel) PROVE TurnControl'
  <2>1. CASE FlushPending
    <3>1. is_running(coord') <=> is_running(coord)
      BY <1>t, <2>1, FlushPendingOp
    <3>2. inbox' = inbox \/ can_deliver(coord)
      BY <1>t, <2>1, FlushPendingOp
    <3> QED  BY <1>2, <1>t, <1>r, <3>1, <3>2, CommandKeepsTurn DEF Flush
  <2>2. CASE CancelEmpty
    <3>1. is_running(coord') /\ is_running(coord)
      BY <1>t, <2>2, CancelOp DEF CancelEmpty, is_running
    <3> QED  BY <1>2, <1>t, <1>r, <2>2, <3>1, CommandKeepsTurn DEF Flush, CancelEmpty
  <2>3. CASE UNCHANGED <<coord, inbox>>
    BY <1>2, <2>3, <1>s DEF Flush
  <2> QED  BY <1>2, <2>1, <2>2, <2>3 DEF Flush
<1>3. CASE Recall
  <2>1. PICK rest : coord' = [coord EXCEPT !.queue = rest]
    BY <1>3 DEF Recall, recall_human
  <2>2. is_running(coord') <=> is_running(coord)
    BY <1>t, <2>1 DEF is_running, Coordinator
  <2> QED  BY <1>3, <1>t, <1>r, <2>2, CommandKeepsTurn DEF Recall, turnVars
<1>4. ASSUME NEW h \in Hosts,
             \/ \E allow \in BOOLEAN : AcquireLifecycle(h, allow)
             \/ ReleaseLifecycle(h)
      PROVE  TurnControl'
  BY <1>4, <1>s DEF AcquireLifecycle, ReleaseLifecycle, turnVars
<1>5. ASSUME NEW h \in Hosts, DirectPrompt(h) PROVE TurnControl'
  <2>1. turn' # "none" /\ turn' # "leased"
    BY <1>5 DEF DirectPrompt, DirectTurns
  <2> QED  BY <1>5, <2>1, <1>t DEF DirectPrompt, TurnControl, BatchInHand, InboxIdleOutsideTurn
<1>6. CASE Cancel
  <2>1. is_running(coord') <=> is_running(coord)
    BY <1>6, <1>t, CancelOp, CancelFinishOp DEF Cancel, is_running, Recovered
  <2> QED  BY <1>6, <1>t, <1>r, <2>1, CommandKeepsTurn DEF Cancel
<1>7. CASE Close
  BY <1>7, <1>t, <1>r DEF Close, TurnControl, BatchInHand, InboxIdleOutsideTurn
<1>8. CASE NextPrompt
  <2>1. is_running(coord')
    BY <1>8, <1>t, FlushOp, StartOp DEF NextPrompt, is_running
  <2> QED  BY <1>8, <1>t, <2>1 DEF NextPrompt, TurnControl, BatchInHand, InboxIdleOutsideTurn
<1>9. CASE RejectPrompt
  <2>1. ~is_running(coord')
    BY <1>9, <1>t, CancelFinishOp DEF RejectPrompt, Recovered
  <2> QED  BY <1>9, <1>t, <2>1 DEF RejectPrompt, TurnControl, BatchInHand, InboxIdleOutsideTurn
<1>10. CASE RunOneTurn
  <2>1. turn = "leased" => is_running(coord')
    <3> SUFFICES ASSUME turn = "leased" PROVE is_running(coord')
      OBVIOUS
    <3>1. is_running(coord)
      BY <1>t DEF TurnControl
    <3>2. coord' = turn_started(coord)
      BY <1>10, <3>1 DEF RunOneTurn, is_running, can_start
    <3> QED  BY <1>t, <3>1, <3>2, StartedOp DEF is_running
  <2> QED  BY <1>10, <1>t, <2>1 DEF RunOneTurn, TurnControl, BatchInHand, InboxIdleOutsideTurn
<1>11. CASE WorkerEnded
  <2>1. ~is_running(coord')
    BY <1>11, <1>t, WorkerEndedOp DEF Recovered
  <2> QED  BY <1>11, <1>t, <2>1
           DEF WorkerEnded, InboxFinished, TurnControl, BatchInHand, InboxIdleOutsideTurn
<1>12. CASE WatchBackground
  BY <1>12, <1>s DEF WatchBackground, turnVars
<1>13. ASSUME NEW t \in Tasks, TaskEnds(t) PROVE TurnControl'
  BY <1>13, <1>s DEF TaskEnds, turnVars
<1>14. ASSUME NEW t \in Tasks, ObserveNotification(t) PROVE TurnControl'
  <2>1. is_running(coord') <=> is_running(coord)
    BY <1>14, <1>t, EnqueueOp DEF ObserveNotification, is_running
  <2> QED  BY <1>14, <1>t, <2>1
           DEF ObserveNotification, turnVars, TurnControl, BatchInHand, InboxIdleOutsideTurn
<1>15. CASE WorkerStep
  <2>1. /\ worker \in WorkerStages /\ worker' \in WorkerStages \cup Ended
        /\ UNCHANGED <<driver, turn, prompt>> /\ coord'.phase = coord.phase
    BY <1>15, <1>t, WorkerControl
  <2>2. BatchInHand'
    <3>1. worker' \in {"push", "emit"} => UNCHANGED batch /\ (worker = "push" \/ batch # <<>>)
      BY <1>15 DEF WorkerStep, PreparePrompt, AnnouncePrompt, LoopHead, CommitNext, PushInput,
         EmitCommitted, OpenStream, ExecuteResponse, RecoverStream, SettleCancelled, SettleTools,
         SettleFinal, SealInbox, FinishTurnState, Goto
    <3> QED  BY <3>1, <1>t DEF TurnControl, BatchInHand
  <2> QED  BY <2>1, <2>2, <1>t
           DEF TurnControl, InboxIdleOutsideTurn, WorkerStages, Ended, is_running
<1>16. CASE UNCHANGED vars
  BY <1>16, <1>s DEF vars, turnVars
<1> QED  BY <1>1, <1>2, <1>3, <1>4, <1>5, <1>6, <1>7, <1>8, <1>9, <1>10, <1>11, <1>12, <1>13,
            <1>14, <1>15, <1>16
         DEF Next, CommandStep, DriverStep, TaskStep, Closed

(* Every step keeps the lifecycle with its holder, and apart from a lease. *)
LEMMA HostStep == ControlInv /\ [Next]_vars => LifecycleExcludesLease'
<1> SUFFICES ASSUME ControlInv, [Next]_vars PROVE LifecycleExcludesLease'
  OBVIOUS
<1>t. /\ LifecycleExcludesLease /\ TypeOK /\ TurnControl
      /\ host \in [Hosts -> {"Waiting", "Holding", "Prompting", "Answered", "Refused", "Gone"}]
      /\ NoOne \notin Hosts
  BY ClientsAssumption DEF ControlInv, TypeOK
<1>s. ASSUME UNCHANGED <<lifecycle, host, turn>> PROVE LifecycleExcludesLease'
  BY <1>s, <1>t DEF LifecycleExcludesLease
<1>1. ASSUME NEW c \in Submitters, NEW steering \in BOOLEAN, Submit(c, steering)
      PROVE  LifecycleExcludesLease'
  BY <1>1, <1>s DEF Submit, turnVars, hostVars
<1>2. ASSUME NEW or_cancel \in BOOLEAN, Flush(or_cancel)
      PROVE  LifecycleExcludesLease'
  BY <1>2, <1>s DEF Flush, hostVars
<1>3. CASE Recall \/ Cancel \/ Close \/ RunOneTurn \/ WatchBackground
  BY <1>3, <1>s DEF Recall, Cancel, Close, RunOneTurn, WatchBackground, turnVars, hostVars
<1>4. ASSUME NEW h \in Hosts, NEW allow \in BOOLEAN, AcquireLifecycle(h, allow)
      PROVE  LifecycleExcludesLease'
  <2>1. /\ host[h] = "Waiting" /\ turn' = turn
    BY <1>4 DEF AcquireLifecycle, turnVars
  <2>2. CASE lifecycle.holder # NoOne \/ is_running(coord)
    <3>1. lifecycle' = lifecycle /\ host' = [host EXCEPT ![h] = "Refused"]
      BY <1>4, <2>2 DEF AcquireLifecycle
    <3> QED  BY <1>t, <2>1, <3>1 DEF LifecycleExcludesLease
  <2>3. CASE ~(lifecycle.holder # NoOne \/ is_running(coord))
    <3>1. lifecycle'.holder = h /\ host' = [host EXCEPT ![h] = "Holding"]
      BY <1>4, <2>3 DEF AcquireLifecycle
    <3>2. turn # "leased"
      BY <1>t, <2>3 DEF TurnControl
    <3> QED  BY <1>t, <2>1, <2>3, <3>1, <3>2 DEF LifecycleExcludesLease
  <2> QED  BY <2>2, <2>3
<1>5. ASSUME NEW h \in Hosts, ReleaseLifecycle(h) PROVE LifecycleExcludesLease'
  <2>1. /\ host[h] \in {"Holding", "Prompting", "Answered", "Refused"}
        /\ turn' = turn
        /\ host' = [host EXCEPT ![h] = "Gone"]
    BY <1>5 DEF ReleaseLifecycle, turnVars
  <2>2. CASE lifecycle.holder = h
    <3>1. lifecycle'.holder = NoOne
      BY <1>5, <2>2 DEF ReleaseLifecycle, NoHold
    <3> QED  BY <1>t, <2>1, <2>2, <3>1 DEF LifecycleExcludesLease
  <2>3. CASE lifecycle.holder # h
    <3>1. lifecycle' = lifecycle
      BY <1>5, <2>3 DEF ReleaseLifecycle
    <3> QED  BY <1>t, <2>1, <2>3, <3>1 DEF LifecycleExcludesLease
  <2> QED  BY <2>2, <2>3
<1>6. ASSUME NEW h \in Hosts, DirectPrompt(h) PROVE LifecycleExcludesLease'
  <2>1. /\ host[h] \in {"Waiting", "Holding"} /\ lifecycle' = lifecycle
        /\ host' = [host EXCEPT ![h] = "Prompting"]
        /\ turn' # "leased"
    BY <1>6 DEF DirectPrompt, DirectTurns
  <2> QED  BY <1>t, <2>1 DEF LifecycleExcludesLease
<1>7. CASE NextPrompt
  BY <1>7, <1>t DEF NextPrompt, LifecycleExcludesLease, hostVars, DirectTurns
<1>8. CASE RejectPrompt \/ WorkerEnded
  <2>1. turn' = "none" /\ lifecycle' = lifecycle /\ PromptAnswered
    BY <1>8 DEF RejectPrompt, WorkerEnded
  <2> QED  BY <1>t, <2>1 DEF PromptAnswered, LifecycleExcludesLease, DirectTurns
<1>9. ASSUME NEW t \in Tasks, TaskEnds(t) \/ ObserveNotification(t)
      PROVE  LifecycleExcludesLease'
  BY <1>9, <1>s DEF TaskEnds, ObserveNotification, turnVars, hostVars
<1>10. CASE WorkerStep
  BY <1>10, <1>s, <1>t, WorkerControl
<1>11. CASE UNCHANGED vars
  BY <1>11, <1>s DEF vars, turnVars, hostVars
<1> QED  BY <1>1, <1>2, <1>3, <1>4, <1>5, <1>6, <1>7, <1>8, <1>9, <1>10, <1>11
         DEF Next, CommandStep, DriverStep, TaskStep, Closed

(* Every step keeps the control invariant ...                              *)
LEMMA ControlStep == ControlInv /\ [Next]_vars => ControlInv'
<1>1. ControlInv /\ [Next]_vars => InputTypes' /\ ControlTypes'
  BY InputTypeStep, ControlTypeStep DEF ControlInv, TurnControl
<1>2. InputTypes' /\ ControlTypes' => TypeOK'
  BY DEF TypeOK, InputTypes, ControlTypes
<1> QED  BY <1>1, <1>2, TurnStep, HostStep DEF ControlInv

(* ... so it always holds.                                                 *)
LEMMA ControlAlways == Spec => []ControlInv
  BY ControlInit, ControlStep, PTL DEF Spec

(* The state of a session stays in its types.                              *)
THEOREM SessionTypeCorrect == Spec => []TypeOK
<1>1. ControlInv => TypeOK
  BY DEF ControlInv
<1> QED  BY <1>1, ControlAlways, PTL

(* Outside a turn the inbox is closed and empty, which the debug assertion *)
(* of TurnInputInbox.begin relies on.                                      *)
THEOREM InboxIsIdle == Spec => []InboxIdleOutsideTurn
<1>1. ControlInv => InboxIdleOutsideTurn
  BY DEF ControlInv, TurnControl
<1> QED  BY <1>1, ControlAlways, PTL

(* A hold is its operation's own until that drops its guard: nothing is    *)
(* leased under it and nobody else's guard ends it (next_prompt,           *)
(* acquire_lifecycle, release_lifecycle).                                  *)
THEOREM LifecycleIsExclusive == Spec => []LifecycleExcludesLease
<1>1. ControlInv => LifecycleExcludesLease
  BY DEF ControlInv
<1> QED  BY <1>1, ControlAlways, PTL

(* Once cancelled, a turn that ends leaves its unapplied inputs waiting    *)
(* for the user (run_one_turn's terminal event, finish_turn).              *)
THEOREM CancelledStaysPaused == Spec => CancelDoesNotRestart
<1>1. ASSUME ControlInv, [Next]_vars, driver = "turn", driver' = "select",
             coord.phase = "Cancelling"
      PROVE  coord'.queue = <<>> \/ coord'.phase = "Paused"
  <2>1. WorkerEnded
    <3>1. ASSUME WorkerStep PROVE UNCHANGED driver
      BY <1>1, <3>1, WorkerControl DEF ControlInv
    <3> QED  BY <1>1, <3>1 DEF Next, CommandStep, DriverStep, TaskStep, Closed, vars, Submit,
              Flush, Recall, AcquireLifecycle, ReleaseLifecycle, DirectPrompt, Cancel, Close,
              NextPrompt, RejectPrompt, RunOneTurn, WatchBackground, TaskEnds,
              ObserveNotification
  <2> QED  BY <1>1, <2>1, WorkerEndedOp DEF ControlInv
<1>2. ControlInv /\ [Next]_vars =>
        [(driver = "turn" /\ driver' = "select" /\ coord.phase = "Cancelling")
            => (coord'.queue = <<>> \/ coord'.phase = "Paused")]_vars
  BY <1>1
<1> QED  BY <1>2, ControlAlways, PTL DEF Spec, CancelDoesNotRestart

-----------------------------------------------------------------------------
(* Who has each input.                                                     *)

Steering == coord.steering
Waiting == Range(inbox.pending)
Prompted == Range(prompt)
InHand == Range(batch)

(* Inputs the worker has made durable and has not acknowledged yet.        *)
Announcing ==
    IF worker = "announce" THEN InHand
    ELSE IF worker = "emit" THEN {Head(batch)} ELSE {}

(* An id given out is in one place; durable inputs are shared with the     *)
(* engine only until they are acknowledged.                                *)
Parties ==
    /\ Queued \cap Steering = {} /\ Queued \cap recalled = {} /\ Queued \cap Durable = {}
    /\ Steering \cap recalled = {} /\ Durable \cap recalled = {}
    /\ Queued \cup Steering \cup recalled \cup Durable = 1..coord.next_id
    /\ Durable \cap Steering \subseteq Announcing

(* No queue holds an input twice.                                          *)
Distinct ==
    /\ IsInjective(coord.queue) /\ IsInjective(transcript)
    /\ IsInjective(inbox.pending) /\ IsInjective(prompt)

(* Every input that was not taken back is the one its client's receipt     *)
(* names.                                                                  *)
Receipts ==
    \A i \in (1..coord.next_id) \ recalled :
        owner[i] \in Clients /\ accepted[owner[i]] = i

(* The engine's inputs are in the inbox, in the prompt, or being           *)
(* acknowledged.                                                           *)
Carriers ==
    /\ ~is_running(coord) => Steering = {}
    /\ Steering \subseteq Waiting \cup Prompted \cup Announcing
    /\ Waiting \subseteq Steering
    /\ Waiting \cap Prompted = {}
    /\ Prompted \subseteq Steering \cup Durable

(* What the worker's batch is at each stage.                               *)
BatchStages ==
    /\ driver = "starting" \/ worker = "prepare" => Prompted \subseteq Steering
    /\ worker = "announce" => InHand \subseteq Prompted \cap Durable
    /\ worker \in {"commit", "push"} => InHand \subseteq Waiting /\ IsInjective(batch)
    /\ worker = "emit" => /\ Head(batch) \in Durable \ Waiting
                          /\ Range(Tail(batch)) \subseteq Waiting
                          /\ IsInjective(batch)

FlowInv == Parties /\ Distinct /\ Receipts /\ Carriers /\ BatchStages

(* The facts about types that the steps below use.                         *)
LEMMA FlowTypes ==
    ASSUME TypeOK
    PROVE  /\ coord \in Coordinator /\ coord.queue \in Seq(Ids) /\ Steering \subseteq Ids
           /\ coord.next_id \in Nat /\ coord.next_id <= MaxInputs
           /\ inbox \in Inbox /\ inbox.pending \in Seq(Ids)
           /\ prompt \in Seq(Ids) /\ batch \in Seq(Ids) /\ transcript \in Seq(Ids)
           /\ Queued \subseteq Ids /\ Waiting \subseteq Ids /\ Prompted \subseteq Ids
           /\ InHand \subseteq Ids /\ Durable \subseteq Ids /\ recalled \subseteq Ids
           /\ accepted \in [Clients -> 0..MaxInputs] /\ owner \in [Ids -> Clients \cup {NoOne}]
<1>1. /\ coord \in Coordinator /\ coord.queue \in Seq(Ids) /\ Steering \subseteq Ids
      /\ coord.next_id \in 0..MaxInputs
  BY CoordinatorFields DEF TypeOK, Steering
<1>2. coord.next_id \in Nat /\ coord.next_id <= MaxInputs
  BY <1>1, MaxInputsAssumption
<1>3. inbox \in Inbox /\ inbox.pending \in Seq(Ids)
  BY InboxTyped
<1>4. /\ prompt \in Seq(Ids) /\ batch \in Seq(Ids) /\ transcript \in Seq(Ids)
      /\ recalled \subseteq Ids
      /\ accepted \in [Clients -> 0..MaxInputs] /\ owner \in [Ids -> Clients \cup {NoOne}]
  BY DEF TypeOK
<1> QED  BY <1>1, <1>2, <1>3, <1>4, RangeType DEF Queued, Waiting, Prompted, InHand, Durable

(* No input moves; the worker and the driver may go on.                    *)
StageMove ==
    \/ UNCHANGED <<driver, worker, batch>>
    \/ /\ worker' \notin {"prepare", "announce", "commit", "push", "emit"}
       /\ driver' # "starting" /\ Announcing = {}
    \/ worker = "commit" /\ worker' = "push" /\ UNCHANGED <<driver, batch>>
    \/ driver = "starting" /\ driver' = "turn" /\ worker' = "prepare" /\ worker = "none"
    \/ driver' = "starting" /\ prompt = <<>> /\ UNCHANGED <<worker, batch>>
Still ==
    /\ SameInputs(coord, coord')
    /\ is_running(coord') \/ Steering = {} \/ ~is_running(coord)
    /\ inbox'.pending = inbox.pending
    /\ UNCHANGED <<accepted, owner, recalled, prompt, transcript>>
    /\ StageMove

(* Steps that move no input keep the invariant on inputs.                  *)
LEMMA StillKeeps == ControlInv /\ FlowInv /\ Still => FlowInv'
<1> SUFFICES ASSUME ControlInv, FlowInv, Still PROVE FlowInv'
  OBVIOUS
<1>1. /\ Queued' = Queued /\ Steering' = Steering /\ Durable' = Durable /\ Waiting' = Waiting
      /\ Prompted' = Prompted /\ coord'.queue = coord.queue /\ coord'.next_id = coord.next_id
      /\ UNCHANGED <<accepted, owner, recalled, prompt, transcript>>
      /\ inbox'.pending = inbox.pending
  BY DEF Still, SameInputs, Queued, Steering, Durable, Waiting, Prompted
<1>2. Announcing' = Announcing
  BY DEF Still, StageMove, Announcing, InHand
<1>3. Parties' /\ Distinct' /\ Receipts'
  BY <1>1, <1>2 DEF FlowInv, Parties, Distinct, Receipts
<1>4. Carriers'
  BY <1>1, <1>2 DEF FlowInv, Carriers, Still
<1>5. BatchStages'
  <2>1. CASE UNCHANGED <<driver, worker, batch>>
    BY <1>1, <2>1 DEF FlowInv, BatchStages, InHand
  <2>2. CASE worker' \notin {"prepare", "announce", "commit", "push", "emit"}
             /\ driver' # "starting"
    BY <2>2 DEF BatchStages
  <2>3. CASE worker = "commit" /\ worker' = "push" /\ UNCHANGED <<driver, batch>>
    BY <1>1, <2>3 DEF FlowInv, BatchStages, InHand
  <2>4. CASE driver = "starting" /\ driver' = "turn" /\ worker' = "prepare"
    BY <1>1, <2>4 DEF FlowInv, BatchStages
  <2>5. CASE driver' = "starting" /\ prompt = <<>> /\ UNCHANGED <<worker, batch>>
    <3>1. Prompted' = {}
      BY <1>1, <2>5, RangeEmpty DEF Prompted
    <3> QED  BY <1>1, <2>5, <3>1 DEF FlowInv, BatchStages, InHand
  <2> QED  BY <2>1, <2>2, <2>3, <2>4, <2>5 DEF Still, StageMove
<1> QED  BY <1>3, <1>4, <1>5 DEF FlowInv

(* A client gets a receipt for a fresh input.                              *)
Accepts(c) ==
    /\ accepted[c] = 0
    /\ coord.next_id < MaxInputs
    /\ coord'.next_id = coord.next_id + 1
    /\ accepted' = [accepted EXCEPT ![c] = coord.next_id + 1]
    /\ owner' = [owner EXCEPT ![coord.next_id + 1] = c]
    /\ UNCHANGED <<recalled, transcript, prompt, batch, worker, driver>>
    /\ is_running(coord') <=> is_running(coord)
    /\ Enqueued \/ (can_deliver(coord) /\ Steered)

(* So does accepting an input ...                                          *)
LEMMA AcceptKeeps ==
    ASSUME ControlInv, FlowInv, NEW c \in Clients, Accepts(c) PROVE FlowInv'
<1> DEFINE id == coord.next_id + 1
<1>t. /\ TypeOK /\ coord.next_id \in Nat /\ coord.queue \in Seq(Ids)
      /\ inbox \in Inbox /\ inbox.pending \in Seq(Ids)
      /\ recalled \subseteq Ids
      /\ accepted \in [Clients -> 0..MaxInputs] /\ owner \in [Ids -> Clients \cup {NoOne}]
  BY FlowTypes DEF ControlInv
<1>1. id \in Ids /\ id \notin 1..coord.next_id /\ 1..id = (1..coord.next_id) \cup {id}
  BY <1>t, MaxInputsAssumption DEF Accepts, Ids
<1>2. /\ id \notin Queued /\ id \notin Steering /\ id \notin recalled /\ id \notin Durable
      /\ id \notin Prompted /\ id \notin Waiting
  BY <1>1 DEF FlowInv, Parties, Carriers
<1>3. /\ Durable' = Durable /\ Prompted' = Prompted /\ Announcing' = Announcing
      /\ InHand' = InHand /\ coord'.next_id = id
      /\ UNCHANGED <<recalled, transcript, prompt, batch, worker, driver>>
  BY DEF Accepts, Durable, Prompted, Announcing, InHand
<1>4. Receipts'
  <2> SUFFICES ASSUME NEW i \in (1..id) \ recalled
               PROVE  owner'[i] \in Clients /\ accepted'[owner'[i]] = i
    BY <1>3 DEF Receipts
  <2>1. CASE i = id
    BY <1>1, <1>t, <2>1 DEF Accepts
  <2>2. CASE i # id
    <3>1. i \in (1..coord.next_id) \ recalled /\ i # 0
      BY <1>1, <1>t, <2>2
    <3>2. owner[i] \in Clients /\ accepted[owner[i]] = i /\ owner'[i] = owner[i]
      BY <1>t, <2>2, <3>1 DEF FlowInv, Receipts, Accepts
    <3>3. owner[i] # c
      BY <3>1, <3>2 DEF Accepts
    <3> QED  BY <1>t, <3>2, <3>3 DEF Accepts
  <2> QED  BY <2>1, <2>2
<1>5. CASE Enqueued
  <2>1. /\ Queued' = Queued \cup {id} /\ Steering' = Steering /\ Waiting' = Waiting
        /\ IsInjective(coord.queue) => IsInjective(coord'.queue)
        /\ inbox' = inbox
    BY <1>5, <1>t, <1>1, <1>2, RangeAppend DEF Enqueued, Queued, Steering, Waiting
  <2>2. Parties'
    BY <1>1, <1>2, <1>3, <2>1 DEF FlowInv, Parties
  <2>3. Distinct' /\ Carriers'
    BY <1>3, <2>1 DEF FlowInv, Distinct, Carriers, Accepts
  <2>4. BatchStages'
    BY <1>3, <2>1 DEF FlowInv, BatchStages
  <2> QED  BY <1>4, <2>2, <2>3, <2>4 DEF FlowInv
<1>6. CASE can_deliver(coord) /\ Steered
  <2> DEFINE new == <<id>>
  <2>1. new \in Seq(Ids) /\ Range(new) = {id} /\ IsInjective(new)
    BY <1>1, RangeSingle
  <2>2. inbox' = [inbox EXCEPT !.pending = inbox.pending \o new]
    BY <1>6 DEF Steered
  <2> HIDE DEF new
  <2>3. /\ inbox.pending \o new \in Seq(Ids)
        /\ Range(inbox.pending \o new) = Waiting \cup {id}
        /\ IsInjective(inbox.pending) => IsInjective(inbox.pending \o new)
    BY <1>t, <1>2, <2>1, RangeConcat DEF Waiting
  <2>4. inbox'.pending = inbox.pending \o new
    BY <1>t, <2>2, <2>3, InboxOp
  <2>5. /\ Queued' = Queued /\ Steering' = Steering \cup {id} /\ Waiting' = Waiting \cup {id}
        /\ coord'.queue = coord.queue
        /\ IsInjective(inbox.pending) => IsInjective(inbox'.pending)
    BY <1>6, <2>3, <2>4 DEF Steered, Queued, Steering, Waiting
  <2>6. Parties'
    BY <1>1, <1>2, <1>3, <2>5 DEF FlowInv, Parties
  <2>7. Distinct'
    BY <1>3, <2>5 DEF FlowInv, Distinct
  <2>8. Carriers'
    <3>1. is_running(coord')
      BY <1>6 DEF Accepts, can_deliver, is_running
    <3> QED  BY <1>2, <1>3, <2>5, <3>1 DEF FlowInv, Carriers
  <2>9. BatchStages'
    BY <1>2, <1>3, <2>5 DEF FlowInv, BatchStages
  <2> QED  BY <1>4, <2>6, <2>7, <2>8, <2>9 DEF FlowInv
<1> QED  BY <1>5, <1>6 DEF Accepts

(* The queue enters the running turn.                                      *)
FlushesIn ==
    /\ can_deliver(coord) /\ Flushed
    /\ is_running(coord') /\ coord'.next_id = coord.next_id
    /\ UNCHANGED <<accepted, owner, recalled, transcript, prompt, batch, worker, driver>>

(* ... handing the queue to the turn ...                                   *)
LEMMA FlushKeeps == ControlInv /\ FlowInv /\ FlushesIn => FlowInv'
<1> SUFFICES ASSUME ControlInv, FlowInv, FlushesIn PROVE FlowInv'
  OBVIOUS
<1>t. /\ TypeOK /\ coord.queue \in Seq(Ids) /\ inbox \in Inbox /\ inbox.pending \in Seq(Ids)
  BY FlowTypes DEF ControlInv
<1>1. /\ Durable' = Durable /\ Prompted' = Prompted /\ Announcing' = Announcing
      /\ InHand' = InHand /\ coord'.next_id = coord.next_id
      /\ UNCHANGED <<accepted, owner, recalled, transcript, prompt, batch, worker, driver>>
  BY DEF FlushesIn, Durable, Prompted, Announcing, InHand
<1>2. Queued \cap Waiting = {} /\ Queued \cap Prompted = {}
  BY DEF FlowInv, Parties, Carriers
<1>3. /\ inbox.pending \o coord.queue \in Seq(Ids)
      /\ Range(inbox.pending \o coord.queue) = Waiting \cup Queued
      /\ IsInjective(inbox.pending) /\ IsInjective(coord.queue)
            => IsInjective(inbox.pending \o coord.queue)
  BY <1>t, <1>2, RangeConcat DEF Waiting, Queued
<1>4. inbox'.pending = inbox.pending \o coord.queue
  BY <1>t, <1>3, InboxOp DEF FlushesIn, Flushed
<1>5. /\ Queued' = {} /\ Steering' = Steering \cup Queued /\ Waiting' = Waiting \cup Queued
      /\ IsInjective(coord'.queue)
  BY <1>3, <1>4, RangeEmpty DEF FlushesIn, Flushed, Queued, Steering, Waiting
<1>6. Parties'
  BY <1>1, <1>5 DEF FlowInv, Parties
<1>7. Distinct' /\ Receipts'
  BY <1>1, <1>3, <1>4, <1>5 DEF FlowInv, Distinct, Receipts
<1>8. Carriers'
  BY <1>1, <1>2, <1>5 DEF FlowInv, Carriers, FlushesIn
<1>9. BatchStages'
  <2>1. worker = "emit" => Head(batch) \notin Queued
    BY DEF FlowInv, BatchStages, Parties
  <2> QED  BY <1>1, <1>5, <2>1 DEF FlowInv, BatchStages
<1> QED  BY <1>6, <1>7, <1>8, <1>9 DEF FlowInv

(* The queued human inputs go back to the editor.                          *)
TakesBack(humans) ==
    /\ humans = {i \in Queued : owner[i] \in Humans}
    /\ coord' \in Coordinator /\ Queued' = Queued \ humans /\ IsInjective(coord'.queue)
    /\ coord'.steering = coord.steering /\ coord'.next_id = coord.next_id
    /\ coord'.phase = coord.phase
    /\ accepted' = [c \in Clients |->
                        IF \E i \in humans : owner[i] = c THEN 0 ELSE accepted[c]]
    /\ recalled' = recalled \cup humans
    /\ UNCHANGED <<owner, inbox, transcript, prompt, batch, worker, driver>>

(* (a recall takes back the queued human inputs and no other)              *)
LEMMA TakesBackOp ==
    ASSUME ControlInv, FlowInv, Recall
    PROVE  TakesBack({i \in Queued : owner[i] \in Humans})
<1> DEFINE humans == {i \in Range(coord.queue) : owner[i] \in Humans}
<1>t. coord \in Coordinator /\ coord.queue \in Seq(Ids) /\ Queued \subseteq Ids
  BY FlowTypes DEF ControlInv
<1>1. PICK rest \in Kept(coord.queue, Ids \ humans) : coord' = recall_human(coord, rest)
  BY DEF Recall
<1>2. /\ accepted' = [c \in Clients |->
                         IF \E i \in humans : owner[i] = c THEN 0 ELSE accepted[c]]
      /\ recalled' = recalled \cup humans
      /\ UNCHANGED <<owner, inbox, transcript, prompt, batch, worker, driver>>
  BY DEF Recall, turnVars
<1>3. humans = {i \in Queued : owner[i] \in Humans}
  BY DEF Queued
<1> HIDE DEF humans
<1>4. rest \in Seq(Ids) /\ Range(rest) = Range(coord.queue) \cap (Ids \ humans)
  BY <1>1, <1>t, KeptType
<1>5. IsInjective(rest)
  <2>1. IsInjective(coord.queue)
    BY DEF FlowInv, Distinct
  <2> QED  BY <1>1, <1>t, <2>1, KeptDistinct
<1>6. /\ coord' \in Coordinator /\ coord'.queue = rest
      /\ coord'.steering = coord.steering /\ coord'.next_id = coord.next_id
      /\ coord'.phase = coord.phase
  BY <1>1, <1>t, <1>4, RecallOp
<1>7. Queued' = Queued \ humans
  BY <1>t, <1>4, <1>6 DEF Queued
<1>8. TakesBack(humans)
  BY <1>2, <1>3, <1>5, <1>6, <1>7 DEF TakesBack
<1> QED  BY <1>3, <1>8

(* ... recalling the queued human inputs ...                               *)
LEMMA RecallKeeps == ControlInv /\ FlowInv /\ Recall => FlowInv'
<1> SUFFICES ASSUME ControlInv, FlowInv, Recall PROVE FlowInv'
  OBVIOUS
<1> DEFINE humans == {i \in Queued : owner[i] \in Humans}
<1>1. TakesBack(humans) /\ humans \subseteq Queued
  BY TakesBackOp
<1> HIDE DEF humans
<1>2. /\ Durable' = Durable /\ Prompted' = Prompted /\ Announcing' = Announcing
      /\ InHand' = InHand /\ Steering' = Steering /\ Waiting' = Waiting
      /\ coord'.next_id = coord.next_id /\ recalled' = recalled \cup humans
      /\ Queued' = Queued \ humans
      /\ UNCHANGED <<owner, inbox, transcript, prompt, batch, worker, driver>>
  BY <1>1 DEF TakesBack, Durable, Prompted, Announcing, InHand, Steering, Waiting
<1>3. Parties'
  BY <1>1, <1>2 DEF FlowInv, Parties
<1>4. Distinct'
  BY <1>1, <1>2 DEF FlowInv, Distinct, TakesBack
<1>5. Receipts'
  <2> SUFFICES ASSUME NEW i \in (1..coord.next_id) \ (recalled \cup humans)
               PROVE  owner[i] \in Clients /\ accepted'[owner[i]] = i
    BY <1>2 DEF Receipts
  <2>1. owner[i] \in Clients /\ accepted[owner[i]] = i
    BY DEF FlowInv, Receipts
  <2>2. ASSUME NEW j \in humans, owner[j] = owner[i] PROVE FALSE
    <3>1. j \in (1..coord.next_id) \ recalled
      BY <1>1 DEF FlowInv, Parties
    <3>2. accepted[owner[j]] = j
      BY <3>1 DEF FlowInv, Receipts
    <3> QED  BY <2>1, <2>2, <3>2
  <2> QED  BY <1>1, <2>1, <2>2 DEF TakesBack
<1>6. Carriers' /\ BatchStages'
  BY <1>1, <1>2 DEF FlowInv, Carriers, BatchStages, TakesBack, is_running
<1> QED  BY <1>3, <1>4, <1>5, <1>6 DEF FlowInv

(* next_prompt leases the whole queue.                                     *)
LEMMA LeaseKeeps == ControlInv /\ FlowInv /\ NextPrompt => FlowInv'
<1> SUFFICES ASSUME ControlInv, FlowInv, NextPrompt PROVE FlowInv'
  OBVIOUS
<1>t. /\ TypeOK /\ coord \in Coordinator /\ coord.queue \in Seq(Ids)
      /\ worker = "none" /\ inbox = ClosedInbox /\ Steering = {}
  <2>1. driver = "select"
    BY DEF NextPrompt
  <2>2. worker = "none" /\ inbox = ClosedInbox /\ ~is_running(coord)
    BY <2>1 DEF ControlInv, TurnControl, InboxIdleOutsideTurn
  <2> QED  BY <2>2, FlowTypes DEF ControlInv, FlowInv, Carriers
<1>1. /\ coord'.queue = <<>> /\ coord'.steering = coord.steering \cup Range(coord.queue)
      /\ coord'.next_id = coord.next_id /\ is_running(coord')
  <2>1. /\ flush(coord) \in Coordinator /\ flush(coord).queue = <<>>
        /\ flush(coord).steering = coord.steering \cup Range(coord.queue)
        /\ flush(coord).next_id = coord.next_id
    BY <1>t, FlushOp
  <2>2. coord' = start_turn(flush(coord))
    BY DEF NextPrompt
  <2> QED  BY <2>1, <2>2, StartOp DEF SameInputs, is_running
<1>2. /\ UNCHANGED <<accepted, owner, recalled, inbox, worker, batch, transcript>>
      /\ prompt' = coord.queue /\ driver' = "starting"
  BY DEF NextPrompt, clientVars
<1>3. /\ Durable' = Durable /\ Prompted' = Queued /\ Announcing = {} /\ Announcing' = {}
      /\ Steering' = Queued /\ Waiting' = {} /\ Queued' = {} /\ IsInjective(coord'.queue)
  <2>1. Waiting' = {}
    BY <1>t, <1>2, ClosedInboxType, RangeEmpty DEF Waiting
  <2> QED  BY <1>t, <1>1, <1>2, <2>1, RangeEmpty
           DEF Durable, Prompted, Announcing, Steering, Queued
<1>4. Parties'
  BY <1>t, <1>1, <1>2, <1>3 DEF FlowInv, Parties
<1>5. Distinct' /\ Receipts'
  BY <1>1, <1>2, <1>3 DEF FlowInv, Distinct, Receipts
<1>6. Carriers'
  BY <1>1, <1>3 DEF Carriers
<1>7. BatchStages'
  BY <1>t, <1>2, <1>3 DEF BatchStages
<1> QED  BY <1>4, <1>5, <1>6, <1>7 DEF FlowInv

(* What the engine still held goes back to the queue.                      *)
GivesBack ==
    /\ Recovered /\ IsInjective(coord'.queue)
    /\ Announcing = {} /\ worker' = "none" /\ driver' # "starting"
    /\ prompt' = <<>> /\ inbox'.pending = <<>>
    /\ UNCHANGED <<accepted, owner, recalled, transcript>>

(* ... giving back what the engine held ...                                *)
LEMMA GiveBackKeeps == ControlInv /\ FlowInv /\ GivesBack => FlowInv'
<1> SUFFICES ASSUME ControlInv, FlowInv, GivesBack PROVE FlowInv'
  OBVIOUS
<1>1. /\ Durable' = Durable /\ Prompted' = {} /\ Announcing = {} /\ Announcing' = {}
      /\ Steering' = {} /\ Waiting' = {} /\ Queued' = Queued \cup Steering
      /\ coord'.next_id = coord.next_id /\ ~is_running(coord')
      /\ UNCHANGED <<accepted, owner, recalled, transcript>>
  BY RangeEmpty DEF GivesBack, Recovered, Durable, Prompted, Announcing, Steering, Waiting, Queued
<1>2. Parties'
  BY <1>1 DEF FlowInv, Parties
<1>3. Distinct' /\ Receipts'
  BY <1>1, RangeEmpty DEF FlowInv, Distinct, Receipts, GivesBack
<1>4. Carriers' /\ BatchStages'
  BY <1>1 DEF Carriers, BatchStages, GivesBack
<1> QED  BY <1>2, <1>3, <1>4 DEF FlowInv

(* (which is what a rejected prompt and the end of the worker do)          *)
LEMMA EndGivesBack ==
    ASSUME ControlInv, FlowInv, RejectPrompt \/ WorkerEnded PROVE GivesBack
<1>t. TypeOK /\ TurnControl
  BY DEF ControlInv
<1>q. QueueApart /\ IsInjective(coord.queue) /\ IsInjective(inbox.pending)
  BY DEF FlowInv, Parties, Distinct, QueueApart, Queued, Steering
<1>1. CASE RejectPrompt
  <2>1. Recovered /\ IsInjective(coord'.queue)
    BY <1>1, <1>t, <1>q, CancelFinishOp DEF RejectPrompt
  <2>2. worker = "none" /\ inbox = ClosedInbox
    BY <1>1, <1>t DEF RejectPrompt, TurnControl, InboxIdleOutsideTurn
  <2> QED  BY <1>1, <2>1, <2>2, ClosedInboxType
           DEF GivesBack, RejectPrompt, clientVars, Announcing
<1>2. CASE WorkerEnded
  <2>1. Recovered /\ IsInjective(coord'.queue)
    BY <1>2, <1>t, <1>q, WorkerEndedOp
  <2> QED  BY <1>2, <2>1, ClosedInboxType
           DEF GivesBack, WorkerEnded, clientVars, Announcing, InboxFinished, Ended
<1> QED  BY <1>1, <1>2

(* The worker's steps that move an input: the prompt becomes durable and   *)
(* is acknowledged input by input; the inbox is read; each input read      *)
(* becomes durable, leaves the inbox and is acknowledged.                  *)
flowFrame == <<accepted, owner, recalled, prompt, driver>>
LogsPrompt ==
    /\ worker = "prepare" /\ worker' = "announce"
    /\ transcript' = transcript \o prompt /\ batch' = prompt
    /\ UNCHANGED <<flowFrame, coord, inbox>>
AnnouncesOne ==
    /\ worker = "announce" /\ worker' = "announce" /\ batch # <<>>
    /\ coord' = committed(coord, Head(batch)) /\ batch' = Tail(batch)
    /\ UNCHANGED <<flowFrame, inbox, transcript>>
ReadsInbox ==
    /\ worker = "loop" /\ worker' = "commit" /\ batch' = inbox.pending
    /\ UNCHANGED <<flowFrame, coord, inbox, transcript>>
LogsInput ==
    /\ worker = "push" /\ worker' = "emit"
    /\ transcript' = Append(transcript, Head(batch)) /\ InboxCommits(Head(batch))
    /\ UNCHANGED <<flowFrame, coord, batch>>
Acknowledges ==
    /\ worker = "emit" /\ worker' = "commit"
    /\ coord' = committed(coord, Head(batch)) /\ batch' = Tail(batch)
    /\ UNCHANGED <<flowFrame, inbox, transcript>>

(* ... writing the prompt, whose inputs were not durable before ...        *)
LEMMA LogsPromptKeeps ==
    ASSUME ControlInv, FlowInv, LogsPrompt
    PROVE  FlowInv' /\ Prompted \subseteq Steering \ Durable /\ IsInjective(prompt)
<1>t. /\ TypeOK /\ prompt \in Seq(Ids) /\ transcript \in Seq(Ids) /\ driver # "starting"
  BY FlowTypes DEF ControlInv, TurnControl, LogsPrompt
<1>1. Prompted \subseteq Steering /\ Durable \cap Steering = {} /\ IsInjective(prompt)
  BY DEF LogsPrompt, FlowInv, BatchStages, Parties, Announcing, Distinct
<1>2. /\ Range(transcript \o prompt) = Durable \cup Prompted
      /\ IsInjective(transcript) => IsInjective(transcript \o prompt)
  BY <1>t, <1>1, RangeConcat DEF Durable, Prompted
<1>3. /\ Durable' = Durable \cup Prompted /\ Prompted' = Prompted /\ Announcing = {}
      /\ Announcing' = Prompted /\ InHand' = Prompted
      /\ Steering' = Steering /\ Waiting' = Waiting /\ Queued' = Queued
      /\ UNCHANGED <<flowFrame, coord, inbox>>
  BY <1>2 DEF LogsPrompt, flowFrame, Durable, Prompted, Announcing, InHand, Steering, Waiting,
     Queued
<1>4. Parties'
  BY <1>1, <1>3 DEF FlowInv, Parties, flowFrame
<1>5. Distinct' /\ Receipts'
  BY <1>2, <1>3 DEF FlowInv, Distinct, Receipts, LogsPrompt, flowFrame
<1>6. Carriers' /\ BatchStages'
  BY <1>t, <1>3 DEF FlowInv, Carriers, BatchStages, LogsPrompt, flowFrame
<1> QED  BY <1>1, <1>4, <1>5, <1>6 DEF FlowInv

(* ... announcing one of its inputs ...                                    *)
LEMMA AnnouncesOneKeeps == ControlInv /\ FlowInv /\ AnnouncesOne => FlowInv'
<1> SUFFICES ASSUME ControlInv, FlowInv, AnnouncesOne PROVE FlowInv'
  OBVIOUS
<1> DEFINE id == Head(batch)
<1>t. /\ TypeOK /\ coord \in Coordinator /\ batch \in Seq(Ids) /\ driver # "starting"
  BY FlowTypes DEF ControlInv, TurnControl, AnnouncesOne
<1>1. InHand = {id} \cup Range(Tail(batch))
  BY <1>t, RangeTail DEF AnnouncesOne, InHand
<1>2. id \in Prompted /\ id \in Durable /\ id \notin Waiting
  BY <1>1 DEF AnnouncesOne, FlowInv, BatchStages, Carriers
<1>3. /\ coord'.queue = coord.queue /\ coord'.steering = coord.steering \ {id}
      /\ coord'.next_id = coord.next_id /\ coord'.phase = coord.phase
  BY <1>t, CommittedOp DEF AnnouncesOne
<1> HIDE DEF id
<1>4. /\ Durable' = Durable /\ Prompted' = Prompted /\ Announcing = InHand
      /\ Announcing' = Range(Tail(batch)) /\ InHand' = Range(Tail(batch))
      /\ Steering' = Steering \ {id} /\ Waiting' = Waiting /\ Queued' = Queued
      /\ UNCHANGED <<flowFrame, inbox, transcript>>
  BY <1>3 DEF AnnouncesOne, flowFrame, Durable, Prompted, Announcing, InHand, Steering, Waiting,
     Queued
<1>5. Parties'
  BY <1>1, <1>2, <1>3, <1>4 DEF FlowInv, Parties, flowFrame
<1>6. Distinct' /\ Receipts'
  BY <1>3, <1>4 DEF FlowInv, Distinct, Receipts, flowFrame
<1>7. Carriers'
  BY <1>1, <1>2, <1>3, <1>4 DEF FlowInv, Carriers, flowFrame, is_running
<1>8. BatchStages'
  BY <1>t, <1>1, <1>4 DEF FlowInv, BatchStages, AnnouncesOne, flowFrame
<1> QED  BY <1>5, <1>6, <1>7, <1>8 DEF FlowInv

(* ... reading the inbox ...                                               *)
LEMMA ReadsInboxKeeps == ControlInv /\ FlowInv /\ ReadsInbox => FlowInv'
<1> SUFFICES ASSUME ControlInv, FlowInv, ReadsInbox PROVE FlowInv'
  OBVIOUS
<1>t. driver # "starting"
  BY DEF ControlInv, TurnControl, ReadsInbox
<1>1. /\ Durable' = Durable /\ Prompted' = Prompted /\ Announcing = {} /\ Announcing' = {}
      /\ InHand' = Waiting /\ Steering' = Steering /\ Waiting' = Waiting /\ Queued' = Queued
      /\ UNCHANGED <<flowFrame, coord, inbox, transcript>>
  BY DEF ReadsInbox, flowFrame, Durable, Prompted, Announcing, InHand, Steering, Waiting, Queued
<1>2. Parties' /\ Distinct' /\ Receipts'
  BY <1>1 DEF FlowInv, Parties, Distinct, Receipts, flowFrame
<1>3. Carriers' /\ BatchStages'
  BY <1>t, <1>1 DEF FlowInv, Carriers, BatchStages, Distinct, ReadsInbox, flowFrame
<1> QED  BY <1>2, <1>3 DEF FlowInv

(* ... writing one of its inputs, which was not durable before ...         *)
LEMMA LogsInputKeeps ==
    ASSUME ControlInv, FlowInv, LogsInput
    PROVE  FlowInv' /\ Head(batch) \in Ids /\ Head(batch) \in Steering \ Durable
<1> DEFINE id == Head(batch)
<1>t. /\ TypeOK /\ batch \in Seq(Ids) /\ transcript \in Seq(Ids) /\ inbox \in Inbox
      /\ inbox.pending \in Seq(Ids) /\ Waiting \subseteq Ids /\ driver # "starting" /\ batch # <<>>
  BY FlowTypes DEF ControlInv, TurnControl, BatchInHand, LogsInput
<1>1. /\ InHand = {id} \cup Range(Tail(batch)) /\ id \in Ids
      /\ InHand \subseteq Waiting /\ id \notin Range(Tail(batch)) /\ IsInjective(batch)
  BY <1>t, RangeTail DEF InHand, LogsInput, FlowInv, BatchStages
<1>2. id \in Waiting /\ id \in Steering /\ id \notin Durable /\ id \notin Prompted
  BY <1>1 DEF LogsInput, FlowInv, Parties, Carriers, Announcing
<1>3. PICK rest \in Kept(inbox.pending, Ids \ {id}) : inbox' = [inbox EXCEPT !.pending = rest]
  BY DEF LogsInput, InboxCommits
<1>4. /\ rest \in Seq(Ids) /\ Range(rest) = Waiting \cap (Ids \ {id})
      /\ IsInjective(inbox.pending) => IsInjective(rest)
  BY <1>t, <1>3, KeptType, KeptDistinct DEF Waiting
<1>5. inbox'.pending = rest
  BY <1>t, <1>3, <1>4, InboxOp
<1>6. /\ Range(Append(transcript, id)) = Durable \cup {id}
      /\ IsInjective(transcript) => IsInjective(Append(transcript, id))
  BY <1>t, <1>1, <1>2, RangeAppend DEF Durable
<1>7. /\ Durable' = Durable \cup {id} /\ Prompted' = Prompted /\ Announcing = {}
      /\ Announcing' = {id} /\ InHand' = InHand
      /\ Steering' = Steering /\ Waiting' = Waiting \ {id} /\ Queued' = Queued
      /\ UNCHANGED <<flowFrame, coord, batch>>
  BY <1>t, <1>4, <1>5, <1>6 DEF LogsInput, flowFrame, Durable, Prompted, Announcing, InHand,
     Steering, Waiting, Queued
<1>8. Parties'
  BY <1>2, <1>7 DEF FlowInv, Parties, flowFrame
<1>9. Distinct' /\ Receipts'
  BY <1>4, <1>5, <1>6, <1>7 DEF FlowInv, Distinct, Receipts, LogsInput, flowFrame
<1>10. Carriers'
  BY <1>2, <1>7 DEF FlowInv, Carriers, flowFrame
<1>11. BatchStages'
  <2>1. Head(batch') = id /\ Tail(batch') = Tail(batch) /\ IsInjective(batch')
    BY <1>1, <1>7
  <2>2. Range(Tail(batch)) \subseteq Waiting' /\ id \in Durable' \ Waiting'
    BY <1>1, <1>7
  <2> QED  BY <1>t, <1>7, <2>1, <2>2 DEF BatchStages, LogsInput, flowFrame
<1> QED  BY <1>1, <1>2, <1>8, <1>9, <1>10, <1>11 DEF FlowInv

(* ... and acknowledging that input.                                       *)
LEMMA AcknowledgesKeeps == ControlInv /\ FlowInv /\ Acknowledges => FlowInv'
<1> SUFFICES ASSUME ControlInv, FlowInv, Acknowledges PROVE FlowInv'
  OBVIOUS
<1> DEFINE id == Head(batch)
<1>t. /\ TypeOK /\ coord \in Coordinator /\ batch \in Seq(Ids) /\ driver # "starting"
      /\ batch # <<>>
  BY FlowTypes DEF ControlInv, TurnControl, BatchInHand, Acknowledges
<1>1. /\ id \in Durable /\ id \notin Waiting /\ Range(Tail(batch)) \subseteq Waiting
      /\ IsInjective(Tail(batch))
  BY <1>t, RangeTail DEF Acknowledges, FlowInv, BatchStages
<1>2. /\ coord'.queue = coord.queue /\ coord'.steering = coord.steering \ {id}
      /\ coord'.next_id = coord.next_id /\ coord'.phase = coord.phase
  BY <1>t, CommittedOp DEF Acknowledges
<1>3. Announcing = {id}
  BY DEF Acknowledges, Announcing
<1> HIDE DEF id
<1>4. /\ Durable' = Durable /\ Prompted' = Prompted
      /\ Announcing' = {} /\ InHand' = Range(Tail(batch))
      /\ Steering' = Steering \ {id} /\ Waiting' = Waiting /\ Queued' = Queued
      /\ UNCHANGED <<flowFrame, inbox, transcript>>
  BY <1>2 DEF Acknowledges, flowFrame, Durable, Prompted, Announcing, InHand, Steering, Waiting,
     Queued
<1>5. Parties'
  BY <1>1, <1>2, <1>3, <1>4 DEF FlowInv, Parties, flowFrame
<1>6. Distinct' /\ Receipts'
  BY <1>2, <1>4 DEF FlowInv, Distinct, Receipts, flowFrame
<1>7. Carriers'
  BY <1>1, <1>2, <1>3, <1>4 DEF FlowInv, Carriers, flowFrame, is_running
<1>8. BatchStages'
  BY <1>t, <1>1, <1>4 DEF BatchStages, Acknowledges, flowFrame
<1> QED  BY <1>5, <1>6, <1>7, <1>8 DEF FlowInv

(* Every step is one of these.                                             *)
FlowKind ==
    \/ Still \/ FlushesIn \/ Recall \/ NextPrompt \/ GivesBack
    \/ \E c \in Clients : Accepts(c)
    \/ LogsPrompt \/ AnnouncesOne \/ ReadsInbox \/ LogsInput \/ Acknowledges

(* Every command and every step of a task is of one of these kinds ...     *)
LEMMA CommandKinds ==
    ASSUME ControlInv, FlowInv, CommandStep \/ TaskStep PROVE FlowKind
<1>t. TypeOK /\ coord \in Coordinator /\ TurnControl
  BY DEF ControlInv, TypeOK
<1>q. QueueApart
  BY DEF FlowInv, Parties, QueueApart, Queued, Steering
<1>s. ASSUME UNCHANGED <<coord, inbox, accepted, owner, recalled, prompt, transcript, driver, worker,
                         batch>>
      PROVE  Still
  BY <1>s DEF Still, StageMove, SameInputs
<1>1. ASSUME NEW c \in Submitters, NEW steering \in BOOLEAN, Submit(c, steering)
      PROVE  FlowKind
  <2>1. CASE accepted[c] # 0
    BY <1>1, <2>1, <1>s DEF Submit, turnVars, FlowKind
  <2>2. CASE accepted[c] = 0
    <3>1. c \in Clients /\ AcceptNew(c, steering)
      BY <1>1, <2>2 DEF Submit, Clients
    <3>2. /\ coord'.next_id = coord.next_id + 1
          /\ is_running(coord') <=> is_running(coord)
          /\ Enqueued \/ (can_deliver(coord) /\ Steered)
      BY <1>t, <1>q, <3>1, AcceptNewOp
    <3>3. /\ coord.next_id < MaxInputs
          /\ accepted' = [accepted EXCEPT ![c] = coord.next_id + 1]
          /\ owner' = [owner EXCEPT ![coord.next_id + 1] = c]
      BY <3>1 DEF AcceptNew
    <3>4. Accepts(c)
      BY <1>1, <2>2, <3>2, <3>3 DEF Accepts, Submit, turnVars
    <3> QED  BY <3>1, <3>4 DEF FlowKind
  <2> QED  BY <2>1, <2>2
<1>2. ASSUME NEW or_cancel \in BOOLEAN, Flush(or_cancel) PROVE FlowKind
  <2> DEFINE frame == <<accepted, owner, recalled, transcript, prompt, batch, worker, driver>>
  <2>0. UNCHANGED frame
    BY <1>2 DEF Flush
  <2>1. CASE FlushPending
    <3>1. CASE SameInputs(coord, coord') /\ inbox' = inbox
      <4>1. is_running(coord') <=> is_running(coord)
        BY <1>t, <2>1, FlushPendingOp
      <4> QED  BY <2>0, <3>1, <4>1 DEF Still, StageMove, FlowKind
    <3>2. CASE can_deliver(coord) /\ Flushed
      <4>1. is_running(coord') /\ coord'.next_id = coord.next_id
        BY <1>t, <2>1, <3>2, FlushPendingOp DEF can_deliver, is_running
      <4> QED  BY <2>0, <3>2, <4>1 DEF FlushesIn, FlowKind
    <3> QED  BY <1>t, <1>q, <2>1, <3>1, <3>2, FlushPendingOp
  <2>2. CASE CancelEmpty
    <3>1. SameInputs(coord, coord') /\ is_running(coord') /\ inbox' = inbox
      BY <1>t, <2>2, CancelOp DEF CancelEmpty, is_running
    <3> QED  BY <2>0, <3>1 DEF Still, StageMove, FlowKind
  <2>3. CASE UNCHANGED <<coord, inbox>>
    BY <2>0, <2>3, <1>s DEF FlowKind
  <2> QED  BY <1>2, <2>1, <2>2, <2>3 DEF Flush
<1>3. CASE Recall
  BY <1>3 DEF FlowKind
<1>4. ASSUME NEW h \in Hosts,
             \/ \E allow \in BOOLEAN : AcquireLifecycle(h, allow)
             \/ ReleaseLifecycle(h)
      PROVE  FlowKind
  BY <1>4, <1>s DEF AcquireLifecycle, ReleaseLifecycle, clientVars, turnVars, FlowKind
<1>5. ASSUME NEW h \in Hosts, DirectPrompt(h) PROVE FlowKind
  <2>1. /\ driver' = "starting" /\ prompt' = <<>> /\ driver = "select"
        /\ UNCHANGED <<coord, inbox, accepted, owner, recalled, transcript, worker, batch>>
    BY <1>5 DEF DirectPrompt, clientVars
  <2>2. prompt = <<>>
    BY <1>t, <2>1 DEF TurnControl
  <2> QED  BY <2>1, <2>2 DEF Still, StageMove, SameInputs, FlowKind
<1>6. CASE Cancel
  <2>1. SameInputs(coord, coord') /\ (is_running(coord') \/ ~is_running(coord))
    <3>1. CASE is_running(coord)
      BY <1>6, <1>t, <3>1, CancelOp DEF Cancel, is_running
    <3>2. CASE ~is_running(coord) /\ has_pending_input(coord)
      <4>1. coord.steering = {}
        BY <3>2 DEF FlowInv, Carriers, Steering
      <4> QED  BY <1>6, <1>t, <3>2, <4>1, CancelFinishOp DEF Cancel
    <3>3. CASE ~is_running(coord) /\ ~has_pending_input(coord)
      BY <1>6, <3>3 DEF Cancel, SameInputs
    <3> QED  BY <3>1, <3>2, <3>3
  <2> QED  BY <1>6, <2>1 DEF Cancel, clientVars, Still, StageMove, FlowKind
<1>7. CASE Close
  <2>1. CASE driver = "turn"
    BY <1>7, <2>1, <1>s DEF Close, clientVars, FlowKind
  <2>2. CASE driver # "turn"
    <3>1. worker = "none"
      BY <1>t, <2>2 DEF TurnControl
    <3> QED  BY <1>7, <2>2, <3>1
             DEF Close, clientVars, Still, StageMove, SameInputs, Announcing, FlowKind
  <2> QED  BY <2>1, <2>2
<1>8. CASE WatchBackground
  BY <1>8, <1>s DEF WatchBackground, turnVars, FlowKind
<1>9. ASSUME NEW t \in Tasks, TaskEnds(t) PROVE FlowKind
  BY <1>9, <1>s DEF TaskEnds, turnVars, FlowKind
<1>10. ASSUME NEW t \in Tasks, ObserveNotification(t) PROVE FlowKind
  <2>1. /\ coord'.queue = Append(coord.queue, coord.next_id + 1)
        /\ coord'.steering = coord.steering
        /\ coord'.next_id = coord.next_id + 1 /\ coord'.phase = coord.phase
    BY <1>10, <1>t, EnqueueOp DEF ObserveNotification
  <2>2. Enqueued
    BY <1>10, <2>1 DEF ObserveNotification, Enqueued
  <2>3. Accepts(t)
    BY <1>10, <2>1, <2>2 DEF ObserveNotification, turnVars, Accepts, is_running
  <2> QED  BY <2>3 DEF FlowKind, Clients
<1> QED  BY <1>1, <1>2, <1>3, <1>4, <1>5, <1>6, <1>7, <1>8, <1>9, <1>10 DEF CommandStep, TaskStep

(* ... and so is every step of the worker ...                              *)
LEMMA WorkerKinds ==
    ASSUME ControlInv, FlowInv, WorkerStep PROVE FlowKind
<1>t. TypeOK
  BY DEF ControlInv
<1>f. UNCHANGED flowFrame
  BY <1>t, WorkerControl DEF flowFrame
<1>s. ASSUME UNCHANGED <<coord, batch, transcript>>, inbox'.pending = inbox.pending,
             Announcing = {},
             worker' \notin {"prepare", "announce", "commit", "push", "emit"}
      PROVE  FlowKind
  <2>1. driver # "starting"
    BY <1>t, WorkerControl DEF ControlInv, TurnControl, WorkerStages
  <2> QED  BY <1>f, <1>s, <2>1 DEF Still, StageMove, SameInputs, flowFrame, FlowKind
<1>1. CASE PreparePrompt
  <2>1. CASE worker' = "announce"
    BY <1>1, <1>f, <2>1 DEF PreparePrompt, Goto, LogsPrompt, FlowKind
  <2>2. CASE worker' # "announce"
    BY <1>1, <1>s, <2>2 DEF PreparePrompt, Goto, Announcing
  <2> QED  BY <2>1, <2>2
<1>2. CASE AnnouncePrompt
  <2>1. CASE batch # <<>>
    BY <1>2, <1>f, <2>1 DEF AnnouncePrompt, AnnouncesOne, FlowKind
  <2>2. CASE batch = <<>>
    <3>1. Announcing = {}
      BY <1>2, <2>2, RangeEmpty DEF AnnouncePrompt, Announcing, InHand
    <3> QED  BY <1>2, <1>s, <2>2, <3>1 DEF AnnouncePrompt
  <2> QED  BY <2>1, <2>2
<1>3. CASE LoopHead
  <2>1. CASE worker' = "commit"
    BY <1>3, <1>f, <2>1 DEF LoopHead, Goto, ReadsInbox, FlowKind
  <2>2. CASE worker' # "commit"
    BY <1>3, <1>s, <2>2 DEF LoopHead, Goto, Announcing
  <2> QED  BY <2>1, <2>2
<1>4. CASE CommitNext
  <2>1. CASE worker' = "push"
    BY <1>4, <1>f, <2>1
    DEF CommitNext, Goto, Still, StageMove, SameInputs, flowFrame, FlowKind
  <2>2. CASE worker' # "push"
    BY <1>4, <1>s, <2>2 DEF CommitNext, Goto, Announcing
  <2> QED  BY <2>1, <2>2
<1>5. CASE PushInput
  <2>1. CASE worker' = "emit"
    BY <1>5, <1>f, <2>1 DEF PushInput, Goto, LogsInput, FlowKind
  <2>2. CASE worker' # "emit"
    BY <1>5, <1>s, <2>2 DEF PushInput, Goto, Announcing
  <2> QED  BY <2>1, <2>2
<1>6. CASE EmitCommitted
  BY <1>6, <1>f DEF EmitCommitted, Goto, Acknowledges, FlowKind
<1>7. CASE OpenStream \/ ExecuteResponse \/ RecoverStream
  BY <1>7, <1>s DEF OpenStream, ExecuteResponse, RecoverStream, Goto, Announcing
<1>8. CASE SettleCancelled \/ SettleTools \/ SettleFinal \/ FinishTurnState
  BY <1>8, <1>s DEF SettleCancelled, SettleTools, SettleFinal, FinishTurnState, Goto, Announcing
<1>9. CASE SealInbox
  <2>1. inbox'.pending = inbox.pending
    BY <1>9, <1>t, InboxTyped, InboxOp DEF SealInbox, InboxSeals
  <2> QED  BY <1>9, <1>s, <2>1 DEF SealInbox, Goto, Announcing
<1> QED  BY <1>1, <1>2, <1>3, <1>4, <1>5, <1>6, <1>7, <1>8, <1>9 DEF WorkerStep

(* ... and therefore every step.                                           *)
LEMMA FlowKinds == ControlInv /\ FlowInv /\ [Next]_vars => FlowKind
<1> SUFFICES ASSUME ControlInv, FlowInv, [Next]_vars PROVE FlowKind
  OBVIOUS
<1>1. CASE RunOneTurn
  <2>1. TypeOK /\ coord \in Coordinator /\ TurnControl
    BY DEF ControlInv, TypeOK
  <2>2. worker = "none"
    BY <1>1, <2>1 DEF RunOneTurn, TurnControl
  <2>3. SameInputs(coord, coord') /\ (is_running(coord') \/ ~is_running(coord))
    <3>1. CASE can_start(coord)
      <4> DEFINE d == start_turn(coord)
      <4>1. d \in Coordinator /\ SameInputs(coord, d) /\ coord' = turn_started(d)
        BY <1>1, <2>1, <3>1, StartOp DEF RunOneTurn
      <4> HIDE DEF d
      <4>2. SameInputs(d, coord')
        BY <4>1, StartedOp
      <4> QED  BY <3>1, <4>1, <4>2 DEF SameInputs, can_start, is_running
    <3>2. CASE ~can_start(coord)
      <4>1. coord' = turn_started(coord)
        BY <1>1, <3>2 DEF RunOneTurn
      <4> QED  BY <2>1, <4>1, StartedOp DEF is_running
    <3> QED  BY <3>1, <3>2
  <2>4. inbox'.pending = inbox.pending
    BY <1>1, <2>1, InboxTyped, InboxOp DEF RunOneTurn, InboxBegins
  <2> QED  BY <1>1, <2>2, <2>3, <2>4 DEF RunOneTurn, clientVars, Still, StageMove, FlowKind
<1>2. CASE UNCHANGED vars
  BY <1>2 DEF vars, clientVars, turnVars, Still, StageMove, SameInputs, FlowKind
<1> QED  BY <1>1, <1>2, CommandKinds, WorkerKinds, EndGivesBack
         DEF Next, DriverStep, Closed, FlowKind

(* Every step keeps the invariant on inputs.                               *)
LEMMA FlowStep == ControlInv /\ FlowInv /\ [Next]_vars => FlowInv'
  BY FlowKinds, StillKeeps, AcceptKeeps, FlushKeeps, RecallKeeps, LeaseKeeps, GiveBackKeeps,
     LogsPromptKeeps, AnnouncesOneKeeps, ReadsInboxKeeps, LogsInputKeeps, AcknowledgesKeeps
  DEF FlowKind

(* It holds at first ...                                                   *)
LEMMA FlowInit == Init => FlowInv
<1> SUFFICES ASSUME Init PROVE FlowInv
  OBVIOUS
<1>1. /\ Queued = {} /\ Steering = {} /\ Durable = {} /\ recalled = {} /\ Waiting = {}
      /\ Prompted = {} /\ coord.next_id = 0 /\ coord.queue = <<>> /\ inbox.pending = <<>>
      /\ worker = "none" /\ driver = "select"
  BY RangeEmpty DEF Init, NewCoordinator, ClosedInbox, Queued, Steering, Durable, Waiting, Prompted
<1>2. 1..coord.next_id = {}
  BY <1>1
<1>3. Parties /\ Carriers /\ BatchStages
  BY <1>1, <1>2 DEF Parties, Carriers, BatchStages
<1>4. Distinct /\ Receipts
  BY <1>1, <1>2, RangeEmpty DEF Init, Distinct, Receipts
<1> QED  BY <1>3, <1>4 DEF FlowInv

(* ... and always.                                                         *)
LEMMA FlowAlways == Spec => [](ControlInv /\ FlowInv)
<1>1. Init => ControlInv /\ FlowInv
  BY ControlInit, FlowInit
<1>2. ControlInv /\ FlowInv /\ [Next]_vars => (ControlInv /\ FlowInv)'
  BY ControlStep, FlowStep
<1> QED  BY <1>1, <1>2, PTL DEF Spec

(* Every accepted input is owned by exactly one of the queue, the engine,  *)
(* the transcript and the editor (admit, InputDeferred, finish_turn).      *)
THEOREM InputsOwnedOnce == Spec => []OwnedOnce
<1>1. ASSUME FlowInv PROVE OwnedOnce
  <2> SUFFICES ASSUME NEW i \in 1..coord.next_id
               PROVE  Cardinality({p \in {"queue", "steering", "consumed", "recalled"} :
                          \/ p = "queue" /\ i \in Queued
                          \/ p = "steering" /\ i \in coord.steering
                          \/ p = "consumed" /\ i \in Durable \ coord.steering
                          \/ p = "recalled" /\ i \in recalled}) = 1
    BY DEF OwnedOnce
  <2> DEFINE Owners == {p \in {"queue", "steering", "consumed", "recalled"} :
                          \/ p = "queue" /\ i \in Queued
                          \/ p = "steering" /\ i \in coord.steering
                          \/ p = "consumed" /\ i \in Durable \ coord.steering
                          \/ p = "recalled" /\ i \in recalled}
  <2>1. i \in Queued \/ i \in Steering \/ i \in recalled \/ i \in Durable
    BY <1>1 DEF FlowInv, Parties
  <2>2. CASE i \in Queued
    <3>1. i \notin Steering /\ i \notin recalled /\ i \notin Durable
      BY <1>1, <2>2 DEF FlowInv, Parties
    <3> QED  BY <2>2, <3>1, FS_Singleton DEF Steering
  <2>3. CASE i \in Steering
    <3>1. i \notin Queued /\ i \notin recalled
      BY <1>1, <2>3 DEF FlowInv, Parties
    <3>2. Owners = {"steering"}
      BY <2>3, <3>1 DEF Steering
    <3> QED  BY <3>2, FS_Singleton
  <2>4. CASE i \in recalled
    <3>1. i \notin Queued /\ i \notin Steering /\ i \notin Durable
      BY <1>1, <2>4 DEF FlowInv, Parties
    <3>2. Owners = {"recalled"}
      BY <2>4, <3>1 DEF Steering
    <3> QED  BY <3>2, FS_Singleton
  <2>5. CASE i \in Durable \ Steering
    <3>1. i \notin Queued /\ i \notin recalled
      BY <1>1, <2>5 DEF FlowInv, Parties
    <3>2. Owners = {"consumed"}
      BY <2>5, <3>1 DEF Steering
    <3> QED  BY <3>2, FS_Singleton
  <2> QED  BY <2>1, <2>2, <2>3, <2>4, <2>5
<1> QED  BY <1>1, FlowAlways, PTL

(* A client id reaches the transcript at most once (State.accepted).       *)
THEOREM ClientsLoggedOnce == Spec => []OncePerClient
<1>1. ASSUME FlowInv PROVE OncePerClient
  <2> SUFFICES ASSUME NEW i \in DOMAIN transcript, NEW j \in DOMAIN transcript,
                      owner[transcript[i]] = owner[transcript[j]]
               PROVE  i = j
    BY DEF OncePerClient
  <2>1. transcript[i] \in Durable /\ transcript[j] \in Durable
    BY DEF Durable, Range
  <2>2. \A k \in Durable : accepted[owner[k]] = k
    BY <1>1 DEF FlowInv, Parties, Receipts
  <2>3. transcript[i] = transcript[j]
    BY <2>1, <2>2
  <2> QED  BY <1>1, <2>3 DEF FlowInv, Distinct, IsInjective
<1> QED  BY <1>1, FlowAlways, PTL

(* Inputs the engine was handed are always in the inbox, the prompt or the *)
(* batch, and between turns there are none (run_one_turn, next_prompt).    *)
THEOREM SteeringIsCarried == Spec => []SteeringHasCarrier
<1>1. ASSUME ControlInv, FlowInv PROVE SteeringHasCarrier
  <2>1. Announcing \subseteq InHand
    <3>1. worker = "emit" => Head(batch) \in InHand
      <4>1. batch \in Seq(Ids) /\ (worker = "emit" => batch # <<>>)
        BY <1>1, FlowTypes DEF ControlInv, TurnControl, BatchInHand
      <4> QED  BY <4>1, RangeTail DEF InHand
    <3> QED  BY <3>1 DEF Announcing
  <2> QED  BY <1>1, <2>1 DEF FlowInv, Carriers, ControlInv, TurnControl, SteeringHasCarrier,
              Steering, Waiting, Prompted, InHand
<1> QED  BY <1>1, FlowAlways, PTL

-----------------------------------------------------------------------------
(* The refinement.  Only accepting, taking back and making durable change  *)
(* what InputDelivery sees; everything else is a stuttering step.          *)

StatusNow == [i \in Ids |-> statusOf(i)]

(* A new session starts as the abstract delivery does.                     *)
LEMMA DeliveryInit == Init => Delivery!Init
<1> SUFFICES ASSUME Init PROVE Delivery!Init
  OBVIOUS
<1>1. Durable = {} /\ recalled = {} /\ coord.next_id = 0 /\ transcript = <<>>
  BY RangeEmpty DEF Init, NewCoordinator, Durable
<1>2. \A i \in Ids : statusOf(i) = "unsent"
  BY <1>1, MaxInputsAssumption DEF statusOf, Ids
<1> QED  BY <1>1, <1>2 DEF Delivery!Init

(* A step that logs nothing, recalls nothing and gives no id stutters.     *)
LEMMA QuietStutters ==
    ASSUME UNCHANGED <<transcript, recalled>>, coord'.next_id = coord.next_id
    PROVE  UNCHANGED <<StatusNow, transcript>>
<1>1. \A i \in Ids : statusOf(i)' = statusOf(i)
  BY DEF statusOf, Durable
<1> QED  BY <1>1 DEF StatusNow

(* Kinds of steps that the abstract delivery does not see.                 *)
LEMMA QuietKinds ==
    ASSUME ControlInv, FlowInv,
           \/ Still \/ FlushesIn \/ NextPrompt \/ GivesBack
           \/ AnnouncesOne \/ ReadsInbox \/ Acknowledges
    PROVE  UNCHANGED <<StatusNow, transcript>>
<1>t. coord \in Coordinator
  BY DEF ControlInv, TypeOK
<1>1. CASE Still \/ FlushesIn \/ GivesBack \/ ReadsInbox
  BY <1>1, QuietStutters DEF Still, SameInputs, FlushesIn, GivesBack, Recovered, ReadsInbox,
     flowFrame
<1>2. CASE NextPrompt
  <2>1. coord'.next_id = coord.next_id
    BY <1>2, <1>t, FlushOp, StartOp DEF NextPrompt, SameInputs
  <2> QED  BY <1>2, <2>1, QuietStutters DEF NextPrompt, clientVars
<1>3. CASE AnnouncesOne \/ Acknowledges
  <2>1. coord'.next_id = coord.next_id
    BY <1>3, <1>t, CommittedOp DEF AnnouncesOne, Acknowledges
  <2> QED  BY <1>3, <2>1, QuietStutters DEF AnnouncesOne, Acknowledges, flowFrame
<1> QED  BY <1>1, <1>2, <1>3

(* Accepting an input is the abstract acceptance ...                       *)
LEMMA AcceptsRefines ==
    ASSUME ControlInv, FlowInv, NEW c \in Clients, Accepts(c) PROVE Delivery!Accept
<1>0. coord.next_id \in Nat /\ coord.next_id + 1 \in Ids
  <2>1. coord.next_id \in Nat /\ coord.next_id < MaxInputs
    BY FlowTypes DEF ControlInv, Accepts
  <2> QED  BY <2>1, MaxInputsAssumption DEF Ids
<1>1. PICK id \in Ids : id = coord.next_id + 1
  BY <1>0
<1>2. UNCHANGED <<transcript, recalled>> /\ coord'.next_id = id /\ Durable' = Durable
  BY <1>1 DEF Accepts, Durable
<1>3. Durable \subseteq 1..coord.next_id /\ recalled \subseteq 1..coord.next_id
  BY DEF FlowInv, Parties
<1>4. statusOf(id) = "unsent" /\ statusOf(id)' = "pending"
  BY <1>0, <1>1, <1>2, <1>3 DEF statusOf
<1>5. \A j \in Ids : j # id => statusOf(j)' = statusOf(j)
  BY <1>0, <1>1, <1>2 DEF statusOf, Ids
<1>6. \A j \in Ids : j < id => statusOf(j) # "unsent"
  BY <1>0, <1>1 DEF statusOf, Ids
<1>7. StatusNow' = [StatusNow EXCEPT ![id] = "pending"]
  BY <1>1, <1>4, <1>5 DEF StatusNow
<1> QED  BY <1>1, <1>2, <1>4, <1>6, <1>7 DEF Delivery!Accept, StatusNow

(* Any group of the engine's inputs that becomes durable was pending.      *)
LEMMA LogRefines ==
    ASSUME ControlInv, FlowInv, NEW group \in Seq(Ids), IsInjective(group),
           Range(group) \subseteq Steering \ Durable,
           transcript' = transcript \o group, recalled' = recalled,
           coord'.next_id = coord.next_id
    PROVE  Delivery!Log(Delivery!Appended)
<1>t. transcript \in Seq(Ids) /\ coord.next_id \in Nat /\ Steering \subseteq Ids
  BY FlowTypes DEF ControlInv
<1>1. SubSeq(transcript', Len(transcript) + 1, Len(transcript')) = group
  BY <1>t, GainedSuffix
<1>2. Durable' = Durable \cup Range(group)
  BY <1>t, RangeConcat DEF Durable
<1>3. Steering \cap recalled = {} /\ Steering \subseteq 1..coord.next_id
  BY DEF FlowInv, Parties
<1>4. \A i \in Range(group) : i \in Ids /\ statusOf(i) = "pending"
  <2> SUFFICES ASSUME NEW i \in Range(group) PROVE i \in Ids /\ statusOf(i) = "pending"
    OBVIOUS
  <2>1. i \in Steering /\ i \notin Durable
    BY Zenon
  <2>2. i \in Ids /\ i \notin recalled /\ i \in 1..coord.next_id
    BY <1>t, <1>3, <2>1, Zenon
  <2>3. i <= coord.next_id
    BY <1>t, <2>2
  <2> QED  BY <2>1, <2>2, <2>3, Zenon DEF statusOf
<1>5. \A i \in Ids : statusOf(i)' = IF i \in Range(group) THEN "logged" ELSE statusOf(i)
  BY <1>2 DEF statusOf
<1>6. StatusNow' = [i \in Ids |-> IF i \in Range(group) THEN "logged" ELSE StatusNow[i]]
  BY <1>5 DEF StatusNow
<1>7. Range(group) \subseteq {i \in Ids : StatusNow[i] = "pending"}
  BY <1>4 DEF StatusNow
<1>8. Delivery!Range(group) = Range(group) /\ Delivery!IsInjective(group)
  BY DEF Delivery!Range, Range, Delivery!IsInjective, IsInjective
<1>9. Delivery!Log(group)
  BY <1>6, <1>7, <1>8 DEF Delivery!Log, Delivery!Pending, StatusNow
<1> QED  BY <1>1, <1>9 DEF Delivery!Appended

(* ... and recalling is the abstract taking back.                          *)
LEMMA RecallRefines ==
    ASSUME ControlInv, FlowInv, Recall
    PROVE  \E S \in SUBSET Ids : Delivery!TakeBack(S)
<1> DEFINE humans == {i \in Queued : owner[i] \in Humans}
<1>t. coord.next_id \in Nat /\ Queued \subseteq Ids
  BY FlowTypes DEF ControlInv
<1>1. TakesBack(humans) /\ humans \subseteq Queued
  BY TakesBackOp
<1> HIDE DEF humans
<1>2. /\ recalled' = recalled \cup humans /\ transcript' = transcript /\ Durable' = Durable
      /\ coord'.next_id = coord.next_id
  BY <1>1 DEF TakesBack, Durable
<1>3. /\ Queued \cap recalled = {} /\ Queued \cap Durable = {}
      /\ Queued \subseteq 1..coord.next_id
  BY DEF FlowInv, Parties
<1>4. \A i \in humans : i \in Ids /\ statusOf(i) = "pending"
  BY <1>t, <1>1, <1>3 DEF statusOf
<1>5. \A i \in Ids : statusOf(i)' = IF i \in humans THEN "recalled" ELSE statusOf(i)
  BY <1>1, <1>2, <1>3 DEF statusOf
<1>6. StatusNow' = [i \in Ids |-> IF i \in humans THEN "recalled" ELSE StatusNow[i]]
  BY <1>5 DEF StatusNow
<1>7. humans \subseteq {i \in Ids : StatusNow[i] = "pending"}
  BY <1>4 DEF StatusNow
<1>8. Delivery!TakeBack(humans)
  BY <1>2, <1>6, <1>7 DEF Delivery!TakeBack, Delivery!Pending, StatusNow
<1>9. humans \in SUBSET Ids
  BY <1>t, <1>1
<1> QED  BY <1>8, <1>9

(* Every step is one of the abstract delivery, or is not seen by it.       *)
LEMMA DeliveryStep ==
    ASSUME ControlInv, FlowInv, [Next]_vars
    PROVE  Delivery!Next \/ UNCHANGED <<StatusNow, transcript>>
<1>t. /\ prompt \in Seq(Ids) /\ transcript \in Seq(Ids)
  BY FlowTypes DEF ControlInv
<1>1. ASSUME NEW c \in Clients, Accepts(c) PROVE Delivery!Next
  BY <1>1, AcceptsRefines DEF Delivery!Next
<1>2. CASE Recall
  BY <1>2, RecallRefines DEF Delivery!Next
<1>3. CASE LogsPrompt
  <2>1. Prompted \subseteq Steering \ Durable /\ IsInjective(prompt)
    BY <1>3, LogsPromptKeeps
  <2>2. Delivery!Log(Delivery!Appended)
    BY <1>3, <1>t, <2>1, LogRefines DEF LogsPrompt, flowFrame, Prompted
  <2> QED  BY <2>2 DEF Delivery!Next
<1>4. CASE LogsInput
  <2> DEFINE id == Head(batch)
             group == <<id>>
  <2>1. id \in Ids /\ id \in Steering \ Durable
    BY <1>4, LogsInputKeeps
  <2>2. group \in Seq(Ids) /\ IsInjective(group) /\ Range(group) = {id}
    BY <2>1, RangeSingle
  <2>3. transcript' = transcript \o group
    <3>1. transcript' = Append(transcript, id)
      BY <1>4 DEF LogsInput
    <3> HIDE DEF id
    <3> QED  BY <1>t, <2>1, <3>1
  <2>4. recalled' = recalled /\ coord'.next_id = coord.next_id
    BY <1>4 DEF LogsInput, flowFrame
  <2> HIDE DEF group
  <2>5. Delivery!Log(Delivery!Appended)
    BY <2>1, <2>2, <2>3, <2>4, LogRefines
  <2> QED  BY <2>5 DEF Delivery!Next
<1> QED  BY <1>1, <1>2, <1>3, <1>4, FlowKinds, QuietKinds DEF FlowKind

(* The session implements InputDelivery: an accepted input stays pending   *)
(* until it is in the transcript, once, or taken back, whatever queues and *)
(* threads it goes through (session_inputs.rs, session.rs, turn.rs).       *)
THEOREM SessionImplementsDelivery == Spec => ImplementsDelivery
<1>1. ControlInv /\ FlowInv /\ [Next]_vars
        => [Delivery!Next]_<<[i \in Ids |-> statusOf(i)], transcript>>
  BY DeliveryStep DEF StatusNow
<1> QED  BY <1>1, DeliveryInit, FlowAlways, PTL DEF Spec, ImplementsDelivery, Delivery!Spec
=============================================================================
