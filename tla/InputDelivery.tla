----------------------------- MODULE InputDelivery -----------------------------
(***************************************************************************)
(* What a session promises about inputs, whatever queues and threads it    *)
(* uses: an accepted input stays pending until it is either logged, once,  *)
(* or recalled by its author; inputs are logged in groups, and a group     *)
(* contains only pending inputs.                                           *)
(***************************************************************************)
EXTENDS Integers, Sequences, Functions

CONSTANT Inputs             \* ids in the order they are accepted: 1, 2, ...

VARIABLES status, log

Pending == {i \in Inputs : status[i] = "pending"}

Init ==
    /\ status = [i \in Inputs |-> "unsent"]
    /\ log = <<>>

(* The session takes responsibility for the next input.                    *)
Accept ==
    \E i \in Inputs :
        /\ status[i] = "unsent"
        /\ \A j \in Inputs : j < i => status[j] # "unsent"
        /\ status' = [status EXCEPT ![i] = "pending"]
        /\ UNCHANGED log

(* A group of pending inputs becomes durable.                              *)
Log(group) ==
    /\ Range(group) \subseteq Pending
    /\ IsInjective(group)
    /\ log' = log \o group
    /\ status' = [i \in Inputs |-> IF i \in Range(group) THEN "logged" ELSE status[i]]

(* The author takes back some pending inputs.                              *)
TakeBack(S) ==
    /\ S \subseteq Pending
    /\ status' = [i \in Inputs |-> IF i \in S THEN "recalled" ELSE status[i]]
    /\ UNCHANGED log

(* What was appended to the log in this step.                              *)
Appended == SubSeq(log', Len(log) + 1, Len(log'))

Next ==
    \/ Accept
    \/ Log(Appended)
    \/ \E S \in SUBSET Inputs : TakeBack(S)

Spec == Init /\ [][Next]_<<status, log>>
================================================================================
