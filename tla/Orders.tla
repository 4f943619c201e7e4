-------------------------------- MODULE Orders --------------------------------
(***************************************************************************)
(* Sequences determined by a set and an order.  Each operator is the set   *)
(* of the sequences meant, which has one element for the arguments it is   *)
(* used with (a queue without duplicates, a finite set of numbers).        *)
(***************************************************************************)
EXTENDS Integers, Sequences, Functions

(* The queue q with only its elements in S, in the same order: what retain *)
(* and filter leave of a queue.                                            *)
Kept(q, S) ==
    {s \in UNION {[1..m -> Range(q) \cap S] : m \in 0..Len(q)} :
        /\ Range(s) = Range(q) \cap S
        /\ \A i, j \in DOMAIN s : i < j =>
              \E k, l \in DOMAIN q : k < l /\ q[k] = s[i] /\ q[l] = s[j]}

(* The numbers of S, at most max of them, in ascending order: the keys of  *)
(* a BTreeMap.                                                             *)
Ascending(S, max) ==
    {s \in UNION {[1..m -> S] : m \in 0..max} :
        /\ Range(s) = S
        /\ \A i, j \in DOMAIN s : i < j => s[i] < s[j]}
===============================================================================
