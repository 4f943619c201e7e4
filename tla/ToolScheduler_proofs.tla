------------------------- MODULE ToolScheduler_proofs -------------------------
(***************************************************************************)
(* Proofs about ToolScheduler, for any number of calls and any limit.      *)
(***************************************************************************)
EXTENDS ToolScheduler, SequenceTheorems, FiniteSetTheorems, NaturalsInduction,
        WellFoundedInduction, TLAPS

(* What a walk of admit may do to one call: it never completes, queues or  *)
(* skips, and a call becomes late only when every earlier one is           *)
(* classified and lets it pass.                                            *)
LEMMA AdmittedStep ==
    ASSUME TypeOK, NEW i \in Calls
    PROVE  /\ Admitted(i) \in Phase
           /\ Admitted(i) = "Absent" <=> phase[i] = "Absent"
           /\ Admitted(i) = "Complete" <=> phase[i] = "Complete"
           /\ Admitted(i) \in {"Queued", "Preparing"} <=> phase[i] \in {"Queued", "Preparing"}
           /\ (Admitted(i) \in Late /\ phase[i] \notin Late) => Reached(i) /\ Classified(i)
  BY DEF Admitted, TypeOK, Phase, Late, Waiting, Reached, Live

(* A completion is a tool update ...                                       *)
LEMMA CompletedType ==
    ASSUME NEW i \in Calls, NEW o \in Outcome
    PROVE  Completed(i, o) \in ToolUpdate
  BY DEF Completed, ToolUpdate

(* ... and so is a start.                                                  *)
LEMMA StartedType ==
    ASSUME NEW i \in Calls
    PROVE  Started(i) \in ToolUpdate
  BY DEF Started, ToolUpdate

(* The parts of the type invariant that arithmetic is done with.           *)
LEMMA Numbers ==
    ASSUME TypeOK
    PROVE  /\ n \in Nat /\ n <= MaxCalls
           /\ persisted \in Nat /\ persisted <= MaxCalls
           /\ 1..n \subseteq Calls
  <1>1. n \in 0..MaxCalls /\ persisted \in 0..MaxCalls
    BY DEF TypeOK
  <1> QED
    BY <1>1, MaxCallsAssumption DEF Calls

(* The run of results that one save appends to the transcript.             *)
LEMMA SavedRun ==
    ASSUME TypeOK, NEW k \in persisted..n
    PROVE  log \o [j \in 1..(k - persisted) |-> persisted + j] \in Seq(Calls)
  <1> DEFINE m == k - persisted
             run == [j \in 1..m |-> persisted + j]
  <1>1. m \in Nat
    BY Numbers
  <1>2. \A j \in 1..m : persisted + j \in Calls
    BY Numbers, MaxCallsAssumption DEF Calls
  <1>3. run \in Seq(Calls)
    <2> HIDE DEF m
    <2> QED
      BY <1>1, <1>2
  <1>4. log \in Seq(Calls)
    BY DEF TypeOK
  <1>5. log \o run \in Seq(Calls)
    <2> HIDE DEF run
    <2> QED
      BY <1>3, <1>4, ConcatProperties
  <1> QED
    BY <1>5

(* The types hold of a new response.                                       *)
LEMMA TypeInit == Init => TypeOK
  <1> SUFFICES ASSUME Init PROVE TypeOK
    OBVIOUS
  <1>1. /\ n \in 0..MaxCalls /\ persisted \in 0..MaxCalls
        /\ \A i \in Calls : phase[i] = "Absent" <=> i > n
    BY MaxCallsAssumption DEF Init, Calls
  <1>2. updates \in Seq(ToolUpdate) /\ log \in Seq(Calls) /\ observed \in Seq(ToolUpdate)
    BY EmptySeq DEF Init
  <1> QED
    BY <1>1, <1>2 DEF Init, TypeOK, Phase

-----------------------------------------------------------------------------
LEMMA TypeStep == TypeOK /\ [Next]_vars => TypeOK'
  <1> SUFFICES ASSUME TypeOK, [Next]_vars PROVE TypeOK'
    OBVIOUS
  <1> USE MaxCallsAssumption
  <1>1. CASE Select
    BY <1>1 DEF Select, TypeOK, callVars, saveVars
  <1>2. CASE SeeAbort
    BY <1>2 DEF SeeAbort, TypeOK, callVars, saveVars
  <1>3. CASE YieldToInput
    BY <1>3 DEF YieldToInput, TypeOK, callVars, saveVars
  <1>4. CASE NextAdmits
    <2>1. CASE aborted
      BY <1>4, <2>1 DEF NextAdmits, TypeOK, saveVars
    <2>2. CASE ~aborted
      <3>1. phase' \in [Calls -> Phase]
        BY <1>4, <2>2, AdmittedStep DEF NextAdmits, admit
      <3>2. \A i \in Calls : phase'[i] = "Absent" <=> i > n'
        BY <1>4, <2>2, AdmittedStep DEF NextAdmits, admit, TypeOK
      <3>3. updates' \in Seq(ToolUpdate)
        <4> DEFINE S == {i \in 1..n : phase[i] = "Authorized" /\ Admitted(i) = "Running"}
        <4>1. PICK s \in InCallOrder({Started(i) : i \in S}) : updates' = updates \o s
          BY <1>4, <2>2 DEF NextAdmits, admit
        <4>2. {Started(i) : i \in S} \subseteq ToolUpdate
          BY StartedType, Numbers
        <4>3. s \in Seq(ToolUpdate)
          BY <4>2 DEF InCallOrder
        <4>4. updates \in Seq(ToolUpdate)
          BY DEF TypeOK
        <4> QED
          BY <4>1, <4>3, <4>4, ConcatProperties
      <3> QED
        BY <1>4, <3>1, <3>2, <3>3 DEF NextAdmits, TypeOK, saveVars
    <2> QED
      BY <2>1, <2>2
  <1>5. CASE NextPends
    BY <1>5 DEF NextPends, TypeOK, callVars, saveVars
  <1>6. CASE ObserveUpdate
    <2>1. Head(updates) \in ToolUpdate /\ Tail(updates) \in Seq(ToolUpdate)
      BY <1>6 DEF ObserveUpdate, TypeOK
    <2>2. result' \in [Calls -> Outcome \cup {"none"}]
      BY <1>6, <2>1 DEF ObserveUpdate, Stored, TypeOK, ToolUpdate
    <2>3. PICK k \in 0..n : PersistReady(result', k)
      BY <1>6 DEF ObserveUpdate
    <2>4. persisted' \in 0..MaxCalls /\ log' \in Seq(Calls)
      <3>1. k \in persisted..n /\ k \in 0..MaxCalls
        BY <2>3, Numbers DEF PersistReady, Ready
      <3> QED
        BY <2>3, <3>1, SavedRun DEF PersistReady
    <2>5. observed' \in Seq(ToolUpdate)
      BY <1>6, <2>1 DEF ObserveUpdate, TypeOK
    <2> QED
      BY <1>6, <2>1, <2>2, <2>4, <2>5 DEF ObserveUpdate, TypeOK, callVars
  <1>7. ASSUME NEW i \in Calls, Advance(i) PROVE TypeOK'
    <2>1. /\ phase' \in [Calls -> Phase]
          /\ \A c \in Calls : phase'[c] = "Absent" <=> c > n'
      BY <1>7 DEF Advance, AdvancePrepared, AdvanceAuthorized, AdvanceExecuted,
                  AdvanceFinished, complete, TypeOK, Phase, Waiting, Late
    <2>2. parallel' \in [Calls -> BOOLEAN] /\ ran' \in [Calls -> BOOLEAN]
      BY <1>7 DEF Advance, AdvancePrepared, AdvanceAuthorized, AdvanceExecuted,
                  AdvanceFinished, TypeOK
    <2>3. updates' \in Seq(ToolUpdate)
      <3>1. \/ UNCHANGED updates
            \/ \E o \in Outcome : updates' = Append(updates, Completed(i, o))
        BY <1>7 DEF Advance, AdvancePrepared, AdvanceAuthorized, AdvanceExecuted,
                    AdvanceFinished, complete, Outcome
      <3>2. updates \in Seq(ToolUpdate)
        BY DEF TypeOK
      <3> QED
        BY <3>1, <3>2, CompletedType, AppendProperties
    <2> QED
      BY <1>7, <2>1, <2>2, <2>3 DEF Advance, TypeOK, saveVars
  <1>8. ASSUME NEW safe \in BOOLEAN, StreamToolUse(safe) PROVE TypeOK'
    BY <1>8 DEF StreamToolUse, TypeOK, Phase, Calls, saveVars
  <1>9. CASE StreamEnds
    BY <1>9 DEF StreamEnds, TypeOK, callVars, saveVars
  <1>10. CASE StreamFails
    BY <1>10 DEF StreamFails, TypeOK, callVars, saveVars
  <1>11. CASE Cleanup
    <2>1. \A i \in Calls : CancelOutcome(i) \in ToolUpdate
                           /\ CancelOutcome(i).outcome \in Outcome
      BY CompletedType DEF CancelOutcome, Completed, Outcome
    <2>2. observed' \in Seq(ToolUpdate)
      <3>1. PICK s \in InCallOrder({CancelOutcome(i) : i \in Unfinished}) :
                observed' = observed \o updates \o s
        BY <1>11 DEF Cleanup
      <3>2. {CancelOutcome(i) : i \in Unfinished} \subseteq ToolUpdate
        BY <2>1, Numbers DEF Unfinished
      <3>3. s \in Seq(ToolUpdate)
        BY <3>2 DEF InCallOrder
      <3>4. observed \o updates \in Seq(ToolUpdate)
        BY ConcatProperties DEF TypeOK
      <3> QED
        BY <3>1, <3>3, <3>4, ConcatProperties
    <2>3. result' \in [Calls -> Outcome \cup {"none"}]
      <3> SUFFICES ASSUME NEW i \in Calls PROVE result'[i] \in Outcome \cup {"none"}
        BY <1>11 DEF Cleanup
      <3>1. CASE Live(i)
        BY <1>11, <2>1, <3>1 DEF Cleanup
      <3>2. CASE ~Live(i) /\ \E k \in DOMAIN updates : updates[k].kind = "Completed"
                                                      /\ updates[k].index = i
        <4> DEFINE P(u) == u.kind = "Completed" /\ u.index = i
        <4>1. \E u \in Range(updates) : P(u)
          BY <3>2 DEF Range
        <4>2. (CHOOSE u \in Range(updates) : P(u)) \in Range(updates)
          BY <4>1
        <4>3. Range(updates) \subseteq ToolUpdate
          <5>1. updates \in Seq(ToolUpdate)
            BY DEF TypeOK
          <5>2. DOMAIN updates = 1..Len(updates)
            BY <5>1, LenProperties
          <5> QED
            BY <5>1, <5>2, ElementOfSeq DEF Range
        <4>4. result'[i] = (CHOOSE u \in Range(updates) : P(u)).outcome
          BY <1>11, <3>2 DEF Cleanup
        <4> QED
          BY <4>2, <4>3, <4>4 DEF ToolUpdate
      <3>3. CASE ~Live(i) /\ ~\E k \in DOMAIN updates : updates[k].kind = "Completed"
                                                       /\ updates[k].index = i
        BY <1>11, <3>3 DEF Cleanup, TypeOK
      <3> QED
        BY <3>1, <3>2, <3>3
    <2>4. phase' \in [Calls -> Phase] /\ \A i \in Calls : phase'[i] = "Absent" <=> i > n'
      BY <1>11 DEF Cleanup, Phase, TypeOK, Calls
    <2>5. /\ UNCHANGED <<n, parallel, ran, ended, failed, persisted, log>>
          /\ updates' = <<>> /\ pc' = "persist" /\ aborted' = TRUE
      BY <1>11 DEF Cleanup, saveVars
    <2> QED
      BY <2>2, <2>3, <2>4, <2>5, EmptySeq DEF TypeOK
  <1>12. CASE PersistRest
    <2>1. PICK k \in 0..n : PersistReady(result, k) /\ failed' = (failed \/ ~AllReady(result, k))
      BY <1>12 DEF PersistRest
    <2>2. k \in persisted..n /\ k \in 0..MaxCalls
      BY <2>1, Numbers DEF PersistReady, Ready
    <2>3. persisted' \in 0..MaxCalls /\ log' \in Seq(Calls) /\ failed' \in BOOLEAN
      BY <2>1, <2>2, SavedRun DEF PersistReady
    <2> QED
      BY <1>12, <2>3 DEF PersistRest, TypeOK, callVars
  <1>13. CASE Checkpoint
    <2>1. log' \in Seq(Calls)
      BY <1>13, SavedRun DEF Checkpoint
    <2>2. pc' \in {"returned", "turn failed"}
      BY <1>13 DEF Checkpoint
    <2> QED
      BY <1>13, <2>1, <2>2 DEF Checkpoint, TypeOK, callVars
  <1>14. CASE Abort
    BY <1>14 DEF Abort, TypeOK, callVars, saveVars
  <1>15. CASE UNCHANGED vars
    BY <1>15 DEF vars, TypeOK, callVars, saveVars
  <1> QED
    BY <1>1, <1>2, <1>3, <1>4, <1>5, <1>6, <1>7, <1>8, <1>9, <1>10, <1>11, <1>12,
       <1>13, <1>14, <1>15 DEF Next, LoopStep, StreamStep, Returned

(* Every variable of the scheduler and of its loop keeps its type, and the *)
(* calls are numbered without gaps.                                        *)
THEOREM TypeCorrect == Spec => []TypeOK
  BY TypeInit, TypeStep, PTL DEF Spec

-----------------------------------------------------------------------------
(* OrderFence is inductive together with the types.                        *)
LEMMA FenceStep == TypeOK /\ OrderFence /\ [Next]_vars => OrderFence'
  <1> SUFFICES ASSUME TypeOK, OrderFence, [Next]_vars PROVE OrderFence'
    OBVIOUS
  <1> USE MaxCallsAssumption
  <1>1. CASE UNCHANGED <<phase, parallel>>
    BY <1>1 DEF OrderFence
  <1>2. CASE NextAdmits
    <2>1. CASE aborted
      BY <1>1, <1>2, <2>1 DEF NextAdmits
    <2>2. CASE ~aborted
      <3> SUFFICES ASSUME NEW i \in Calls, NEW j \in Calls, j < i, phase'[i] \in Late
                   PROVE  /\ phase'[j] \notin {"Queued", "Preparing"}
                          /\ phase'[j] # "Complete" => parallel'[j] /\ parallel'[i]
        BY DEF OrderFence
      <3>1. phase'[i] = Admitted(i) /\ phase'[j] = Admitted(j) /\ parallel' = parallel
        BY <1>2, <2>2 DEF NextAdmits, admit
      <3>2. CASE phase[i] \in Late
        BY <3>1, <3>2, AdmittedStep DEF OrderFence
      <3>3. CASE phase[i] \notin Late
        <4>1. Reached(i) /\ Classified(i)
          BY <3>1, <3>3, AdmittedStep
        <4>2. j \in 1..(i - 1) /\ j \in 1..n
          <5>1. i \in 1..n
            BY <4>1 DEF Reached, Live
          <5> QED
            BY <5>1, Numbers DEF Calls
        <4>3. phase[j] \notin {"Queued", "Preparing"}
          BY <4>1, <4>2 DEF Classified
        <4>4. phase[j] # "Complete" => parallel[j] /\ parallel[i]
          BY <4>1, <4>2 DEF Reached, Live
        <4> QED
          BY <3>1, <4>3, <4>4, AdmittedStep
      <3> QED
        BY <3>2, <3>3
    <2> QED
      BY <2>1, <2>2
  <1>3. ASSUME NEW c \in Calls, Advance(c) PROVE OrderFence'
    <2> SUFFICES ASSUME NEW i \in Calls, NEW j \in Calls, j < i, phase'[i] \in Late
                 PROVE  /\ phase'[j] \notin {"Queued", "Preparing"}
                        /\ phase'[j] # "Complete" => parallel'[j] /\ parallel'[i]
      BY DEF OrderFence
    <2>1. phase[i] \in Late
      BY <1>3 DEF Advance, AdvancePrepared, AdvanceAuthorized, AdvanceExecuted,
                  AdvanceFinished, complete, Late, TypeOK
    <2>2. /\ phase[j] \notin {"Queued", "Preparing"}
          /\ phase[j] # "Complete" => parallel[j] /\ parallel[i]
      BY <2>1 DEF OrderFence
    <2>3. phase[i] # "Preparing"
      BY <2>1 DEF Late
    <2>4. parallel'[i] = parallel[i] /\ parallel'[j] = parallel[j]
      BY <1>3, <2>2, <2>3 DEF Advance, AdvancePrepared, AdvanceAuthorized, AdvanceExecuted,
                  AdvanceFinished, TypeOK
    <2>5. /\ phase'[j] \notin {"Queued", "Preparing"}
          /\ phase'[j] # "Complete" => phase[j] # "Complete"
      BY <1>3, <2>2 DEF Advance, AdvancePrepared, AdvanceAuthorized, AdvanceExecuted,
                  AdvanceFinished, complete, TypeOK
    <2> QED
      BY <2>2, <2>4, <2>5
  <1>4. ASSUME NEW safe \in BOOLEAN, StreamToolUse(safe) PROVE OrderFence'
    BY <1>4 DEF StreamToolUse, OrderFence, TypeOK, Late, Calls
  <1>5. CASE Cleanup
    BY <1>5 DEF Cleanup, OrderFence, Late
  <1> QED
    BY <1>1, <1>2, <1>3, <1>4, <1>5
    DEF Next, LoopStep, StreamStep, Returned, vars, callVars, Select, SeeAbort, YieldToInput,
        NextPends, ObserveUpdate, StreamEnds, StreamFails, PersistRest, Checkpoint, Abort

(* A pre-hook that turns a call serial fences every later call, prepared   *)
(* or not, whatever the limit and the number of calls.                     *)
THEOREM FenceHolds == Spec => []OrderFence
  <1>1. Init => OrderFence
    BY DEF Init, OrderFence, Late
  <1> QED
    BY <1>1, TypeCorrect, FenceStep, PTL DEF Spec

(* A call that is not concurrency-safe is never approved, run or finished  *)
(* beside another call of its response.                                    *)
THEOREM SerialCallsRunAlone == Spec => []SerialAlone
  <1>1. TypeOK /\ OrderFence => SerialAlone
    <2> SUFFICES ASSUME OrderFence, NEW i \in Calls, NEW j \in Calls, i # j,
                        phase[i] \in Late, phase[j] \in Late
                 PROVE  parallel[i] /\ parallel[j]
      BY DEF SerialAlone
    <2>1. i < j \/ j < i
      BY MaxCallsAssumption DEF Calls
    <2>2. phase[i] # "Complete" /\ phase[j] # "Complete"
      BY DEF Late
    <2> QED
      BY <2>1, <2>2 DEF OrderFence
  <1> QED
    BY <1>1, TypeCorrect, FenceHolds, PTL

-----------------------------------------------------------------------------
(* What becomes of a call's answer.  The updates the observer has been     *)
(* told and those it will be told next form one sequence: an update joins  *)
(* it once and then only moves from the one part to the other.             *)

Told == observed \o updates

Once(s) ==
    \A k, l \in DOMAIN s :
        /\ (s[k].index = s[l].index /\ s[k].kind = s[l].kind) => k = l
        /\ (s[k].index = s[l].index /\ k < l) => s[k].kind = "Started"

(* An update says no more than what happened to its call.                  *)
Fits(u) ==
    /\ u.kind = "Started" => phase[u.index] \in {"Running", "Finishing", "Complete"}
    /\ u.kind = "Completed" =>
         /\ phase[u.index] = "Complete" /\ u.outcome \in Outcome
         /\ u.outcome = "output" <=> ran[u.index]

Answers(i) ==
    \E k \in DOMAIN updates : updates[k].kind = "Completed" /\ updates[k].index = i

NotRun ==
    {"Absent", "Queued", "Preparing", "Prepared", "Authorizing", "Authorized", "Running"}

(* A call has run when it is past running, and no answer before it is      *)
(* complete.                                                               *)
CallInv ==
    \A i \in Calls :
        /\ phase[i] \in NotRun => ~ran[i]
        /\ phase[i] = "Finishing" => ran[i]
        /\ phase[i] # "Complete" => result[i] = "none"

(* A complete call has its answer, or it is under way to the observer.     *)
AnswerInv ==
    /\ \A i \in Calls : phase[i] = "Complete" => result[i] # "none" \/ Answers(i)
    /\ OutputPreserved

(* Nothing is told twice, and a start is told before its completion.       *)
ToldInv == Once(Told) /\ \A k \in DOMAIN Told : Fits(Told[k])

CallsInv == TypeOK /\ CallInv /\ AnswerInv /\ ToldInv

(* The elements of a concatenation.                                        *)
LEMMA ConcatElements ==
    ASSUME NEW S, NEW p \in Seq(S), NEW q \in Seq(S)
    PROVE  /\ p \o q \in Seq(S) /\ Len(p \o q) = Len(p) + Len(q)
           /\ DOMAIN p = 1..Len(p) /\ DOMAIN q = 1..Len(q)
           /\ DOMAIN (p \o q) = 1..(Len(p) + Len(q))
           /\ \A k \in 1..Len(p) : (p \o q)[k] = p[k]
           /\ \A k \in 1..Len(q) : (p \o q)[Len(p) + k] = q[k]
           /\ \A k \in DOMAIN (p \o q) :
                \/ k \in DOMAIN p /\ (p \o q)[k] = p[k]
                \/ k - Len(p) \in DOMAIN q /\ (p \o q)[k] = q[k - Len(p)]
  <1>1. Len(p) \in Nat /\ Len(q) \in Nat
    BY LenProperties
  <1> QED
    BY <1>1

(* The first part of a sequence without repetition has none.               *)
LEMMA OncePrefix ==
    ASSUME NEW S, NEW p \in Seq(S), NEW q \in Seq(S), Once(p \o q)
    PROVE  Once(p)
  <1>1. Len(p) \in Nat /\ Len(q) \in Nat /\ DOMAIN p \subseteq DOMAIN (p \o q)
    BY ConcatElements, LenProperties
  <1>2. \A k \in DOMAIN p : (p \o q)[k] = p[k]
    BY ConcatElements
  <1> QED
    BY <1>1, <1>2 DEF Once

(* A second part may only complete what the first part started.            *)
LEMMA OnceConcat ==
    ASSUME NEW S, NEW p \in Seq(S), NEW q \in Seq(S), Once(p), Once(q),
           \A k \in DOMAIN p, l \in DOMAIN q :
               p[k].index = q[l].index => p[k].kind = "Started" /\ q[l].kind = "Completed"
    PROVE  Once(p \o q)
  <1> DEFINE r == p \o q
             m == Len(p)
  <1>1. m \in Nat /\ Len(q) \in Nat
    BY LenProperties
  <1>2. /\ DOMAIN p = 1..m /\ DOMAIN q = 1..Len(q) /\ DOMAIN r = 1..(m + Len(q))
        /\ \A k \in DOMAIN r : \/ k \in DOMAIN p /\ r[k] = p[k]
                               \/ k - m \in DOMAIN q /\ r[k] = q[k - m]
    BY ConcatElements
  <1> HIDE DEF r, m
  <1> SUFFICES ASSUME NEW k \in DOMAIN r, NEW l \in DOMAIN r, r[k].index = r[l].index
               PROVE  /\ r[k].kind = r[l].kind => k = l
                      /\ k < l => r[k].kind = "Started"
    BY DEF Once, r
  <1>3. CASE k \in DOMAIN p /\ r[k] = p[k] /\ l \in DOMAIN p /\ r[l] = p[l]
    BY <1>3 DEF Once
  <1>4. CASE k \in DOMAIN p /\ r[k] = p[k] /\ l - m \in DOMAIN q /\ r[l] = q[l - m]
    BY <1>4
  <1>5. CASE k - m \in DOMAIN q /\ r[k] = q[k - m] /\ l \in DOMAIN p /\ r[l] = p[l]
    <2>1. r[l].kind = "Started" /\ r[k].kind = "Completed"
      BY <1>5
    <2>2. ~(k < l)
      BY <1>1, <1>2, <1>5
    <2> QED
      BY <2>1, <2>2
  <1>6. CASE k - m \in DOMAIN q /\ r[k] = q[k - m] /\ l - m \in DOMAIN q /\ r[l] = q[l - m]
    <2>1. k \in Int /\ l \in Int
      BY <1>1, <1>2
    <2>2. /\ r[k].kind = r[l].kind => k - m = l - m
          /\ k - m < l - m => r[k].kind = "Started"
      BY <1>6 DEF Once
    <2> QED
      BY <1>1, <2>1, <2>2
  <1> QED
    BY <1>2, <1>3, <1>4, <1>5, <1>6

(* One update more.                                                        *)
LEMMA OnceAppend ==
    ASSUME NEW S, NEW p \in Seq(S), NEW u \in S, Once(p),
           \A k \in DOMAIN p :
               p[k].index = u.index => p[k].kind = "Started" /\ u.kind = "Completed"
    PROVE  Once(Append(p, u))
  <1>1. <<u>> \in Seq(S) /\ DOMAIN <<u>> = {1} /\ <<u>>[1] = u
    OBVIOUS
  <1>2. Once(<<u>>)
    BY <1>1 DEF Once
  <1>3. Once(p \o <<u>>)
    BY <1>1, <1>2, OnceConcat
  <1>4. Append(p, u) = p \o <<u>>
    BY AppendIsConcat
  <1> QED
    BY <1>3, <1>4

(* Updates in the order of their calls do not repeat any.                  *)
LEMMA InCallOrderOnce ==
    ASSUME NEW U, U \subseteq ToolUpdate, NEW s \in InCallOrder(U)
    PROVE  /\ s \in Seq(ToolUpdate) /\ Once(s)
           /\ \A k \in DOMAIN s : s[k] \in U
           /\ \A u \in U : \E k \in DOMAIN s : s[k] = u
  <1>1. PICK m \in 0..MaxCalls : s \in [1..m -> U]
    BY DEF InCallOrder
  <1>2. /\ Range(s) = U
        /\ \A i, j \in DOMAIN s : i < j => s[i].index < s[j].index
    BY DEF InCallOrder
  <1>3. \A k \in DOMAIN s : s[k] \in U /\ s[k].index \in Nat
    BY <1>1, MaxCallsAssumption DEF ToolUpdate, Calls
  <1>4. \A k, l \in DOMAIN s : s[k].index = s[l].index => k = l
    BY <1>1, <1>2, <1>3, MaxCallsAssumption
  <1>5. Once(s)
    BY <1>1, <1>4, MaxCallsAssumption DEF Once
  <1>6. s \in Seq(ToolUpdate)
    BY <1>1, MaxCallsAssumption
  <1> QED
    BY <1>2, <1>3, <1>5, <1>6 DEF Range

(* The updates that wait are the last that will have been told.            *)
LEMMA UpdatesAreTold ==
    ASSUME TypeOK, ToldInv
    PROVE  /\ observed \in Seq(ToolUpdate) /\ updates \in Seq(ToolUpdate)
           /\ Told \in Seq(ToolUpdate)
           /\ DOMAIN updates = 1..Len(updates) /\ Len(updates) \in Nat
           /\ \A k \in DOMAIN updates : updates[k] \in ToolUpdate /\ Fits(updates[k])
  <1>1. observed \in Seq(ToolUpdate) /\ updates \in Seq(ToolUpdate)
    BY DEF TypeOK
  <1>2. Told \in Seq(ToolUpdate)
    BY <1>1, ConcatElements DEF Told
  <1>3. DOMAIN updates = 1..Len(updates) /\ Len(updates) \in Nat /\ Len(observed) \in Nat
    BY <1>1, LenProperties
  <1>4. ASSUME NEW k \in DOMAIN updates PROVE updates[k] \in ToolUpdate /\ Fits(updates[k])
    <2>1. updates[k] \in ToolUpdate
      BY <1>1, <1>3, <1>4, ElementOfSeq
    <2>2. Len(observed) + k \in DOMAIN Told /\ Told[Len(observed) + k] = updates[k]
      BY <1>1, <1>3, <1>4, ConcatElements DEF Told
    <2> QED
      BY <2>1, <2>2 DEF ToldInv
  <1> QED
    BY <1>1, <1>2, <1>3, <1>4

Begun == {"Running", "Finishing", "Complete"}

(* No call goes back behind what was told of it.                           *)
Onward ==
    \A i \in Calls :
        /\ phase[i] \in Begun => phase'[i] \in Begun
        /\ phase[i] = "Complete" => phase'[i] = "Complete" /\ ran'[i] = ran[i]

(* The updates of s are new and say what happens in this step.             *)
Fresh(s) ==
    \A k \in DOMAIN s :
        /\ s[k].kind = "Started" => phase[s[k].index] \notin Begun
        /\ s[k].kind = "Completed" => phase[s[k].index] # "Complete"
        /\ Fits(s[k])'

(* New updates join what is told.                                          *)
LEMMA JoinKeeps ==
    ASSUME TypeOK, ToldInv, Onward, NEW s \in Seq(ToolUpdate), Once(s), Fresh(s),
           Told' = Told \o s
    PROVE  ToldInv'
  <1>1. Told \in Seq(ToolUpdate) /\ Once(Told)
    BY UpdatesAreTold DEF ToldInv
  <1>2. \A k \in DOMAIN Told : Told[k] \in ToolUpdate
    BY <1>1, LenProperties, ElementOfSeq
  <1>3. \A k \in DOMAIN s : s[k] \in ToolUpdate
    BY LenProperties, ElementOfSeq
  <1>4. ASSUME NEW k \in DOMAIN Told, NEW l \in DOMAIN s, Told[k].index = s[l].index
        PROVE  Told[k].kind = "Started" /\ s[l].kind = "Completed"
    <2>1. Fits(Told[k]) /\ Told[k] \in ToolUpdate /\ s[l] \in ToolUpdate
      BY <1>2, <1>3, <1>4 DEF ToldInv
    <2>2. /\ s[l].kind = "Started" => phase[s[l].index] \notin Begun
          /\ s[l].kind = "Completed" => phase[s[l].index] # "Complete"
      BY <1>4 DEF Fresh
    <2> QED
      BY <1>4, <2>1, <2>2 DEF Fits, Begun, ToolUpdate
  <1>5. Once(Told')
    BY <1>1, <1>4, OnceConcat
  <1>6. ASSUME NEW u \in ToolUpdate, Fits(u) PROVE Fits(u)'
    BY <1>6 DEF Fits, Onward, Begun, ToolUpdate
  <1>7. ASSUME NEW k \in DOMAIN Told' PROVE Fits(Told[k])'
    <2>1. \/ k \in DOMAIN Told /\ Told'[k] = Told[k]
          \/ k - Len(Told) \in DOMAIN s /\ Told'[k] = s[k - Len(Told)]
      BY <1>1, <1>7, ConcatElements
    <2>2. CASE k \in DOMAIN Told /\ Told'[k] = Told[k]
      <3>1. Fits(Told[k]) /\ Told[k] \in ToolUpdate
        BY <1>2, <2>2 DEF ToldInv
      <3>2. PICK u \in ToolUpdate : u = Told[k]
        BY <3>1
      <3>3. Fits(u)'
        BY <1>6, <3>1, <3>2
      <3> QED
        BY <2>2, <3>2, <3>3
    <2>3. CASE k - Len(Told) \in DOMAIN s /\ Told'[k] = s[k - Len(Told)]
      <3>1. PICK l \in DOMAIN s : Told'[k] = s[l]
        BY <2>3
      <3>2. Fits(s[l])'
        BY DEF Fresh
      <3> QED
        BY <3>1, <3>2
    <2> QED
      BY <2>1, <2>2, <2>3
  <1> QED
    BY <1>5, <1>7 DEF ToldInv

(* The same when the results stay: a call that completes is answered.      *)
LEMMA JoinAnswers ==
    ASSUME TypeOK, CallInv, AnswerInv, Onward, result' = result,
           NEW s \in Seq(ToolUpdate), updates' = updates \o s,
           \A i \in Calls : phase'[i] = "Complete" =>
               \/ phase[i] = "Complete"
               \/ \E k \in DOMAIN s : s[k].kind = "Completed" /\ s[k].index = i
    PROVE  AnswerInv'
  <1>1. updates \in Seq(ToolUpdate)
    BY DEF TypeOK
  <1>2. /\ DOMAIN updates \subseteq DOMAIN updates'
        /\ \A k \in DOMAIN updates : updates'[k] = updates[k]
        /\ \A k \in DOMAIN s : /\ Len(updates) + k \in DOMAIN updates'
                               /\ updates'[Len(updates) + k] = s[k]
    BY <1>1, ConcatElements, LenProperties
  <1>3. ASSUME NEW i \in Calls, phase'[i] = "Complete" PROVE result'[i] # "none" \/ Answers(i)'
    <2>1. CASE phase[i] = "Complete"
      BY <1>2, <2>1 DEF AnswerInv, Answers
    <2>2. CASE \E k \in DOMAIN s : s[k].kind = "Completed" /\ s[k].index = i
      <3>1. PICK k \in DOMAIN s : s[k].kind = "Completed" /\ s[k].index = i
        BY <2>2
      <3>2. PICK l \in DOMAIN updates' : updates'[l] = s[k]
        BY <1>2
      <3> QED
        BY <3>1, <3>2 DEF Answers
    <2> QED
      BY <1>3, <2>1, <2>2
  <1>4. OutputPreserved'
    BY DEF AnswerInv, OutputPreserved, CallInv, Onward
  <1> QED
    BY <1>3, <1>4 DEF AnswerInv

(* Both, for a step that leaves the observer alone.                        *)
LEMMA JoinStep ==
    ASSUME TypeOK, CallInv, AnswerInv, ToldInv, Onward, UNCHANGED <<result, observed>>,
           NEW s \in Seq(ToolUpdate), Once(s), Fresh(s), updates' = updates \o s,
           \A i \in Calls : phase'[i] = "Complete" =>
               \/ phase[i] = "Complete"
               \/ \E k \in DOMAIN s : s[k].kind = "Completed" /\ s[k].index = i
    PROVE  AnswerInv' /\ ToldInv'
  <1>1. Told' = Told \o s
    BY UpdatesAreTold, ConcatAssociative DEF Told
  <1> QED
    BY <1>1, JoinKeeps, JoinAnswers

(* A step without an update.                                               *)
LEMMA SilentStep ==
    ASSUME TypeOK, CallInv, AnswerInv, ToldInv, Onward,
           UNCHANGED <<result, observed, updates>>,
           \A i \in Calls : phase'[i] = "Complete" => phase[i] = "Complete"
    PROVE  AnswerInv' /\ ToldInv'
  <1>1. << >> \in Seq(ToolUpdate) /\ DOMAIN << >> = {}
    OBVIOUS
  <1>2. Once(<< >>) /\ Fresh(<< >>)
    BY <1>1 DEF Once, Fresh
  <1>3. updates' = updates \o << >>
    BY UpdatesAreTold
  <1> QED
    BY <1>1, <1>2, <1>3, JoinStep

(* What a walk of admit means for what was told.                           *)
LEMMA AdmittedRuns ==
    ASSUME TypeOK, NEW i \in Calls
    PROVE  /\ Admitted(i) \in NotRun <=> phase[i] \in NotRun
           /\ Admitted(i) = "Finishing" <=> phase[i] = "Finishing"
           /\ phase[i] \in Begun => Admitted(i) \in Begun
           /\ Admitted(i) = "Complete" <=> phase[i] = "Complete"
  BY DEF Admitted, TypeOK, Phase, Late, Waiting, NotRun, Begun

(* Calls are admitted; those that start to run are announced.              *)
LEMMA AdmitKeeps ==
    ASSUME CallsInv, TypeOK', NextAdmits, ~aborted
    PROVE  CallInv' /\ AnswerInv' /\ ToldInv'
  <1> USE DEF CallsInv
  <1> DEFINE S == {i \in 1..n : phase[i] = "Authorized" /\ Admitted(i) = "Running"}
             U == {Started(i) : i \in S}
  <1>1. /\ \A i \in Calls : phase'[i] = Admitted(i)
        /\ UNCHANGED <<n, ran, result, observed>>
    BY DEF NextAdmits, admit
  <1>2. PICK s \in InCallOrder(U) : updates' = updates \o s
    BY DEF NextAdmits, admit
  <1>3. S \subseteq Calls /\ U \subseteq ToolUpdate
    BY StartedType, Numbers
  <1>4. CallInv'
    BY <1>1, AdmittedRuns DEF CallInv
  <1>5. Onward
    BY <1>1, AdmittedRuns DEF Onward
  <1>6. /\ s \in Seq(ToolUpdate) /\ Once(s)
        /\ \A k \in DOMAIN s : s[k] \in U
    <2> HIDE DEF U
    <2> QED
      BY <1>3, InCallOrderOnce
  <1>7. ASSUME NEW k \in DOMAIN s
        PROVE  /\ s[k].kind = "Started" /\ phase[s[k].index] \notin Begun
               /\ phase'[s[k].index] = "Running"
    <2>1. PICK i \in S : s[k] = Started(i)
      BY <1>6
    <2>2. phase[i] = "Authorized" /\ phase'[i] = "Running"
      BY <1>1, <1>3
    <2> QED
      BY <2>1, <2>2 DEF Started, Begun
  <1>8. Fresh(s)
    BY <1>7 DEF Fresh, Fits
  <1>9. \A i \in Calls : phase'[i] = "Complete" => phase[i] = "Complete"
    BY <1>1, AdmittedRuns
  <1> QED
    BY <1>1, <1>2, <1>4, <1>5, <1>6, <1>8, <1>9, JoinStep

(* A stage ends; the last one of a call announces its completion.          *)
LEMMA AdvanceKeeps ==
    ASSUME CallsInv, TypeOK', NEW i \in Calls, Advance(i)
    PROVE  CallInv' /\ AnswerInv' /\ ToldInv'
  <1> USE DEF CallsInv
  <1>1. CallInv'
    BY DEF Advance, AdvancePrepared, AdvanceAuthorized, AdvanceExecuted, AdvanceFinished,
           complete, CallInv, NotRun, TypeOK
  <1>2. Onward /\ UNCHANGED <<result, observed>>
    BY DEF Advance, AdvancePrepared, AdvanceAuthorized, AdvanceExecuted, AdvanceFinished,
           complete, Onward, Begun, TypeOK
  <1>3. CASE /\ UNCHANGED updates
             /\ \A c \in Calls : phase'[c] = "Complete" => phase[c] = "Complete"
    BY <1>1, <1>2, <1>3, SilentStep
  <1>4. ASSUME NEW o \in Outcome, complete(i, o), ran' = ran, phase[i] # "Complete",
               o = "output" <=> ran[i]
        PROVE  AnswerInv' /\ ToldInv'
    <2> DEFINE u == Completed(i, o)
               s == <<u>>
    <2>1. u \in ToolUpdate /\ u.kind = "Completed" /\ u.index = i /\ u.outcome = o
      BY CompletedType DEF Completed
    <2> HIDE DEF u
    <2>2. s \in Seq(ToolUpdate) /\ DOMAIN s = {1} /\ s[1] = u
      BY <2>1
    <2>3. updates' = updates \o s
      BY <1>4, <2>1, UpdatesAreTold, AppendIsConcat DEF complete, u
    <2> HIDE DEF s
    <2>4. phase'[i] = "Complete" /\ \A c \in Calls \ {i} : phase'[c] = phase[c]
      BY <1>4 DEF complete, TypeOK
    <2>5. Once(s)
      BY <2>2 DEF Once
    <2>6. Fresh(s)
      BY <1>4, <2>1, <2>2, <2>4 DEF Fresh, Fits
    <2> QED
      BY <1>2, <2>1, <2>2, <2>3, <2>4, <2>5, <2>6, JoinStep
  <1>5. \/ /\ UNCHANGED updates
           /\ \A c \in Calls : phase'[c] = "Complete" => phase[c] = "Complete"
        \/ \E o \in Outcome : /\ complete(i, o) /\ ran' = ran /\ phase[i] # "Complete"
                              /\ o = "output" <=> ran[i]
    BY DEF Advance, AdvancePrepared, AdvanceAuthorized, AdvanceExecuted, AdvanceFinished,
           complete, CallInv, NotRun, Outcome, TypeOK
  <1> QED
    BY <1>1, <1>3, <1>4, <1>5

(* A call is enqueued.                                                     *)
LEMMA EnqueueKeeps ==
    ASSUME CallsInv, TypeOK', NEW safe \in BOOLEAN, StreamToolUse(safe)
    PROVE  CallInv' /\ AnswerInv' /\ ToldInv'
  <1> USE DEF CallsInv
  <1>1. n + 1 \in Calls /\ n \in Nat
    BY MaxCallsAssumption DEF StreamToolUse, TypeOK, Calls
  <1>2. phase[n + 1] = "Absent"
    <2>1. n + 1 > n
      BY <1>1
    <2> QED
      BY <1>1, <2>1 DEF TypeOK
  <1>3. /\ phase'[n + 1] = "Queued" /\ \A c \in Calls \ {n + 1} : phase'[c] = phase[c]
        /\ UNCHANGED <<ran, result, observed, updates>>
    BY <1>1 DEF StreamToolUse, TypeOK
  <1>4. CallInv'
    BY <1>2, <1>3 DEF CallInv, NotRun
  <1>5. Onward
    BY <1>2, <1>3 DEF Onward, Begun
  <1> QED
    BY <1>2, <1>3, <1>4, <1>5, SilentStep

(* An update is observed and its result stored.                            *)
LEMMA ObserveKeeps ==
    ASSUME CallsInv, TypeOK', ObserveUpdate
    PROVE  CallInv' /\ AnswerInv' /\ ToldInv'
  <1> USE DEF CallsInv
  <1> DEFINE u == Head(updates)
  <1>1. /\ updates # << >> /\ updates' = Tail(updates) /\ observed' = Append(observed, u)
        /\ result' = Stored(u) /\ UNCHANGED <<phase, ran>>
    BY DEF ObserveUpdate, callVars
  <1>2. /\ 1 \in DOMAIN updates /\ u = updates[1] /\ u \in ToolUpdate /\ Fits(u)
        /\ u.index \in Calls
    BY <1>1, UpdatesAreTold DEF ToolUpdate
  <1>3. /\ \A i \in Calls \ {u.index} : result'[i] = result[i]
        /\ u.kind = "Started" => result' = result
        /\ u.kind = "Completed" => result'[u.index] = u.outcome
    BY <1>1, <1>2 DEF Stored, TypeOK
  <1>4. u.kind = "Completed" => /\ phase[u.index] = "Complete" /\ u.outcome # "none"
                                /\ u.outcome = "output" <=> ran[u.index]
    BY <1>2 DEF Fits, Outcome
  <1>5. u.kind \in {"Started", "Completed"}
    BY <1>2 DEF ToolUpdate
  <1>6. Tail(updates) \in Seq(ToolUpdate) /\ Append(observed, u) \in Seq(ToolUpdate)
    BY <1>1, <1>2, UpdatesAreTold
  <1>7. Told' = Told \o << >>
    <2>1. <<u>> \in Seq(ToolUpdate) /\ updates = <<u>> \o Tail(updates)
      BY <1>1, <1>2, UpdatesAreTold
    <2>2. Append(observed, u) = observed \o <<u>>
      BY <1>2, UpdatesAreTold, AppendIsConcat
    <2>3. Told' = (observed \o <<u>>) \o Tail(updates)
      BY <1>1, <2>2 DEF Told
    <2>4. Told' = observed \o (<<u>> \o Tail(updates))
      BY <1>6, <2>1, <2>3, UpdatesAreTold, ConcatAssociative
    <2>5. Told' = Told
      BY <2>1, <2>4 DEF Told
    <2> QED
      BY <2>5, UpdatesAreTold
  <1>8. \A i \in Calls : Answers(i) => Answers(i)' \/ (u.kind = "Completed" /\ u.index = i)
    <2> SUFFICES ASSUME NEW i \in Calls, NEW k \in DOMAIN updates,
                        updates[k].kind = "Completed", updates[k].index = i, k # 1
                 PROVE  Answers(i)'
      BY <1>2 DEF Answers
    <2>1. k - 1 \in DOMAIN Tail(updates) /\ Tail(updates)[k - 1] = updates[k]
      BY <1>1, UpdatesAreTold
    <2> QED
      BY <1>1, <2>1 DEF Answers
  <1> HIDE DEF u
  <1>9. CallInv'
    BY <1>1, <1>2, <1>3, <1>4, <1>5 DEF CallInv
  <1>10. OutputPreserved'
    BY <1>1, <1>2, <1>3, <1>4, <1>5 DEF AnswerInv, OutputPreserved
  <1>11. ASSUME NEW i \in Calls, phase'[i] = "Complete" PROVE result'[i] # "none" \/ Answers(i)'
    BY <1>1, <1>2, <1>3, <1>4, <1>5, <1>8, <1>11 DEF AnswerInv
  <1>12. ToldInv'
    <2>1. << >> \in Seq(ToolUpdate) /\ Once(<< >>) /\ Fresh(<< >>)
      BY DEF Once, Fresh
    <2>2. Onward
      BY <1>1 DEF Onward
    <2> QED
      BY <1>7, <2>1, <2>2, JoinKeeps
  <1> QED
    BY <1>9, <1>10, <1>11, <1>12 DEF AnswerInv

(* cancel: every unfinished call is completed and everything is observed.  *)
LEMMA CleanupKeeps ==
    ASSUME CallsInv, TypeOK', Cleanup
    PROVE  CallInv' /\ AnswerInv' /\ ToldInv'
  <1> USE DEF CallsInv
  <1> DEFINE U == {CancelOutcome(i) : i \in Unfinished}
  <1>1. /\ phase' = [i \in Calls |-> IF i \in 1..n THEN "Complete" ELSE "Absent"]
        /\ updates' = << >> /\ UNCHANGED <<n, ran>>
    BY DEF Cleanup
  <1>2. PICK s \in InCallOrder(U) : observed' = observed \o updates \o s
    BY DEF Cleanup
  <1>3. /\ Unfinished \subseteq Calls
        /\ \A i \in Calls : /\ CancelOutcome(i) \in ToolUpdate
                            /\ CancelOutcome(i).kind = "Completed"
                            /\ CancelOutcome(i).index = i
                            /\ CancelOutcome(i).outcome \in Outcome
                            /\ CancelOutcome(i).outcome = "output" <=> ran[i]
    BY CompletedType, Numbers DEF CancelOutcome, Completed, Outcome, Unfinished, TypeOK
  <1>4. /\ s \in Seq(ToolUpdate) /\ Once(s) /\ \A k \in DOMAIN s : s[k] \in U
    <2>1. U \subseteq ToolUpdate
      BY <1>3
    <2> HIDE DEF U
    <2> QED
      BY <2>1, InCallOrderOnce
  <1>5. \A i \in Calls : i \in 1..n <=> phase[i] # "Absent"
    <2>1. \A i \in Calls : i \in 1..n <=> ~(i > n)
      BY Numbers, MaxCallsAssumption DEF Calls
    <2> QED
      BY <2>1 DEF TypeOK
  <1>6. Onward
    BY <1>1, <1>5 DEF Onward, Begun
  <1>7. Fresh(s)
    <2> SUFFICES ASSUME NEW k \in DOMAIN s
                 PROVE  /\ s[k].kind = "Completed" /\ phase[s[k].index] # "Complete"
                        /\ Fits(s[k])'
      BY DEF Fresh
    <2>1. PICK i \in Unfinished : s[k] = CancelOutcome(i)
      BY <1>4
    <2>2. i \in Calls /\ i \in 1..n /\ phase[i] # "Complete"
      BY <1>3 DEF Unfinished, Live
    <2>3. phase'[i] = "Complete" /\ ran'[i] = ran[i]
      BY <1>1, <2>2
    <2> QED
      BY <1>3, <2>1, <2>2, <2>3 DEF Fits
  <1>8. ToldInv'
    <2>1. observed' = Told \o s
      BY <1>2 DEF Told
    <2>2. Told' = Told \o s
      <3>1. Told \o s \in Seq(ToolUpdate)
        BY <1>4, UpdatesAreTold, ConcatElements
      <3> QED
        BY <1>1, <2>1, <3>1 DEF Told
    <2> QED
      BY <1>4, <1>6, <1>7, <2>2, JoinKeeps
  <1>9. ASSUME NEW i \in Calls
        PROVE  /\ i \in 1..n => result'[i] # "none"
               /\ i \notin 1..n => result'[i] = "none"
               /\ result'[i] # "none" => (result'[i] = "output" <=> ran[i])
    <2> DEFINE P(u) == u.kind = "Completed" /\ u.index = i
    <2>1. CASE Live(i)
      <3>1. result'[i] = CancelOutcome(i).outcome
        BY <2>1 DEF Cleanup
      <3> QED
        BY <1>3, <2>1, <3>1 DEF Live, Outcome
    <2>2. CASE ~Live(i) /\ \E k \in DOMAIN updates : P(updates[k])
      <3>1. result'[i] = (CHOOSE u \in Range(updates) : P(u)).outcome
        BY <2>2 DEF Cleanup
      <3>2. \E u \in Range(updates) : P(u)
        BY <2>2 DEF Range
      <3>3. PICK u \in Range(updates) : P(u) /\ result'[i] = u.outcome
        BY <3>1, <3>2
      <3>4. Fits(u)
        BY UpdatesAreTold DEF Range
      <3> QED
        BY <1>5, <3>3, <3>4 DEF Fits, Outcome
    <2>3. CASE ~Live(i) /\ ~\E k \in DOMAIN updates : P(updates[k])
      <3>1. result'[i] = result[i]
        BY <2>3 DEF Cleanup
      <3>2. ~Answers(i)
        BY <2>3 DEF Answers
      <3>3. i \in 1..n => phase[i] = "Complete"
        BY <2>3 DEF Live
      <3> QED
        BY <1>5, <3>1, <3>2, <3>3 DEF AnswerInv, OutputPreserved, CallInv
    <2> QED
      BY <2>1, <2>2, <2>3
  <1>10. CallInv'
    BY <1>1, <1>5, <1>9 DEF CallInv, NotRun
  <1>11. AnswerInv'
    BY <1>1, <1>9 DEF AnswerInv, OutputPreserved
  <1> QED
    BY <1>8, <1>10, <1>11

(* Every step keeps what is known of the calls and their answers.         *)
LEMMA CallsStep == CallsInv /\ [Next]_vars => CallsInv'
  <1> SUFFICES ASSUME CallsInv, [Next]_vars PROVE CallInv' /\ AnswerInv' /\ ToldInv'
    BY TypeStep DEF CallsInv
  <1>1. TypeOK'
    BY TypeStep DEF CallsInv
  <1>2. CASE UNCHANGED <<phase, ran, updates, result, observed>>
    <2>1. Onward
      BY <1>2 DEF Onward
    <2>2. CallInv'
      BY <1>2 DEF CallsInv, CallInv
    <2> QED
      BY <1>2, <2>1, <2>2, SilentStep DEF CallsInv
  <1>3. CASE NextAdmits
    <2>1. CASE aborted
      BY <1>2, <1>3, <2>1 DEF NextAdmits
    <2> QED
      BY <1>1, <1>3, <2>1, AdmitKeeps
  <1> QED
    BY <1>1, <1>2, <1>3, AdvanceKeeps, EnqueueKeeps, ObserveKeeps, CleanupKeeps
    DEF Next, LoopStep, StreamStep, Returned, vars, callVars, Select, SeeAbort, YieldToInput,
        NextPends, StreamEnds, StreamFails, PersistRest, Checkpoint, Abort

(* A new response has no calls; what is known of them always holds.        *)
LEMMA CallsAlways == Spec => []CallsInv
  <1>1. Init => CallsInv
    <2> SUFFICES ASSUME Init PROVE CallsInv
      OBVIOUS
    <2>1. DOMAIN Told = {}
      BY DEF Init, Told
    <2>2. ToldInv
      BY <2>1 DEF ToldInv, Once
    <2>3. CallInv /\ AnswerInv
      BY DEF Init, CallInv, AnswerInv, OutputPreserved, NotRun
    <2> QED
      BY <2>2, <2>3, TypeInit DEF CallsInv
  <1> QED
    BY <1>1, CallsStep, PTL DEF Spec

(* A tool that returned keeps its output through every cancel, and a call  *)
(* that did not run is never reported as if it had, for any number of      *)
(* calls (complete, cancel, store_result).                                 *)
THEOREM OutputIsPreserved == Spec => []OutputPreserved
  <1>1. CallsInv => OutputPreserved
    BY DEF CallsInv, AnswerInv
  <1> QED
    BY <1>1, CallsAlways, PTL

(* Every call is answered at most once, and after its start is told,       *)
(* whatever is cancelled while updates are under way (next, cancel,        *)
(* observe_tool_update).                                                   *)
THEOREM EachIsObservedOnce == Spec => []ObservedOnce
  <1>1. CallsInv => ObservedOnce
    <2> SUFFICES ASSUME CallsInv PROVE ObservedOnce
      OBVIOUS
    <2>1. Once(observed)
      BY UpdatesAreTold, OncePrefix DEF CallsInv, ToldInv, Told
    <2> QED
      BY <2>1 DEF Once, ObservedOnce
  <1> QED
    BY <1>1, CallsAlways, PTL

-----------------------------------------------------------------------------
(* The transcript.                                                         *)

Saving == {"persist", "checkpoint"}
Gone == {"returned", "turn failed"}

(* The transcript holds the results of the first calls.  Results are       *)
(* appended to it one after the other while persisted counts them; once    *)
(* the loop is over every call has one.                                    *)
LogInv ==
    /\ pc \notin Gone => Len(log) = persisted
    /\ Len(log) <= n
    /\ \A k \in DOMAIN log : log[k] = k /\ result[k] # "none"
    /\ pc \in Saving \cup Gone => updates = <<>> /\ \A i \in 1..n : phase[i] = "Complete"
    /\ pc = "returned" => Len(log) = n

(* Results that were stored stay stored.                                   *)
LEMMA ResultsStay ==
    ASSUME CallsInv, [Next]_vars, NEW i \in Calls, result[i] # "none"
    PROVE  result'[i] # "none"
  <1> USE DEF CallsInv
  <1>1. phase[i] = "Complete" /\ CallsInv'
    BY CallsStep DEF CallInv
  <1>2. CASE ObserveUpdate
    <2> DEFINE u == Head(updates)
    <2>1. u = updates[1] /\ 1 \in DOMAIN updates /\ result' = Stored(u)
      BY <1>2, UpdatesAreTold DEF ObserveUpdate
    <2>2. u.kind = "Completed" => u.outcome \in Outcome
      BY <2>1, UpdatesAreTold DEF Fits
    <2> QED
      BY <2>1, <2>2 DEF Stored, TypeOK, Outcome
  <1>3. CASE Cleanup
    <2>1. phase'[i] = "Complete" /\ updates' = << >>
      <3>1. i \in 1..n
        <4>1. ~(i > n)
          BY <1>1 DEF TypeOK
        <4> QED
          BY <4>1, Numbers, MaxCallsAssumption DEF Calls
      <3> QED
        BY <1>3, <3>1 DEF Cleanup
    <2>2. ~Answers(i)'
      BY <2>1 DEF Answers
    <2> QED
      BY <1>1, <2>1, <2>2 DEF AnswerInv
  <1> QED
    BY <1>2, <1>3
    DEF Next, LoopStep, StreamStep, Returned, vars, Select, SeeAbort, YieldToInput,
        NextAdmits, NextPends, StreamToolUse, StreamEnds, StreamFails, PersistRest,
        Checkpoint, Abort, Advance

(* One save: the results after the saved ones, up to k.                    *)
Saves(k, res, lg) ==
    /\ k \in persisted..n
    /\ \A j \in DOMAIN log : res[j] # "none"
    /\ \A j \in (persisted + 1)..k : res[j] # "none"
    /\ lg = log \o [j \in 1..(k - persisted) |-> persisted + j]

InOrder(k, res, lg) ==
    /\ k <= n /\ Len(lg) = k
    /\ \A j \in DOMAIN lg : lg[j] = j /\ res[j] # "none"

(* A save leaves the transcript in order.                                  *)
LEMMA SaveKeeps ==
    ASSUME TypeOK, LogInv, pc \notin Gone, NEW k, NEW res, NEW lg, Saves(k, res, lg)
    PROVE  InOrder(k, res, lg)
  <1> DEFINE m == k - persisted
             more == [j \in 1..m |-> persisted + j]
  <1> USE DEF Saves
  <1>1. log \in Seq(Calls) /\ Len(log) = persisted /\ persisted \in Nat /\ k \in Nat
    <2>1. log \in Seq(Calls)
      BY DEF TypeOK
    <2>2. Len(log) = persisted
      BY DEF LogInv
    <2>3. persisted \in Nat /\ k \in Nat
      BY Numbers
    <2> QED
      BY <2>1, <2>2, <2>3
  <1>2. m \in Nat /\ k = persisted + m
    BY <1>1
  <1>3. \A j \in 1..m : persisted + j \in Calls
    BY Numbers, MaxCallsAssumption DEF Calls
  <1>4. more \in Seq(Calls) /\ Len(more) = m /\ DOMAIN more = 1..m
        /\ \A j \in 1..m : more[j] = persisted + j
    <2> HIDE DEF m
    <2> QED
      BY <1>1, <1>2, <1>3
  <1>5. lg = log \o more
    OBVIOUS
  <1> HIDE DEF m, more
  <1>6. /\ Len(lg) = k /\ DOMAIN lg = 1..k
        /\ \A j \in DOMAIN lg : \/ j \in DOMAIN log /\ lg[j] = log[j]
                                \/ j - persisted \in 1..m /\ lg[j] = more[j - persisted]
    <2>1. /\ Len(lg) = persisted + m /\ DOMAIN lg = 1..(persisted + m)
          /\ \A j \in DOMAIN lg : \/ j \in DOMAIN log /\ lg[j] = log[j]
                                  \/ j - Len(log) \in DOMAIN more
                                     /\ lg[j] = more[j - Len(log)]
      BY <1>1, <1>4, <1>5, ConcatElements
    <2> QED
      BY <1>1, <1>2, <1>4, <2>1
  <1>7. ASSUME NEW j \in DOMAIN lg PROVE lg[j] = j /\ res[j] # "none"
    <2>1. CASE j \in DOMAIN log /\ lg[j] = log[j]
      BY <2>1 DEF LogInv
    <2>2. CASE j - persisted \in 1..m /\ lg[j] = more[j - persisted]
      <3>1. j \in Nat
        BY <1>1, <1>6
      <3>2. lg[j] = j /\ j \in (persisted + 1)..k
        BY <1>1, <1>2, <1>4, <2>2, <3>1
      <3> QED
        BY <3>2
    <2> QED
      BY <1>6, <2>1, <2>2
  <1>8. k <= n
    BY Numbers
  <1> QED
    BY <1>6, <1>7, <1>8 DEF InOrder

(* Every step keeps the transcript in order.                               *)
LEMMA LogStep == CallsInv /\ LogInv /\ [Next]_vars => LogInv'
  <1> SUFFICES ASSUME CallsInv, LogInv, [Next]_vars PROVE LogInv'
    OBVIOUS
  <1>1. TypeOK /\ DOMAIN log = 1..Len(log) /\ Len(log) \in Nat /\ n \in Nat
    BY Numbers, LenProperties DEF CallsInv, TypeOK
  <1>2. \A k \in DOMAIN log : k \in Calls /\ log[k] = k /\ result'[k] # "none"
    <2> SUFFICES ASSUME NEW k \in DOMAIN log PROVE k \in Calls /\ log[k] = k /\ result'[k] # "none"
      OBVIOUS
    <2>1. log[k] = k /\ result[k] # "none"
      BY DEF LogInv
    <2>2. k \in Calls
      <3>1. Len(log) <= n
        BY DEF LogInv
      <3> QED
        BY <1>1, <3>1, Numbers, MaxCallsAssumption DEF Calls
    <2> QED
      BY <2>1, <2>2, ResultsStay
  <1>3. CASE /\ UNCHANGED <<n, phase, updates, saveVars>>
             /\ pc' \in Gone => pc \in Gone
             /\ pc' = "returned" => pc = "returned"
             /\ pc \in Gone => pc' \in Gone
             /\ pc' \in Saving => pc \in Saving \/ is_finished
    BY <1>2, <1>3 DEF LogInv, saveVars, is_finished, Saving, Gone
  <1>4. CASE NextAdmits
    BY <1>2, <1>4 DEF LogInv, NextAdmits, saveVars, Saving, Gone
  <1>5. ASSUME NEW i \in Calls, Advance(i) PROVE LogInv'
    BY <1>2, <1>5 DEF LogInv, Advance, saveVars, Saving, Gone
  <1>6. ASSUME NEW safe \in BOOLEAN, StreamToolUse(safe) PROVE LogInv'
    <2>1. /\ n' = n + 1 /\ pc = "wait" /\ pc' = "select" /\ UNCHANGED <<persisted, log>>
      BY <1>6 DEF StreamToolUse, saveVars
    <2>2. Len(log) <= n /\ Len(log) = persisted
      BY <2>1 DEF LogInv, Gone
    <2>3. Len(log') <= n'
      BY <1>1, <2>1, <2>2
    <2> QED
      BY <1>2, <2>1, <2>2, <2>3 DEF LogInv, Saving, Gone
  <1>7. CASE ObserveUpdate
    <2>1. pc = "pop" /\ pc' \in {"select", "cleanup"} /\ n' = n
      BY <1>7 DEF ObserveUpdate, callVars
    <2>2. PICK k \in 0..n : PersistReady(result', k)
      BY <1>7 DEF ObserveUpdate
    <2>3. /\ k \in persisted..n /\ persisted' = k
          /\ \A j \in (persisted + 1)..k : result'[j] # "none"
          /\ log' = log \o [j \in 1..(k - persisted) |-> persisted + j]
      BY <2>2 DEF PersistReady, Ready
    <2>4. pc \notin Gone
      BY <2>1 DEF Gone
    <2>5. Saves(k, result', log')
      BY <1>2, <2>3 DEF Saves
    <2>6. InOrder(k, result', log')
      BY <1>1, <2>4, <2>5, SaveKeeps
    <2> QED
      BY <2>1, <2>3, <2>6 DEF LogInv, InOrder, Saving, Gone
  <1>8. CASE Cleanup
    <2>1. /\ pc = "cleanup" /\ pc' = "persist" /\ UNCHANGED <<n, persisted, log>>
          /\ updates' = << >> /\ \A i \in 1..n : phase'[i] = "Complete"
      BY <1>8, <1>1, Numbers DEF Cleanup, saveVars
    <2> QED
      BY <1>2, <2>1 DEF LogInv, Saving, Gone
  <1>9. CASE PersistRest
    <2>1. /\ pc = "persist" /\ pc' = "checkpoint"
          /\ UNCHANGED <<n, phase, updates, result>>
      BY <1>9 DEF PersistRest, callVars
    <2>2. PICK k \in 0..n : PersistReady(result, k)
      BY <1>9 DEF PersistRest
    <2>3. /\ k \in persisted..n /\ persisted' = k
          /\ \A j \in (persisted + 1)..k : result'[j] # "none"
          /\ log' = log \o [j \in 1..(k - persisted) |-> persisted + j]
      BY <2>1, <2>2 DEF PersistReady, Ready
    <2>4. pc \notin Gone
      BY <2>1 DEF Gone
    <2>5. Saves(k, result', log')
      BY <1>2, <2>3 DEF Saves
    <2>6. InOrder(k, result', log')
      BY <1>1, <2>4, <2>5, SaveKeeps
    <2> QED
      BY <2>1, <2>3, <2>6 DEF LogInv, InOrder, Saving, Gone
  <1>10. CASE Checkpoint
    <2>1. PICK k \in persisted..n :
              /\ log' = log \o [j \in 1..(k - persisted) |-> persisted + j]
              /\ pc' \in (IF k = n THEN {"returned", "turn failed"} ELSE {"turn failed"})
      BY <1>10 DEF Checkpoint
    <2>2. pc = "checkpoint" /\ UNCHANGED <<n, phase, updates, result, persisted>>
      BY <1>10 DEF Checkpoint, callVars
    <2>3. updates = << >> /\ \A i \in 1..n : phase[i] = "Complete"
      BY <2>2 DEF LogInv, Saving
    <2>4. ASSUME NEW j \in (persisted + 1)..k PROVE result'[j] # "none"
      <3>1. j \in Calls /\ j \in 1..n
        <4>1. k \in persisted..n /\ persisted \in Nat /\ n \in Nat /\ n <= MaxCalls
          BY <1>1, <2>1, Numbers
        <4> QED
          BY <2>4, <4>1, MaxCallsAssumption DEF Calls
      <3>2. ~Answers(j)
        BY <2>3 DEF Answers
      <3> QED
        BY <2>2, <2>3, <3>1, <3>2 DEF CallsInv, AnswerInv
    <2>5. pc \notin Gone
      BY <2>2 DEF Gone
    <2>6. Saves(k, result', log')
      BY <1>2, <2>1, <2>4 DEF Saves
    <2>7. InOrder(k, result', log')
      BY <1>1, <2>5, <2>6, SaveKeeps
    <2>8. pc' \in Gone /\ (pc' = "returned" => k = n)
      BY <2>1 DEF Gone
    <2> QED
      BY <2>2, <2>3, <2>7, <2>8 DEF LogInv, InOrder, Gone
  <1> QED
    BY <1>3, <1>4, <1>5, <1>6, <1>7, <1>8, <1>9, <1>10
    DEF Next, LoopStep, StreamStep, Returned, vars, callVars, Select, SeeAbort, YieldToInput,
        NextPends, StreamEnds, StreamFails, Abort, Saving, Gone, Over

(* Results enter the transcript in call order, without a gap or a          *)
(* repetition, whichever order the tools finish in, whichever write fails; *)
(* and a response that returns has the result of every call                *)
(* (persist_ready_results, checkpoint_turn_response).                      *)
THEOREM ResultsAreInOrder == Spec => []ResultsInOrder
  <1>1. Init => LogInv
    BY DEF Init, LogInv, Saving, Gone
  <1>2. CallsInv /\ LogInv => ResultsInOrder
    BY DEF LogInv, ResultsInOrder
  <1> QED
    BY <1>1, <1>2, LogStep, CallsAlways, PTL DEF Spec

-----------------------------------------------------------------------------
(* The loop never waits in vain.                                           *)

SomeWaits == \E i \in 1..n : phase[i] \in Waiting

(* The calls that admit has not let in are the last ones, so the first     *)
(* unfinished call is either under way or finds a slot.                    *)
QueueInv ==
    \A i, j \in Calls : (i < j /\ j <= n /\ phase[i] = "Queued") => phase[j] = "Queued"

(* The scheduler is polled only when it has work, and its walk leaves an   *)
(* update or a stage to wait for.                                          *)
PollInv ==
    /\ pc = "admit" => ~is_finished
    /\ (pc = "pop" /\ ~aborted) => updates # <<>> \/ SomeWaits
    /\ NeverStuck

(* Some unfinished call is the first one.                                  *)
LEMMA FirstLive ==
    ASSUME TypeOK, NEW c \in 1..n, phase[c] # "Complete"
    PROVE  \E i \in 1..n : /\ phase[i] # "Complete"
                           /\ \A j \in 1..(i - 1) : phase[j] = "Complete"
  <1> DEFINE T == {i \in 1..n : phase[i] # "Complete"}
             R == OpToRel(<, Nat)
  <1>1. T \subseteq Nat /\ T # {} /\ n \in Nat
    BY Numbers
  <1>2. IsWellFoundedOn(R, Nat)
    BY NatLessThanWellFounded, Zenon
  <1>3. \A x, y \in Nat : <<x, y>> \in R <=> x < y
    BY DEF OpToRel
  <1> HIDE DEF R
  <1>4. PICK i \in T : \A j \in T : ~(<<j, i>> \in R)
    <2> HIDE DEF T
    <2> QED
      BY <1>1, <1>2, WFMin
  <1>5. \A j \in T : ~(j < i)
    BY <1>1, <1>3, <1>4
  <1>6. ASSUME NEW j \in 1..(i - 1) PROVE phase[j] = "Complete"
    <2>1. i \in Nat /\ i <= n
      BY <1>1, <1>4
    <2>2. j \in 1..n /\ j < i
      BY <1>1, <1>6, <2>1
    <2> QED
      BY <1>5, <2>2
  <1> QED
    BY <1>4, <1>6

(* admit gives the first unfinished call something to do.                  *)
LEMMA AdmitWakes ==
    ASSUME TypeOK, QueueInv, NEW i \in 1..n, phase[i] # "Complete",
           \A j \in 1..(i - 1) : phase[j] = "Complete"
    PROVE  Admitted(i) \in Waiting
  <1>1. n \in Nat /\ 1..n \subseteq Calls /\ i \in Nat
    BY Numbers
  <1>2. Live(i) /\ \A j \in 1..(i - 1) : ~Live(j)
    BY DEF Live
  <1>3. Classified(i)
    BY DEF Classified
  <1>4. Reached(i)
    <2>1. CASE phase[i] # "Queued"
      <3>1. \A j \in 1..i : phase[j] # "Queued"
        BY <1>1, <2>1
      <3> QED
        BY <1>2, <3>1 DEF Reached
    <2>2. CASE phase[i] = "Queued"
      <3>1. \A j \in 1..n : phase[j] \in {"Queued", "Complete"}
        <4> SUFFICES ASSUME NEW j \in 1..n PROVE phase[j] \in {"Queued", "Complete"}
          OBVIOUS
        <4>1. CASE j < i
          BY <1>1, <4>1
        <4>2. CASE i < j
          BY <1>1, <2>2, <4>2 DEF QueueInv
        <4> QED
          BY <1>1, <2>2, <4>1, <4>2
      <3>2. {j \in 1..n : phase[j] \notin {"Queued", "Complete"}} = {}
        BY <3>1
      <3>3. {k \in 1..(i - 1) : phase[k] = "Queued"} = {}
        OBVIOUS
      <3>4. Cardinality({}) = 0
        BY FS_EmptySet
      <3>5. HasSlot(i)
        BY <3>2, <3>3, <3>4, LimitAssumption DEF HasSlot, inflight
      <3>6. \A j \in 1..i : phase[j] = "Queued" => HasSlot(j)
        <4> SUFFICES ASSUME NEW j \in 1..i, phase[j] = "Queued" PROVE j = i
          BY <3>5
        <4> QED
          BY <1>1
      <3> QED
        BY <1>2, <3>6 DEF Reached
    <2> QED
      BY <2>1, <2>2
  <1>5. phase[i] \in Phase /\ phase[i] # "Absent"
    <2>1. ~(i > n)
      BY <1>1
    <2> QED
      BY <1>1, <2>1 DEF TypeOK
  <1> QED
    BY <1>3, <1>4, <1>5 DEF Admitted, Phase, Waiting, Late

(* Calls are let in from the front.                                        *)
LEMMA QueueStep == TypeOK /\ QueueInv /\ [Next]_vars => QueueInv'
  <1> SUFFICES ASSUME TypeOK, QueueInv, [Next]_vars PROVE QueueInv'
    OBVIOUS
  <1>1. n \in Nat /\ 1..n \subseteq Calls /\ Calls \subseteq Nat
    BY Numbers, MaxCallsAssumption DEF Calls
  <1>2. CASE UNCHANGED <<n, phase>>
    BY <1>2 DEF QueueInv
  <1>3. CASE NextAdmits
    <2>1. CASE aborted
      BY <1>2, <1>3, <2>1 DEF NextAdmits
    <2>2. CASE ~aborted
      <3>1. n' = n /\ \A i \in Calls : phase'[i] = Admitted(i)
        BY <1>3, <2>2 DEF NextAdmits, admit
      <3> SUFFICES ASSUME NEW i \in Calls, NEW j \in Calls, i < j, j <= n,
                          Admitted(i) = "Queued"
                   PROVE  Admitted(j) = "Queued"
        BY <3>1 DEF QueueInv
      <3>2. phase[i] = "Queued" /\ ~Reached(i)
        BY AdmittedStep DEF Admitted, TypeOK, Phase, Late, Waiting
      <3>3. phase[j] = "Queued"
        BY <3>2 DEF QueueInv
      <3>4. ASSUME Reached(j) PROVE Reached(i)
        <4>1. i \in 1..n /\ i \in 1..(j - 1) /\ 1..(i - 1) \subseteq 1..(j - 1)
              /\ 1..i \subseteq 1..j
          BY <1>1 DEF Calls
        <4>2. Live(i)
          BY <3>2, <4>1 DEF Live
        <4> QED
          BY <3>4, <4>1, <4>2 DEF Reached
      <3> QED
        BY <3>2, <3>3, <3>4 DEF Admitted
    <2> QED
      BY <2>1, <2>2
  <1>4. ASSUME NEW c \in Calls, Advance(c) PROVE QueueInv'
    <2>1. n' = n /\ \A i \in Calls : phase'[i] = "Queued" <=> phase[i] = "Queued"
      BY <1>4 DEF Advance, AdvancePrepared, AdvanceAuthorized, AdvanceExecuted,
                  AdvanceFinished, complete, TypeOK
    <2> QED
      BY <2>1 DEF QueueInv
  <1>5. ASSUME NEW safe \in BOOLEAN, StreamToolUse(safe) PROVE QueueInv'
    <2>1. /\ n' = n + 1 /\ n + 1 \in Calls
          /\ phase'[n + 1] = "Queued" /\ \A i \in Calls \ {n + 1} : phase'[i] = phase[i]
      BY <1>1, <1>5, MaxCallsAssumption DEF StreamToolUse, TypeOK, Calls
    <2> SUFFICES ASSUME NEW i \in Calls, NEW j \in Calls, i < j, j <= n + 1,
                        phase'[i] = "Queued", j # n + 1
                 PROVE  phase'[j] = "Queued"
      BY <2>1 DEF QueueInv
    <2>2. i # n + 1 /\ j <= n
      BY <1>1
    <2> QED
      BY <2>1, <2>2 DEF QueueInv
  <1>6. CASE Cleanup
    BY <1>6 DEF Cleanup, QueueInv
  <1> QED
    BY <1>2, <1>3, <1>4, <1>5, <1>6
    DEF Next, LoopStep, StreamStep, Returned, vars, callVars, Select, SeeAbort, YieldToInput,
        NextPends, ObserveUpdate, StreamEnds, StreamFails, PersistRest, Checkpoint, Abort

(* Every step leaves the loop something to wait for.                       *)
LEMMA PollStep == TypeOK /\ QueueInv /\ PollInv /\ [Next]_vars => PollInv'
  <1> SUFFICES ASSUME TypeOK, QueueInv, PollInv, [Next]_vars PROVE PollInv'
    OBVIOUS
  <1>1. CASE NextAdmits
    <2>1. pc = "admit" /\ pc' = "pop" /\ UNCHANGED <<n, aborted>> /\ ~is_finished
      BY <1>1 DEF NextAdmits, PollInv
    <2>2. CASE aborted
      BY <2>1, <2>2 DEF PollInv, NeverStuck
    <2>3. CASE ~aborted
      <3>1. /\ \A i \in Calls : phase'[i] = Admitted(i)
        BY <1>1, <2>3 DEF NextAdmits, admit
      <3>2. CASE updates # << >>
        <4>1. updates' # << >>
          <5> DEFINE S == {i \in 1..n : phase[i] = "Authorized" /\ Admitted(i) = "Running"}
                     U == {Started(i) : i \in S}
          <5>1. PICK s \in InCallOrder(U) : updates' = updates \o s
            BY <1>1, <2>3 DEF NextAdmits, admit
          <5>2. U \subseteq ToolUpdate
            BY StartedType, Numbers
          <5> HIDE DEF U
          <5>3. s \in Seq(ToolUpdate) /\ updates \in Seq(ToolUpdate)
            <6>1. updates \in Seq(ToolUpdate)
              BY DEF TypeOK
            <6> QED
              BY <5>2, <6>1, InCallOrderOnce
          <5>4. Len(updates) # 0 /\ Len(updates) \in Nat /\ Len(s) \in Nat
            BY <3>2, <5>3
          <5>5. Len(updates') = Len(updates) + Len(s)
            BY <5>1, <5>3, ConcatElements
          <5> QED
            BY <5>4, <5>5
        <4> QED
          BY <2>1, <4>1 DEF PollInv, NeverStuck
      <3>3. CASE updates = << >>
        <4>1. PICK c \in 1..n : phase[c] # "Complete"
          BY <2>1, <3>3 DEF is_finished
        <4>2. PICK i \in 1..n : /\ phase[i] # "Complete"
                                /\ \A j \in 1..(i - 1) : phase[j] = "Complete"
          BY <4>1, FirstLive
        <4>3. phase'[i] \in Waiting
          BY <3>1, <4>2, AdmitWakes, Numbers
        <4>4. SomeWaits'
          BY <2>1, <4>3 DEF SomeWaits
        <4> QED
          BY <2>1, <4>4 DEF PollInv, NeverStuck
      <3> QED
        BY <3>2, <3>3
    <2> QED
      BY <2>2, <2>3
  <1>2. CASE NextPends
    BY <1>2 DEF NextPends, PollInv, NeverStuck, SomeWaits, callVars
  <1>3. CASE Select
    BY <1>3 DEF Select, PollInv, NeverStuck, is_finished, Over, callVars
  <1>4. ASSUME NEW i \in Calls, Advance(i) PROVE PollInv'
    <2>1. pc' = "admit" /\ n' = n
      BY <1>4 DEF Advance
    <2>2. ~is_finished'
      <3>1. i \in 1..n
        <4>1. phase[i] # "Absent"
          BY <1>4 DEF Advance, AdvancePrepared, AdvanceAuthorized, AdvanceExecuted,
                      AdvanceFinished
        <4>2. ~(i > n)
          BY <4>1 DEF TypeOK
        <4> QED
          BY <4>2, Numbers, MaxCallsAssumption DEF Calls
      <3>2. phase'[i] # "Complete" \/ \E o \in Outcome : complete(i, o)
        BY <1>4 DEF Advance, AdvancePrepared, AdvanceAuthorized, AdvanceExecuted,
                    AdvanceFinished, complete, Outcome, TypeOK
      <3>3. CASE phase'[i] # "Complete"
        BY <2>1, <3>1, <3>3 DEF is_finished
      <3>4. ASSUME NEW o \in Outcome, complete(i, o) PROVE updates' # << >>
        <4>1. updates \in Seq(ToolUpdate) /\ Completed(i, o) \in ToolUpdate
          BY CompletedType DEF TypeOK
        <4>2. updates' = Append(updates, Completed(i, o))
          BY <3>4 DEF complete
        <4> QED
          BY <4>1, <4>2
      <3> QED
        BY <3>2, <3>3, <3>4 DEF is_finished
    <2> QED
      BY <2>1, <2>2 DEF PollInv, NeverStuck
  <1>5. CASE pc' \notin {"admit", "pop", "wait"}
    BY <1>5 DEF PollInv, NeverStuck
  <1>6. CASE Abort
    BY <1>6 DEF Abort, PollInv, NeverStuck, is_finished, callVars
  <1>7. CASE UNCHANGED vars
    BY <1>7 DEF vars, PollInv, NeverStuck, is_finished, SomeWaits, callVars
  <1> QED
    BY <1>1, <1>2, <1>3, <1>4, <1>5, <1>6, <1>7
    DEF Next, LoopStep, StreamStep, Returned, SeeAbort, YieldToInput, StreamToolUse,
        ObserveUpdate, StreamEnds, StreamFails, Cleanup, PersistRest, Checkpoint

(* When the loop waits for the scheduler alone, some stage is under way    *)
(* that will wake it, whatever the limit and the mix of serial and         *)
(* parallel calls (admit and next).                                        *)
THEOREM LoopIsNeverStuck == Spec => []NeverStuck
  <1>1. Init => QueueInv /\ PollInv
    BY DEF Init, QueueInv, PollInv, NeverStuck
  <1>2. PollInv => NeverStuck
    BY DEF PollInv
  <1> QED
    BY <1>1, <1>2, QueueStep, PollStep, TypeCorrect, PTL DEF Spec
=============================================================================
