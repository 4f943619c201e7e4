------------------------ MODULE BackgroundTasks_proofs ------------------------
(***************************************************************************)
(* Proofs about BackgroundTasks, for any tasks, pause requests and limits. *)
(***************************************************************************)
EXTENDS BackgroundTasks, Orders_proofs, TLAPS

-----------------------------------------------------------------------------
(* Types.                                                                  *)

(* The registry's helpers keep the types.                                  *)
LEMMA EmitType ==
    ASSUME TypeOK, NEW updated, NEW removed, NEW s \in Status,
           Emit(updated, s, removed)
    PROVE  view' \in [Tasks -> Status \cup {"None"}]
  BY DEF Emit, TypeOK

(* stop keeps the types, whether or not the task is registered.            *)
LEMMA StopType ==
    ASSUME TypeOK, NEW t \in Tasks, Stop(t)
    PROVE  /\ status' \in [Tasks -> Status \cup Absent]
           /\ unsent' \subseteq Tasks
           /\ view' \in [Tasks -> Status \cup {"None"}]
<1>1. "Stopping" \in Status
  BY DEF Status, Active
<1>2. CASE t \in Registered
  <2> DEFINE hit == {u \in Family(t) : status[u] \in Active}
  <2>1. hit \subseteq Tasks
    BY DEF Family, Registered
  <2>2. /\ status' = [u \in Tasks |-> IF u \in hit THEN "Stopping" ELSE status[u]]
        /\ unsent' = unsent \cup hit
        /\ Emit(hit, "Stopping", {})
    BY <1>2 DEF Stop
  <2> HIDE DEF hit
  <2> QED  BY <1>1, <2>1, <2>2, EmitType DEF TypeOK
<1>3. CASE t \notin Registered
  BY <1>3 DEF Stop, TypeOK
<1> QED  BY <1>2, <1>3

(* So does retain_finished, with and without an eviction.                  *)
LEMMA RetainType ==
    ASSUME TypeOK, NEW t \in Tasks, NEW s \in Status, Retain(t, s)
    PROVE  /\ status' \in [Tasks -> Status \cup Absent]
           /\ history' \in Seq(Tasks)
           /\ view' \in [Tasks -> Status \cup {"None"}]
<1> DEFINE q == Append(history, t)
<1>1. q \in Seq(Tasks) /\ q # << >>
  BY DEF TypeOK
<1>2. /\ history' = IF Len(q) > HistoryLimit THEN Tail(q) ELSE q
      /\ status' = [u \in Tasks |-> IF u \in Overflow(q) THEN "Gone"
                                    ELSE IF u = t THEN s ELSE status[u]]
      /\ Emit({t}, s, Overflow(q))
  BY DEF Retain
<1> HIDE DEF q
<1>3. Tail(q) \in Seq(Tasks)
  BY <1>1
<1> QED  BY <1>1, <1>2, <1>3, EmitType DEF TypeOK, Absent

HostTyped ==
    host \in [Hosts -> [at : {"idle", "sweep", "wait", "owns"}, epoch : 0..MaxPauses,
                       todo : SUBSET Tasks]]

(* Every step keeps the types.                                             *)
LEMMA TypeStep == TypeOK /\ [Next]_vars => TypeOK'
<1> SUFFICES ASSUME TypeOK, [Next]_vars PROVE TypeOK'
  OBVIOUS
<1> USE BoundsAssumption, TasksAssumption
<1>1. CASE UNCHANGED vars
  BY <1>1 DEF vars, taskVars, fenceVars, signalVars, TypeOK
<1>2. CASE BeginOperation
  BY <1>2 DEF BeginOperation, taskVars, signalVars, TypeOK
<1>3. CASE EndOperation
  BY <1>3 DEF EndOperation, taskVars, signalVars, TypeOK
<1>4. ASSUME NEW t \in Tasks, NEW p \in Tasks \cup {NoTask}, Register(t, p)
      PROVE  TypeOK'
  <2>1. PICK s \in {"Stopping", "Running"} :
            /\ status' = [status EXCEPT ![t] = s]
            /\ Emit({t}, s, {})
    BY <1>4 DEF Register
  <2>2. s \in Status
    BY DEF Status, Active
  <2>3. view' \in [Tasks -> Status \cup {"None"}]
    BY <2>1, <2>2, EmitType
  <2>4. unsent' \subseteq Tasks
    BY <1>4 DEF Register, TypeOK
  <2>5. /\ parent' = [parent EXCEPT ![t] = p]
        /\ UNCHANGED <<history, sink, fenceVars, aborted, host, closer>>
    BY <1>4 DEF Register
  <2> QED  BY <2>1, <2>2, <2>3, <2>4, <2>5 DEF fenceVars, TypeOK
<1>5. ASSUME NEW t \in Tasks, NEW s \in Inactive, TaskEnds(t, s) PROVE TypeOK'
  <2>1. s \in Status
    BY DEF Status
  <2> QED  BY <1>5, <2>1, RetainType DEF TaskEnds, fenceVars, signalVars, TypeOK
<1>6. ASSUME NEW t \in Tasks, FireAbort(t) PROVE TypeOK'
  BY <1>6 DEF FireAbort, taskVars, fenceVars, TypeOK
<1>7. ASSUME NEW t \in Tasks, StopTask(t) PROVE TypeOK'
  BY <1>7, StopType DEF StopTask, fenceVars, TypeOK
<1>8. ASSUME NEW t \in Tasks, Inspect(t) PROVE TypeOK'
  <2>1. PICK q \in Kept(history, Tasks \ {t}) : history' = Append(q, t)
    BY <1>8 DEF Inspect
  <2>2. q \in Seq(Tasks)
    BY KeptType DEF TypeOK
  <2> QED  BY <1>8, <2>1, <2>2 DEF Inspect, fenceVars, signalVars, TypeOK
<1>9. CASE ClearResults
  <2> DEFINE obsolete == {t \in Range(history) : status[t] # "ExecutionUnconfirmed"}
  <2>1. /\ history' \in Kept(history, Tasks \ obsolete)
        /\ status' = [t \in Tasks |-> IF t \in obsolete THEN "Gone" ELSE status[t]]
        /\ Emit({}, "Gone", obsolete)
    BY <1>9 DEF ClearResults
  <2> HIDE DEF obsolete
  <2>2. history' \in Seq(Tasks)
    BY <2>1, KeptType DEF TypeOK
  <2>3. view' \in [Tasks -> Status \cup {"None"}]
    BY <2>1 DEF Emit, TypeOK
  <2>4. status' \in [Tasks -> Status \cup Absent]
    BY <2>1 DEF Absent, TypeOK
  <2> QED  BY <1>9, <2>2, <2>3, <2>4 DEF ClearResults, fenceVars, signalVars, TypeOK
<1>10. CASE SetSink
  <2>1. view' \in [Tasks -> Status \cup {"None"}]
    BY <1>10 DEF SetSink, Registered, TypeOK
  <2>2. sink' \in BOOLEAN
    BY <1>10, Zenon DEF SetSink
  <2> QED  BY <1>10, <2>1, <2>2 DEF SetSink, fenceVars, signalVars, TypeOK
<1>11. ASSUME NEW h \in Hosts, BeginPause(h) PROVE TypeOK'
  <2>1. paused' \in BOOLEAN
    BY <1>11, Zenon DEF BeginPause
  <2>2. /\ pause_epoch' \in 0..MaxPauses
        /\ host' = [host EXCEPT ![h] = [at |-> "sweep", epoch |-> pause_epoch',
                                        todo |-> Registered]]
    BY <1>11 DEF BeginPause, TypeOK
  <2>3. Registered \in SUBSET Tasks
    BY DEF Registered
  <2> QED  BY <1>11, <2>1, <2>2, <2>3 DEF BeginPause, taskVars, signalVars, TypeOK
<1> DEFINE Host == [at : {"idle", "sweep", "wait", "owns"}, epoch : 0..MaxPauses,
                    todo : SUBSET Tasks]
<1>h. \A h \in Hosts : \A r \in Host : host' = [host EXCEPT ![h] = r] => HostTyped'
  <2>1. host \in [Hosts -> Host]
    BY DEF TypeOK
  <2> QED  BY <2>1 DEF HostTyped
<1>a. \A h \in Hosts : \A at \in {"idle", "wait", "owns"} :
         host' = [host EXCEPT ![h].at = at] => HostTyped'
  <2> SUFFICES ASSUME NEW h \in Hosts, NEW at \in {"idle", "wait", "owns"}
               PROVE  host' = [host EXCEPT ![h].at = at] => HostTyped'
    OBVIOUS
  <2>1. host[h] \in Host
    BY DEF TypeOK
  <2>2. [host[h] EXCEPT !.at = at] \in Host
    BY <2>1
  <2> QED  BY <2>2, <1>h
<1>b. \A h \in Hosts, t \in Tasks :
         host' = [host EXCEPT ![h].todo = @ \ {t}] => HostTyped'
  <2> SUFFICES ASSUME NEW h \in Hosts, NEW t \in Tasks
               PROVE  host' = [host EXCEPT ![h].todo = @ \ {t}] => HostTyped'
    OBVIOUS
  <2>1. host[h] \in Host
    BY DEF TypeOK
  <2>2. [host[h] EXCEPT !.todo = @ \ {t}] \in Host
    BY <2>1
  <2> QED  BY <2>2, <1>h
<1> HIDE DEF Host
<1>12. ASSUME NEW h \in Hosts, PauseSwept(h) PROVE TypeOK'
  <2>1. HostTyped' /\ UNCHANGED <<taskVars, fenceVars, signalVars, closer>>
    BY <1>12, <1>a DEF PauseSwept
  <2> QED  BY <2>1 DEF taskVars, fenceVars, signalVars, TypeOK, HostTyped
<1>13. ASSUME NEW h \in Hosts, WaitPaused(h) PROVE TypeOK'
  <2>1. HostTyped' /\ UNCHANGED <<taskVars, fenceVars, signalVars, closer>>
    BY <1>13, <1>a DEF WaitPaused
  <2> QED  BY <2>1 DEF taskVars, fenceVars, signalVars, TypeOK, HostTyped
<1>14. ASSUME NEW h \in Hosts, ResumeOperations(h) PROVE TypeOK'
  <2>1. paused' \in BOOLEAN
    BY <1>14, Zenon DEF ResumeOperations
  <2>2. /\ HostTyped'
        /\ UNCHANGED <<taskVars, closing, pause_epoch, operations, signalVars, closer>>
    BY <1>14, <1>a DEF ResumeOperations
  <2> QED  BY <2>1, <2>2 DEF taskVars, signalVars, TypeOK, HostTyped
<1>15. ASSUME NEW h \in Hosts, NEW t \in Tasks, PauseStops(h, t) PROVE TypeOK'
  <2>1. HostTyped' /\ UNCHANGED <<parent, history, sink, fenceVars, aborted, closer>>
    BY <1>15, <1>b DEF PauseStops
  <2>2. /\ status' \in [Tasks -> Status \cup Absent] /\ unsent' \subseteq Tasks
        /\ view' \in [Tasks -> Status \cup {"None"}]
    BY <1>15, StopType DEF PauseStops
  <2> QED  BY <2>1, <2>2 DEF fenceVars, TypeOK, HostTyped
<1>16. CASE BeginShutdown
  <2>1. closing' \in BOOLEAN
    BY <1>16, Zenon DEF BeginShutdown
  <2> QED  BY <1>16, <2>1 DEF BeginShutdown, Registered, taskVars, signalVars, TypeOK
<1>17. CASE ShutdownDrains
  BY <1>17 DEF ShutdownDrains, taskVars, fenceVars, signalVars, TypeOK
<1>18. ASSUME NEW t \in Tasks, ShutdownStops(t) PROVE TypeOK'
  BY <1>18, StopType DEF ShutdownStops, fenceVars, TypeOK
<1> QED
  BY <1>1, <1>2, <1>3, <1>4, <1>5, <1>6, <1>7, <1>8, <1>9, <1>10, <1>11, <1>12,
     <1>13, <1>14, <1>15, <1>16, <1>17, <1>18
     DEF Next, TaskStep, PauseStep, CloseStep

-----------------------------------------------------------------------------
(* What the steps that change the registry do to the tasks.                *)

Mirrored == \A u \in Tasks :
    view[u] = IF status[u] \in Status THEN status[u] ELSE "None"

(* stop: who changes was active, is Stopping and is owed its signal; the   *)
(* task itself does not run on, and no child runs on under one it stops.   *)
Stops(t) ==
    /\ status'[t] # "Running"
    /\ unsent \subseteq unsent'
    /\ \A u \in Tasks : \/ status'[u] = status[u]
                        \/ /\ status[u] \in Active /\ status'[u] = "Stopping"
                           /\ u \in unsent'
    /\ \A u \in Tasks : status'[u] = "Running" /\ parent[u] \in Tasks =>
           status'[parent[u]] = status[parent[u]]
    /\ sink /\ Mirrored => Mirrored'

(* Stop does what Stops says: whom it leaves running has no stopped parent. *)
LEMMA StopEffect ==
    ASSUME TypeOK, NEW t \in Tasks, Stop(t)
    PROVE  Stops(t)
<1>1. CASE t \notin Registered
  BY <1>1 DEF Stop, Stops, Mirrored, Registered, Status, Active
<1>2. CASE t \in Registered
  <2> DEFINE hit == {u \in Family(t) : status[u] \in Active}
  <2>1. /\ status' = [u \in Tasks |-> IF u \in hit THEN "Stopping" ELSE status[u]]
        /\ unsent' = unsent \cup hit
        /\ Emit(hit, "Stopping", {})
    BY <1>2 DEF Stop
  <2>2. t \in Family(t)
    BY <1>2 DEF Family
  <2>3. status[t] = "Running" => t \in hit
    BY <2>2 DEF Active
  <2>4. ASSUME NEW u \in Tasks, status[u] = "Running", parent[u] \in hit
        PROVE  u \in hit
    <3>1. u \in Registered /\ parent[u] \in Family(t)
      BY <2>4 DEF Registered, Status, Active
    <3>2. u \in Family(t)
      BY <3>1 DEF Family
    <3> QED  BY <2>4, <3>2 DEF Active
  <2>5. \A u \in hit : u \in Tasks /\ status[u] \in Active
    BY DEF Family, Registered
  <2> HIDE DEF hit
  <2>6. "Stopping" \in Status /\ "Running" # "Stopping"
    BY DEF Status, Active
  <2>7. sink /\ Mirrored => Mirrored'
    BY <2>1, <2>6 DEF Emit, Mirrored, TypeOK
  <2>8. \A u \in Tasks : status'[u] = "Running" /\ parent[u] \in Tasks =>
           status'[parent[u]] = status[parent[u]]
    BY <2>1, <2>4, <2>6 DEF TypeOK
  <2> QED  BY <2>1, <2>3, <2>5, <2>6, <2>7, <2>8 DEF Stops, TypeOK
<1> QED  BY <1>1, <1>2

(* A task ends and an old result may leave, or results are cleared: no     *)
(* task starts to run or to stop.                                          *)
Settles ==
    /\ \A u \in Tasks : \/ status'[u] = status[u]
                        \/ status'[u] = "Gone"
                        \/ status'[u] \in Inactive /\ status[u] \in Active
    /\ \A u \in Tasks : status'[u] = "Cancelled" =>
                          status[u] \in {"Stopping", "Cancelled"}
    /\ sink /\ Mirrored => Mirrored'

(* The end of a task and clear_results settle tasks and wake none.         *)
LEMMA SettleEffect ==
    ASSUME TypeOK,
           ClearResults \/ \E t \in Tasks, s \in Inactive : TaskEnds(t, s)
    PROVE  Settles
<1>0. "Gone" \notin Status /\ "Gone" # "Cancelled"
  BY DEF Status, Active, Inactive
<1>1. CASE ClearResults
  <2> DEFINE obsolete == {t \in Range(history) : status[t] # "ExecutionUnconfirmed"}
  <2>1. /\ status' = [t \in Tasks |-> IF t \in obsolete THEN "Gone" ELSE status[t]]
        /\ Emit({}, "Gone", obsolete)
    BY <1>1 DEF ClearResults
  <2> HIDE DEF obsolete
  <2>2. sink /\ Mirrored => Mirrored'
    BY <1>0, <2>1 DEF Emit, Mirrored, TypeOK
  <2>3. \A u \in Tasks : \/ status'[u] = status[u]
                         \/ status'[u] = "Gone"
                         \/ status'[u] \in Inactive /\ status[u] \in Active
    BY <2>1 DEF TypeOK
  <2>4. \A u \in Tasks : status'[u] = "Cancelled" =>
                            status[u] \in {"Stopping", "Cancelled"}
    BY <1>0, <2>1 DEF TypeOK
  <2> QED  BY <2>2, <2>3, <2>4 DEF Settles
<1>2. ASSUME NEW t \in Tasks, NEW s \in Inactive, TaskEnds(t, s) PROVE Settles
  <2> DEFINE out == Overflow(Append(history, t))
  <2>1. /\ status' = [u \in Tasks |-> IF u \in out THEN "Gone"
                                      ELSE IF u = t THEN s ELSE status[u]]
        /\ Emit({t}, s, out)
        /\ status[t] \in Active /\ (s = "Cancelled" => status[t] = "Stopping")
    BY <1>2 DEF TaskEnds, Retain
  <2> HIDE DEF out
  <2>2. s \in Status
    BY DEF Status
  <2>3. sink /\ Mirrored => Mirrored'
    BY <1>0, <2>1, <2>2 DEF Emit, Mirrored, TypeOK
  <2>4. \A u \in Tasks : \/ status'[u] = status[u]
                         \/ status'[u] = "Gone"
                         \/ status'[u] \in Inactive /\ status[u] \in Active
    BY <2>1 DEF TypeOK
  <2>5. \A u \in Tasks : status'[u] = "Cancelled" =>
                            status[u] \in {"Stopping", "Cancelled"}
    BY <1>0, <2>1 DEF TypeOK
  <2> QED  BY <2>3, <2>4, <2>5 DEF Settles
<1> QED  BY <1>1, <1>2

(* register: the newcomer inherits a stop.                                 *)
Joins(t, p) ==
    /\ operations > 0 /\ status[t] = "New" /\ (p \in Tasks => status[p] # "New")
    /\ parent' = [parent EXCEPT ![t] = p]
    /\ unsent \subseteq unsent'
    /\ \/ /\ status' = [status EXCEPT ![t] = "Stopping"] /\ t \in unsent'
       \/ /\ status' = [status EXCEPT ![t] = "Running"]
          /\ ~closing /\ ~paused /\ ~StoppedParent(p)
    /\ sink /\ Mirrored => Mirrored'

(* Register brings a task in, born stopping where should_stop says so.     *)
LEMMA RegisterEffect ==
    ASSUME TypeOK, NEW t \in Tasks, NEW p \in Tasks \cup {NoTask}, Register(t, p)
    PROVE  Joins(t, p)
<1>1. PICK s \in {"Stopping", "Running"} :
          /\ status' = [status EXCEPT ![t] = s]
          /\ Emit({t}, s, {})
          /\ s = "Stopping" => t \in unsent'
          /\ s = "Running" => ~should_stop(p)
  BY DEF Register
<1>2. s \in Status
  BY DEF Status, Active
<1>3. sink /\ Mirrored => Mirrored'
  BY <1>1, <1>2 DEF Emit, Mirrored, TypeOK
<1>4. unsent \subseteq unsent'
  BY DEF Register
<1> QED  BY <1>1, <1>3, <1>4 DEF Joins, Register, should_stop

(* Any other step leaves the tasks alone, and what it takes from the       *)
(* signals owed it fires.                                                  *)
Rests ==
    /\ UNCHANGED <<status, parent>>
    /\ unsent \cup aborted \subseteq unsent' \cup aborted'
    /\ Mirrored' \/ UNCHANGED <<sink, view>>

(* The four kinds of steps.                                                *)
LEMMA StepKinds ==
    ASSUME TypeOK, [Next]_vars
    PROVE  \/ Rests
           \/ Settles /\ UNCHANGED <<parent, sink, unsent, aborted>>
           \/ \E t \in Tasks : Stops(t) /\ UNCHANGED <<parent, sink, aborted>>
           \/ \E t \in Tasks, p \in Tasks \cup {NoTask} :
                 Joins(t, p) /\ UNCHANGED <<sink, aborted>>
<1>1. CASE UNCHANGED vars
  BY <1>1 DEF vars, taskVars, signalVars, Rests
<1>2. CASE BeginOperation \/ EndOperation \/ SetSink
  BY <1>2 DEF BeginOperation, EndOperation, SetSink, taskVars, signalVars, Rests,
              Mirrored, Registered
<1>3. ASSUME NEW t \in Tasks, FireAbort(t) \/ Inspect(t) PROVE Rests
  BY <1>3 DEF FireAbort, Inspect, taskVars, signalVars, Rests
<1>4. ASSUME NEW t \in Tasks, NEW p \in Tasks \cup {NoTask}, Register(t, p)
      PROVE  Joins(t, p) /\ UNCHANGED <<sink, aborted>>
  <2>1. UNCHANGED <<sink, aborted>>
    BY <1>4 DEF Register
  <2> QED  BY <1>4, <2>1, RegisterEffect
<1>5. CASE ClearResults \/ \E t \in Tasks, s \in Inactive : TaskEnds(t, s)
  <2>1. UNCHANGED <<parent, sink, unsent, aborted>>
    BY <1>5 DEF ClearResults, TaskEnds, signalVars
  <2> QED  BY <1>5, <2>1, SettleEffect
<1>6. ASSUME NEW t \in Tasks,
             StopTask(t) \/ ShutdownStops(t) \/ \E h \in Hosts : PauseStops(h, t)
      PROVE  Stops(t) /\ UNCHANGED <<parent, sink, aborted>>
  <2>1. Stop(t) /\ UNCHANGED <<parent, sink, aborted>>
    BY <1>6 DEF StopTask, ShutdownStops, PauseStops
  <2> QED  BY <2>1, StopEffect
<1>7. ASSUME NEW h \in Hosts,
             BeginPause(h) \/ PauseSwept(h) \/ WaitPaused(h) \/ ResumeOperations(h)
      PROVE  Rests
  BY <1>7 DEF BeginPause, PauseSwept, WaitPaused, ResumeOperations, taskVars,
              signalVars, Rests
<1>8. CASE BeginShutdown \/ ShutdownDrains
  BY <1>8 DEF BeginShutdown, ShutdownDrains, taskVars, signalVars, Rests
<1> QED
  BY <1>1, <1>2, <1>3, <1>4, <1>5, <1>6, <1>7, <1>8
     DEF Next, TaskStep, PauseStep, CloseStep

-----------------------------------------------------------------------------
(* Tasks, their signals, their parents and the sink.                       *)

(* Who runs was registered after its parent.                               *)
ParentsCameFirst == \A t \in Tasks :
    status[t] = "Running" /\ parent[t] \in Tasks => status[parent[t]] # "New"

TaskInv ==
    /\ TypeOK /\ StopIsSignalled /\ ParentsCameFirst /\ NoRunningOrphan
    /\ SinkMirrorsRegistry

(* The parts of TaskInv hold at the start ...                              *)
LEMMA TaskInit == Init => TaskInv
<1> SUFFICES ASSUME Init PROVE TaskInv
  OBVIOUS
<1>1. closing \in BOOLEAN /\ paused \in BOOLEAN /\ sink \in BOOLEAN
  BY Zenon DEF Init
<1>2. TypeOK
  BY <1>1, BoundsAssumption, TasksAssumption DEF Init, TypeOK, Absent
<1>3. StopIsSignalled /\ ParentsCameFirst /\ NoRunningOrphan /\ SinkMirrorsRegistry
  BY DEF Init, StopIsSignalled, ParentsCameFirst, NoRunningOrphan, SinkMirrorsRegistry
<1> QED  BY <1>2, <1>3 DEF TaskInv

(* ... and each kind of step keeps them.                                   *)
LEMMA TaskStepKeeps == TaskInv /\ [Next]_vars => TaskInv'
<1> SUFFICES ASSUME TaskInv, [Next]_vars PROVE TaskInv'
  OBVIOUS
<1>1. TypeOK /\ TypeOK'
  BY TypeStep DEF TaskInv
<1>2. sink => Mirrored
  BY DEF TaskInv, SinkMirrorsRegistry, Mirrored, Registered
<1>3. StopIsSignalled' /\ ParentsCameFirst' /\ NoRunningOrphan' /\ (sink' => Mirrored')
  <2> USE DEF StopIsSignalled, ParentsCameFirst, NoRunningOrphan, TaskInv, Registered
  <2>1. CASE Rests
    <3>1. sink' => Mirrored'
      BY <1>2, <2>1 DEF Rests, Mirrored
    <3> QED  BY <2>1, <3>1 DEF Rests
  <2>2. CASE Settles /\ UNCHANGED <<parent, sink, unsent, aborted>>
    <3>1. "Gone" \notin Status \cup {"New"} /\ "Running" \notin Inactive
          /\ "Stopping" \notin Inactive /\ "New" \notin Active \cup Inactive
      BY DEF Status, Active, Inactive
    <3>2. sink' => Mirrored'
      BY <1>2, <2>2 DEF Settles
    <3>3. StopIsSignalled'
      BY <2>2, <3>1 DEF Settles
    <3>4. ParentsCameFirst'
      BY <2>2, <3>1 DEF Settles
    <3>5. NoRunningOrphan'
      BY <2>2, <3>1 DEF Settles, Status, Active
    <3> QED  BY <3>2, <3>3, <3>4, <3>5
  <2>3. ASSUME NEW t \in Tasks, Stops(t), UNCHANGED <<parent, sink, aborted>>
        PROVE  StopIsSignalled' /\ ParentsCameFirst' /\ NoRunningOrphan'
               /\ (sink' => Mirrored')
    <3>1. sink' => Mirrored'
      BY <1>2, <2>3 DEF Stops
    <3>2. StopIsSignalled'
      BY <2>3 DEF Stops
    <3>3. ParentsCameFirst'
      BY <2>3 DEF Stops, Active
    <3>4. NoRunningOrphan'
      BY <2>3 DEF Stops, Status, Active
    <3> QED  BY <3>1, <3>2, <3>3, <3>4
  <2>4. ASSUME NEW t \in Tasks, NEW p \in Tasks \cup {NoTask}, Joins(t, p),
               UNCHANGED <<sink, aborted>>
        PROVE  StopIsSignalled' /\ ParentsCameFirst' /\ NoRunningOrphan'
               /\ (sink' => Mirrored')
    <3> USE <1>1 DEF TypeOK
    <3>1. sink' => Mirrored'
      BY <1>2, <2>4 DEF Joins
    <3>2. StopIsSignalled'
      BY <2>4 DEF Joins
    <3>3. ParentsCameFirst'
      BY <2>4 DEF Joins
    <3>4. NoRunningOrphan'
      BY <2>4 DEF Joins, StoppedParent, Status, Active, Inactive
    <3> QED  BY <3>1, <3>2, <3>3, <3>4
  <2> QED  BY <1>1, <2>1, <2>2, <2>3, <2>4, StepKinds
<1>4. SinkMirrorsRegistry'
  BY <1>3 DEF Mirrored, SinkMirrorsRegistry, Registered
<1> QED  BY <1>1, <1>3, <1>4 DEF TaskInv

(* So they always hold.                                                    *)
LEMMA TaskAlways == Spec => []TaskInv
  BY TaskInit, TaskStepKeeps, PTL DEF Spec

(* The registry keeps its types.                                           *)
THEOREM TypesKept == Spec => []TypeOK
  BY TaskAlways, PTL DEF TaskInv

(* A task that is Stopping has been told, or somebody owes it the signal.  *)
(* The mutex is released between the two, and whatever happens in between  *)
(* loses no signal (stop, register).                                       *)
THEOREM StopsAreSignalled == Spec => []StopIsSignalled
  BY TaskAlways, PTL DEF TaskInv

(* No child runs on under a parent that is stopping or was cancelled, even *)
(* if it registers late (stop, register's should_stop).                    *)
THEOREM StopReachesChildren == Spec => []NoRunningOrphan
  BY TaskAlways, PTL DEF TaskInv

(* A subscriber has the registry's own picture, whenever it subscribes     *)
(* (set_sink, emit, retain_finished, clear_results).                       *)
THEOREM SinkIsFaithful == Spec => []SinkMirrorsRegistry
  BY TaskAlways, PTL DEF TaskInv

-----------------------------------------------------------------------------
(* Pauses and the close.                                                   *)

RunningIn(S) == \A t \in Tasks : status[t] = "Running" => t \in S

(* No request has an epoch to come.                                        *)
EpochsExist == \A h \in Hosts : host[h].epoch <= pause_epoch

(* Once the close has begun its fence is up for good.                      *)
CloseIsFenced == closer.at # "open" => closing

(* While a sweep is under way it still has before it whoever runs.         *)
SweepsFind ==
    /\ \A h \in Hosts : host[h].at = "sweep" /\ PauseCurrent(h) =>
                            RunningIn(host[h].todo)
    /\ closer.at = "sweep" => RunningIn(closer.todo)

FenceInv ==
    /\ EpochsExist /\ CloseIsFenced /\ SweepsFind /\ SweepReachesAll
    /\ GrantedIsQuiet

(* The fences at the start ...                                             *)
LEMMA FenceInit == Init => FenceInv
  BY DEF Init, FenceInv, EpochsExist, CloseIsFenced, SweepsFind, SweepReachesAll,
         GrantedIsQuiet, PauseCurrent

(* Steps that start nobody and move no pause, request or close.            *)
Calm ==
    /\ \A t \in Tasks : status'[t] = "Running" => status[t] = "Running"
    /\ \A t \in Tasks : status'[t] \in Active => status[t] \in Active
    /\ operations' <= operations /\ operations' \in Nat
    /\ UNCHANGED <<closing, paused, pause_epoch, host, closer>>

(* ... hold through steps in which nothing becomes active ...              *)
LEMMA CalmKeeps == TypeOK /\ FenceInv /\ Calm => FenceInv'
<1> SUFFICES ASSUME TypeOK, FenceInv, Calm PROVE FenceInv'
  OBVIOUS
<1> USE DEF FenceInv, Calm, PauseCurrent
<1>1. EpochsExist' /\ CloseIsFenced'
  BY DEF EpochsExist, CloseIsFenced
<1>2. SweepsFind'
  BY DEF SweepsFind, RunningIn
<1>3. SweepReachesAll'
  BY DEF SweepReachesAll
<1>4. Quiet => Quiet'
  BY DEF Quiet, TypeOK
<1>5. GrantedIsQuiet'
  BY <1>4 DEF GrantedIsQuiet
<1> QED  BY <1>1, <1>2, <1>3, <1>5

(* What stop does to those who run is calm, but for the caller's own list. *)
LEMMA StopsCalm ==
    ASSUME NEW t \in Tasks, Stops(t)
    PROVE  /\ \A u \in Tasks : status'[u] = "Running" => status[u] = "Running" /\ u # t
           /\ \A u \in Tasks : status'[u] \in Active => status[u] \in Active
  BY DEF Stops

(* ... and through every other step.                                       *)
LEMMA FenceStep == TypeOK /\ FenceInv /\ [Next]_vars => FenceInv'
<1> SUFFICES ASSUME TypeOK, FenceInv, [Next]_vars PROVE FenceInv'
  OBVIOUS
<1> USE DEF FenceInv
<1>1. CASE UNCHANGED vars
  BY <1>1, CalmKeeps DEF vars, taskVars, fenceVars, Calm, TypeOK
<1>2. CASE BeginOperation
  <2>1. /\ UNCHANGED <<status, closing, paused, pause_epoch, host, closer>>
        /\ ~paused /\ ~closing
    BY <1>2 DEF BeginOperation, taskVars
  <2> QED
    BY <2>1 DEF EpochsExist, CloseIsFenced, SweepsFind, RunningIn, SweepReachesAll,
                GrantedIsQuiet, PauseCurrent
<1>3. CASE EndOperation
  BY <1>3, CalmKeeps DEF EndOperation, taskVars, Calm, TypeOK
<1>4. ASSUME NEW t \in Tasks, NEW p \in Tasks \cup {NoTask}, Register(t, p)
      PROVE  FenceInv'
  <2>1. UNCHANGED <<closing, paused, pause_epoch, operations, host, closer>>
    BY <1>4 DEF Register, fenceVars
  <2>2. Joins(t, p)
    BY <1>4, RegisterEffect
  <2>3. paused \/ closing => \A u \in Tasks : status'[u] = "Running" => status[u] = "Running"
    BY <2>2 DEF Joins, TypeOK
  <2>4. ~Quiet
    BY <2>2 DEF Joins, Quiet, TypeOK
  <2>5. EpochsExist' /\ CloseIsFenced'
    BY <2>1 DEF EpochsExist, CloseIsFenced
  <2>6. SweepsFind' /\ SweepReachesAll'
    BY <2>1, <2>3 DEF SweepsFind, RunningIn, SweepReachesAll, CloseIsFenced, PauseCurrent
  <2>7. GrantedIsQuiet'
    BY <2>1, <2>4 DEF GrantedIsQuiet, PauseCurrent
  <2> QED  BY <2>5, <2>6, <2>7
<1>5. CASE ClearResults \/ \E t \in Tasks, s \in Inactive : TaskEnds(t, s)
  <2>1. UNCHANGED <<closing, paused, pause_epoch, operations, host, closer>>
    BY <1>5 DEF ClearResults, TaskEnds, fenceVars
  <2>2. Settles
    BY <1>5, SettleEffect
  <2>3. \A s \in Inactive \cup {"Gone"} : s \notin Active
    BY DEF Inactive, Active
  <2>4. Calm
    BY <2>1, <2>2, <2>3 DEF Calm, Settles, Active, TypeOK
  <2> QED  BY <2>4, CalmKeeps
<1>6. ASSUME NEW t \in Tasks, FireAbort(t) \/ Inspect(t) PROVE FenceInv'
  BY <1>6, CalmKeeps DEF FireAbort, Inspect, taskVars, fenceVars, Calm, TypeOK
<1>7. ASSUME NEW t \in Tasks, StopTask(t) PROVE FenceInv'
  <2>1. Stops(t)
    BY <1>7, StopEffect DEF StopTask
  <2>2. UNCHANGED <<closing, paused, pause_epoch, operations, host, closer>>
    BY <1>7 DEF StopTask, fenceVars
  <2> QED  BY <2>1, <2>2, StopsCalm, CalmKeeps DEF Calm, TypeOK
<1>8. CASE SetSink
  BY <1>8, CalmKeeps DEF SetSink, fenceVars, Calm, TypeOK
<1>9. ASSUME NEW h \in Hosts, BeginPause(h) PROVE FenceInv'
  <2>1. /\ UNCHANGED <<status, closing, operations, closer>>
        /\ paused' = TRUE
        /\ pause_epoch' = IF paused THEN pause_epoch ELSE pause_epoch + 1
        /\ host' = [host EXCEPT ![h] = [at |-> "sweep", epoch |-> pause_epoch',
                                        todo |-> Registered]]
    BY <1>9 DEF BeginPause, taskVars
  <2>2. /\ host'[h].at = "sweep" /\ host'[h].epoch = pause_epoch'
        /\ host'[h].todo = Registered
        /\ \A g \in Hosts \ {h} : host'[g] = host[g]
    BY <2>1 DEF TypeOK
  <2>3. RunningIn(Registered)
    BY DEF RunningIn, Registered, Status, Active
  <2>4. /\ pause_epoch \in Nat /\ \A g \in Hosts : host[g].epoch \in Nat
        /\ pause_epoch' \in Nat /\ pause_epoch' >= pause_epoch
    BY <2>1, BoundsAssumption DEF TypeOK
  <2>5. EpochsExist'
    BY <2>2, <2>4 DEF EpochsExist
  <2>6. ASSUME NEW g \in Hosts \ {h}, PauseCurrent(g)'
        PROVE  PauseCurrent(g) /\ host'[g] = host[g]
    BY <2>1, <2>2, <2>4, <2>6 DEF PauseCurrent, EpochsExist
  <2>7. CloseIsFenced'
    BY <2>1 DEF CloseIsFenced
  <2>8. SweepsFind'
    BY <2>1, <2>2, <2>3, <2>6 DEF SweepsFind, RunningIn
  <2>9. SweepReachesAll'
    BY <2>1, <2>2, <2>6 DEF SweepReachesAll
  <2>10. GrantedIsQuiet'
    BY <2>1, <2>2, <2>6 DEF GrantedIsQuiet, Quiet
  <2> QED  BY <2>5, <2>7, <2>8, <2>9, <2>10
<1>10. ASSUME NEW h \in Hosts, NEW t \in Tasks, PauseStops(h, t) PROVE FenceInv'
  <2>1. Stops(t)
    BY <1>10, StopEffect DEF PauseStops
  <2>2. /\ UNCHANGED <<closing, paused, pause_epoch, operations, closer>>
        /\ host' = [host EXCEPT ![h].todo = @ \ {t}]
    BY <1>10 DEF PauseStops, fenceVars
  <2>3. \A g \in Hosts : /\ host'[g].at = host[g].at /\ host'[g].epoch = host[g].epoch
                         /\ host'[g].todo \in {host[g].todo, host[g].todo \ {t}}
    BY <2>2 DEF TypeOK
  <2>4. \A u \in Tasks : status'[u] = "Running" => status[u] = "Running" /\ u # t
    BY <2>1, StopsCalm
  <2>5. Quiet => Quiet'
    BY <2>1, <2>2, StopsCalm DEF Quiet
  <2>6. EpochsExist' /\ CloseIsFenced'
    BY <2>2, <2>3 DEF EpochsExist, CloseIsFenced
  <2>7. SweepsFind'
    BY <2>2, <2>3, <2>4 DEF SweepsFind, RunningIn, PauseCurrent
  <2>8. SweepReachesAll'
    BY <2>2, <2>3, <2>4 DEF SweepReachesAll, PauseCurrent
  <2>9. GrantedIsQuiet'
    BY <2>2, <2>3, <2>5 DEF GrantedIsQuiet, PauseCurrent
  <2> QED  BY <2>6, <2>7, <2>8, <2>9
<1>11. ASSUME NEW h \in Hosts, PauseSwept(h) \/ WaitPaused(h) \/ ResumeOperations(h)
       PROVE  FenceInv'
  <2>1. /\ UNCHANGED <<status, closing, pause_epoch, operations, closer>>
        /\ paused' => paused
    <3>1. ASSUME ResumeOperations(h) PROVE paused' => paused
      BY <3>1, Zenon DEF ResumeOperations
    <3>2. ASSUME ResumeOperations(h)
          PROVE  UNCHANGED <<status, closing, pause_epoch, operations, closer>>
      BY <3>2, Zenon DEF ResumeOperations, taskVars
    <3>3. ASSUME PauseSwept(h) \/ WaitPaused(h)
          PROVE  /\ UNCHANGED <<status, closing, pause_epoch, operations, closer>>
                 /\ paused' = paused
      BY <3>3, Zenon DEF PauseSwept, WaitPaused, taskVars, fenceVars
    <3> QED  BY <1>11, <3>1, <3>2, <3>3
  <2>2. /\ \A g \in Hosts \ {h} : host'[g] = host[g]
        /\ host'[h].epoch = host[h].epoch /\ host'[h].todo = host[h].todo
    BY <1>11 DEF PauseSwept, WaitPaused, ResumeOperations, TypeOK
  <2>3. \/ host'[h].at = "idle"
        \/ host[h].at = "sweep" /\ host[h].todo = {} /\ host'[h].at = "wait"
        \/ host[h].at = "wait" /\ host'[h].at = "owns" /\ Quiet
    BY <1>11 DEF PauseSwept, WaitPaused, ResumeOperations, TypeOK
  <2>4. \A g \in Hosts : PauseCurrent(g)' => PauseCurrent(g)
    BY <2>1, <2>2 DEF PauseCurrent
  <2>5. EpochsExist' /\ CloseIsFenced'
    BY <2>1, <2>2 DEF EpochsExist, CloseIsFenced
  <2>6. SweepsFind'
    BY <2>1, <2>2, <2>3, <2>4 DEF SweepsFind, RunningIn
  <2>7. SweepReachesAll'
    BY <2>1, <2>2, <2>3, <2>4 DEF SweepReachesAll, SweepsFind, RunningIn
  <2>8. GrantedIsQuiet'
    BY <2>1, <2>2, <2>3, <2>4 DEF GrantedIsQuiet, Quiet
  <2> QED  BY <2>5, <2>6, <2>7, <2>8
<1>12. CASE BeginShutdown
  <2>1. /\ UNCHANGED <<status, paused, pause_epoch, operations, host>>
        /\ closing' = TRUE /\ closer'.at = "sweep" /\ closer'.todo = Registered
    BY <1>12 DEF BeginShutdown, taskVars
  <2>2. RunningIn(Registered)
    BY DEF RunningIn, Registered, Status, Active
  <2> QED
    BY <2>1, <2>2 DEF EpochsExist, CloseIsFenced, SweepsFind, RunningIn,
                      SweepReachesAll, GrantedIsQuiet, PauseCurrent, Quiet
<1>13. CASE ShutdownDrains
  <2>1. /\ UNCHANGED <<status, closing, paused, pause_epoch, operations, host>>
        /\ closer'.at \in {"drain", "closed"} /\ closer.at # "open"
        /\ closer.at = "sweep" => closer.todo = {}
        /\ closer.at \in {"sweep", "drain"}
    BY <1>13 DEF ShutdownDrains, taskVars, fenceVars, TypeOK
  <2> QED
    BY <2>1 DEF EpochsExist, CloseIsFenced, SweepsFind, RunningIn,
                SweepReachesAll, GrantedIsQuiet, PauseCurrent, Quiet
<1>14. ASSUME NEW t \in Tasks, ShutdownStops(t) PROVE FenceInv'
  <2>1. Stops(t)
    BY <1>14, StopEffect DEF ShutdownStops
  <2>2. /\ UNCHANGED <<closing, paused, pause_epoch, operations, host>>
        /\ closer'.at = "sweep" /\ closer.at = "sweep"
        /\ closer'.todo = closer.todo \ {t}
    BY <1>14 DEF ShutdownStops, fenceVars, TypeOK
  <2>3. \A u \in Tasks : status'[u] = "Running" => status[u] = "Running" /\ u # t
    BY <2>1, StopsCalm
  <2>4. Quiet => Quiet'
    BY <2>1, <2>2, StopsCalm DEF Quiet
  <2> QED
    BY <2>2, <2>3, <2>4 DEF EpochsExist, CloseIsFenced, SweepsFind, RunningIn,
                            SweepReachesAll, GrantedIsQuiet, PauseCurrent
<1> QED
  BY <1>1, <1>2, <1>3, <1>4, <1>5, <1>6, <1>7, <1>8, <1>9, <1>10, <1>11, <1>12,
     <1>13, <1>14 DEF Next, TaskStep, PauseStep, CloseStep

(* So they always hold.                                                    *)
LEMMA FenceAlways == Spec => []FenceInv
  BY FenceInit, FenceStep, TypesKept, PTL DEF Spec

(* Once a pause has been granted, and until its epoch is resumed, nothing  *)
(* is under way: no worker begins an operation and no operation is left to *)
(* register a task (begin_operation, register, wait_paused and             *)
(* resume_operations).                                                     *)
THEOREM GrantMeansQuiet == Spec => []GrantedIsQuiet
  BY FenceAlways, PTL DEF FenceInv

(* When the sweep of a current pause or of the close is over nobody runs:  *)
(* who was there was stopped and who came since was born stopping, though  *)
(* the sweep works from a list it took before (begin_pause,                *)
(* begin_shutdown and register).                                           *)
THEOREM SweepMissesNone == Spec => []SweepReachesAll
  BY FenceAlways, PTL DEF FenceInv
=============================================================================
