------------------------ MODULE Interruption_proofs ------------------------
(***************************************************************************)
(* Proofs about Interruption, for any calls, agents and blocking tools and *)
(* any bounds.                                                             *)
(***************************************************************************)
EXTENDS Interruption, Orders_proofs, TLAPS

-----------------------------------------------------------------------------
(* The abort signal.                                                       *)

ViewType == [generation : Nat, stage : {"off", "live", "reading"}, was : BOOLEAN]
SignalType ==
    /\ aborted \in BOOLEAN /\ generation \in Nat
    /\ view \in [Tools -> ViewType]

Live(v) == view[v].stage # "off"
Overtaken(v) == view[v].generation < generation

(* No view is of a generation to come.                                     *)
NotAhead == \A v \in Tools : Live(v) => view[v].generation <= generation

(* Between the two stores of a reset no view is of the new generation.     *)
Resetting == stage = "resetting" \/ worker = "recovering"
ResetEndsViews == Resetting => \A v \in Tools : Live(v) => Overtaken(v)

(* A reading of an aborted view that is under way will find it so.         *)
ReadingFinds == \A v \in Tools :
    view[v].stage = "reading" /\ view[v].was => Overtaken(v)

SignalInv == SignalType /\ NotAhead /\ ResetEndsViews /\ ReadingFinds

(* What the steps do that neither reset the signal nor touch a view.       *)
LeavesViews ==
    /\ view' = view /\ generation' = generation
    /\ aborted' \in BOOLEAN /\ (aborted => aborted')
    /\ Resetting' => Resetting

(* Neither the tables' steps nor the host's reach the signal; the loop and *)
(* the worker raise the flag but do not lower it.                          *)
LEMMA OthersLeaveViews ==
    ASSUME SignalInv, [Next]_vars,
           ~(StartRun \/ RunStarted \/ Recover \/ Continue),
           ~\E v \in Tools : StartTool(v) \/ ReadFlag(v) \/ ReadGeneration(v)
    PROVE  LeavesViews
<1> USE DEF SignalInv, SignalType, LeavesViews, Resetting
<1>1. CASE UNCHANGED vars
  BY <1>1 DEF vars, signalVars, loopVars, workerVars
<1>2. CASE RunEnds \/ HandleInterrupt \/ CancelTable \/ HandleIdle
  BY <1>2 DEF RunEnds, HandleInterrupt, CancelTable, HandleIdle, Receptive,
              signalVars, workerVars
<1>3. CASE HandleAnswer
  BY <1>3 DEF HandleAnswer, TakeAnswer, Receptive, signalVars, workerVars
<1>4. CASE HostAnswers \/ HostCancels \/ HostCloses
  BY <1>4 DEF HostAnswers, HostCancels, HostCloses, Send, signalVars, workerVars
<1>5. CASE AskHost \/ HostAnswered \/ StartExecution \/ ResponseBreaks \/ WorkerEnds
  BY <1>5 DEF AskHost, HostAnswered, StartExecution, ResponseBreaks, WorkerEnds,
              signalVars, workerVars, loopVars
<1>6. ASSUME NEW w \in Waiters, NEW kind \in InputReason, CallAsks(w, kind)
      PROVE  LeavesViews
  BY <1>6 DEF CallAsks, Enqueue, signalVars, workerVars, loopVars
<1>7. ASSUME NEW w \in Waiters, SpawnAgent(w) \/ AgentAsks(w)
      PROVE  LeavesViews
  BY <1>7 DEF SpawnAgent, AgentAsks, Enqueue, signalVars, workerVars, loopVars
<1>8. ASSUME NEW w \in Waiters, Begin(w) \/ Resolve(w) \/ Abandon(w)
      PROVE  LeavesViews
  BY <1>8 DEF Begin, Resolve, Abandon, signalVars, workerVars
<1> QED  BY <1>1, <1>2, <1>3, <1>4, <1>5, <1>6, <1>7, <1>8 DEF Next

(* A tool that is not running has a typed view.                            *)
LEMMA NoViewType == NoView \in ViewType
  BY DEF NoView, ViewType

(* Each step leaves the signal and its views typed.                        *)
LEMMA SignalTyped == SignalInv /\ [Next]_vars => SignalType'
<1> SUFFICES ASSUME SignalInv, [Next]_vars PROVE SignalType'
  OBVIOUS
<1> USE DEF SignalInv, SignalType
<1>1. CASE StartRun \/ Recover
  BY <1>1 DEF StartRun, Recover, reset, RaiseGeneration
<1>2. CASE RunStarted \/ Continue
  <2>1. LowerFlag /\ view' = view
    BY <1>2 DEF RunStarted, Continue, reset
  <2>2. aborted' \in BOOLEAN
    BY <2>1, Zenon DEF LowerFlag
  <2> QED  BY <2>1, <2>2 DEF LowerFlag
<1>3. ASSUME NEW v \in Tools, StartTool(v) PROVE SignalType'
  <2>1. [NoView EXCEPT !.stage = "live", !.generation = generation] \in ViewType
    BY DEF NoView, ViewType
  <2> QED  BY <1>3, <2>1 DEF StartTool, signalVars
<1>4. ASSUME NEW v \in Tools, ReadFlag(v) PROVE SignalType'
  <2>1. IsAborted(v) \in BOOLEAN
    BY DEF IsAborted
  <2>2. [view[v] EXCEPT !.stage = "reading", !.was = IsAborted(v)] \in ViewType
    BY <2>1 DEF ViewType
  <2> QED  BY <1>4, <2>2, NoViewType DEF ReadFlag, signalVars
<1>5. ASSUME NEW v \in Tools, ReadGeneration(v) PROVE SignalType'
  <2>1. [view[v] EXCEPT !.stage = "live", !.was = FALSE] \in ViewType
    BY DEF ViewType
  <2> QED  BY <1>5, <2>1, NoViewType DEF ReadGeneration, signalVars
<1>6. CASE LeavesViews
  BY <1>6 DEF LeavesViews
<1> QED  BY <1>1, <1>2, <1>3, <1>4, <1>5, <1>6, OthersLeaveViews

(* The invariant of the signal is inductive.                               *)
LEMMA SignalStep == SignalInv /\ [Next]_vars => SignalInv'
<1> SUFFICES ASSUME SignalInv, [Next]_vars
             PROVE  (NotAhead /\ ResetEndsViews /\ ReadingFinds)'
  BY SignalTyped DEF SignalInv
<1> USE DEF SignalInv, SignalType, ViewType, NotAhead, ResetEndsViews, ReadingFinds,
            Resetting, Live, Overtaken
<1>1. CASE StartRun \/ Recover
  BY <1>1 DEF StartRun, Recover, reset, RaiseGeneration
<1>2. CASE RunStarted
  BY <1>2 DEF RunStarted, reset, LowerFlag
<1>3. CASE Continue
  BY <1>3 DEF Continue, reset, LowerFlag, loopVars
<1>4. ASSUME NEW v \in Tools, StartTool(v)
      PROVE  (NotAhead /\ ResetEndsViews /\ ReadingFinds)'
  BY <1>4 DEF StartTool, Executing, NoView, signalVars, workerVars, loopVars
<1>5. ASSUME NEW v \in Tools, ReadFlag(v)
      PROVE  (NotAhead /\ ResetEndsViews /\ ReadingFinds)'
  BY <1>5 DEF ReadFlag, IsAborted, NoView, signalVars, workerVars, loopVars
<1>6. ASSUME NEW v \in Tools, ReadGeneration(v)
      PROVE  (NotAhead /\ ResetEndsViews /\ ReadingFinds)'
  BY <1>6 DEF ReadGeneration, NoView, signalVars, workerVars, loopVars
<1>7. CASE LeavesViews
  BY <1>7 DEF LeavesViews
<1> QED  BY <1>1, <1>2, <1>3, <1>4, <1>5, <1>6, <1>7, OthersLeaveViews

(* It holds throughout.                                                    *)
LEMMA SignalAlways == Spec => []SignalInv
<1>1. Init => SignalType
  <2>1. Init => aborted \in BOOLEAN
    BY Zenon DEF Init
  <2>2. Init => generation \in Nat /\ view \in [Tools -> ViewType]
    BY NoViewType DEF Init
  <2> QED  BY <2>1, <2>2 DEF SignalType
<1>2. Init => NotAhead /\ ResetEndsViews /\ ReadingFinds
  BY DEF Init, NoView, NotAhead, ResetEndsViews, ReadingFinds, Resetting,
         Live, Overtaken
<1> QED  BY <1>1, <1>2, SignalStep, PTL DEF Spec, SignalInv

(* No step revives a blocking tool whose call was aborted.                 *)
NotRevived(v) ==
    Live(v) /\ Live(v)' =>
        /\ IsAborted(v) => IsAborted(v)'
        /\ view[v].stage = "reading" /\ view'[v].stage = "live" => ~view[v].was

(* Under the invariant each step keeps an aborted view aborted.            *)
LEMMA StepRevivesNone ==
    ASSUME SignalInv, [Next]_vars, NEW v \in Tools
    PROVE  NotRevived(v)
<1> USE DEF NotRevived, SignalInv, SignalType, ViewType, NotAhead, ResetEndsViews,
            ReadingFinds, Resetting, Live, Overtaken, IsAborted
<1>1. CASE StartRun \/ Recover
  BY <1>1 DEF StartRun, Recover, reset, RaiseGeneration
<1>2. CASE RunStarted \/ Continue
  BY <1>2 DEF RunStarted, Continue, reset, LowerFlag
<1>3. ASSUME NEW u \in Tools, StartTool(u) PROVE NotRevived(v)
  BY <1>3 DEF StartTool, signalVars
<1>4. ASSUME NEW u \in Tools, ReadFlag(u) PROVE NotRevived(v)
  BY <1>4 DEF ReadFlag, NoView, signalVars
<1>5. ASSUME NEW u \in Tools, ReadGeneration(u) PROVE NotRevived(v)
  BY <1>5 DEF ReadGeneration, NoView, signalVars
<1>6. CASE LeavesViews
  BY <1>6 DEF LeavesViews
<1> QED  BY <1>1, <1>2, <1>3, <1>4, <1>5, <1>6, OthersLeaveViews

(* A tool on a blocking thread never comes back to life: once its call is  *)
(* aborted, no reset of the shared signal makes it read otherwise, however *)
(* the stores of reset and the loads of is_aborted interleave (hooks.rs).  *)
THEOREM AbortedStaysAborted == Spec => NoReviving
<1>1. SignalInv /\ [Next]_vars => [\A v \in Tools :
          view[v].stage # "off" /\ view'[v].stage # "off" =>
            /\ IsAborted(v) => IsAborted(v)'
            /\ view[v].stage = "reading" /\ view'[v].stage = "live" =>
                 ~view[v].was]_vars
  BY StepRevivesNone DEF NotRevived, Live
<1> QED  BY <1>1, SignalAlways, PTL DEF Spec, NoReviving

-----------------------------------------------------------------------------
(* The requests and their answers.                                         *)

WaiterType == [home : Nat, kind : Kinds, stage : {"off", "queued", "waiting"},
               id : Nat, req : Nat, answer : Nat]
EntryType == [table : Nat, id : Nat, by : Waiters, kind : Kinds, open : BOOLEAN]
CommandType == [type : {"cancel", "close"}]
               \cup [type : {"answer"}, id : Nat, req : Nat]

TableType ==
    /\ run \in Nat /\ next_id \in Nat /\ asked \in Nat
    /\ waiter \in [Waiters -> WaiterType]
    /\ pending \subseteq EntryType
    /\ shown \subseteq [id : Nat, req : Nat]
    /\ commands \in Seq(CommandType)

(* Whoever asks does so in a run.                                          *)
InRun == stage \in {"resetting", "running", "cancelling"} \/ worker # "off" => run # 0
AskedInRun ==
    /\ InRun
    /\ \A w \in Waiters :
          IF waiter[w].home = 0 THEN waiter[w].stage = "off" ELSE run # 0

(* An id names one request, in every event that showed it and to its waiter. *)
IdsNameRequests ==
    /\ \A s \in shown : s.id < next_id
    /\ \A s, t \in shown : s.id = t.id => s.req = t.req
    /\ \A w \in Waiters : waiter[w].stage = "waiting" =>
          /\ waiter[w].id < next_id
          /\ \A s \in shown : s.id = waiter[w].id => s.req = waiter[w].req

(* An entry's waiter waits for it.                                         *)
EntriesAreAwaited == \A e \in pending :
    /\ waiter[e.by].stage = "waiting"
    /\ waiter[e.by].id = e.id /\ waiter[e.by].home = e.table

(* The host answers what it was shown.                                     *)
AnswersAreShown == \A i \in 1..Len(commands) :
    commands[i].type = "answer" =>
        \E s \in shown : s.id = commands[i].id /\ s.req = commands[i].req

TableInv ==
    /\ TableType /\ AskedInRun /\ IdsNameRequests /\ EntriesAreAwaited
    /\ AnswersAreShown /\ AnswersReachTheirRequest

(* Whoever asks for nothing is typed, and at rest.                         *)
LEMMA NoRequestType ==
    /\ NoRequest \in WaiterType /\ NoRequest.stage = "off"
    /\ NoRequest.home = 0 /\ NoRequest.answer = 0
<1>1. "host" \in Kinds
  BY DEF Kinds
<1> QED  BY <1>1 DEF NoRequest, WaiterType

(* So is the request for the host's context.                               *)
LEMMA HostRequestType ==
    ASSUME NEW n \in Nat, NEW q \in Nat
    PROVE  LET r == [NoRequest EXCEPT !.home = n, !.req = q]
           IN  r \in WaiterType /\ r.home = n /\ r.answer = 0
<1>1. "host" \in Kinds
  BY DEF Kinds
<1> QED  BY <1>1 DEF NoRequest, WaiterType

(* And so is a prompt.                                                     *)
LEMMA PromptType ==
    ASSUME NEW n \in Nat, NEW q \in Nat, NEW kind \in InputReason
    PROVE  LET x == [NoRequest EXCEPT !.home = n, !.kind = kind,
                                      !.stage = "queued", !.req = q]
           IN  /\ x \in WaiterType /\ x.stage = "queued" /\ x.home = n
               /\ x.answer = 0
<1>1. kind \in Kinds
  BY DEF Kinds
<1> QED  BY <1>1 DEF NoRequest, WaiterType

(* A command is taken from the channel.                                    *)
LEMMA TakingKeepsAnswers ==
    ASSUME commands \in Seq(CommandType), AnswersAreShown, shown' = shown,
           commands # << >>, commands' = Tail(commands)
    PROVE  AnswersAreShown'
<1>1. /\ Len(commands) \in Nat \ {0} /\ Len(commands') = Len(commands) - 1
      /\ \A i \in 1..Len(commands') : commands'[i] = commands[i + 1]
  OBVIOUS
<1>2. SUFFICES ASSUME NEW i \in 1..Len(commands'), commands'[i].type = "answer"
               PROVE  \E s \in shown : /\ s.id = commands'[i].id
                                       /\ s.req = commands'[i].req
  BY DEF AnswersAreShown
<1>3. commands'[i] = commands[i + 1] /\ i + 1 \in 1..Len(commands)
  BY <1>1
<1>4. commands[i + 1].type = "answer"
  BY <1>2, <1>3
<1>5. PICK s \in shown : s.id = commands[i + 1].id /\ s.req = commands[i + 1].req
  BY <1>3, <1>4, Zenon DEF AnswersAreShown
<1> QED  BY <1>3, <1>5

(* A step that leaves the tables alone, or clears one, and at most takes a *)
(* command from the channel.                                               *)
Passive ==
    /\ run' \in Nat /\ InRun' /\ (run # 0 => run' # 0)
    /\ next_id' = next_id /\ asked' = asked /\ waiter' = waiter /\ shown' = shown
    /\ pending' \subseteq pending
    /\ commands' = commands \/ (commands # << >> /\ commands' = Tail(commands))

(* Such a step keeps the invariant.                                        *)
LEMMA PassiveKeeps == TableInv /\ Passive => TableInv'
<1> SUFFICES ASSUME TableInv, Passive PROVE TableInv'
  OBVIOUS
<1> USE DEF TableInv, Passive
<1>1. TableType'
  <2>1. commands' \in Seq(CommandType)
    <3>1. CASE commands # << >> /\ commands' = Tail(commands)
      BY <3>1 DEF TableType
    <3> QED  BY <3>1 DEF TableType
  <2> QED  BY <2>1 DEF TableType
<1>2. AskedInRun' /\ IdsNameRequests' /\ AnswersReachTheirRequest'
  BY DEF AskedInRun, InRun, IdsNameRequests, AnswersReachTheirRequest
<1>3. EntriesAreAwaited'
  BY DEF EntriesAreAwaited, TableType
<1>4. AnswersAreShown'
  <2>1. CASE commands' = commands
    BY <2>1 DEF AnswersAreShown
  <2>2. CASE commands # << >> /\ commands' = Tail(commands)
    BY <2>2, TakingKeepsAnswers DEF TableType
  <2> QED  BY <2>1, <2>2
<1> QED  BY <1>1, <1>2, <1>3, <1>4

(* A request is published, or refused by a cancelled table.                *)
LEMMA AskingKeeps ==
    ASSUME TableInv, NEW w \in Waiters, NEW r \in WaiterType,
           waiter[w].stage # "waiting",
           run # 0, r.home # 0, r.answer # 0 => r.answer = r.req,
           begin_request(w, r),
           asked' \in Nat, UNCHANGED <<stage, run, commands, worker>>
    PROVE  TableInv'
<1> USE DEF TableInv
<1>1. /\ next_id' = next_id + 1
      /\ waiter' = [waiter EXCEPT ![w] = [r EXCEPT !.stage = "waiting", !.id = next_id]]
  BY DEF begin_request, Waiting
<1> DEFINE x == [r EXCEPT !.stage = "waiting", !.id = next_id]
<1>2. /\ x \in WaiterType /\ x.stage = "waiting" /\ x.id = next_id
      /\ x.home = r.home /\ x.req = r.req /\ x.answer = r.answer
  BY DEF TableType, WaiterType
<1>3. /\ waiter' \in [Waiters -> WaiterType] /\ waiter'[w] = x
      /\ \A u \in Waiters \ {w} : waiter'[u] = waiter[u]
  BY <1>1, <1>2 DEF TableType
<1> HIDE DEF x
<1> DEFINE new == [table |-> r.home, id |-> next_id, by |-> w, kind |-> r.kind,
                   open |-> TRUE]
           event == [id |-> next_id, req |-> r.req]
<1>4. \/ pending' = pending /\ shown' = shown
      \/ pending' = pending \cup {new} /\ shown' = shown \cup {event}
  BY DEF begin_request, Admit
<1>5. new \in EntryType /\ event \in [id : Nat, req : Nat]
  BY DEF TableType, WaiterType, EntryType
<1>6. /\ new.table = r.home /\ new.id = next_id /\ new.by = w
      /\ event.id = next_id /\ event.req = r.req
  OBVIOUS
<1> HIDE DEF new, event
<1>7. TableType'
  BY <1>1, <1>3, <1>4, <1>5 DEF TableType
<1>8. AskedInRun' /\ AnswersReachTheirRequest'
  BY <1>2, <1>3 DEF AskedInRun, InRun, AnswersReachTheirRequest
<1>9. /\ \A s \in shown : s.id < next_id /\ s \in [id : Nat, req : Nat]
      /\ next_id \in Nat
      /\ \A u \in Waiters : waiter[u].id \in Nat
  BY DEF IdsNameRequests, TableType, WaiterType
<1>10. IdsNameRequests'
  BY <1>1, <1>2, <1>3, <1>4, <1>6, <1>9 DEF IdsNameRequests
<1>11. \A e \in pending : e.by \in Waiters \ {w}
  BY DEF EntriesAreAwaited, TableType, EntryType
<1>12. EntriesAreAwaited'
  BY <1>2, <1>3, <1>4, <1>6, <1>11 DEF EntriesAreAwaited
<1>13. AnswersAreShown'
  BY <1>4 DEF AnswersAreShown
<1> QED  BY <1>7, <1>8, <1>10, <1>12, <1>13

(* A waiter goes, and its lease is dropped.                                *)
LEMMA GoingKeeps ==
    ASSUME TableInv, NEW w \in Waiters, NEW x \in WaiterType,
           x.stage = "off", x.answer = 0, x.home # 0 => run # 0,
           DropLease(w), waiter' = [waiter EXCEPT ![w] = x], InRun',
           UNCHANGED <<run, next_id, asked, shown, commands>>
    PROVE  TableInv'
<1> USE DEF TableInv
<1>1. /\ waiter' \in [Waiters -> WaiterType] /\ waiter'[w] = x
      /\ \A u \in Waiters \ {w} : waiter'[u] = waiter[u]
  BY DEF TableType
<1>2. pending' = pending \ Owned(w)
  BY DEF DropLease
<1>3. TableType'
  BY <1>1, <1>2 DEF TableType
<1>4. AskedInRun' /\ AnswersReachTheirRequest'
  BY <1>1 DEF AskedInRun, InRun, AnswersReachTheirRequest
<1>5. IdsNameRequests'
  BY <1>1 DEF IdsNameRequests
<1>6. \A e \in pending' : e \in pending /\ e.by \in Waiters \ {w}
  BY <1>2 DEF EntriesAreAwaited, Owned, TableType, EntryType
<1>7. EntriesAreAwaited'
  BY <1>1, <1>6 DEF EntriesAreAwaited
<1>8. AnswersAreShown'
  BY DEF AnswersAreShown
<1> QED  BY <1>3, <1>4, <1>5, <1>7, <1>8

(* A waiter that has no request out changes.                               *)
LEMMA RestingKeeps ==
    ASSUME TableInv, NEW w \in Waiters, NEW x \in WaiterType,
           waiter[w].stage = "off", x.stage # "waiting", run # 0, x.home # 0,
           x.answer # 0 => x.answer = x.req,
           waiter' = [waiter EXCEPT ![w] = x], asked' \in Nat,
           UNCHANGED <<stage, worker, run, next_id, pending, shown, commands>>
    PROVE  TableInv'
<1> USE DEF TableInv
<1>1. /\ waiter' \in [Waiters -> WaiterType] /\ waiter'[w] = x
      /\ \A u \in Waiters \ {w} : waiter'[u] = waiter[u]
  BY DEF TableType
<1>2. TableType'
  BY <1>1 DEF TableType
<1>3. AskedInRun' /\ AnswersReachTheirRequest'
  BY <1>1 DEF AskedInRun, InRun, AnswersReachTheirRequest
<1>4. IdsNameRequests'
  BY <1>1 DEF IdsNameRequests
<1>5. \A e \in pending : e.by \in Waiters \ {w}
  BY DEF EntriesAreAwaited, TableType, EntryType
<1>6. EntriesAreAwaited' /\ AnswersAreShown'
  BY <1>1, <1>5 DEF EntriesAreAwaited, AnswersAreShown
<1> QED  BY <1>2, <1>3, <1>4, <1>6

(* The host sends a cancel, a close or an answer to what it was shown.     *)
LEMMA SendingKeeps ==
    ASSUME TableInv, NEW c \in CommandType,
           c.type = "answer" => \E s \in shown : s.id = c.id /\ s.req = c.req,
           Send(c)
    PROVE  TableInv'
<1> USE DEF TableInv
<1>1. /\ commands' = Append(commands, c)
      /\ UNCHANGED <<stage, worker, run, next_id, asked, waiter, pending, shown>>
  BY DEF Send, tableVars, workerVars
<1>2. /\ commands' \in Seq(CommandType)
      /\ Len(commands') = Len(commands) + 1
      /\ commands'[Len(commands) + 1] = c
      /\ \A i \in 1..Len(commands) : commands'[i] = commands[i]
  BY <1>1 DEF TableType
<1>3. Len(commands) \in Nat
  BY DEF TableType
<1>4. TableType'
  BY <1>1, <1>2 DEF TableType
<1>5. AskedInRun' /\ AnswersReachTheirRequest' /\ IdsNameRequests' /\ EntriesAreAwaited'
  BY <1>1 DEF AskedInRun, InRun, AnswersReachTheirRequest, IdsNameRequests, EntriesAreAwaited
<1>6. ASSUME NEW i \in 1..Len(commands'), commands'[i].type = "answer"
      PROVE  \E s \in shown' : s.id = commands'[i].id /\ s.req = commands'[i].req
  <2>1. CASE i = Len(commands) + 1
    BY <1>1, <1>2, <1>6, <2>1
  <2>2. CASE i \in 1..Len(commands)
    BY <1>1, <1>2, <1>6, <2>2 DEF AnswersAreShown
  <2> QED  BY <2>1, <2>2, <1>2, <1>3
<1> QED  BY <1>4, <1>5, <1>6 DEF AnswersAreShown

(* An answer is routed to the waiter whose id it carries.                  *)
LEMMA AnsweringKeeps ==
    ASSUME TableInv, HandleAnswer, stage = "running" PROVE TableInv'
<1> USE DEF TableInv
<1> DEFINE c == commands[1]
           hit == {e \in pending : e.table = run /\ e.id = c.id /\ e.open}
<1>1. /\ commands # << >> /\ Head(commands) = c /\ c.type = "answer"
      /\ commands' = Tail(commands)
      /\ TakeAnswer(Head(commands))
  BY DEF HandleAnswer, Receptive, TableType
<1>2. PICK s \in shown : s.id = c.id /\ s.req = c.req
  BY <1>1 DEF AnswersAreShown, TableType
<1>3. c.req \in Nat
  BY <1>2 DEF TableType
<1>4. /\ pending' = (pending \ hit) \cup {[e EXCEPT !.open = FALSE] : e \in hit}
      /\ waiter' = [w \in Waiters |-> IF \E e \in hit : e.by = w
                                     THEN [waiter[w] EXCEPT !.answer = c.req]
                                     ELSE waiter[w]]
      /\ UNCHANGED <<stage, worker, run, next_id, asked, shown>>
  BY <1>1 DEF TakeAnswer, workerVars
<1>5. \A e \in pending : e \in EntryType
  BY DEF TableType
<1> HIDE DEF c
<1>6. \A e \in pending' : \E f \in pending :
          e \in EntryType /\ e.by = f.by /\ e.id = f.id /\ e.table = f.table
  <2>1. ASSUME NEW e \in hit
        PROVE  LET g == [e EXCEPT !.open = FALSE]
               IN g \in EntryType /\ g.by = e.by /\ g.id = e.id /\ g.table = e.table
    BY <1>5 DEF EntryType
  <2>2. ASSUME NEW e \in pending'
        PROVE  e \in pending \/ \E f \in hit : e = [f EXCEPT !.open = FALSE]
    BY <1>4
  <2>3. hit \subseteq pending
    OBVIOUS
  <2> HIDE DEF hit
  <2>4. ASSUME NEW e \in pending'
        PROVE  \E f \in pending :
                 e \in EntryType /\ e.by = f.by /\ e.id = f.id /\ e.table = f.table
    <3>1. CASE e \in pending
      BY <1>5, <3>1
    <3>2. CASE \E f \in hit : e = [f EXCEPT !.open = FALSE]
      <4>1. PICK f \in hit : e = [f EXCEPT !.open = FALSE]
        BY <3>2
      <4> QED  BY <2>1, <2>3, <4>1
    <3> QED  BY <2>2, <3>1, <3>2
  <2> QED  BY <2>4
<1>7. \A w \in Waiters :
          /\ waiter'[w] \in WaiterType
          /\ waiter'[w].stage = waiter[w].stage /\ waiter'[w].id = waiter[w].id
          /\ waiter'[w].home = waiter[w].home /\ waiter'[w].req = waiter[w].req
          /\ \/ waiter'[w].answer = waiter[w].answer
             \/ waiter'[w].answer = c.req /\ \E e \in hit : e.by = w
  <2> SUFFICES ASSUME NEW w \in Waiters
               PROVE  /\ waiter'[w] \in WaiterType
                      /\ waiter'[w].stage = waiter[w].stage
                      /\ waiter'[w].id = waiter[w].id
                      /\ waiter'[w].home = waiter[w].home
                      /\ waiter'[w].req = waiter[w].req
                      /\ \/ waiter'[w].answer = waiter[w].answer
                         \/ waiter'[w].answer = c.req /\ \E e \in hit : e.by = w
    OBVIOUS
  <2> HIDE DEF hit
  <2>1. waiter[w] \in WaiterType
    BY DEF TableType
  <2>2. CASE \E e \in hit : e.by = w
    <3>1. waiter'[w] = [waiter[w] EXCEPT !.answer = c.req]
      BY <1>4, <2>2
    <3> QED  BY <1>3, <2>1, <2>2, <3>1 DEF WaiterType
  <2>3. CASE ~\E e \in hit : e.by = w
    <3>1. waiter'[w] = waiter[w]
      BY <1>4, <2>3
    <3> QED  BY <2>1, <3>1
  <2> QED  BY <2>2, <2>3
<1>8. TableType'
  <2>1. pending' \subseteq EntryType
    BY <1>6
  <2>2. waiter' \in [Waiters -> WaiterType]
    BY <1>4, <1>7
  <2>3. commands' \in Seq(CommandType)
    BY <1>1 DEF TableType
  <2> QED  BY <1>4, <2>1, <2>2, <2>3 DEF TableType
<1>9. AskedInRun' /\ IdsNameRequests'
  BY <1>4, <1>7 DEF AskedInRun, InRun, IdsNameRequests
<1>10. EntriesAreAwaited'
  BY <1>5, <1>6, <1>7 DEF EntriesAreAwaited, EntryType
<1>11. AnswersAreShown'
  BY <1>1, <1>4, TakingKeepsAnswers DEF TableType
<1>12. ASSUME NEW w \in Waiters, NEW e \in hit, e.by = w PROVE waiter[w].req = c.req
  BY <1>2, <1>12 DEF EntriesAreAwaited, IdsNameRequests
<1>13. AnswersReachTheirRequest'
  BY <1>7, <1>12 DEF AnswersReachTheirRequest
<1> QED  BY <1>8, <1>9, <1>10, <1>11, <1>13

(* The invariant of the tables is inductive.                               *)
LEMMA TableStep == TableInv /\ [Next]_vars => TableInv'
<1> SUFFICES ASSUME TableInv, [Next]_vars PROVE TableInv'
  OBVIOUS
<1>1. InRun /\ run \in Nat
  BY DEF TableInv, TableType, AskedInRun, InRun
<1>2. CASE UNCHANGED vars
  BY <1>1, <1>2, PassiveKeeps DEF Passive, InRun, vars, loopVars, tableVars, workerVars
<1>3. CASE StartRun
  BY <1>1, <1>3, PassiveKeeps DEF StartRun, TableIds, Passive, InRun, workerVars
<1>4. CASE RunStarted
  BY <1>1, <1>4, PassiveKeeps DEF RunStarted, Passive, InRun, tableVars
<1>5. CASE HandleAnswer
  <2>1. CASE stage = "running"
    BY <1>5, <2>1, AnsweringKeeps
  <2>2. CASE stage # "running"
    BY <1>1, <1>5, <2>2, PassiveKeeps
       DEF HandleAnswer, Receptive, Passive, InRun, tableVars, workerVars
  <2> QED  BY <2>1, <2>2
<1>6. CASE HandleInterrupt \/ HandleIdle
  BY <1>1, <1>6, PassiveKeeps
     DEF HandleInterrupt, HandleIdle, Receptive, Passive, InRun, tableVars, workerVars
<1>7. CASE CancelTable \/ RunEnds
  BY <1>1, <1>7, PassiveKeeps
     DEF CancelTable, cancel_all, RunEnds, Passive, InRun, workerVars
<1>8. CASE HostAnswers
  <2>1. PICK s \in shown : Send([type |-> "answer", id |-> s.id, req |-> s.req])
    BY <1>8 DEF HostAnswers
  <2>2. s.id \in Nat /\ s.req \in Nat
    BY DEF TableInv, TableType
  <2>3. [type |-> "answer", id |-> s.id, req |-> s.req] \in CommandType
    BY <2>2 DEF CommandType
  <2> QED  BY <2>1, <2>3, SendingKeeps
<1>9. CASE HostCancels \/ HostCloses
  <2>1. [type |-> "cancel"] \in CommandType /\ [type |-> "close"] \in CommandType
    BY DEF CommandType
  <2> QED  BY <1>9, <2>1, SendingKeeps DEF HostCancels, HostCloses
<1>10. CASE StartExecution \/ ResponseBreaks \/ WorkerEnds \/ Recover \/ Continue
  BY <1>1, <1>10, PassiveKeeps
     DEF StartExecution, ResponseBreaks, WorkerEnds, Recover, Continue, Passive,
         InRun, tableVars, loopVars
<1>11. CASE AskHost
  <2> DEFINE r == [NoRequest EXCEPT !.home = run, !.req = asked + 1]
  <2>1. /\ r \in WaiterType /\ r.home = run /\ r.answer = 0
    <3>1. asked + 1 \in Nat
      BY DEF TableInv, TableType
    <3> QED  BY <1>1, <3>1, HostRequestType, Zenon
  <2>2. run # 0 /\ waiter[Worker].stage # "waiting" /\ Worker \in Waiters
    BY <1>1, <1>11 DEF AskHost, InRun, Waiters
  <2>3. /\ begin_request(Worker, r) /\ asked' \in Nat
        /\ UNCHANGED <<stage, run, commands, worker>>
    BY <1>11 DEF AskHost, workerVars, TableInv, TableType
  <2> QED  BY <2>1, <2>2, <2>3, AskingKeeps
<1>12. CASE HostAnswered
  <2>1. /\ NoRequest \in WaiterType /\ NoRequest.stage = "off"
        /\ NoRequest.home = 0 /\ NoRequest.answer = 0
    BY NoRequestType
  <2>2. InRun' /\ Worker \in Waiters
    BY <1>1, <1>12 DEF HostAnswered, TableInv, TableType, AskedInRun, InRun, Waiters
  <2>3. /\ DropLease(Worker) /\ waiter' = [waiter EXCEPT ![Worker] = NoRequest]
        /\ UNCHANGED <<run, next_id, asked, shown, commands>>
    BY <1>12 DEF HostAnswered
  <2> QED  BY <2>1, <2>2, <2>3, GoingKeeps
<1>13. ASSUME NEW w \in Waiters, NEW kind \in InputReason,
              Enqueue(w, kind), waiter[w].home = 0 => run # 0
       PROVE  TableInv'
  <2> DEFINE n == IF waiter[w].home = 0 THEN run ELSE waiter[w].home
             x == [NoRequest EXCEPT !.home = n, !.kind = kind, !.stage = "queued",
                                    !.req = asked + 1]
  <2>1. n \in Nat /\ n # 0 /\ run # 0
    BY <1>1, <1>13 DEF TableInv, TableType, WaiterType, AskedInRun
  <2> HIDE DEF n
  <2>2. x \in WaiterType /\ x.stage = "queued" /\ x.home = n /\ x.answer = 0
    <3>1. asked + 1 \in Nat
      BY DEF TableInv, TableType
    <3> QED  BY <2>1, <3>1, PromptType, Zenon
  <2>3. /\ waiter[w].stage = "off" /\ waiter' = [waiter EXCEPT ![w] = x]
        /\ asked' \in Nat
        /\ UNCHANGED <<stage, worker, run, next_id, pending, shown, commands>>
    BY <1>13 DEF Enqueue, n, loopVars, workerVars, TableInv, TableType
  <2> QED  BY <2>1, <2>2, <2>3, RestingKeeps
<1>14. ASSUME NEW w \in Waiters, NEW kind \in InputReason, CallAsks(w, kind)
       PROVE  TableInv'
  BY <1>1, <1>13, <1>14 DEF CallAsks, Executing, InRun
<1>15. ASSUME NEW w \in Waiters, AgentAsks(w) PROVE TableInv'
  BY <1>13, <1>15 DEF AgentAsks, InputReason
<1>16. ASSUME NEW w \in Waiters, SpawnAgent(w) PROVE TableInv'
  <2> DEFINE x == [waiter[w] EXCEPT !.home = run]
  <2>1. run # 0 /\ waiter[w].stage = "off" /\ waiter[w] \in WaiterType
    BY <1>1, <1>16 DEF SpawnAgent, Executing, InRun, TableInv, TableType, AskedInRun
  <2>2. /\ x \in WaiterType /\ x.stage = "off" /\ x.home = run
        /\ x.answer = waiter[w].answer /\ x.req = waiter[w].req
    BY <1>1, <2>1 DEF WaiterType
  <2>3. /\ waiter' = [waiter EXCEPT ![w] = x] /\ asked' \in Nat
        /\ UNCHANGED <<stage, worker, run, next_id, pending, shown, commands>>
    BY <1>16 DEF SpawnAgent, loopVars, workerVars, TableInv, TableType
  <2>4. x.answer # 0 => x.answer = x.req
    BY <2>2 DEF TableInv, AnswersReachTheirRequest
  <2> QED  BY <2>1, <2>2, <2>3, <2>4, RestingKeeps
<1>17. ASSUME NEW w \in Waiters, Begin(w) PROVE TableInv'
  <2>1. /\ waiter[w] \in WaiterType /\ waiter[w].stage = "queued" /\ waiter[w].home # 0
        /\ run # 0
    BY <1>17 DEF Begin, TableInv, TableType, AskedInRun
  <2>2. waiter[w].answer # 0 => waiter[w].answer = waiter[w].req
    BY DEF TableInv, AnswersReachTheirRequest
  <2>3. /\ begin_request(w, waiter[w]) /\ asked' \in Nat
        /\ UNCHANGED <<stage, run, commands, worker>>
    BY <1>17 DEF Begin, workerVars, TableInv, TableType
  <2> QED  BY <2>1, <2>2, <2>3, AskingKeeps
<1>18. ASSUME NEW w \in Waiters, Resolve(w) \/ Abandon(w) PROVE TableInv'
  <2>1. /\ Rest(w) \in WaiterType /\ Rest(w).stage = "off" /\ Rest(w).answer = 0
        /\ Rest(w).home # 0 => run # 0
    BY DEF Rest, NoRequest, WaiterType, Kinds, TableInv, TableType, AskedInRun
  <2>2. /\ DropLease(w) /\ waiter' = [waiter EXCEPT ![w] = Rest(w)]
        /\ UNCHANGED <<stage, worker, run, next_id, asked, shown, commands>>
    BY <1>18 DEF Resolve, Abandon, workerVars
  <2>3. InRun'
    BY <1>1, <2>2 DEF InRun
  <2> QED  BY <2>1, <2>2, <2>3, GoingKeeps
<1>19. ASSUME NEW v \in Tools, StartTool(v) \/ ReadFlag(v) \/ ReadGeneration(v)
       PROVE  TableInv'
  BY <1>1, <1>19, PassiveKeeps
     DEF StartTool, ReadFlag, ReadGeneration, Passive, InRun, tableVars, loopVars, workerVars
<1> QED
  BY <1>2, <1>3, <1>4, <1>5, <1>6, <1>7, <1>8, <1>9, <1>10, <1>11, <1>12, <1>14,
     <1>15, <1>16, <1>17, <1>18, <1>19 DEF Next

(* Nobody has asked yet.                                                   *)
LEMMA TableInit == Init => TableInv
  BY NoRequestType
     DEF Init, TableInv, TableType, AskedInRun, InRun, IdsNameRequests,
         EntriesAreAwaited, AnswersAreShown, AnswersReachTheirRequest

(* An answer reaches the request it was given for and no other one, in     *)
(* whatever run it is met: the allocator the tables share never gives an   *)
(* id to two requests (session.rs, drive, begin_request and take).         *)
THEOREM AnswersAreRouted == Spec => []AnswersReachTheirRequest
  BY TableInit, TableStep, PTL DEF Spec, TableInv

-----------------------------------------------------------------------------
(* Who owns the user's input.                                              *)

SurfaceType ==
    /\ queue \in [Runs -> Seq(Waiters)] /\ cancelled \subseteq Runs
    /\ run \in 0..MaxRuns

(* Nobody asks in a run that is still to come.                             *)
Homes ==
    /\ \A w \in Waiters : waiter[w].home <= run
    /\ stage = "resetting" => \A w \in Waiters : waiter[w].home # run

(* Those in a queue have asked there, and stand in it once.                *)
Queues == \A n \in Runs :
    /\ IsInjective(queue[n])
    /\ \A w \in Range(queue[n]) :
          w # Worker /\ waiter[w].home = n /\ waiter[w].stage # "off"

(* The worker's request is out while the worker starts.                    *)
HostRequest ==
    /\ waiter[Worker].home # 0 => waiter[Worker].stage = "waiting"
    /\ waiter[Worker].stage = "waiting" => worker = "starting"
    /\ stage \in {"idle", "resetting", "closed"} => worker = "off"

(* The table of a run that is over is cancelled.                           *)
RunsOver ==
    /\ \A n \in Runs : n < run => n \in cancelled
    /\ (stage \in {"idle", "closed"} /\ run # 0) => run \in cancelled

(* A cancelled table has no entries, and a prompt that has one is the      *)
(* first of its queue.                                                     *)
Surface == \A e \in pending :
    /\ e.table \in Runs \ cancelled
    /\ e.kind \in InputReason =>
          queue[e.table] # << >> /\ Head(queue[e.table]) = e.by

PromptInv ==
    /\ SurfaceType /\ Homes /\ Queues /\ HostRequest /\ RunsOver /\ Surface
    /\ ReportedInputIsOwned

(* Every entry is of the run under way.                                    *)
LEMMA EntriesAreCurrent ==
    ASSUME TableInv, PromptInv, NEW e \in pending
    PROVE  /\ e.table = run /\ run \in Runs \ cancelled /\ e.by \in Waiters
           /\ stage \notin {"idle", "resetting", "closed"}
<1>1. /\ e.by \in Waiters /\ waiter[e.by].home = e.table
      /\ e.table \in Runs /\ e.table \notin cancelled
  BY DEF TableInv, TableType, EntryType, EntriesAreAwaited, PromptInv, Surface
<1>2. e.table <= run /\ run \in Nat /\ Runs \subseteq Nat \ {0}
  <2>1. Runs \subseteq Nat \ {0}
    BY BoundsAssumption DEF Runs
  <2>2. waiter[e.by].home <= run
    BY <1>1 DEF PromptInv, Homes
  <2> QED  BY <1>1, <2>1, <2>2 DEF TableInv, TableType
<1>3. e.table = run
  <2>1. ~(e.table < run)
    BY <1>1 DEF PromptInv, RunsOver
  <2>2. e.table \in Nat
    BY <1>1, <1>2
  <2> QED  BY <1>2, <2>1, <2>2
<1>4. stage # "resetting"
  BY <1>1, <1>3 DEF PromptInv, Homes
<1>5. stage \notin {"idle", "closed"}
  BY <1>1, <1>2, <1>3 DEF PromptInv, RunsOver
<1> QED  BY <1>1, <1>3, <1>4, <1>5

(* A table that is not cancelled is the current run's.                     *)
LEMMA OpenTableIsCurrent ==
    ASSUME TableInv, PromptInv, NEW w \in Waiters, waiter[w].home # 0,
           waiter[w].home \notin cancelled
    PROVE  waiter[w].home = run
<1>1. waiter[w].home <= run /\ run \in 0..MaxRuns /\ waiter[w].home \in Nat
  BY DEF PromptInv, Homes, SurfaceType, TableInv, TableType, WaiterType
<1>2. waiter[w].home \in Runs
  BY <1>1, BoundsAssumption DEF Runs
<1> QED  BY <1>1, <1>2, BoundsAssumption DEF PromptInv, RunsOver

(* A step of the loop, the worker or the host that leaves the tables       *)
(* alone, and neither starts nor ends a run.                               *)
LEMMA OuterKeeps ==
    ASSUME PromptInv, UNCHANGED <<queue, waiter, pending, reported, run, cancelled>>,
           stage' = "resetting" => stage = "resetting",
           stage' \in {"idle", "closed"} => stage \in {"idle", "closed"},
           HostRequest'
    PROVE  PromptInv'
<1> USE DEF PromptInv
<1>1. SurfaceType' /\ Queues'
  BY DEF SurfaceType, Queues
<1>2. Homes' /\ RunsOver'
  BY DEF Homes, RunsOver
<1>3. Surface' /\ ReportedInputIsOwned'
  BY DEF Surface, ReportedInputIsOwned
<1> QED  BY <1>1, <1>2, <1>3

(* A run starts, when no table has an entry.                               *)
LEMMA StartKeeps ==
    ASSUME TableInv, PromptInv, StartRun
    PROVE  PromptInv'
<1> USE DEF PromptInv
<1>1. /\ stage = "idle" /\ run < MaxRuns /\ run' = run + 1 /\ stage' = "resetting"
      /\ UNCHANGED <<reported, cancelled, pending, queue, waiter, worker>>
  BY DEF StartRun, workerVars
<1>2. pending = {}
  BY <1>1, EntriesAreCurrent
<1>3. run \in Nat /\ run' \in 0..MaxRuns
  BY <1>1, BoundsAssumption DEF SurfaceType
<1>4. SurfaceType' /\ Queues' /\ HostRequest'
  BY <1>1, <1>3 DEF SurfaceType, Queues, HostRequest
<1>5. Homes'
  <2>1. \A w \in Waiters : waiter[w].home <= run /\ waiter[w].home \in Nat
    BY DEF Homes, TableInv, TableType, WaiterType
  <2> QED  BY <1>1, <1>3, <2>1 DEF Homes
<1>6. RunsOver'
  <2> SUFFICES ASSUME NEW n \in Runs, n < run + 1 PROVE n \in cancelled
    BY <1>1 DEF RunsOver
  <2>1. n \in Nat \ {0}
    BY BoundsAssumption DEF Runs
  <2>2. n < run \/ (n = run /\ run # 0)
    BY <1>3, <2>1
  <2> QED  BY <1>1, <2>2 DEF RunsOver
<1>7. Surface' /\ ReportedInputIsOwned'
  BY <1>1, <1>2 DEF Surface, ReportedInputIsOwned
<1> QED  BY <1>4, <1>5, <1>6, <1>7

(* It is under way.                                                        *)
LEMMA StartedKeeps ==
    ASSUME TableInv, PromptInv, RunStarted
    PROVE  PromptInv'
<1> USE DEF PromptInv
<1>1. /\ stage = "resetting" /\ stage' = "running" /\ reported' = "running"
      /\ UNCHANGED <<run, cancelled, pending, queue, waiter>>
  BY DEF RunStarted, tableVars
<1>2. pending = {}
  BY <1>1, EntriesAreCurrent
<1>3. SurfaceType' /\ Queues' /\ Homes' /\ RunsOver'
  BY <1>1 DEF SurfaceType, Queues, Homes, RunsOver
<1>4. HostRequest'
  BY <1>1 DEF HostRequest
<1>5. Surface' /\ ReportedInputIsOwned'
  BY <1>1, <1>2 DEF Surface, ReportedInputIsOwned, InputReason
<1> QED  BY <1>3, <1>4, <1>5

(* Its table is cancelled, by its user or by its end.                      *)
LEMMA CancellingKeeps ==
    ASSUME TableInv, PromptInv, CancelTable \/ RunEnds
    PROVE  PromptInv'
<1> USE DEF PromptInv
<1>1. /\ stage \in {"running", "cancelling"} /\ stage' \in {"running", "idle", "closed"}
      /\ cancelled' = cancelled \cup {run}
      /\ UNCHANGED <<run, queue, waiter>>
  BY DEF CancelTable, cancel_all, RunEnds
<1>2. run \in Runs /\ run \in Nat
  BY <1>1, BoundsAssumption DEF SurfaceType, Runs, TableInv, AskedInRun, InRun
<1>3. pending' = {}
  <2>1. pending' = {e \in pending : e.table # run}
    BY DEF CancelTable, cancel_all, RunEnds
  <2> QED  BY <2>1, EntriesAreCurrent
<1>4. SurfaceType' /\ Queues' /\ Homes' /\ RunsOver'
  BY <1>1, <1>2 DEF SurfaceType, Queues, Homes, RunsOver
<1>5. HostRequest'
  BY <1>1 DEF CancelTable, RunEnds, HostRequest, workerVars
<1>6. reported' \notin InputReason
  <2>1. CASE RunEnds
    BY <2>1 DEF RunEnds, InputReason
  <2>2. CASE CancelTable
    <3> DEFINE mine == {e \in pending : e.table = run}
    <3>1. reported' = IF HasInput(mine) THEN "running" ELSE reported
      BY <2>2 DEF CancelTable, cancel_all
    <3>2. ~HasInput(mine) => reported \notin InputReason
      BY DEF HasInput, ReportedInputIsOwned
    <3> QED  BY <3>1, <3>2 DEF InputReason
  <2> QED  BY <2>1, <2>2
<1>7. Surface' /\ ReportedInputIsOwned'
  BY <1>3, <1>6 DEF Surface, ReportedInputIsOwned
<1> QED  BY <1>4, <1>5, <1>7

(* Those in a queue are waiters.                                           *)
LEMMA QueuedAreWaiters ==
    ASSUME SurfaceType
    PROVE  Worker \in Waiters /\ \A n \in Runs : Range(queue[n]) \subseteq Waiters
<1>1. \A n \in Runs : queue[n] \in Seq(Waiters)
  BY DEF SurfaceType
<1>2. ASSUME NEW n \in Runs PROVE Range(queue[n]) \subseteq Waiters
  <2> DEFINE q == queue[n]
  <2>1. q \in Seq(Waiters)
    BY <1>1
  <2> HIDE DEF q
  <2>2. Range(q) \subseteq Waiters
    BY <2>1, RangeType
  <2> QED  BY <2>2 DEF q
<1> QED  BY <1>2 DEF Waiters

(* An answer closes the entry it is for, and changes nothing else of it.   *)
LEMMA AnswerKeepsSurface ==
    ASSUME TableInv, PromptInv, HandleAnswer, stage = "running"
    PROVE  PromptInv'
<1> USE DEF PromptInv
<1> DEFINE c == Head(commands)
           hit == {e \in pending : e.table = run /\ e.id = c.id /\ e.open}
<1>1. /\ pending' = (pending \ hit) \cup {[e EXCEPT !.open = FALSE] : e \in hit}
      /\ waiter' = [w \in Waiters |-> IF \E e \in hit : e.by = w
                                     THEN [waiter[w] EXCEPT !.answer = c.req]
                                     ELSE waiter[w]]
      /\ UNCHANGED <<stage, worker, run, reported, cancelled, queue>>
  BY DEF HandleAnswer, TakeAnswer, workerVars
<1>2. hit \subseteq pending /\ pending \subseteq EntryType
  BY DEF TableInv, TableType
<1> HIDE DEF c, hit
<1>3. \A w \in Waiters : /\ waiter'[w].home = waiter[w].home
                         /\ waiter'[w].stage = waiter[w].stage
  <2>1. \A w \in Waiters : waiter[w] \in WaiterType
    BY DEF TableInv, TableType
  <2> QED  BY <1>1, <2>1 DEF WaiterType
<1>4. \A e \in hit : LET g == [e EXCEPT !.open = FALSE]
                     IN  g.by = e.by /\ g.table = e.table /\ g.kind = e.kind
  BY <1>2 DEF EntryType
<1>5. \A e \in pending' : \E f \in pending :
          e.by = f.by /\ e.table = f.table /\ e.kind = f.kind
  <2> SUFFICES ASSUME NEW e \in pending'
               PROVE  \E f \in pending :
                        e.by = f.by /\ e.table = f.table /\ e.kind = f.kind
    OBVIOUS
  <2>1. CASE e \in pending
    BY <2>1
  <2>2. CASE e \notin pending
    <3>1. PICK f \in hit : e = [f EXCEPT !.open = FALSE]
      BY <1>1, <2>2
    <3> QED  BY <1>2, <1>4, <3>1
  <2> QED  BY <2>1, <2>2
<1>6. \A f \in pending : \E e \in pending' :
          e.by = f.by /\ e.table = f.table /\ e.kind = f.kind
  BY <1>1, <1>2, <1>4
<1>7. Worker \in Waiters /\ \A n \in Runs : Range(queue[n]) \subseteq Waiters
  BY QueuedAreWaiters
<1>8. SurfaceType' /\ RunsOver' /\ Homes'
  BY <1>1, <1>3 DEF SurfaceType, RunsOver, Homes
<1>9. Queues'
  BY <1>1, <1>3, <1>7 DEF Queues
<1>10. HostRequest'
  BY <1>1, <1>3, <1>7 DEF HostRequest
<1>11. Surface'
  <2>1. ASSUME NEW e \in pending', NEW f \in pending,
               e.by = f.by, e.table = f.table, e.kind = f.kind
        PROVE  /\ e.table \in Runs \ cancelled
               /\ e.kind \in InputReason =>
                     queue[e.table] # << >> /\ Head(queue[e.table]) = e.by
    BY <2>1 DEF Surface
  <2> QED  BY <1>1, <1>5, <2>1 DEF Surface
<1>12. ReportedInputIsOwned'
  <2>1. \A kind \in InputReason :
            (\E e \in pending' : e.table = run /\ e.kind = kind)
              <=> \E e \in pending : e.table = run /\ e.kind = kind
    <3> HIDE DEF PromptInv
    <3> QED  BY <1>5, <1>6
  <2>2. reported' = reported /\ run' = run
    BY <1>1
  <2> QED  BY <2>1, <2>2 DEF ReportedInputIsOwned
<1> QED  BY <1>8, <1>9, <1>10, <1>11, <1>12

(* Who may publish a request: the first of a queue, and the worker.        *)
MayPublish(w, r) ==
    \/ w # Worker /\ r = waiter[w] /\ r.stage = "queued" /\ OwnsInput(w)
    \/ /\ w = Worker /\ waiter[w].stage = "off" /\ worker = "starting"
       /\ r.home = run /\ r.kind = "host"

(* A request is published, or refused by a cancelled table.                *)
LEMMA PublishKeeps ==
    ASSUME TableInv, PromptInv, NEW w \in Waiters, NEW r \in WaiterType,
           MayPublish(w, r), begin_request(w, r),
           UNCHANGED <<stage, run, worker, cancelled, queue>>
    PROVE  PromptInv'
<1> USE DEF PromptInv
<1> DEFINE x == [r EXCEPT !.stage = "waiting", !.id = next_id]
           new == [table |-> r.home, id |-> next_id, by |-> w, kind |-> r.kind,
                   open |-> TRUE]
<1>1. waiter' = [waiter EXCEPT ![w] = x]
  BY DEF begin_request, Waiting
<1>2. IF r.home \in cancelled
      THEN UNCHANGED <<pending, reported>>
      ELSE /\ pending' = pending \cup {new}
           /\ reported' = IF r.kind \in InputReason THEN r.kind ELSE reported
  BY DEF begin_request, Admit
<1>3. x.stage = "waiting" /\ x.home = r.home
  BY DEF WaiterType
<1>4. new.table = r.home /\ new.by = w /\ new.kind = r.kind
  OBVIOUS
<1> HIDE DEF x, new
<1>5. waiter'[w] = x /\ \A u \in Waiters \ {w} : waiter'[u] = waiter[u]
  BY <1>1 DEF TableInv, TableType
<1>6. Worker \in Waiters /\ \A n \in Runs : Range(queue[n]) \subseteq Waiters
  BY QueuedAreWaiters
<1>7. run # 0 /\ r.home # 0 /\ (r.home \notin cancelled => r.home = run)
  <2>1. CASE w = Worker
    BY <2>1 DEF MayPublish, TableInv, AskedInRun, InRun
  <2>2. CASE r = waiter[w] /\ r.stage = "queued"
    BY <2>2, OpenTableIsCurrent DEF TableInv, AskedInRun
  <2> QED  BY <2>1, <2>2 DEF MayPublish
<1>8. run \in Runs
  BY <1>7, BoundsAssumption DEF SurfaceType, Runs
<1>9. SurfaceType' /\ RunsOver'
  BY DEF SurfaceType, RunsOver
<1>10. r.home <= run /\ (stage = "resetting" => r.home # run)
  <2>1. CASE w = Worker
    BY <2>1, <1>8, BoundsAssumption DEF MayPublish, HostRequest, Runs
  <2>2. CASE r = waiter[w]
    BY <2>2 DEF Homes
  <2> QED  BY <2>1, <2>2 DEF MayPublish
<1>11. Homes'
  BY <1>3, <1>5, <1>10 DEF Homes
<1>12. Queues'
  <2> SUFFICES ASSUME NEW n \in Runs, NEW u \in Range(queue[n])
               PROVE  waiter'[u].home = n /\ waiter'[u].stage # "off"
    BY DEF Queues
  <2>1. u \in Waiters /\ u # Worker /\ waiter[u].home = n /\ waiter[u].stage # "off"
    BY <1>6 DEF Queues
  <2> QED  BY <1>3, <1>5, <2>1 DEF MayPublish
<1>13. HostRequest'
  BY <1>3, <1>5, <1>6 DEF HostRequest, MayPublish
<1>14. CASE r.home \in cancelled
  <2>1. Surface' /\ ReportedInputIsOwned'
    BY <1>2, <1>14 DEF Surface, ReportedInputIsOwned
  <2> QED  BY <1>9, <1>11, <1>12, <1>13, <2>1
<1>15. CASE r.home \notin cancelled
  <2>1. r.kind \in InputReason => queue[r.home] # << >> /\ Head(queue[r.home]) = w
    BY DEF MayPublish, OwnsInput, InputReason
  <2>2. Surface'
    BY <1>2, <1>4, <1>7, <1>8, <1>15, <2>1 DEF Surface
  <2>3. CASE r.kind \notin InputReason
    <3>1. pending' = pending \cup {new} /\ reported' = reported
      BY <1>2, <1>15, <2>3
    <3>2. \A kind \in InputReason : kind # new.kind
      BY <1>4, <2>3
    <3>3. ReportedInputIsOwned'
      BY <3>1, <3>2 DEF ReportedInputIsOwned
    <3> QED  BY <1>9, <1>11, <1>12, <1>13, <2>2, <3>3
  <2>4. CASE r.kind \in InputReason
    <3>1. waiter[w].stage # "waiting"
      BY DEF MayPublish
    <3>2. ASSUME NEW e \in pending PROVE e.kind \notin InputReason
      <4>1. e.table = run /\ waiter[e.by].stage = "waiting"
        BY EntriesAreCurrent DEF TableInv, EntriesAreAwaited
      <4> QED  BY <1>7, <1>15, <2>1, <2>4, <3>1, <4>1 DEF Surface
    <3>3. ReportedInputIsOwned'
      BY <1>2, <1>4, <1>7, <1>15, <2>4, <3>2 DEF ReportedInputIsOwned
    <3> QED  BY <1>9, <1>11, <1>12, <1>13, <2>2, <3>3
  <2> QED  BY <1>9, <1>11, <1>12, <1>13, <2>2, <2>3, <2>4
<1> QED  BY <1>14, <1>15

(* A prompt takes its place at the end of its table's queue.               *)
LEMMA JoinKeeps ==
    ASSUME TableInv, PromptInv, NEW w \in Waiters, w # Worker,
           NEW kind \in InputReason, Enqueue(w, kind),
           waiter[w].home = 0 => run # 0 /\ stage # "resetting"
    PROVE  PromptInv'
<1> USE DEF PromptInv
<1> DEFINE n == IF waiter[w].home = 0 THEN run ELSE waiter[w].home
           x == [NoRequest EXCEPT !.home = n, !.kind = kind, !.stage = "queued",
                                  !.req = asked + 1]
           q == queue[n]
<1>1. /\ waiter[w].stage = "off" /\ waiter' = [waiter EXCEPT ![w] = x]
      /\ queue' = [queue EXCEPT ![n] = Append(queue[n], w)]
      /\ UNCHANGED <<stage, run, worker, cancelled, pending, reported>>
  BY DEF Enqueue, loopVars, workerVars
<1>2. /\ n \in Runs /\ n <= run /\ (stage = "resetting" => n # run)
  <2>1. waiter[w].home \in Nat /\ waiter[w].home <= run /\ run \in 0..MaxRuns
    BY DEF TableInv, TableType, WaiterType, Homes, SurfaceType
  <2> QED  BY <2>1, BoundsAssumption DEF Homes, Runs
<1>3. x.stage = "queued" /\ x.home = n
  BY DEF NoRequest
<1> HIDE DEF x, n
<1>4. waiter'[w] = x /\ \A u \in Waiters \ {w} : waiter'[u] = waiter[u]
  BY <1>1 DEF TableInv, TableType
<1>5. /\ queue' \in [Runs -> Seq(Waiters)] /\ queue'[n] = Append(q, w)
      /\ \A m \in Runs \ {n} : queue'[m] = queue[m]
      /\ q \in Seq(Waiters)
  BY <1>1, <1>2 DEF SurfaceType
<1>6. IsInjective(q) /\ w \notin Range(q)
  BY <1>1, <1>2 DEF Queues
<1>7. \A m \in Runs : Range(queue[m]) \subseteq Waiters \ {w}
  BY <1>1, QueuedAreWaiters DEF Queues
<1> HIDE DEF q
<1>8. /\ Range(Append(q, w)) = Range(q) \cup {w} /\ IsInjective(Append(q, w))
      /\ Append(q, w) # << >> /\ (q # << >> => Head(Append(q, w)) = Head(q))
  <2>1. Range(Append(q, w)) = Range(q) \cup {w} /\ IsInjective(Append(q, w))
    BY <1>5, <1>6, RangeAppend
  <2>2. Append(q, w) # << >> /\ (q # << >> => Head(Append(q, w)) = Head(q))
    BY <1>5
  <2> QED  BY <2>1, <2>2
<1>9. SurfaceType' /\ RunsOver'
  BY <1>1, <1>5 DEF SurfaceType, RunsOver
<1>10. Homes'
  BY <1>1, <1>2, <1>3, <1>4 DEF Homes
<1>11. Queues'
  <2> SUFFICES ASSUME NEW m \in Runs
               PROVE  /\ IsInjective(queue'[m])
                      /\ \A u \in Range(queue'[m]) :
                           u # Worker /\ waiter'[u].home = m /\ waiter'[u].stage # "off"
    BY DEF Queues
  <2>1. CASE m = n
    <3>1. \A u \in Range(q) :
             u # Worker /\ waiter'[u].home = n /\ waiter'[u].stage # "off"
      BY <1>2, <1>4, <1>7 DEF Queues, q
    <3> QED  BY <1>3, <1>4, <1>5, <1>8, <2>1, <3>1
  <2>2. CASE m # n
    BY <1>4, <1>5, <1>7, <2>2 DEF Queues
  <2> QED  BY <2>1, <2>2
<1>12. HostRequest'
  BY <1>1, <1>4, QueuedAreWaiters DEF HostRequest
<1>13. Surface'
  <2> SUFFICES ASSUME NEW e \in pending, e.table \in Runs \ cancelled,
                      e.kind \in InputReason
               PROVE  queue'[e.table] # << >> /\ Head(queue'[e.table]) = e.by
    BY <1>1 DEF Surface
  <2>1. queue[e.table] # << >> /\ Head(queue[e.table]) = e.by
    BY DEF Surface
  <2>2. CASE e.table = n
    BY <1>5, <1>8, <2>1, <2>2 DEF q
  <2>3. CASE e.table # n
    BY <1>5, <2>1, <2>3
  <2> QED  BY <2>2, <2>3
<1>14. ReportedInputIsOwned'
  BY <1>1 DEF ReportedInputIsOwned
<1> QED  BY <1>9, <1>10, <1>11, <1>12, <1>13, <1>14

(* An agent that has asked for nothing is given its turn's prompter.       *)
LEMMA SpawnKeeps ==
    ASSUME TableInv, PromptInv, NEW w \in Waiters, SpawnAgent(w)
    PROVE  PromptInv'
<1> USE DEF PromptInv
<1> DEFINE x == [waiter[w] EXCEPT !.home = run]
<1>1. /\ w \in Agents /\ waiter[w].home = 0 /\ stage # "resetting"
      /\ waiter' = [waiter EXCEPT ![w] = x]
      /\ UNCHANGED <<stage, run, worker, cancelled, pending, reported, queue>>
  BY DEF SpawnAgent, Executing, loopVars, workerVars
<1>2. x.home = run
  BY DEF TableInv, TableType, WaiterType
<1> HIDE DEF x
<1>3. waiter'[w] = x /\ \A u \in Waiters \ {w} : waiter'[u] = waiter[u]
  BY <1>1 DEF TableInv, TableType
<1>4. waiter[w].stage = "off" /\ w # Worker
  BY <1>1, ActorsAssumption DEF TableInv, AskedInRun
<1>5. \A m \in Runs : Range(queue[m]) \subseteq Waiters \ {w}
  BY <1>4, QueuedAreWaiters DEF Queues
<1>6. SurfaceType' /\ RunsOver' /\ Surface' /\ ReportedInputIsOwned'
  BY <1>1 DEF SurfaceType, RunsOver, Surface, ReportedInputIsOwned
<1>7. Homes'
  BY <1>1, <1>2, <1>3, BoundsAssumption DEF Homes, SurfaceType
<1>8. Queues'
  BY <1>1, <1>3, <1>5 DEF Queues
<1>9. HostRequest'
  BY <1>1, <1>3, <1>4, QueuedAreWaiters DEF HostRequest
<1> QED  BY <1>6, <1>7, <1>8, <1>9

(* What is left of the queues when a waiter has gone.                      *)
WithoutInQueue(w, m) ==
    /\ queue'[m] \in Seq(Waiters) /\ IsInjective(queue'[m])
    /\ Range(queue'[m]) = Range(queue[m]) \ {w}
    /\ queue[m] # << >> /\ Head(queue[m]) # w =>
          queue'[m] # << >> /\ Head(queue'[m]) = Head(queue[m])

(* The others keep their places.                                           *)
LEMMA LeavingQueue ==
    ASSUME SurfaceType, Queues, NEW w \in Waiters, waiter[w].home \in Runs,
           IF w = Worker THEN queue' = queue ELSE LeaveQueue(w)
    PROVE  /\ queue' \in [Runs -> Seq(Waiters)]
           /\ \A m \in Runs : WithoutInQueue(w, m)
<1> DEFINE n == waiter[w].home
           q == queue[n]
<1>1. ASSUME NEW m \in Runs, queue'[m] = queue[m], w \notin Range(queue[m])
      PROVE  WithoutInQueue(w, m)
  BY <1>1 DEF WithoutInQueue, SurfaceType, Queues
<1>2. CASE w = Worker
  <2>1. \A m \in Runs : w \notin Range(queue[m])
    BY <1>2 DEF Queues
  <2> QED  BY <1>1, <1>2, <2>1 DEF SurfaceType
<1>3. CASE w # Worker
  <2>1. PICK left \in Kept(q, Waiters \ {w}) : queue' = [queue EXCEPT ![n] = left]
    BY <1>3 DEF LeaveQueue
  <2>2. q \in Seq(Waiters) /\ IsInjective(q) /\ n \in Runs
    BY DEF SurfaceType, Queues
  <2>3. Range(q) \subseteq Waiters
    BY <2>2, QueuedAreWaiters
  <2>4. queue'[n] = left /\ \A m \in Runs \ {n} : queue'[m] = queue[m]
    BY <2>1, <2>2 DEF SurfaceType
  <2>5. \A m \in Runs \ {n} : w \notin Range(queue[m])
    BY DEF Queues
  <2> HIDE DEF q, n
  <2>6. left \in Seq(Waiters) /\ Range(left) = Range(q) \cap (Waiters \ {w})
    BY <2>1, <2>2, KeptType
  <2>7. IsInjective(left)
    BY <2>1, <2>2, KeptDistinct
  <2>8. q # << >> /\ Head(q) # w => left # << >> /\ Head(left) = Head(q)
    <3> SUFFICES ASSUME q # << >>, Head(q) # w
                 PROVE  left # << >> /\ Head(left) = Head(q)
      OBVIOUS
    <3>1. Head(q) \in Waiters \ {w}
      BY <2>2
    <3> QED  BY <2>1, <2>2, <3>1, KeptHead
  <2>9. WithoutInQueue(w, n)
    BY <2>3, <2>4, <2>6, <2>7, <2>8 DEF WithoutInQueue, q
  <2>10. queue' \in [Runs -> Seq(Waiters)]
    BY <2>1, <2>6 DEF SurfaceType
  <2> QED  BY <1>1, <2>4, <2>5, <2>9, <2>10
<1> QED  BY <1>2, <1>3

(* A waiter goes: its lease is dropped, then its place in the queue.       *)
LEMMA GoneKeeps ==
    ASSUME TableInv, PromptInv, NEW w \in Waiters, NEW x \in WaiterType,
           waiter[w].stage # "off", x.stage = "off", x.home \in {0, waiter[w].home},
           DropLease(w), waiter' = [waiter EXCEPT ![w] = x],
           IF w = Worker THEN queue' = queue ELSE LeaveQueue(w),
           UNCHANGED <<stage, run, cancelled>>, HostRequest'
    PROVE  PromptInv'
<1> USE DEF PromptInv
<1>1. waiter'[w] = x /\ \A u \in Waiters \ {w} : waiter'[u] = waiter[u]
  BY DEF TableInv, TableType
<1>2. waiter[w].home # 0 /\ waiter[w].home \in Nat /\ waiter[w].home <= run
      /\ run \in 0..MaxRuns
  BY DEF TableInv, TableType, WaiterType, AskedInRun, Homes, SurfaceType
<1>3. waiter[w].home \in Runs /\ run # 0
  BY <1>2, BoundsAssumption DEF Runs
<1>4. queue' \in [Runs -> Seq(Waiters)] /\ \A m \in Runs : WithoutInQueue(w, m)
  BY <1>3, LeavingQueue
<1>5. /\ pending' = pending \ Owned(w)
      /\ reported' = IF HasInput(Owned(w)) /\ waiter[w].home \notin cancelled
                     THEN "running" ELSE reported
  BY DEF DropLease
<1>6. SurfaceType' /\ RunsOver'
  BY <1>4 DEF SurfaceType, RunsOver
<1>7. Homes'
  BY <1>1, <1>2, <1>3 DEF Homes
<1>8. Queues'
  BY <1>1, <1>4, QueuedAreWaiters DEF Queues, WithoutInQueue
<1>9. ASSUME NEW e \in pending' PROVE e \in pending /\ e.by \in Waiters \ {w}
  BY <1>5 DEF Owned, TableInv, TableType, EntryType, EntriesAreAwaited
<1>10. Surface'
  <2> SUFFICES ASSUME NEW e \in pending'
               PROVE  /\ e.table \in Runs \ cancelled
                      /\ e.kind \in InputReason =>
                           queue'[e.table] # << >> /\ Head(queue'[e.table]) = e.by
    BY DEF Surface
  <2>1. e \in pending /\ e.by # w
    BY <1>9
  <2>2. /\ e.table \in Runs \ cancelled
        /\ e.kind \in InputReason =>
             queue[e.table] # << >> /\ Head(queue[e.table]) = e.by
    BY <2>1 DEF Surface
  <2> QED  BY <1>4, <2>1, <2>2 DEF WithoutInQueue
<1>11. ReportedInputIsOwned'
  <2>1. CASE ~HasInput(Owned(w))
    <3>1. reported' = reported /\ pending' = pending \ Owned(w)
      BY <1>5, <2>1
    <3>2. \A kind \in InputReason, e \in Owned(w) : e.kind # kind
      BY <2>1 DEF HasInput
    <3> QED  BY <3>1, <3>2 DEF ReportedInputIsOwned
  <2>2. CASE HasInput(Owned(w))
    <3>1. PICK e \in Owned(w) : e.kind \in InputReason
      BY <2>2 DEF HasInput
    <3>2. e \in pending /\ e.table = waiter[w].home
      BY DEF Owned
    <3>3. e.table = run /\ run \notin cancelled
      BY <3>2, EntriesAreCurrent
    <3>4. reported' = "running"
      BY <1>5, <2>2, <3>2, <3>3
    <3>5. ASSUME NEW f \in pending, f.kind \in InputReason PROVE f \in Owned(w)
      <4>1. f.table = run
        BY EntriesAreCurrent
      <4>2. f.by = e.by
        BY <3>1, <3>2, <3>3, <3>5, <4>1 DEF Surface
      <4>3. f.id = e.id
        BY <3>2, <4>2 DEF TableInv, EntriesAreAwaited
      <4> QED  BY <3>2, <3>3, <4>1, <4>3 DEF Owned
    <3>6. \A f \in pending' : f.kind \notin InputReason
      BY <1>5, <3>5
    <3> QED  BY <3>4, <3>6 DEF ReportedInputIsOwned, InputReason
  <2> QED  BY <2>1, <2>2
<1> QED  BY <1>6, <1>7, <1>8, <1>10, <1>11

(* The invariant of the input surface is inductive, relative to the one of *)
(* the tables.                                                             *)
LEMMA PromptStep == TableInv /\ PromptInv /\ [Next]_vars => PromptInv'
<1> SUFFICES ASSUME TableInv, PromptInv, [Next]_vars PROVE PromptInv'
  OBVIOUS
<1>1. HostRequest /\ Worker \in Waiters
  BY DEF PromptInv, Waiters
<1>2. CASE UNCHANGED vars
  BY <1>1, <1>2, OuterKeeps DEF HostRequest, vars, loopVars, tableVars, workerVars
<1>3. CASE StartRun
  BY <1>3, StartKeeps
<1>4. CASE RunStarted
  BY <1>4, StartedKeeps
<1>5. CASE CancelTable \/ RunEnds
  BY <1>5, CancellingKeeps
<1>6. CASE HandleAnswer
  <2>1. CASE stage = "running"
    BY <1>6, <2>1, AnswerKeepsSurface
  <2>2. CASE stage # "running"
    BY <1>1, <1>6, <2>2, OuterKeeps
       DEF HandleAnswer, HostRequest, tableVars, workerVars
  <2> QED  BY <2>1, <2>2
<1>7. CASE HandleInterrupt \/ HandleIdle
  BY <1>1, <1>7, OuterKeeps
     DEF HandleInterrupt, HandleIdle, HostRequest, tableVars, workerVars
<1>8. CASE HostAnswers \/ HostCancels \/ HostCloses
  BY <1>1, <1>8, OuterKeeps
     DEF HostAnswers, HostCancels, HostCloses, Send, HostRequest, tableVars, workerVars
<1>9. CASE StartExecution \/ ResponseBreaks \/ WorkerEnds \/ Recover \/ Continue
  BY <1>1, <1>9, OuterKeeps
     DEF StartExecution, ResponseBreaks, WorkerEnds, Recover, Continue, HostRequest,
         tableVars, loopVars
<1>10. CASE AskHost
  <2> DEFINE r == [NoRequest EXCEPT !.home = run, !.req = asked + 1]
  <2>1. r \in WaiterType /\ r.home = run
    <3>1. asked + 1 \in Nat /\ run \in Nat
      BY DEF TableInv, TableType
    <3> QED  BY <3>1, HostRequestType, Zenon
  <2>2. r.kind = "host"
    BY DEF NoRequest
  <2>3. /\ begin_request(Worker, r) /\ waiter[Worker].stage = "off"
        /\ worker = "starting" /\ UNCHANGED <<stage, run, worker, cancelled, queue>>
    BY <1>10 DEF AskHost, workerVars
  <2> QED  BY <1>1, <2>1, <2>2, <2>3, PublishKeeps DEF MayPublish
<1>11. CASE HostAnswered
  <2>1. NoRequest \in WaiterType /\ NoRequest.stage = "off" /\ NoRequest.home = 0
    BY NoRequestType
  <2>2. /\ waiter[Worker].stage = "waiting" /\ DropLease(Worker)
        /\ waiter' = [waiter EXCEPT ![Worker] = NoRequest]
        /\ UNCHANGED <<stage, run, cancelled, queue>>
    BY <1>11 DEF HostAnswered
  <2>3. waiter'[Worker] = NoRequest
    BY <1>1, <2>2 DEF TableInv, TableType
  <2>4. HostRequest'
    BY <1>1, <2>1, <2>2, <2>3 DEF HostRequest
  <2> QED  BY <1>1, <2>1, <2>2, <2>4, GoneKeeps
<1>12. ASSUME NEW w \in Waiters, NEW kind \in InputReason, CallAsks(w, kind)
       PROVE  PromptInv'
  <2>1. w # Worker /\ Enqueue(w, kind) /\ run # 0 /\ stage # "resetting"
    BY <1>12, ActorsAssumption
       DEF CallAsks, Executing, TableInv, AskedInRun, InRun
  <2> QED  BY <2>1, JoinKeeps
<1>13. ASSUME NEW w \in Waiters, AgentAsks(w) PROVE PromptInv'
  <2>1. /\ w # Worker /\ Enqueue(w, "permission") /\ waiter[w].home # 0
        /\ "permission" \in InputReason
    BY <1>13, ActorsAssumption DEF AgentAsks, InputReason
  <2> QED  BY <2>1, JoinKeeps
<1>14. ASSUME NEW w \in Waiters, SpawnAgent(w) PROVE PromptInv'
  BY <1>14, SpawnKeeps
<1>15. ASSUME NEW w \in Waiters, Begin(w) PROVE PromptInv'
  <2>1. /\ waiter[w] \in WaiterType /\ waiter[w].stage = "queued" /\ OwnsInput(w)
        /\ begin_request(w, waiter[w])
        /\ UNCHANGED <<stage, run, worker, cancelled, queue>>
    BY <1>15 DEF Begin, workerVars, TableInv, TableType
  <2>2. w # Worker
    BY <1>1, <2>1 DEF HostRequest, TableInv, AskedInRun
  <2> QED  BY <2>1, <2>2, PublishKeeps DEF MayPublish
<1>16. ASSUME NEW w \in Waiters, Resolve(w) \/ Abandon(w) PROVE PromptInv'
  <2>1. /\ w # Worker /\ waiter[w].stage # "off" /\ DropLease(w) /\ LeaveQueue(w)
        /\ waiter' = [waiter EXCEPT ![w] = Rest(w)]
        /\ UNCHANGED <<stage, run, worker, cancelled>>
    BY <1>16 DEF Resolve, Abandon, workerVars
  <2>2. /\ Rest(w) \in WaiterType /\ Rest(w).stage = "off"
        /\ Rest(w).home \in {0, waiter[w].home}
    BY DEF Rest, NoRequest, WaiterType, Kinds, TableInv, TableType
  <2>3. waiter'[Worker] = waiter[Worker]
    BY <1>1, <2>1 DEF TableInv, TableType
  <2>4. HostRequest'
    BY <1>1, <2>1, <2>3 DEF HostRequest
  <2> QED  BY <2>1, <2>2, <2>4, GoneKeeps
<1>17. ASSUME NEW v \in Tools, StartTool(v) \/ ReadFlag(v) \/ ReadGeneration(v)
       PROVE  PromptInv'
  BY <1>1, <1>17, OuterKeeps
     DEF StartTool, ReadFlag, ReadGeneration, HostRequest, tableVars, loopVars, workerVars
<1> QED
  BY <1>2, <1>3, <1>4, <1>5, <1>6, <1>7, <1>8, <1>9, <1>10, <1>11, <1>12, <1>13,
     <1>14, <1>15, <1>16, <1>17 DEF Next

(* Both invariants hold throughout.                                        *)
LEMMA PromptAlways == Spec => [](TableInv /\ PromptInv)
<1>1. Init => SurfaceType /\ Queues
  BY RangeEmpty, BoundsAssumption DEF Init, SurfaceType, Queues, Runs
<1>2. Init => Homes /\ HostRequest /\ RunsOver
  BY NoRequestType, BoundsAssumption
     DEF Init, Homes, HostRequest, RunsOver, Runs, Waiters
<1>3. Init => Surface /\ ReportedInputIsOwned
  BY DEF Init, Surface, ReportedInputIsOwned, InputReason
<1> QED  BY TableInit, <1>1, <1>2, <1>3, TableStep, PromptStep, PTL DEF Spec, PromptInv

(* The engine's state says that the user is waited for, and what for,      *)
(* exactly while a prompt of the current run owns the input, however the   *)
(* session loop's cancellations, the leases dropped by late waiters and    *)
(* the agents of earlier runs interleave (begin_request, cancel_all and    *)
(* RequestLease::drop in session.rs, the prompt queue in permissions.rs).  *)
THEOREM ReportedIsOwned == Spec => []ReportedInputIsOwned
  BY PromptAlways, PTL DEF PromptInv

(* A cancelled table holds nobody up who has not been answered: neither    *)
(* the prompt that owns its input, and so none queued behind it, nor the   *)
(* worker that asked for the host's context (cancel_all, begin_request).   *)
THEOREM CancelLetsGo == Spec => []CancelReleasesWaiters
<1>1. TableInv /\ PromptInv => CancelReleasesWaiters
  <2> SUFFICES ASSUME TableInv, PromptInv, NEW n \in cancelled
               PROVE  /\ queue[n] # << >> => Released(Head(queue[n]))
                      /\ waiter[Worker].home = n => Released(Worker)
    BY DEF CancelReleasesWaiters
  <2>1. n \in Runs /\ n # 0
    BY BoundsAssumption DEF PromptInv, SurfaceType, Runs
  <2>2. ASSUME NEW w \in Waiters, waiter[w].home = n, waiter[w].stage # "off"
        PROVE  Released(w)
    <3>1. Owned(w) = {}
      BY <2>2 DEF Owned, PromptInv, Surface
    <3>2. waiter[w].stage \in {"queued", "waiting"}
      BY <2>2 DEF TableInv, TableType, WaiterType
    <3> QED  BY <3>1, <3>2 DEF Released
  <2>3. ASSUME queue[n] # << >> PROVE Released(Head(queue[n]))
    <3> DEFINE q == queue[n]
    <3>1. q \in Seq(Waiters) /\ q # << >>
      BY <2>1, <2>3 DEF PromptInv, SurfaceType
    <3>2. Head(q) \in Range(q) /\ Head(q) \in Waiters
      <4> HIDE DEF q
      <4> QED  BY <3>1, RangeTail
    <3>3. waiter[Head(q)].home = n /\ waiter[Head(q)].stage # "off"
      BY <2>1, <3>2 DEF PromptInv, Queues
    <3> QED  BY <2>2, <3>2, <3>3
  <2>4. ASSUME waiter[Worker].home = n PROVE Released(Worker)
    BY <2>1, <2>2, <2>4 DEF PromptInv, HostRequest, Waiters
  <2> QED  BY <2>3, <2>4
<1> QED  BY <1>1, PromptAlways, PTL
=============================================================================
