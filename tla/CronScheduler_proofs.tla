------------------------- MODULE CronScheduler_proofs -------------------------
(***************************************************************************)
(* Proofs about CronScheduler, for any jobs, processes, clients, schedules *)
(* and bounds.                                                             *)
(***************************************************************************)
EXTENDS CronScheduler, FiniteSetTheorems, TLAPS

Want == [enabled : BOOLEAN]
Pass == {"claim", "disable", "fire", "record"}

-----------------------------------------------------------------------------
(* Entries and schedules.                                                  *)

(* An entry is not the absence of one.                                     *)
LEMMA EntryIsSome == NoEntry \notin Entry /\ NoEntry \notin Want
<1>1. DOMAIN NoEntry = {}
  BY DEF NoEntry
<1>2. \A e \in Entry : "kind" \in DOMAIN e
  BY DEF Entry
<1>3. \A e \in Want : "enabled" \in DOMAIN e
  BY DEF Want
<1> QED  BY <1>1, <1>2, <1>3

(* A next run lies after the moment it is computed for.                    *)
LEMMA NextRunAfter ==
    ASSUME NEW e \in Entry, NEW t \in 0..MaxTime
    PROVE  /\ next_run_after(e, t) \in NextRun
           /\ next_run_after(e, t) = None \/ next_run_after(e, t) > t
           /\ first_run_at(e, t) \in NextRun
<1>0. e.kind \in {"cron", "every", "at"}
  BY KindsAssumption DEF Entry
<1>1. t \in Nat /\ MaxTime \in Nat
  BY TimeAssumption
<1>2. Interval \in Nat /\ Interval > 0 /\ AtTime \in Nat
  BY TimeAssumption
<1>3. (t \div Interval + 1) * Interval \in Nat
  BY <1>1, <1>2
<1>4. /\ (t \div Interval + 1) * Interval > t
      /\ (t \div Interval + 1) * Interval <= t + Interval
  BY <1>1, <1>2
<1>5. t + Interval \in Times /\ (t \div Interval + 1) * Interval \in Times
  BY <1>1, <1>2, <1>3, <1>4 DEF Times
<1>6. CASE e.kind = "cron"
  BY <1>1, <1>2, <1>4, <1>5, <1>6 DEF next_run_after, first_run_at, NextRun
<1>7. CASE e.kind = "every"
  BY <1>1, <1>2, <1>5, <1>7 DEF next_run_after, first_run_at, NextRun
<1>8. CASE e.kind = "at"
  BY <1>1, <1>2, <1>8 DEF next_run_after, first_run_at, NextRun, Times
<1> QED  BY <1>0, <1>6, <1>7, <1>8

(* Edits of single fields leave an entry.                                  *)
LEMMA NextEdit ==
    ASSUME NEW e \in Entry, NEW n \in NextRun PROVE [e EXCEPT !.next = n] \in Entry
  BY DEF Entry

(* An entry can be enabled and disabled ...                                *)
LEMMA EnabledEdit ==
    ASSUME NEW e \in Entry, NEW b \in BOOLEAN PROVE [e EXCEPT !.enabled = b] \in Entry
  BY DEF Entry

(* ... and given another schedule.                                         *)
LEMMA KindEdit ==
    ASSUME NEW e \in Entry, NEW k \in Kinds PROVE [e EXCEPT !.kind = k] \in Entry
  BY DEF Entry

(* What earlier processes left, and what a client creates, are entries.    *)
LEMMA NewType == ASSUME NEW kind \in Kinds PROVE Kept(kind) \in Entry /\ New(kind) \in Entry
<1>1. New(kind) \in Entry /\ New(kind).kind = kind
  BY DEF New, Entry, NextRun
<1>2. first_run_at(New(kind), 0) \in NextRun
  BY <1>1, NextRunAfter, TimeAssumption
<1>3. first_run_at([kind |-> kind], 0) = first_run_at(New(kind), 0)
  <2>1. kind \in {"cron", "every", "at"} /\ [kind |-> kind].kind = kind
    BY KindsAssumption
  <2> QED  BY <1>1, <2>1 DEF first_run_at, next_run_after
<1>4. Kept(kind) \in Entry
  BY <1>2, <1>3 DEF Kept, Entry
<1> QED  BY <1>1, <1>4

(* A change of the store keeps its type.                                   *)
LEMMA ChangeType ==
    ASSUME TypeOK, NEW j \in Jobs, NEW entry,
           Exists(j) => entry \in Entry, Change(j, entry)
    PROVE  /\ store' \in [Jobs -> Entry \cup {NoEntry}]
           /\ faults' \in 0..MaxFaults
<1>1. faults \in Nat /\ MaxFaults \in Nat
  BY BoundsAssumption DEF TypeOK
<1>2. store \in [Jobs -> Entry \cup {NoEntry}]
  BY DEF TypeOK
<1>3. ASSUME Exists(j), Stored([store EXCEPT ![j] = entry])
      PROVE  /\ store' \in [Jobs -> Entry \cup {NoEntry}]
             /\ faults' = faults
  BY <1>2, <1>3 DEF Stored
<1>4. ASSUME NotStored
      PROVE  store' = store /\ faults' \in 0..MaxFaults
  BY <1>1, <1>4 DEF NotStored
<1> QED  BY <1>1, <1>2, <1>3, <1>4 DEF Change, TypeOK

-----------------------------------------------------------------------------
(* Types.                                                                  *)

(* A pass has jobs before it, each with the time it was due.               *)
PassHasJobs ==
    \A p \in Procs : proc[p].pc \in Pass =>
        /\ proc[p].due # << >>
        /\ \A i \in DOMAIN proc[p].due : proc[p].due[i].entry.next \in Times

(* A client that goes on with a job has read it.                           *)
ClientHasRead ==
    \A c \in Clients :
        client[c].pc \in {"armed", "update", "trigger", "triggered"} =>
            client[c].entry \in Entry

TypeInv == TypeOK /\ PassHasJobs /\ ClientHasRead

(* What a pass takes from the store.                                       *)
LEMMA TickType ==
    ASSUME TypeOK, NEW q \in Orderings({j \in Jobs : is_due(j, now)}), NEW due,
           due = [i \in DOMAIN q |-> [job |-> q[i], entry |-> store[q[i]]]]
    PROVE  /\ due \in Seq(Snapshot)
           /\ q # << >> => due # << >>
           /\ \A i \in DOMAIN due : /\ is_due(due[i].job, now)
                                    /\ due[i].entry = store[due[i].job]
                                    /\ due[i].entry.next \in Times
           /\ \A i, k \in DOMAIN due : due[i].job = due[k].job => i = k
<1> DEFINE S == {j \in Jobs : is_due(j, now)}
<1> DEFINE n == Cardinality(S)
<1>1. IsFiniteSet(S)
  BY JobsAssumption, FS_Subset
<1>2. n \in Nat
  BY <1>1, FS_CardinalityType
<1>3. q \in [1..n -> S] /\ \A a, b \in DOMAIN q : q[a] = q[b] => a = b
  BY DEF Orderings
<1> HIDE DEF n
<1>4. \A j \in S : store[j] \in Entry /\ store[j].next \in Times
  BY DEF is_due, TypeOK, Entry, NextRun
<1>5. \A j \in S : [job |-> j, entry |-> store[j]] \in Snapshot
  BY <1>4 DEF Snapshot
<1>6. DOMAIN due = 1..n /\ \A i \in 1..n : due[i] = [job |-> q[i], entry |-> store[q[i]]]
  BY <1>3
<1>7. due \in [1..n -> Snapshot]
  BY <1>3, <1>5
<1>8. due \in Seq(Snapshot)
  BY <1>2, <1>7
<1>9. q # << >> => due # << >>
  <2>1. q \in Seq(S) /\ Len(q) = n /\ Len(due) = n
    BY <1>2, <1>3, <1>6, <1>7
  <2> QED  BY <2>1, <1>8
<1>10. \A i \in DOMAIN due : /\ is_due(due[i].job, now)
                              /\ due[i].entry = store[due[i].job]
                              /\ due[i].entry.next \in Times
  BY <1>3, <1>4, <1>6
<1>11. \A i, k \in DOMAIN due : due[i].job = due[k].job => i = k
  BY <1>3, <1>6
<1> QED  BY <1>8, <1>9, <1>10, <1>11

(* The job a pass is at.                                                   *)
LEMMA CurrentType ==
    ASSUME TypeInv, NEW p \in Procs, proc[p].pc \in Pass
    PROVE  /\ Current(p) \in Snapshot /\ Current(p) = proc[p].due[1]
           /\ 1 \in DOMAIN proc[p].due
           /\ Current(p).job \in Jobs /\ Current(p).entry \in Entry
           /\ Current(p).entry.next \in Times
           /\ Tail(proc[p].due) \in Seq(Snapshot)
<1>1. proc[p].due \in Seq(Snapshot) /\ proc[p].due # << >>
  BY DEF TypeInv, TypeOK, PassHasJobs
<1>2. /\ Head(proc[p].due) \in Snapshot /\ Head(proc[p].due) = proc[p].due[1]
      /\ 1 \in DOMAIN proc[p].due /\ Tail(proc[p].due) \in Seq(Snapshot)
  BY <1>1
<1> QED  BY <1>1, <1>2 DEF Current, Snapshot, TypeInv, PassHasJobs

(* The jobs of a pass.                                                     *)
LEMMA DueType ==
    ASSUME TypeInv, NEW p \in Procs, proc[p].pc \in Pass
    PROVE  \A i \in DOMAIN proc[p].due : /\ proc[p].due[i] \in Snapshot
                                         /\ proc[p].due[i].job \in Jobs
                                         /\ proc[p].due[i].entry.arming \in Nat
                                         /\ proc[p].due[i].entry.next \in Times
<1>1. proc[p].due \in Seq(Snapshot)
  BY DEF TypeInv, TypeOK
<1>2. \A i \in DOMAIN proc[p].due : proc[p].due[i] \in Snapshot
  BY <1>1
<1>3. \A s \in Snapshot : s.job \in Jobs /\ s.entry.arming \in Nat
  BY DEF Snapshot, Entry
<1> QED  BY <1>2, <1>3 DEF TypeInv, PassHasJobs

ClientRec == [pc : Operation, job : Jobs, entry : Entry \cup {NoEntry}]
Reading == {"armed", "update", "trigger", "triggered"}

(* A client goes on, or rests.                                             *)
LEMMA ThenType ==
    ASSUME TypeInv, NEW c \in Clients, NEW pc \in Operation, NEW j \in Jobs,
           NEW seen \in Entry \cup {NoEntry}, pc \in Reading => seen \in Entry,
           Then(c, pc, j, seen)
    PROVE  client' \in [Clients -> ClientRec] /\ ClientHasRead'
<1>1. Rested \in ClientRec /\ Rested.pc = "off"
  BY JobsAssumption DEF Rested, ClientRec, Operation
<1>2. client \in [Clients -> ClientRec] /\ ClientHasRead
  BY DEF TypeInv, TypeOK, ClientRec
<1> DEFINE next == IF pc = "off" THEN Rested ELSE [pc |-> pc, job |-> j, entry |-> seen]
<1>3. next \in ClientRec /\ (next.pc \in Reading => next.entry \in Entry)
  BY <1>1 DEF ClientRec, Reading
<1>4. client' = [client EXCEPT ![c] = next]
  BY DEF Then
<1> HIDE DEF next
<1>5. client' \in [Clients -> ClientRec]
  BY <1>2, <1>3, <1>4
<1>6. \A d \in Clients : client'[d] = next \/ client'[d] = client[d]
  BY <1>2, <1>4
<1> QED  BY <1>2, <1>3, <1>5, <1>6 DEF ClientHasRead, Reading

(* What clients want keeps its type.                                       *)
LEMMA WantsType ==
    ASSUME TypeOK, NEW j \in Jobs, NEW w,
           Exists(j) => w \in Want \cup {NoEntry}, Wants(j, w)
    PROVE  wanted' \in [Jobs -> Want \cup {NoEntry}]
<1>1. wanted \in [Jobs -> Want \cup {NoEntry}]
  BY DEF TypeOK, Want
<1> QED  BY <1>1 DEF Wants

(* A step of one scheduler thread.                                         *)
LEMMA ProcType ==
    ASSUME TypeInv, NEW p \in Procs,
           NEW r \in [pc : Scheduler, due : Seq(Snapshot), at : 0..MaxTime,
                      next : NextRun],
           r.pc \in Pass => /\ r.due # << >>
                            /\ \A i \in DOMAIN r.due : r.due[i].entry.next \in Times,
           proc' = [proc EXCEPT ![p] = r]
    PROVE  /\ proc' \in [Procs -> [pc : Scheduler, due : Seq(Snapshot),
                                    at : 0..MaxTime, next : NextRun]]
           /\ PassHasJobs'
<1>1. proc \in [Procs -> [pc : Scheduler, due : Seq(Snapshot), at : 0..MaxTime,
                          next : NextRun]]
  BY DEF TypeInv, TypeOK
<1>2. \A q \in Procs : proc'[q] = IF q = p THEN r ELSE proc[q]
  BY <1>1
<1>3. ASSUME NEW q \in Procs, proc'[q].pc \in Pass
      PROVE  /\ proc'[q].due # << >>
             /\ \A i \in DOMAIN proc'[q].due : proc'[q].due[i].entry.next \in Times
  BY <1>2, <1>3 DEF TypeInv, PassHasJobs
<1> QED  BY <1>1, <1>3 DEF PassHasJobs

ProcRec == [pc : Scheduler, due : Seq(Snapshot), at : 0..MaxTime, next : NextRun]

(* The same thread at another place, with another next run.                *)
Moved(p, pc, next) ==
    proc' = [proc EXCEPT ![p] = [pc |-> pc, due |-> proc[p].due,
                                 at |-> proc[p].at, next |-> next]]

(* Where the steps of a scheduler leave its thread.                        *)
LEMMA ThreadSteps ==
    ASSUME TypeInv, NEW p \in Procs
    PROVE  /\ try_lease(p) => Moved(p, "sleeping", proc[p].next)
           /\ Claim(p) => \E next \in NextRun, pc \in {"disable", "fire", "record"} :
                 /\ Moved(p, pc, next)
                 /\ next = None \/ next > proc[p].at
                 /\ Change(Current(p).job,
                           [Reloaded(Current(p).job, Current(p).entry)
                               EXCEPT !.next = next])
           /\ ClaimDisables(p) => \E pc \in {"fire", "record"} :
                                     Moved(p, pc, proc[p].next)
           /\ Fire(p) => Moved(p, "record", proc[p].next)
<1>1. proc \in [Procs -> ProcRec]
  BY DEF TypeInv, TypeOK, ProcRec
<1>2. proc[p] = [pc |-> proc[p].pc, due |-> proc[p].due, at |-> proc[p].at,
                 next |-> proc[p].next]
  BY <1>1 DEF ProcRec
<1>3. \A pc : [proc[p] EXCEPT !.pc = pc] =
               [pc |-> pc, due |-> proc[p].due, at |-> proc[p].at,
                next |-> proc[p].next]
  BY <1>1 DEF ProcRec
<1>4. \A pc : [proc EXCEPT ![p].pc = pc] =
               [proc EXCEPT ![p] = [proc[p] EXCEPT !.pc = pc]]
  BY <1>1
<1>5. \A pc : proc' = [proc EXCEPT ![p].pc = pc] => Moved(p, pc, proc[p].next)
  BY <1>3, <1>4 DEF Moved
<1>6. \A pc, n : [proc EXCEPT ![p].next = n, ![p].pc = pc] =
                  [proc EXCEPT ![p] = [pc |-> pc, due |-> proc[p].due,
                                       at |-> proc[p].at, next |-> n]]
  <2> SUFFICES ASSUME NEW pc, NEW n
               PROVE  [proc EXCEPT ![p].next = n, ![p].pc = pc] =
                      [proc EXCEPT ![p] = [pc |-> pc, due |-> proc[p].due,
                                           at |-> proc[p].at, next |-> n]]
    OBVIOUS
  <2> DEFINE r == [proc[p] EXCEPT !.next = n]
  <2>0. r = [pc |-> proc[p].pc, due |-> proc[p].due, at |-> proc[p].at, next |-> n]
    BY <1>1 DEF ProcRec
  <2> HIDE DEF r
  <2>1. [r EXCEPT !.pc = pc] =
        [pc |-> pc, due |-> proc[p].due, at |-> proc[p].at, next |-> n]
    BY <2>0
  <2>2. [proc EXCEPT ![p].next = n, ![p].pc = pc] =
        [proc EXCEPT ![p] = [r EXCEPT !.pc = pc]]
    BY <1>1 DEF r
  <2> QED  BY <2>1, <2>2
<1>7. try_lease(p) => Moved(p, "sleeping", proc[p].next)
  BY <1>5 DEF try_lease
<1>8. Fire(p) => Moved(p, "record", proc[p].next)
  BY <1>5 DEF Fire
<1>9. AfterClaim(p) \in {"fire", "record"}
  BY DEF AfterClaim
<1>10. ClaimDisables(p) => \E pc \in {"fire", "record"} : Moved(p, pc, proc[p].next)
  BY <1>5, <1>9 DEF ClaimDisables
<1>11. ASSUME Claim(p)
       PROVE  \E next \in NextRun, pc \in {"disable", "fire", "record"} :
                 /\ Moved(p, pc, next)
                 /\ next = None \/ next > proc[p].at
                 /\ Change(Current(p).job,
                           [Reloaded(Current(p).job, Current(p).entry)
                               EXCEPT !.next = next])
  <2> DEFINE e == Current(p).entry
             next == IF is_one_shot(e) THEN None ELSE next_run_after(e, proc[p].at)
             pc == IF is_one_shot(e) THEN "disable" ELSE AfterClaim(p)
  <2>1. proc[p].pc \in Pass
    BY <1>11 DEF Claim, Pass
  <2>2. e \in Entry /\ proc[p].at \in 0..MaxTime
    BY <2>1, <1>1, CurrentType DEF ProcRec
  <2>3. next \in NextRun /\ (next = None \/ next > proc[p].at)
    <3>1. /\ next_run_after(e, proc[p].at) \in NextRun
          /\ \/ next_run_after(e, proc[p].at) = None
             \/ next_run_after(e, proc[p].at) > proc[p].at
      BY <2>2, NextRunAfter
    <3> QED  BY <3>1 DEF NextRun
  <2>4. pc \in {"disable", "fire", "record"}
    BY <1>9
  <2>5. proc' = [proc EXCEPT ![p].next = next, ![p].pc = pc]
    BY <1>11 DEF Claim
  <2>6. Change(Current(p).job,
               [Reloaded(Current(p).job, Current(p).entry) EXCEPT !.next = next])
    BY <1>11 DEF Claim
  <2> HIDE DEF e, next, pc
  <2>7. Moved(p, pc, next)
    BY <2>5, <1>6 DEF Moved
  <2> QED  BY <2>3, <2>4, <2>6, <2>7
<1> QED  BY <1>7, <1>8, <1>10, <1>11

(* A thread that has moved keeps the types.                                *)
LEMMA MovedType ==
    ASSUME TypeInv, NEW p \in Procs, NEW pc \in Scheduler, NEW n \in NextRun,
           pc \in Pass => proc[p].pc \in Pass, Moved(p, pc, n)
    PROVE  proc' \in [Procs -> ProcRec] /\ PassHasJobs'
<1> DEFINE r == [pc |-> pc, due |-> proc[p].due, at |-> proc[p].at, next |-> n]
<1>1. r \in ProcRec /\ r.pc = pc /\ r.due = proc[p].due
  BY DEF TypeInv, TypeOK, ProcRec
<1>2. r.pc \in Pass => /\ r.due # << >>
                       /\ \A i \in DOMAIN r.due : r.due[i].entry.next \in Times
  BY <1>1 DEF TypeInv, PassHasJobs
<1>3. proc' = [proc EXCEPT ![p] = r]
  BY DEF Moved
<1> HIDE DEF r
<1> QED  BY <1>1, <1>2, <1>3, ProcType DEF ProcRec

(* The three places a step may change, each with the type it must keep.    *)
StoreTyped == /\ store \in [Jobs -> Entry \cup {NoEntry}]
              /\ faults \in 0..MaxFaults
ProcTyped == proc \in [Procs -> ProcRec] /\ PassHasJobs
ClientTyped == client \in [Clients -> ClientRec] /\ ClientHasRead
RestTyped ==
    /\ now \in 0..MaxTime /\ minted \subseteq Jobs
    /\ lease \in Procs \cup {Nobody}
    /\ ops \in 0..MaxOps /\ copies \subseteq [Jobs -> Entry \cup {NoEntry}]
    /\ wanted \in [Jobs -> Want \cup {NoEntry}]
    /\ fired \subseteq Jobs \X Nat \X Times
    /\ owed \subseteq Jobs /\ refired \subseteq Jobs
    /\ replaced \subseteq Jobs /\ undone \subseteq Jobs

(* The type invariant, in parts that are proved apart.                     *)
LEMMA TypeParts == TypeInv <=> StoreTyped /\ ProcTyped /\ ClientTyped /\ RestTyped
  BY DEF TypeInv, TypeOK, StoreTyped, ProcTyped, ClientTyped, RestTyped, ProcRec,
         ClientRec, Want

(* The program starts with these types ...                                 *)
LEMMA TypeInit == Init => TypeInv
<1> SUFFICES ASSUME Init PROVE TypeInv
  OBVIOUS
<1>1. Rested \in ClientRec /\ Rested.pc = "off"
  BY JobsAssumption DEF Rested, ClientRec, Operation
<1>2. Off \in ProcRec /\ Off.pc = "waiting"
  BY TimeAssumption DEF Off, ProcRec, Scheduler, NextRun
<1>3. ProcTyped
  BY <1>2 DEF Init, ProcTyped, PassHasJobs, Pass
<1>4. ClientTyped
  BY <1>1 DEF Init, ClientTyped, ClientHasRead
<1>5. StoreTyped /\ RestTyped
  <2>1. store \in [Jobs -> Entry \cup {NoEntry}]
    BY NewType DEF Init
  <2>2. wanted \in [Jobs -> Want \cup {NoEntry}]
    BY DEF Init, Want
  <2> QED
    BY <2>1, <2>2, TimeAssumption, BoundsAssumption DEF Init, StoreTyped, RestTyped
<1> QED  BY <1>3, <1>4, <1>5, TypeParts

(* ... the schedulers keep them ...                                        *)
LEMMA SchedulerTypes ==
    ASSUME TypeInv, NEW p \in Procs, SchedulerStep(p) \/ Crash(p) \/ Restart(p)
    PROVE  TypeInv'
<1> USE DEF boundVars, ghostVars
<1>0. StoreTyped /\ ProcTyped /\ ClientTyped /\ RestTyped
  BY TypeParts
<1>a. Off \in ProcRec /\ Off.pc = "waiting"
  BY TimeAssumption DEF Off, ProcRec, Scheduler, NextRun
<1>b. \A pc \in Scheduler : /\ [Off EXCEPT !.pc = pc] \in ProcRec
                             /\ [Off EXCEPT !.pc = pc].pc = pc
  BY <1>a DEF ProcRec
<1>1. /\ [Off EXCEPT !.pc = "down"] \in ProcRec
      /\ [Off EXCEPT !.pc = "down"].pc = "down"
      /\ [Off EXCEPT !.pc = "sleeping"] \in ProcRec
      /\ [Off EXCEPT !.pc = "sleeping"].pc = "sleeping"
  <2>1. "down" \in Scheduler /\ "sleeping" \in Scheduler
    BY DEF Scheduler
  <2> QED  BY <1>b, <2>1
<1>2. client' = client => ClientTyped'
  BY <1>0 DEF ClientTyped, ClientHasRead
<1>3. store' = store /\ faults' = faults => StoreTyped'
  BY <1>0 DEF StoreTyped
<1>p. StoreTyped' /\ ProcTyped' /\ ClientTyped' /\ RestTyped' => TypeInv'
  BY DEF TypeInv, TypeOK, StoreTyped, ProcTyped, ClientTyped, RestTyped, ProcRec,
         ClientRec, Want
<1>4. CASE try_lease(p)
  <2>1. ProcTyped'
    BY <1>0, <1>4, ThreadSteps, MovedType
       DEF ProcTyped, ProcRec, Pass, Scheduler
  <2>2. RestTyped'
    BY <1>0, <1>4 DEF try_lease, RestTyped
  <2> QED  BY <1>2, <1>3, <1>4, <2>1, <2>2, <1>p DEF try_lease
<1>5. CASE Tick(p)
  <2>1. PICK q \in Orderings({j \in Jobs : is_due(j, now)}) :
           /\ q # << >>
           /\ proc' = [proc EXCEPT ![p] =
                [pc |-> "claim", at |-> now, next |-> None,
                 due |-> [i \in DOMAIN q |->
                            [job |-> q[i], entry |-> store[q[i]]]]]]
    BY <1>5 DEF Tick
  <2> DEFINE due == [i \in DOMAIN q |-> [job |-> q[i], entry |-> store[q[i]]]]
             r == [pc |-> "claim", at |-> now, next |-> None, due |-> due]
  <2>2. /\ due \in Seq(Snapshot) /\ due # << >>
        /\ \A i \in DOMAIN due : due[i].entry.next \in Times
    BY <2>1, TickType DEF TypeInv
  <2> HIDE DEF due
  <2>3. r \in ProcRec /\ r.due = due
    BY <2>2, <1>0 DEF ProcRec, RestTyped, Scheduler, NextRun
  <2>4. proc' = [proc EXCEPT ![p] = r]
    BY <2>1 DEF due
  <2> HIDE DEF r
  <2>5. ProcTyped'
    BY <2>2, <2>3, <2>4, ProcType DEF ProcTyped, ProcRec
  <2>6. RestTyped'
    BY <1>0, <1>5 DEF Tick, RestTyped
  <2> QED  BY <1>2, <1>3, <1>5, <2>5, <2>6, <1>p DEF Tick
<1>6. CASE Claim(p)
  <2>1. proc[p].pc \in Pass
    BY <1>6 DEF Claim, Pass
  <2>2. Current(p).job \in Jobs /\ Current(p).entry \in Entry
    BY <2>1, CurrentType
  <2>3. PICK next \in NextRun, pc \in {"disable", "fire", "record"} :
           /\ Moved(p, pc, next)
           /\ Change(Current(p).job,
                     [Reloaded(Current(p).job, Current(p).entry) EXCEPT !.next = next])
    BY <1>6, ThreadSteps
  <2>4. Exists(Current(p).job) =>
          [Reloaded(Current(p).job, Current(p).entry) EXCEPT !.next = next] \in Entry
    <3>1. Exists(Current(p).job) => store[Current(p).job] \in Entry
      BY <1>0, <2>2 DEF Exists, StoreTyped
    <3> QED  BY <3>1, NextEdit DEF Reloaded
  <2>5. StoreTyped'
    BY <2>2, <2>3, <2>4, ChangeType DEF TypeInv, StoreTyped
  <2>6. ProcTyped'
    BY <2>1, <2>3, MovedType DEF ProcTyped, Scheduler
  <2>7. RestTyped'
    BY <1>0, <1>6, <2>2 DEF Claim, RestTyped
  <2> QED  BY <1>2, <1>6, <2>5, <2>6, <2>7, <1>p DEF Claim
<1>7. CASE ClaimDisables(p)
  <2>1. proc[p].pc \in Pass
    BY <1>7 DEF ClaimDisables, Pass
  <2>2. Current(p).job \in Jobs /\ Current(p).entry \in Entry
    BY <2>1, CurrentType
  <2>3. PICK pc \in {"fire", "record"} : Moved(p, pc, proc[p].next)
    BY <1>7, ThreadSteps
  <2>4. Exists(Current(p).job) =>
          [Reloaded(Current(p).job, Current(p).entry) EXCEPT !.enabled = FALSE] \in Entry
    <3>1. Exists(Current(p).job) => store[Current(p).job] \in Entry
      BY <1>0, <2>2 DEF Exists, StoreTyped
    <3> QED  BY <3>1, EnabledEdit DEF Reloaded
  <2>5. StoreTyped'
    BY <1>7, <2>2, <2>4, ChangeType DEF TypeInv, StoreTyped, ClaimDisables
  <2>6. ProcTyped'
    BY <1>0, <2>1, <2>3, MovedType DEF ProcTyped, Scheduler, ProcRec
  <2>7. RestTyped'
    BY <1>0, <1>7 DEF ClaimDisables, RestTyped
  <2> QED  BY <1>2, <1>7, <2>5, <2>6, <2>7, <1>p DEF ClaimDisables
<1>8. CASE Fire(p)
  <2>1. proc[p].pc \in Pass
    BY <1>8 DEF Fire, Pass
  <2>2. /\ Current(p).job \in Jobs /\ Current(p).entry \in Entry
        /\ Current(p).entry.next \in Times
    BY <2>1, CurrentType
  <2>3. ProcTyped'
    BY <1>0, <1>8, <2>1, ThreadSteps, MovedType DEF ProcTyped, Scheduler, ProcRec
  <2>4. <<Current(p).job, Current(p).entry.arming, Current(p).entry.next>>
           \in Jobs \X Nat \X Times
    BY <2>2 DEF Entry
  <2>5. RestTyped'
    BY <1>0, <1>8, <2>2, <2>4 DEF Fire, RestTyped, This
  <2> QED  BY <1>2, <1>3, <1>8, <2>3, <2>5, <1>p DEF Fire
<1>9. CASE Record(p)
  <2> DEFINE rest == Tail(proc[p].due)
             r == IF rest = << >> THEN [Off EXCEPT !.pc = "sleeping"]
                  ELSE [proc[p] EXCEPT !.pc = "claim", !.due = rest, !.next = None]
  <2>1. proc[p].pc \in Pass
    BY <1>9 DEF Record, Pass
  <2>2. Current(p).job \in Jobs /\ Current(p).entry \in Entry /\ rest \in Seq(Snapshot)
    BY <2>1, CurrentType
  <2>3. Exists(Current(p).job) =>
          [Reloaded(Current(p).job, Current(p).entry) EXCEPT !.next = proc[p].next] \in Entry
    <3>1. Exists(Current(p).job) => store[Current(p).job] \in Entry
      BY <1>0, <2>2 DEF Exists, StoreTyped
    <3>2. proc[p].next \in NextRun
      BY <1>0 DEF ProcTyped, ProcRec
    <3> QED  BY <3>1, <3>2, NextEdit DEF Reloaded
  <2>4. StoreTyped'
    BY <1>9, <2>2, <2>3, ChangeType DEF TypeInv, StoreTyped, Record
  <2>5. proc' = [proc EXCEPT ![p] = r]
    BY <1>9 DEF Record
  <2>6. /\ r \in ProcRec
        /\ r.pc \in Pass => r.due = rest /\ rest # << >>
    BY <1>0, <1>1, <2>2 DEF ProcTyped, ProcRec, Pass, Scheduler, NextRun
  <2>7. \A i \in DOMAIN rest : rest[i].entry.next \in Times
    BY <1>0, <2>1 DEF ProcTyped, ProcRec, PassHasJobs
  <2> HIDE DEF r
  <2>8. ProcTyped'
    BY <2>5, <2>6, <2>7, ProcType DEF ProcTyped, ProcRec
  <2>9. RestTyped'
    BY <1>0, <1>9 DEF Record, RestTyped
  <2> QED  BY <1>2, <1>9, <2>4, <2>8, <2>9, <1>p DEF Record
<1>10. CASE Crash(p)
  <2>1. ProcTyped'
    BY <1>1, <1>10, ProcType DEF Crash, ProcTyped, ProcRec, Pass
  <2>2. RestTyped'
    BY <1>0, <1>10 DEF Crash, RestTyped, LeaseAfter
  <2>3. StoreTyped'
    BY <1>0, <1>10, BoundsAssumption DEF Crash, StoreTyped
  <2> QED  BY <1>2, <1>10, <2>1, <2>2, <2>3, <1>p DEF Crash
<1>11. CASE Restart(p)
  <2>1. ProcTyped'
    BY <1>a, <1>11, ProcType DEF Restart, ProcTyped, ProcRec, Pass
  <2>2. RestTyped'
    BY <1>0, <1>11 DEF Restart, RestTyped
  <2> QED  BY <1>2, <1>3, <1>11, <2>1, <2>2, <1>p DEF Restart
<1> QED
  BY <1>4, <1>5, <1>6, <1>7, <1>8, <1>9, <1>10, <1>11 DEF SchedulerStep

(* ... and so do the clients ...                                           *)
LEMMA ClientTypes ==
    ASSUME TypeInv, NEW c \in Clients, ClientStep(c) \/ ClientDies(c)
    PROVE  TypeInv'
<1> USE DEF boundVars, ghostVars
<1>0. StoreTyped /\ ProcTyped /\ ClientTyped /\ RestTyped
  BY TypeParts
<1>1. proc' = proc => ProcTyped'
  BY <1>0 DEF ProcTyped, PassHasJobs
<1>2. store' = store /\ faults' = faults => StoreTyped'
  BY <1>0 DEF StoreTyped
<1>3. StoreTyped' /\ ProcTyped' /\ ClientTyped' /\ RestTyped' => TypeInv'
  BY DEF TypeInv, TypeOK, StoreTyped, ProcTyped, ClientTyped, RestTyped, ProcRec,
         ClientRec, Want
<1>4. client[c].job \in Jobs /\ \A j \in Jobs : Exists(j) => store[j] \in Entry
  BY <1>0 DEF ClientTyped, ClientRec, StoreTyped, Exists
<1>5. \A j \in Jobs : store[j] \in Entry \cup {NoEntry}
  BY <1>0 DEF StoreTyped
<1>6. Begins(c) => ops' \in 0..MaxOps
  BY <1>0, BoundsAssumption DEF Begins, RestTyped
<1>7. {"off", "arm", "armed", "update", "trigger", "triggered"} = Operation
  BY DEF Operation
<1>8. ASSUME NEW j \in Jobs, NEW kind \in Kinds,
             Create(c, j, kind) \/ CreateBlind(c, j, kind)
      PROVE  TypeInv'
  <2>1. New(kind) \in Entry /\ [enabled |-> TRUE] \in Want
    BY NewType DEF Want
  <2>2. StoreTyped'
    BY <1>0, <1>8, <2>1, BoundsAssumption
       DEF StoreTyped, Create, CreateBlind, Stored
  <2>3. Created(c, j) /\ (replaced' \subseteq Jobs /\ undone' \subseteq Jobs)
    BY <1>0, <1>8 DEF Create, CreateBlind, Replaces, RestTyped
  <2>4. ClientTyped'
    BY <2>3, <1>7, ThenType DEF Created, ClientTyped, Reading
  <2>5. RestTyped'
    BY <1>0, <1>6, <2>1, <2>3 DEF Created, RestTyped
  <2> QED  BY <1>1, <1>3, <2>2, <2>3, <2>4, <2>5 DEF Created
<1>18. ASSUME NEW j \in Jobs, CreateUnstored(c, j) PROVE TypeInv'
  <2>1. StoreTyped'
    BY <1>0, <1>18, BoundsAssumption DEF StoreTyped, CreateUnstored, NotStored
  <2>2. ClientTyped'
    BY <1>18, <1>7, ThenType DEF CreateUnstored, ClientTyped, Reading
  <2>3. RestTyped'
    BY <1>0, <1>6, <1>18 DEF CreateUnstored, RestTyped
  <2> QED  BY <1>1, <1>3, <1>18, <2>1, <2>2, <2>3 DEF CreateUnstored
<1>9. ASSUME NEW j \in Jobs, Remove(c, j) PROVE TypeInv'
  <2>1. StoreTyped'
    BY <1>0, <1>9, BoundsAssumption DEF Remove, StoreTyped, Stored, NotStored
  <2>2. ClientTyped'
    BY <1>0, <1>9 DEF Remove, ClientTyped, ClientHasRead
  <2>3. wanted' \in [Jobs -> Want \cup {NoEntry}]
    BY <1>9, WantsType DEF Remove, TypeInv
  <2>4. RestTyped'
    BY <1>0, <1>6, <1>9, <2>3 DEF Remove, RestTyped
  <2> QED  BY <1>1, <1>3, <1>9, <2>1, <2>2, <2>4 DEF Remove
<1>10. ASSUME NEW j \in Jobs, NEW enabled \in BOOLEAN, SetEnabled(c, j, enabled)
       PROVE  TypeInv'
  <2>1. Exists(j) /\ store[j] \in Entry
    BY <1>4, <1>10 DEF SetEnabled
  <2>2. [Reloaded(j, store[j]) EXCEPT !.enabled = enabled] \in Entry
    BY <2>1, EnabledEdit DEF Reloaded
  <2>3. StoreTyped'
    BY <1>10, <2>2, ChangeType DEF SetEnabled, Enables, TypeInv, StoreTyped
  <2>4. ClientTyped'
    <3>1. (IF Exists(j) /\ enabled THEN "arm" ELSE "off") \in Operation \ Reading
      BY DEF Operation, Reading
    <3> QED  BY <1>10, <3>1, ThenType DEF SetEnabled, Enables, ClientTyped
  <2>5. wanted' \in [Jobs -> Want \cup {NoEntry}]
    <3>1. [enabled |-> enabled] \in Want
      BY DEF Want
    <3> QED  BY <1>10, <2>1, <3>1, WantsType DEF SetEnabled, Enables, TypeInv
  <2>6. RestTyped'
    BY <1>0, <1>6, <1>10, <2>5 DEF SetEnabled, Enables, RestTyped
  <2> QED  BY <1>1, <1>3, <1>10, <2>3, <2>4, <2>6 DEF SetEnabled, Enables
<1>11. ASSUME NEW j \in Jobs, UpdateReads(c, j) \/ TriggerReads(c, j) PROVE TypeInv'
  <2>1. ClientTyped'
    BY <1>4, <1>7, <1>11, ThenType DEF UpdateReads, TriggerReads, ClientTyped
  <2>2. RestTyped'
    BY <1>0, <1>6, <1>11 DEF UpdateReads, TriggerReads, RestTyped
  <2> QED  BY <1>1, <1>2, <1>3, <1>11, <2>1, <2>2 DEF UpdateReads, TriggerReads
<1>12. ASSUME NEW kind \in Kinds, UpdateWrites(c, kind) PROVE TypeInv'
  <2> DEFINE j == client[c].job
  <2>1. j \in Jobs
    BY <1>4
  <2>2. Exists(j) => [Reloaded(j, client[c].entry) EXCEPT !.kind = kind] \in Entry
    BY <1>4, KindEdit DEF Reloaded
  <2>3. StoreTyped'
    BY <1>12, <2>1, <2>2, ChangeType DEF UpdateWrites, TypeInv, StoreTyped
  <2>4. ClientTyped'
    <3>1. (IF Exists(j) /\ kind # client[c].entry.kind THEN "arm" ELSE "off")
             \in Operation \ Reading
      BY DEF Operation, Reading
    <3> QED  BY <1>12, <2>1, <3>1, ThenType DEF UpdateWrites, ClientTyped
  <2>5. RestTyped'
    BY <1>0, <1>12 DEF UpdateWrites, RestTyped
  <2> QED  BY <1>1, <1>3, <1>12, <2>3, <2>4, <2>5 DEF UpdateWrites
<1>13. CASE ArmReads(c)
  <2>1. ClientTyped'
    BY <1>4, <1>5, <1>13, ThenType DEF ArmReads, ClientTyped, Operation, Reading
  <2>2. RestTyped'
    BY <1>0, <1>13 DEF ArmReads, RestTyped
  <2> QED  BY <1>1, <1>2, <1>3, <1>13, <2>1, <2>2 DEF ArmReads
<1>14. CASE ArmWrites(c)
  <2> DEFINE j == client[c].job
             n == first_run_at(client[c].entry, now)
  <2>1. n \in NextRun
    BY <1>0, <1>14, NextRunAfter DEF ArmWrites, ClientTyped, ClientHasRead, RestTyped
  <2> HIDE DEF n
  <2>2. Exists(j) => [Reloaded(j, client[c].entry) EXCEPT !.next = n, !.arming = @ + 1]
                        \in Entry
    <3> SUFFICES ASSUME Exists(j)
                 PROVE  [store[j] EXCEPT !.next = n, !.arming = @ + 1] \in Entry
      BY DEF Reloaded
    <3>1. /\ store[j] \in Entry /\ store[j].kind \in Kinds
          /\ store[j].enabled \in BOOLEAN /\ store[j].arming + 1 \in Nat
      BY <1>4 DEF Entry
    <3> QED  BY <2>1, <3>1 DEF Entry
  <2>3. StoreTyped'
    BY <1>4, <1>14, <2>2, ChangeType DEF ArmWrites, TypeInv, StoreTyped, n
  <2>4. ClientTyped'
    BY <1>4, <1>14, ThenType DEF ArmWrites, ClientTyped, Operation, Reading
  <2>5. RestTyped'
    BY <1>0, <1>14 DEF ArmWrites, RestTyped
  <2> QED  BY <1>1, <1>3, <1>14, <2>3, <2>4, <2>5 DEF ArmWrites
<1>15. CASE TriggerFires(c)
  <2>1. ClientTyped'
    BY <1>0, <1>4, <1>15, ThenType
       DEF TriggerFires, ClientTyped, ClientHasRead, Operation
  <2>2. RestTyped'
    BY <1>0, <1>15 DEF TriggerFires, RestTyped
  <2> QED  BY <1>1, <1>2, <1>3, <1>15, <2>1, <2>2 DEF TriggerFires
<1>16. CASE TriggerRecords(c)
  <2> DEFINE j == client[c].job
             n == TriggerNext(client[c].entry)
  <2>1. n \in NextRun
    BY <1>0, <1>16 DEF TriggerRecords, TriggerNext, ClientTyped, ClientHasRead,
                       Entry, NextRun
  <2> HIDE DEF n
  <2>2. Exists(j) => [Reloaded(j, client[c].entry) EXCEPT !.next = n] \in Entry
    BY <1>4, <2>1, NextEdit DEF Reloaded
  <2>3. StoreTyped'
    BY <1>4, <1>16, <2>2, ChangeType DEF TriggerRecords, TypeInv, StoreTyped, n
  <2>4. ClientTyped'
    BY <1>4, <1>16, ThenType DEF TriggerRecords, ClientTyped, Operation, Reading
  <2>5. RestTyped'
    BY <1>0, <1>4, <1>16 DEF TriggerRecords, RestTyped
  <2> QED  BY <1>1, <1>3, <1>16, <2>3, <2>4, <2>5 DEF TriggerRecords
<1>17. CASE ClientDies(c)
  <2>1. client' = [client EXCEPT ![c] = Rested] /\ Then(c, "off", client[c].job, NoEntry)
    BY <1>17 DEF ClientDies, Then
  <2>2. ClientTyped'
    BY <1>4, <2>1, ThenType DEF ClientTyped, Operation, Reading
  <2>3. RestTyped'
    BY <1>0, <1>17 DEF ClientDies, RestTyped
  <2>4. StoreTyped'
    BY <1>0, <1>17, BoundsAssumption DEF ClientDies, StoreTyped
  <2> QED  BY <1>1, <1>3, <1>17, <2>2, <2>3, <2>4 DEF ClientDies
<1> QED
  BY <1>8, <1>9, <1>10, <1>11, <1>12, <1>13, <1>14, <1>15, <1>16, <1>17, <1>18
     DEF ClientStep

(* ... and the changes without a lock ...                                  *)
LEMMA UnlockedTypes ==
    ASSUME TypeInv, UnlockedReads \/ \E s \in copies : UnlockedWrites(s)
    PROVE  TypeInv'
<1> USE DEF boundVars, ghostVars
<1>1. CASE UnlockedReads
  <2>1. copies' \subseteq [Jobs -> Entry \cup {NoEntry}] /\ faults' \in 0..MaxFaults
    BY <1>1, BoundsAssumption DEF UnlockedReads, TypeInv, TypeOK
  <2> QED
    BY <1>1, <2>1 DEF UnlockedReads, TypeInv, TypeOK, PassHasJobs, ClientHasRead
<1>2. ASSUME NEW s \in copies, UnlockedWrites(s) PROVE TypeInv'
  <2>1. /\ store' \in [Jobs -> Entry \cup {NoEntry}]
        /\ copies' \subseteq [Jobs -> Entry \cup {NoEntry}]
        /\ replaced' \subseteq Jobs /\ undone' \subseteq Jobs
    BY <1>2 DEF UnlockedWrites, Replaces, TypeInv, TypeOK
  <2> QED
    BY <1>2, <2>1 DEF UnlockedWrites, TypeInv, TypeOK, PassHasJobs, ClientHasRead
<1> QED  BY <1>1, <1>2

(* ... so they are kept.                                                   *)
LEMMA TypeStep == TypeInv /\ [Next]_vars => TypeInv'
<1> SUFFICES ASSUME TypeInv, [Next]_vars PROVE TypeInv'
  OBVIOUS
<1>1. CASE ClockTicks
  BY <1>1, TimeAssumption
     DEF ClockTicks, TypeInv, TypeOK, PassHasJobs, ClientHasRead, boundVars, ghostVars
<1>2. CASE UNCHANGED vars
  BY <1>2 DEF vars, TypeInv, TypeOK, PassHasJobs, ClientHasRead, boundVars, ghostVars
<1> QED  BY <1>1, <1>2, SchedulerTypes, ClientTypes, UnlockedTypes DEF Next

(* The types always hold.                                                  *)
LEMMA TypeAlways == Spec => []TypeInv
  BY TypeInit, TypeStep, PTL DEF Spec

-----------------------------------------------------------------------------
(* What clients removed or disabled stays so.                              *)

(* Only ids that were given out are stored.                                *)
StoredAreMinted == \A j \in Jobs : Exists(j) => j \in minted
CopiesAreMinted == \A s \in copies, j \in Jobs : s[j] # NoEntry => j \in minted

StayInv == NothingRevived /\ StoredAreMinted /\ CopiesAreMinted

(* What a change leaves: the new entry, or, when the write failed or the   *)
(* job is gone, the store as it was.                                       *)
LEMMA ChangeEffect ==
    ASSUME TypeOK, NEW j \in Jobs, NEW entry, Change(j, entry)
    PROVE  \/ /\ Exists(j) /\ faults' = faults
              /\ store' = [store EXCEPT ![j] = entry]
           \/ store' = store /\ (~Exists(j) \/ faults' # faults)
<1>1. faults + 1 # faults
  BY BoundsAssumption DEF TypeOK
<1>2. CASE Exists(j) /\ Stored([store EXCEPT ![j] = entry])
  BY <1>2 DEF Stored
<1>3. CASE NotStored
  BY <1>1, <1>3 DEF NotStored
<1>4. CASE ~Exists(j)
  BY <1>4 DEF Change
<1> QED  BY <1>2, <1>3, <1>4 DEF Change

(* A step that enables nothing and brings nothing back.                    *)
Tame ==
    /\ \A j \in Jobs : \/ store'[j] = store[j]
                        \/ /\ Exists(j) /\ store'[j] \in Entry
                           /\ store'[j].enabled = store[j].enabled \/ ~store'[j].enabled
    /\ copies' \subseteq copies \cup {store}
    /\ UNCHANGED <<wanted, minted, replaced>>

(* Steps that bring back nothing that clients removed or changed.          *)
LEMMA TameKeeps ==
    ASSUME TypeInv, StayInv, Tame
    PROVE  StayInv'
<1>0. /\ wanted' = wanted /\ minted' = minted /\ replaced' = replaced
      /\ copies' \subseteq copies \cup {store}
  BY DEF Tame
<1>1. CopiesAreMinted'
  BY <1>0, Zenon DEF StayInv, CopiesAreMinted, StoredAreMinted, Exists
<1> SUFFICES ASSUME NEW j \in Jobs
             PROVE  /\ Exists(j)' => j \in minted
                    /\ j \notin replaced =>
                          /\ Exists(j)' <=> wanted[j] # NoEntry
                          /\ Exists(j)' /\ store'[j].enabled => wanted[j].enabled
  BY <1>0, <1>1, Zenon DEF StayInv, NothingRevived, StoredAreMinted, Exists
<1>2. /\ Exists(j) => j \in minted
      /\ j \notin replaced => /\ Exists(j) <=> wanted[j] # NoEntry
                              /\ Exists(j) /\ store[j].enabled => wanted[j].enabled
  BY Zenon DEF StayInv, NothingRevived, StoredAreMinted
<1>3. CASE store'[j] = store[j]
  BY <1>2, <1>3, Zenon DEF Exists
<1>4. CASE /\ Exists(j) /\ store'[j] \in Entry
           /\ store'[j].enabled = store[j].enabled \/ ~store'[j].enabled
  <2>1. store'[j] # NoEntry
    BY <1>4, EntryIsSome
  <2> QED  BY <1>2, <1>4, <2>1, Zenon DEF Exists
<1> QED  BY <1>3, <1>4, Zenon DEF Tame

(* A change of the next run, or one that disables, is tame.                *)
LEMMA EditIsTame ==
    ASSUME TypeInv, NEW j \in Jobs, NEW entry, Change(j, entry),
           Exists(j) => /\ entry \in Entry
                        /\ entry.enabled = store[j].enabled \/ ~entry.enabled,
           UNCHANGED <<wanted, minted, replaced, copies>>
    PROVE  Tame
<1>1. \/ Exists(j) /\ store' = [store EXCEPT ![j] = entry]
      \/ store' = store
  BY ChangeEffect DEF TypeInv
<1>2. store \in [Jobs -> Entry \cup {NoEntry}]
  BY DEF TypeInv, TypeOK
<1>3. \A k \in Jobs : \/ store'[k] = store[k]
                      \/ k = j /\ Exists(j) /\ store'[k] = entry
  BY <1>1, <1>2
<1> QED  BY <1>3, Zenon DEF Tame

(* Entries with another next run.                                          *)
LEMMA NextEditKeeps ==
    ASSUME NEW e \in Entry, NEW n \in NextRun
    PROVE  /\ [e EXCEPT !.next = n].kind = e.kind
           /\ [e EXCEPT !.next = n].enabled = e.enabled
           /\ [e EXCEPT !.next = n].arming = e.arming
           /\ [e EXCEPT !.next = n].next = n
  BY DEF Entry

(* The scheduler is tame: its passes and its death.                        *)
LEMMA SchedulerIsTame ==
    ASSUME TypeInv, NEW p \in Procs, SchedulerStep(p) \/ Crash(p) \/ Restart(p)
    PROVE  Tame
<1>1. CASE try_lease(p) \/ Tick(p) \/ Fire(p) \/ Crash(p) \/ Restart(p)
  BY <1>1, Zenon DEF try_lease, Tick, Fire, Crash, Restart, Tame, ghostVars
<1> DEFINE j == Current(p).job
           e == Reloaded(j, Current(p).entry)
<1>2. proc[p].pc \in Pass => /\ j \in Jobs /\ proc[p].next \in NextRun
                             /\ Exists(j) => e \in Entry /\ e = store[j]
  <2>1. proc[p].pc \in Pass => j \in Jobs
    BY CurrentType
  <2> QED  BY <2>1 DEF TypeInv, TypeOK, Exists, Reloaded
<1> HIDE DEF j, e
<1>3. CASE Claim(p)
  <2>1. PICK next \in NextRun : Change(j, [e EXCEPT !.next = next])
    BY <1>3, ThreadSteps DEF j, e
  <2>2. Exists(j) => /\ [e EXCEPT !.next = next] \in Entry
                     /\ [e EXCEPT !.next = next].enabled = store[j].enabled
    BY <1>2, <1>3, NextEdit, NextEditKeeps DEF Claim, Pass
  <2> QED  BY <1>2, <1>3, <2>1, <2>2, EditIsTame DEF Claim, Pass
<1>4. CASE Record(p)
  <2>1. Change(j, [e EXCEPT !.next = proc[p].next])
    BY <1>4 DEF Record, j, e
  <2>2. Exists(j) => /\ [e EXCEPT !.next = proc[p].next] \in Entry
                     /\ [e EXCEPT !.next = proc[p].next].enabled = store[j].enabled
    BY <1>2, <1>4, NextEdit, NextEditKeeps DEF Record, Pass
  <2> QED  BY <1>2, <1>4, <2>1, <2>2, EditIsTame DEF Record, Pass, ghostVars
<1>5. CASE ClaimDisables(p)
  <2>1. Change(j, [e EXCEPT !.enabled = FALSE])
    BY <1>5 DEF ClaimDisables, j, e
  <2>2. Exists(j) => /\ [e EXCEPT !.enabled = FALSE] \in Entry
                     /\ ~[e EXCEPT !.enabled = FALSE].enabled
    BY <1>2, <1>5 DEF ClaimDisables, Pass, Entry
  <2> QED  BY <1>2, <1>5, <2>1, <2>2, EditIsTame DEF ClaimDisables, Pass, ghostVars
<1> QED  BY <1>1, <1>3, <1>4, <1>5 DEF SchedulerStep

(* Clients get what they ask for, and keep it.                             *)
LEMMA ClientStays ==
    ASSUME TypeInv, StayInv, NEW c \in Clients, ClientStep(c) \/ ClientDies(c)
    PROVE  StayInv'
<1>1. \A j \in Jobs : /\ store[j] \in Entry \cup {NoEntry}
                      /\ wanted[j] \in Want \cup {NoEntry}
                      /\ Exists(j) => store[j] \in Entry
  BY Zenon DEF TypeInv, TypeOK, Want, Exists
<1>2. store \in [Jobs -> Entry \cup {NoEntry}] /\ wanted \in [Jobs -> Want \cup {NoEntry}]
  BY DEF TypeInv, TypeOK, Want
<1>3. /\ client[c].job \in Jobs /\ now \in 0..MaxTime
      /\ client[c].pc \in Reading => client[c].entry \in Entry
  BY DEF TypeInv, TypeOK, ClientHasRead, Reading
<1>4. faults + 1 # faults
  BY BoundsAssumption DEF TypeInv, TypeOK
\* One job is given another entry, and clients want it so; others may be
\* replaced.
<1>5. ASSUME NEW j \in Jobs, NEW e \in Entry \cup {NoEntry}, NEW w \in Want \cup {NoEntry},
             store'[j] = e, wanted' = [wanted EXCEPT ![j] = w],
             \A k \in Jobs \ {j} : \/ store'[k] = store[k]
                                   \/ k \in replaced' /\ store'[k] = NoEntry,
             \/ e = NoEntry /\ w = NoEntry
             \/ e \in Entry /\ w \in Want /\ (e.enabled => w.enabled),
             minted' = minted \cup {j} \/ (minted' = minted /\ Exists(j)),
             replaced \subseteq replaced', copies' = copies
      PROVE  StayInv'
  <2>1. \A k \in Jobs : wanted'[k] = IF k = j THEN w ELSE wanted[k]
    BY <1>2, <1>5
  <2>2. ASSUME NEW k \in Jobs \ replaced'
        PROVE  /\ Exists(k)' <=> wanted'[k] # NoEntry
               /\ Exists(k)' /\ store'[k].enabled => wanted'[k].enabled
    <3>1. CASE k = j
      BY <1>5, <2>1, <3>1, EntryIsSome, Zenon DEF Exists
    <3>2. CASE k # j
      <4>1. store'[k] = store[k] /\ wanted'[k] = wanted[k] /\ k \in Jobs \ replaced
        BY <1>5, <2>1, <3>2
      <4> QED  BY <4>1, Zenon DEF StayInv, NothingRevived, Exists
    <3> QED  BY <3>1, <3>2
  <2>3. \A k \in Jobs : k \in minted => k \in minted'
    BY <1>5
  <2>4. StoredAreMinted'
    <3> SUFFICES ASSUME NEW k \in Jobs, Exists(k)' PROVE k \in minted'
      BY Zenon DEF StoredAreMinted, Exists
    <3>1. CASE k = j
      BY <1>5, <3>1 DEF StayInv, StoredAreMinted
    <3>2. CASE k # j
      BY <1>5, <2>3, <3>2 DEF StayInv, StoredAreMinted, Exists
    <3> QED  BY <3>1, <3>2
  <2>5. CopiesAreMinted'
    BY <1>5, <2>3, Zenon DEF StayInv, CopiesAreMinted
  <2> QED  BY <2>2, <2>4, <2>5, Zenon DEF StayInv, NothingRevived
<1>6. ASSUME store' = store, UNCHANGED <<wanted, minted, replaced, copies>> PROVE StayInv'
  <2>1. Tame
    BY <1>6, Zenon DEF Tame
  <2> QED  BY <2>1, TameKeeps
\* One job is given another entry, and nothing else changes.
<1>7. ASSUME NEW j \in Jobs, NEW e \in Entry \cup {NoEntry}, NEW w \in Want \cup {NoEntry},
             store' = [store EXCEPT ![j] = e], wanted' = [wanted EXCEPT ![j] = w],
             \/ e = NoEntry /\ w = NoEntry
             \/ e \in Entry /\ w \in Want /\ (e.enabled => w.enabled),
             minted' = minted \cup {j} \/ (minted' = minted /\ Exists(j)),
             UNCHANGED <<replaced, copies>>
      PROVE  StayInv'
  <2>1. store'[j] = e /\ \A k \in Jobs \ {j} : store'[k] = store[k]
    BY <1>2, <1>7
  <2> QED  BY <1>5, <1>7, <2>1
<1>8. ASSUME NEW j \in Jobs, NEW kind \in Kinds,
             Create(c, j, kind) \/ CreateBlind(c, j, kind)
      PROVE  StayInv'
  <2> DEFINE w == [enabled |-> TRUE]
  <2>1. New(kind) \in Entry /\ w \in Want /\ w.enabled
    BY NewType DEF Want
  <2> HIDE DEF w
  <2>2. CASE Create(c, j, kind)
    BY <1>7, <2>1, <2>2 DEF Create, Created, Stored, w
  <2>4. CASE CreateBlind(c, j, kind)
    <3>1. /\ \A k \in Jobs : store'[k] = IF k = j THEN New(kind) ELSE NoEntry
          /\ wanted' = [wanted EXCEPT ![j] = w] /\ minted' = minted \cup {j}
          /\ copies' = copies
      BY <2>4 DEF CreateBlind, Created, w
    <3> DEFINE t == [k \in Jobs |-> IF k = j THEN New(kind) ELSE NoEntry]
               u == [t EXCEPT ![j] = store[j]]
    <3>2. replaced' = replaced \cup {k \in Jobs : u[k] # store[k]}
      BY <2>4 DEF CreateBlind, Replaces
    <3>3. \A k \in Jobs \ {j} : u[k] = NoEntry
      OBVIOUS
    <3> HIDE DEF t, u
    <3>4. \A k \in Jobs \ {j} : \/ store'[k] = store[k]
                                \/ k \in replaced' /\ store'[k] = NoEntry
      BY <3>1, <3>2, <3>3
    <3>5. replaced \subseteq replaced' /\ store'[j] = New(kind)
      BY <3>1, <3>2
    <3> QED  BY <1>5, <2>1, <3>1, <3>4, <3>5
  <2> QED  BY <1>8, <2>2, <2>4
<1>16. ASSUME NEW j \in Jobs, CreateUnstored(c, j) PROVE StayInv'
  BY <1>6, <1>16 DEF CreateUnstored, NotStored, ghostVars
<1>9. ASSUME NEW j \in Jobs, Remove(c, j) PROVE StayInv'
  <2>1. Exists(j) /\ UNCHANGED <<minted, copies, replaced>>
    BY <1>9 DEF Remove
  <2>2. CASE store' = [store EXCEPT ![j] = NoEntry] /\ faults' = faults
    BY <1>7, <1>9, <2>1, <2>2 DEF Remove, Wants
  <2>3. CASE store' = store /\ faults' # faults
    BY <1>6, <1>9, <2>1, <2>3 DEF Remove, Wants
  <2> QED  BY <1>4, <1>9, <2>2, <2>3 DEF Remove, Stored, NotStored
<1>10. ASSUME NEW j \in Jobs, NEW enabled \in BOOLEAN, SetEnabled(c, j, enabled)
       PROVE  StayInv'
  <2> DEFINE e == [Reloaded(j, store[j]) EXCEPT !.enabled = enabled]
             w == [enabled |-> enabled]
  <2>1. /\ Exists(j) /\ Change(j, e) /\ Wants(j, w)
        /\ UNCHANGED <<minted, replaced, copies>>
    BY <1>10 DEF SetEnabled, Enables
  <2>2. store[j] \in Entry
    BY <1>1, <2>1
  <2>3. e \in Entry /\ e.enabled = enabled
    BY <2>2 DEF Reloaded, Entry
  <2>4. w \in Want /\ w.enabled = enabled
    BY DEF Want
  <2> HIDE DEF e, w
  <2>5. CASE faults' = faults /\ store' = [store EXCEPT ![j] = e]
    BY <1>7, <2>1, <2>3, <2>4, <2>5 DEF Wants
  <2>6. CASE store' = store /\ faults' # faults
    BY <1>6, <2>1, <2>6 DEF Wants
  <2> QED  BY <2>1, <2>5, <2>6, ChangeEffect DEF TypeInv
<1>11. ASSUME NEW kind \in Kinds, UpdateWrites(c, kind) PROVE StayInv'
  <2> DEFINE j == client[c].job
             e == [Reloaded(j, client[c].entry) EXCEPT !.kind = kind]
  <2>1. Exists(j) => e \in Entry /\ e.enabled = store[j].enabled
    BY <1>1, <1>3 DEF Reloaded, Entry
  <2>2. Change(j, e) /\ UNCHANGED <<wanted, minted, replaced, copies>>
    BY <1>11 DEF UpdateWrites, ghostVars
  <2> HIDE DEF e
  <2> QED  BY <1>3, <2>1, <2>2, EditIsTame, TameKeeps
<1>12. CASE ArmReads(c) \/ TriggerFires(c) \/ ClientDies(c)
  BY <1>6, <1>12 DEF ArmReads, TriggerFires, ClientDies, ghostVars
<1>13. ASSUME NEW j \in Jobs, UpdateReads(c, j) \/ TriggerReads(c, j) PROVE StayInv'
  BY <1>6, <1>13 DEF UpdateReads, TriggerReads, ghostVars
<1>14. CASE ArmWrites(c)
  <2> DEFINE j == client[c].job
             n == first_run_at(client[c].entry, now)
             e == [Reloaded(j, client[c].entry) EXCEPT !.next = n, !.arming = @ + 1]
  <2>1. n \in NextRun
    BY <1>3, <1>14, NextRunAfter DEF ArmWrites, Reading
  <2> HIDE DEF n
  <2>2. Exists(j) => e \in Entry /\ e.enabled = store[j].enabled
    <3> SUFFICES ASSUME Exists(j)
                 PROVE  e \in Entry /\ e.enabled = store[j].enabled
      OBVIOUS
    <3>1. /\ store[j] \in Entry /\ store[j].kind \in Kinds
          /\ store[j].enabled \in BOOLEAN /\ store[j].arming + 1 \in Nat
      BY <1>1, <1>3 DEF Entry
    <3> QED  BY <2>1, <3>1 DEF Entry, Reloaded
  <2>3. Change(j, e) /\ UNCHANGED <<wanted, minted, replaced, copies>>
    BY <1>14 DEF ArmWrites, ghostVars, n
  <2> HIDE DEF e
  <2> QED  BY <1>3, <2>2, <2>3, EditIsTame, TameKeeps
<1>15. CASE TriggerRecords(c)
  <2> DEFINE j == client[c].job
             n == TriggerNext(client[c].entry)
             e == [Reloaded(j, client[c].entry) EXCEPT !.next = n]
  <2>1. n \in NextRun
    BY <1>3, <1>15 DEF TriggerRecords, Reading, TriggerNext, Entry, NextRun
  <2> HIDE DEF n
  <2>2. Exists(j) => e \in Entry /\ e.enabled = store[j].enabled
    BY <1>1, <1>3, <2>1, NextEdit, NextEditKeeps DEF Reloaded
  <2>3. Change(j, e) /\ UNCHANGED <<wanted, minted, replaced, copies>>
    BY <1>15 DEF TriggerRecords, n
  <2> HIDE DEF e
  <2> QED  BY <1>3, <2>2, <2>3, EditIsTame, TameKeeps
<1> QED
  BY <1>8, <1>9, <1>10, <1>11, <1>12, <1>13, <1>14, <1>15, <1>16 DEF ClientStep

(* A change without a lock replaces entries, and brings no new id.         *)
LEMMA UnlockedStays ==
    ASSUME TypeInv, StayInv, NEW s \in copies, UnlockedWrites(s)
    PROVE  StayInv'
<1>1. /\ store' = s /\ copies' \subseteq copies /\ UNCHANGED <<wanted, minted>>
      /\ replaced' = replaced \cup {j \in Jobs : s[j] # store[j]}
  BY DEF UnlockedWrites, Replaces
<1>2. \A j \in Jobs \ replaced' : j \in Jobs \ replaced /\ store'[j] = store[j]
  BY <1>1
<1>3. NothingRevived'
  BY <1>1, <1>2, Zenon DEF StayInv, NothingRevived, Exists
<1>4. StoredAreMinted' /\ CopiesAreMinted'
  BY <1>1, Zenon DEF StayInv, StoredAreMinted, CopiesAreMinted, Exists
<1> QED  BY <1>3, <1>4, Zenon DEF StayInv

(* Every step keeps what clients asked for.                                *)
LEMMA StayStep == TypeInv /\ StayInv /\ [Next]_vars => StayInv'
<1> SUFFICES ASSUME TypeInv, StayInv, [Next]_vars PROVE StayInv'
  OBVIOUS
<1>1. CASE ClockTicks \/ UnlockedReads \/ UNCHANGED vars
  <2>1. /\ store' = store /\ UNCHANGED <<wanted, minted, replaced>>
        /\ copies' \subseteq copies \cup {store}
    BY <1>1, Zenon DEF ClockTicks, UnlockedReads, vars, ghostVars
  <2>2. Tame
    BY <2>1, Zenon DEF Tame
  <2> QED  BY <2>2, TameKeeps
<1> QED  BY <1>1, SchedulerIsTame, TameKeeps, ClientStays, UnlockedStays DEF Next

(* It holds at first ...                                                   *)
LEMMA StayInit == Init => StayInv
<1> SUFFICES ASSUME Init PROVE StayInv
  OBVIOUS
<1>1. \A j \in Jobs : /\ wanted[j] = IF Exists(j) THEN [enabled |-> TRUE] ELSE NoEntry
                      /\ Exists(j) => j \in minted
  BY DEF Init
<1>2. [enabled |-> TRUE].enabled /\ [enabled |-> TRUE] # NoEntry
  <2>1. [enabled |-> TRUE] \in Want
    BY DEF Want
  <2> QED  BY <2>1, EntryIsSome
<1>3. NothingRevived /\ StoredAreMinted
  BY <1>1, <1>2 DEF NothingRevived, StoredAreMinted
<1>4. CopiesAreMinted
  BY DEF Init, CopiesAreMinted
<1> QED  BY <1>3, <1>4 DEF StayInv

(* ... and always.                                                         *)
LEMMA StayAlways == Spec => []StayInv
  BY StayInit, StayStep, TypeAlways, PTL DEF Spec

(* No pass, trigger or update that works from an older copy of a job       *)
(* brings back one that a client removed or enables one that a client      *)
(* disabled, whatever processes die and whichever writes fail; only a      *)
(* change that had no lock or could not read the file does                 *)
(* (CronRegistry::modify).                                                 *)
THEOREM NoneRevived == Spec => []NothingRevived
  BY StayAlways, PTL DEF StayInv

-----------------------------------------------------------------------------
(* A run is fired once.                                                    *)

(* One thread at a time goes through passes.                               *)
LeaseIsHeld ==
    \A p \in Procs : proc[p].pc \notin {"down", "waiting"} => lease = p

(* The store is past the run of job j that was due at d, under arming a.   *)
Past(j, a, d) ==
    Exists(j) => \/ a < store[j].arming
                 \/ /\ a = store[j].arming
                    /\ store[j].next = None \/ d < store[j].next

(* Runs that were fired were due, and are past unless their claim did not  *)
(* last.                                                                   *)
FiredArePast ==
    \A j \in Jobs, a \in Nat, d \in Times : <<j, a, d>> \in fired =>
        d <= now /\ j \in minted /\ (j \in undone \/ Past(j, a, d))

(* What a pass knows.  It began after every run that was fired before it,  *)
(* its jobs differ, the runs it has still to fire are new, and the one it  *)
(* has claimed is past.                                                    *)
Unfired(s) == <<s.job, s.entry.arming, s.entry.next>> \notin fired

PassBegan(p) ==
    /\ proc[p].at <= now
    /\ \A j \in Jobs, a \in Nat, d \in Times : <<j, a, d>> \in fired => d <= proc[p].at
PassDiffers(p) ==
    \A i, k \in DOMAIN proc[p].due : proc[p].due[i].job = proc[p].due[k].job => i = k
PassIsDue(p) ==
    \A i \in DOMAIN proc[p].due :
        LET s == proc[p].due[i]
        IN  /\ s.job \in minted /\ s.entry.next <= proc[p].at
            /\ \/ ~Exists(s.job) \/ s.job \in undone
               \/ s.entry.arming <= store[s.job].arming
PassIsNew(p) ==
    \A i \in DOMAIN proc[p].due :
        (i > 1 \/ proc[p].pc # "record") =>
            proc[p].due[i].job \in undone \/ Unfired(proc[p].due[i])
PassClaimed(p) ==
    LET s == proc[p].due[1] IN
    /\ proc[p].pc \in {"disable", "fire", "record"} =>
            proc[p].next = None \/ proc[p].next > proc[p].at
    /\ proc[p].pc \in {"disable", "fire"} =>
            s.job \in undone \/ Past(s.job, s.entry.arming, s.entry.next)

PassOK(p) == /\ PassBegan(p) /\ PassDiffers(p) /\ PassIsDue(p)
             /\ PassIsNew(p) /\ PassClaimed(p)

RunInv ==
    /\ LeaseIsHeld /\ FiredArePast /\ RunFiresOnce
    /\ \A p \in Procs : proc[p].pc \in Pass => PassOK(p)

(* No run has been fired at first.                                         *)
LEMMA RunInit == Init => RunInv
  BY DEF Init, RunInv, LeaseIsHeld, FiredArePast, RunFiresOnce, Off, Pass

(* Steps in which no job's runs come back: its entry is gone or as it was, *)
(* or was armed anew, or the job is new or undone.                         *)
Onward(j) ==
    \/ ~Exists(j)'
    \/ j \notin minted \/ j \in undone'
    \/ /\ Exists(j) /\ store[j] \in Entry /\ store'[j] \in Entry
       /\ store'[j].arming >= store[j].arming
       /\ \/ store'[j].arming > store[j].arming
          \/ store'[j].next \in {store[j].next, None}

Aside ==
    /\ \A j \in Jobs : Onward(j)
    /\ minted \subseteq minted' /\ undone \subseteq undone'
    /\ now' \in Nat /\ now' >= now
    /\ LeaseIsHeld'
    /\ \A p \in Procs : proc'[p].pc \in Pass => proc'[p] = proc[p]
    /\ UNCHANGED <<fired, refired>>

(* Past runs stay past through them ...                                    *)
LEMMA PastStays ==
    ASSUME NEW j \in Jobs, Onward(j), j \in minted, NEW a \in Nat, NEW d \in Times,
           Past(j, a, d)
    PROVE  j \in undone' \/ Past(j, a, d)'
<1>1. CASE ~Exists(j)'
  BY <1>1 DEF Past, Exists
<1>2. CASE /\ Exists(j) /\ store[j] \in Entry /\ store'[j] \in Entry
           /\ store'[j].arming >= store[j].arming
           /\ \/ store'[j].arming > store[j].arming
              \/ store'[j].next \in {store[j].next, None}
  <2>1. store[j].arming \in Nat /\ store'[j].arming \in Nat
    BY <1>2 DEF Entry
  <2> QED  BY <1>2, <2>1 DEF Past, Exists
<1> QED  BY <1>1, <1>2 DEF Onward

(* ... and so does everything a pass knows.                                *)
LEMMA AsideKeeps ==
    ASSUME TypeInv, RunInv, Aside
    PROVE  RunInv'
<1>0. now \in Nat /\ \A d \in Times : d \in Nat
  BY TimeAssumption DEF TypeInv, TypeOK, Times
<1>1. LeaseIsHeld' /\ RunFiresOnce'
  BY DEF RunInv, LeaseIsHeld, RunFiresOnce, Aside
<1>2. FiredArePast'
  <2> SUFFICES ASSUME NEW j \in Jobs, NEW a \in Nat, NEW d \in Times, <<j, a, d>> \in fired'
               PROVE  d <= now' /\ j \in minted' /\ (j \in undone' \/ Past(j, a, d)')
    BY DEF FiredArePast
  <2>1. d <= now /\ j \in minted /\ (j \in undone \/ Past(j, a, d))
    BY DEF Aside, RunInv, FiredArePast
  <2>2. j \in undone' \/ Past(j, a, d)'
    BY <2>1, PastStays DEF Aside
  <2> QED  BY <1>0, <2>1, <2>2 DEF Aside
<1>3. ASSUME NEW p \in Procs, proc'[p].pc \in Pass PROVE PassOK(p)'
  <2>1. /\ proc'[p] = proc[p] /\ fired' = fired /\ minted \subseteq minted'
        /\ undone \subseteq undone' /\ now' \in Nat /\ now' >= now
        /\ \A j \in Jobs : Onward(j)
    BY <1>3 DEF Aside
  <2>2. PassOK(p) /\ proc[p].pc \in Pass /\ proc[p].at \in Nat
    BY <1>3, <2>1 DEF RunInv, TypeInv, TypeOK
  <2>3. \A i \in DOMAIN proc[p].due : /\ proc[p].due[i] \in Snapshot
                                      /\ proc[p].due[i].job \in Jobs
                                      /\ proc[p].due[i].entry.arming \in Nat
                                      /\ proc[p].due[i].entry.next \in Times
    BY <2>2, DueType
  <2>4. PassBegan(p)'
    BY <1>0, <2>1, <2>2 DEF PassOK, PassBegan
  <2>5. PassDiffers(p)'
    BY <2>1, <2>2 DEF PassOK, PassDiffers
  <2>6. PassIsDue(p)'
    <3> SUFFICES ASSUME NEW i \in DOMAIN proc[p].due
                 PROVE  LET s == proc[p].due[i]
                        IN  /\ s.job \in minted' /\ s.entry.next <= proc[p].at
                            /\ \/ ~Exists(s.job)' \/ s.job \in undone'
                               \/ s.entry.arming <= store'[s.job].arming
      BY <2>1 DEF PassIsDue, Exists
    <3> DEFINE s == proc[p].due[i]
    <3>1. /\ s.job \in minted /\ s.entry.next <= proc[p].at
          /\ \/ ~Exists(s.job) \/ s.job \in undone
             \/ s.entry.arming <= store[s.job].arming
      BY <2>2 DEF PassOK, PassIsDue
    <3>2. Onward(s.job) /\ s.entry.arming \in Nat
      BY <2>1, <2>3
    <3> HIDE DEF s
    <3>3. ASSUME Exists(s.job)', s.job \notin undone'
          PROVE  s.entry.arming <= store'[s.job].arming
      <4>1. /\ Exists(s.job) /\ store[s.job] \in Entry /\ store'[s.job] \in Entry
            /\ store'[s.job].arming >= store[s.job].arming
        BY <3>1, <3>2, <3>3 DEF Onward
      <4>3. s.job \notin undone
        BY <2>1, <3>3
      <4>2. store[s.job].arming \in Nat /\ store'[s.job].arming \in Nat
        BY <4>1 DEF Entry
      <4> QED  BY <3>1, <3>2, <4>1, <4>2, <4>3
    <3> QED  BY <2>1, <3>1, <3>3 DEF s
  <2>7. PassIsNew(p)'
    BY <2>1, <2>2 DEF PassOK, PassIsNew, Unfired
  <2>8. PassClaimed(p)'
    <3> DEFINE s == proc[p].due[1]
    <3>1. /\ s.job \in Jobs /\ s.entry.arming \in Nat /\ s.entry.next \in Times
          /\ s.job \in minted
      <4>1. 1 \in DOMAIN proc[p].due
        BY <2>2, CurrentType
      <4> QED  BY <2>2, <2>3, <4>1 DEF PassOK, PassIsDue
    <3>2. PICK j \in Jobs, a \in Nat, d \in Times :
             j = s.job /\ a = s.entry.arming /\ d = s.entry.next
      BY <3>1
    <3>3. j \in undone \/ Past(j, a, d) => j \in undone' \/ Past(j, a, d)'
      BY <2>1, <3>1, <3>2, PastStays
    <3>4. s' = s
      BY <2>1
    <3>5. proc[p].pc \in {"disable", "fire"} => j \in undone \/ Past(j, a, d)
      BY <2>2, <3>2 DEF PassOK, PassClaimed
    <3>6. proc'[p].pc \in {"disable", "fire"} =>
             s'.job \in undone' \/ Past(s.job, s.entry.arming, s.entry.next)'
      BY <2>1, <3>2, <3>3, <3>4, <3>5 DEF Past, Exists
    <3> QED  BY <2>1, <2>2, <3>6 DEF PassOK, PassClaimed
  <2> QED  BY <2>4, <2>5, <2>6, <2>7, <2>8 DEF PassOK
<1> QED  BY <1>1, <1>2, <1>3 DEF RunInv

(* A write to one job that does not lower its arming and leaves its next   *)
(* run, or drops it, takes jobs onward.                                    *)
LEMMA EditIsOnward ==
    ASSUME TypeInv, NEW j \in Jobs, NEW entry, Change(j, entry),
           Exists(j) =>
              /\ entry \in Entry
              /\ \/ entry.arming > store[j].arming
                 \/ /\ entry.arming = store[j].arming
                    /\ entry.next = store[j].next \/ j \in undone'
    PROVE  \A k \in Jobs : Onward(k)
<1>1. \/ Exists(j) /\ store' = [store EXCEPT ![j] = entry]
      \/ store' = store
  BY ChangeEffect DEF TypeInv
<1>2. store \in [Jobs -> Entry \cup {NoEntry}] /\ \A e \in Entry : e.arming \in Nat
  BY DEF TypeInv, TypeOK, Entry
<1>3. \A k \in Jobs : \/ store'[k] = store[k]
                      \/ k = j /\ Exists(j) /\ store'[k] = entry
  BY <1>1, <1>2
<1>4. ASSUME NEW k \in Jobs, store'[k] = store[k] PROVE Onward(k)
  BY <1>2, <1>4 DEF Onward, Exists
<1>5. ASSUME Exists(j), store'[j] = entry PROVE Onward(j)
  BY <1>2, <1>5 DEF Onward, Exists
<1> QED  BY <1>3, <1>4, <1>5

(* So no client brings a run back, but for the trigger that marks it.      *)
LEMMA ClientIsAside ==
    ASSUME TypeInv, RunInv, NEW c \in Clients, ClientStep(c) \/ ClientDies(c)
    PROVE  Aside
<1>1. store \in [Jobs -> Entry \cup {NoEntry}] /\ now \in Nat /\ client[c].job \in Jobs
  BY DEF TypeInv, TypeOK
<1>2. \A j \in Jobs : Exists(j) => store[j] \in Entry
  BY <1>1 DEF Exists
<1>3. ASSUME UNCHANGED <<now, lease, proc, fired, refired>>, minted \subseteq minted',
             undone \subseteq undone', \A j \in Jobs : Onward(j)
      PROVE  Aside
  BY <1>1, <1>3 DEF Aside, RunInv, LeaseIsHeld
<1>4. store' = store => \A j \in Jobs : Onward(j)
  <2>1. \A e \in Entry : e.arming \in Nat
    BY DEF Entry
  <2> QED  BY <1>1, <2>1 DEF Onward, Exists
<1>5. ASSUME NEW j \in Jobs,
             \/ CreateUnstored(c, j)
             \/ \E kind \in Kinds : Create(c, j, kind) \/ CreateBlind(c, j, kind)
      PROVE  Aside
  <2>1. \A k \in Jobs \ {j} : store'[k] \in {store[k], NoEntry}
    BY <1>1, <1>5 DEF Create, CreateUnstored, CreateBlind, Stored, NotStored
  <2>2. \A k \in Jobs : Onward(k)
    <3>1. \A e \in Entry : e.arming \in Nat
      BY DEF Entry
    <3>2. j \notin minted
      BY <1>5 DEF Create, CreateUnstored, CreateBlind, Created
    <3> QED  BY <1>1, <2>1, <3>1, <3>2 DEF Onward, Exists
  <2>3. /\ UNCHANGED <<now, lease, proc, fired, refired>>
        /\ minted \subseteq minted' /\ undone \subseteq undone'
    BY <1>5 DEF Create, CreateUnstored, CreateBlind, Created, Replaces, ghostVars
  <2> QED  BY <1>3, <2>2, <2>3
<1>6. ASSUME NEW j \in Jobs, Remove(c, j) PROVE Aside
  <2>1. \/ store' = [store EXCEPT ![j] = NoEntry]
        \/ store' = store
    BY <1>6 DEF Remove, Stored, NotStored
  <2>2. \A k \in Jobs : store'[k] \in {store[k], NoEntry}
    BY <1>1, <2>1
  <2>3. \A k \in Jobs : Onward(k)
    <3>1. \A e \in Entry : e.arming \in Nat
      BY DEF Entry
    <3> QED  BY <1>1, <2>2, <3>1 DEF Onward, Exists
  <2> QED  BY <1>3, <1>6, <2>3 DEF Remove
<1>7. ASSUME NEW j \in Jobs, NEW enabled \in BOOLEAN, SetEnabled(c, j, enabled)
      PROVE  Aside
  <2> DEFINE e == [Reloaded(j, store[j]) EXCEPT !.enabled = enabled]
  <2>1. Exists(j) /\ Change(j, e)
    BY <1>7 DEF SetEnabled, Enables
  <2>2. e \in Entry /\ e.arming = store[j].arming /\ e.next = store[j].next
    BY <1>2, <2>1 DEF Reloaded, Entry
  <2> HIDE DEF e
  <2>3. \A k \in Jobs : Onward(k)
    BY <2>1, <2>2, EditIsOnward
  <2> QED  BY <1>3, <1>7, <2>3 DEF SetEnabled, Enables
<1>8. ASSUME NEW kind \in Kinds, UpdateWrites(c, kind) PROVE Aside
  <2> DEFINE j == client[c].job
             e == [Reloaded(j, client[c].entry) EXCEPT !.kind = kind]
  <2>1. Change(j, e)
    BY <1>8 DEF UpdateWrites
  <2>2. Exists(j) => e \in Entry /\ e.arming = store[j].arming /\ e.next = store[j].next
    BY <1>1, <1>2 DEF Reloaded, Entry
  <2> HIDE DEF e
  <2>3. \A k \in Jobs : Onward(k)
    BY <1>1, <2>1, <2>2, EditIsOnward
  <2> QED  BY <1>3, <1>8, <2>3 DEF UpdateWrites, ghostVars
<1>9. CASE ArmReads(c) \/ TriggerFires(c) \/ ClientDies(c)
  BY <1>3, <1>4, <1>9 DEF ArmReads, TriggerFires, ClientDies, ghostVars
<1>10. ASSUME NEW j \in Jobs, UpdateReads(c, j) \/ TriggerReads(c, j) PROVE Aside
  BY <1>3, <1>4, <1>10 DEF UpdateReads, TriggerReads, ghostVars
<1>11. CASE ArmWrites(c)
  <2> DEFINE j == client[c].job
             n == first_run_at(client[c].entry, now)
             e == [Reloaded(j, client[c].entry) EXCEPT !.next = n, !.arming = @ + 1]
  <2>1. n \in NextRun
    BY <1>11, NextRunAfter DEF ArmWrites, TypeInv, TypeOK, ClientHasRead
  <2> HIDE DEF n
  <2>2. Exists(j) => e \in Entry /\ e.arming > store[j].arming
    <3> SUFFICES ASSUME Exists(j) PROVE e \in Entry /\ e.arming > store[j].arming
      OBVIOUS
    <3>1. /\ store[j] \in Entry /\ store[j].kind \in Kinds
          /\ store[j].enabled \in BOOLEAN /\ store[j].arming + 1 \in Nat
          /\ store[j].arming \in Nat
      BY <1>1, <1>2 DEF Entry
    <3>2. e \in Entry
      BY <2>1, <3>1 DEF Entry, Reloaded
    <3>3. e.arming = store[j].arming + 1
      BY <3>1 DEF Entry, Reloaded
    <3> QED  BY <3>1, <3>2, <3>3
  <2>3. Change(j, e)
    BY <1>11 DEF ArmWrites, n
  <2> HIDE DEF e
  <2>4. \A k \in Jobs : Onward(k)
    BY <1>1, <2>2, <2>3, EditIsOnward
  <2> QED  BY <1>3, <1>11, <2>4 DEF ArmWrites, ghostVars
<1>12. CASE TriggerRecords(c)
  <2> DEFINE j == client[c].job
             n == TriggerNext(client[c].entry)
             e == [Reloaded(j, client[c].entry) EXCEPT !.next = n]
  <2>1. n \in NextRun
    BY <1>12 DEF TriggerRecords, TriggerNext, TypeInv, ClientHasRead, Entry, NextRun
  <2>2. Exists(j) /\ store[j].next # n => j \in undone'
    BY <1>12 DEF TriggerRecords
  <2> HIDE DEF n
  <2>3. Exists(j) => e \in Entry /\ e.arming = store[j].arming /\ e.next = n
    BY <1>1, <1>2, <2>1, NextEdit, NextEditKeeps DEF Reloaded
  <2>4. Change(j, e)
    BY <1>12 DEF TriggerRecords, n
  <2> HIDE DEF e
  <2>5. \A k \in Jobs : Onward(k)
    BY <1>1, <2>2, <2>3, <2>4, EditIsOnward
  <2> QED  BY <1>3, <1>12, <2>5 DEF TriggerRecords
<1> QED
  BY <1>5, <1>6, <1>7, <1>8, <1>9, <1>10, <1>11, <1>12 DEF ClientStep

(* The holder of the lease moves the next run of one job past its pass.    *)
Advanced(p, j) ==
    Exists(j)' =>
       /\ Exists(j) /\ store[j] \in Entry /\ store'[j] \in Entry
       /\ store'[j].arming = store[j].arming
       /\ \/ store'[j].next \in {store[j].next, None} \/ j \in undone'
          \/ store'[j].next > proc[p].at

(* A write that keeps a job's arming and moves its next run on, or drops   *)
(* it, brings no run back.                                                 *)
LEMMA EditIsAdvance ==
    ASSUME TypeInv, NEW p \in Procs, NEW j \in Jobs, NEW entry, Change(j, entry),
           Exists(j) =>
              /\ entry \in Entry /\ entry.arming = store[j].arming
              /\ entry.next \in {store[j].next, None} \/ entry.next > proc[p].at
    PROVE  \A k \in Jobs : Advanced(p, k)
<1>1. \/ Exists(j) /\ store' = [store EXCEPT ![j] = entry]
      \/ store' = store
  BY ChangeEffect DEF TypeInv
<1>2. store \in [Jobs -> Entry \cup {NoEntry}]
  BY DEF TypeInv, TypeOK
<1>3. \A k \in Jobs : \/ store'[k] = store[k]
                      \/ k = j /\ Exists(j) /\ store'[k] = entry
  BY <1>1, <1>2
<1>4. ASSUME NEW k \in Jobs, store'[k] = store[k] PROVE Advanced(p, k)
  BY <1>2, <1>4 DEF Advanced, Exists
<1>5. ASSUME Exists(j), store'[j] = entry PROVE Advanced(p, j)
  BY <1>2, <1>5 DEF Advanced, Exists
<1> QED  BY <1>3, <1>4, <1>5

(* What was past before, and due before the pass, is past after it.        *)
LEMMA PastAdvances ==
    ASSUME TypeInv, NEW p \in Procs, NEW j \in Jobs, Advanced(p, j),
           NEW a \in Nat, NEW d \in Times, d <= proc[p].at, Past(j, a, d)
    PROVE  j \in undone' \/ Past(j, a, d)'
<1>1. CASE ~Exists(j)'
  BY <1>1 DEF Past, Exists
<1>2. CASE /\ Exists(j) /\ store[j] \in Entry /\ store'[j] \in Entry
           /\ store'[j].arming = store[j].arming
           /\ \/ store'[j].next \in {store[j].next, None} \/ j \in undone'
              \/ store'[j].next > proc[p].at
  <2>1. d \in Int /\ proc[p].at \in Int /\ store'[j].next \in Int
    BY <1>2, TimeAssumption DEF TypeInv, TypeOK, Times, NextRun, None, Entry
  <2> QED  BY <1>2, <2>1 DEF Past, Exists
<1> QED  BY <1>1, <1>2 DEF Advanced

(* The part of the invariant that is not about the thread itself.          *)
LEMMA AdvanceKeeps ==
    ASSUME TypeInv, RunInv, NEW p \in Procs, proc[p].pc \in Pass,
           \A j \in Jobs : Advanced(p, j),
           undone \subseteq undone', UNCHANGED <<now, minted, lease, fired, refired>>,
           NEW r, proc' = [proc EXCEPT ![p] = r],
           r.pc \in Pass => PassOK(p)'
    PROVE  RunInv'
<1>1. proc[p].pc \notin {"down", "waiting"} /\ lease = p
  BY DEF Pass, RunInv, LeaseIsHeld
<1>2. \A q \in Procs : proc'[q] = IF q = p THEN r ELSE proc[q]
  BY DEF TypeInv, TypeOK
<1>3. LeaseIsHeld' /\ RunFiresOnce'
  BY <1>1, <1>2 DEF RunInv, LeaseIsHeld, RunFiresOnce
<1>4. \A q \in Procs : proc'[q].pc \in Pass => q = p
  BY <1>1, <1>2 DEF RunInv, LeaseIsHeld, Pass
<1>5. FiredArePast'
  <2> SUFFICES ASSUME NEW j \in Jobs, NEW a \in Nat, NEW d \in Times, <<j, a, d>> \in fired'
               PROVE  d <= now' /\ j \in minted' /\ (j \in undone' \/ Past(j, a, d)')
    BY DEF FiredArePast
  <2>1. d <= now /\ j \in minted /\ (j \in undone \/ Past(j, a, d))
    BY DEF RunInv, FiredArePast
  <2>2. d <= proc[p].at
    BY DEF RunInv, PassOK, PassBegan
  <2> QED  BY <2>1, <2>2, PastAdvances
<1> QED  BY <1>2, <1>3, <1>4, <1>5 DEF RunInv

(* A pass goes on with jobs it had.                                        *)
LEMMA PassGoesOn ==
    ASSUME TypeInv, RunInv, NEW p \in Procs, proc[p].pc \in Pass,
           \A j \in Jobs : Advanced(p, j),
           undone \subseteq undone', UNCHANGED <<now, minted, fired>>,
           proc'[p].at = proc[p].at,
           \A i \in DOMAIN proc'[p].due : \E k \in DOMAIN proc[p].due :
              /\ proc'[p].due[i] = proc[p].due[k]
              /\ (i > 1 \/ proc'[p].pc # "record") =>
                    (k > 1 \/ proc[p].pc # "record")
    PROVE  PassBegan(p)' /\ PassIsDue(p)' /\ PassIsNew(p)'
<1>1. PassBegan(p) /\ PassIsDue(p) /\ PassIsNew(p)
  BY DEF RunInv, PassOK
<1>2. PassBegan(p)'
  BY <1>1 DEF PassBegan
<1>3. ASSUME NEW i \in DOMAIN proc'[p].due
      PROVE  LET s == proc'[p].due[i]
             IN  /\ s.job \in minted' /\ s.entry.next <= proc'[p].at
                 /\ \/ store'[s.job] = NoEntry \/ s.job \in undone'
                    \/ s.entry.arming <= store'[s.job].arming
                 /\ (i > 1 \/ proc'[p].pc # "record") =>
                       \/ s.job \in undone'
                       \/ <<s.job, s.entry.arming, s.entry.next>> \notin fired'
  <2>1. PICK k \in DOMAIN proc[p].due :
              /\ proc'[p].due[i] = proc[p].due[k]
              /\ (i > 1 \/ proc'[p].pc # "record") =>
                    (k > 1 \/ proc[p].pc # "record")
    OBVIOUS
  <2> DEFINE s == proc[p].due[k]
  <2>2. /\ s.job \in minted /\ s.entry.next <= proc[p].at
        /\ \/ ~Exists(s.job) \/ s.job \in undone
           \/ s.entry.arming <= store[s.job].arming
        /\ (k > 1 \/ proc[p].pc # "record") =>
              \/ s.job \in undone
              \/ <<s.job, s.entry.arming, s.entry.next>> \notin fired
    BY <1>1 DEF PassIsDue, PassIsNew, Unfired
  <2>3. s.job \in Jobs
    BY DueType
  <2>4. \/ Exists(s.job) /\ store'[s.job].arming = store[s.job].arming
        \/ store'[s.job] = NoEntry
    BY <2>3 DEF Advanced, Exists
  <2> QED  BY <2>1, <2>2, <2>4 DEF Exists
<1>4. PassIsDue(p)' /\ PassIsNew(p)'
  BY <1>3 DEF PassIsDue, PassIsNew, Exists, Unfired
<1> QED  BY <1>2, <1>4

(* The pass of a process, step by step: it reads the store, ...            *)
LEMMA TickRuns ==
    ASSUME TypeInv, StayInv, RunInv, NEW p \in Procs, Tick(p)
    PROVE  RunInv'
<1>1. PICK q \in Orderings({j \in Jobs : is_due(j, now)}) :
           /\ q # << >>
           /\ proc' = [proc EXCEPT ![p] =
                [pc |-> "claim", at |-> now, next |-> None,
                 due |-> [i \in DOMAIN q |->
                            [job |-> q[i], entry |-> store[q[i]]]]]]
  BY DEF Tick
<1> DEFINE due == [i \in DOMAIN q |-> [job |-> q[i], entry |-> store[q[i]]]]
           r == [pc |-> "claim", at |-> now, next |-> None, due |-> due]
<1>2. /\ \A i \in DOMAIN due : /\ is_due(due[i].job, now)
                               /\ due[i].entry = store[due[i].job]
                               /\ due[i].entry.next \in Times
      /\ \A i, k \in DOMAIN due : due[i].job = due[k].job => i = k
      /\ due \in Seq(Snapshot)
  BY TickType DEF TypeInv
<1> HIDE DEF due
<1>3. r.pc = "claim" /\ r.at = now /\ r.due = due /\ proc' = [proc EXCEPT ![p] = r]
  BY <1>1 DEF due
<1> HIDE DEF r
<1>4. UNCHANGED <<now, minted, store, lease, fired, refired, undone>> /\ lease = p
      /\ proc[p].pc = "sleeping"
  BY DEF Tick, ghostVars, RunInv, LeaseIsHeld
<1>5. \A g \in Procs : proc'[g] = IF g = p THEN r ELSE proc[g]
  BY <1>3 DEF TypeInv, TypeOK
<1>6. LeaseIsHeld' /\ RunFiresOnce'
  BY <1>4, <1>5 DEF RunInv, LeaseIsHeld, RunFiresOnce
<1>7. FiredArePast'
  BY <1>4 DEF RunInv, FiredArePast, Past, Exists
<1>8. \A g \in Procs : proc'[g].pc \in Pass => g = p
  BY <1>4, <1>5 DEF RunInv, LeaseIsHeld, Pass
<1>9. proc'[p].pc = "claim" /\ proc'[p].at = now /\ proc'[p].due = due
  BY <1>3, <1>5
<1>10. PassBegan(p)'
  <2>1. now <= now
    BY DEF TypeInv, TypeOK
  <2> QED  BY <1>4, <1>9, <2>1 DEF PassBegan, RunInv, FiredArePast
<1>11. PassDiffers(p)' /\ PassClaimed(p)'
  BY <1>2, <1>9 DEF PassDiffers, PassClaimed
<1>12. ASSUME NEW i \in DOMAIN due
       PROVE  /\ due[i].job \in minted /\ due[i].entry.next <= now
              /\ due[i].entry.arming <= store[due[i].job].arming
              /\ due[i].job \in undone \/ Unfired(due[i])
  <2> DEFINE j == due[i].job
             e == due[i].entry
  <2>1. e = store[j] /\ is_due(j, now) /\ e.next \in Times
    BY <1>2
  <2>2. due[i] \in Snapshot
    BY <1>2
  <2>3. j \in Jobs /\ e \in Entry /\ e.arming \in Nat /\ e.next \in Int /\ e.next >= 0
    BY <2>1, <2>2, TimeAssumption DEF Snapshot, Entry, Times
  <2>4. j \in minted /\ e.next <= now
    BY <2>1, <2>3 DEF is_due, StayInv, StoredAreMinted, Exists
  <2>5. <<j, e.arming, e.next>> \in fired => j \in undone \/ Past(j, e.arming, e.next)
    BY <2>1, <2>3 DEF RunInv, FiredArePast
  <2>6. ~Past(j, e.arming, e.next)
    BY <2>1, <2>3 DEF Past, Exists, is_due, None
  <2> QED  BY <2>1, <2>3, <2>4, <2>5, <2>6 DEF Unfired
<1>13. PassIsDue(p)' /\ PassIsNew(p)'
  BY <1>4, <1>9, <1>12 DEF PassIsDue, PassIsNew, Exists, Unfired
<1> QED  BY <1>6, <1>7, <1>8, <1>10, <1>11, <1>13 DEF RunInv, PassOK

(* A thread that moves on within the current job.                          *)
LEMMA MovedRuns ==
    ASSUME TypeInv, RunInv, NEW p \in Procs, proc[p].pc \in Pass \ {"record"},
           \A j \in Jobs : Advanced(p, j),
           undone \subseteq undone', UNCHANGED <<now, minted, lease, fired, refired>>,
           NEW pc \in Pass, NEW n \in NextRun, Moved(p, pc, n),
           n = None \/ n > proc[p].at,
           NEW j, NEW e, j = proc[p].due[1].job, e = proc[p].due[1].entry,
           \/ j \in undone'
           \/ store'[j] = NoEntry
           \/ e.arming < store'[j].arming
           \/ /\ e.arming = store'[j].arming
              /\ store'[j].next = None \/ e.next < store'[j].next
    PROVE  RunInv'
<1> DEFINE r == [pc |-> pc, due |-> proc[p].due, at |-> proc[p].at, next |-> n]
<1>1. proc' = [proc EXCEPT ![p] = r]
  BY DEF Moved
<1>2. /\ proc'[p].pc = pc /\ proc'[p].due = proc[p].due
      /\ proc'[p].at = proc[p].at /\ proc'[p].next = n
  BY <1>1 DEF TypeInv, TypeOK
<1> HIDE DEF r
<1>3. PassBegan(p)' /\ PassIsDue(p)' /\ PassIsNew(p)'
  BY <1>2, PassGoesOn DEF Pass
<1>4. PassDiffers(p)'
  BY <1>2 DEF RunInv, PassOK, PassDiffers
<1>5. PassClaimed(p)'
  BY <1>2 DEF PassClaimed, Past, Exists, Pass
<1> QED  BY <1>1, <1>3, <1>4, <1>5, AdvanceKeeps DEF PassOK

(* ... claims a run, ...                                                   *)
LEMMA ClaimRuns ==
    ASSUME TypeInv, RunInv, NEW p \in Procs, Claim(p)
    PROVE  RunInv'
<1> DEFINE j == Current(p).job
           e == Current(p).entry
           s == Reloaded(j, e)
<1>0. proc[p].pc = "claim" /\ proc[p].pc \in Pass \ {"record"}
  BY DEF Claim, Pass
<1>1. PICK n \in NextRun, pc \in {"disable", "fire", "record"} :
         /\ Moved(p, pc, n)
         /\ n = None \/ n > proc[p].at
         /\ Change(j, [s EXCEPT !.next = n])
  BY ThreadSteps
<1>2. /\ Current(p) = proc[p].due[1] /\ 1 \in DOMAIN proc[p].due
      /\ j \in Jobs /\ e \in Entry /\ e.next \in Times
  BY <1>0, CurrentType
<1>3. Exists(j) => s = store[j] /\ s \in Entry
  BY <1>2 DEF TypeInv, TypeOK, Exists, Reloaded
<1>4. /\ UNCHANGED <<now, minted, lease, fired, refired>>
      /\ undone' = IF faults' # faults THEN undone \cup {j} ELSE undone
  BY DEF Claim
<1>5. /\ j \in minted /\ e.next <= proc[p].at
      /\ ~Exists(j) \/ j \in undone \/ e.arming <= store[j].arming
  BY <1>0, <1>2 DEF RunInv, PassOK, PassIsDue
<1> HIDE DEF j, s, e
<1>6. Exists(j) => /\ [s EXCEPT !.next = n] \in Entry
                   /\ [s EXCEPT !.next = n].arming = store[j].arming
                   /\ [s EXCEPT !.next = n].next = n
  BY <1>3, NextEdit, NextEditKeeps
<1>7. \A k \in Jobs : Advanced(p, k)
  BY <1>1, <1>2, <1>6, EditIsAdvance
<1>8. \/ j \in undone'
      \/ store'[j] = NoEntry
      \/ e.arming < store'[j].arming
      \/ /\ e.arming = store'[j].arming
         /\ store'[j].next = None \/ e.next < store'[j].next
  <2>1. CASE Exists(j) /\ store' = [store EXCEPT ![j] = [s EXCEPT !.next = n]]
    <3>1. store'[j] = [s EXCEPT !.next = n]
      BY <1>2, <2>1 DEF TypeInv, TypeOK
    <3>2. /\ store'[j].arming = store[j].arming /\ store'[j].next = n
          /\ store[j].arming \in Nat /\ e.arming \in Nat
      BY <1>2, <1>3, <1>6, <2>1, <3>1 DEF Entry
    <3>3. e.next \in Int /\ proc[p].at \in Int /\ n \in Int
      BY <1>2, TimeAssumption DEF Times, TypeInv, TypeOK, NextRun, None
    <3> QED  BY <1>1, <1>4, <1>5, <2>1, <3>2, <3>3
  <2>2. CASE store' = store /\ (~Exists(j) \/ faults' # faults)
    BY <1>4, <2>2 DEF Exists
  <2> QED  BY <1>1, <1>2, <2>1, <2>2, ChangeEffect DEF TypeInv
<1>9. j = proc[p].due[1].job /\ e = proc[p].due[1].entry
  BY <1>2 DEF j, e
<1>10. pc \in Pass /\ undone \subseteq undone'
  BY <1>4 DEF Pass
<1> QED
  BY <1>0, <1>1, <1>4, <1>7, <1>8, <1>9, <1>10, MovedRuns

(* ... disables a one-shot, ...                                            *)
LEMMA DisableRuns ==
    ASSUME TypeInv, RunInv, NEW p \in Procs, ClaimDisables(p)
    PROVE  RunInv'
<1> DEFINE j == Current(p).job
           e == Current(p).entry
           s == Reloaded(j, e)
           t == [s EXCEPT !.enabled = FALSE]
<1>0. proc[p].pc = "disable" /\ proc[p].pc \in Pass \ {"record"}
  BY DEF ClaimDisables, Pass
<1>1. PICK pc \in {"fire", "record"} : Moved(p, pc, proc[p].next)
  BY ThreadSteps
<1>2. /\ Current(p) = proc[p].due[1] /\ j \in Jobs /\ e \in Entry
      /\ e.next \in Times /\ proc[p].next \in NextRun
  BY <1>0, CurrentType DEF TypeInv, TypeOK
<1>3. Exists(j) => s = store[j] /\ s \in Entry
  BY <1>2 DEF TypeInv, TypeOK, Exists, Reloaded
<1>4. UNCHANGED <<now, minted, lease, fired, refired, undone>> /\ Change(j, t)
  BY DEF ClaimDisables, ghostVars
<1> HIDE DEF j, s, e
<1>5. Exists(j) => t \in Entry /\ t.arming = store[j].arming /\ t.next = store[j].next
  BY <1>3 DEF Entry
<1> HIDE DEF t
<1>6. \A k \in Jobs : Advanced(p, k)
  BY <1>2, <1>4, <1>5, EditIsAdvance
<1>7. /\ proc[p].next = None \/ proc[p].next > proc[p].at
      /\ j \in undone \/ Past(j, e.arming, e.next)
  BY <1>0, <1>2 DEF RunInv, PassOK, PassClaimed, j, e
<1>8. \/ j \in undone'
      \/ store'[j] = NoEntry
      \/ e.arming < store'[j].arming
      \/ /\ e.arming = store'[j].arming
         /\ store'[j].next = None \/ e.next < store'[j].next
  <2>1. \/ Exists(j) /\ store' = [store EXCEPT ![j] = t]
        \/ store' = store
    BY <1>2, <1>4, ChangeEffect DEF TypeInv
  <2>2. \/ Exists(j) /\ store'[j] = t
        \/ store'[j] = store[j]
    BY <1>2, <2>1 DEF TypeInv, TypeOK
  <2> QED  BY <1>4, <1>5, <1>7, <2>2 DEF Past, Exists
<1>9. j = proc[p].due[1].job /\ e = proc[p].due[1].entry
  BY <1>2 DEF j, e
<1>10. pc \in Pass /\ undone \subseteq undone'
  BY <1>4 DEF Pass
<1> QED
  BY <1>0, <1>1, <1>2, <1>4, <1>6, <1>7, <1>8, <1>9, <1>10, MovedRuns

(* ... fires, ...                                                          *)
LEMMA FireRuns ==
    ASSUME TypeInv, RunInv, NEW p \in Procs, Fire(p)
    PROVE  RunInv'
<1> DEFINE j == Current(p).job
           e == Current(p).entry
           this == <<j, e.arming, e.next>>
<1>1. /\ proc[p].pc = "fire" /\ proc[p].pc \in Pass
      /\ fired' = fired \cup {this}
      /\ refired' = IF this \in fired THEN refired \cup {j} ELSE refired
      /\ UNCHANGED <<now, minted, store, lease, undone>>
  BY DEF Fire, Pass, This
<1>2. Moved(p, "record", proc[p].next)
  BY ThreadSteps
<1>3. /\ Current(p) = proc[p].due[1] /\ 1 \in DOMAIN proc[p].due
      /\ j \in Jobs /\ e.arming \in Nat /\ e.next \in Times
  <2>1. e \in Entry
    BY <1>1, CurrentType
  <2> QED  BY <1>1, <2>1, CurrentType DEF Entry
<1>4. PassOK(p)
  BY <1>1 DEF RunInv
<1>5. /\ proc[p].at <= now /\ e.next <= proc[p].at /\ j \in minted
      /\ proc[p].next = None \/ proc[p].next > proc[p].at
      /\ j \in undone \/ Past(j, e.arming, e.next)
      /\ j \in undone \/ this \notin fired
  BY <1>1, <1>3, <1>4
     DEF PassOK, PassBegan, PassIsDue, PassClaimed, PassIsNew, Unfired
<1>6. \A q \in Procs : proc'[q] = IF q = p
                                  THEN [pc |-> "record", due |-> proc[p].due,
                                        at |-> proc[p].at, next |-> proc[p].next]
                                  ELSE proc[q]
  BY <1>2 DEF Moved, TypeInv, TypeOK
<1>7. /\ proc'[p].pc = "record" /\ proc'[p].due = proc[p].due
      /\ proc'[p].at = proc[p].at /\ proc'[p].next = proc[p].next
  BY <1>6
<1>8. lease = p /\ \A q \in Procs : proc'[q].pc \in Pass => q = p
  BY <1>1, <1>6 DEF RunInv, LeaseIsHeld, Pass
<1>9. LeaseIsHeld'
  BY <1>1, <1>6, <1>8 DEF RunInv, LeaseIsHeld
<1>10. RunFiresOnce'
  BY <1>1, <1>5 DEF RunInv, RunFiresOnce
<1>11. /\ proc[p].at \in Int /\ now \in Int
       /\ \A d \in Times : d \in Int
  BY TimeAssumption DEF TypeInv, TypeOK, Times
<1>12. ASSUME NEW k \in Jobs, NEW a \in Nat, NEW d \in Times, <<k, a, d>> \in fired'
       PROVE  /\ d <= now /\ d <= proc[p].at /\ k \in minted
              /\ k \in undone \/ Past(k, a, d)
  <2>1. CASE <<k, a, d>> \in fired
    BY <1>4, <2>1 DEF RunInv, FiredArePast, PassOK, PassBegan
  <2>2. CASE <<k, a, d>> = this
    <3>1. k = j /\ a = e.arming /\ d = e.next
      BY <2>2
    <3> QED  BY <1>3, <1>5, <1>11, <3>1
  <2> QED  BY <1>1, <1>12, <2>1, <2>2
<1>13. FiredArePast' /\ PassBegan(p)'
  BY <1>1, <1>5, <1>7, <1>12 DEF FiredArePast, PassBegan, Past, Exists
<1>14. PassDiffers(p)' /\ PassClaimed(p)'
  BY <1>4, <1>5, <1>7 DEF PassOK, PassDiffers, PassClaimed
<1>15. PassIsDue(p)'
  BY <1>1, <1>4, <1>7 DEF PassOK, PassIsDue, Exists
<1>16. PassIsNew(p)'
  <2> SUFFICES ASSUME NEW i \in DOMAIN proc[p].due, i > 1
               PROVE  \/ proc[p].due[i].job \in undone
                      \/ <<proc[p].due[i].job, proc[p].due[i].entry.arming,
                           proc[p].due[i].entry.next>> \notin fired'
    BY <1>1, <1>7 DEF PassIsNew, Unfired
  <2>1. proc[p].due[i].job # j
    BY <1>3, <1>4 DEF PassOK, PassDiffers
  <2> QED  BY <1>1, <1>4, <2>1 DEF PassOK, PassIsNew, Unfired
<1> QED  BY <1>8, <1>9, <1>10, <1>13, <1>14, <1>15, <1>16 DEF RunInv, PassOK

(* ... and records the outcome.                                            *)
LEMMA RecordRuns ==
    ASSUME TypeInv, RunInv, NEW p \in Procs, Record(p)
    PROVE  RunInv'
<1> DEFINE rest == Tail(proc[p].due)
           r == IF rest = << >> THEN [Off EXCEPT !.pc = "sleeping"]
                ELSE [proc[p] EXCEPT !.pc = "claim", !.due = rest, !.next = None]
           j == Current(p).job
           s == Reloaded(j, Current(p).entry)
           n == proc[p].next
<1>1. /\ proc[p].pc = "record" /\ proc[p].pc \in Pass
      /\ proc' = [proc EXCEPT ![p] = r]
      /\ Change(j, [s EXCEPT !.next = n])
      /\ UNCHANGED <<now, minted, lease, fired, refired, undone>>
  BY DEF Record, Pass, ghostVars
<1>2. j \in Jobs /\ n \in NextRun
  BY <1>1, CurrentType DEF TypeInv, TypeOK
<1>3. Exists(j) => s = store[j] /\ s \in Entry
  BY <1>2 DEF TypeInv, TypeOK, Exists, Reloaded
<1>4. n = None \/ n > proc[p].at
  BY <1>1 DEF RunInv, PassOK, PassClaimed
<1>5. proc \in [Procs -> ProcRec] /\ proc[p] \in ProcRec
  BY DEF TypeInv, TypeOK, ProcRec
<1>6. /\ rest = << >> => r.pc = "sleeping"
      /\ rest # << >> => r.pc = "claim" /\ r.due = rest /\ r.at = proc[p].at
  BY <1>5 DEF ProcRec, Off
<1>7. /\ \A i \in DOMAIN rest : i + 1 \in DOMAIN proc[p].due /\ rest[i] = proc[p].due[i + 1]
      /\ \A i \in DOMAIN rest : i \in Nat /\ i > 0
  <2>1. proc[p].due \in Seq(Snapshot) /\ proc[p].due # << >>
    BY <1>1, <1>5 DEF ProcRec, TypeInv, PassHasJobs
  <2> QED  BY <2>1
<1> HIDE DEF j, s, n, r, rest
<1>8. Exists(j) => /\ [s EXCEPT !.next = n] \in Entry
                   /\ [s EXCEPT !.next = n].arming = store[j].arming
                   /\ [s EXCEPT !.next = n].next = n
  BY <1>2, <1>3, NextEdit, NextEditKeeps
<1>9. \A k \in Jobs : Advanced(p, k)
  BY <1>1, <1>2, <1>4, <1>8, EditIsAdvance
<1>10. proc'[p] = r
  BY <1>1, <1>5
<1>11. ASSUME r.pc \in Pass PROVE PassOK(p)'
  <2>1. /\ proc'[p].pc = "claim" /\ proc'[p].due = rest /\ proc'[p].at = proc[p].at
    BY <1>6, <1>10, <1>11 DEF Pass
  <2>2. \A i \in DOMAIN proc'[p].due : \E k \in DOMAIN proc[p].due :
              /\ proc'[p].due[i] = proc[p].due[k]
              /\ (i > 1 \/ proc'[p].pc # "record") =>
                    (k > 1 \/ proc[p].pc # "record")
    <3> SUFFICES ASSUME NEW i \in DOMAIN rest
                 PROVE  \E k \in DOMAIN proc[p].due : rest[i] = proc[p].due[k] /\ k > 1
      BY <2>1
    <3>1. i + 1 \in DOMAIN proc[p].due /\ rest[i] = proc[p].due[i + 1] /\ i + 1 > 1
      BY <1>7
    <3> QED  BY <3>1
  <2>3. PassBegan(p)' /\ PassIsDue(p)' /\ PassIsNew(p)'
    BY <1>1, <1>9, <2>1, <2>2, PassGoesOn
  <2>4. PassDiffers(p)'
    <3>1. PassDiffers(p)
      BY <1>1 DEF RunInv, PassOK
    <3>2. ASSUME NEW i \in DOMAIN rest, NEW k \in DOMAIN rest, rest[i].job = rest[k].job
          PROVE  i = k
      <4>1. i + 1 = k + 1
        BY <1>7, <3>1, <3>2 DEF PassDiffers
      <4> QED  BY <1>7, <4>1
    <3> QED  BY <2>1, <3>2 DEF PassDiffers
  <2>5. PassClaimed(p)'
    BY <2>1 DEF PassClaimed
  <2> QED  BY <2>3, <2>4, <2>5 DEF PassOK
<1> QED  BY <1>1, <1>9, <1>11, AdvanceKeeps

(* Every step keeps the invariant on runs ...                              *)
LEMMA RunStep == TypeInv /\ StayInv /\ RunInv /\ [Next]_vars => RunInv'
<1> SUFFICES ASSUME TypeInv, StayInv, RunInv, [Next]_vars PROVE RunInv'
  OBVIOUS
<1>1. /\ now \in Nat /\ proc \in [Procs -> ProcRec]
      /\ store' = store => \A j \in Jobs : Onward(j)
  <2>1. \A e \in Entry : e.arming \in Nat
    BY DEF Entry
  <2> QED  BY <2>1 DEF TypeInv, TypeOK, ProcRec, Onward, Exists
<1>2. CASE ClockTicks \/ UnlockedReads \/ UNCHANGED vars
  <2>1. Aside
    BY <1>1, <1>2
       DEF ClockTicks, UnlockedReads, vars, ghostVars, Aside, RunInv, LeaseIsHeld
  <2> QED  BY <2>1, AsideKeeps
<1>5. ASSUME NEW s \in copies, UnlockedWrites(s) PROVE RunInv'
  <2>1. /\ store' = s /\ UNCHANGED <<now, minted, lease, proc, fired, refired>>
        /\ undone' = undone \cup {j \in Jobs : s[j] # store[j]}
    BY <1>5 DEF UnlockedWrites, Replaces
  <2>2. \A j \in Jobs : j \in undone' \/ store'[j] = store[j]
    BY <2>1
  <2>3. \A j \in Jobs : Onward(j)
    <3>1. \A e \in Entry : e.arming \in Nat
      BY DEF Entry
    <3>2. store \in [Jobs -> Entry \cup {NoEntry}]
      BY DEF TypeInv, TypeOK
    <3> QED  BY <2>2, <3>1, <3>2 DEF Onward, Exists
  <2>4. Aside
    BY <1>1, <2>1, <2>3 DEF Aside, RunInv, LeaseIsHeld
  <2> QED  BY <2>4, AsideKeeps
<1>3. ASSUME NEW p \in Procs, try_lease(p) \/ Crash(p) \/ Restart(p) PROVE RunInv'
  <2>1. UNCHANGED <<now, minted, store, fired, refired, undone>>
    BY <1>3 DEF try_lease, Crash, Restart, ghostVars
  <2>2. /\ \A q \in Procs \ {p} : proc'[q] = proc[q]
        /\ proc'[p].pc \in {"sleeping", "down", "waiting"}
    BY <1>1, <1>3 DEF try_lease, Crash, Restart, Off, ProcRec
  <2>3. LeaseIsHeld'
    <3>1. CASE try_lease(p)
      BY <2>2, <3>1, ProcsAssumption DEF try_lease, Free, RunInv, LeaseIsHeld
    <3>2. CASE Crash(p)
      <4>1. proc'[p].pc = "down"
        BY <1>1, <3>2 DEF Crash, Off
      <4> QED  BY <2>2, <3>2, <4>1 DEF Crash, LeaseAfter, RunInv, LeaseIsHeld
    <3>3. CASE Restart(p)
      <4>1. proc'[p].pc = "waiting"
        BY <1>1, <3>3 DEF Restart, Off
      <4> QED  BY <2>2, <3>3, <4>1 DEF Restart, RunInv, LeaseIsHeld
    <3> QED  BY <1>3, <3>1, <3>2, <3>3
  <2>4. Aside
    BY <1>1, <2>1, <2>2, <2>3 DEF Aside, Pass
  <2> QED  BY <2>4, AsideKeeps
<1>4. ASSUME NEW c \in Clients, ClientStep(c) \/ ClientDies(c) PROVE RunInv'
  BY <1>4, ClientIsAside, AsideKeeps
<1> QED
  BY <1>2, <1>3, <1>4, <1>5, TickRuns, ClaimRuns, DisableRuns, FireRuns, RecordRuns
     DEF Next, SchedulerStep

(* ... so it always holds.                                                 *)
LEMMA RunAlways == Spec => []RunInv
  BY RunInit, RunStep, StayAlways, TypeAlways, PTL DEF Spec

(* A run is fired once, whichever processes die, take the lease over or    *)
(* edit the job, unless the write of its claim failed, a trigger wrote an  *)
(* older next run back, or a change that had no lock or could not read the *)
(* file replaced the entry (try_lease, tick, claim).                       *)
THEOREM FiresOnce == Spec => []RunFiresOnce
  BY RunAlways, PTL DEF RunInv

(* The store, the threads and the clients keep their types.                *)
THEOREM StoreTypeCorrect == Spec => []TypeOK
  BY TypeAlways, PTL DEF TypeInv
=============================================================================
