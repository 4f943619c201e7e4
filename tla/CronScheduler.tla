---------------------------- MODULE CronScheduler ----------------------------
(***************************************************************************)
(* Scheduled jobs (runtime/src/cron_*.rs): one store on disk that every    *)
(* process reads and changes, and one scheduler lease among them.          *)
(*                                                                         *)
(* A change of the store is a read-modify-write under its lock, one step   *)
(* here; but the operations above it are several such changes and reads,   *)
(* and processes, clients and the clock move in between.  A process may    *)
(* die at any point, which frees the lease.  A write of the store may      *)
(* fail, taking its lock may fail and reading it may fail; the code goes   *)
(* on in each case.                                                        *)
(***************************************************************************)
EXTENDS Integers, Sequences, FiniteSets

CONSTANTS
    Jobs,               \* job ids
    Procs,              \* processes that run the scheduler
    Clients,            \* who manages jobs: tools, CLI, ACP, the task browser
    Kinds,              \* the kinds of schedule in use
    Nobody,             \* no process
    Interval,           \* of a cron or every job
    AtTime,             \* of an at job
    Grace,              \* MISSED_GRACE_SECS
    MaxTime,            \* bound: the clock
    MaxOps,             \* bound: client operations
    MaxFaults           \* bound: process deaths, and failed writes, locks and
                        \* reads of the store

ASSUME JobsAssumption == IsFiniteSet(Jobs) /\ Jobs # {}
ASSUME KindsAssumption == Kinds \subseteq {"cron", "every", "at"}
ASSUME TimeAssumption ==
    Interval \in Nat \ {0} /\ {AtTime, Grace, MaxTime} \subseteq Nat
ASSUME BoundsAssumption == {MaxOps, MaxFaults} \subseteq Nat
ASSUME ProcsAssumption == Nobody \notin Procs

None == -1                              \* no next run
Times == 0..(MaxTime + Interval) \cup {AtTime}
NextRun == Times \cup {None}
\* "arming" numbers the times a client armed the job, for the properties
Entry == [kind : Kinds, enabled : BOOLEAN, next : NextRun, arming : Nat]
NoEntry == << >>

VARIABLES
    now,            \* the clock
    store,          \* crons.json: its jobs
    minted,         \* crons.json: its counter, as the ids given out
    lease,          \* who holds the scheduler lease
    proc,           \* each process and where its scheduler thread is
    client,         \* each client and where its operation is
    ops, faults,
    copies,         \* what unlocked changes have read and not yet written
    wanted,         \* whether clients last asked for each job, and enabled
    fired,          \* scheduled runs fired: job, arming and due time
    owed,           \* jobs with a claimed run that has still to be fired
    refired,        \* jobs one of whose runs was fired again
    replaced,       \* jobs whose entry an unlocked or blind write replaced
    undone          \* those, and jobs whose claim did not last

boundVars == <<ops, faults>>
ghostVars == <<wanted, fired, owed, refired, replaced, undone>>
vars == <<now, store, minted, lease, proc, client, copies, boundVars,
          ghostVars>>

Snapshot == [job : Jobs, entry : Entry]
Scheduler == {"down", "waiting", "sleeping", "claim", "disable", "fire",
              "record"}
Operation == {"off", "arm", "armed", "update", "trigger", "triggered"}

TypeOK ==
    /\ now \in 0..MaxTime
    /\ store \in [Jobs -> Entry \cup {NoEntry}]
    /\ minted \subseteq Jobs
    /\ lease \in Procs \cup {Nobody}
    /\ proc \in [Procs -> [pc : Scheduler, due : Seq(Snapshot),
                           at : 0..MaxTime, next : NextRun]]
    /\ client \in [Clients -> [pc : Operation, job : Jobs,
                               entry : Entry \cup {NoEntry}]]
    /\ ops \in 0..MaxOps /\ faults \in 0..MaxFaults
    /\ copies \subseteq [Jobs -> Entry \cup {NoEntry}]
    /\ wanted \in [Jobs -> [enabled : BOOLEAN] \cup {NoEntry}]
    /\ fired \subseteq Jobs \X Nat \X Times
    /\ owed \subseteq Jobs /\ refired \subseteq Jobs
    /\ replaced \subseteq Jobs /\ undone \subseteq Jobs

Off == [pc |-> "waiting", due |-> << >>, at |-> 0, next |-> None]
Rested == [pc |-> "off", job |-> CHOOSE j \in Jobs : TRUE, entry |-> NoEntry]

-----------------------------------------------------------------------------
(* cron_schedule.rs *)

next_run_after(e, t) ==
    CASE e.kind = "cron"  -> (t \div Interval + 1) * Interval
      [] e.kind = "every" -> t + Interval
      [] e.kind = "at"    -> IF AtTime > t THEN AtTime ELSE None

\* An at job that is armed late still has its time, so that it fires once.
first_run_at(e, t) == IF e.kind = "at" THEN AtTime ELSE next_run_after(e, t)

is_due(j, t) == /\ store[j] # NoEntry /\ store[j].enabled
                /\ store[j].next # None /\ store[j].next <= t

is_one_shot(e) == e.kind = "at"

Exists(j) == store[j] # NoEntry

\* What earlier processes left in the file: armed jobs.
Kept(kind) == [kind |-> kind, enabled |-> TRUE, arming |-> 1,
               next |-> first_run_at([kind |-> kind], 0)]

Init ==
    /\ now = 0
    /\ store \in [Jobs -> {NoEntry} \cup {Kept(kind) : kind \in Kinds}]
    /\ minted = {j \in Jobs : Exists(j)}
    /\ lease = Nobody
    /\ proc = [p \in Procs |-> Off]
    /\ client = [c \in Clients |-> Rested]
    /\ ops = 0 /\ faults = 0
    /\ wanted = [j \in Jobs |-> IF Exists(j) THEN [enabled |-> TRUE] ELSE NoEntry]
    /\ copies = {}
    /\ fired = {} /\ owed = {} /\ refired = {}
    /\ replaced = {} /\ undone = {}

-----------------------------------------------------------------------------
(* cron_registry.rs: a change reads the file again under the store's lock   *)
(* and writes it back.  It does nothing to a job that is gone, or that an   *)
(* unreadable file does not show, and a failed write is not reported.      *)

Stored(s) == store' = s /\ UNCHANGED faults
NotStored == /\ faults < MaxFaults
             /\ faults' = faults + 1
             /\ UNCHANGED store

\* The entry a change starts from: what the file holds, whatever the caller
\* has seen.
ReloadedStale(j, seen) == seen          \* mutant: the caller's copy
Reloaded(j, seen) == store[j]

\* The values a change may leave in the store.
Change(j, entry) ==
    IF Exists(j)
    THEN Stored([store EXCEPT ![j] = entry]) \/ NotStored
    ELSE UNCHANGED <<store, faults>>

\* A change that could not take the lock goes on without it: whatever is
\* stored between its read of the file and its write is replaced.  These two
\* steps are all of an edit of a job's name, message or target; another
\* unlocked change is these steps and its own.
UnlockedReads ==
    /\ faults < MaxFaults
    /\ faults' = faults + 1
    /\ copies' = copies \cup {store}
    /\ UNCHANGED <<now, store, minted, lease, proc, client, ops, ghostVars>>

Replaces(s) ==
    LET jobs == {j \in Jobs : s[j] # store[j]} IN
    replaced' = replaced \cup jobs /\ undone' = undone \cup jobs

UnlockedWrites(s) ==
    /\ s \in copies
    /\ store' = s
    /\ copies' = copies \ {s}
    /\ Replaces(s)
    /\ UNCHANGED <<now, minted, lease, proc, client, boundVars, wanted, fired,
                   owed, refired>>

-----------------------------------------------------------------------------
(* cron_scheduler.rs: a scheduler thread. *)

\* The lock on the lease file is exclusive.
FreeAlways == TRUE              \* mutant: it is not
Free == lease = Nobody

Current(p) == Head(proc[p].due)
This(p) == <<Current(p).job, Current(p).entry.arming, Current(p).entry.next>>

try_lease(p) ==
    /\ proc[p].pc = "waiting" /\ Free
    /\ lease' = p
    /\ proc' = [proc EXCEPT ![p].pc = "sleeping"]
    /\ UNCHANGED <<now, minted, store, client, copies, boundVars, ghostVars>>

\* A pass: the jobs due now, as they are now, in any order here.
Orderings(S) == {q \in [1..Cardinality(S) -> S] :
                    \A a, b \in DOMAIN q : q[a] = q[b] => a = b}

Tick(p) ==
    /\ proc[p].pc = "sleeping"
    /\ \E q \in Orderings({j \in Jobs : is_due(j, now)}) :
          /\ q # << >>
          /\ proc' = [proc EXCEPT ![p] =
                [pc |-> "claim", at |-> now, next |-> None,
                 due |-> [i \in DOMAIN q |->
                            [job |-> q[i], entry |-> store[q[i]]]]]]
    /\ UNCHANGED <<now, minted, store, lease, client, copies, boundVars,
                   ghostVars>>

Missed(p) == proc[p].at - Current(p).entry.next > Grace

\* After its claim a run fires, or is recorded as missed.
AfterClaim(p) == IF Missed(p) THEN "record" ELSE "fire"

\* claim: advance the job past this run.
Claim(p) ==
    LET e == Current(p).entry
        j == Current(p).job
        next == IF is_one_shot(e) THEN None
                ELSE next_run_after(e, proc[p].at)
    IN
    /\ proc[p].pc = "claim"
    /\ Change(j, [Reloaded(j, e) EXCEPT !.next = next])
    /\ undone' = IF faults' # faults THEN undone \cup {j} ELSE undone
    /\ owed' = owed \cup {j}
    /\ proc' = [proc EXCEPT ![p].next = next,
                   ![p].pc = IF is_one_shot(e) THEN "disable"
                             ELSE AfterClaim(p)]
    /\ UNCHANGED <<now, minted, lease, client, copies, ops, wanted, fired,
                   refired, replaced>>

ClaimDisables(p) ==
    /\ proc[p].pc = "disable"
    /\ Change(Current(p).job,
              [Reloaded(Current(p).job, Current(p).entry) EXCEPT !.enabled = FALSE])
    /\ proc' = [proc EXCEPT ![p].pc = AfterClaim(p)]
    /\ UNCHANGED <<now, minted, lease, client, copies, ops, ghostVars>>

\* The message is sent, or the session started, or that fails.
Fire(p) ==
    /\ proc[p].pc = "fire"
    /\ fired' = fired \cup {This(p)}
    /\ refired' = IF This(p) \in fired THEN refired \cup {Current(p).job}
                  ELSE refired
    /\ owed' = owed \ {Current(p).job}
    /\ proc' = [proc EXCEPT ![p].pc = "record"]
    /\ UNCHANGED <<now, minted, store, lease, client, copies, boundVars,
                   wanted, replaced, undone>>

\* The outcome, with the next run the claim computed; then the next job.
Record(p) ==
    LET rest == Tail(proc[p].due) IN
    /\ proc[p].pc = "record"
    /\ Change(Current(p).job,
              [Reloaded(Current(p).job, Current(p).entry) EXCEPT !.next = proc[p].next])
    /\ proc' = [proc EXCEPT ![p] =
           IF rest = << >> THEN [Off EXCEPT !.pc = "sleeping"]
           ELSE [@ EXCEPT !.pc = "claim", !.due = rest, !.next = None]]
    /\ owed' = IF Missed(p) THEN owed \ {Current(p).job} ELSE owed
    /\ UNCHANGED <<now, minted, lease, client, copies, ops, wanted, fired,
                   refired, replaced, undone>>

\* The lease a dead process leaves behind: the system frees it.
LeaseAfterKept(p) == lease              \* mutant: it outlives its holder
LeaseAfter(p) == IF lease = p THEN Nobody ELSE lease

\* A run that was claimed and not yet fired is lost.
Crash(p) ==
    /\ proc[p].pc # "down" /\ faults < MaxFaults
    /\ faults' = faults + 1
    /\ proc' = [proc EXCEPT ![p] = [Off EXCEPT !.pc = "down"]]
    /\ lease' = LeaseAfter(p)
    /\ owed' = IF proc[p].pc \in {"disable", "fire", "record"}
               THEN owed \ {Current(p).job} ELSE owed
    /\ UNCHANGED <<now, minted, store, client, copies, ops, wanted,
                   fired, refired, replaced, undone>>

Restart(p) ==
    /\ proc[p].pc = "down"
    /\ proc' = [proc EXCEPT ![p] = Off]
    /\ UNCHANGED <<now, minted, store, lease, client, copies, boundVars,
                   ghostVars>>

-----------------------------------------------------------------------------
(* cron_service.rs: what clients do. *)

Begins(c) == client[c].pc = "off" /\ ops < MaxOps /\ ops' = ops + 1

Then(c, pc, j, seen) ==
    client' = [client EXCEPT ![c] =
        IF pc = "off" THEN Rested ELSE [pc |-> pc, job |-> j, entry |-> seen]]

New(kind) == [kind |-> kind, enabled |-> TRUE, next |-> None, arming |-> 0]

Created(c, j) ==
    /\ Begins(c) /\ j \notin minted
    /\ minted' = minted \cup {j}
    /\ wanted' = [wanted EXCEPT ![j] = [enabled |-> TRUE]]
    /\ Then(c, "arm", j, NoEntry)
    /\ UNCHANGED <<now, lease, proc, copies, fired, owed, refired>>

\* create_full, with a new id; arming the first run follows.
Create(c, j, kind) ==
    /\ Stored([store EXCEPT ![j] = New(kind)])
    /\ Created(c, j)
    /\ UNCHANGED <<replaced, undone>>

CreateUnstored(c, j) ==
    /\ Begins(c) /\ j \notin minted
    /\ NotStored
    /\ Then(c, "arm", j, NoEntry)
    /\ UNCHANGED <<now, minted, lease, proc, copies, ghostVars>>

\* When the file cannot be read or parsed the registry is an empty one, and
\* the new job replaces all others.
CreateBlind(c, j, kind) ==
    LET s == [k \in Jobs |-> IF k = j THEN New(kind) ELSE NoEntry] IN
    /\ faults < MaxFaults
    /\ faults' = faults + 1
    /\ store' = s
    /\ Created(c, j)
    /\ Replaces([s EXCEPT ![j] = store[j]])

Wants(j, w) ==
    wanted' = IF Exists(j) /\ faults' = faults
              THEN [wanted EXCEPT ![j] = w] ELSE wanted

Remove(c, j) ==
    /\ Begins(c) /\ Exists(j)
    /\ Stored([store EXCEPT ![j] = NoEntry]) \/ NotStored
    /\ Wants(j, NoEntry)
    /\ UNCHANGED <<now, minted, lease, proc, client, copies, fired, owed,
                   refired, replaced, undone>>

\* Enabling arms the job again; disabling does not.
Enables(c, j, enabled) ==
    /\ Change(j, [Reloaded(j, store[j]) EXCEPT !.enabled = enabled])
    /\ Wants(j, [enabled |-> enabled])
    /\ Then(c, IF Exists(j) /\ enabled THEN "arm" ELSE "off", j, NoEntry)
    /\ UNCHANGED <<now, minted, lease, proc, copies, fired, owed, refired,
                   replaced, undone>>

SetEnabled(c, j, enabled) == Begins(c) /\ Exists(j) /\ Enables(c, j, enabled)

\* arm: read the entry, then set its first run.
ArmReads(c) ==
    LET j == client[c].job IN
    /\ client[c].pc = "arm"
    /\ Then(c, IF Exists(j) THEN "armed" ELSE "off", j, store[j])
    /\ UNCHANGED <<now, minted, store, lease, proc, copies, boundVars,
                   ghostVars>>

ArmWrites(c) ==
    LET j == client[c].job IN
    /\ client[c].pc = "armed"
    /\ Change(j, [Reloaded(j, client[c].entry) EXCEPT
                     !.next = first_run_at(client[c].entry, now),
                     !.arming = @ + 1])
    /\ Then(c, "off", j, NoEntry)
    /\ UNCHANGED <<now, minted, lease, proc, copies, ops, ghostVars>>

\* update reads the job, validates the whole, and changes it.
UpdateReads(c, j) ==
    /\ Begins(c) /\ Exists(j)
    /\ Then(c, "update", j, store[j])
    /\ UNCHANGED <<now, minted, store, lease, proc, copies, faults,
                   ghostVars>>

\* The schedule is written whether the call changed it or not, so that of two
\* updates the later undoes the earlier's; a changed one is armed.  A call
\* that also sets "enabled" is an update and a set_enabled.
UpdateWrites(c, kind) ==
    LET j == client[c].job IN
    /\ client[c].pc = "update"
    /\ Change(j, [Reloaded(j, client[c].entry) EXCEPT !.kind = kind])
    /\ Then(c, IF Exists(j) /\ kind # client[c].entry.kind
               THEN "arm" ELSE "off", j, NoEntry)
    /\ UNCHANGED <<now, minted, lease, proc, copies, ops, ghostVars>>

\* trigger: read the job, fire it now, and record the outcome with the next
\* run it had when it was read.
TriggerReads(c, j) ==
    /\ Begins(c) /\ Exists(j)
    /\ Then(c, "trigger", j, store[j])
    /\ UNCHANGED <<now, minted, store, lease, proc, copies, faults,
                   ghostVars>>

TriggerFires(c) ==
    /\ client[c].pc = "trigger"
    /\ Then(c, "triggered", client[c].job, client[c].entry)
    /\ UNCHANGED <<now, minted, store, lease, proc, copies, boundVars,
                   ghostVars>>

TriggerNext(e) == IF is_one_shot(e) THEN None ELSE e.next

TriggerRecords(c) ==
    LET j == client[c].job
        next == TriggerNext(client[c].entry)
    IN
    /\ client[c].pc = "triggered"
    /\ Change(j, [Reloaded(j, client[c].entry) EXCEPT !.next = next])
    /\ undone' = IF Exists(j) /\ store[j].next # next
                 THEN undone \cup {j} ELSE undone
    /\ Then(c, "off", j, NoEntry)
    /\ UNCHANGED <<now, minted, lease, proc, copies, ops, wanted, fired, owed,
                   refired, replaced>>

\* A client's process dies within an operation.
ClientDies(c) ==
    /\ client[c].pc # "off" /\ faults < MaxFaults
    /\ faults' = faults + 1
    /\ client' = [client EXCEPT ![c] = Rested]
    /\ UNCHANGED <<now, minted, store, lease, proc, copies, ops,
                   ghostVars>>

-----------------------------------------------------------------------------
ClockTicks ==
    /\ now < MaxTime
    /\ now' = now + 1
    /\ UNCHANGED <<minted, store, lease, proc, client, copies, boundVars,
                   ghostVars>>

SchedulerStep(p) ==
    try_lease(p) \/ Tick(p) \/ Claim(p) \/ ClaimDisables(p) \/ Fire(p)
    \/ Record(p)

ClientStep(c) ==
    \/ \E j \in Jobs :
          \/ \E kind \in Kinds : Create(c, j, kind) \/ CreateBlind(c, j, kind)
          \/ CreateUnstored(c, j)
          \/ Remove(c, j)
          \/ \E enabled \in BOOLEAN : SetEnabled(c, j, enabled)
          \/ UpdateReads(c, j) \/ TriggerReads(c, j)
    \/ \E kind \in Kinds : UpdateWrites(c, kind)
    \/ ArmReads(c) \/ ArmWrites(c) \/ TriggerFires(c) \/ TriggerRecords(c)

Next ==
    \/ ClockTicks
    \/ UnlockedReads \/ \E s \in copies : UnlockedWrites(s)
    \/ \E p \in Procs : SchedulerStep(p) \/ Crash(p) \/ Restart(p)
    \/ \E c \in Clients : ClientStep(c) \/ ClientDies(c)

Spec == Init /\ [][Next]_vars

\* A live process keeps running its scheduler thread.
Fairness == \A p \in Procs : WF_vars(SchedulerStep(p))

FairSpec == Spec /\ Fairness

-----------------------------------------------------------------------------
(* Properties. *)

\* A run is fired once, whichever processes die, take over the lease or edit
\* the job meanwhile, unless its claim did not last: the write of the claim
\* failed, a trigger that had read the job before wrote the old time back, or
\* the entry was replaced by a change that had no lock or could not read the
\* file (claim, tick and try_lease).
RunFiresOnce == refired \subseteq undone

\* What a docs line says without the exception: "a lock ensures one of them
\* fires each run" (docs/usage.md).
EachRunFiresOnce == refired = {}

\* No pass of a scheduler, trigger or update, working from an older copy of a
\* job, brings back one that a client removed or enables one that a client
\* disabled; only a change that had no lock or could not read the file does
\* (CronRegistry::modify, which reads the file again under the lock).  The
\* schedule and the next run have no such protection: an update writes the
\* kind it read, and claim, record and trigger the next run they computed,
\* over what another client stored meanwhile.
NothingRevived == \A j \in Jobs \ replaced :
    /\ Exists(j) <=> wanted[j] # NoEntry
    /\ Exists(j) /\ store[j].enabled => wanted[j].enabled

SomeoneUp == \E p \in Procs : proc[p].pc # "down"

\* A run that has come due is claimed and then fired or recorded as missed,
\* while some process lives: the lease passes on when its holder dies, and a
\* run it had not claimed is found again.  A run comes to nothing only where a
\* client withdraws it, where a stale or unlocked write replaces its time
\* before it is claimed, or where its process dies between claiming and
\* firing it (spawn, try_lease, tick, claim).
DueIsHandled == \A j \in Jobs :
    (is_due(j, now) \/ j \in owed)
        ~> (~(is_due(j, now) \/ j \in owed) \/ ~SomeoneUp)
=============================================================================
