---------------------------- MODULE ReaderCursor ----------------------------
(***************************************************************************)
(* How an agent reads one conversation of its mailbox and records how far  *)
(* it has read: the reader's lease, delivery and acknowledgement           *)
(* (runtime/src/mailbox.rs) and the register it writes                     *)
(* (runtime/src/cursor_fence.rs).                                          *)
(*                                                                         *)
(* Several processes may run the same agent.  Each attempt to read is a    *)
(* claim with a fresh identity (claim_id), so a claim lives once: it takes *)
(* the lock, claims the register, delivers and commits, and lets go.       *)
(*                                                                         *)
(* A process may be frozen at any point and go on later, so no claim is    *)
(* ever bound to act while the lock is its own: whatever HeldLease         *)
(* believes about its lease is checked before a step and may be stale in   *)
(* the step.  A failed check, a failed read or write and a shutdown all    *)
(* end the claim.                                                          *)
(*                                                                         *)
(* A message is one addressed to the reader: the frames that poll_tail and *)
(* poll_conversation filter out are not counted.                           *)
(***************************************************************************)
EXTENDS Integers

CONSTANTS
    Claims,         \* claim identities
    NoClaim,        \* nobody
    MaxMessages     \* bound: messages in the conversation

ASSUME ClaimsAssumption == NoClaim \notin Claims
ASSUME MessagesAssumption == MaxMessages \in Nat

(* "fenced": a lock lasts until its holder exits.  "cas": leases expire,   *)
(* writes can be conditional.  "lease": leases expire, and that is all.    *)
Backends == {"fenced", "cas", "lease"}

VARIABLES
    backend,    \* what the storage offers; it never changes
    register,   \* the stored ReaderRegister
    version,    \* the version the storage gives it; 0 when it does not exist
    late,       \* external: conditional writes that may still reach storage
    lock,       \* external: the claim the storage takes for the lock's holder
    sent,       \* messages in the conversation so far
    delivered,  \* messages the consumer has taken
    pc,         \* where each claim is
    offset,     \* OwnedReader.offset
    next,       \* the end of the batch being delivered
    given,      \* how far the batch has been delivered
    epoch,      \* RegisterCursor.epoch
    token       \* RegisterCursor.token, or the version the claim has read

storeVars == <<register, version, late>>
readerVars == <<offset, next, given, epoch, token>>
vars == <<backend, storeVars, lock, sent, delivered, pc, readerVars>>

Messages == 0..MaxMessages
Holding == {"claim", "store", "fence", "fence sent", "poll", "deliver", "confirm",
            "commit", "commit sent"}
ReaderRegister == [holder : Claims \cup {NoClaim}, epoch : Nat, read_offset : Messages]

TypeOK ==
    /\ backend \in Backends
    /\ register \in ReaderRegister
    /\ version \in Nat
    /\ late \subseteq [expected : Nat, to : ReaderRegister]
    /\ lock \in Claims \cup {NoClaim}
    /\ sent \in Messages
    /\ delivered \subseteq Messages
    /\ pc \in [Claims -> {"new", "gone"} \cup Holding]
    /\ offset \in [Claims -> Messages]
    /\ next \in [Claims -> Messages]
    /\ given \in [Claims -> Messages]
    /\ epoch \in [Claims -> Nat]
    /\ token \in [Claims -> Nat]

Init ==
    /\ backend \in Backends
    /\ register = [holder |-> NoClaim, epoch |-> 0, read_offset |-> 0]
    /\ version = 0 /\ late = {}
    /\ lock = NoClaim
    /\ sent = 0 /\ delivered = {}
    /\ pc = [c \in Claims |-> "new"]
    /\ offset = [c \in Claims |-> 0]
    /\ next = [c \in Claims |-> 0]
    /\ given = [c \in Claims |-> 0]
    /\ epoch = [c \in Claims |-> 0]
    /\ token = [c \in Claims |-> 0]

-----------------------------------------------------------------------------
(* The storage.                                                            *)

Goto(c, from, to) == pc[c] = from /\ pc' = [pc EXCEPT ![c] = to]

Write(r) == register' = r /\ version' = version + 1

(* What claim c writes to record the position o.                           *)
Record(c, o) == [holder |-> c, epoch |-> epoch[c], read_offset |-> o]

(* write_if_version by claim c, at from.  Committed: the claim has the new *)
(* version.  Unknown: the write is done, lost, or still on its way, and    *)
(* the claim will look.  A conflict ends the claim.                        *)
Committed(c, r) ==
    /\ token[c] = version
    /\ Write(r)
    /\ token' = [token EXCEPT ![c] = version + 1]
    /\ UNCHANGED late

Unknown(c, r) ==
    /\ \/ token[c] = version /\ Write(r) /\ UNCHANGED late
       \/ late' = late \cup {[expected |-> token[c], to |-> r]} /\ UNCHANGED <<register, version>>
       \/ UNCHANGED storeVars
    /\ UNCHANGED token

(* A write that was on its way arrives: it is still conditional.           *)
LateWrite(w) ==
    /\ w \in late
    /\ late' = late \ {w}
    /\ \/ w.expected = version /\ Write(w.to)
       \/ w.expected # version /\ UNCHANGED <<register, version>>
    /\ UNCHANGED <<backend, lock, sent, delivered, pc, readerVars>>

(* A lease the storage has not seen renewed for too long is over.          *)
Expire ==
    /\ backend # "fenced" /\ lock # NoClaim
    /\ lock' = NoClaim
    /\ UNCHANGED <<backend, storeVars, sent, delivered, pc, readerVars>>

Send ==
    /\ sent < MaxMessages
    /\ sent' = sent + 1
    /\ UNCHANGED <<backend, storeVars, lock, delivered, pc, readerVars>>

-----------------------------------------------------------------------------
(* A claim.                                                                *)

(* Mutant: the lock is taken from whoever has it.                          *)
AcquireStolen(c) ==
    /\ Goto(c, "new", "claim")
    /\ lock' = c
    /\ UNCHANGED <<backend, storeVars, sent, delivered, readerVars>>
Acquire(c) ==
    /\ Goto(c, "new", "claim")
    /\ lock = NoClaim
    /\ lock' = c
    /\ UNCHANGED <<backend, storeVars, sent, delivered, readerVars>>

(* RegisterCursor::claim reads the register; with conditional writes it    *)
(* goes on to write its fence, the next epoch, over the version it read.   *)
ReadRegister(c) ==
    /\ IF backend = "cas"
       THEN Goto(c, "claim", "fence") /\ epoch' = [epoch EXCEPT ![c] = register.epoch + 1]
       ELSE Goto(c, "claim", "store") /\ UNCHANGED epoch
    /\ offset' = [offset EXCEPT ![c] = register.read_offset]
    /\ token' = [token EXCEPT ![c] = version]
    /\ UNCHANGED <<backend, storeVars, lock, sent, delivered, next, given>>

(* store_plain at the end of a claim without conditional writes.           *)
StoreClaim(c) ==
    /\ Goto(c, "store", "poll")
    /\ Write(Record(c, offset[c]))
    /\ UNCHANGED <<backend, late, lock, sent, delivered, readerVars>>

WriteFence(c) ==
    /\ \/ Goto(c, "fence", "poll") /\ Committed(c, Record(c, offset[c]))
       \/ Goto(c, "fence", "fence sent") /\ Unknown(c, Record(c, offset[c]))
    /\ UNCHANGED <<backend, lock, sent, delivered, offset, next, given, epoch>>

(* read_back: go on only if what is stored is this very record.            *)
(* Mutant: any version will do.                                            *)
IsStoredAny(r) == version > 0
IsStored(r) == register = r

ReadBackFence(c) ==
    /\ Goto(c, "fence sent", "poll")
    /\ IsStored(Record(c, offset[c]))
    /\ token' = [token EXCEPT ![c] = version]
    /\ UNCHANGED <<backend, storeVars, lock, sent, delivered, offset, next, given, epoch>>

(* poll_conversation: what the conversation holds past the offset.         *)
Poll(c) ==
    /\ Goto(c, "poll", "deliver")
    /\ \E o \in offset[c]..sent : next' = [next EXCEPT ![c] = o]
    /\ given' = [given EXCEPT ![c] = offset[c]]
    /\ UNCHANGED <<backend, storeVars, lock, sent, delivered, offset, epoch, token>>

(* The consumer takes one message, or refuses it: then the batch is read   *)
(* again.  Mutant: a refused message is passed over.                       *)
HandOverAnyway(c) ==
    /\ pc[c] = "deliver" /\ given[c] < next[c]
    /\ given' = [given EXCEPT ![c] = @ + 1]
    /\ \/ delivered' = delivered \cup {given[c] + 1}
       \/ UNCHANGED delivered
    /\ UNCHANGED <<backend, storeVars, lock, sent, pc, offset, next, epoch, token>>
HandOver(c) ==
    /\ given[c] < next[c]
    /\ \/ /\ pc[c] = "deliver"
          /\ given' = [given EXCEPT ![c] = @ + 1]
          /\ delivered' = delivered \cup {given[c] + 1}
          /\ UNCHANGED pc
       \/ /\ Goto(c, "deliver", "poll")
          /\ UNCHANGED <<given, delivered>>
    /\ UNCHANGED <<backend, storeVars, lock, sent, offset, next, epoch, token>>

HandedOver(c) ==
    /\ given[c] = next[c]
    /\ Goto(c, "deliver", IF next[c] > offset[c] THEN "confirm" ELSE "poll")
    /\ UNCHANGED <<backend, storeVars, lock, sent, delivered, readerVars>>

(* HeldLease::confirm renews: the storage still takes c for the holder.    *)
Confirm(c) ==
    /\ Goto(c, "confirm", "commit")
    /\ lock = c
    /\ UNCHANGED <<backend, storeVars, lock, sent, delivered, readerVars>>

(* RegisterCursor::commit.                                                 *)
Commit(c) ==
    /\ \/ /\ Goto(c, "commit", "poll")
          /\ IF backend = "cas" THEN Committed(c, Record(c, next[c]))
             ELSE Write(Record(c, next[c])) /\ UNCHANGED <<late, token>>
          /\ offset' = [offset EXCEPT ![c] = next[c]]
       \/ /\ backend = "cas"
          /\ Goto(c, "commit", "commit sent")
          /\ Unknown(c, Record(c, next[c]))
          /\ UNCHANGED offset
    /\ UNCHANGED <<backend, lock, sent, delivered, next, given, epoch>>

ReadBackCommit(c) ==
    /\ Goto(c, "commit sent", "poll")
    /\ IsStored(Record(c, next[c]))
    /\ token' = [token EXCEPT ![c] = version]
    /\ offset' = [offset EXCEPT ![c] = next[c]]
    /\ UNCHANGED <<backend, storeVars, lock, sent, delivered, next, given, epoch>>

(* The reader is dropped: a conflict or an error, a lease no longer        *)
(* believed in, a batch never acknowledged, or the end of the tail.  Its   *)
(* lock, if it still has it, is released.                                  *)
LetGo(c) ==
    /\ pc[c] \in Holding
    /\ pc' = [pc EXCEPT ![c] = "gone"]
    /\ lock' = IF lock = c THEN NoClaim ELSE lock
    /\ UNCHANGED <<backend, storeVars, sent, delivered, readerVars>>

(* The process dies.  Only a lease outlives it, until it expires.          *)
Crash(c) ==
    /\ backend # "fenced"
    /\ pc[c] \in Holding
    /\ pc' = [pc EXCEPT ![c] = "gone"]
    /\ UNCHANGED <<backend, storeVars, lock, sent, delivered, readerVars>>

-----------------------------------------------------------------------------
ClaimStep(c) ==
    \/ Acquire(c) \/ ReadRegister(c) \/ StoreClaim(c) \/ WriteFence(c)
    \/ ReadBackFence(c) \/ Poll(c) \/ HandOver(c) \/ HandedOver(c) \/ Confirm(c)
    \/ Commit(c) \/ ReadBackCommit(c) \/ LetGo(c) \/ Crash(c)

Next ==
    \/ \E c \in Claims : ClaimStep(c)
    \/ \E w \in late : LateWrite(w)
    \/ Expire \/ Send

Spec == Init /\ [][Next]_vars

-----------------------------------------------------------------------------
(* Properties.                                                             *)

(* CursorGuarantee: on every backend but one with expiring leases and no   *)
(* conditional write, the position never moves back, though a claim frozen *)
(* past its lease may wake up at any point of a commit and a write may     *)
(* arrive long after its claim has gone.                                   *)
CursorNeverMovesBack ==
    [][backend # "lease" => register'.read_offset >= register.read_offset]_vars

(* "a resumed holder's next write finds a newer version and is refused":   *)
(* with conditional writes the register passes only from a claim to a      *)
(* later one, and between two fences only its own claim writes it.         *)
OnlyNewestClaimWrites ==
    [][backend = "cas" =>
        \/ register'.epoch > register.epoch
        \/ register'.epoch = register.epoch /\ register'.holder = register.holder]_vars

(* Delivery is at least once, on every backend: the recorded position      *)
(* never passes a message the consumer has not taken.                      *)
NothingSkipped == \A m \in 1..register.read_offset : m \in delivered

(* A lock that lasts until its holder exits keeps every other claim out,   *)
(* from the read of the register to the last commit.                       *)
OneReader ==
    backend = "fenced" =>
        \A c, d \in Claims : (pc[c] \in Holding /\ pc[d] \in Holding) => c = d
=============================================================================
