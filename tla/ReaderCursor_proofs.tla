------------------------ MODULE ReaderCursor_proofs ------------------------
(***************************************************************************)
(* Proofs about ReaderCursor, for any claims, any number of messages and   *)
(* every backend.                                                          *)
(***************************************************************************)
EXTENDS ReaderCursor, TLAPS

-----------------------------------------------------------------------------
(* The inductive invariant.                                                *)

Reading == {"poll", "deliver", "confirm", "commit"}
Passes(r, s) ==
    s.epoch > r.epoch \/ (s.epoch = r.epoch /\ s.holder = r.holder)

(* No version is known before it exists.                                   *)
VersionsExist ==
    /\ \A c \in Claims : token[c] <= version
    /\ \A w \in late : w.expected <= version

(* The steps of a claim fit the backend.                                   *)
StepsFitBackend ==
    /\ backend = "cas" => \A c \in Claims : pc[c] # "store"
    /\ backend # "cas" => /\ late = {}
                          /\ \A c \in Claims : pc[c] \notin {"fence", "fence sent", "commit sent"}

(* A batch lies past the reader's offset.                                  *)
BatchIsAhead ==
    \A c \in Claims :
        /\ pc[c] = "deliver" => offset[c] <= given[c] /\ given[c] <= next[c]
        /\ pc[c] \in {"confirm", "commit", "commit sent"} => offset[c] <= next[c]

(* With conditional writes: a claim that has the current version knows     *)
(* what is stored, and a write that can still land passes the register on. *)
FenceKnows ==
    \A c \in Claims : (pc[c] = "fence" /\ token[c] = version) =>
        register.read_offset = offset[c] /\ epoch[c] = register.epoch + 1
ReaderKnows ==
    \A c \in Claims : (pc[c] \in Reading /\ token[c] = version) => register = Record(c, offset[c])
LateMovesOn ==
    \A w \in late : w.expected = version =>
        w.to.read_offset >= register.read_offset /\ Passes(register, w.to)
CurrentIsKnown == backend = "cas" => FenceKnows /\ ReaderKnows /\ LateMovesOn

(* With a lock that lasts: its holder is the only reader and knows what is *)
(* stored.                                                                 *)
HolderIsAlone ==
    backend = "fenced" =>
        \A c \in Claims :
            /\ pc[c] \in Holding => lock = c
            /\ pc[c] \in Reading \cup {"store"} => register.read_offset = offset[c]

(* Whatever position is stored, on its way or in a reader's hands, the     *)
(* messages before it were taken.                                          *)
Taken(D, o) == \A m \in 1..o : m \in D
PositionsAreTaken ==
    /\ Taken(delivered, register.read_offset)
    /\ \A w \in late : Taken(delivered, w.to.read_offset)
    /\ \A c \in Claims :
          /\ Taken(delivered, offset[c])
          /\ pc[c] = "deliver" => Taken(delivered, given[c])
          /\ pc[c] \in {"confirm", "commit", "commit sent"} => Taken(delivered, next[c])

IInv ==
    /\ TypeOK /\ VersionsExist /\ StepsFitBackend /\ BatchIsAhead
    /\ CurrentIsKnown /\ HolderIsAlone /\ PositionsAreTaken

-----------------------------------------------------------------------------
(* Types.                                                                  *)

(* What a claim writes to the register.                                    *)
LEMMA RecordType ==
    ASSUME TypeOK, NEW c \in Claims, NEW o \in Messages
    PROVE  /\ Record(c, o) \in ReaderRegister
           /\ Record(c, o).holder = c
           /\ Record(c, o).epoch = epoch[c]
           /\ Record(c, o).read_offset = o
  BY DEF TypeOK, Record, ReaderRegister

(* The parts of the type invariant that arithmetic is done with.           *)
LEMMA Numbers ==
    ASSUME TypeOK
    PROVE  /\ Messages \subseteq Nat
           /\ version \in Nat
           /\ register.epoch \in Nat /\ register.read_offset \in Messages
           /\ \A w \in late : /\ w.expected \in Nat /\ w.to \in ReaderRegister
                              /\ w.to.read_offset \in Messages /\ w.to.epoch \in Nat
           /\ \A c \in Claims : /\ offset[c] \in Messages /\ next[c] \in Messages
                                /\ given[c] \in Messages /\ epoch[c] \in Nat
                                /\ token[c] \in Nat
  BY MessagesAssumption DEF TypeOK, ReaderRegister, Messages

(* A mailbox never changes its backend.                                    *)
LEMMA BackendStays ==
    ASSUME TypeOK, [Next]_vars
    PROVE  backend' = backend /\ backend \in {"fenced", "cas", "lease"}
  BY DEF Next, ClaimStep, Acquire, ReadRegister, StoreClaim, WriteFence, ReadBackFence, Poll,
         HandOver, HandedOver, Confirm, Commit, ReadBackCommit, LetGo, Crash, LateWrite,
         Expire, Send, vars, TypeOK, Backends

(* The invariant holds of a new mailbox.                                   *)
LEMMA InitInv == Init => IInv
  <1> SUFFICES ASSUME Init PROVE IInv
    OBVIOUS
  <1>1. TypeOK
    BY MessagesAssumption DEF Init, TypeOK, Backends, ReaderRegister, Messages
  <1>2. VersionsExist /\ StepsFitBackend /\ BatchIsAhead
    BY DEF Init, VersionsExist, StepsFitBackend, BatchIsAhead
  <1>3. CurrentIsKnown /\ HolderIsAlone
    BY DEF Init, CurrentIsKnown, FenceKnows, ReaderKnows, LateMovesOn, HolderIsAlone, Reading, Holding
  <1>4. PositionsAreTaken
    BY DEF Init, PositionsAreTaken, Taken
  <1> QED
    BY <1>1, <1>2, <1>3, <1>4 DEF IInv

(* Every step keeps the types.                                             *)
LEMMA TypeStep == TypeOK /\ [Next]_vars => TypeOK'
  <1> SUFFICES ASSUME TypeOK, [Next]_vars PROVE TypeOK'
    OBVIOUS
  <1>B. backend' = backend
    BY BackendStays
  <1> USE <1>B
  <1>0. CASE UNCHANGED vars
    BY <1>0 DEF vars, storeVars, readerVars, TypeOK
  <1>1. ASSUME NEW c \in Claims, ClaimStep(c) PROVE TypeOK'
    <2>1. CASE Acquire(c)
      BY <2>1 DEF Acquire, Goto, TypeOK, storeVars, readerVars, Holding
    <2>2. CASE ReadRegister(c)
      <3>1. register.read_offset \in Messages /\ register.epoch + 1 \in Nat
        BY Numbers
      <3> QED
        BY <2>2, <3>1 DEF ReadRegister, Goto, TypeOK, storeVars, readerVars, Holding
    <2>3. CASE StoreClaim(c)
      <3>1. Record(c, offset[c]) \in ReaderRegister /\ version + 1 \in Nat
        BY Numbers, RecordType
      <3> QED
        BY <2>3, <3>1 DEF StoreClaim, Write, Goto, TypeOK, storeVars, readerVars, Holding
    <2>4. CASE WriteFence(c)
      <3>1. Record(c, offset[c]) \in ReaderRegister /\ version + 1 \in Nat
        BY Numbers, RecordType
      <3>2. register' \in ReaderRegister /\ version' \in Nat /\ token' \in [Claims -> Nat]
        BY <2>4, <3>1 DEF WriteFence, Committed, Unknown, Write, TypeOK, storeVars
      <3>3. [expected |-> token[c], to |-> Record(c, offset[c])]
              \in [expected : Nat, to : ReaderRegister]
        BY <3>1, Numbers
      <3>4. late' \subseteq [expected : Nat, to : ReaderRegister]
        BY <2>4, <3>3 DEF WriteFence, Committed, Unknown, TypeOK, storeVars
      <3> QED
        BY <2>4, <3>2, <3>4 DEF WriteFence, Goto, TypeOK, Holding
    <2>5. CASE ReadBackFence(c)
      BY <2>5 DEF ReadBackFence, Goto, TypeOK, storeVars, readerVars, Holding
    <2>6. CASE Poll(c)
      <3>1. PICK o \in offset[c]..sent : next' = [next EXCEPT ![c] = o]
        BY <2>6 DEF Poll
      <3>2. o \in Messages
        BY MessagesAssumption DEF TypeOK, Messages
      <3> QED
        BY <2>6, <3>1, <3>2 DEF Poll, Goto, TypeOK, storeVars, readerVars, Holding
    <2>7. CASE HandOver(c)
      <3>1. given[c] + 1 \in Messages
        BY <2>7, MessagesAssumption DEF HandOver, TypeOK, Messages
      <3> QED
        BY <2>7, <3>1 DEF HandOver, Goto, TypeOK, storeVars, readerVars, Holding
    <2>8. CASE HandedOver(c)
      BY <2>8 DEF HandedOver, Goto, TypeOK, storeVars, readerVars, Holding
    <2>9. CASE Confirm(c)
      BY <2>9 DEF Confirm, Goto, TypeOK, storeVars, readerVars, Holding
    <2>10. CASE Commit(c)
      <3>1. Record(c, next[c]) \in ReaderRegister /\ version + 1 \in Nat
        BY Numbers, RecordType
      <3>2. register' \in ReaderRegister /\ version' \in Nat /\ token' \in [Claims -> Nat]
        BY <2>10, <3>1 DEF Commit, Committed, Unknown, Write, TypeOK, storeVars
      <3>3. [expected |-> token[c], to |-> Record(c, next[c])]
              \in [expected : Nat, to : ReaderRegister]
        BY <3>1, Numbers
      <3>4. late' \subseteq [expected : Nat, to : ReaderRegister]
        BY <2>10, <3>3 DEF Commit, Committed, Unknown, TypeOK, storeVars
      <3> QED
        BY <2>10, <3>2, <3>4 DEF Commit, Goto, TypeOK, Holding
    <2>11. CASE ReadBackCommit(c)
      BY <2>11 DEF ReadBackCommit, Goto, TypeOK, storeVars, readerVars, Holding
    <2>12. CASE LetGo(c) \/ Crash(c)
      BY <2>12 DEF LetGo, Crash, TypeOK, storeVars, readerVars, Holding
    <2> QED
      BY <1>1, <2>1, <2>2, <2>3, <2>4, <2>5, <2>6, <2>7, <2>8, <2>9, <2>10, <2>11, <2>12
      DEF ClaimStep
  <1>2. ASSUME NEW w \in late, LateWrite(w) PROVE TypeOK'
    BY <1>2 DEF LateWrite, Write, TypeOK, readerVars
  <1>3. CASE Expire
    BY <1>3 DEF Expire, TypeOK, storeVars, readerVars
  <1>4. CASE Send
    BY <1>4, MessagesAssumption DEF Send, TypeOK, storeVars, readerVars, Messages
  <1> QED
    BY <1>0, <1>1, <1>2, <1>3, <1>4 DEF Next

-----------------------------------------------------------------------------
(* The other parts, each over the actions that can disturb it.             *)

(* Every step leaves the store alone, or writes it and raises the version, *)
(* or only adds a write that may arrive late.                              *)
LEMMA VersionsStep == IInv /\ [Next]_vars => VersionsExist'
  <1> SUFFICES ASSUME IInv, [Next]_vars PROVE VersionsExist'
    OBVIOUS
  <1> USE DEF IInv
  <1>N. /\ version \in Nat /\ \A c \in Claims : token[c] \in Nat
        /\ \A w \in late : w.expected \in Nat
        /\ token \in [Claims -> Nat]
    BY Numbers DEF TypeOK
  <1>0. CASE UNCHANGED <<version, late, token>>
    BY <1>0 DEF VersionsExist
  <1>1. ASSUME NEW c \in Claims, ReadRegister(c) \/ ReadBackFence(c) \/ ReadBackCommit(c)
        PROVE  VersionsExist'
    <2>1. token' = [token EXCEPT ![c] = version] /\ UNCHANGED <<version, late>>
      BY <1>1 DEF ReadRegister, ReadBackFence, ReadBackCommit, storeVars
    <2> QED
      BY <2>1, <1>N DEF VersionsExist
  <1>2. ASSUME NEW c \in Claims, StoreClaim(c) PROVE VersionsExist'
    BY <1>2, <1>N DEF StoreClaim, Write, readerVars, VersionsExist
  <1>3. ASSUME NEW c \in Claims, NEW r, Committed(c, r) \/ Unknown(c, r) PROVE VersionsExist'
    <2>1. CASE Committed(c, r)
      BY <2>1, <1>N DEF Committed, Write, VersionsExist
    <2>2. CASE Unknown(c, r)
      <3>1. /\ version' = version \/ version' = version + 1
            /\ token' = token
            /\ \A w \in late' : w \in late \/ w.expected = token[c]
        BY <2>2 DEF Unknown, Write, storeVars
      <3> QED
        BY <3>1, <1>N DEF VersionsExist
    <2> QED
      BY <1>3, <2>1, <2>2
  <1>4. ASSUME NEW c \in Claims, WriteFence(c) \/ Commit(c) PROVE VersionsExist'
    <2>1. CASE backend # "cas" /\ Commit(c)
      <3>1. version' = version + 1 /\ UNCHANGED <<late, token>>
        BY <2>1 DEF Commit, Write
      <3> QED
        BY <3>1, <1>N DEF VersionsExist
    <2> QED
      BY <1>3, <1>4, <2>1 DEF WriteFence, Commit
  <1>5. ASSUME NEW w \in late, LateWrite(w) PROVE VersionsExist'
    BY <1>5, <1>N DEF LateWrite, Write, readerVars, VersionsExist
  <1> QED
    BY <1>0, <1>1, <1>2, <1>3, <1>4, <1>5
    DEF Next, ClaimStep, Acquire, Poll, HandOver, HandedOver, Confirm, LetGo, Crash, Expire,
        Send, vars, storeVars, readerVars

(* Every step keeps claims to the steps that their backend has.            *)
LEMMA StepsFitStep == IInv /\ [Next]_vars => StepsFitBackend'
  <1> SUFFICES ASSUME IInv, [Next]_vars PROVE StepsFitBackend'
    OBVIOUS
  <1> USE DEF IInv
  <1>B. backend' = backend
    BY BackendStays
  <1> USE <1>B
  <1>N. pc \in [Claims -> {"new", "gone"} \cup Holding]
    BY DEF TypeOK
  <1>0. CASE UNCHANGED <<pc, late>>
    BY <1>0 DEF StepsFitBackend
  <1>1. ASSUME NEW c \in Claims, UNCHANGED late,
               \A d \in Claims : d # c => pc'[d] = pc[d],
               pc'[c] \in {"claim", "poll", "deliver", "confirm", "commit", "gone"}
        PROVE  StepsFitBackend'
    BY <1>1 DEF StepsFitBackend
  <1>2. ASSUME NEW c \in Claims, ReadRegister(c) PROVE StepsFitBackend'
    BY <1>2, <1>N DEF ReadRegister, Goto, storeVars, StepsFitBackend
  <1>3. ASSUME NEW c \in Claims, WriteFence(c) PROVE StepsFitBackend'
    BY <1>3, <1>N DEF WriteFence, Goto, Committed, Unknown, storeVars, StepsFitBackend
  <1>4. ASSUME NEW c \in Claims, Commit(c) PROVE StepsFitBackend'
    BY <1>4, <1>N DEF Commit, Goto, Committed, Unknown, storeVars, StepsFitBackend
  <1>5. ASSUME NEW w \in late, LateWrite(w) PROVE StepsFitBackend'
    BY <1>5 DEF LateWrite, StepsFitBackend
  <1>6. ASSUME NEW c \in Claims,
               Acquire(c) \/ StoreClaim(c) \/ ReadBackFence(c) \/ Poll(c) \/ HandOver(c)
               \/ HandedOver(c) \/ Confirm(c) \/ ReadBackCommit(c) \/ LetGo(c) \/ Crash(c)
        PROVE  StepsFitBackend'
    <2>1. UNCHANGED <<pc, late>>
          \/ /\ UNCHANGED late
             /\ \A d \in Claims : d # c => pc'[d] = pc[d]
             /\ pc'[c] \in {"claim", "poll", "deliver", "confirm", "commit", "gone"}
      BY <1>6, <1>N DEF Acquire, StoreClaim, ReadBackFence, Poll, HandOver, HandedOver, Confirm,
                  ReadBackCommit, LetGo, Crash, Goto, storeVars
    <2> QED
      BY <2>1, <1>0, <1>1
  <1> QED
    BY <1>0, <1>2, <1>3, <1>4, <1>5, <1>6 DEF Next, ClaimStep, Expire, Send, vars, storeVars

(* Every step keeps the batch that is handed over ahead of the offset.     *)
LEMMA BatchStep == IInv /\ [Next]_vars => BatchIsAhead'
  <1> SUFFICES ASSUME IInv, [Next]_vars PROVE BatchIsAhead'
    OBVIOUS
  <1> USE DEF IInv
  <1>N. /\ pc \in [Claims -> {"new", "gone"} \cup Holding]
        /\ offset \in [Claims -> Nat] /\ next \in [Claims -> Nat] /\ given \in [Claims -> Nat]
        /\ sent \in Nat
    BY MessagesAssumption DEF TypeOK, Messages
  <1>0. CASE UNCHANGED <<pc, offset, next, given>>
    BY <1>0 DEF BatchIsAhead
  <1>1. ASSUME NEW c \in Claims, UNCHANGED <<next, given>>,
               \A d \in Claims : d # c => pc'[d] = pc[d] /\ offset'[d] = offset[d],
               pc'[c] \in {"claim", "store", "fence", "fence sent", "poll", "gone"}
        PROVE  BatchIsAhead'
    BY <1>1 DEF BatchIsAhead
  <1>2. ASSUME NEW c \in Claims,
               Acquire(c) \/ ReadRegister(c) \/ StoreClaim(c) \/ WriteFence(c)
               \/ ReadBackFence(c) \/ ReadBackCommit(c) \/ LetGo(c) \/ Crash(c)
        PROVE  BatchIsAhead'
    BY <1>1, <1>2, <1>N DEF Acquire, ReadRegister, StoreClaim, WriteFence, ReadBackFence,
                            ReadBackCommit, LetGo, Crash, Goto, readerVars
  <1>3. ASSUME NEW c \in Claims, Poll(c) PROVE BatchIsAhead'
    <2>1. PICK o \in offset[c]..sent : next' = [next EXCEPT ![c] = o]
      BY <1>3 DEF Poll
    <2>2. o \in Nat /\ offset[c] <= o /\ offset[c] <= offset[c]
      BY <1>N
    <2> QED
      BY <1>3, <2>1, <2>2, <1>N DEF Poll, Goto, BatchIsAhead
  <1>4. ASSUME NEW c \in Claims, HandOver(c) PROVE BatchIsAhead'
    <2>1. given[c] \in Nat /\ next[c] \in Nat /\ offset[c] \in Nat /\ given[c] < next[c]
      BY <1>4, <1>N DEF HandOver
    <2>2. /\ given[c] + 1 <= next[c]
          /\ offset[c] <= given[c] => offset[c] <= given[c] + 1
      BY <2>1
    <2> QED
      BY <1>4, <2>2, <1>N DEF HandOver, Goto, BatchIsAhead
  <1>5. ASSUME NEW c \in Claims, HandedOver(c) \/ Confirm(c) PROVE BatchIsAhead'
    BY <1>5, <1>N DEF HandedOver, Confirm, Goto, readerVars, BatchIsAhead
  <1>6. ASSUME NEW c \in Claims, Commit(c) PROVE BatchIsAhead'
    BY <1>6, <1>N DEF Commit, Goto, BatchIsAhead
  <1> QED
    BY <1>0, <1>2, <1>3, <1>4, <1>5, <1>6
    DEF Next, ClaimStep, LateWrite, Expire, Send, vars, readerVars

-----------------------------------------------------------------------------
(* A write that lands makes every version known so far an old one.         *)
LEMMA CurrentStep == IInv /\ [Next]_vars => CurrentIsKnown'
  <1> SUFFICES ASSUME IInv, [Next]_vars, backend = "cas" PROVE CurrentIsKnown'
    BY BackendStays DEF CurrentIsKnown, IInv
  <1> USE DEF IInv
  <1>B. backend' = backend
    BY BackendStays
  <1> USE <1>B
  <1>N. /\ version \in Nat /\ version + 1 # version
        /\ \A c \in Claims : token[c] \in Nat /\ token[c] # version + 1
        /\ \A w \in late : w.expected \in Nat /\ w.expected # version + 1
        /\ pc \in [Claims -> {"new", "gone"} \cup Holding]
        /\ token \in [Claims -> Nat] /\ offset \in [Claims -> Messages]
        /\ epoch \in [Claims -> Nat]
    BY Numbers DEF TypeOK, VersionsExist
  <1>0. ASSUME UNCHANGED <<register, version, late, token, offset, epoch>>,
               \A c \in Claims : /\ pc'[c] \in Reading => pc[c] \in Reading
                                 /\ pc'[c] = "fence" => pc[c] = "fence"
        PROVE  CurrentIsKnown'
    <2>1. FenceKnows'
      BY <1>0 DEF CurrentIsKnown, FenceKnows
    <2>2. ReaderKnows'
      BY <1>0 DEF CurrentIsKnown, ReaderKnows, Record
    <2>3. LateMovesOn'
      BY <1>0 DEF CurrentIsKnown, LateMovesOn, Passes
    <2> QED
      BY <2>1, <2>2, <2>3 DEF CurrentIsKnown
  <1>1. CASE UNCHANGED vars \/ Expire \/ Send
    BY <1>0, <1>1 DEF vars, storeVars, readerVars, Expire, Send
  <1>2. ASSUME NEW c \in Claims,
               Acquire(c) \/ Poll(c) \/ HandOver(c) \/ HandedOver(c) \/ Confirm(c)
               \/ LetGo(c) \/ Crash(c)
        PROVE  CurrentIsKnown'
    <2>1. UNCHANGED <<register, version, late, token, offset, epoch>>
      BY <1>2 DEF Acquire, Poll, HandOver, HandedOver, Confirm, LetGo, Crash, storeVars,
                  readerVars
    <2>2. \A d \in Claims : /\ pc'[d] \in Reading => pc[d] \in Reading
                            /\ pc'[d] = "fence" => pc[d] = "fence"
      BY <1>2, <1>N DEF Acquire, Poll, HandOver, HandedOver, Confirm, LetGo, Crash, Goto,
                        Reading
    <2> QED
      BY <1>0, <2>1, <2>2
  <1>3. ASSUME NEW c \in Claims, ReadRegister(c) PROVE CurrentIsKnown'
    <2>1. FenceKnows'
      BY <1>3, <1>N DEF ReadRegister, Goto, storeVars, CurrentIsKnown, FenceKnows
    <2>2. ReaderKnows'
      BY <1>3, <1>N DEF ReadRegister, Goto, storeVars, CurrentIsKnown, ReaderKnows, Record, Reading
    <2>3. LateMovesOn'
      BY <1>3 DEF ReadRegister, storeVars, CurrentIsKnown, LateMovesOn, Passes
    <2> QED
      BY <2>1, <2>2, <2>3 DEF CurrentIsKnown
  <1>4. ASSUME NEW c \in Claims, StoreClaim(c) PROVE FALSE
    BY <1>4 DEF StoreClaim, Goto, StepsFitBackend
  <1>5. ASSUME NEW c \in Claims, NEW o \in Messages,
               Committed(c, Record(c, o)), epoch' = epoch,
               offset' = [offset EXCEPT ![c] = o], pc' = [pc EXCEPT ![c] = "poll"]
        PROVE  CurrentIsKnown'
    <2>1. /\ version' = version + 1 /\ token' = [token EXCEPT ![c] = version + 1]
          /\ late' = late /\ register' = Record(c, o)
      BY <1>5 DEF Committed, Write
    <2>2. \A d \in Claims : token'[d] = version' => d = c
      BY <2>1, <1>N
    <2>3. \A w \in late' : w.expected # version'
      BY <2>1, <1>N
    <2>4. pc'[c] = "poll" /\ register' = Record(c, offset[c])'
      BY <1>5, <2>1, <1>N DEF Record
    <2> QED
      BY <2>2, <2>3, <2>4 DEF CurrentIsKnown, FenceKnows, ReaderKnows, LateMovesOn
  <1>6. ASSUME NEW c \in Claims, NEW o \in Messages,
               Unknown(c, Record(c, o)), UNCHANGED <<epoch, offset>>,
               \A d \in Claims : d # c => pc'[d] = pc[d],
               pc'[c] \in {"fence sent", "commit sent"},
               token[c] = version => /\ register.read_offset <= o
                                     /\ Passes(register, Record(c, o))
        PROVE  CurrentIsKnown'
    <2>1. CASE Write(Record(c, o)) /\ UNCHANGED late
      <3>1. \A d \in Claims : token'[d] # version'
        BY <1>6, <2>1, <1>N DEF Unknown, Write
      <3>2. \A w \in late' : w.expected # version'
        BY <2>1, <1>N DEF Write
      <3> QED
        BY <3>1, <3>2 DEF CurrentIsKnown, FenceKnows, ReaderKnows, LateMovesOn
    <2>2. CASE UNCHANGED <<register, version>>
      <3>1. \A w \in late' : w \in late \/ (w.expected = token[c] /\ w.to = Record(c, o))
        <4>1. late' = late \/ late' = late \cup {[expected |-> token[c], to |-> Record(c, o)]}
          BY <1>6 DEF Unknown, storeVars
        <4> QED
          BY <4>1
      <3>2. \A w \in late' : w.expected = version =>
               w.to.read_offset >= register.read_offset /\ Passes(register, w.to)
        <4>1. Record(c, o).read_offset = o /\ o \in Nat /\ register.read_offset \in Nat
          BY Numbers, RecordType
        <4> QED
          BY <1>6, <3>1, <4>1 DEF CurrentIsKnown, LateMovesOn
      <3>3. \A d \in Claims : /\ pc'[d] \in Reading => pc[d] \in Reading
                              /\ pc'[d] = "fence" => pc[d] = "fence"
        BY <1>6 DEF Reading
      <3>4. UNCHANGED <<token, offset, epoch>>
        BY <1>6 DEF Unknown
      <3> QED
        <4>1. FenceKnows'
          BY <2>2, <3>3, <3>4 DEF CurrentIsKnown, FenceKnows
        <4>2. ReaderKnows'
          BY <2>2, <3>3, <3>4 DEF CurrentIsKnown, ReaderKnows, Record
        <4>3. LateMovesOn'
          BY <2>2, <3>2 DEF LateMovesOn, Passes
        <4> QED
          BY <4>1, <4>2, <4>3 DEF CurrentIsKnown
    <2> QED
      BY <1>6, <2>1, <2>2 DEF Unknown, storeVars
  <1>7. ASSUME NEW c \in Claims, WriteFence(c) PROVE CurrentIsKnown'
    <2>1. offset[c] \in Messages /\ offset' = [offset EXCEPT ![c] = offset[c]]
      BY <1>7, <1>N DEF WriteFence
    <2>2. token[c] = version => /\ register.read_offset <= offset[c]
                                /\ Passes(register, Record(c, offset[c]))
      <3>1. Record(c, offset[c]).epoch = epoch[c] /\ register.epoch \in Nat
            /\ register.read_offset \in Nat
        BY Numbers, RecordType
      <3>2. token[c] = version => register.read_offset = offset[c] /\ epoch[c] = register.epoch + 1
        BY <1>7 DEF WriteFence, Goto, CurrentIsKnown, FenceKnows
      <3> QED
        BY <3>1, <3>2 DEF Passes
    <2>3. CASE Goto(c, "fence", "poll") /\ Committed(c, Record(c, offset[c]))
      BY <1>5, <1>7, <2>1, <2>3 DEF WriteFence, Goto
    <2>4. CASE Goto(c, "fence", "fence sent") /\ Unknown(c, Record(c, offset[c]))
      BY <1>6, <1>7, <2>1, <2>2, <2>4, <1>N DEF WriteFence, Goto
    <2> QED
      BY <1>7, <2>3, <2>4 DEF WriteFence
  <1>8. ASSUME NEW c \in Claims, Commit(c) PROVE CurrentIsKnown'
    <2>1. next[c] \in Messages
      BY Numbers
    <2>2. token[c] = version => /\ register.read_offset <= next[c]
                                /\ Passes(register, Record(c, next[c]))
      <3>1. offset[c] \in Messages /\ offset[c] <= next[c]
        BY <1>8, Numbers DEF Commit, Goto, BatchIsAhead
      <3>2. token[c] = version => register = Record(c, offset[c])
        BY <1>8 DEF Commit, Goto, CurrentIsKnown, ReaderKnows, Reading
      <3> QED
        BY <2>1, <3>1, <3>2, RecordType DEF Passes
    <2>3. CASE /\ Goto(c, "commit", "poll") /\ Committed(c, Record(c, next[c]))
               /\ offset' = [offset EXCEPT ![c] = next[c]]
      BY <1>5, <1>8, <2>1, <2>3 DEF Commit, Goto
    <2>4. CASE /\ Goto(c, "commit", "commit sent") /\ Unknown(c, Record(c, next[c]))
               /\ UNCHANGED offset
      BY <1>6, <1>8, <2>1, <2>2, <2>4, <1>N DEF Commit, Goto
    <2> QED
      BY <1>8, <2>3, <2>4 DEF Commit
  <1>9. ASSUME NEW c \in Claims, ReadBackFence(c) PROVE CurrentIsKnown'
    <2>1. FenceKnows'
      BY <1>9, <1>N DEF ReadBackFence, Goto, storeVars, CurrentIsKnown, FenceKnows
    <2>2. ReaderKnows'
      BY <1>9, <1>N DEF ReadBackFence, IsStored, Goto, storeVars, CurrentIsKnown, ReaderKnows,
                        Record, Reading
    <2>3. LateMovesOn'
      BY <1>9 DEF ReadBackFence, storeVars, CurrentIsKnown, LateMovesOn, Passes
    <2> QED
      BY <2>1, <2>2, <2>3 DEF CurrentIsKnown
  <1>10. ASSUME NEW c \in Claims, ReadBackCommit(c) PROVE CurrentIsKnown'
    <2>1. FenceKnows'
      BY <1>10, <1>N DEF ReadBackCommit, Goto, storeVars, CurrentIsKnown, FenceKnows
    <2>2. ReaderKnows'
      BY <1>10, <1>N DEF ReadBackCommit, IsStored, Goto, storeVars, CurrentIsKnown, ReaderKnows,
                        Record, Reading
    <2>3. LateMovesOn'
      BY <1>10 DEF ReadBackCommit, storeVars, CurrentIsKnown, LateMovesOn, Passes
    <2> QED
      BY <2>1, <2>2, <2>3 DEF CurrentIsKnown
  <1>11. ASSUME NEW w \in late, LateWrite(w) PROVE CurrentIsKnown'
    <2>1. CASE w.expected = version /\ Write(w.to)
      BY <1>11, <2>1, <1>N DEF LateWrite, Write, readerVars, CurrentIsKnown, FenceKnows,
                               ReaderKnows, LateMovesOn
    <2>2. CASE UNCHANGED <<register, version>>
      BY <1>11, <2>2 DEF LateWrite, readerVars, CurrentIsKnown, FenceKnows, ReaderKnows,
                         LateMovesOn, Record, Passes
    <2> QED
      BY <1>11, <2>1, <2>2 DEF LateWrite
  <1> QED
    BY <1>1, <1>2, <1>3, <1>4, <1>7, <1>8, <1>9, <1>10, <1>11 DEF Next, ClaimStep

-----------------------------------------------------------------------------
(* While one claim holds a lasting lock no other is past Acquire.          *)
LEMMA HolderStep == IInv /\ [Next]_vars => HolderIsAlone'
  <1> SUFFICES ASSUME IInv, [Next]_vars, backend = "fenced" PROVE HolderIsAlone'
    BY BackendStays DEF HolderIsAlone, IInv
  <1> USE DEF IInv
  <1>B. backend' = backend
    BY BackendStays
  <1> USE <1>B
  <1>N. /\ pc \in [Claims -> {"new", "gone"} \cup Holding]
        /\ offset \in [Claims -> Messages]
        /\ Reading \cup {"store"} \subseteq Holding
    BY DEF TypeOK, Reading, Holding
  <1>I. \A d \in Claims :
           /\ pc[d] \in Holding => lock = d
           /\ pc[d] \in Reading \cup {"store"} => register.read_offset = offset[d]
    BY DEF HolderIsAlone
  <1>0. CASE UNCHANGED <<pc, lock, register, offset>>
    BY <1>0, <1>I DEF HolderIsAlone
  (* The holder moves on; whatever it writes, the others are not there.    *)
  <1>1. ASSUME NEW c \in Claims, pc[c] \in Holding, lock' = lock,
               \A d \in Claims : d # c => pc'[d] = pc[d],
               pc'[c] \in Reading \cup {"store"} => register'.read_offset = offset'[c]
        PROVE  HolderIsAlone'
    <2>1. \A d \in Claims : d # c => pc'[d] \notin Holding
      BY <1>1, <1>I
    <2> QED
      BY <1>1, <2>1, <1>I, <1>N DEF HolderIsAlone
  <1>2. ASSUME NEW c \in Claims, Acquire(c) PROVE HolderIsAlone'
    <2>1. \A d \in Claims : d # c => pc'[d] \notin Holding
      BY <1>2, <1>I, <1>N, ClaimsAssumption DEF Acquire, Goto
    <2>2. lock' = c /\ pc'[c] = "claim"
      BY <1>2, <1>N DEF Acquire, Goto
    <2> QED
      BY <2>1, <2>2, <1>N DEF HolderIsAlone, Reading
  <1>3. ASSUME NEW c \in Claims, ReadRegister(c) PROVE HolderIsAlone'
    BY <1>1, <1>3, <1>N DEF ReadRegister, Goto, Holding, storeVars
  <1>4. ASSUME NEW c \in Claims, StoreClaim(c) PROVE HolderIsAlone'
    <2>1. register'.read_offset = offset'[c]
      BY <1>4 DEF StoreClaim, Write, Record, readerVars
    <2> QED
      BY <1>1, <1>4, <2>1, <1>N DEF StoreClaim, Goto, Holding
  <1>5. ASSUME NEW c \in Claims, WriteFence(c) \/ ReadBackFence(c) \/ ReadBackCommit(c)
        PROVE  FALSE
    BY <1>5 DEF WriteFence, ReadBackFence, ReadBackCommit, Goto, StepsFitBackend
  <1>6. ASSUME NEW c \in Claims,
               Poll(c) \/ HandOver(c) \/ HandedOver(c) \/ Confirm(c)
        PROVE  HolderIsAlone'
    <2>1. /\ pc[c] \in Reading /\ lock' = lock
          /\ register'.read_offset = register.read_offset /\ offset' = offset
          /\ \A d \in Claims : d # c => pc'[d] = pc[d]
      BY <1>6, <1>N DEF Poll, HandOver, HandedOver, Confirm, Goto, Reading, storeVars,
                        readerVars
    <2> QED
      BY <1>1, <2>1, <1>I, <1>N
  <1>7. ASSUME NEW c \in Claims, Commit(c) PROVE HolderIsAlone'
    <2>1. register'.read_offset = offset'[c]
      BY <1>7, <1>N DEF Commit, Write, Record
    <2> QED
      BY <1>1, <1>7, <2>1, <1>N DEF Commit, Goto, Holding
  <1>8. ASSUME NEW c \in Claims, LetGo(c) PROVE HolderIsAlone'
    <2>1. \A d \in Claims : pc'[d] \notin Holding
      BY <1>8, <1>I, <1>N DEF LetGo, Holding
    <2> QED
      BY <2>1, <1>N DEF HolderIsAlone
  <1>9. ASSUME NEW w \in late PROVE FALSE
    BY <1>9 DEF StepsFitBackend
  <1> QED
    BY <1>0, <1>2, <1>3, <1>4, <1>5, <1>6, <1>7, <1>8, <1>9
    DEF Next, ClaimStep, Crash, Expire, Send, vars, storeVars, readerVars

-----------------------------------------------------------------------------
(* Nothing taken is given back.                                            *)
LEMMA DeliveredGrows == [Next]_vars => delivered \subseteq delivered'
  BY DEF Next, ClaimStep, Acquire, ReadRegister, StoreClaim, WriteFence, ReadBackFence, Poll,
         HandOver, HandedOver, Confirm, Commit, ReadBackCommit, LetGo, Crash, LateWrite,
         Expire, Send, vars

(* Every position written or adopted was in somebody's hands before.       *)
LEMMA TakenStep == IInv /\ [Next]_vars => PositionsAreTaken'
  <1> SUFFICES ASSUME IInv, [Next]_vars PROVE PositionsAreTaken'
    OBVIOUS
  <1> USE DEF IInv
  <1>N. /\ pc \in [Claims -> {"new", "gone"} \cup Holding]
        /\ offset \in [Claims -> Messages] /\ next \in [Claims -> Messages]
        /\ given \in [Claims -> Messages]
    BY DEF TypeOK
  <1>D. \A o : Taken(delivered, o) => Taken(delivered', o)
    BY DeliveredGrows DEF Taken
  <1>P. /\ Taken(delivered', register.read_offset)
        /\ \A w \in late : Taken(delivered', w.to.read_offset)
        /\ \A d \in Claims :
              /\ Taken(delivered', offset[d])
              /\ pc[d] = "deliver" => Taken(delivered', given[d])
              /\ pc[d] \in {"confirm", "commit", "commit sent"} => Taken(delivered', next[d])
    BY <1>D DEF PositionsAreTaken
  <1>0. CASE UNCHANGED <<register, late, pc, offset, next, given>>
    BY <1>0, <1>P DEF PositionsAreTaken
  (* The positions of one claim change, and the store with them.           *)
  <1>1. ASSUME NEW c \in Claims,
               \A d \in Claims : d # c => /\ pc'[d] = pc[d] /\ offset'[d] = offset[d]
                                         /\ next'[d] = next[d] /\ given'[d] = given[d],
               Taken(delivered', register'.read_offset),
               \A w \in late' : Taken(delivered', w.to.read_offset),
               Taken(delivered', offset'[c]),
               pc'[c] = "deliver" => Taken(delivered', given'[c]),
               pc'[c] \in {"confirm", "commit", "commit sent"} => Taken(delivered', next'[c])
        PROVE  PositionsAreTaken'
    BY <1>1, <1>P DEF PositionsAreTaken
  <1>2. ASSUME NEW c \in Claims, Acquire(c) \/ LetGo(c) \/ Crash(c) \/ Confirm(c)
        PROVE  PositionsAreTaken'
    BY <1>1, <1>2, <1>P, <1>N
    DEF Acquire, LetGo, Crash, Confirm, Goto, storeVars, readerVars
  <1>3. ASSUME NEW c \in Claims, ReadRegister(c) PROVE PositionsAreTaken'
    <2>1. /\ pc'[c] \in {"fence", "store"} /\ \A d \in Claims : d # c => pc'[d] = pc[d]
          /\ offset' = [offset EXCEPT ![c] = register.read_offset]
          /\ UNCHANGED <<register, late, next, given>>
      BY <1>3, <1>N DEF ReadRegister, Goto, storeVars
    <2> QED
      BY <1>1, <2>1, <1>P, <1>N
  <1>4. ASSUME NEW c \in Claims, StoreClaim(c) PROVE PositionsAreTaken'
    <2>1. register'.read_offset = offset[c]
      BY <1>4 DEF StoreClaim, Write, Record
    <2> QED
      BY <1>1, <1>4, <2>1, <1>P, <1>N DEF StoreClaim, Goto, readerVars
  (* What a claim writes, or leaves to arrive late, is the position o.     *)
  <1>5. ASSUME NEW c \in Claims, NEW o, Taken(delivered', o),
               Committed(c, Record(c, o)) \/ Unknown(c, Record(c, o))
        PROVE  /\ Taken(delivered', register'.read_offset)
               /\ \A w \in late' : Taken(delivered', w.to.read_offset)
    <2>1. Record(c, o).read_offset = o
      BY DEF Record
    <2>2. register' = register \/ register' = Record(c, o)
      BY <1>5 DEF Committed, Unknown, Write, storeVars
    <2>3. late' = late \/ late' = late \cup {[expected |-> token[c], to |-> Record(c, o)]}
      BY <1>5 DEF Committed, Unknown, storeVars
    <2>4. \A w \in late' : w \in late \/ w.to = Record(c, o)
      BY <2>3
    <2> QED
      BY <1>5, <2>1, <2>2, <2>4, <1>P
  <1>6. ASSUME NEW c \in Claims, WriteFence(c) PROVE PositionsAreTaken'
    <2>1. /\ Taken(delivered', register'.read_offset)
          /\ \A w \in late' : Taken(delivered', w.to.read_offset)
      BY <1>5, <1>6, <1>P DEF WriteFence
    <2> QED
      BY <1>1, <1>6, <2>1, <1>P, <1>N DEF WriteFence, Goto
  <1>7. ASSUME NEW c \in Claims, ReadBackFence(c) PROVE PositionsAreTaken'
    BY <1>1, <1>7, <1>P, <1>N DEF ReadBackFence, Goto, storeVars
  <1>8. ASSUME NEW c \in Claims, Poll(c) PROVE PositionsAreTaken'
    BY <1>1, <1>8, <1>P, <1>N DEF Poll, Goto, storeVars
  <1>9. ASSUME NEW c \in Claims, HandOver(c) PROVE PositionsAreTaken'
    <2>1. CASE Goto(c, "deliver", "poll") /\ UNCHANGED <<given, delivered>>
      BY <1>1, <1>9, <2>1, <1>P, <1>N DEF HandOver, Goto, storeVars
    <2>2. CASE /\ pc[c] = "deliver" /\ UNCHANGED pc
               /\ given' = [given EXCEPT ![c] = given[c] + 1]
               /\ delivered' = delivered \cup {given[c] + 1}
      <3>1. given[c] \in Nat
        BY <1>N, Numbers
      <3>2. Taken(delivered', given[c]) /\ given[c] + 1 \in delivered'
        BY <2>2, <1>P
      <3>3. Taken(delivered', given[c] + 1)
        BY <3>1, <3>2 DEF Taken
      <3> QED
        BY <1>1, <1>9, <2>2, <3>3, <1>P, <1>N DEF HandOver, storeVars
    <2> QED
      BY <1>9, <2>1, <2>2 DEF HandOver
  <1>10. ASSUME NEW c \in Claims, HandedOver(c) PROVE PositionsAreTaken'
    BY <1>1, <1>10, <1>P, <1>N DEF HandedOver, Goto, storeVars, readerVars
  <1>11. ASSUME NEW c \in Claims, Commit(c) PROVE PositionsAreTaken'
    <2>1. Taken(delivered', next[c]) /\ Taken(delivered', offset[c])
      BY <1>11, <1>P DEF Commit, Goto
    <2>2. /\ Taken(delivered', register'.read_offset)
          /\ \A w \in late' : Taken(delivered', w.to.read_offset)
      <3>1. CASE Write(Record(c, next[c])) /\ UNCHANGED late
        BY <2>1, <3>1, <1>P DEF Write, Record
      <3> QED
        BY <1>5, <1>11, <2>1, <3>1 DEF Commit
    <2>3. offset'[c] \in {offset[c], next[c]}
      BY <1>11, <1>N DEF Commit
    <2> QED
      BY <1>1, <1>11, <2>1, <2>2, <2>3, <1>N DEF Commit, Goto
  <1>12. ASSUME NEW c \in Claims, ReadBackCommit(c) PROVE PositionsAreTaken'
    BY <1>1, <1>12, <1>P, <1>N DEF ReadBackCommit, Goto, storeVars
  <1>13. ASSUME NEW w \in late, LateWrite(w) PROVE PositionsAreTaken'
    <2>1. register' = register \/ register' = w.to
      BY <1>13 DEF LateWrite, Write
    <2> QED
      BY <1>13, <2>1, <1>P DEF LateWrite, readerVars, PositionsAreTaken
  <1> QED
    BY <1>0, <1>2, <1>3, <1>4, <1>6, <1>7, <1>8, <1>9, <1>10, <1>11, <1>12, <1>13
    DEF Next, ClaimStep, Expire, Send, vars, storeVars, readerVars

-----------------------------------------------------------------------------
LEMMA Invariance == Spec => []IInv
  <1>1. IInv /\ [Next]_vars => IInv'
    BY TypeStep, VersionsStep, StepsFitStep, BatchStep, CurrentStep, HolderStep, TakenStep
    DEF IInv
  <1> QED
    BY InitInv, <1>1, PTL DEF Spec

(* Every variable of the reader protocol keeps its type: in particular no  *)
(* position leaves the conversation, on any backend.                       *)
THEOREM ReaderTypeCorrect == Spec => []TypeOK
  <1>1. IInv => TypeOK
    BY DEF IInv
  <1> QED
    BY Invariance, <1>1, PTL

(* Delivery is at least once for any number of competing claims: the       *)
(* position RegisterCursor::commit or a late write records never passes a  *)
(* message that tail_owned's consumer has not taken.                       *)
THEOREM DeliveredBeforeRecorded == Spec => []NothingSkipped
  <1>1. IInv => NothingSkipped
    BY DEF IInv, PositionsAreTaken, Taken, NothingSkipped
  <1> QED
    BY Invariance, <1>1, PTL

(* A lock that lasts until its holder exits admits one claim at a time     *)
(* between acquire and the drop of its HeldLease.                          *)
THEOREM FencedReaderIsAlone == Spec => []OneReader
  <1>1. IInv => OneReader
    <2> SUFFICES ASSUME IInv, backend = "fenced", NEW c \in Claims, NEW d \in Claims,
                        pc[c] \in Holding, pc[d] \in Holding
                 PROVE  c = d
      BY DEF OneReader
    <2> QED
      BY DEF IInv, HolderIsAlone
  <1> QED
    BY Invariance, <1>1, PTL

(* A step leaves the register alone, or writes it: a conditional write     *)
(* lands only on the version its claim has seen, the write of a lasting    *)
(* lock's holder only over its own position.                               *)
LEMMA WritesMoveOn ==
    ASSUME IInv, [Next]_vars, backend # "lease"
    PROVE  /\ register'.read_offset >= register.read_offset
           /\ backend = "cas" => Passes(register, register')
  <1> USE DEF IInv
  <1>B. backend \in {"fenced", "cas", "lease"}
    BY BackendStays
  <1>N. /\ register.read_offset \in Nat /\ register.epoch \in Nat
        /\ \A c \in Claims : offset[c] \in Messages /\ next[c] \in Messages
        /\ \A c \in Claims : offset[c] \in Nat /\ next[c] \in Nat /\ epoch[c] \in Nat
        /\ \A c \in Claims, o \in Messages :
              /\ Record(c, o).holder = c /\ Record(c, o).epoch = epoch[c]
              /\ Record(c, o).read_offset = o
    BY Numbers, RecordType
  <1>0. CASE UNCHANGED register
    BY <1>0, <1>N DEF Passes
  <1>1. ASSUME NEW c \in Claims, StoreClaim(c)
        PROVE  register'.read_offset >= register.read_offset /\ backend # "cas"
    <2>1. pc[c] = "store" /\ register' = Record(c, offset[c])
      BY <1>1 DEF StoreClaim, Goto, Write
    <2>2. backend = "fenced"
      BY <2>1, <1>B DEF StepsFitBackend
    <2>3. register.read_offset = offset[c]
      BY <2>1, <2>2 DEF HolderIsAlone
    <2> QED
      BY <2>1, <2>2, <2>3, <1>N
  <1>2. ASSUME NEW c \in Claims, WriteFence(c), register' # register
        PROVE  register'.read_offset >= register.read_offset /\ Passes(register, register')
    <2>1. pc[c] = "fence" /\ token[c] = version /\ register' = Record(c, offset[c])
      BY <1>2 DEF WriteFence, Goto, Committed, Unknown, Write, storeVars
    <2>2. register.read_offset = offset[c] /\ epoch[c] = register.epoch + 1
      BY <2>1, <1>B DEF StepsFitBackend, CurrentIsKnown, FenceKnows
    <2> QED
      BY <2>1, <2>2, <1>N DEF Passes
  <1>3. ASSUME NEW c \in Claims, Commit(c), register' # register
        PROVE  /\ register'.read_offset >= register.read_offset
               /\ backend = "cas" => Passes(register, register')
    <2>1. /\ pc[c] = "commit" /\ register' = Record(c, next[c])
          /\ backend = "cas" => token[c] = version
      BY <1>3 DEF Commit, Goto, Committed, Unknown, Write, storeVars
    <2>2. offset[c] <= next[c]
      BY <2>1 DEF BatchIsAhead
    <2>3. CASE backend = "cas"
      <3>1. register = Record(c, offset[c])
        BY <2>1, <2>3 DEF CurrentIsKnown, ReaderKnows, Reading
      <3> QED
        BY <2>1, <2>2, <3>1, <1>N DEF Passes
    <2>4. CASE backend = "fenced"
      <3>1. register.read_offset = offset[c]
        BY <2>1, <2>4 DEF HolderIsAlone, Reading
      <3> QED
        BY <2>1, <2>2, <2>4, <3>1, <1>N
    <2> QED
      BY <2>3, <2>4, <1>B
  <1>4. ASSUME NEW w \in late, LateWrite(w), register' # register
        PROVE  register'.read_offset >= register.read_offset /\ Passes(register, register')
    <2>1. w.expected = version /\ register' = w.to
      BY <1>4 DEF LateWrite, Write
    <2> QED
      BY <2>1, <1>B DEF StepsFitBackend, CurrentIsKnown, LateMovesOn
  <1> QED
    BY <1>0, <1>1, <1>2, <1>3, <1>4
    DEF Next, ClaimStep, Acquire, ReadRegister, ReadBackFence, Poll, HandOver, HandedOver,
        Confirm, ReadBackCommit, LetGo, Crash, Expire, Send, vars, storeVars

(* The guarantee of CursorGuarantee for every number of claims: with       *)
(* conditional writes, or with a lasting lock, the recorded position never *)
(* moves back.                                                             *)
THEOREM PositionNeverMovesBack == Spec => CursorNeverMovesBack
  <1>1. IInv /\ [Next]_vars =>
            [backend # "lease" => register'.read_offset >= register.read_offset]_vars
    BY WritesMoveOn
  <1> QED
    BY Invariance, <1>1, PTL DEF Spec, CursorNeverMovesBack

(* With conditional writes a claim that a later claim has fenced off never *)
(* writes again, not even with a write it sent before the fence.           *)
THEOREM NewestClaimWrites == Spec => OnlyNewestClaimWrites
  <1>1. IInv /\ [Next]_vars =>
            [backend = "cas" =>
                \/ register'.epoch > register.epoch
                \/ register'.epoch = register.epoch /\ register'.holder = register.holder]_vars
    BY WritesMoveOn DEF Passes
  <1> QED
    BY Invariance, <1>1, PTL DEF Spec, OnlyNewestClaimWrites
=============================================================================
