----------------------- MODULE CompletionDelivery_proofs -----------------------
(***************************************************************************)
(* Proofs about CompletionDelivery, for any sub-agents, shells and number  *)
(* of turns.                                                               *)
(***************************************************************************)
EXTENDS CompletionDelivery, FiniteSetTheorems, NaturalsInduction, WellFoundedInduction, TLAPS

-----------------------------------------------------------------------------
(* Ordinals.                                                               *)

Largest(f, A) == A = {} \/ \E x \in A : \A s \in A : f[s] <= f[x]

(* A function on a finite set of keys has a largest value: a smallest set  *)
(* of keys without one would still lack it after losing a key.             *)
LEMMA LargestValue ==
    ASSUME NEW S, IsFiniteSet(S), NEW f \in [S -> Nat]
    PROVE  Largest(f, S)
<1> DEFINE T == {n \in Nat : \E A \in SUBSET S : Cardinality(A) = n /\ ~Largest(f, A)}
<1>1. SUFFICES ASSUME ~Largest(f, S) PROVE FALSE
  OBVIOUS
<1>2. Cardinality(S) \in Nat
  BY FS_CardinalityType
<1>3. T \subseteq Nat /\ T # {}
  BY <1>1, <1>2
<1>4. PICK n \in T : \A k \in T : ~(k < n)
  <2> DEFINE R == OpToRel(<, Nat)
  <2>1. IsWellFoundedOn(R, Nat)
    BY NatLessThanWellFounded, Zenon
  <2>2. \A x, y \in Nat : <<x, y>> \in R <=> x < y
    BY DEF OpToRel
  <2> HIDE DEF R, T
  <2>3. PICK n \in T : \A k \in T : ~(<<k, n>> \in R)
    BY <1>3, <2>1, WFMin
  <2> QED  BY <1>3, <2>2, <2>3
<1>5. PICK A \in SUBSET S : Cardinality(A) = n /\ ~Largest(f, A)
  BY <1>4
<1>6. PICK x \in A : TRUE
  BY <1>5 DEF Largest
<1>7. IsFiniteSet(A) /\ n \in Nat
  BY <1>3, <1>4, FS_Subset
<1>8. Cardinality(A \ {x}) = n - 1 /\ IsFiniteSet(A \ {x})
  BY <1>5, <1>6, <1>7, FS_RemoveElement
<1>9. Cardinality(A \ {x}) \in Nat
  BY <1>8, FS_CardinalityType
<1>10. Largest(f, A \ {x})
  BY <1>4, <1>7, <1>8, <1>9
<1>11. CASE A \ {x} = {}
  <2>1. \A s \in A : f[s] <= f[x]
    BY <1>6, <1>11
  <2> QED  BY <1>5, <1>6, <2>1 DEF Largest
<1>12. CASE A \ {x} # {}
  <2>1. PICK y \in A \ {x} : \A s \in A \ {x} : f[s] <= f[y]
    BY <1>10, <1>12 DEF Largest
  <2>2. CASE f[x] <= f[y]
    <3>1. \A s \in A : f[s] <= f[y]
      BY <2>1, <2>2
    <3> QED  BY <1>5, <2>1, <3>1 DEF Largest
  <2>3. CASE ~(f[x] <= f[y])
    <3>1. \A s \in A : f[s] <= f[x]
      BY <1>5, <1>6, <2>1, <2>3
    <3> QED  BY <1>5, <1>6, <3>1 DEF Largest
  <2> QED  BY <2>2, <2>3
<1> QED  BY <1>11, <1>12

(* A session has finitely many sources.                                    *)
LEMMA SourcesFinite == IsFiniteSet(Sources)
BY SourcesAreKeys, FS_Union DEF Sources

(* A completion that is published now comes after all that were before.    *)
LEMMA OrdinalIsNew ==
    ASSUME NEW j \in Journal
    PROVE  /\ NextOrdinal(j) \in Nat
           /\ \A s \in Sources : j.src[s].ordinal < NextOrdinal(j)
<1> DEFINE f == [s \in Sources |-> j.src[s].ordinal]
           V == {j.src[s].ordinal : s \in Sources} \cup {0}
<1>1. f \in [Sources -> Nat]
  BY DEF Journal, Source
<1>2. Largest(f, Sources)
  <2> HIDE DEF f
  <2> QED  BY <1>1, SourcesFinite, LargestValue
<1>3. \E m \in V : \A v \in V : m >= v
  <2>1. CASE Sources = {}
    BY <2>1
  <2>2. CASE Sources # {}
    <3>1. PICK x \in Sources : \A s \in Sources : f[s] <= f[x]
      BY <1>2, <2>2 DEF Largest
    <3>2. f[x] \in V /\ f[x] \in Nat
      BY <1>1
    <3>3. \A v \in V : f[x] >= v
      BY <1>1, <3>1
    <3> QED  BY <3>2, <3>3
  <2> QED  BY <2>1, <2>2
<1>4. Max(V) \in V /\ \A v \in V : Max(V) >= v
  BY <1>3 DEF Max
<1>5. V \subseteq Nat
  BY DEF Journal, Source
<1>6. NextOrdinal(j) = 1 + Max(V)
  BY DEF NextOrdinal
<1> HIDE DEF f
<1>7. \A s \in Sources : j.src[s].ordinal \in V
  OBVIOUS
<1> HIDE DEF V
<1>8. Max(V) \in Nat
  BY <1>4, <1>5
<1>9. \A s \in Sources : j.src[s].ordinal \in Nat /\ Max(V) >= j.src[s].ordinal
  BY <1>4, <1>5, <1>7
<1> QED  BY <1>6, <1>8, <1>9

-----------------------------------------------------------------------------
(* The inductive invariant.  Its parts speak of a journal j, or of the     *)
(* record r of one source s, and of what happened: c are the traces that   *)
(* committed; h, p and rd are what the call of s returned, what became of  *)
(* its child and the turns that read it; tk and rf the controller's word.  *)

Ended == {"ended", "reported"}

\* The evidence a result needs is true, and was there when it was published.
Evidence(r, c, h, p) ==
    /\ r.closed => r.trace \in c
    /\ r.worker = "background" \/ r.backgrounded => h = "background"
    /\ r.finished \/ r.exec = "terminal" => p \in Ended
    /\ r.payload => r.closed /\ h = "background" /\ p \in Ended

Answered(r, s, tk, rf) ==
    /\ r.ack = "acknowledged" => s \in tk
    /\ r.blocked = "rejected" => s \in rf

\* The journal forgets the worker of a sub-agent only when the result is
\* published or read or was returned, or when its turn failed: then it never
\* closes, and is not settled either.
AgentKept(j, s, h, rd) ==
    LET r == j.src[s]
        had == h = "other" \/ rd # {}
    IN /\ s \in j.collected => rd # {}
       /\ r.worker # "absent" => r.trace # None /\ (r.closed \/ r.trace = j.active)
       /\ r.ack = "none" /\ r.trace # None /\ r.worker = "absent" =>
            r.payload \/ (~r.closed /\ r.trace # j.active) \/ had
       /\ r.settled /\ r.ack = "none" => had

\* A terminal's read is on its way until the turn that made it commits.
TerminalKept(r, c, p, rd) ==
    /\ r.collected_in # None => r.collected_in \in rd
    /\ r.collected => rd \cap c # {}
    /\ r.exec = "not_started" => p = "gone"
    /\ r.settled /\ r.ack = "none" => r.exec = "not_started" \/ rd \cap c # {}

Sound(j, s, c, h, p, rd, tk, rf) ==
    /\ Evidence(j.src[s], c, h, p)
    /\ Answered(j.src[s], s, tk, rf)
    /\ s \in Agents => AgentKept(j, s, h, rd)
    /\ s \in Terminals => TerminalKept(j.src[s], c, p, rd)

\* The turns that ended are the first k; the next one, if it began, is open,
\* and closed is said of sources of turns that ended only.
Numbered(j) ==
    /\ \E k \in Nat :
         /\ j.closed_traces = 1..k /\ j.active \in {None, k + 1}
         /\ \A s \in Sources : j.src[s].trace \in (1..k) \cup {None, j.active}
    /\ j.reducing = (j.active # None)
    /\ \A s \in Sources : j.src[s].closed => j.src[s].trace \in j.closed_traces

JournalInv(j, c, h, p, rd, tk, rf) ==
    /\ j \in Journal /\ Numbered(j)
    /\ \A s \in Sources : Sound(j, s, c, h[s], p[s], rd[s], tk, rf)

\* Only shells are registered before they start, only sub-agents leave a
\* manifest before their end is reported.
ChildKinds(p) ==
    \A s \in Sources : /\ p[s] = "starting" => s \in Terminals
                       /\ p[s] = "ended" => s \in Agents

\* What the processes around the journal rely on.
EngineInv ==
    /\ ~journal.deleted /\ turn # None => journal.active = turn
    /\ ending => turn # None
    /\ ChildKinds(proc)
    /\ \A s \in Sources :
         ~journal.deleted /\ proc[s] # "none" => journal.src[s].trace # None
    /\ \A s \in terminal_retries : proc[s] = "reported"
    /\ \A s \in unrecorded : readIn[s] # {}

JournalNow == JournalInv(journal, committed, handed, proc, readIn, taken, refused)

Inv == TypeOK /\ EngineInv /\ JournalNow

-----------------------------------------------------------------------------
(* What publishing does to a source.                                       *)

Same(r, q) ==
    /\ q.trace = r.trace /\ q.closed = r.closed /\ q.ack = r.ack
    /\ q.blocked = r.blocked /\ q.exec = r.exec
    /\ q.backgrounded = r.backgrounded
    /\ q.collected = r.collected /\ q.collected_in = r.collected_in

\* The record r of a source of j becomes q: a result is published with its
\* evidence and the newest ordinal, the worker that ended leaves, the source
\* that has nothing more to wait for is settled.
Publishes(j, s, r, q) ==
    /\ Same(r, q)
    /\ \/ q.payload = r.payload /\ q.ordinal = r.ordinal
       \/ /\ ~r.payload /\ ~r.settled /\ q.payload /\ r.closed
          /\ q.ordinal = NextOrdinal(j)
          /\ \/ r.worker = "background" /\ r.finished
             \/ r.backgrounded /\ r.exec = "terminal"
    /\ \/ q.worker = r.worker /\ q.finished = r.finished
       \/ /\ q.worker = "absent" /\ ~q.finished /\ s \in Agents
          /\ r.worker = "background" /\ ~j.reducing
          /\ q.payload \/ ~r.closed \/ r.settled
    /\ r.settled => q.settled
    /\ q.settled => \/ r.settled
                    \/ /\ s \in Agents /\ q.closed /\ q.worker = "absent" /\ ~q.payload
                    \/ s \in Terminals /\ r.collected

(* A source is a sub-agent or a shell, never both.                         *)
LEMMA SourceKind ==
    ASSUME NEW s \in Sources
    PROVE  (s \in Agents) # (s \in Terminals)
BY SourcesAreKeys DEF Sources

(* Every record of a typed journal is a source.                            *)
LEMMA SourceOf ==
    ASSUME NEW j \in Journal, NEW s \in Sources
    PROVE  j.src[s] \in Source
BY DEF Journal

(* What publish makes of one sub-agent.                                    *)
LEMMA PublishedAgentEffect ==
    ASSUME NEW j \in Journal, NEW s \in Agents
    PROVE  /\ PublishedAgent(j, s) \in Source
           /\ Publishes(j, s, j.src[s], PublishedAgent(j, s))
<1> DEFINE r == j.src[s]
           ready == ~j.reducing /\ r.worker = "background" /\ r.finished
           fresh == ready /\ r.closed /\ ~r.payload /\ ~r.settled
           worker == IF ready THEN "absent" ELSE r.worker
           idle == /\ r.closed /\ r.blocked = "none" /\ worker = "absent"
                   /\ ~r.payload /\ ~fresh
           fin == r.finished /\ ~ready
           pay == r.payload \/ fresh
           ord == IF fresh THEN NextOrdinal(j) ELSE r.ordinal
           sett == r.settled \/ idle
           q == [r EXCEPT !.worker = worker, !.finished = fin, !.payload = pay,
                          !.ordinal = ord, !.settled = sett]
<1>1. s \in Sources /\ r \in Source
  BY SourceOf DEF Sources
<1>2. /\ ready \in BOOLEAN /\ fresh \in BOOLEAN /\ idle \in BOOLEAN
      /\ fin \in BOOLEAN /\ pay \in BOOLEAN /\ sett \in BOOLEAN
  BY Zenon
<1>3. ord \in Nat
  BY <1>1, OrdinalIsNew DEF Source
<1>4. worker \in {"absent", "waiting", "background"}
  BY <1>1 DEF Source
<1>5. PublishedAgent(j, s) = q
  BY DEF PublishedAgent
<1>6. q \in Source
  <2> HIDE DEF r, ready, fresh, worker, idle, fin, pay, ord, sett
  <2> QED  BY <1>1, <1>2, <1>3, <1>4 DEF Source
<1>7. /\ q.worker = worker /\ q.finished = fin /\ q.payload = pay
      /\ q.ordinal = ord /\ q.settled = sett /\ Same(r, q)
  <2> HIDE DEF r, ready, fresh, worker, idle, fin, pay, ord, sett
  <2> QED  BY <1>1 DEF Source, Same
<1>8. Publishes(j, s, r, q)
  <2> HIDE DEF q, r
  <2>1. \/ q.payload = r.payload /\ q.ordinal = r.ordinal
        \/ /\ ~r.payload /\ ~r.settled /\ q.payload /\ r.closed
           /\ q.ordinal = NextOrdinal(j)
           /\ r.worker = "background" /\ r.finished
    <3>1. CASE fresh
      BY <1>7, <3>1, Zenon
    <3>2. CASE ~fresh
      <4>1. pay = r.payload
        BY <1>1, <3>2 DEF Source
      <4> QED  BY <1>7, <3>2, <4>1
    <3> QED  BY <3>1, <3>2
  <2>2. \/ q.worker = r.worker /\ q.finished = r.finished
        \/ /\ q.worker = "absent" /\ ~q.finished
           /\ r.worker = "background" /\ ~j.reducing
           /\ q.payload \/ ~r.closed \/ r.settled
    <3>1. CASE ready
      BY <1>7, <3>1, Zenon
    <3>2. CASE ~ready
      <4>1. fin = r.finished
        BY <1>1, <3>2 DEF Source
      <4> QED  BY <1>7, <3>2, <4>1
    <3> QED  BY <3>1, <3>2
  <2>3. r.settled => q.settled
    BY <1>7, Zenon
  <2>4. q.settled => r.settled \/ (q.closed /\ q.worker = "absent" /\ ~q.payload)
    BY <1>7, Zenon DEF Same
  <2> QED  BY <1>7, <2>1, <2>2, <2>3, <2>4 DEF Publishes
<1> QED  BY <1>5, <1>6, <1>8

(* What publish makes of one shell.                                        *)
LEMMA PublishedTerminalEffect ==
    ASSUME NEW j \in Journal, NEW s \in Terminals
    PROVE  /\ PublishedTerminal(j, s) \in Source
           /\ Publishes(j, s, j.src[s], PublishedTerminal(j, s))
<1> DEFINE r == j.src[s]
           unsent == ~r.settled /\ ~r.payload /\ r.closed /\ r.blocked = "none"
           fresh == /\ unsent /\ ~r.collected /\ r.exec = "terminal"
                    /\ r.backgrounded /\ j.active = None
           pay == r.payload \/ fresh
           ord == IF fresh THEN NextOrdinal(j) ELSE r.ordinal
           sett == r.settled \/ (unsent /\ r.collected)
           q == [r EXCEPT !.settled = sett, !.payload = pay, !.ordinal = ord]
<1>1. s \in Sources /\ r \in Source
  BY SourceOf DEF Sources
<1>2. pay \in BOOLEAN /\ sett \in BOOLEAN
  BY Zenon
<1>3. ord \in Nat
  BY <1>1, OrdinalIsNew DEF Source
<1>4. PublishedTerminal(j, s) = q
  BY DEF PublishedTerminal
<1>5. q \in Source
  <2> HIDE DEF r, unsent, fresh, pay, ord, sett
  <2> QED  BY <1>1, <1>2, <1>3 DEF Source
<1>6. /\ q.worker = r.worker /\ q.finished = r.finished /\ q.payload = pay
      /\ q.ordinal = ord /\ q.settled = sett /\ Same(r, q)
  <2> HIDE DEF r, unsent, fresh, pay, ord, sett
  <2> QED  BY <1>1 DEF Source, Same
<1>7. Publishes(j, s, r, q)
  <2> HIDE DEF q, r
  <2>1. \/ q.payload = r.payload /\ q.ordinal = r.ordinal
        \/ /\ ~r.payload /\ ~r.settled /\ q.payload /\ r.closed
           /\ q.ordinal = NextOrdinal(j)
           /\ r.backgrounded /\ r.exec = "terminal"
    <3>1. CASE fresh
      BY <1>6, <3>1, Zenon
    <3>2. CASE ~fresh
      <4>1. pay = r.payload
        BY <1>1, <3>2 DEF Source
      <4> QED  BY <1>6, <3>2, <4>1
    <3> QED  BY <3>1, <3>2
  <2>2. r.settled => q.settled
    BY <1>6, Zenon
  <2>3. q.settled => r.settled \/ r.collected
    BY <1>6, Zenon
  <2> QED  BY <1>6, <2>1, <2>2, <2>3 DEF Publishes
<1> QED  BY <1>4, <1>5, <1>7

(* Nothing but the sources changes, and what is remembered as read.        *)
SameTurns(j, k) ==
    /\ k.active = j.active /\ k.closed_traces = j.closed_traces
    /\ k.reducing = j.reducing /\ k.deleted = j.deleted

Publication(j, k) ==
    /\ k \in Journal /\ SameTurns(j, k) /\ k.collected \subseteq j.collected
    /\ \A s \in Sources : Publishes(j, s, j.src[s], k.src[s])

(* publish changes each source alone, and numbers what it publishes above  *)
(* all.                                                                    *)
LEMMA PublishEffect ==
    ASSUME NEW j \in Journal
    PROVE  Publication(j, publish(j))
<1> DEFINE src == [s \in Sources |-> IF s \in Agents THEN PublishedAgent(j, s)
                                                     ELSE PublishedTerminal(j, s)]
           empty == ~j.reducing /\ \A s \in Agents : src[s].worker = "absent"
           coll == IF empty THEN {} ELSE j.collected
           k == [j EXCEPT !.src = src, !.collected = coll]
<1>1. publish(j) = k
  BY DEF publish
<1>2. \A s \in Sources : src[s] \in Source /\ Publishes(j, s, j.src[s], src[s])
  <2> SUFFICES ASSUME NEW s \in Sources
               PROVE src[s] \in Source /\ Publishes(j, s, j.src[s], src[s])
    OBVIOUS
  <2>1. CASE s \in Agents
    BY <2>1, PublishedAgentEffect
  <2>2. CASE s \in Terminals
    BY <2>2, SourceKind, PublishedTerminalEffect
  <2> QED  BY <2>1, <2>2 DEF Sources
<1>3. src \in [Sources -> Source]
  <2>1. src = [s \in Sources |-> src[s]]
    OBVIOUS
  <2> HIDE DEF src
  <2> QED  BY <1>2, <2>1
<1>4. coll \in SUBSET Agents /\ coll \subseteq j.collected
  BY DEF Journal
<1> HIDE DEF src, coll
<1>5. k \in Journal /\ SameTurns(j, k) /\ k.collected = coll /\ k.src = src
  BY <1>3, <1>4 DEF Journal, SameTurns
<1> QED  BY <1>1, <1>2, <1>4, <1>5 DEF Publication

(* The same of publish_terminals, which leaves the sub-agents alone.       *)
LEMMA PublishTerminalsEffect ==
    ASSUME NEW j \in Journal
    PROVE  Publication(j, publish_terminals(j))
<1> DEFINE src == [s \in Sources |-> IF s \in Terminals THEN PublishedTerminal(j, s)
                                                        ELSE j.src[s]]
           k == [j EXCEPT !.src = src]
<1>1. publish_terminals(j) = k
  BY DEF publish_terminals
<1>2. \A s \in Sources : src[s] \in Source /\ Publishes(j, s, j.src[s], src[s])
  <2> SUFFICES ASSUME NEW s \in Sources
               PROVE src[s] \in Source /\ Publishes(j, s, j.src[s], src[s])
    OBVIOUS
  <2>1. CASE s \in Terminals
    BY <2>1, PublishedTerminalEffect
  <2>2. CASE s \notin Terminals
    BY <2>2, SourceOf DEF Publishes, Same
  <2> QED  BY <2>1, <2>2
<1>3. src \in [Sources -> Source]
  <2>1. src = [s \in Sources |-> src[s]]
    OBVIOUS
  <2> HIDE DEF src
  <2> QED  BY <1>2, <2>1
<1> HIDE DEF src
<1>4. k \in Journal /\ SameTurns(j, k) /\ k.collected = j.collected /\ k.src = src
  BY <1>3 DEF Journal, SameTurns
<1> QED  BY <1>1, <1>2, <1>4 DEF Publication

(* Publication leaves every source with the evidence it needs.             *)
LEMMA SoundPublication ==
    ASSUME NEW j \in Journal, NEW k, Publication(j, k), Numbered(j), NEW s \in Sources,
           NEW c, NEW h, NEW p, NEW rd, NEW tk, NEW rf,
           Sound(j, s, c, h, p, rd, tk, rf)
    PROVE  Sound(k, s, c, h, p, rd, tk, rf)
<1> DEFINE r == j.src[s]
           q == k.src[s]
<1>1. r \in Source /\ q \in Source
  BY SourceOf DEF Publication
<1>2. Publishes(j, s, r, q) /\ Same(r, q) /\ SameTurns(j, k)
  BY DEF Publication, Publishes
<1>3. Evidence(r, c, h, p) /\ Answered(r, s, tk, rf)
  BY DEF Sound
<1> HIDE DEF r, q
<1>4. Evidence(q, c, h, p)
  BY <1>1, <1>2, <1>3 DEF Evidence, Publishes, Same, Source
<1>5. Answered(q, s, tk, rf)
  BY <1>2, <1>3 DEF Answered, Same
<1>6. ASSUME s \in Agents PROVE AgentKept(k, s, h, rd)
  <2> DEFINE had == h = "other" \/ rd # {}
  <2>0. /\ s \in j.collected => rd # {}
        /\ r.worker # "absent" => r.trace # None /\ (r.closed \/ r.trace = j.active)
        /\ r.ack = "none" /\ r.trace # None /\ r.worker = "absent" =>
             r.payload \/ (~r.closed /\ r.trace # j.active) \/ had
        /\ r.settled /\ r.ack = "none" => had
    BY <1>6 DEF Sound, AgentKept, r
  <2>1. ~j.reducing => j.active = None
    BY DEF Numbered
  <2>2. s \in k.collected => rd # {}
    BY <2>0 DEF Publication
  <2>3. k.active = j.active /\ q.trace = r.trace /\ q.closed = r.closed /\ q.ack = r.ack
    BY <1>2 DEF Same, SameTurns
  <2>4. q.payload \/ ~r.payload
    BY <1>1, <1>2 DEF Publishes, Source
  <2>5. \/ q.worker = r.worker
        \/ /\ q.worker = "absent" /\ r.worker # "absent" /\ ~j.reducing
           /\ q.payload \/ ~r.closed \/ r.settled
    BY <1>2 DEF Publishes
  <2>6. q.settled => r.settled \/ (q.closed /\ q.worker = "absent" /\ ~q.payload)
    BY <1>2, <1>6, SourceKind DEF Publishes
  <2>7. q.settled /\ q.closed => q.trace # None
    <3>1. r.closed => r.trace \in j.closed_traces
      BY DEF Numbered, r
    <3>2. None \notin j.closed_traces
      BY SourcesAreKeys DEF Journal, Traces, None
    <3> QED  BY <2>3, <3>1, <3>2
  <2> HIDE DEF had
  <2>8. q.worker # "absent" => q.trace # None /\ (q.closed \/ q.trace = k.active)
    BY <2>0, <2>3, <2>5
  <2>9. q.ack = "none" /\ q.trace # None /\ q.worker = "absent" =>
             q.payload \/ (~q.closed /\ q.trace # k.active) \/ had
    BY <2>0, <2>1, <2>3, <2>4, <2>5
  <2>10. q.settled /\ q.ack = "none" => had
    BY <2>0, <2>3, <2>6, <2>7, <2>9
  <2> QED  BY <2>2, <2>8, <2>9, <2>10 DEF AgentKept, q, had
<1>7. ASSUME s \in Terminals PROVE TerminalKept(q, c, p, rd)
  <2>1. TerminalKept(r, c, p, rd)
    BY <1>7 DEF Sound, r
  <2>2. q.settled => r.settled \/ r.collected
    BY <1>2, <1>7, SourceKind DEF Publishes
  <2> QED  BY <1>2, <2>1, <2>2 DEF TerminalKept, Same
<1> QED  BY <1>4, <1>5, <1>6, <1>7 DEF Sound, q

(* Numbering depends on the turns and on the sources' turns alone.         *)
LEMMA NumberedAlike ==
    ASSUME NEW j, NEW k, Numbered(j), SameTurns(j, k),
           \A s \in Sources : /\ k.src[s].trace = j.src[s].trace
                              /\ k.src[s].closed = j.src[s].closed
    PROVE  Numbered(k)
BY DEF Numbered, SameTurns

(* Publication keeps what holds of a journal.                              *)
LEMMA PublicationKeeps ==
    ASSUME NEW j, NEW k, Publication(j, k),
           NEW c, NEW h, NEW p, NEW rd, NEW tk, NEW rf,
           JournalInv(j, c, h, p, rd, tk, rf)
    PROVE  JournalInv(k, c, h, p, rd, tk, rf)
<1>1. j \in Journal /\ Numbered(j)
  BY DEF JournalInv
<1>2. k \in Journal /\ Numbered(k)
  BY <1>1, NumberedAlike DEF Publication, Publishes, Same
<1>3. \A s \in Sources : Sound(k, s, c, h[s], p[s], rd[s], tk, rf)
  BY <1>1, SoundPublication DEF JournalInv
<1> QED  BY <1>2, <1>3 DEF JournalInv

-----------------------------------------------------------------------------
(* What the other methods do to one source.                                *)

Edits(j, k, s, q) ==
    /\ k \in Journal /\ SameTurns(j, k) /\ k.collected \subseteq j.collected \cup {s}
    /\ k.src[s] = q /\ \A t \in Sources \ {s} : k.src[t] = j.src[t]

(* An edit of one record changes that record alone.                        *)
LEMMA EditSource ==
    ASSUME NEW j \in Journal, NEW s \in Sources, NEW q \in Source
    PROVE  /\ Edits(j, [j EXCEPT !.src[s] = q], s, q)
           /\ [j EXCEPT !.src[s] = q].collected = j.collected
BY DEF Edits, SameTurns, Journal

(* An edit that leaves the source's turn alone and its record sound.       *)
LEMMA EditKeeps ==
    ASSUME NEW j, NEW k, NEW s \in Sources, NEW q, Edits(j, k, s, q),
           NEW c, NEW h, NEW p, NEW rd, NEW tk, NEW rf,
           JournalInv(j, c, h, p, rd, tk, rf),
           q.trace = j.src[s].trace, q.closed = j.src[s].closed,
           Sound(k, s, c, h[s], p[s], rd[s], tk, rf)
    PROVE  JournalInv(k, c, h, p, rd, tk, rf)
<1>1. k \in Journal /\ SameTurns(j, k)
  BY DEF Edits
<1>2. Numbered(k)
  BY <1>1, NumberedAlike DEF Edits, JournalInv
<1>3. ASSUME NEW t \in Sources \ {s}
      PROVE  Sound(k, t, c, h[t], p[t], rd[t], tk, rf)
  <2>1. k.src[t] = j.src[t] /\ k.active = j.active
    BY <1>1, <1>3 DEF Edits, SameTurns
  <2>2. t \in k.collected => t \in j.collected
    BY <1>3 DEF Edits
  <2>3. Sound(j, t, c, h[t], p[t], rd[t], tk, rf)
    BY DEF JournalInv
  <2> QED  BY <2>1, <2>2, <2>3 DEF Sound, AgentKept
<1> QED  BY <1>1, <1>2, <1>3 DEF JournalInv

Pends(r) == r.payload /\ ~r.settled /\ r.ack = "none" /\ r.blocked = "none"

\* Nothing is published and nothing that waits no longer waits again.
Keeps(r, q) ==
    /\ q.trace = r.trace /\ q.ordinal = r.ordinal /\ (q.payload => r.payload)
    /\ r.settled => q.settled
    /\ r.payload => q.payload \/ q.settled
    /\ Pends(q) => Pends(r)

Calm(j, k) == \A s \in Sources : Keeps(j.src[s], k.src[s])

Alike(j, k) == SameTurns(j, k) /\ k.collected = j.collected /\ Calm(j, k)

(* An edit that publishes nothing is a quiet change of the journal.        *)
LEMMA EditIsAlike ==
    ASSUME NEW j, NEW k, NEW s \in Sources, NEW q, Edits(j, k, s, q),
           k.collected = j.collected, Keeps(j.src[s], q)
    PROVE  Alike(j, k)
<1>1. ASSUME NEW t \in Sources \ {s} PROVE Keeps(j.src[t], k.src[t])
  BY DEF Edits, Keeps
<1> QED  BY <1>1 DEF Alike, Calm, Edits

(* What happens around the journal only adds evidence.                     *)
LEMMA SoundGrows ==
    ASSUME NEW j, NEW s, NEW c, NEW h, NEW p, NEW rd, NEW tk, NEW rf,
           NEW c2, NEW h2, NEW p2, NEW rd2, NEW tk2, NEW rf2,
           Sound(j, s, c, h, p, rd, tk, rf),
           c \subseteq c2, h \in {"none", h2}, p \in Ended => p2 \in Ended,
           p = "gone" => p2 = "gone", tk \subseteq tk2, rf \subseteq rf2,
           rd # {} => rd2 # {}, s \in Terminals => rd \subseteq rd2
    PROVE  Sound(j, s, c2, h2, p2, rd2, tk2, rf2)
<1> USE DEF Sound
<1>1. Evidence(j.src[s], c2, h2, p2)
  BY DEF Evidence
<1>2. Answered(j.src[s], s, tk2, rf2)
  BY DEF Answered
<1>3. s \in Agents => AgentKept(j, s, h2, rd2)
  BY DEF AgentKept
<1>4. s \in Terminals => TerminalKept(j.src[s], c2, p2, rd2)
  BY DEF TerminalKept
<1> QED  BY <1>1, <1>2, <1>3, <1>4

\* The edits of tool_result, terminal_tool_result and terminal_finished, before
\* they publish.
HandAgent(j, s, result) ==
    [j EXCEPT !.src[s].worker =
                IF @ # "absent" /\ result = "background" THEN "background" ELSE "absent",
              !.src[s].finished = @ /\ result = "background"]

HandTerminal(j, s, result) ==
    [j EXCEPT !.src[s].backgrounded = @ \/ result = "background"]

ReadTerminal(j, s) == [j EXCEPT !.src[s].collected_in = j.active]

ExitTerminal(j, s) ==
    [j EXCEPT !.src[s].exec = "terminal",
              !.src[s].blocked = IF @ = "execution_unconfirmed" THEN "none" ELSE @]

(* A block that a later observation lifts.                                 *)
LEMMA SourceUnblocked ==
    ASSUME NEW j, NEW s \in Sources, NEW c, NEW h, NEW p, NEW rd, NEW tk, NEW rf,
           JournalInv(j, c, h, p, rd, tk, rf),
           ~j.src[s].payload
    PROVE  /\ JournalInv(Unblocked(j, s), c, h, p, rd, tk, rf)
           /\ Alike(j, Unblocked(j, s))
<1> DEFINE r == j.src[s]
           blocked == "none"
           q == [r EXCEPT !.blocked = blocked]
           k == Unblocked(j, s)
<1>1. j \in Journal /\ r \in Source /\ Sound(j, s, c, h[s], p[s], rd[s], tk, rf)
  BY SourceOf DEF JournalInv
<1>2. blocked \in Blocks
  BY <1>1 DEF Source, Blocks
<1>3. k = [j EXCEPT !.src[s] = q]
  BY <1>1 DEF Unblocked, Journal
<1>4. q \in Source
  <2> HIDE DEF r, blocked
  <2> QED  BY <1>1, <1>2 DEF Source
<1>5. /\ q.trace = r.trace /\ q.closed = r.closed
      /\ q.settled = r.settled /\ q.payload = r.payload
      /\ q.ordinal = r.ordinal /\ q.ack = r.ack
      /\ q.blocked = blocked /\ q.worker = r.worker
      /\ q.finished = r.finished /\ q.exec = r.exec
      /\ q.backgrounded = r.backgrounded /\ q.collected = r.collected
      /\ q.collected_in = r.collected_in
  <2> HIDE DEF r, blocked
  <2> QED  BY <1>1 DEF Source
<1> HIDE DEF q
<1>6. Edits(j, k, s, q) /\ k.collected = j.collected
  BY <1>1, <1>3, <1>4, EditSource
<1>7. k.src[s] = q /\ k.active = j.active
  BY <1>6 DEF Edits, SameTurns
<1> HIDE DEF k, r
<1>8. Sound(k, s, c, h[s], p[s], rd[s], tk, rf)
  <2>1. Evidence(q, c, h[s], p[s])
    BY <1>1, <1>5 DEF Sound, Evidence, Ended, r
  <2>2. Answered(q, s, tk, rf)
    BY <1>1, <1>5 DEF Sound, Answered, r
  <2>3. s \in Agents => AgentKept(k, s, h[s], rd[s])
    BY <1>1, <1>5, <1>6, <1>7 DEF Sound, AgentKept, r
  <2>4. s \in Terminals => TerminalKept(q, c, p[s], rd[s])
    BY <1>1, <1>5 DEF Sound, TerminalKept, r
  <2> QED  BY <1>7, <2>1, <2>2, <2>3, <2>4 DEF Sound
<1>9. Keeps(r, q)
  BY <1>5 DEF Keeps, Pends, r
<1>10. Alike(j, k)
  BY <1>6, <1>9, EditIsAlike DEF r
<1> QED  BY <1>5, <1>6, <1>8, <1>10, EditKeeps DEF k, r

(* A worker finishes whose child has ended.                                *)
LEMMA SourceFinished ==
    ASSUME NEW j, NEW s \in Sources, NEW c, NEW h, NEW p, NEW rd, NEW tk, NEW rf,
           JournalInv(j, c, h, p, rd, tk, rf),
           p[s] \in Ended
    PROVE  /\ JournalInv(Finished(j, s), c, h, p, rd, tk, rf)
           /\ Alike(j, Finished(j, s))
<1> DEFINE r == j.src[s]
           finished == r.worker # "absent" /\ s \notin j.collected
           worker == IF s \in j.collected THEN "absent" ELSE r.worker
           q == [r EXCEPT !.finished = finished, !.worker = worker]
           k == Finished(j, s)
<1>1. j \in Journal /\ r \in Source /\ Sound(j, s, c, h[s], p[s], rd[s], tk, rf)
  BY SourceOf DEF JournalInv
<1>2. finished \in BOOLEAN
  BY Zenon
<1>3. worker \in {"absent", "waiting", "background"}
  BY <1>1 DEF Source, Blocks
<1>4. k = [j EXCEPT !.src[s] = q]
  BY <1>1 DEF Finished, Journal
<1>5. q \in Source
  <2> HIDE DEF r, finished, worker
  <2> QED  BY <1>1, <1>2, <1>3 DEF Source
<1>6. /\ q.trace = r.trace /\ q.closed = r.closed
      /\ q.settled = r.settled /\ q.payload = r.payload
      /\ q.ordinal = r.ordinal /\ q.ack = r.ack
      /\ q.blocked = r.blocked /\ q.worker = worker
      /\ q.finished = finished /\ q.exec = r.exec
      /\ q.backgrounded = r.backgrounded /\ q.collected = r.collected
      /\ q.collected_in = r.collected_in
  <2> HIDE DEF r, finished, worker
  <2> QED  BY <1>1 DEF Source
<1> HIDE DEF q
<1>7. Edits(j, k, s, q) /\ k.collected = j.collected
  BY <1>1, <1>4, <1>5, EditSource
<1>8. k.src[s] = q /\ k.active = j.active
  BY <1>7 DEF Edits, SameTurns
<1> HIDE DEF k, r
<1>9. Sound(k, s, c, h[s], p[s], rd[s], tk, rf)
  <2>1. Evidence(q, c, h[s], p[s])
    BY <1>1, <1>6 DEF Sound, Evidence, Ended, r
  <2>2. Answered(q, s, tk, rf)
    BY <1>1, <1>6 DEF Sound, Answered, r
  <2>3. s \in Agents => AgentKept(k, s, h[s], rd[s])
    BY <1>1, <1>6, <1>7, <1>8 DEF Sound, AgentKept, r
  <2>4. s \in Terminals => TerminalKept(q, c, p[s], rd[s])
    BY <1>1, <1>6 DEF Sound, TerminalKept, r
  <2> QED  BY <1>8, <2>1, <2>2, <2>3, <2>4 DEF Sound
<1>10. Keeps(r, q)
  BY <1>6 DEF Keeps, Pends, r
<1>11. Alike(j, k)
  BY <1>7, <1>10, EditIsAlike DEF r
<1> QED  BY <1>6, <1>7, <1>9, <1>11, EditKeeps DEF k, r

(* The call that spawned a sub-agent returns.                              *)
LEMMA AgentHanded ==
    ASSUME NEW j, NEW s \in Sources, NEW result, NEW c, NEW h, NEW p, NEW rd, NEW tk, NEW rf,
           JournalInv(j, c, h, p, rd, tk, rf),
           h[s] = result,
           s \in Agents,
           result \in {"background", "other"}
    PROVE  /\ JournalInv(HandAgent(j, s, result), c, h, p, rd, tk, rf)
           /\ Alike(j, HandAgent(j, s, result))
<1> DEFINE r == j.src[s]
           worker == IF r.worker # "absent" /\ result = "background" THEN "background" ELSE "absent"
           finished == r.finished /\ result = "background"
           q == [r EXCEPT !.worker = worker, !.finished = finished]
           k == HandAgent(j, s, result)
<1>1. j \in Journal /\ r \in Source /\ Sound(j, s, c, h[s], p[s], rd[s], tk, rf)
  BY SourceOf DEF JournalInv
<1>2. worker \in {"absent", "waiting", "background"}
  BY <1>1 DEF Source, Blocks
<1>3. finished \in BOOLEAN
  BY Zenon
<1>4. k = [j EXCEPT !.src[s] = q]
  BY <1>1 DEF HandAgent, Journal
<1>5. q \in Source
  <2> HIDE DEF r, worker, finished
  <2> QED  BY <1>1, <1>2, <1>3 DEF Source
<1>6. /\ q.trace = r.trace /\ q.closed = r.closed
      /\ q.settled = r.settled /\ q.payload = r.payload
      /\ q.ordinal = r.ordinal /\ q.ack = r.ack
      /\ q.blocked = r.blocked /\ q.worker = worker
      /\ q.finished = finished /\ q.exec = r.exec
      /\ q.backgrounded = r.backgrounded /\ q.collected = r.collected
      /\ q.collected_in = r.collected_in
  <2> HIDE DEF r, worker, finished
  <2> QED  BY <1>1 DEF Source
<1> HIDE DEF q
<1>7. Edits(j, k, s, q) /\ k.collected = j.collected
  BY <1>1, <1>4, <1>5, EditSource
<1>8. k.src[s] = q /\ k.active = j.active
  BY <1>7 DEF Edits, SameTurns
<1> HIDE DEF k, r
<1>9. Sound(k, s, c, h[s], p[s], rd[s], tk, rf)
  <2>1. Evidence(q, c, h[s], p[s])
    BY <1>1, <1>6 DEF Sound, Evidence, Ended, r
  <2>2. Answered(q, s, tk, rf)
    BY <1>1, <1>6 DEF Sound, Answered, r
  <2>3. s \in Agents => AgentKept(k, s, h[s], rd[s])
    BY <1>1, <1>6, <1>7, <1>8 DEF Sound, AgentKept, r
  <2>4. s \in Terminals => TerminalKept(q, c, p[s], rd[s])
    BY <1>1, <1>6 DEF Sound, TerminalKept, r
  <2> QED  BY <1>8, <2>1, <2>2, <2>3, <2>4 DEF Sound
<1>10. Keeps(r, q)
  BY <1>6 DEF Keeps, Pends, r
<1>11. Alike(j, k)
  BY <1>7, <1>10, EditIsAlike DEF r
<1> QED  BY <1>6, <1>7, <1>9, <1>11, EditKeeps DEF k, r

(* The call that spawned a shell returns.                                  *)
LEMMA TerminalHanded ==
    ASSUME NEW j, NEW s \in Sources, NEW result, NEW c, NEW h, NEW p, NEW rd, NEW tk, NEW rf,
           JournalInv(j, c, h, p, rd, tk, rf),
           result = "background" => h[s] = "background"
    PROVE  /\ JournalInv(HandTerminal(j, s, result), c, h, p, rd, tk, rf)
           /\ Alike(j, HandTerminal(j, s, result))
<1> DEFINE r == j.src[s]
           backgrounded == r.backgrounded \/ result = "background"
           q == [r EXCEPT !.backgrounded = backgrounded]
           k == HandTerminal(j, s, result)
<1>1. j \in Journal /\ r \in Source /\ Sound(j, s, c, h[s], p[s], rd[s], tk, rf)
  BY SourceOf DEF JournalInv
<1>2. backgrounded \in BOOLEAN
  BY Zenon
<1>3. k = [j EXCEPT !.src[s] = q]
  BY <1>1 DEF HandTerminal, Journal
<1>4. q \in Source
  <2> HIDE DEF r, backgrounded
  <2> QED  BY <1>1, <1>2 DEF Source
<1>5. /\ q.trace = r.trace /\ q.closed = r.closed
      /\ q.settled = r.settled /\ q.payload = r.payload
      /\ q.ordinal = r.ordinal /\ q.ack = r.ack
      /\ q.blocked = r.blocked /\ q.worker = r.worker
      /\ q.finished = r.finished /\ q.exec = r.exec
      /\ q.backgrounded = backgrounded /\ q.collected = r.collected
      /\ q.collected_in = r.collected_in
  <2> HIDE DEF r, backgrounded
  <2> QED  BY <1>1 DEF Source
<1> HIDE DEF q
<1>6. Edits(j, k, s, q) /\ k.collected = j.collected
  BY <1>1, <1>3, <1>4, EditSource
<1>7. k.src[s] = q /\ k.active = j.active
  BY <1>6 DEF Edits, SameTurns
<1> HIDE DEF k, r
<1>8. Sound(k, s, c, h[s], p[s], rd[s], tk, rf)
  <2>1. Evidence(q, c, h[s], p[s])
    BY <1>1, <1>5 DEF Sound, Evidence, Ended, r
  <2>2. Answered(q, s, tk, rf)
    BY <1>1, <1>5 DEF Sound, Answered, r
  <2>3. s \in Agents => AgentKept(k, s, h[s], rd[s])
    BY <1>1, <1>5, <1>6, <1>7 DEF Sound, AgentKept, r
  <2>4. s \in Terminals => TerminalKept(q, c, p[s], rd[s])
    BY <1>1, <1>5 DEF Sound, TerminalKept, r
  <2> QED  BY <1>7, <2>1, <2>2, <2>3, <2>4 DEF Sound
<1>9. Keeps(r, q)
  BY <1>5 DEF Keeps, Pends, r
<1>10. Alike(j, k)
  BY <1>6, <1>9, EditIsAlike DEF r
<1> QED  BY <1>5, <1>6, <1>8, <1>10, EditKeeps DEF k, r

(* A shell's result is read in the turn that runs.                         *)
LEMMA TerminalRead ==
    ASSUME NEW j, NEW s \in Sources, NEW c, NEW h, NEW p, NEW rd, NEW tk, NEW rf,
           JournalInv(j, c, h, p, rd, tk, rf),
           s \in Terminals,
           j.active \in rd[s]
    PROVE  /\ JournalInv(ReadTerminal(j, s), c, h, p, rd, tk, rf)
           /\ Alike(j, ReadTerminal(j, s))
<1> DEFINE r == j.src[s]
           collected_in == j.active
           q == [r EXCEPT !.collected_in = collected_in]
           k == ReadTerminal(j, s)
<1>1. j \in Journal /\ r \in Source /\ Sound(j, s, c, h[s], p[s], rd[s], tk, rf)
  BY SourceOf DEF JournalInv
<1>2. collected_in \in Traces \cup {None}
  BY <1>1 DEF Journal
<1>3. k = [j EXCEPT !.src[s] = q]
  BY <1>1 DEF ReadTerminal, Journal
<1>4. q \in Source
  <2> HIDE DEF r, collected_in
  <2> QED  BY <1>1, <1>2 DEF Source
<1>5. /\ q.trace = r.trace /\ q.closed = r.closed
      /\ q.settled = r.settled /\ q.payload = r.payload
      /\ q.ordinal = r.ordinal /\ q.ack = r.ack
      /\ q.blocked = r.blocked /\ q.worker = r.worker
      /\ q.finished = r.finished /\ q.exec = r.exec
      /\ q.backgrounded = r.backgrounded /\ q.collected = r.collected
      /\ q.collected_in = collected_in
  <2> HIDE DEF r, collected_in
  <2> QED  BY <1>1 DEF Source
<1> HIDE DEF q
<1>6. Edits(j, k, s, q) /\ k.collected = j.collected
  BY <1>1, <1>3, <1>4, EditSource
<1>7. k.src[s] = q /\ k.active = j.active
  BY <1>6 DEF Edits, SameTurns
<1> HIDE DEF k, r
<1>8. Sound(k, s, c, h[s], p[s], rd[s], tk, rf)
  <2>1. Evidence(q, c, h[s], p[s])
    BY <1>1, <1>5 DEF Sound, Evidence, Ended, r
  <2>2. Answered(q, s, tk, rf)
    BY <1>1, <1>5 DEF Sound, Answered, r
  <2>3. s \in Agents => AgentKept(k, s, h[s], rd[s])
    BY <1>1, <1>5, <1>6, <1>7, SourceKind DEF Sound, AgentKept, r
  <2>4. s \in Terminals => TerminalKept(q, c, p[s], rd[s])
    BY <1>1, <1>5 DEF Sound, TerminalKept, r
  <2> QED  BY <1>7, <2>1, <2>2, <2>3, <2>4 DEF Sound
<1>9. Keeps(r, q)
  BY <1>5 DEF Keeps, Pends, r
<1>10. Alike(j, k)
  BY <1>6, <1>9, EditIsAlike DEF r
<1> QED  BY <1>5, <1>6, <1>8, <1>10, EditKeeps DEF k, r

(* A shell that never started is withdrawn.                                *)
LEMMA TerminalNotStarted ==
    ASSUME NEW j, NEW s \in Sources, NEW c, NEW h, NEW p, NEW rd, NEW tk, NEW rf,
           JournalInv(j, c, h, p, rd, tk, rf),
           s \in Terminals,
           p[s] = "gone"
    PROVE  /\ JournalInv(terminal_not_started(j, s), c, h, p, rd, tk, rf)
           /\ Alike(j, terminal_not_started(j, s))
<1> DEFINE r == j.src[s]
           exec == "not_started"
           settled == TRUE
           q == [r EXCEPT !.exec = exec, !.settled = settled]
           k == terminal_not_started(j, s)
<1>1. j \in Journal /\ r \in Source /\ Sound(j, s, c, h[s], p[s], rd[s], tk, rf)
  BY SourceOf DEF JournalInv
<1>2. exec \in {"none", "prepared", "running", "terminal", "not_started",
                "execution_unconfirmed"}
  BY <1>1 DEF Source, Blocks
<1>3. settled \in BOOLEAN
  BY Zenon
<1>4. k = [j EXCEPT !.src[s] = q]
  BY <1>1 DEF terminal_not_started, Journal
<1>5. q \in Source
  <2> HIDE DEF r, exec, settled
  <2> QED  BY <1>1, <1>2, <1>3 DEF Source
<1>6. /\ q.trace = r.trace /\ q.closed = r.closed
      /\ q.settled = settled /\ q.payload = r.payload
      /\ q.ordinal = r.ordinal /\ q.ack = r.ack
      /\ q.blocked = r.blocked /\ q.worker = r.worker
      /\ q.finished = r.finished /\ q.exec = exec
      /\ q.backgrounded = r.backgrounded /\ q.collected = r.collected
      /\ q.collected_in = r.collected_in
  <2> HIDE DEF r, exec, settled
  <2> QED  BY <1>1 DEF Source
<1> HIDE DEF q
<1>7. Edits(j, k, s, q) /\ k.collected = j.collected
  BY <1>1, <1>4, <1>5, EditSource
<1>8. k.src[s] = q /\ k.active = j.active
  BY <1>7 DEF Edits, SameTurns
<1> HIDE DEF k, r
<1>9. Sound(k, s, c, h[s], p[s], rd[s], tk, rf)
  <2>1. Evidence(q, c, h[s], p[s])
    BY <1>1, <1>6 DEF Sound, Evidence, Ended, r
  <2>2. Answered(q, s, tk, rf)
    BY <1>1, <1>6 DEF Sound, Answered, r
  <2>3. s \in Agents => AgentKept(k, s, h[s], rd[s])
    BY <1>1, <1>6, <1>7, <1>8, SourceKind DEF Sound, AgentKept, r
  <2>4. s \in Terminals => TerminalKept(q, c, p[s], rd[s])
    BY <1>1, <1>6 DEF Sound, TerminalKept, r
  <2> QED  BY <1>8, <2>1, <2>2, <2>3, <2>4 DEF Sound
<1>10. Keeps(r, q)
  BY <1>6 DEF Keeps, Pends, r
<1>11. Alike(j, k)
  BY <1>7, <1>10, EditIsAlike DEF r
<1> QED  BY <1>6, <1>7, <1>9, <1>11, EditKeeps DEF k, r

(* A shell that runs is recorded as running.                               *)
LEMMA TerminalStarted ==
    ASSUME NEW j, NEW s \in Sources, NEW c, NEW h, NEW p, NEW rd, NEW tk, NEW rf,
           JournalInv(j, c, h, p, rd, tk, rf),
           s \in Terminals,
           p[s] = "alive"
    PROVE  /\ JournalInv(terminal_started(j, s), c, h, p, rd, tk, rf)
           /\ Alike(j, terminal_started(j, s))
<1> DEFINE r == j.src[s]
           exec == "running"
           q == [r EXCEPT !.exec = exec]
           k == terminal_started(j, s)
<1>1. j \in Journal /\ r \in Source /\ Sound(j, s, c, h[s], p[s], rd[s], tk, rf)
  BY SourceOf DEF JournalInv
<1>2. exec \in {"none", "prepared", "running", "terminal", "not_started",
                "execution_unconfirmed"}
  BY <1>1 DEF Source, Blocks
<1>3. k = [j EXCEPT !.src[s] = q]
  BY <1>1 DEF terminal_started, Journal
<1>4. q \in Source
  <2> HIDE DEF r, exec
  <2> QED  BY <1>1, <1>2 DEF Source
<1>5. /\ q.trace = r.trace /\ q.closed = r.closed
      /\ q.settled = r.settled /\ q.payload = r.payload
      /\ q.ordinal = r.ordinal /\ q.ack = r.ack
      /\ q.blocked = r.blocked /\ q.worker = r.worker
      /\ q.finished = r.finished /\ q.exec = exec
      /\ q.backgrounded = r.backgrounded /\ q.collected = r.collected
      /\ q.collected_in = r.collected_in
  <2> HIDE DEF r, exec
  <2> QED  BY <1>1 DEF Source
<1> HIDE DEF q
<1>6. Edits(j, k, s, q) /\ k.collected = j.collected
  BY <1>1, <1>3, <1>4, EditSource
<1>7. k.src[s] = q /\ k.active = j.active
  BY <1>6 DEF Edits, SameTurns
<1> HIDE DEF k, r
<1>8. Sound(k, s, c, h[s], p[s], rd[s], tk, rf)
  <2>1. Evidence(q, c, h[s], p[s])
    BY <1>1, <1>5 DEF Sound, Evidence, Ended, r
  <2>2. Answered(q, s, tk, rf)
    BY <1>1, <1>5 DEF Sound, Answered, r
  <2>3. s \in Agents => AgentKept(k, s, h[s], rd[s])
    BY <1>1, <1>5, <1>6, <1>7, SourceKind DEF Sound, AgentKept, r
  <2>4. s \in Terminals => TerminalKept(q, c, p[s], rd[s])
    BY <1>1, <1>5 DEF Sound, TerminalKept, r
  <2> QED  BY <1>7, <2>1, <2>2, <2>3, <2>4 DEF Sound
<1>9. Keeps(r, q)
  BY <1>5 DEF Keeps, Pends, r
<1>10. Alike(j, k)
  BY <1>6, <1>9, EditIsAlike DEF r
<1> QED  BY <1>5, <1>6, <1>8, <1>10, EditKeeps DEF k, r

(* A shell whose end is unknown is marked unconfirmed.                     *)
LEMMA TerminalUnconfirmed ==
    ASSUME NEW j, NEW s \in Sources, NEW c, NEW h, NEW p, NEW rd, NEW tk, NEW rf,
           JournalInv(j, c, h, p, rd, tk, rf),
           s \in Terminals,
           j.src[s].exec # "not_started"
    PROVE  /\ JournalInv(terminal_unconfirmed(j, s), c, h, p, rd, tk, rf)
           /\ Alike(j, terminal_unconfirmed(j, s))
<1> DEFINE r == j.src[s]
           exec == "execution_unconfirmed"
           blocked == IF r.settled THEN r.blocked ELSE "execution_unconfirmed"
           q == [r EXCEPT !.exec = exec, !.blocked = blocked]
           k == terminal_unconfirmed(j, s)
<1>1. j \in Journal /\ r \in Source /\ Sound(j, s, c, h[s], p[s], rd[s], tk, rf)
  BY SourceOf DEF JournalInv
<1>2. exec \in {"none", "prepared", "running", "terminal", "not_started",
                "execution_unconfirmed"}
  BY <1>1 DEF Source, Blocks
<1>3. blocked \in Blocks
  BY <1>1 DEF Source, Blocks
<1>4. k = [j EXCEPT !.src[s] = q]
  BY <1>1 DEF terminal_unconfirmed, Journal
<1>5. q \in Source
  <2> HIDE DEF r, exec, blocked
  <2> QED  BY <1>1, <1>2, <1>3 DEF Source
<1>6. /\ q.trace = r.trace /\ q.closed = r.closed
      /\ q.settled = r.settled /\ q.payload = r.payload
      /\ q.ordinal = r.ordinal /\ q.ack = r.ack
      /\ q.blocked = blocked /\ q.worker = r.worker
      /\ q.finished = r.finished /\ q.exec = exec
      /\ q.backgrounded = r.backgrounded /\ q.collected = r.collected
      /\ q.collected_in = r.collected_in
  <2> HIDE DEF r, exec, blocked
  <2> QED  BY <1>1 DEF Source
<1> HIDE DEF q
<1>7. Edits(j, k, s, q) /\ k.collected = j.collected
  BY <1>1, <1>4, <1>5, EditSource
<1>8. k.src[s] = q /\ k.active = j.active
  BY <1>7 DEF Edits, SameTurns
<1> HIDE DEF k, r
<1>9. Sound(k, s, c, h[s], p[s], rd[s], tk, rf)
  <2>1. Evidence(q, c, h[s], p[s])
    BY <1>1, <1>6 DEF Sound, Evidence, Ended, r
  <2>2. Answered(q, s, tk, rf)
    BY <1>1, <1>6 DEF Sound, Answered, r
  <2>3. s \in Agents => AgentKept(k, s, h[s], rd[s])
    BY <1>1, <1>6, <1>7, <1>8, SourceKind DEF Sound, AgentKept, r
  <2>4. s \in Terminals => TerminalKept(q, c, p[s], rd[s])
    BY <1>1, <1>6 DEF Sound, TerminalKept, r
  <2> QED  BY <1>8, <2>1, <2>2, <2>3, <2>4 DEF Sound
<1>10. Keeps(r, q)
  BY <1>6 DEF Keeps, Pends, r
<1>11. Alike(j, k)
  BY <1>7, <1>10, EditIsAlike DEF r
<1> QED  BY <1>6, <1>7, <1>9, <1>11, EditKeeps DEF k, r

(* A shell's end is recorded.                                              *)
LEMMA TerminalExited ==
    ASSUME NEW j, NEW s \in Sources, NEW c, NEW h, NEW p, NEW rd, NEW tk, NEW rf,
           JournalInv(j, c, h, p, rd, tk, rf),
           s \in Terminals,
           p[s] = "reported",
           ~j.src[s].payload
    PROVE  /\ JournalInv(ExitTerminal(j, s), c, h, p, rd, tk, rf)
           /\ Alike(j, ExitTerminal(j, s))
<1> DEFINE r == j.src[s]
           exec == "terminal"
           blocked == IF r.blocked = "execution_unconfirmed" THEN "none" ELSE r.blocked
           q == [r EXCEPT !.exec = exec, !.blocked = blocked]
           k == ExitTerminal(j, s)
<1>1. j \in Journal /\ r \in Source /\ Sound(j, s, c, h[s], p[s], rd[s], tk, rf)
  BY SourceOf DEF JournalInv
<1>2. exec \in {"none", "prepared", "running", "terminal", "not_started",
                "execution_unconfirmed"}
  BY <1>1 DEF Source, Blocks
<1>3. blocked \in Blocks
  BY <1>1 DEF Source, Blocks
<1>4. k = [j EXCEPT !.src[s] = q]
  BY <1>1 DEF ExitTerminal, Journal
<1>5. q \in Source
  <2> HIDE DEF r, exec, blocked
  <2> QED  BY <1>1, <1>2, <1>3 DEF Source
<1>6. /\ q.trace = r.trace /\ q.closed = r.closed
      /\ q.settled = r.settled /\ q.payload = r.payload
      /\ q.ordinal = r.ordinal /\ q.ack = r.ack
      /\ q.blocked = blocked /\ q.worker = r.worker
      /\ q.finished = r.finished /\ q.exec = exec
      /\ q.backgrounded = r.backgrounded /\ q.collected = r.collected
      /\ q.collected_in = r.collected_in
  <2> HIDE DEF r, exec, blocked
  <2> QED  BY <1>1 DEF Source
<1> HIDE DEF q
<1>7. Edits(j, k, s, q) /\ k.collected = j.collected
  BY <1>1, <1>4, <1>5, EditSource
<1>8. k.src[s] = q /\ k.active = j.active
  BY <1>7 DEF Edits, SameTurns
<1> HIDE DEF k, r
<1>9. Sound(k, s, c, h[s], p[s], rd[s], tk, rf)
  <2>1. Evidence(q, c, h[s], p[s])
    BY <1>1, <1>6 DEF Sound, Evidence, Ended, r
  <2>2. Answered(q, s, tk, rf)
    BY <1>1, <1>6 DEF Sound, Answered, r
  <2>3. s \in Agents => AgentKept(k, s, h[s], rd[s])
    BY <1>1, <1>6, <1>7, <1>8, SourceKind DEF Sound, AgentKept, r
  <2>4. s \in Terminals => TerminalKept(q, c, p[s], rd[s])
    BY <1>1, <1>6 DEF Sound, TerminalKept, r
  <2> QED  BY <1>8, <2>1, <2>2, <2>3, <2>4 DEF Sound
<1>10. Keeps(r, q)
  BY <1>6 DEF Keeps, Pends, r
<1>11. Alike(j, k)
  BY <1>7, <1>10, EditIsAlike DEF r
<1> QED  BY <1>6, <1>7, <1>9, <1>11, EditKeeps DEF k, r

(* An acknowledgement of a result its receiver stored.                     *)
LEMMA SourceAcknowledged ==
    ASSUME NEW j, NEW s \in Sources, NEW c, NEW h, NEW p, NEW rd, NEW tk, NEW rf,
           JournalInv(j, c, h, p, rd, tk, rf),
           s \in tk
    PROVE  /\ JournalInv(acknowledge(j, s), c, h, p, rd, tk, rf)
           /\ Alike(j, acknowledge(j, s))
<1> DEFINE r == j.src[s]
           ack == "acknowledged"
           settled == TRUE
           q == [r EXCEPT !.ack = ack, !.settled = settled]
           k == acknowledge(j, s)
<1>1. j \in Journal /\ r \in Source /\ Sound(j, s, c, h[s], p[s], rd[s], tk, rf)
  BY SourceOf DEF JournalInv
<1>2. ack \in {"none", "acknowledged", "suppressed"}
  BY <1>1 DEF Source, Blocks
<1>3. settled \in BOOLEAN
  BY Zenon
<1>4. k = [j EXCEPT !.src[s] = q]
  BY <1>1 DEF acknowledge, Journal
<1>5. q \in Source
  <2> HIDE DEF r, ack, settled
  <2> QED  BY <1>1, <1>2, <1>3 DEF Source
<1>6. /\ q.trace = r.trace /\ q.closed = r.closed
      /\ q.settled = settled /\ q.payload = r.payload
      /\ q.ordinal = r.ordinal /\ q.ack = ack
      /\ q.blocked = r.blocked /\ q.worker = r.worker
      /\ q.finished = r.finished /\ q.exec = r.exec
      /\ q.backgrounded = r.backgrounded /\ q.collected = r.collected
      /\ q.collected_in = r.collected_in
  <2> HIDE DEF r, ack, settled
  <2> QED  BY <1>1 DEF Source
<1> HIDE DEF q
<1>7. Edits(j, k, s, q) /\ k.collected = j.collected
  BY <1>1, <1>4, <1>5, EditSource
<1>8. k.src[s] = q /\ k.active = j.active
  BY <1>7 DEF Edits, SameTurns
<1> HIDE DEF k, r
<1>9. Sound(k, s, c, h[s], p[s], rd[s], tk, rf)
  <2>1. Evidence(q, c, h[s], p[s])
    BY <1>1, <1>6 DEF Sound, Evidence, Ended, r
  <2>2. Answered(q, s, tk, rf)
    BY <1>1, <1>6 DEF Sound, Answered, r
  <2>3. s \in Agents => AgentKept(k, s, h[s], rd[s])
    BY <1>1, <1>6, <1>7, <1>8 DEF Sound, AgentKept, r
  <2>4. s \in Terminals => TerminalKept(q, c, p[s], rd[s])
    BY <1>1, <1>6 DEF Sound, TerminalKept, r
  <2> QED  BY <1>8, <2>1, <2>2, <2>3, <2>4 DEF Sound
<1>10. Keeps(r, q)
  BY <1>6 DEF Keeps, Pends, r
<1>11. Alike(j, k)
  BY <1>7, <1>10, EditIsAlike DEF r
<1> QED  BY <1>6, <1>7, <1>9, <1>11, EditKeeps DEF k, r

(* A quarantine of a result its receiver refused.                          *)
LEMMA SourceQuarantined ==
    ASSUME NEW j, NEW s \in Sources, NEW c, NEW h, NEW p, NEW rd, NEW tk, NEW rf,
           JournalInv(j, c, h, p, rd, tk, rf),
           s \in rf
    PROVE  /\ JournalInv(quarantine(j, s), c, h, p, rd, tk, rf)
           /\ Alike(j, quarantine(j, s))
<1> DEFINE r == j.src[s]
           blocked == "rejected"
           q == [r EXCEPT !.blocked = blocked]
           k == quarantine(j, s)
<1>1. j \in Journal /\ r \in Source /\ Sound(j, s, c, h[s], p[s], rd[s], tk, rf)
  BY SourceOf DEF JournalInv
<1>2. blocked \in Blocks
  BY <1>1 DEF Source, Blocks
<1>3. k = [j EXCEPT !.src[s] = q]
  BY <1>1 DEF quarantine, Journal
<1>4. q \in Source
  <2> HIDE DEF r, blocked
  <2> QED  BY <1>1, <1>2 DEF Source
<1>5. /\ q.trace = r.trace /\ q.closed = r.closed
      /\ q.settled = r.settled /\ q.payload = r.payload
      /\ q.ordinal = r.ordinal /\ q.ack = r.ack
      /\ q.blocked = blocked /\ q.worker = r.worker
      /\ q.finished = r.finished /\ q.exec = r.exec
      /\ q.backgrounded = r.backgrounded /\ q.collected = r.collected
      /\ q.collected_in = r.collected_in
  <2> HIDE DEF r, blocked
  <2> QED  BY <1>1 DEF Source
<1> HIDE DEF q
<1>6. Edits(j, k, s, q) /\ k.collected = j.collected
  BY <1>1, <1>3, <1>4, EditSource
<1>7. k.src[s] = q /\ k.active = j.active
  BY <1>6 DEF Edits, SameTurns
<1> HIDE DEF k, r
<1>8. Sound(k, s, c, h[s], p[s], rd[s], tk, rf)
  <2>1. Evidence(q, c, h[s], p[s])
    BY <1>1, <1>5 DEF Sound, Evidence, Ended, r
  <2>2. Answered(q, s, tk, rf)
    BY <1>1, <1>5 DEF Sound, Answered, r
  <2>3. s \in Agents => AgentKept(k, s, h[s], rd[s])
    BY <1>1, <1>5, <1>6, <1>7 DEF Sound, AgentKept, r
  <2>4. s \in Terminals => TerminalKept(q, c, p[s], rd[s])
    BY <1>1, <1>5 DEF Sound, TerminalKept, r
  <2> QED  BY <1>7, <2>1, <2>2, <2>3, <2>4 DEF Sound
<1>9. Keeps(r, q)
  BY <1>5 DEF Keeps, Pends, r
<1>10. Alike(j, k)
  BY <1>6, <1>9, EditIsAlike DEF r
<1> QED  BY <1>5, <1>6, <1>8, <1>10, EditKeeps DEF k, r

-----------------------------------------------------------------------------
(* The methods.                                                            *)

\* From journal j to journal k no result that was dealt with comes back, and
\* one that begins to wait comes after all that were published.
Advances(j, k) ==
    \A s \in Sources :
        LET r == j.src[s]
            q == k.src[s]
        IN /\ r.trace # None =>
                \/ k.deleted
                \/ /\ q.trace # None
                   /\ r.payload \/ r.settled => q.payload \/ q.settled
           /\ Pends(q) => \/ Pends(r) /\ q.ordinal = r.ordinal
                          \/ /\ ~r.payload /\ ~r.settled
                             /\ \A t \in Sources : j.src[t].ordinal < q.ordinal

(* A quiet change publishes nothing out of order.                          *)
LEMMA CalmAdvances ==
    ASSUME NEW j, NEW k, Calm(j, k)
    PROVE  Advances(j, k)
BY DEF Calm, Keeps, Advances

(* Two quiet changes are a quiet change.                                   *)
LEMMA CalmIsTransitive ==
    ASSUME NEW j, NEW e, NEW k, Calm(j, e), Calm(e, k)
    PROVE  Calm(j, k)
BY DEF Calm, Keeps

(* A quiet change and a publication: what is new comes last.               *)
LEMMA PublishAfterCalm ==
    ASSUME NEW j, NEW e \in Journal, NEW k, Calm(j, e), Publication(e, k)
    PROVE  Advances(j, k)
<1>1. \A t \in Sources : j.src[t].ordinal < NextOrdinal(e)
  BY OrdinalIsNew DEF Calm, Keeps
<1>2. ASSUME NEW s \in Sources
      PROVE LET r == j.src[s]
                q == k.src[s]
            IN /\ r.trace # None =>
                \/ k.deleted
                \/ /\ q.trace # None
                   /\ r.payload \/ r.settled => q.payload \/ q.settled
               /\ Pends(q) => \/ Pends(r) /\ q.ordinal = r.ordinal
                              \/ /\ ~r.payload /\ ~r.settled
                                 /\ \A t \in Sources : j.src[t].ordinal < q.ordinal
  <2> DEFINE r == j.src[s]
             m == e.src[s]
             q == k.src[s]
  <2>1. Keeps(r, m)
    BY DEF Calm
  <2>2. Publishes(e, s, m, q)
    BY DEF Publication
  <2> HIDE DEF r, m, q
  <2>3. r.payload \/ r.settled => q.payload \/ q.settled
    BY <2>1, <2>2 DEF Keeps, Publishes
  <2> q.trace = r.trace
    BY <2>1, <2>2 DEF Keeps, Publishes, Same
  <2>4. CASE q.payload = m.payload /\ q.ordinal = m.ordinal
    <3>1. Pends(q) => Pends(m)
      BY <2>2, <2>4 DEF Pends, Publishes, Same
    <3> QED  BY <2>1, <2>3, <2>4, <3>1 DEF Keeps, r, q
  <2>5. CASE ~m.payload /\ ~m.settled /\ q.ordinal = NextOrdinal(e)
    <3>1. ~r.payload /\ ~r.settled
      BY <2>1, <2>5 DEF Keeps
    <3> QED  BY <1>1, <2>5, <3>1 DEF r, q
  <2> QED  BY <2>2, <2>4, <2>5 DEF Publishes
<1> QED  BY <1>2 DEF Advances

(* An edit followed by a publication keeps what the edit kept.             *)
LEMMA ThenPublish ==
    ASSUME NEW j, NEW e, NEW k, SameTurns(j, e), Calm(j, e), Publication(e, k),
           NEW c, NEW h, NEW p, NEW rd, NEW tk, NEW rf,
           JournalInv(e, c, h, p, rd, tk, rf)
    PROVE  /\ JournalInv(k, c, h, p, rd, tk, rf)
           /\ SameTurns(j, k) /\ Advances(j, k)
<1>1. JournalInv(k, c, h, p, rd, tk, rf)
  BY PublicationKeeps
<1>2. SameTurns(j, k)
  BY DEF Publication, SameTurns
<1>3. Advances(j, k)
  BY PublishAfterCalm DEF JournalInv
<1> QED  BY <1>1, <1>2, <1>3

(* The same with publish, which ends most operations of the journal.       *)
LEMMA AfterPublish ==
    ASSUME NEW j, NEW e, SameTurns(j, e), Calm(j, e),
           NEW c, NEW h, NEW p, NEW rd, NEW tk, NEW rf,
           JournalInv(e, c, h, p, rd, tk, rf)
    PROVE  /\ JournalInv(publish(e), c, h, p, rd, tk, rf)
           /\ SameTurns(j, publish(e)) /\ Advances(j, publish(e))
<1>1. e \in Journal
  BY DEF JournalInv
<1>2. Publication(e, publish(e))
  BY <1>1, PublishEffect
<1> QED  BY <1>2, ThenPublish

(* No change is a quiet change.                                            *)
LEMMA CalmAlone ==
    ASSUME NEW j
    PROVE  Calm(j, j) /\ SameTurns(j, j) /\ Alike(j, j) /\ Advances(j, j)
<1>1. Calm(j, j) /\ SameTurns(j, j)
  BY DEF Calm, Keeps, SameTurns
<1> QED  BY <1>1, CalmAdvances DEF Alike

(* lifecycle, for a child that did end.                                    *)
LEMMA LifecycleKeeps ==
    ASSUME NEW j, NEW s \in Sources, NEW c, NEW h, NEW p, NEW rd, NEW tk, NEW rf,
           JournalInv(j, c, h, p, rd, tk, rf), p[s] \in Ended
    PROVE  /\ JournalInv(lifecycle(j, s), c, h, p, rd, tk, rf)
           /\ SameTurns(j, lifecycle(j, s)) /\ Advances(j, lifecycle(j, s))
<1>1. CASE j.src[s].payload \/ j.src[s].settled
  BY <1>1, CalmAlone DEF lifecycle
<1>2. CASE ~(j.src[s].payload \/ j.src[s].settled)
  <2> DEFINE u == IF j.src[s].closed THEN Unblocked(j, s) ELSE j
  <2>1. lifecycle(j, s) = publish(Finished(u, s))
    BY <1>2 DEF lifecycle
  <2>2. JournalInv(u, c, h, p, rd, tk, rf) /\ Alike(j, u)
    BY <1>2, SourceUnblocked, CalmAlone
  <2> HIDE DEF u
  <2>3. JournalInv(Finished(u, s), c, h, p, rd, tk, rf) /\ Alike(u, Finished(u, s))
    BY <2>2, SourceFinished
  <2>4. SameTurns(j, Finished(u, s)) /\ Calm(j, Finished(u, s))
    BY <2>2, <2>3, CalmIsTransitive DEF Alike, SameTurns
  <2> QED  BY <2>1, <2>3, <2>4, AfterPublish
<1> QED  BY <1>1, <1>2

(* tool_result, for the result that the tool did hand over.                *)
LEMMA ToolResultKeeps ==
    ASSUME NEW j, NEW s \in Sources, NEW result \in {"background", "other"},
           NEW c, NEW h, NEW p, NEW rd, NEW tk, NEW rf,
           JournalInv(j, c, h, p, rd, tk, rf),
           h[s] = result \/ (s \in Terminals /\ result = "other")
    PROVE  /\ JournalInv(tool_result(j, s, result), c, h, p, rd, tk, rf)
           /\ SameTurns(j, tool_result(j, s, result))
           /\ Advances(j, tool_result(j, s, result))
<1> DEFINE e == IF s \in Terminals THEN HandTerminal(j, s, result)
                                   ELSE HandAgent(j, s, result)
<1>1. tool_result(j, s, result) = publish(e)
  BY DEF tool_result, HandTerminal, HandAgent
<1>2. JournalInv(e, c, h, p, rd, tk, rf) /\ Alike(j, e)
  BY TerminalHanded, AgentHanded, SourceKind
<1> HIDE DEF e
<1> QED  BY <1>1, <1>2, AfterPublish DEF Alike

\* A worker leaves the reducer without a result.
ForgetWorker(j, s) ==
    [j EXCEPT !.src[s].worker = "absent", !.src[s].finished = FALSE]

(* The worker of a sub-agent whose result is read is forgotten.            *)
LEMMA WorkerForgotten ==
    ASSUME NEW j, NEW s \in Sources, NEW c, NEW h, NEW p, NEW rd, NEW tk, NEW rf,
           JournalInv(j, c, h, p, rd, tk, rf),
           s \in Agents => rd[s] # {}
    PROVE  /\ JournalInv(ForgetWorker(j, s), c, h, p, rd, tk, rf)
           /\ Alike(j, ForgetWorker(j, s))
<1> DEFINE r == j.src[s]
           worker == "absent"
           finished == FALSE
           q == [r EXCEPT !.worker = worker, !.finished = finished]
           k == ForgetWorker(j, s)
<1>1. j \in Journal /\ r \in Source /\ Sound(j, s, c, h[s], p[s], rd[s], tk, rf)
  BY SourceOf DEF JournalInv
<1>2. worker \in {"absent", "waiting", "background"}
  BY <1>1 DEF Source, Blocks
<1>3. finished \in BOOLEAN
  BY Zenon
<1>4. k = [j EXCEPT !.src[s] = q]
  BY <1>1 DEF ForgetWorker, Journal
<1>5. q \in Source
  <2> HIDE DEF r, worker, finished
  <2> QED  BY <1>1, <1>2, <1>3 DEF Source
<1>6. /\ q.trace = r.trace /\ q.closed = r.closed
      /\ q.settled = r.settled /\ q.payload = r.payload
      /\ q.ordinal = r.ordinal /\ q.ack = r.ack
      /\ q.blocked = r.blocked /\ q.worker = worker
      /\ q.finished = finished /\ q.exec = r.exec
      /\ q.backgrounded = r.backgrounded /\ q.collected = r.collected
      /\ q.collected_in = r.collected_in
  <2> HIDE DEF r, worker, finished
  <2> QED  BY <1>1 DEF Source
<1> HIDE DEF q
<1>7. Edits(j, k, s, q) /\ k.collected = j.collected
  BY <1>1, <1>4, <1>5, EditSource
<1>8. k.src[s] = q /\ k.active = j.active
  BY <1>7 DEF Edits, SameTurns
<1> HIDE DEF k, r
<1>9. Sound(k, s, c, h[s], p[s], rd[s], tk, rf)
  <2>1. Evidence(q, c, h[s], p[s])
    BY <1>1, <1>6 DEF Sound, Evidence, Ended, r
  <2>2. Answered(q, s, tk, rf)
    BY <1>1, <1>6 DEF Sound, Answered, r
  <2>3. s \in Agents => AgentKept(k, s, h[s], rd[s])
    BY <1>1, <1>6, <1>7, <1>8 DEF Sound, AgentKept, r
  <2>4. s \in Terminals => TerminalKept(q, c, p[s], rd[s])
    BY <1>1, <1>6 DEF Sound, TerminalKept, r
  <2> QED  BY <1>8, <2>1, <2>2, <2>3, <2>4 DEF Sound
<1>10. Keeps(r, q)
  BY <1>6 DEF Keeps, Pends, r
<1>11. Alike(j, k)
  BY <1>7, <1>10, EditIsAlike DEF r
<1> QED  BY <1>6, <1>7, <1>9, <1>11, EditKeeps DEF k, r

(* A read that is remembered.                                              *)
LEMMA ReadRemembered ==
    ASSUME NEW j, NEW s \in Agents, NEW c, NEW h, NEW p, NEW rd, NEW tk, NEW rf,
           JournalInv(j, c, h, p, rd, tk, rf), rd[s] # {},
           NEW k, k = [j EXCEPT !.collected = @ \cup {s}]
    PROVE  JournalInv(k, c, h, p, rd, tk, rf) /\ SameTurns(j, k) /\ k.src = j.src
<1> DEFINE coll == j.collected \cup {s}
<1>0. k = [j EXCEPT !.collected = coll]
  OBVIOUS
<1>1. j \in Journal /\ coll \subseteq Agents
  BY DEF JournalInv, Journal
<1>2. k.src = j.src /\ SameTurns(j, k) /\ k \in Journal /\ k.collected = coll
  <2> HIDE DEF coll
  <2> QED  BY <1>0, <1>1 DEF Journal, SameTurns
<1>3. Numbered(k)
  BY <1>2, NumberedAlike DEF JournalInv
<1>4. ASSUME NEW t \in Sources PROVE Sound(k, t, c, h[t], p[t], rd[t], tk, rf)
  <2>1. Sound(j, t, c, h[t], p[t], rd[t], tk, rf)
    BY DEF JournalInv
  <2>2. t \in k.collected => t \in j.collected \/ rd[t] # {}
    BY <1>2
  <2>3. k.active = j.active /\ k.src[t] = j.src[t]
    BY <1>2 DEF SameTurns
  <2> QED  BY <2>1, <2>2, <2>3 DEF Sound, AgentKept
<1> QED  BY <1>2, <1>3, <1>4 DEF JournalInv

(* pid_output, for a source that the turn did read.                        *)
LEMMA ReadKeeps ==
    ASSUME NEW j, NEW s \in Sources, NEW form \in {"json", "text"},
           NEW c, NEW h, NEW p, NEW rd, NEW tk, NEW rf,
           JournalInv(j, c, h, p, rd, tk, rf), rd[s] # {},
           s \in Terminals => j.active \in rd[s]
    PROVE  /\ JournalInv(pid_output(j, s, form), c, h, p, rd, tk, rf)
           /\ SameTurns(j, pid_output(j, s, form))
           /\ Advances(j, pid_output(j, s, form))
<1>1. CASE s \in Agents
  <2> DEFINE w == IF form = "json" \/ j.src[s].finished THEN ForgetWorker(j, s) ELSE j
             e == Consumed(j, s, form)
  <2>1. JournalInv(w, c, h, p, rd, tk, rf) /\ Alike(j, w) /\ w \in Journal
    <3>1. JournalInv(w, c, h, p, rd, tk, rf) /\ Alike(j, w)
      BY WorkerForgotten, CalmAlone
    <3> QED  BY <3>1 DEF JournalInv
  <2>2. e = w \/ e = [w EXCEPT !.collected = @ \cup {s}]
    <3>1. CASE form = "text" /\ j.src[s].finished
      <4>1. j \in Journal
        BY DEF JournalInv
      <4>2. e = [w EXCEPT !.collected = @ \cup {s}]
        BY <3>1, <4>1 DEF Consumed, ForgetWorker, Journal
      <4> QED  BY <4>2
    <3>2. CASE form = "json"
      <4>1. j \in Journal
        BY DEF JournalInv
      <4>2. e = [j EXCEPT !.src[s].worker = "absent", !.src[s].finished = FALSE,
                          !.collected = j.collected]
        BY <3>2 DEF Consumed
      <4>3. e = w
        BY <3>2, <4>1, <4>2 DEF ForgetWorker, Journal
      <4> QED  BY <4>3
    <3>3. CASE form = "text" /\ ~j.src[s].finished
      BY <3>3 DEF Consumed
    <3> QED  BY <3>1, <3>2, <3>3
  <2> HIDE DEF w, e
  <2>3. /\ JournalInv(e, c, h, p, rd, tk, rf)
        /\ SameTurns(w, e) /\ e.src = w.src
    <3>1. CASE e = w
      BY <2>1, <3>1, CalmAlone
    <3>2. CASE e = [w EXCEPT !.collected = @ \cup {s}]
      BY <1>1, <2>1, <3>2, ReadRemembered
    <3> QED  BY <2>2, <3>1, <3>2
  <2>4. SameTurns(j, e) /\ Calm(j, e)
    BY <2>1, <2>3 DEF Alike, Calm, SameTurns
  <2>5. pid_output(j, s, form) = publish(e)
    BY <1>1 DEF pid_output, e
  <2> QED  BY <2>3, <2>4, <2>5, AfterPublish
<1>2. CASE s \in Terminals
  <2> DEFINE e == terminal_tool_result(j, s)
  <2>1. e = j \/ e = ReadTerminal(j, s)
    BY DEF terminal_tool_result, ReadTerminal
  <2>2. JournalInv(e, c, h, p, rd, tk, rf) /\ Alike(j, e)
    BY <1>2, <2>1, TerminalRead, CalmAlone
  <2> HIDE DEF e
  <2>3. pid_output(j, s, form) = publish(e)
    BY <1>2, SourceKind DEF pid_output, e
  <2> QED  BY <2>2, <2>3, AfterPublish DEF Alike
<1> QED  BY <1>1, <1>2, SourceKind

(* terminal_finished, for a shell that did end.                            *)
LEMMA ExitKeeps ==
    ASSUME NEW j, NEW s \in Terminals, NEW c, NEW h, NEW p, NEW rd, NEW tk, NEW rf,
           JournalInv(j, c, h, p, rd, tk, rf), p[s] = "reported", ~j.src[s].payload
    PROVE  /\ JournalInv(terminal_finished(j, s), c, h, p, rd, tk, rf)
           /\ SameTurns(j, terminal_finished(j, s))
           /\ Advances(j, terminal_finished(j, s))
<1> DEFINE e == ExitTerminal(j, s)
<1>1. terminal_finished(j, s) = publish_terminals(e)
  BY DEF terminal_finished, ExitTerminal
<1>2. JournalInv(e, c, h, p, rd, tk, rf) /\ Alike(j, e)
  BY TerminalExited DEF Sources
<1> HIDE DEF e
<1>3. Publication(e, publish_terminals(e))
  BY <1>2, PublishTerminalsEffect DEF JournalInv
<1> QED  BY <1>1, <1>2, <1>3, ThenPublish DEF Alike

-----------------------------------------------------------------------------
(* The methods that go through all sources.                                *)

\* What commit, fail_turn and suppress do to a source.
Closes(r, t) ==
    LET read == r.collected_in = t
    IN [r EXCEPT !.closed = @ \/ r.trace = t,
                 !.collected = @ \/ read,
                 !.collected_in = IF read THEN None ELSE @]

Fails(r, t) ==
    LET mine == r.trace = t
    IN [r EXCEPT !.collected_in = IF @ = t THEN None ELSE @,
                 !.blocked = IF mine THEN "source_context_unconfirmed" ELSE @,
                 !.worker = IF mine THEN "absent" ELSE @,
                 !.finished = @ /\ ~mine]

Withdraws(r) ==
    [r EXCEPT !.settled = TRUE, !.blocked = "none", !.ack = "suppressed",
              !.payload = FALSE, !.worker = "absent", !.finished = FALSE]

(* What a commit makes of one source.                                      *)
LEMMA ClosesEffect ==
    ASSUME NEW r \in Source, NEW t
    PROVE  LET q == Closes(r, t)
           IN /\ q \in Source
              /\ q.closed = (r.closed \/ r.trace = t)
              /\ q.collected = (r.collected \/ r.collected_in = t)
              /\ q.collected_in = (IF r.collected_in = t THEN None ELSE r.collected_in)
              /\ q.trace = r.trace /\ q.settled = r.settled
              /\ q.payload = r.payload /\ q.ordinal = r.ordinal
              /\ q.ack = r.ack /\ q.blocked = r.blocked
              /\ q.worker = r.worker /\ q.finished = r.finished
              /\ q.exec = r.exec /\ q.backgrounded = r.backgrounded
<1> DEFINE closed == r.closed \/ r.trace = t
           collected == r.collected \/ r.collected_in = t
           collected_in == IF r.collected_in = t THEN None ELSE r.collected_in
           q == [r EXCEPT !.closed = closed, !.collected = collected, !.collected_in = collected_in]
<1>1. closed \in BOOLEAN
  BY Zenon
<1>2. collected \in BOOLEAN
  BY Zenon
<1>3. collected_in \in Traces \cup {None}
  BY DEF Source, Blocks
<1>4. Closes(r, t) = q
  BY DEF Closes
<1>5. q \in Source
  <2> HIDE DEF closed, collected, collected_in
  <2> QED  BY <1>1, <1>2, <1>3 DEF Source
<1>6. /\ q.closed = closed
      /\ q.collected = collected
      /\ q.collected_in = collected_in
      /\ q.trace = r.trace /\ q.settled = r.settled
      /\ q.payload = r.payload /\ q.ordinal = r.ordinal
      /\ q.ack = r.ack /\ q.blocked = r.blocked
      /\ q.worker = r.worker /\ q.finished = r.finished
      /\ q.exec = r.exec /\ q.backgrounded = r.backgrounded
  <2> HIDE DEF closed, collected, collected_in
  <2> QED  BY DEF Source
<1> HIDE DEF q
<1> QED  BY <1>4, <1>5, <1>6

(* What a failed turn makes of one source.                                 *)
LEMMA FailsEffect ==
    ASSUME NEW r \in Source, NEW t
    PROVE  LET q == Fails(r, t)
           IN /\ q \in Source
              /\ q.blocked = (IF r.trace = t THEN "source_context_unconfirmed" ELSE r.blocked)
              /\ q.worker = (IF r.trace = t THEN "absent" ELSE r.worker)
              /\ q.finished = (r.finished /\ ~(r.trace = t))
              /\ q.collected_in = (IF r.collected_in = t THEN None ELSE r.collected_in)
              /\ q.trace = r.trace /\ q.closed = r.closed
              /\ q.settled = r.settled /\ q.payload = r.payload
              /\ q.ordinal = r.ordinal /\ q.ack = r.ack
              /\ q.exec = r.exec /\ q.backgrounded = r.backgrounded
              /\ q.collected = r.collected
<1> DEFINE collected_in == IF r.collected_in = t THEN None ELSE r.collected_in
           blocked == IF r.trace = t THEN "source_context_unconfirmed" ELSE r.blocked
           worker == IF r.trace = t THEN "absent" ELSE r.worker
           finished == r.finished /\ ~(r.trace = t)
           q == [r EXCEPT !.collected_in = collected_in, !.blocked = blocked, !.worker = worker, !.finished = finished]
<1>1. collected_in \in Traces \cup {None}
  BY DEF Source, Blocks
<1>2. blocked \in Blocks
  BY DEF Source, Blocks
<1>3. worker \in {"absent", "waiting", "background"}
  BY DEF Source, Blocks
<1>4. finished \in BOOLEAN
  BY Zenon
<1>5. Fails(r, t) = q
  BY DEF Fails
<1>6. q \in Source
  <2> HIDE DEF collected_in, blocked, worker, finished
  <2> QED  BY <1>1, <1>2, <1>3, <1>4 DEF Source
<1>7. /\ q.collected_in = collected_in
      /\ q.blocked = blocked
      /\ q.worker = worker
      /\ q.finished = finished
      /\ q.trace = r.trace /\ q.closed = r.closed
      /\ q.settled = r.settled /\ q.payload = r.payload
      /\ q.ordinal = r.ordinal /\ q.ack = r.ack
      /\ q.exec = r.exec /\ q.backgrounded = r.backgrounded
      /\ q.collected = r.collected
  <2> HIDE DEF collected_in, blocked, worker, finished
  <2> QED  BY DEF Source
<1> HIDE DEF q
<1> QED  BY <1>5, <1>6, <1>7

(* What suppress makes of one source of the turn.                          *)
LEMMA WithdrawsEffect ==
    ASSUME NEW r \in Source
    PROVE  LET q == Withdraws(r)
           IN /\ q \in Source
              /\ q.settled = TRUE
              /\ q.payload = FALSE
              /\ q.ack = "suppressed"
              /\ q.blocked = "none"
              /\ q.worker = "absent"
              /\ q.finished = FALSE
              /\ q.trace = r.trace /\ q.closed = r.closed
              /\ q.ordinal = r.ordinal /\ q.exec = r.exec
              /\ q.backgrounded = r.backgrounded /\ q.collected = r.collected
              /\ q.collected_in = r.collected_in
<1> DEFINE settled == TRUE
           blocked == "none"
           ack == "suppressed"
           payload == FALSE
           worker == "absent"
           finished == FALSE
           q == [r EXCEPT !.settled = settled, !.blocked = blocked, !.ack = ack, !.payload = payload, !.worker = worker, !.finished = finished]
<1>1. settled \in BOOLEAN
  BY Zenon
<1>2. blocked \in Blocks
  BY DEF Source, Blocks
<1>3. ack \in {"none", "acknowledged", "suppressed"}
  BY DEF Source, Blocks
<1>4. payload \in BOOLEAN
  BY Zenon
<1>5. worker \in {"absent", "waiting", "background"}
  BY DEF Source, Blocks
<1>6. finished \in BOOLEAN
  BY Zenon
<1>7. Withdraws(r) = q
  BY DEF Withdraws
<1>8. q \in Source
  <2> HIDE DEF settled, blocked, ack, payload, worker, finished
  <2> QED  BY <1>1, <1>2, <1>3, <1>4, <1>5, <1>6 DEF Source
<1>9. /\ q.settled = settled
      /\ q.blocked = blocked
      /\ q.ack = ack
      /\ q.payload = payload
      /\ q.worker = worker
      /\ q.finished = finished
      /\ q.trace = r.trace /\ q.closed = r.closed
      /\ q.ordinal = r.ordinal /\ q.exec = r.exec
      /\ q.backgrounded = r.backgrounded /\ q.collected = r.collected
      /\ q.collected_in = r.collected_in
  <2> HIDE DEF settled, blocked, ack, payload, worker, finished
  <2> QED  BY DEF Source
<1> HIDE DEF q
<1> QED  BY <1>7, <1>8, <1>9

(* begin opens the turn after the closed ones.                             *)
LEMMA BeginKeeps ==
    ASSUME NEW j, NEW t \in Traces, NEW c, NEW h, NEW p, NEW rd, NEW tk, NEW rf,
           JournalInv(j, c, h, p, rd, tk, rf), j.active = None,
           t = 1 + Cardinality(j.closed_traces)
    PROVE  /\ JournalInv(begin(j, t), c, h, p, rd, tk, rf)
           /\ begin(j, t).active = t /\ Advances(j, begin(j, t))
<1> DEFINE k == begin(j, t)
<1>1. j \in Journal /\ Numbered(j) /\ t # None
  BY SourcesAreKeys DEF JournalInv, Traces, None
<1>2. /\ k \in Journal /\ k.src = j.src /\ k.active = t /\ k.reducing = TRUE
      /\ k.closed_traces = j.closed_traces /\ k.collected = j.collected
  BY <1>1 DEF begin, Journal
<1>3. PICK n \in Nat : /\ j.closed_traces = 1..n
                       /\ \A s \in Sources : j.src[s].trace \in (1..n) \cup {None, j.active}
  BY <1>1 DEF Numbered
<1>4. t = n + 1
  <2>1. Cardinality(1..n) = n
    BY FS_Interval
  <2> QED  BY <1>3, <2>1
<1> HIDE DEF k
<1>5. Numbered(k)
  <2>1. \A s \in Sources : j.src[s].closed => j.src[s].trace \in j.closed_traces
    BY <1>1 DEF Numbered
  <2>2. k.reducing = (k.active # None)
    BY <1>1, <1>2
  <2>3. \A s \in Sources : k.src[s].trace \in (1..n) \cup {None, k.active}
    BY <1>2, <1>3
  <2>4. k.closed_traces = 1..n /\ k.active \in {None, n + 1}
    BY <1>2, <1>3, <1>4
  <2> QED  BY <1>2, <2>1, <2>2, <2>3, <2>4 DEF Numbered
<1>6. ASSUME NEW s \in Sources PROVE Sound(k, s, c, h[s], p[s], rd[s], tk, rf)
  <2>1. Sound(j, s, c, h[s], p[s], rd[s], tk, rf)
    BY DEF JournalInv
  <2>2. j.src[s].trace # t
    BY <1>1, <1>3, <1>4 DEF None
  <2> QED  BY <1>2, <2>1, <2>2 DEF Sound, AgentKept
<1>7. Advances(j, k)
  BY <1>2 DEF Advances
<1> QED  BY <1>2, <1>5, <1>6, <1>7 DEF JournalInv, k

NewSource(j, s, q) ==
    /\ q \in {[Unregistered EXCEPT !.trace = j.active, !.worker = "waiting"],
              [Unregistered EXCEPT !.trace = j.active, !.exec = "prepared"]}
    /\ q.worker = "waiting" <=> s \in Agents

(* A source registered in the open turn: it is new and nothing is known of *)
(* it.                                                                     *)
LEMMA RegisterKeeps ==
    ASSUME NEW j, NEW s \in Sources, NEW c, NEW h, NEW p, NEW rd, NEW tk, NEW rf,
           JournalInv(j, c, h, p, rd, tk, rf), j.active # None, j.src[s].trace = None,
           NEW q, NewSource(j, s, q), NEW k, k = [j EXCEPT !.src[s] = q]
    PROVE  /\ JournalInv(k, c, h, p, rd, tk, rf)
           /\ SameTurns(j, k) /\ Advances(j, k)
<1>1. j \in Journal /\ Numbered(j) /\ Sound(j, s, c, h[s], p[s], rd[s], tk, rf)
  BY DEF JournalInv
<1>2. /\ q \in Source /\ q.trace = j.active /\ ~q.closed /\ ~q.settled /\ ~q.payload
      /\ q.ack = "none" /\ q.blocked = "none" /\ ~q.finished
      /\ q.exec \in {"none", "prepared"} /\ ~q.backgrounded /\ ~q.collected
      /\ q.collected_in = None /\ q.worker \in {"waiting", "absent"}
  <2>1. j.active \in Traces \cup {None}
    BY <1>1 DEF Journal
  <2> DEFINE a == [Unregistered EXCEPT !.trace = j.active, !.worker = "waiting"]
             b == [Unregistered EXCEPT !.trace = j.active, !.exec = "prepared"]
  <2>2. Unregistered \in Source
    BY DEF Unregistered, Source, Blocks, None
  <2>3. a \in Source /\ b \in Source
    BY <2>1, <2>2 DEF Source
  <2>4. CASE q = a
    BY <2>3, <2>4 DEF Unregistered
  <2>5. CASE q = b
    BY <2>3, <2>5 DEF Unregistered
  <2> QED  BY <2>4, <2>5 DEF NewSource
<1>3. Edits(j, k, s, q) /\ k.collected = j.collected
  BY <1>1, <1>2, EditSource
<1>4. SameTurns(j, k) /\ k \in Journal /\ k.src[s] = q
      /\ \A t \in Sources \ {s} : k.src[t] = j.src[t]
  BY <1>3 DEF Edits
<1>5. Numbered(k)
  <2>1. PICK n \in Nat : /\ j.closed_traces = 1..n /\ j.active \in {None, n + 1}
                         /\ \A t \in Sources : j.src[t].trace \in (1..n) \cup {None, j.active}
    BY <1>1 DEF Numbered
  <2>2. \A t \in Sources : k.src[t].trace \in (1..n) \cup {None, k.active}
    BY <1>2, <1>4, <2>1 DEF SameTurns
  <2>3. \A t \in Sources : k.src[t].closed => k.src[t].trace \in k.closed_traces
    BY <1>1, <1>2, <1>4 DEF SameTurns, Numbered
  <2> QED  BY <1>1, <1>4, <2>1, <2>2, <2>3 DEF Numbered, SameTurns
<1>6. ASSUME NEW t \in Sources PROVE Sound(k, t, c, h[t], p[t], rd[t], tk, rf)
  <2>1. CASE t = s
    <3>1. Evidence(q, c, h[s], p[s]) /\ Answered(q, s, tk, rf)
      BY <1>2 DEF Evidence, Answered
    <3>2. s \in Agents => AgentKept(k, s, h[s], rd[s])
      BY <1>1, <1>2, <1>3, <1>4 DEF AgentKept, Sound, SameTurns, NewSource
    <3>3. s \in Terminals => TerminalKept(q, c, p[s], rd[s])
      BY <1>2 DEF TerminalKept
    <3> QED  BY <1>4, <2>1, <3>1, <3>2, <3>3 DEF Sound
  <2>2. CASE t # s
    <3>1. Sound(j, t, c, h[t], p[t], rd[t], tk, rf) /\ k.src[t] = j.src[t]
      BY <1>4, <2>2 DEF JournalInv
    <3> QED  BY <1>3, <1>4, <3>1 DEF Sound, AgentKept, SameTurns
  <2> QED  BY <2>1, <2>2
<1>7. Advances(j, k)
  BY <1>2, <1>4 DEF Advances, Pends
<1> QED  BY <1>4, <1>5, <1>6, <1>7 DEF JournalInv

(* The turn that runs ends: it is the next one of those that ended.        *)
LEMMA NumberedEnd ==
    ASSUME NEW j \in Journal, NEW k \in Journal, Numbered(j), j.active # None,
           k.active = None, ~k.reducing, k.closed_traces = j.closed_traces \cup {j.active},
           \A s \in Sources : k.src[s].trace = j.src[s].trace,
           \A s \in Sources :
             k.src[s].closed => j.src[s].closed \/ j.src[s].trace = j.active
    PROVE  Numbered(k)
<1>1. PICK n \in Nat : /\ j.closed_traces = 1..n /\ j.active \in {None, n + 1}
                       /\ \A s \in Sources : j.src[s].trace \in (1..n) \cup {None, j.active}
  BY DEF Numbered
<1>2. j.active = n + 1 /\ n + 1 \in Nat
  BY <1>1
<1>3. k.closed_traces = 1..(n + 1)
  BY <1>1, <1>2
<1>4. \A s \in Sources : k.src[s].trace \in (1..(n + 1)) \cup {None, k.active}
  BY <1>1, <1>2
<1>5. \A s \in Sources : k.src[s].closed => k.src[s].trace \in k.closed_traces
  BY DEF Numbered
<1>6. \E m \in Nat :
         /\ k.closed_traces = 1..m /\ k.active \in {None, m + 1}
         /\ \A s \in Sources : k.src[s].trace \in (1..m) \cup {None, k.active}
  <2> WITNESS n + 1 \in Nat
  <2> QED  BY <1>3, <1>4
<1>7. k.reducing = (k.active # None)
  BY DEF Journal
<1> QED  BY <1>5, <1>6, <1>7 DEF Numbered

(* commit, for a turn that the session did commit.                         *)
LEMMA CommitKeeps ==
    ASSUME NEW j, NEW t, NEW c, NEW h, NEW p, NEW rd, NEW tk, NEW rf,
           JournalInv(j, c, h, p, rd, tk, rf), j.active = t, t # None, t \in c
    PROVE  /\ JournalInv(commit(j, t), c, h, p, rd, tk, rf)
           /\ Advances(j, commit(j, t))
<1> DEFINE src == [s \in Sources |-> Closes(j.src[s], t)]
           e == [j EXCEPT !.active = None, !.context = TRUE, !.reducing = FALSE,
                          !.closed_traces = @ \cup {t}, !.src = src]
<1>1. commit(j, t) = publish(e)
  BY DEF commit, Closes
<1>2. j \in Journal /\ Numbered(j) /\ t \in Traces
  BY DEF JournalInv, Journal
<1>3. src \in [Sources -> Source]
  BY <1>2, SourceOf, ClosesEffect
<1>4. \A s \in Sources : src[s] = Closes(j.src[s], t)
  OBVIOUS
<1> HIDE DEF src
<1>5. /\ e \in Journal /\ e.active = None /\ e.reducing = FALSE
      /\ e.closed_traces = j.closed_traces \cup {t} /\ e.collected = j.collected
      /\ e.deleted = j.deleted /\ e.src = src
  BY <1>2, <1>3 DEF Journal
<1> HIDE DEF e
<1>6. ASSUME NEW s \in Sources
      PROVE  /\ Sound(e, s, c, h[s], p[s], rd[s], tk, rf)
             /\ Keeps(j.src[s], e.src[s])
             /\ e.src[s].closed => j.src[s].closed \/ j.src[s].trace = t
  <2> DEFINE r == j.src[s]
             q == e.src[s]
  <2>1. r \in Source /\ q = Closes(r, t) /\ Sound(j, s, c, h[s], p[s], rd[s], tk, rf)
    BY <1>2, <1>4, <1>5, SourceOf DEF JournalInv
  <2> HIDE DEF r, q
  <2>2. /\ q.closed = (r.closed \/ r.trace = t)
        /\ q.collected = (r.collected \/ r.collected_in = t)
        /\ q.collected_in = (IF r.collected_in = t THEN None ELSE r.collected_in)
        /\ q.trace = r.trace /\ q.settled = r.settled /\ q.payload = r.payload
        /\ q.ordinal = r.ordinal /\ q.ack = r.ack /\ q.blocked = r.blocked
        /\ q.worker = r.worker /\ q.finished = r.finished /\ q.exec = r.exec
        /\ q.backgrounded = r.backgrounded
    BY <2>1, ClosesEffect
  <2>3. Evidence(q, c, h[s], p[s])
    BY <2>1, <2>2 DEF Sound, Evidence, r
  <2>4. Answered(q, s, tk, rf)
    BY <2>1, <2>2 DEF Sound, Answered, r
  <2>5. s \in Agents => AgentKept(e, s, h[s], rd[s])
    BY <1>5, <2>1, <2>2 DEF Sound, AgentKept, r, q
  <2>6. s \in Terminals => TerminalKept(q, c, p[s], rd[s])
    BY <2>1, <2>2 DEF Sound, TerminalKept, r
  <2>7. Keeps(r, q)
    BY <2>2 DEF Keeps, Pends
  <2> QED  BY <2>2, <2>3, <2>4, <2>5, <2>6, <2>7 DEF Sound, r, q
<1>7. Numbered(e)
  <2>1. \A s \in Sources : e.src[s].trace = j.src[s].trace
    BY <1>6 DEF Keeps
  <2>2. \A s \in Sources : e.src[s].closed => j.src[s].closed \/ j.src[s].trace = j.active
    BY <1>6
  <2> QED  BY <1>2, <1>5, <2>1, <2>2, NumberedEnd
<1>8. JournalInv(e, c, h, p, rd, tk, rf)
  BY <1>5, <1>6, <1>7 DEF JournalInv
<1>9. Calm(j, e)
  BY <1>6 DEF Calm
<1>10. Publication(e, publish(e))
  BY <1>5, PublishEffect
<1>11. Advances(j, publish(e))
  BY <1>5, <1>9, <1>10, PublishAfterCalm
<1>12. JournalInv(publish(e), c, h, p, rd, tk, rf)
  BY <1>8, <1>10, PublicationKeeps
<1> QED  BY <1>1, <1>11, <1>12

(* The sources of the open turn are not closed yet.                        *)
LEMMA OpenTurnIsNotClosed ==
    ASSUME NEW j, Numbered(j), j.active # None, NEW s \in Sources,
           j.src[s].trace = j.active
    PROVE  ~j.src[s].closed
BY DEF Numbered

(* fail_turn closes the turn without its evidence, and publishes nothing.  *)
LEMMA FailKeeps ==
    ASSUME NEW j, NEW t, NEW c, NEW h, NEW p, NEW rd, NEW tk, NEW rf,
           JournalInv(j, c, h, p, rd, tk, rf), j.active = t, t # None
    PROVE  /\ JournalInv(fail_turn(j, t), c, h, p, rd, tk, rf)
           /\ fail_turn(j, t).active = None /\ fail_turn(j, t).deleted = j.deleted
           /\ Calm(j, fail_turn(j, t))
<1> DEFINE src == [s \in Sources |-> Fails(j.src[s], t)]
           e == [j EXCEPT !.active = None, !.context = FALSE, !.reducing = FALSE,
                          !.closed_traces = @ \cup {t}, !.src = src]
<1>1. fail_turn(j, t) = e
  BY DEF fail_turn, Fails
<1>2. j \in Journal /\ Numbered(j) /\ t \in Traces
  BY DEF JournalInv, Journal
<1>3. src \in [Sources -> Source]
  BY <1>2, SourceOf, FailsEffect
<1>4. \A s \in Sources : src[s] = Fails(j.src[s], t)
  OBVIOUS
<1> HIDE DEF src
<1>5. /\ e \in Journal /\ e.active = None /\ e.reducing = FALSE
      /\ e.closed_traces = j.closed_traces \cup {t} /\ e.collected = j.collected
      /\ e.deleted = j.deleted /\ e.src = src
  BY <1>2, <1>3 DEF Journal
<1> HIDE DEF e
<1>6. ASSUME NEW s \in Sources
      PROVE  /\ Sound(e, s, c, h[s], p[s], rd[s], tk, rf)
             /\ Keeps(j.src[s], e.src[s])
             /\ e.src[s].closed = j.src[s].closed
  <2> DEFINE r == j.src[s]
             q == e.src[s]
  <2>1. r \in Source /\ q = Fails(r, t) /\ Sound(j, s, c, h[s], p[s], rd[s], tk, rf)
    BY <1>2, <1>4, <1>5, SourceOf DEF JournalInv
  <2>0. r.trace = t => ~r.closed
    BY <1>2, OpenTurnIsNotClosed
  <2> HIDE DEF r, q
  <2>2. /\ q.closed = r.closed /\ q.collected = r.collected
        /\ q.collected_in = (IF r.collected_in = t THEN None ELSE r.collected_in)
        /\ q.blocked = (IF r.trace = t THEN "source_context_unconfirmed" ELSE r.blocked)
        /\ q.worker = (IF r.trace = t THEN "absent" ELSE r.worker)
        /\ q.finished = (r.finished /\ ~(r.trace = t))
        /\ q.trace = r.trace /\ q.settled = r.settled /\ q.payload = r.payload
        /\ q.ordinal = r.ordinal /\ q.ack = r.ack /\ q.exec = r.exec
        /\ q.backgrounded = r.backgrounded
    BY <2>1, FailsEffect
  <2>3. Evidence(q, c, h[s], p[s])
    BY <2>1, <2>2 DEF Sound, Evidence, r
  <2>4. Answered(q, s, tk, rf)
    BY <2>1, <2>2 DEF Sound, Answered, r
  <2>5. s \in Agents => AgentKept(e, s, h[s], rd[s])
    BY <1>5, <2>0, <2>1, <2>2 DEF Sound, AgentKept, r, q
  <2>6. s \in Terminals => TerminalKept(q, c, p[s], rd[s])
    BY <2>1, <2>2 DEF Sound, TerminalKept, r
  <2>7. Keeps(r, q)
    BY <2>2 DEF Keeps, Pends
  <2> QED  BY <2>2, <2>3, <2>4, <2>5, <2>6, <2>7 DEF Sound, r, q
<1>7. Numbered(e)
  <2>1. \A s \in Sources : e.src[s].trace = j.src[s].trace
    BY <1>6 DEF Keeps
  <2>2. \A s \in Sources : e.src[s].closed => j.src[s].closed \/ j.src[s].trace = j.active
    BY <1>6
  <2> QED  BY <1>2, <1>5, <2>1, <2>2, NumberedEnd
<1>8. JournalInv(e, c, h, p, rd, tk, rf)
  BY <1>5, <1>6, <1>7 DEF JournalInv
<1>9. Calm(j, e)
  BY <1>6 DEF Calm
<1> QED  BY <1>1, <1>5, <1>8, <1>9

(* A journal with the sources of k in place of those of j.                 *)
LEMMA MapKeeps ==
    ASSUME NEW j, NEW src \in [Sources -> Source],
           NEW c, NEW h, NEW p, NEW rd, NEW tk, NEW rf,
           JournalInv(j, c, h, p, rd, tk, rf),
           NEW k, k = [j EXCEPT !.src = src],
           \A s \in Sources : src[s].closed = j.src[s].closed,
           \A s \in Sources : Keeps(j.src[s], src[s]),
           \A s \in Sources : Sound(k, s, c, h[s], p[s], rd[s], tk, rf)
    PROVE  JournalInv(k, c, h, p, rd, tk, rf) /\ Alike(j, k)
<1>1. /\ k \in Journal /\ SameTurns(j, k) /\ k.collected = j.collected
      /\ k.src = src
  BY DEF JournalInv, Journal, SameTurns
<1>2. Numbered(k)
  <2>1. Numbered(j)
    BY DEF JournalInv
  <2>2. \A s \in Sources : k.src[s].trace = j.src[s].trace /\ k.src[s].closed = j.src[s].closed
    BY <1>1 DEF Keeps
  <2> QED  BY <1>1, <2>1, <2>2, NumberedAlike
<1>3. Calm(j, k)
  BY <1>1 DEF Calm
<1> QED  BY <1>1, <1>2, <1>3 DEF JournalInv, Alike

(* suppress withdraws what the turn started.                               *)
LEMMA SuppressKeeps ==
    ASSUME NEW j, NEW t, NEW c, NEW h, NEW p, NEW rd, NEW tk, NEW rf,
           JournalInv(j, c, h, p, rd, tk, rf)
    PROVE  JournalInv(suppress(j, t), c, h, p, rd, tk, rf) /\ Alike(j, suppress(j, t))
<1> DEFINE src == [s \in Sources |-> IF j.src[s].trace # t THEN j.src[s]
                                                           ELSE Withdraws(j.src[s])]
           k == [j EXCEPT !.src = src]
<1>1. suppress(j, t) = k
  BY DEF suppress, Withdraws
<1>2. j \in Journal
  BY DEF JournalInv
<1>3. src \in [Sources -> Source]
  BY <1>2, SourceOf, WithdrawsEffect
<1>4. \A s \in Sources : src[s] = IF j.src[s].trace # t THEN j.src[s]
                                                        ELSE Withdraws(j.src[s])
  OBVIOUS
<1> HIDE DEF src
<1>5. k.src = src /\ k.active = j.active /\ k.collected = j.collected
  BY <1>2 DEF Journal
<1> HIDE DEF k
<1>6. ASSUME NEW s \in Sources
      PROVE  /\ src[s].closed = j.src[s].closed
             /\ Keeps(j.src[s], src[s])
             /\ Sound(k, s, c, h[s], p[s], rd[s], tk, rf)
  <2>1. Sound(j, s, c, h[s], p[s], rd[s], tk, rf) /\ j.src[s] \in Source
    BY <1>2, SourceOf DEF JournalInv
  <2>2. CASE j.src[s].trace # t
    BY <1>4, <1>5, <2>1, <2>2 DEF Sound, AgentKept, Keeps
  <2>3. CASE j.src[s].trace = t
    <3> DEFINE r == j.src[s]
               q == src[s]
    <3>1. q = Withdraws(r) /\ r \in Source
      BY <1>4, <2>1, <2>3
    <3> HIDE DEF r, q
    <3>2. /\ q.settled = TRUE /\ q.blocked = "none" /\ q.ack = "suppressed"
          /\ q.payload = FALSE /\ q.worker = "absent" /\ q.finished = FALSE
          /\ q.trace = r.trace /\ q.closed = r.closed /\ q.ordinal = r.ordinal
          /\ q.exec = r.exec /\ q.backgrounded = r.backgrounded
          /\ q.collected = r.collected /\ q.collected_in = r.collected_in
      BY <3>1, WithdrawsEffect
    <3>3. Evidence(q, c, h[s], p[s])
      BY <2>1, <3>2 DEF Sound, Evidence, r
    <3>4. Answered(q, s, tk, rf)
      BY <3>2 DEF Answered
    <3>5. s \in Agents => AgentKept(k, s, h[s], rd[s])
      BY <1>5, <2>1, <3>2 DEF Sound, AgentKept, r, q
    <3>6. s \in Terminals => TerminalKept(q, c, p[s], rd[s])
      BY <2>1, <3>2 DEF Sound, TerminalKept, r
    <3>7. Keeps(r, q)
      BY <3>2 DEF Keeps, Pends
    <3> QED  BY <1>5, <3>2, <3>3, <3>4, <3>5, <3>6, <3>7 DEF Sound, r, q
  <2> QED  BY <2>2, <2>3
<1>7. k = [j EXCEPT !.src = src]
  BY DEF k
<1>8. JournalInv(k, c, h, p, rd, tk, rf) /\ Alike(j, k)
  BY <1>3, <1>6, <1>7, MapKeeps
<1> QED  BY <1>1, <1>8

\* A source is marked: the only changes are a block, and that an execution
\* whose end nobody knows is unconfirmed.
Marks(r, q) ==
    /\ q \in Source
    /\ q.trace = r.trace /\ q.closed = r.closed /\ q.settled = r.settled
    /\ q.payload = r.payload /\ q.ordinal = r.ordinal /\ q.ack = r.ack
    /\ q.worker = r.worker /\ q.finished = r.finished
    /\ q.backgrounded = r.backgrounded /\ q.collected = r.collected
    /\ q.collected_in = r.collected_in
    /\ q.exec = r.exec \/ (r.exec # "not_started" /\ q.exec = "execution_unconfirmed")
    /\ q.blocked = r.blocked \/ q.blocked \notin {"none", "rejected"}

(* A mark on one source takes no evidence away.                            *)
LEMMA MarkKeeps ==
    ASSUME NEW j, NEW k, NEW s, k.active = j.active, k.collected = j.collected,
           Marks(j.src[s], k.src[s]),
           NEW c, NEW h, NEW p, NEW rd, NEW tk, NEW rf,
           Sound(j, s, c, h, p, rd, tk, rf)
    PROVE  /\ Sound(k, s, c, h, p, rd, tk, rf)
           /\ Keeps(j.src[s], k.src[s])
<1>1. Evidence(k.src[s], c, h, p)
  BY DEF Marks, Sound, Evidence
<1>2. Answered(k.src[s], s, tk, rf)
  BY DEF Marks, Sound, Answered
<1>3. s \in Agents => AgentKept(k, s, h, rd)
  BY DEF Marks, Sound, AgentKept
<1>4. s \in Terminals => TerminalKept(k.src[s], c, p, rd)
  BY DEF Marks, Sound, TerminalKept
<1>5. Keeps(j.src[s], k.src[s])
  BY DEF Marks, Keeps, Pends
<1> QED  BY <1>1, <1>2, <1>3, <1>4, <1>5 DEF Sound

(* Marks on any of the sources keep what holds of the journal.             *)
LEMMA MarksAll ==
    ASSUME NEW j, NEW src,
           NEW c, NEW h, NEW p, NEW rd, NEW tk, NEW rf,
           JournalInv(j, c, h, p, rd, tk, rf),
           src = [s \in Sources |-> src[s]],
           \A s \in Sources : Marks(j.src[s], src[s]),
           NEW k, k = [j EXCEPT !.src = src]
    PROVE  JournalInv(k, c, h, p, rd, tk, rf) /\ Alike(j, k)
<1>1. j \in Journal
  BY DEF JournalInv
<1>2. \A s \in Sources : src[s] \in Source
  BY DEF Marks
<1>3. src \in [Sources -> Source]
  BY <1>2
<1>4. k.src = src /\ k.active = j.active /\ k.collected = j.collected
  BY <1>1 DEF Journal
<1>5. \A s \in Sources : /\ Sound(k, s, c, h[s], p[s], rd[s], tk, rf)
                         /\ Keeps(j.src[s], src[s])
  BY <1>4, MarkKeeps DEF JournalInv
<1>6. \A s \in Sources : src[s].closed = j.src[s].closed
  BY DEF Marks
<1> QED  BY <1>3, <1>5, <1>6, MapKeeps

(* An untouched source counts as marked.                                   *)
LEMMA MarkedSame ==
    ASSUME NEW r \in Source
    PROVE  Marks(r, r)
BY DEF Marks

(* A block is a mark.                                                      *)
LEMMA MarkedBlocked ==
    ASSUME NEW r \in Source, NEW b \in Blocks \ {"none", "rejected"}
    PROVE  Marks(r, [r EXCEPT !.blocked = b])
<1> DEFINE q == [r EXCEPT !.blocked = b]
<1>1. q \in Source
  BY DEF Source
<1> QED  BY <1>1 DEF Marks, Source

(* So is the unconfirmed end of a shell.                                   *)
LEMMA MarkedUnconfirmed ==
    ASSUME NEW r \in Source
    PROVE  Marks(r, Unconfirmed(r))
<1>1. CASE r.exec \in {"none", "terminal", "not_started"}
  BY <1>1, MarkedSame DEF Unconfirmed
<1>2. CASE r.exec \notin {"none", "terminal", "not_started"}
  <2> DEFINE exec == "execution_unconfirmed"
             blocked == IF ~r.settled /\ r.blocked = "none"
                        THEN "execution_unconfirmed" ELSE r.blocked
             q == [r EXCEPT !.exec = exec, !.blocked = blocked]
  <2>1. Unconfirmed(r) = q
    BY <1>2 DEF Unconfirmed
  <2>2. /\ blocked \in Blocks
        /\ blocked = r.blocked \/ blocked \notin {"none", "rejected"}
    BY DEF Source, Blocks
  <2>3. q \in Source
    <3> HIDE DEF blocked
    <3> QED  BY <2>2 DEF Source
  <2>4. Marks(r, q)
    <3> HIDE DEF blocked
    <3> QED  BY <1>2, <2>2, <2>3 DEF Marks, Source
  <2> QED  BY <2>1, <2>4
<1> QED  BY <1>1, <1>2

(* open, the repair of a journal read from disk.                           *)
LEMMA OpenKeeps ==
    ASSUME NEW j, NEW c, NEW h, NEW p, NEW rd, NEW tk, NEW rf,
           JournalInv(j, c, h, p, rd, tk, rf)
    PROVE  JournalInv(open(j), c, h, p, rd, tk, rf) /\ Advances(j, open(j))
<1> DEFINE e == IF j.active = None THEN j ELSE fail_turn(j, j.active)
           src == [s \in Sources |-> Unconfirmed(e.src[s])]
           k == [e EXCEPT !.src = src]
<1>1. open(j) = k
  BY DEF open
<1>2. JournalInv(e, c, h, p, rd, tk, rf) /\ Calm(j, e) /\ e \in Journal
  <2>1. JournalInv(e, c, h, p, rd, tk, rf) /\ Calm(j, e)
    BY FailKeeps, CalmAlone
  <2> QED  BY <2>1 DEF JournalInv
<1> HIDE DEF e
<1>3. \A s \in Sources : Marks(e.src[s], src[s])
  BY <1>2, SourceOf, MarkedUnconfirmed
<1>4. src = [s \in Sources |-> src[s]]
  OBVIOUS
<1> HIDE DEF src
<1>5. JournalInv(k, c, h, p, rd, tk, rf) /\ Alike(e, k)
  BY <1>2, <1>3, <1>4, MarksAll
<1>6. Advances(j, k)
  BY <1>2, <1>5, CalmIsTransitive, CalmAdvances DEF Alike
<1> QED  BY <1>1, <1>5, <1>6

(* A new journal and a purged one hold nothing that needs evidence.        *)
LEMMA NewJournalIsSound ==
    ASSUME NEW c, NEW h, NEW p, NEW rd, NEW tk, NEW rf,
           NEW k \in {NewJournal, [NewJournal EXCEPT !.deleted = TRUE]}
    PROVE  JournalInv(k, c, h, p, rd, tk, rf)
<1>1. /\ Unregistered \in Source /\ Unregistered.trace = None
      /\ ~Unregistered.closed /\ ~Unregistered.settled /\ ~Unregistered.payload
      /\ Unregistered.ack = "none" /\ Unregistered.blocked = "none"
      /\ Unregistered.worker = "absent" /\ ~Unregistered.finished
      /\ Unregistered.exec = "none" /\ ~Unregistered.backgrounded
      /\ ~Unregistered.collected /\ Unregistered.collected_in = None
  BY DEF Unregistered, Source, Blocks, None
<1>2. /\ k \in Journal /\ k.active = None /\ k.closed_traces = {} /\ k.reducing = FALSE
      /\ k.collected = {} /\ k.src = [s \in Sources |-> Unregistered]
  <2>1. CASE k = NewJournal
    BY <1>1, <2>1 DEF NewJournal, Journal
  <2>2. CASE k = [NewJournal EXCEPT !.deleted = TRUE]
    BY <1>1, <2>2 DEF NewJournal, Journal
  <2> QED  BY <2>1, <2>2
<1>3. \A s \in Sources : k.src[s] = Unregistered
  BY <1>2
<1>4. Numbered(k)
  <2>1. /\ k.closed_traces = 1..0 /\ k.active \in {None, 0 + 1}
        /\ \A s \in Sources : k.src[s].trace \in (1..0) \cup {None, k.active}
    BY <1>1, <1>2, <1>3
  <2> QED  BY <1>1, <1>2, <1>3, <2>1 DEF Numbered
<1>5. ASSUME NEW s \in Sources PROVE Sound(k, s, c, h[s], p[s], rd[s], tk, rf)
  <2>1. Evidence(k.src[s], c, h[s], p[s]) /\ Answered(k.src[s], s, tk, rf)
    BY <1>1, <1>3 DEF Evidence, Answered
  <2>2. AgentKept(k, s, h[s], rd[s])
    BY <1>1, <1>2, <1>3 DEF AgentKept
  <2>3. TerminalKept(k.src[s], c, p[s], rd[s])
    BY <1>1, <1>3 DEF TerminalKept
  <2> QED  BY <2>1, <2>2, <2>3 DEF Sound
<1> QED  BY <1>2, <1>4, <1>5 DEF JournalInv

(* purge leaves an empty journal.                                          *)
LEMMA PurgeKeeps ==
    ASSUME NEW j, NEW c, NEW h, NEW p, NEW rd, NEW tk, NEW rf
    PROVE  /\ JournalInv(purge(j), c, h, p, rd, tk, rf)
           /\ purge(j).deleted /\ Advances(j, purge(j))
<1>1. JournalInv(purge(j), c, h, p, rd, tk, rf)
  BY NewJournalIsSound DEF purge
<1>2. purge(j).deleted /\ \A s \in Sources : ~Pends(purge(j).src[s])
  BY DEF purge, NewJournal, Unregistered, Pends
<1> QED  BY <1>1, <1>2 DEF Advances

Forgets(r) == [r EXCEPT !.worker = "absent", !.finished = FALSE]

(* What a replayed read makes of one source: its worker is forgotten.      *)
LEMMA ForgetsEffect ==
    ASSUME NEW r \in Source
    PROVE  LET q == Forgets(r)
           IN /\ q \in Source
              /\ q.worker = "absent"
              /\ q.finished = FALSE
              /\ q.trace = r.trace /\ q.closed = r.closed
              /\ q.settled = r.settled /\ q.payload = r.payload
              /\ q.ordinal = r.ordinal /\ q.ack = r.ack
              /\ q.blocked = r.blocked /\ q.exec = r.exec
              /\ q.backgrounded = r.backgrounded /\ q.collected = r.collected
              /\ q.collected_in = r.collected_in
<1> DEFINE worker == "absent"
           finished == FALSE
           q == [r EXCEPT !.worker = worker, !.finished = finished]
<1>1. worker \in {"absent", "waiting", "background"}
  BY DEF Source, Blocks
<1>2. finished \in BOOLEAN
  BY Zenon
<1>3. Forgets(r) = q
  BY DEF Forgets
<1>4. q \in Source
  <2> HIDE DEF worker, finished
  <2> QED  BY <1>1, <1>2 DEF Source
<1>5. /\ q.worker = worker
      /\ q.finished = finished
      /\ q.trace = r.trace /\ q.closed = r.closed
      /\ q.settled = r.settled /\ q.payload = r.payload
      /\ q.ordinal = r.ordinal /\ q.ack = r.ack
      /\ q.blocked = r.blocked /\ q.exec = r.exec
      /\ q.backgrounded = r.backgrounded /\ q.collected = r.collected
      /\ q.collected_in = r.collected_in
  <2> HIDE DEF worker, finished
  <2> QED  BY DEF Source
<1> HIDE DEF q
<1> QED  BY <1>3, <1>4, <1>5

(* ForgetWorker does that to its source.                                   *)
LEMMA ForgottenSource ==
    ASSUME NEW j \in Journal, NEW s \in Sources
    PROVE  ForgetWorker(j, s).src[s] = Forgets(j.src[s])
BY DEF ForgetWorker, Forgets, Journal

\* The reads a replay finds: the workers of those sources are forgotten.
ReadBack(j, replayed) ==
    [j EXCEPT !.src = [s \in Sources |-> IF s \in replayed THEN Forgets(j.src[s])
                                                            ELSE j.src[s]]]

(* Replayed reads keep what holds of the journal.                          *)
LEMMA ReplayedKeeps ==
    ASSUME NEW j, NEW replayed, NEW c, NEW h, NEW p, NEW rd, NEW tk, NEW rf,
           JournalInv(j, c, h, p, rd, tk, rf), \A s \in replayed : rd[s] # {}
    PROVE  /\ JournalInv(ReadBack(j, replayed), c, h, p, rd, tk, rf)
           /\ Alike(j, ReadBack(j, replayed))
<1> DEFINE src == [s \in Sources |-> IF s \in replayed THEN Forgets(j.src[s])
                                                        ELSE j.src[s]]
           k == ReadBack(j, replayed)
<1>1. j \in Journal
  BY DEF JournalInv
<1>0. k = [j EXCEPT !.src = src]
  BY DEF ReadBack
<1>4. src \in [Sources -> Source]
  BY <1>1, SourceOf, ForgetsEffect
<1>7. /\ \A s \in Sources \cap replayed : src[s] = Forgets(j.src[s])
      /\ \A s \in Sources \ replayed : src[s] = j.src[s]
  OBVIOUS
<1> HIDE DEF src, k
<1>2. ASSUME NEW s \in replayed, s \in Sources
      PROVE  /\ src[s] \in Source /\ src[s] = ForgetWorker(j, s).src[s]
             /\ src[s].closed = j.src[s].closed
  <2> DEFINE r == j.src[s]
  <2>1. r \in Source /\ src[s] = Forgets(r)
    BY <1>1, <1>2, <1>7, SourceOf
  <2>2. Forgets(r) \in Source /\ Forgets(r).closed = r.closed
    <3> HIDE DEF r
    <3> QED  BY <2>1, ForgetsEffect
  <2>3. ForgetWorker(j, s).src[s] = Forgets(r)
    BY <1>1, <1>2, ForgottenSource
  <2> QED  BY <2>1, <2>2, <2>3
<1>3. \A s \in Sources \ replayed : src[s] = j.src[s] /\ src[s] \in Source
  BY <1>1, <1>7, SourceOf
<1>5. k.src = src /\ k.active = j.active /\ k.collected = j.collected
  BY <1>0, <1>1 DEF Journal
<1>6. ASSUME NEW s \in Sources
      PROVE  /\ src[s].closed = j.src[s].closed
             /\ Keeps(j.src[s], src[s])
             /\ Sound(k, s, c, h[s], p[s], rd[s], tk, rf)
  <2>1. CASE s \in replayed
    <3> DEFINE e == ForgetWorker(j, s)
    <3>1. JournalInv(e, c, h, p, rd, tk, rf) /\ Alike(j, e)
      BY <2>1, WorkerForgotten
    <3> HIDE DEF e
    <3>2. /\ Sound(e, s, c, h[s], p[s], rd[s], tk, rf) /\ Keeps(j.src[s], e.src[s])
          /\ e.active = j.active /\ e.collected = j.collected
      BY <3>1 DEF JournalInv, Alike, Calm, SameTurns
    <3>3. e.src[s] = src[s] /\ src[s].closed = j.src[s].closed
      BY <1>2, <2>1 DEF e
    <3> QED  BY <1>5, <3>2, <3>3 DEF Sound, AgentKept
  <2>2. CASE s \notin replayed
    <3>1. src[s] = j.src[s] /\ Marks(j.src[s], src[s])
      BY <1>3, <2>2, MarkedSame
    <3> QED  BY <1>5, <3>1, MarkKeeps DEF JournalInv
  <2> QED  BY <2>1, <2>2
<1>8. JournalInv(k, c, h, p, rd, tk, rf) /\ Alike(j, k)
  BY <1>0, <1>4, <1>6, MapKeeps
<1> QED  BY <1>8 DEF k

(* What a manifest says of a source that is still to be accounted for.     *)
LEMMA ManifestKeeps ==
    ASSUME NEW j, NEW s \in Sources, NEW m, NEW c, NEW h, NEW p, NEW rd, NEW tk, NEW rf,
           JournalInv(j, c, h, p, rd, tk, rf), ~j.src[s].payload,
           m = "terminal" => p[s] \in Ended,
           NEW k, k.active = j.active, k.collected = j.collected,
           k.src[s] = FromManifest(j, s, m)
    PROVE  /\ k.src[s] \in Source /\ k.src[s].closed = j.src[s].closed
           /\ Keeps(j.src[s], k.src[s])
           /\ Sound(k, s, c, h[s], p[s], rd[s], tk, rf)
<1>1. j \in Journal /\ j.src[s] \in Source /\ Sound(j, s, c, h[s], p[s], rd[s], tk, rf)
  BY SourceOf DEF JournalInv
<1>2. CASE m = "terminal"
  <2> DEFINE u == Unblocked(j, s)
             e == Finished(u, s)
  <2>1. JournalInv(u, c, h, p, rd, tk, rf) /\ Alike(j, u)
    BY SourceUnblocked
  <2>2. JournalInv(e, c, h, p, rd, tk, rf) /\ Alike(u, e)
    BY <1>2, <2>1, SourceFinished
  <2>3. k.src[s] = e.src[s]
    BY <1>2 DEF FromManifest
  <2>4. u.src[s].closed = j.src[s].closed /\ e.src[s].closed = u.src[s].closed
    <3>1. u \in Journal
      BY <2>1 DEF JournalInv
    <3>2. u.src[s].closed = j.src[s].closed
      BY <1>1 DEF Unblocked, Journal, Source
    <3> HIDE DEF u
    <3>3. e.src[s].closed = u.src[s].closed
      BY <3>1 DEF Finished, Journal, Source
    <3> QED  BY <3>2, <3>3
  <2> HIDE DEF e, u
  <2>5. e.active = j.active /\ e.collected = j.collected /\ Keeps(j.src[s], e.src[s])
    <3>1. Calm(j, e)
      BY <2>1, <2>2, CalmIsTransitive DEF Alike
    <3> QED  BY <2>1, <2>2, <3>1 DEF Alike, SameTurns, Calm
  <2>6. e.src[s] \in Source /\ Sound(e, s, c, h[s], p[s], rd[s], tk, rf)
    BY <2>2, SourceOf DEF JournalInv
  <2> QED  BY <2>3, <2>4, <2>5, <2>6 DEF Sound, AgentKept
<1>3. CASE m # "terminal"
  <2>1. \E b \in Blocks \ {"none", "rejected"} : k.src[s] = [j.src[s] EXCEPT !.blocked = b]
    BY <1>3 DEF FromManifest, Blocks
  <2>2. Marks(j.src[s], k.src[s])
    BY <1>1, <2>1, MarkedBlocked
  <2>3. k.src[s] \in Source /\ k.src[s].closed = j.src[s].closed
    BY <2>2 DEF Marks
  <2> QED  BY <1>1, <2>2, <2>3, MarkKeeps
<1> QED  BY <1>2, <1>3

(* reconcile, from reads that took place and manifests of children that    *)
(* did end.                                                                *)
LEMMA ReconcileKeeps ==
    ASSUME NEW j, NEW replayed, NEW manifest,
           NEW c, NEW h, NEW p, NEW rd, NEW tk, NEW rf,
           JournalInv(j, c, h, p, rd, tk, rf), \A s \in replayed : rd[s] # {},
           \A s \in Agents : manifest[s] = "terminal" => p[s] \in Ended
    PROVE  LET k == reconcile(j, replayed, manifest)
           IN /\ JournalInv(k, c, h, p, rd, tk, rf)
              /\ SameTurns(j, k) /\ Advances(j, k)
<1> DEFINE k == reconcile(j, replayed, manifest)
<1>1. j \in Journal
  BY DEF JournalInv
<1>2. CASE j.active # None \/ ~j.context
  <2> DEFINE src == [s \in Sources |->
                       IF s \in Open(j)
                       THEN [j.src[s] EXCEPT !.blocked = "source_context_unconfirmed"]
                       ELSE j.src[s]]
  <2>1. k = [j EXCEPT !.src = src]
    BY <1>2 DEF reconcile
  <2>2. \A s \in Sources : Marks(j.src[s], src[s])
    BY <1>1, SourceOf, MarkedBlocked, MarkedSame DEF Blocks
  <2>3. src = [s \in Sources |-> src[s]]
    OBVIOUS
  <2> HIDE DEF src, k
  <2>4. JournalInv(k, c, h, p, rd, tk, rf) /\ Alike(j, k)
    BY <2>1, <2>2, <2>3, MarksAll
  <2> QED  BY <2>4, CalmAdvances DEF Alike, k
<1>3. CASE ~(j.active # None \/ ~j.context)
  <2> DEFINE read == ReadBack(j, replayed)
             X == {s \in Agents \cap Open(read) : read.src[s].closed}
             upd == [s \in Sources |-> IF s \in X THEN FromManifest(read, s, manifest[s])
                                                  ELSE read.src[s]]
             e == [read EXCEPT !.src = upd]
  <2>1. k = publish(e)
    BY <1>3 DEF reconcile, ReadBack, Forgets
  <2>2. JournalInv(read, c, h, p, rd, tk, rf) /\ Alike(j, read)
    BY ReplayedKeeps
  <2> HIDE DEF read, k
  <2>3. read \in Journal
    BY <2>2 DEF JournalInv
  <2>4. \A s \in Sources : upd[s] = IF s \in X THEN FromManifest(read, s, manifest[s])
                                               ELSE read.src[s]
    OBVIOUS
  <2>5. \A s \in X : ~read.src[s].payload /\ s \in Agents
    BY DEF Open
  <2>6. upd = [s \in Sources |-> upd[s]]
    OBVIOUS
  <2> HIDE DEF upd, X
  <2>7. e.active = read.active /\ e.collected = read.collected /\ e.src = upd
    BY <2>3 DEF Journal
  <2>8. e = [read EXCEPT !.src = upd]
    OBVIOUS
  <2> HIDE DEF e
  <2>9. ASSUME NEW s \in Sources
        PROVE  /\ upd[s] \in Source /\ upd[s].closed = read.src[s].closed
               /\ Keeps(read.src[s], upd[s])
               /\ Sound(e, s, c, h[s], p[s], rd[s], tk, rf)
    <3>1. CASE s \in X
      BY <2>2, <2>4, <2>5, <2>7, <3>1, ManifestKeeps
    <3>2. CASE s \notin X
      <4>1. upd[s] = read.src[s] /\ upd[s] \in Source
        BY <2>3, <2>4, <3>2, SourceOf
      <4>2. Marks(read.src[s], e.src[s])
        BY <2>7, <4>1, MarkedSame
      <4> QED  BY <2>2, <2>7, <4>1, <4>2, MarkKeeps DEF JournalInv
    <3> QED  BY <3>1, <3>2
  <2>10. upd \in [Sources -> Source]
    BY <2>6, <2>9
  <2>11. JournalInv(e, c, h, p, rd, tk, rf) /\ Alike(read, e)
    BY <2>2, <2>8, <2>9, <2>10, MapKeeps
  <2>12. SameTurns(j, e) /\ Calm(j, e)
    BY <2>2, <2>11, CalmIsTransitive DEF Alike, SameTurns
  <2> QED  BY <2>1, <2>11, <2>12, AfterPublish DEF k
<1> QED  BY <1>2, <1>3

-----------------------------------------------------------------------------
(* The steps.                                                              *)

\* What happens around the journal only adds evidence.
Grows(c, h, p, rd, tk, rf, c2, h2, p2, rd2, tk2, rf2) ==
    /\ c \subseteq c2 /\ tk \subseteq tk2 /\ rf \subseteq rf2
    /\ \A s \in Sources :
         /\ h[s] \in {"none", h2[s]}
         /\ p[s] \in Ended => p2[s] \in Ended
         /\ p[s] = "gone" => p2[s] = "gone"
         /\ rd[s] # {} => rd2[s] # {}
         /\ s \in Terminals => rd[s] \subseteq rd2[s]

(* More evidence never hurts what holds of a journal.                      *)
LEMMA InvGrows ==
    ASSUME NEW j, NEW c, NEW h, NEW p, NEW rd, NEW tk, NEW rf,
           NEW c2, NEW h2, NEW p2, NEW rd2, NEW tk2, NEW rf2,
           JournalInv(j, c, h, p, rd, tk, rf),
           Grows(c, h, p, rd, tk, rf, c2, h2, p2, rd2, tk2, rf2)
    PROVE  JournalInv(j, c2, h2, p2, rd2, tk2, rf2)
<1>1. ASSUME NEW s \in Sources PROVE Sound(j, s, c2, h2[s], p2[s], rd2[s], tk2, rf2)
  <2>1. Sound(j, s, c, h[s], p[s], rd[s], tk, rf)
    BY DEF JournalInv
  <2> QED  BY <2>1, SoundGrows DEF Grows
<1> QED  BY <1>1 DEF JournalInv

\* The types of everything but the journal.
Typed ==
    /\ mode \in {"live", "cold"}
    /\ proc \in [Sources -> {"none", "starting", "alive", "ended", "reported", "gone"}]
    /\ turn \in Traces \cup {None}
    /\ terminal_retries \subseteq Agents
    /\ flight \in Sources \cup {None} /\ stale \subseteq Sources
    /\ connected \in BOOLEAN /\ lost \in BOOLEAN
    /\ ending \in BOOLEAN /\ failure \in BOOLEAN
    /\ committed \subseteq Traces /\ unrecorded \subseteq Agents
    /\ taken \subseteq Sources /\ refused \subseteq Sources
    /\ last \in Sources \cup {None}
    /\ handed \in [Sources -> {"none", "background", "other"}]
    /\ readIn \in [Sources -> SUBSET Traces]

GrowsNow ==
    Grows(committed, handed, proc, readIn, taken, refused,
          committed', handed', proc', readIn', taken', refused')

StepKeeps == JournalNow' /\ Advances(journal, journal') /\ Typed' /\ EngineInv'

(* The same of the journal and the evidence of the current state.          *)
LEMMA NowGrows ==
    ASSUME Inv, GrowsNow
    PROVE  JournalInv(journal, committed', handed', proc', readIn', taken', refused')
BY InvGrows DEF Inv, JournalNow, GrowsNow

(* Sources are never the absent value.                                     *)
LEMMA SourcesApart == None \notin Sources /\ Agents \subseteq Sources /\ Terminals \subseteq Sources
BY SourcesAreKeys DEF Sources, None

(* A child that is known belongs to a registered source, until the journal *)
(* is purged.                                                              *)
LEMMA ChildrenRegistered ==
    ASSUME EngineInv, Advances(journal, journal'), ~journal'.deleted, ~journal.deleted,
           NEW s \in Sources, proc[s] # "none"
    PROVE  journal'.src[s].trace # None
BY DEF EngineInv, Advances

(* The host process starts: open, and reconcile in a live engine.          *)
LEMMA ReopenStep ==
    ASSUME Inv, NEW m \in {"live", "cold"}, Reopen(m)
    PROVE  StepKeeps
<1> USE DEF Reopen, Inv
<1>1. Typed'
  <2>1. Typed
    BY DEF TypeOK, Typed
  <2>2. proc' \in [Sources -> {"none", "starting", "alive", "ended", "reported", "gone"}]
    BY <2>1 DEF Typed
  <2> QED  BY <2>1, <2>2 DEF Typed, history
<1>2. GrowsNow
  BY DEF GrowsNow, Grows, Ended, TypeOK, history
<1>3. JournalInv(journal, committed', handed', proc', readIn', taken', refused')
  BY <1>2, NowGrows
<1>4. journal' = open(journal) /\ ~journal.deleted
  BY DEF Change
<1>5. JournalNow' /\ Advances(journal, journal')
  BY <1>3, <1>4, OpenKeeps DEF JournalNow
<1>6. EngineInv'
  <2>1. turn' = None /\ ending' = FALSE /\ terminal_retries' = {}
    OBVIOUS
  <2>2. \A s \in Sources : proc'[s] # "starting" /\ (proc'[s] # "none" => proc[s] # "none")
    BY DEF TypeOK
  <2>3. \A s \in Sources :
          ~journal'.deleted /\ proc'[s] # "none" => journal'.src[s].trace # None
    BY <1>4, <1>5, <2>2, ChildrenRegistered
  <2>4. \A s \in unrecorded' : readIn'[s] # {}
    BY DEF EngineInv, history
  <2>5. ChildKinds(proc')
    BY DEF TypeOK, ChildKinds
  <2> QED  BY <2>1, <2>3, <2>4, <2>5 DEF EngineInv
<1> QED  BY <1>1, <1>5, <1>6 DEF StepKeeps

(* A turn begins.                                                          *)
LEMMA BeginStep ==
    ASSUME Inv, NEW t \in Traces, Begin(t)
    PROVE  StepKeeps
<1> USE DEF Begin, Inv
<1>1. Typed'
  BY DEF TypeOK, Typed, delivery, history
<1>2. JournalInv(journal, committed', handed', proc', readIn', taken', refused')
  BY DEF JournalNow, delivery, history
<1>3. journal' = begin(journal, t) /\ ~journal.deleted /\ journal.active = None
  BY DEF Change
<1>4. JournalNow' /\ journal'.active = t /\ Advances(journal, journal')
  BY <1>2, <1>3, BeginKeeps DEF JournalNow
<1>5. EngineInv'
  <2>1. turn' = t /\ proc' = proc /\ terminal_retries' = terminal_retries
    OBVIOUS
  <2>2. ~ending'
    BY DEF EngineInv
  <2>3. \A s \in Sources :
          ~journal'.deleted /\ proc'[s] # "none" => journal'.src[s].trace # None
    BY <1>3, <1>4, <2>1, ChildrenRegistered
  <2> QED  BY <1>4, <2>1, <2>2, <2>3 DEF EngineInv, history
<1> QED  BY <1>1, <1>4, <1>5 DEF StepKeeps

(* The turn that runs is the journal's, whatever else changes.             *)
LEMMA EngineKept ==
    ASSUME Inv, Advances(journal, journal'), turn' = turn, ending' => turn # None,
           \/ journal' = journal
           \/ ~journal.deleted /\ SameTurns(journal, journal')
           \/ journal'.deleted,
           ChildKinds(proc'),
           \A s \in Sources : ~journal'.deleted /\ proc'[s] # "none" =>
                                proc[s] # "none" \/ journal'.src[s].trace # None,
           \A s \in terminal_retries' : proc'[s] = "reported",
           \A s \in unrecorded' : readIn'[s] # {}
    PROVE  EngineInv'
<1>1. ~journal'.deleted /\ turn' # None => journal'.active = turn'
  BY DEF Inv, EngineInv, SameTurns
<1>2. ASSUME NEW s \in Sources, ~journal'.deleted, proc'[s] # "none"
      PROVE  journal'.src[s].trace # None
  <2>1. CASE journal' = journal
    BY <1>2, <2>1 DEF Inv, EngineInv
  <2>2. CASE ~journal.deleted
    BY <1>2, <2>2, ChildrenRegistered DEF Inv
  <2> QED  BY <1>2, <2>1, <2>2
<1> QED  BY <1>1, <1>2 DEF EngineInv

(* A source is registered before it is spawned.                            *)
LEMMA RegisterStep ==
    ASSUME Inv, NEW s \in Sources, Register(s)
    PROVE  StepKeeps
<1> USE DEF Register, Inv
<1>1. Typed'
  <2>1. proc' \in [Sources -> {"none", "starting", "alive", "ended", "reported", "gone"}]
    BY DEF TypeOK
  <2> QED  BY <2>1 DEF TypeOK, Typed, delivery, history
<1>2. ~journal.deleted /\ journal.src[s].trace = None /\ proc[s] = "none"
  BY DEF Change, Registered, EngineInv
<1>3. GrowsNow
  <2>1. \A t \in Sources \ {s} : proc'[t] = proc[t]
    BY DEF TypeOK
  <2>2. proc[s] \notin Ended /\ proc[s] # "gone"
    BY <1>2 DEF Ended
  <2> QED  BY <2>1, <2>2 DEF GrowsNow, Grows, history, delivery
<1>4. JournalInv(journal, committed', handed', proc', readIn', taken', refused')
  BY <1>3, NowGrows
<1> DEFINE q == IF s \in Agents
                THEN [Unregistered EXCEPT !.trace = journal.active, !.worker = "waiting"]
                ELSE [Unregistered EXCEPT !.trace = journal.active, !.exec = "prepared"]
<1>5. journal' = [journal EXCEPT !.src[s] = q]
  BY DEF Change, register, register_terminal
<1>6. NewSource(journal, s, q)
  <2>1. CASE s \in Agents
    BY <2>1 DEF NewSource, Unregistered
  <2>2. CASE s \notin Agents
    BY <2>2 DEF NewSource, Unregistered
  <2> QED  BY <2>1, <2>2
<1> HIDE DEF q
<1>7. JournalNow' /\ SameTurns(journal, journal') /\ Advances(journal, journal')
  BY <1>2, <1>4, <1>5, <1>6, RegisterKeeps DEF JournalNow
<1>8. journal'.src[s].trace # None
  <2>1. journal'.src[s] = q
    BY <1>5 DEF TypeOK, Journal
  <2>2. q.trace = journal.active
    BY <1>6 DEF NewSource, Unregistered
  <2> QED  BY <2>1, <2>2
<1>9. EngineInv'
  <2>1. \A t \in Sources \ {s} : proc'[t] = proc[t]
    BY DEF TypeOK
  <2>2. ChildKinds(proc')
    BY <2>1, SourceKind DEF TypeOK, EngineInv, ChildKinds
  <2>3. \A t \in terminal_retries' : proc'[t] = "reported"
    BY <1>2, <2>1, SourcesApart DEF EngineInv, TypeOK
  <2> QED  BY <1>2, <1>7, <1>8, <2>1, <2>2, <2>3, EngineKept DEF EngineInv, history
<1> QED  BY <1>1, <1>7, <1>9 DEF StepKeeps

(* A child starts, or fails to.                                            *)
LEMMA SpawnStep ==
    ASSUME Inv, NEW s \in Sources, NEW started \in BOOLEAN, Spawn(s, started)
    PROVE  StepKeeps
<1> USE DEF Spawn, Inv
<1>1. Typed'
  <2>1. proc' \in [Sources -> {"none", "starting", "alive", "ended", "reported", "gone"}]
    BY DEF TypeOK
  <2> QED  BY <2>1 DEF TypeOK, Typed, delivery, history
<1>2. s \in Terminals /\ proc[s] = "starting"
  BY DEF EngineInv, ChildKinds
<1>3. /\ \A t \in Sources \ {s} : proc'[t] = proc[t]
      /\ proc'[s] = IF started THEN "alive" ELSE "gone"
  BY DEF TypeOK
<1>4. JournalInv(journal, committed', handed', proc', readIn', taken', refused')
  <2>1. proc[s] \notin Ended /\ proc[s] # "gone"
    BY <1>2 DEF Ended
  <2>2. GrowsNow
    BY <1>3, <2>1 DEF GrowsNow, Grows, history, delivery
  <2> QED  BY <2>2, NowGrows
<1>5. /\ JournalNow' /\ Advances(journal, journal')
      /\ journal' = journal \/ (~journal.deleted /\ SameTurns(journal, journal'))
  <2>1. CASE UNCHANGED journal
    BY <1>4, <2>1, CalmAlone DEF JournalNow
  <2>2. CASE started /\ ~journal.deleted /\ journal' = terminal_started(journal, s)
    <3>1. JournalInv(journal', committed', handed', proc', readIn', taken', refused')
          /\ Alike(journal, journal')
      BY <1>2, <1>3, <1>4, <2>2, TerminalStarted
    <3> QED  BY <2>2, <3>1, CalmAdvances DEF Alike, JournalNow
  <2>3. CASE ~started /\ ~journal.deleted /\ journal' = terminal_not_started(journal, s)
    <3>1. JournalInv(journal', committed', handed', proc', readIn', taken', refused')
          /\ Alike(journal, journal')
      BY <1>2, <1>3, <1>4, <2>3, TerminalNotStarted
    <3> QED  BY <2>3, <3>1, CalmAdvances DEF Alike, JournalNow
  <2> QED  BY <2>1, <2>2, <2>3 DEF Change
<1>6. EngineInv'
  <2>1. \A t \in terminal_retries' : proc'[t] = "reported"
    BY <1>2, <1>3, SourcesApart DEF EngineInv, TypeOK
  <2>2. ChildKinds(proc')
    BY <1>2, <1>3 DEF EngineInv, ChildKinds
  <2>3. \A t \in Sources : proc'[t] # "none" => proc[t] # "none"
    BY <1>2, <1>3
  <2> QED  BY <1>5, <2>1, <2>2, <2>3, EngineKept DEF EngineInv, history
<1> QED  BY <1>1, <1>5, <1>6 DEF StepKeeps

(* A child ends; its event is still to come.                               *)
LEMMA ChildEndsStep ==
    ASSUME Inv, NEW s \in Sources, ChildEnds(s)
    PROVE  StepKeeps
<1> USE DEF ChildEnds, Inv
<1>1. Typed'
  <2>1. proc' \in [Sources -> {"none", "starting", "alive", "ended", "reported", "gone"}]
    BY DEF TypeOK
  <2> QED  BY <2>1 DEF TypeOK, Typed, delivery, history
<1>2. /\ \A t \in Sources \ {s} : proc'[t] = proc[t]
      /\ proc'[s] = "ended" /\ proc[s] = "alive"
  BY DEF TypeOK
<1>3. GrowsNow
  BY <1>2 DEF GrowsNow, Grows, Ended, history, delivery
<1>4. JournalNow' /\ Advances(journal, journal')
  BY <1>3, NowGrows, CalmAlone DEF JournalNow
<1>5. EngineInv'
  <2>1. \A t \in terminal_retries' : proc'[t] = "reported"
    BY <1>2, SourcesApart DEF EngineInv, TypeOK
  <2>2. ChildKinds(proc')
    BY <1>2 DEF EngineInv, ChildKinds
  <2>3. \A t \in Sources : proc'[t] # "none" => proc[t] # "none"
    BY <1>2
  <2> QED  BY <1>4, <2>1, <2>2, <2>3, EngineKept DEF EngineInv, history
<1> QED  BY <1>1, <1>4, <1>5 DEF StepKeeps

(* A sub-agent's lifecycle event arrives.                                  *)
LEMMA LifecycleStep ==
    ASSUME Inv, NEW s \in Sources, ObserveLifecycle(s)
    PROVE  StepKeeps
<1> USE DEF ObserveLifecycle, Inv
<1>1. s \in Agents
  BY DEF EngineInv, ChildKinds
<1>2. Typed'
  <2>1. proc' \in [Sources -> {"none", "starting", "alive", "ended", "reported", "gone"}]
    BY DEF TypeOK
  <2>2. terminal_retries' \subseteq Agents
    BY <1>1 DEF TypeOK
  <2> QED  BY <2>1, <2>2 DEF TypeOK, Typed, delivery, history
<1>3. /\ \A t \in Sources \ {s} : proc'[t] = proc[t]
      /\ proc'[s] = "reported" /\ proc[s] = "ended"
  BY DEF TypeOK
<1>4. GrowsNow
  BY <1>3 DEF GrowsNow, Grows, Ended, history, delivery
<1>5. JournalInv(journal, committed', handed', proc', readIn', taken', refused')
  BY <1>4, NowGrows
<1>6. /\ JournalNow' /\ Advances(journal, journal')
      /\ journal' = journal \/ (~journal.deleted /\ SameTurns(journal, journal'))
  <2>1. CASE UNCHANGED journal
    BY <1>5, <2>1, CalmAlone DEF JournalNow
  <2>2. CASE Change(lifecycle(journal, s))
    <3>1. proc'[s] \in Ended /\ journal' = lifecycle(journal, s) /\ ~journal.deleted
      BY <1>3, <2>2 DEF Ended, Change
    <3> QED  BY <1>5, <3>1, LifecycleKeeps DEF JournalNow
  <2> QED  BY <2>1, <2>2
<1>7. EngineInv'
  <2>1. \A t \in terminal_retries' : proc'[t] = "reported"
    BY <1>3, SourcesApart DEF EngineInv, TypeOK
  <2>2. ChildKinds(proc')
    BY <1>3 DEF EngineInv, ChildKinds
  <2>3. \A t \in Sources : proc'[t] # "none" => proc[t] # "none"
    BY <1>3
  <2> QED  BY <1>6, <2>1, <2>2, <2>3, EngineKept DEF EngineInv, history
<1> QED  BY <1>2, <1>6, <1>7 DEF StepKeeps

(* A shell's supervisor reports its end.                                   *)
LEMMA TerminalEndsStep ==
    ASSUME Inv, NEW s \in Sources, NEW confirmed \in BOOLEAN, TerminalEnds(s, confirmed)
    PROVE  StepKeeps
<1> USE DEF TerminalEnds, Inv
<1>1. Typed'
  <2>1. proc' \in [Sources -> {"none", "starting", "alive", "ended", "reported", "gone"}]
    BY DEF TypeOK
  <2> QED  BY <2>1 DEF TypeOK, Typed, delivery, history
<1>2. /\ \A t \in Sources \ {s} : proc'[t] = proc[t]
      /\ proc'[s] = IF confirmed THEN "reported" ELSE "gone"
      /\ proc[s] = "alive" /\ s \in Terminals
  BY DEF TypeOK
<1>3. ~journal.src[s].payload /\ journal.src[s].exec # "not_started"
  <2>1. Sound(journal, s, committed, handed[s], proc[s], readIn[s], taken, refused)
    BY DEF JournalNow, JournalInv
  <2> QED  BY <1>2, <2>1 DEF Sound, Evidence, TerminalKept, Ended
<1>4. GrowsNow
  BY <1>2 DEF GrowsNow, Grows, Ended, history, delivery
<1>5. JournalInv(journal, committed', handed', proc', readIn', taken', refused')
  BY <1>4, NowGrows
<1>6. /\ JournalNow' /\ Advances(journal, journal')
      /\ ~journal.deleted /\ SameTurns(journal, journal')
  <2>1. CASE confirmed
    <3>1. journal' = terminal_finished(journal, s) /\ ~journal.deleted /\ proc'[s] = "reported"
      BY <1>2, <2>1 DEF Change
    <3> QED  BY <1>2, <1>3, <1>5, <3>1, ExitKeeps DEF JournalNow
  <2>2. CASE ~confirmed
    <3>1. journal' = terminal_unconfirmed(journal, s) /\ ~journal.deleted
      BY <2>2 DEF Change
    <3>2. JournalNow' /\ Alike(journal, journal')
      BY <1>2, <1>3, <1>5, <3>1, TerminalUnconfirmed DEF JournalNow
    <3> QED  BY <3>1, <3>2, CalmAdvances DEF Alike
  <2> QED  BY <2>1, <2>2
<1>7. EngineInv'
  <2>1. \A t \in terminal_retries' : proc'[t] = "reported"
    BY <1>2, SourcesApart DEF EngineInv, TypeOK
  <2>2. ChildKinds(proc')
    BY <1>2 DEF EngineInv, ChildKinds
  <2>3. \A t \in Sources : proc'[t] # "none" => proc[t] # "none"
    BY <1>2
  <2> QED  BY <1>6, <2>1, <2>2, <2>3, EngineKept DEF EngineInv, history
<1> QED  BY <1>1, <1>6, <1>7 DEF StepKeeps

(* The tool's result arrives in the turn.                                  *)
LEMMA ToolResultStep ==
    ASSUME Inv, NEW s \in Sources, NEW result \in {"background", "other"},
           ObserveToolResult(s, result)
    PROVE  StepKeeps
<1> USE DEF ObserveToolResult, Inv
<1>1. Typed'
  <2>1. handed' \in [Sources -> {"none", "background", "other"}]
    BY DEF TypeOK
  <2> QED  BY <2>1 DEF TypeOK, Typed, delivery
<1>2. /\ \A t \in Sources \ {s} : handed'[t] = handed[t]
      /\ handed[s] = "none"
      /\ handed'[s] = result \/ (s \in Terminals /\ result = "other" /\ handed'[s] = "none")
  BY DEF TypeOK
<1>3. GrowsNow
  BY <1>2 DEF GrowsNow, Grows, delivery
<1>4. JournalInv(journal, committed', handed', proc', readIn', taken', refused')
  BY <1>3, NowGrows
<1>5. /\ JournalNow' /\ Advances(journal, journal')
      /\ journal' = journal \/ (~journal.deleted /\ SameTurns(journal, journal'))
  <2>1. CASE UNCHANGED journal
    BY <1>4, <2>1, CalmAlone DEF JournalNow
  <2>2. CASE Change(tool_result(journal, s, result))
    <3>1. journal' = tool_result(journal, s, result) /\ ~journal.deleted
      BY <2>2 DEF Change
    <3> QED  BY <1>2, <1>4, <3>1, ToolResultKeeps DEF JournalNow
  <2> QED  BY <2>1, <2>2
<1>6. EngineInv'
  BY <1>5, EngineKept DEF EngineInv
<1> QED  BY <1>1, <1>5, <1>6 DEF StepKeeps

(* The turn reads a source's output.                                       *)
LEMMA ReadStep ==
    ASSUME Inv, NEW s \in Sources, NEW form \in {"json", "text"}, ObserveRead(s, form)
    PROVE  StepKeeps
<1> USE DEF ObserveRead, Inv
<1>1. /\ \A t \in Sources \ {s} : readIn'[t] = readIn[t]
      /\ turn \in readIn'[s] /\ (s \in Terminals => readIn[s] \subseteq readIn'[s])
  BY SourceKind DEF TypeOK
<1>2. Typed'
  <2>1. {turn} \cup (IF s \in Agents THEN {} ELSE readIn[s]) \in SUBSET Traces
    BY DEF TypeOK
  <2>2. readIn' \in [Sources -> SUBSET Traces]
    BY <2>1 DEF TypeOK
  <2>3. unrecorded' \subseteq Agents /\ failure' \in BOOLEAN
    BY DEF TypeOK
  <2> QED  BY <2>2, <2>3 DEF TypeOK, Typed, delivery
<1>3. GrowsNow
  BY <1>1 DEF GrowsNow, Grows, delivery
<1>4. JournalInv(journal, committed', handed', proc', readIn', taken', refused')
  BY <1>3, NowGrows
<1>5. /\ JournalNow' /\ Advances(journal, journal')
      /\ journal' = journal \/ (~journal.deleted /\ SameTurns(journal, journal'))
  <2>1. CASE UNCHANGED journal
    BY <1>4, <2>1, CalmAlone DEF JournalNow
  <2>2. CASE Change(pid_output(journal, s, form))
    <3>1. journal' = pid_output(journal, s, form) /\ ~journal.deleted
      BY <2>2 DEF Change
    <3>2. journal.active \in readIn'[s] /\ readIn'[s] # {}
      BY <1>1, <3>1 DEF EngineInv
    <3> QED  BY <1>4, <3>1, <3>2, ReadKeeps DEF JournalNow
  <2> QED  BY <2>1, <2>2
<1>6. EngineInv'
  <2>1. \A t \in unrecorded' : readIn'[t] # {}
    BY <1>1, SourcesApart DEF EngineInv, TypeOK
  <2> QED  BY <1>5, <2>1, EngineKept DEF EngineInv
<1> QED  BY <1>2, <1>5, <1>6 DEF StepKeeps

(* A result that concerns no source is observed: the journal publishes.    *)
LEMMA OtherStep ==
    ASSUME Inv, ObserveOther
    PROVE  StepKeeps
<1> USE DEF ObserveOther, Inv
<1>1. Typed'
  BY DEF TypeOK, Typed, delivery, history
<1>2. JournalInv(journal, committed', handed', proc', readIn', taken', refused')
  BY DEF JournalNow, delivery, history
<1>3. /\ JournalNow' /\ Advances(journal, journal')
      /\ journal' = journal \/ (~journal.deleted /\ SameTurns(journal, journal'))
  <2>1. CASE UNCHANGED journal
    BY <1>2, <2>1, CalmAlone DEF JournalNow
  <2>2. CASE Change(publish(journal))
    <3>1. journal' = publish(journal) /\ ~journal.deleted
      BY <2>2 DEF Change
    <3>2. SameTurns(journal, journal) /\ Calm(journal, journal)
      BY CalmAlone DEF SameTurns
    <3> QED  BY <1>2, <3>1, <3>2, AfterPublish DEF JournalNow
  <2> QED  BY <2>1, <2>2
<1>4. EngineInv'
  BY <1>3, EngineKept DEF EngineInv, history
<1> QED  BY <1>1, <1>3, <1>4 DEF StepKeeps

(* The turn's last event is observed.                                      *)
LEMMA TurnCompleteStep ==
    ASSUME Inv, TurnComplete
    PROVE  StepKeeps
<1> USE DEF TurnComplete, Inv
<1>1. Typed'
  BY DEF TypeOK, Typed, delivery, history
<1>2. JournalNow' /\ Advances(journal, journal')
  BY CalmAlone DEF JournalNow, delivery, history
<1>3. EngineInv'
  BY <1>2, EngineKept DEF EngineInv, history
<1> QED  BY <1>1, <1>2, <1>3 DEF StepKeeps

(* A sub-agent's unrecorded end is written again.                          *)
LEMMA RetryStep ==
    ASSUME Inv, NEW s \in Agents, RetryTerminal(s)
    PROVE  StepKeeps
<1> USE DEF RetryTerminal, Inv
<1>1. Typed'
  BY DEF TypeOK, Typed, delivery, history
<1>2. JournalInv(journal, committed', handed', proc', readIn', taken', refused')
  BY DEF JournalNow, delivery, history
<1>3. /\ journal' = lifecycle(journal, s) /\ ~journal.deleted
      /\ proc'[s] \in Ended /\ s \in Sources
  BY SourcesApart DEF Change, EngineInv, Ended
<1>4. JournalNow' /\ SameTurns(journal, journal') /\ Advances(journal, journal')
  BY <1>2, <1>3, LifecycleKeeps DEF JournalNow
<1>5. EngineInv'
  BY <1>3, <1>4, EngineKept DEF EngineInv, history
<1> QED  BY <1>1, <1>4, <1>5 DEF StepKeeps

(* The turn commits.                                                       *)
LEMMA CommitStep ==
    ASSUME Inv, CommitTurn
    PROVE  StepKeeps
<1> USE DEF CommitTurn, Inv
<1>1. turn # None /\ turn \in Traces
  BY DEF EngineInv, TypeOK
<1>2. Typed'
  BY <1>1 DEF TypeOK, Typed, delivery
<1>3. GrowsNow
  BY DEF GrowsNow, Grows, delivery
<1>4. JournalInv(journal, committed', handed', proc', readIn', taken', refused')
  BY <1>3, NowGrows
<1>5. /\ journal' = commit(journal, turn) /\ ~journal.deleted
      /\ journal.active = turn /\ turn \in committed'
  BY DEF Change
<1>6. JournalNow' /\ Advances(journal, journal')
  BY <1>1, <1>4, <1>5, CommitKeeps DEF JournalNow
<1>7. EngineInv'
  <2>1. turn' = None /\ ~ending' /\ proc' = proc
    OBVIOUS
  <2>2. \A s \in Sources :
          ~journal'.deleted /\ proc'[s] # "none" => journal'.src[s].trace # None
    BY <1>5, <1>6, <2>1, ChildrenRegistered
  <2> QED  BY <2>1, <2>2 DEF EngineInv
<1> QED  BY <1>2, <1>6, <1>7 DEF StepKeeps

(* The turn fails.                                                         *)
LEMMA FailStep ==
    ASSUME Inv, FailTurn
    PROVE  StepKeeps
<1> USE DEF FailTurn, Inv
<1>1. Typed'
  BY DEF TypeOK, Typed, delivery, history
<1>2. JournalInv(journal, committed', handed', proc', readIn', taken', refused')
  BY DEF JournalNow, delivery, history
<1>3. /\ JournalNow' /\ Advances(journal, journal')
      /\ journal' = journal \/ ~journal.deleted
  <2>1. CASE UNCHANGED journal
    BY <1>2, <2>1, CalmAlone DEF JournalNow
  <2>2. CASE Change(fail_turn(journal, turn))
    <3>1. /\ journal' = fail_turn(journal, turn) /\ ~journal.deleted
          /\ journal.active = turn /\ turn # None
      BY <2>2 DEF Change, EngineInv
    <3>2. JournalNow' /\ Calm(journal, journal')
      BY <1>2, <3>1, FailKeeps DEF JournalNow
    <3> QED  BY <3>1, <3>2, CalmAdvances
  <2> QED  BY <2>1, <2>2
<1>4. EngineInv'
  <2>1. turn' = None /\ ~ending' /\ proc' = proc
    OBVIOUS
  <2>2. ASSUME NEW s \in Sources, ~journal'.deleted, proc'[s] # "none"
        PROVE  journal'.src[s].trace # None
    <3>1. CASE journal' = journal
      BY <2>1, <2>2, <3>1 DEF EngineInv
    <3>2. CASE ~journal.deleted
      BY <1>3, <2>1, <2>2, <3>2, ChildrenRegistered
    <3> QED  BY <1>3, <3>1, <3>2
  <2> QED  BY <2>1, <2>2 DEF EngineInv, history
<1> QED  BY <1>1, <1>3, <1>4 DEF StepKeeps

(* A restarted engine replays the session's reads.                         *)
LEMMA ReplayStep ==
    ASSUME Inv, Replay
    PROVE  StepKeeps
<1> USE DEF Replay, Inv
<1>1. Typed'
  BY DEF TypeOK, Typed, engine, delivery, history
<1>2. JournalInv(journal, committed', handed', proc', readIn', taken', refused')
  BY DEF JournalNow, engine, delivery, history
<1>3. PICK replayed \in SUBSET unrecorded, manifest \in [Agents -> Manifests] :
        /\ Readable(manifest) /\ Change(reconcile(journal, replayed, manifest))
  OBVIOUS
<1>4. /\ \A s \in replayed : readIn'[s] # {}
      /\ \A s \in Agents : manifest[s] = "terminal" => proc'[s] \in Ended
  BY <1>3 DEF EngineInv, Readable, Ended, engine, history
<1>5. journal' = reconcile(journal, replayed, manifest) /\ ~journal.deleted
  BY <1>3 DEF Change
<1>6. JournalNow' /\ SameTurns(journal, journal') /\ Advances(journal, journal')
  BY <1>2, <1>4, <1>5, ReconcileKeeps DEF JournalNow
<1>7. EngineInv'
  BY <1>5, <1>6, EngineKept DEF EngineInv, engine, history
<1> QED  BY <1>1, <1>6, <1>7 DEF StepKeeps

(* Steps of the delivery leave the engine and the history alone.           *)
LEMMA DeliveryStep ==
    ASSUME Inv, UNCHANGED <<engine, history>>,
           taken \subseteq taken', refused \subseteq refused',
           taken' \subseteq Sources, refused' \subseteq Sources,
           flight' \in Sources \cup {None}, stale' \subseteq Sources,
           connected' \in BOOLEAN, lost' \in BOOLEAN, last' \in Sources \cup {None},
           JournalNow', Advances(journal, journal'),
           \/ journal' = journal
           \/ ~journal.deleted /\ SameTurns(journal, journal')
           \/ journal'.deleted
    PROVE  StepKeeps
<1>1. Typed'
  BY DEF Inv, TypeOK, Typed, engine, history
<1>2. EngineInv'
  BY EngineKept DEF Inv, EngineInv, engine, history
<1> QED  BY <1>1, <1>2 DEF StepKeeps

(* Steps of the delivery only add answers to the evidence.                 *)
LEMMA DeliveryInv ==
    ASSUME Inv, UNCHANGED <<engine, history>>,
           taken \subseteq taken', refused \subseteq refused'
    PROVE  JournalInv(journal, committed', handed', proc', readIn', taken', refused')
<1>1. GrowsNow
  BY DEF GrowsNow, Grows, engine, history
<1> QED  BY <1>1, NowGrows

(* Giving an attempt up keeps the delivery's types.                        *)
LEMMA GiveUpTypes ==
    ASSUME Inv, GiveUp
    PROVE  flight' \in Sources \cup {None} /\ stale' \subseteq Sources /\ lost' \in BOOLEAN
BY DEF Inv, TypeOK, GiveUp

(* The controller connects or goes away.                                   *)
LEMMA ConfigureStep ==
    ASSUME Inv, NEW on \in BOOLEAN, Configure(on)
    PROVE  StepKeeps
<1> USE DEF Configure
<1>1. JournalNow' /\ Advances(journal, journal')
  BY DeliveryInv, CalmAlone DEF JournalNow
<1> QED  BY <1>1, GiveUpTypes, DeliveryStep DEF Inv, TypeOK

(* An attempt times out.                                                   *)
LEMMA TimesOutStep ==
    ASSUME Inv, DeliveryTimesOut
    PROVE  StepKeeps
<1> USE DEF DeliveryTimesOut
<1>1. JournalNow' /\ Advances(journal, journal')
  BY DeliveryInv, CalmAlone DEF JournalNow
<1> QED  BY <1>1, GiveUpTypes, DeliveryStep DEF Inv, TypeOK

(* The first pending completion is sent.                                   *)
LEMMA DeliverStep ==
    ASSUME Inv, NEW s \in Sources, Deliver(s)
    PROVE  StepKeeps
<1> USE DEF Deliver
<1>1. JournalNow' /\ Advances(journal, journal')
  BY DeliveryInv, CalmAlone DEF JournalNow
<1> QED  BY <1>1, DeliveryStep DEF Inv, TypeOK

(* A turn's sources are withdrawn.                                         *)
LEMMA SuppressStep ==
    ASSUME Inv, NEW t \in Traces, Suppress(t)
    PROVE  StepKeeps
<1> USE DEF Suppress
<1>1. JournalInv(journal, committed', handed', proc', readIn', taken', refused')
  BY DeliveryInv
<1>2. journal' = suppress(journal, t) /\ ~journal.deleted
  BY DEF Change
<1>3. JournalNow' /\ Alike(journal, journal')
  BY <1>1, <1>2, SuppressKeeps DEF JournalNow
<1>4. Advances(journal, journal') /\ SameTurns(journal, journal')
  BY <1>3, CalmAdvances DEF Alike
<1> QED  BY <1>2, <1>3, <1>4, GiveUpTypes, DeliveryStep DEF Inv, TypeOK

(* The session is purged.                                                  *)
LEMMA PurgeStep ==
    ASSUME Inv, Purge
    PROVE  StepKeeps
<1> USE DEF Purge
<1>1. journal' = purge(journal)
  BY DEF Change
<1>2. JournalNow' /\ Advances(journal, journal') /\ journal'.deleted
  BY <1>1, PurgeKeeps DEF JournalNow
<1> QED  BY <1>2, GiveUpTypes, DeliveryStep DEF Inv, TypeOK

(* An answer is remembered as what its receiver did.                       *)
LEMMA SaysTypes ==
    ASSUME Inv, NEW s \in Sources, NEW answer \in Answers, Says(s, answer)
    PROVE  /\ taken \subseteq taken' /\ refused \subseteq refused'
           /\ taken' \subseteq Sources /\ refused' \subseteq Sources
           /\ answer = "stored" => s \in taken'
           /\ answer = "wrong" => s \in refused'
BY DEF Inv, TypeOK, Says

(* An answer to the attempt in flight arrives.                             *)
LEMMA ReceiptStep ==
    ASSUME Inv, NEW s \in Sources, NEW answer \in Answers, Receipt(s, answer)
    PROVE  StepKeeps
<1> USE DEF Receipt
<1>1. /\ taken \subseteq taken' /\ refused \subseteq refused'
      /\ taken' \subseteq Sources /\ refused' \subseteq Sources
      /\ answer = "stored" => s \in taken'
      /\ answer = "wrong" => s \in refused'
  BY SaysTypes
<1>2. JournalInv(journal, committed', handed', proc', readIn', taken', refused')
  BY <1>1, DeliveryInv
<1>3. /\ JournalNow' /\ Advances(journal, journal')
      /\ journal' = journal \/ (~journal.deleted /\ SameTurns(journal, journal'))
  <2>1. CASE UNCHANGED journal
    BY <1>2, <2>1, CalmAlone DEF JournalNow
  <2>2. CASE answer = "stored" /\ Change(acknowledge(journal, s))
    <3>1. journal' = acknowledge(journal, s) /\ ~journal.deleted
      BY <2>2 DEF Change
    <3>2. JournalNow' /\ Alike(journal, journal')
      BY <1>1, <1>2, <2>2, <3>1, SourceAcknowledged DEF JournalNow
    <3> QED  BY <3>1, <3>2, CalmAdvances DEF Alike
  <2>3. CASE answer = "wrong" /\ Change(quarantine(journal, s))
    <3>1. journal' = quarantine(journal, s) /\ ~journal.deleted
      BY <2>3 DEF Change
    <3>2. JournalNow' /\ Alike(journal, journal')
      BY <1>1, <1>2, <2>3, <3>1, SourceQuarantined DEF JournalNow
    <3> QED  BY <3>1, <3>2, CalmAdvances DEF Alike
  <2> QED  BY <2>1, <2>2, <2>3 DEF Applied
<1>4. flight' = None /\ connected' \in BOOLEAN
  BY DEF Applied
<1> QED  BY <1>1, <1>3, <1>4, DeliveryStep DEF Inv, TypeOK

(* An answer to an abandoned attempt arrives.                              *)
LEMMA StaleReceiptStep ==
    ASSUME Inv, NEW s \in Sources, NEW answer \in Answers, StaleReceipt(s, answer)
    PROVE  StepKeeps
<1> USE DEF StaleReceipt
<1>1. /\ taken \subseteq taken' /\ refused \subseteq refused'
      /\ taken' \subseteq Sources /\ refused' \subseteq Sources
  BY SaysTypes
<1>2. JournalNow' /\ Advances(journal, journal')
  BY <1>1, DeliveryInv, CalmAlone DEF JournalNow
<1> QED  BY <1>1, <1>2, DeliveryStep DEF Inv, TypeOK

(* Nothing happens.                                                        *)
LEMMA StutterStep ==
    ASSUME Inv, UNCHANGED vars
    PROVE  StepKeeps
<1> USE DEF vars, delivery
<1>1. JournalNow' /\ Advances(journal, journal')
  BY DeliveryInv, CalmAlone DEF JournalNow
<1> QED  BY <1>1, DeliveryStep DEF Inv, TypeOK

(* Every step keeps the invariant and sends nothing ahead of what waits.   *)
LEMMA NextKeeps ==
    ASSUME Inv, [Next]_vars
    PROVE  StepKeeps
BY ReopenStep, BeginStep, SuppressStep, RegisterStep, ChildEndsStep, LifecycleStep,
   SpawnStep, TerminalEndsStep, ToolResultStep, ReadStep, OtherStep, TurnCompleteStep, CommitStep,
   FailStep, RetryStep, ReplayStep, PurgeStep, ConfigureStep, DeliverStep,
   TimesOutStep, ReceiptStep, StaleReceiptStep, StutterStep DEF Next

-----------------------------------------------------------------------------
(* The theorems.                                                           *)

(* The invariant holds of a new session ...                                *)
LEMMA InvInit ==
    ASSUME Init
    PROVE  Inv
<1> USE DEF Init
<1>1. journal \in {NewJournal, [NewJournal EXCEPT !.deleted = TRUE]}
  OBVIOUS
<1>2. JournalNow
  BY <1>1, NewJournalIsSound DEF JournalNow
<1>3. TypeOK
  <2>1. journal \in Journal
    BY <1>2 DEF JournalNow, JournalInv
  <2> QED  BY <2>1 DEF TypeOK
<1>4. EngineInv
  BY DEF EngineInv, ChildKinds
<1> QED  BY <1>2, <1>3, <1>4 DEF Inv

(* ... is kept by every step ...                                           *)
LEMMA InvNext ==
    ASSUME Inv, [Next]_vars
    PROVE  Inv'
<1>1. StepKeeps
  BY NextKeeps
<1>2. TypeOK'
  BY <1>1 DEF StepKeeps, JournalNow, JournalInv, Typed, TypeOK
<1> QED  BY <1>1, <1>2 DEF Inv, StepKeeps

(* ... and always holds.                                                   *)
LEMMA InvAlways == Spec => []Inv
<1>1. Init => Inv
  BY InvInit
<1>2. Inv /\ [Next]_vars => Inv'
  BY InvNext
<1> QED  BY <1>1, <1>2, PTL DEF Spec

(* Types: the journal, the engine and the delivery keep theirs, for any    *)
(* sub-agents, shells and number of turns.                                 *)
THEOREM DeliveryTypeCorrect == Spec => []TypeOK
<1>1. Inv => TypeOK
  BY DEF Inv
<1> QED  BY <1>1, InvAlways, PTL

(* A result is published only with all of its evidence (publish, commit,   *)
(* fail_turn, reconcile).                                                  *)
THEOREM PublishedWithEvidence == Spec => []PublishedIsQualified
<1>1. Inv => PublishedIsQualified
  <2> SUFFICES ASSUME Inv, NEW s \in Sources, journal.src[s].payload
               PROVE  /\ journal.src[s].trace \in committed
                      /\ handed[s] = "background"
                      /\ proc[s] \in {"ended", "reported"}
    BY DEF PublishedIsQualified
  <2>1. Evidence(journal.src[s], committed, handed[s], proc[s])
    BY DEF Inv, JournalNow, JournalInv, Sound
  <2> QED  BY <2>1 DEF Evidence, Ended
<1> QED  BY <1>1, InvAlways, PTL

(* An acknowledgement or a quarantine is the controller's word on this     *)
(* very completion (receipt).                                              *)
THEOREM ReceiptsAreTheirs == Spec => []ReceiptIsForItsCompletion
<1>1. Inv => ReceiptIsForItsCompletion
  <2> SUFFICES ASSUME Inv, NEW s \in Sources
               PROVE  /\ journal.src[s].ack = "acknowledged" => s \in taken
                      /\ journal.src[s].blocked = "rejected" => s \in refused
    BY DEF ReceiptIsForItsCompletion
  <2>1. Answered(journal.src[s], s, taken, refused)
    BY DEF Inv, JournalNow, JournalInv, Sound
  <2> QED  BY <2>1 DEF Answered
<1> QED  BY <1>1, InvAlways, PTL

(* A result leaves the journal unacknowledged only if the model has it or  *)
(* the command never ran (publish, pid_output, commit, fail_turn).         *)
THEOREM NoResultDropped == Spec => []NothingDropped
<1>1. Inv => NothingDropped
  <2> SUFFICES ASSUME Inv, NEW s \in Sources,
                      journal.src[s].settled, journal.src[s].ack = "none"
               PROVE  IF s \in Agents THEN handed[s] = "other" \/ readIn[s] # {}
                      ELSE \/ journal.src[s].exec = "not_started"
                           \/ readIn[s] \cap committed # {}
    BY DEF NothingDropped
  <2>1. Sound(journal, s, committed, handed[s], proc[s], readIn[s], taken, refused)
    BY DEF Inv, JournalNow, JournalInv
  <2>2. CASE s \in Agents
    BY <2>1, <2>2 DEF Sound, AgentKept
  <2>3. CASE s \in Terminals
    BY <2>1, <2>3, SourceKind DEF Sound, TerminalKept
  <2> QED  BY <2>2, <2>3 DEF Sources
<1> QED  BY <1>1, InvAlways, PTL

\* The completion that was sent last, if it still waits, is the first one that
\* does; once it no longer waits it never does again.
OrderInv ==
    last # None =>
        /\ \/ journal.deleted
           \/ /\ journal.src[last].trace # None
              /\ journal.src[last].payload \/ journal.src[last].settled
        /\ Pending(last) =>
             \A t \in Sources \ {last} : Pending(t) => Before(last, t)

(* A purged journal is never written again.                                *)
LEMMA DeletedStays ==
    ASSUME [Next]_vars, journal.deleted
    PROVE  journal' = journal
BY DEF Next, vars, Change, Reopen, Begin, Suppress, Register, ChildEnds, ObserveLifecycle,
       Spawn, TerminalEnds, ObserveToolResult, ObserveRead, ObserveOther, TurnComplete, CommitTurn,
       FailTurn, RetryTerminal, Replay, Purge, Configure, Deliver, DeliveryTimesOut,
       Receipt, StaleReceipt, Applied

(* Nothing but Deliver sends a completion.                                 *)
LEMMA OnlyDeliverSends ==
    ASSUME [Next]_vars
    PROVE  last' = last \/ \E s \in Sources : Deliver(s)
BY DEF Next, vars, delivery, Reopen, Begin, Suppress, Register, ChildEnds,
       ObserveLifecycle, Spawn, TerminalEnds, ObserveToolResult, ObserveRead, ObserveOther, TurnComplete,
       CommitTurn, FailTurn, RetryTerminal, Replay, Purge, Configure, DeliveryTimesOut,
       Receipt, StaleReceipt

(* Every step keeps the order of what waits.                               *)
LEMMA OrderNext ==
    ASSUME Inv, OrderInv, [Next]_vars
    PROVE  OrderInv'
<1>1. ASSUME NEW s \in Sources, Deliver(s) PROVE OrderInv'
  <2>1. /\ last' = s /\ journal' = journal /\ Pending(s)
        /\ \A t \in Sources \ {s} : Pending(t) => Before(s, t)
    BY <1>1 DEF Deliver
  <2>2. journal.src[s].trace # None
    <3>1. journal.src[s].payload
      BY <2>1 DEF Pending
    <3>2. journal.src[s].trace \in committed
      BY <3>1 DEF Inv, JournalNow, JournalInv, Sound, Evidence
    <3> QED  BY <3>2, SourcesAreKeys DEF Inv, TypeOK, Traces, None
  <2>3. journal.src[s].payload
    BY <2>1 DEF Pending
  <2> QED  BY <2>1, <2>2, <2>3 DEF OrderInv, Pending, Before
<1>2. CASE last' = last /\ journal.deleted
  <2>1. journal' = journal
    BY <1>2, DeletedStays
  <2> QED  BY <1>2, <2>1 DEF OrderInv, Pending, Before
<1>3. CASE last' = last /\ ~journal.deleted
  <2> SUFFICES ASSUME last # None PROVE OrderInv'
    BY <1>3 DEF OrderInv
  <2> SUFFICES ASSUME NEW s, s = last PROVE OrderInv'
    OBVIOUS
  <2>1. s \in Sources /\ journal.src[s].trace # None
        /\ (journal.src[s].payload \/ journal.src[s].settled)
    BY <1>3 DEF Inv, TypeOK, OrderInv
  <2>2. Advances(journal, journal') /\ journal \in Journal /\ journal' \in Journal
    BY NextKeeps DEF StepKeeps, Inv, TypeOK, JournalNow, JournalInv
  <2>3. \/ journal'.deleted
        \/ /\ journal'.src[s].trace # None
           /\ journal'.src[s].payload \/ journal'.src[s].settled
    BY <2>1, <2>2 DEF Advances
  <2>4. Pends(journal'.src[s]) =>
          Pends(journal.src[s]) /\ journal'.src[s].ordinal = journal.src[s].ordinal
    BY <2>1, <2>2 DEF Advances
  <2>5. ASSUME Pends(journal'.src[s]), NEW t \in Sources \ {s}, Pends(journal'.src[t])
        PROVE  \/ journal'.src[s].ordinal < journal'.src[t].ordinal
               \/ journal'.src[s].ordinal = journal'.src[t].ordinal /\ s < t
    <3> DEFINE o == journal'.src[s].ordinal
               q == journal'.src[t].ordinal
    <3>1. o \in Nat /\ q \in Nat
      BY <2>1, <2>2 DEF Journal, Source
    <3>2. CASE Pends(journal.src[t]) /\ q = journal.src[t].ordinal
      <4>1. Pending(s) /\ Pending(t)
        BY <2>4, <2>5, <3>2 DEF Pends, Pending
      <4>2. Before(s, t)
        BY <4>1 DEF OrderInv
      <4>3. o = journal.src[s].ordinal
        BY <2>4, <2>5
      <4> QED  BY <3>2, <4>2, <4>3 DEF Before
    <3>3. CASE journal.src[s].ordinal < q
      <4> QED  BY <2>4, <2>5, <3>3
    <3> QED  BY <2>1, <2>2, <2>5, <3>2, <3>3 DEF Advances
  <2> QED  BY <1>3, <2>3, <2>5 DEF OrderInv, Pending, Pends, Before
<1> QED  BY <1>1, <1>2, <1>3, OnlyDeliverSends

(* A completion that was sent and still waits is sent again before any     *)
(* other, across restarts and reconnections (the ordinals of publish).     *)
THEOREM NoneIsOvertaken == Spec => NotOvertaken
<1>1. Init => OrderInv
  BY DEF Init, OrderInv
<1>2. Inv /\ OrderInv /\ [Next]_vars => OrderInv'
  BY OrderNext
<1>3. ASSUME Inv, OrderInv, [Next]_vars,
             NEW s \in Sources, last = s, last' # s, Pending(s)
      PROVE  FALSE
  <2>1. PICK x \in Sources : Deliver(x)
    BY <1>3, OnlyDeliverSends
  <2>2. x # s /\ Pending(x) /\ Before(x, s)
    BY <1>3, <2>1 DEF Deliver
  <2>3. Before(s, x)
    BY <1>3, <2>2, SourcesApart DEF OrderInv
  <2>4. journal.src[s].ordinal \in Nat /\ journal.src[x].ordinal \in Nat
    BY <1>3 DEF Inv, TypeOK, Journal, Source
  <2>5. s \in Nat /\ x \in Nat
    BY SourcesAreKeys DEF Sources
  <2> QED  BY <2>2, <2>3, <2>4, <2>5 DEF Before
<1>4. Inv /\ OrderInv /\ [Next]_vars =>
        [\A s \in Sources : last = s /\ last' # s => ~Pending(s)]_vars
  BY <1>3
<1> QED  BY <1>1, <1>2, <1>4, InvAlways, PTL DEF Spec, NotOvertaken
================================================================================
