----------------------------- MODULE Orders_proofs -----------------------------
(***************************************************************************)
(* What sequences hold, and that none of it is held twice, under the       *)
(* operations the queues of the project use.                               *)
(***************************************************************************)
EXTENDS Orders, SequenceTheorems, TLAPS

(* The elements of a queue after each operation on it.                     *)
LEMMA RangeEmpty == Range(<<>>) = {} /\ IsInjective(<<>>)
  BY DEF Range, IsInjective

(* The elements of a typed sequence; only the empty one has none.          *)
LEMMA RangeType ==
    ASSUME NEW T, NEW q \in Seq(T)
    PROVE  Range(q) \subseteq T /\ (Range(q) = {} <=> q = <<>>)
<1>1. Range(q) \subseteq T
  BY DEF Range
<1>2. q # <<>> => q[1] \in Range(q)
  BY DEF Range
<1> QED  BY <1>1, <1>2, RangeEmpty

(* A sequence of one.                                                      *)
LEMMA RangeSingle ==
    ASSUME NEW x PROVE Range(<<x>>) = {x} /\ IsInjective(<<x>>)
  BY DEF Range, IsInjective

(* Concatenation joins the elements, and repeats none of disjoint ones.    *)
LEMMA RangeConcat ==
    ASSUME NEW T, NEW p \in Seq(T), NEW q \in Seq(T)
    PROVE  /\ Range(p \o q) = Range(p) \cup Range(q)
           /\ p \o q \in Seq(T)
           /\ IsInjective(p) /\ IsInjective(q) /\ Range(p) \cap Range(q) = {}
                  => IsInjective(p \o q)
<1>1. /\ Len(p \o q) = Len(p) + Len(q) /\ p \o q \in Seq(T)
      /\ DOMAIN p = 1..Len(p) /\ DOMAIN q = 1..Len(q)
      /\ DOMAIN (p \o q) = 1..Len(p) + Len(q)
      /\ Len(p) \in Nat /\ Len(q) \in Nat
  OBVIOUS
<1>2. \A i \in 1..Len(p) : (p \o q)[i] = p[i]
  OBVIOUS
<1>3. \A i \in 1..Len(p) + Len(q) : i > Len(p) =>
          (p \o q)[i] = q[i - Len(p)] /\ i - Len(p) \in 1..Len(q)
  BY <1>1
<1>4. \A i \in 1..Len(q) : /\ i + Len(p) \in 1..Len(p) + Len(q)
                           /\ (p \o q)[i + Len(p)] = q[i]
  <2> SUFFICES ASSUME NEW i \in 1..Len(q)
               PROVE  /\ i + Len(p) \in 1..Len(p) + Len(q)
                      /\ (p \o q)[i + Len(p)] = q[i]
    OBVIOUS
  <2>1. i + Len(p) \in 1..Len(p) + Len(q) /\ i + Len(p) > Len(p)
    BY <1>1
  <2>2. (i + Len(p)) - Len(p) = i
    BY <1>1
  <2> QED  BY <1>3, <2>1, <2>2
<1>5. Range(p \o q) = Range(p) \cup Range(q)
  <2>1. ASSUME NEW x \in Range(p \o q) PROVE x \in Range(p) \cup Range(q)
    <3>1. PICK i \in 1..Len(p) + Len(q) : x = (p \o q)[i]
      BY <1>1 DEF Range
    <3> QED  BY <1>1, <1>2, <1>3, <3>1 DEF Range
  <2>2. ASSUME NEW x \in Range(p) PROVE x \in Range(p \o q)
    <3>1. PICK i \in 1..Len(p) : x = p[i]
      BY <1>1 DEF Range
    <3>2. i \in 1..Len(p) + Len(q)
      BY <1>1
    <3> QED  BY <1>1, <1>2, <3>1, <3>2 DEF Range
  <2>3. ASSUME NEW x \in Range(q) PROVE x \in Range(p \o q)
    <3>1. PICK i \in 1..Len(q) : x = q[i]
      BY <1>1 DEF Range
    <3> QED  BY <1>1, <1>4, <3>1 DEF Range
  <2> QED  BY <2>1, <2>2, <2>3
<1>6. ASSUME IsInjective(p), IsInjective(q), Range(p) \cap Range(q) = {}
      PROVE  IsInjective(p \o q)
  <2> SUFFICES ASSUME NEW i \in 1..Len(p) + Len(q), NEW j \in 1..Len(p) + Len(q),
                      (p \o q)[i] = (p \o q)[j]
               PROVE  i = j
    BY <1>1 DEF IsInjective
  <2>1. CASE i <= Len(p) /\ j <= Len(p)
    BY <1>1, <1>2, <1>6, <2>1 DEF IsInjective
  <2>2. CASE i > Len(p) /\ j > Len(p)
    <3>1. i - Len(p) = j - Len(p)
      BY <1>1, <1>3, <1>6, <2>2 DEF IsInjective
    <3> QED  BY <1>1, <3>1
  <2>3. ASSUME NEW k \in 1..Len(p) + Len(q), NEW l \in 1..Len(p) + Len(q),
               k <= Len(p), l > Len(p)
        PROVE  (p \o q)[k] # (p \o q)[l]
    <3>1. k \in 1..Len(p) /\ l - Len(p) \in 1..Len(q)
      BY <1>1, <1>3, <2>3
    <3>2. (p \o q)[k] \in Range(p) /\ (p \o q)[l] \in Range(q)
      BY <1>1, <1>2, <1>3, <2>3, <3>1 DEF Range
    <3> QED  BY <1>6, <3>2
  <2> QED  BY <1>1, <2>1, <2>2, <2>3
<1> QED  BY <1>1, <1>5, <1>6

(* So does Append.                                                         *)
LEMMA RangeAppend ==
    ASSUME NEW T, NEW q \in Seq(T), NEW x \in T
    PROVE  /\ Range(Append(q, x)) = Range(q) \cup {x}
           /\ Append(q, x) \in Seq(T)
           /\ IsInjective(q) /\ x \notin Range(q) => IsInjective(Append(q, x))
<1> DEFINE y == <<x>>
<1>1. y \in Seq(T) /\ Append(q, x) = q \o y
  OBVIOUS
<1>2. Range(y) = {x} /\ IsInjective(y)
  BY RangeSingle
<1> HIDE DEF y
<1>3. /\ Range(q \o y) = Range(q) \cup Range(y)
      /\ q \o y \in Seq(T)
      /\ IsInjective(q) /\ IsInjective(y) /\ Range(q) \cap Range(y) = {}
             => IsInjective(q \o y)
  BY <1>1, RangeConcat
<1> QED  BY <1>1, <1>2, <1>3

(* Head and Tail divide the elements.                                      *)
LEMMA RangeTail ==
    ASSUME NEW T, NEW q \in Seq(T), q # <<>>
    PROVE  /\ Range(q) = {Head(q)} \cup Range(Tail(q))
           /\ Head(q) \in T /\ Tail(q) \in Seq(T)
           /\ IsInjective(q) => /\ IsInjective(Tail(q))
                                /\ Head(q) \notin Range(Tail(q))
<1>1. /\ DOMAIN q = 1..Len(q) /\ Len(q) \in Nat /\ Len(q) > 0
      /\ DOMAIN Tail(q) = 1..Len(q) - 1 /\ Head(q) = q[1]
      /\ Head(q) \in T /\ Tail(q) \in Seq(T)
  OBVIOUS
<1>2. \A i \in 1..Len(q) - 1 : Tail(q)[i] = q[i + 1] /\ i + 1 \in 1..Len(q)
  BY <1>1
<1>3. \A i \in 1..Len(q) : i = 1 \/ (i - 1 \in 1..Len(q) - 1 /\ Tail(q)[i - 1] = q[i])
  <2> SUFFICES ASSUME NEW i \in 1..Len(q), i # 1
               PROVE  i - 1 \in 1..Len(q) - 1 /\ Tail(q)[i - 1] = q[i]
    OBVIOUS
  <2>1. i - 1 \in 1..Len(q) - 1 /\ (i - 1) + 1 = i
    BY <1>1
  <2> QED  BY <1>2, <2>1
<1>4. Range(q) = {Head(q)} \cup Range(Tail(q))
  <2>1. ASSUME NEW x \in Range(q) PROVE x \in {Head(q)} \cup Range(Tail(q))
    <3>1. PICK i \in 1..Len(q) : x = q[i]
      BY <1>1 DEF Range
    <3> QED  BY <1>1, <1>3, <3>1 DEF Range
  <2>2. ASSUME NEW x \in Range(Tail(q)) PROVE x \in Range(q)
    <3>1. PICK i \in 1..Len(q) - 1 : x = Tail(q)[i]
      BY <1>1 DEF Range
    <3> QED  BY <1>1, <1>2, <3>1 DEF Range
  <2>3. Head(q) \in Range(q)
    <3>1. 1 \in 1..Len(q)
      BY <1>1
    <3> QED  BY <1>1, <3>1 DEF Range
  <2> QED  BY <2>1, <2>2, <2>3
<1>5. ASSUME IsInjective(q) PROVE IsInjective(Tail(q)) /\ Head(q) \notin Range(Tail(q))
  <2>1. IsInjective(Tail(q))
    <3> SUFFICES ASSUME NEW i \in 1..Len(q) - 1, NEW j \in 1..Len(q) - 1,
                        Tail(q)[i] = Tail(q)[j]
                 PROVE  i = j
      BY <1>1 DEF IsInjective
    <3>1. i + 1 = j + 1
      BY <1>1, <1>2, <1>5 DEF IsInjective
    <3> QED  BY <1>1, <3>1
  <2>2. ASSUME NEW i \in 1..Len(q) - 1 PROVE q[1] # Tail(q)[i]
    <3>1. i + 1 # 1 /\ 1 \in 1..Len(q)
      BY <1>1
    <3> QED  BY <1>1, <1>2, <1>5, <3>1 DEF IsInjective
  <2> QED  BY <1>1, <2>1, <2>2 DEF Range
<1> QED  BY <1>1, <1>4, <1>5

(* What retain leaves of a queue is a queue of its elements ...            *)
LEMMA KeptType ==
    ASSUME NEW T, NEW q \in Seq(T), NEW S, NEW k \in Kept(q, S)
    PROVE  k \in Seq(T) /\ Range(k) = Range(q) \cap S
<1>1. PICK m \in 0..Len(q) : k \in [1..m -> Range(q) \cap S]
  BY DEF Kept
<1>2. Range(q) \subseteq T
  BY DEF Range
<1>3. m \in Nat
  BY <1>1
<1>4. k \in [1..m -> T]
  BY <1>1, <1>2
<1> QED  BY <1>3, <1>4 DEF Kept

(* ... in which nothing is twice that was not before.                      *)
LEMMA KeptDistinct ==
    ASSUME NEW T, NEW q \in Seq(T), IsInjective(q), NEW S, NEW k \in Kept(q, S)
    PROVE  IsInjective(k)
<1>1. DOMAIN q \subseteq Int /\ DOMAIN k \subseteq Int
  <2>1. k \in Seq(T)
    BY KeptType
  <2> QED  BY <2>1
<1>2. \A i, j \in DOMAIN k : i < j =>
         \E a, b \in DOMAIN q : a < b /\ q[a] = k[i] /\ q[b] = k[j]
  BY DEF Kept
<1>3. ASSUME NEW i \in DOMAIN k, NEW j \in DOMAIN k, i < j PROVE k[i] # k[j]
  <2>1. PICK a \in DOMAIN q, b \in DOMAIN q : a < b /\ q[a] = k[i] /\ q[b] = k[j]
    BY <1>2, <1>3
  <2>2. a # b
    BY <1>1, <2>1
  <2> QED  BY <2>1, <2>2 DEF IsInjective
<1> QED  BY <1>1, <1>3 DEF IsInjective

(* The first of a queue stays first while it is kept.                      *)
LEMMA KeptHead ==
    ASSUME NEW T, NEW q \in Seq(T), IsInjective(q), q # <<>>, NEW S, Head(q) \in S,
           NEW k \in Kept(q, S)
    PROVE  k # <<>> /\ Head(k) = Head(q)
<1>1. k \in Seq(T) /\ Range(k) = Range(q) \cap S
  BY KeptType
<1>2. /\ DOMAIN q = 1..Len(q) /\ Len(q) \in Nat \ {0} /\ Head(q) = q[1]
      /\ DOMAIN k = 1..Len(k) /\ Len(k) \in Nat
  BY <1>1
<1>3. q[1] \in Range(q) /\ 1 \in DOMAIN q
  BY <1>2 DEF Range
<1>4. PICK i \in DOMAIN k : k[i] = q[1]
  BY <1>1, <1>2, <1>3 DEF Range
<1>5. 1 \in DOMAIN k /\ k # <<>> /\ Head(k) = k[1]
  BY <1>1, <1>2, <1>4
<1>6. i = 1
  <2> SUFFICES ASSUME 1 < i PROVE FALSE
    BY <1>2, <1>4
  <2>1. PICK a \in DOMAIN q, b \in DOMAIN q : a < b /\ q[a] = k[1] /\ q[b] = k[i]
    BY <1>4, <1>5 DEF Kept
  <2>2. b = 1
    BY <1>3, <1>4, <2>1 DEF IsInjective
  <2> QED  BY <1>2, <2>1, <2>2
<1> QED  BY <1>2, <1>4, <1>5, <1>6

(* The keys of a map, in order, are its keys, each once.                   *)
LEMMA AscendingDistinct ==
    ASSUME NEW S \in SUBSET Int, NEW max \in Nat, NEW s \in Ascending(S, max)
    PROVE  s \in Seq(S) /\ Range(s) = S /\ IsInjective(s)
<1>1. PICK m \in 0..max : s \in [1..m -> S]
  BY DEF Ascending
<1>2. s \in Seq(S) /\ DOMAIN s \subseteq Int
  BY <1>1
<1>3. Range(s) = S /\ \A i, j \in DOMAIN s : i < j => s[i] < s[j]
  BY DEF Ascending
<1>4. ASSUME NEW i \in DOMAIN s, NEW j \in DOMAIN s, i < j PROVE s[i] # s[j]
  <2>1. s[i] < s[j] /\ s[i] \in Int /\ s[j] \in Int
    BY <1>1, <1>3, <1>4
  <2> QED  BY <2>1
<1> QED  BY <1>2, <1>3, <1>4 DEF IsInjective

(* What a log has gained is what was appended to it.                       *)
LEMMA GainedSuffix ==
    ASSUME NEW T, NEW p \in Seq(T), NEW q \in Seq(T)
    PROVE  SubSeq(p \o q, Len(p) + 1, Len(p \o q)) = q
<1> DEFINE r == p \o q
<1>1. /\ r \in Seq(T) /\ Len(r) = Len(p) + Len(q) /\ Len(p) \in Nat /\ Len(q) \in Nat
      /\ \A i \in 1..Len(r) : r[i] = IF i <= Len(p) THEN p[i] ELSE q[i - Len(p)]
  BY ConcatProperties
<1> HIDE DEF r
<1>2. \A i \in (Len(p) + 1)..Len(r) : r[i] \in T
  BY <1>1
<1>3. /\ SubSeq(r, Len(p) + 1, Len(r)) \in Seq(T)
      /\ Len(SubSeq(r, Len(p) + 1, Len(r))) = Len(q)
      /\ \A i \in 1..Len(q) : SubSeq(r, Len(p) + 1, Len(r))[i] = r[Len(p) + i]
  <2>1. /\ SubSeq(r, Len(p) + 1, Len(r)) \in Seq(T)
        /\ Len(SubSeq(r, Len(p) + 1, Len(r))) =
              IF Len(p) + 1 <= Len(r) THEN Len(r) - (Len(p) + 1) + 1 ELSE 0
        /\ \A i \in 1..(Len(r) - (Len(p) + 1) + 1) :
              SubSeq(r, Len(p) + 1, Len(r))[i] = r[(Len(p) + 1) + i - 1]
    BY <1>1, <1>2, SubSeqProperties
  <2>2. Len(r) - (Len(p) + 1) + 1 = Len(q)
    BY <1>1
  <2>3. \A i \in 1..Len(q) : (Len(p) + 1) + i - 1 = Len(p) + i
    BY <1>1
  <2> QED  BY <1>1, <2>1, <2>2, <2>3
<1>4. \A i \in 1..Len(q) : r[Len(p) + i] = q[i]
  <2> SUFFICES ASSUME NEW i \in 1..Len(q) PROVE r[Len(p) + i] = q[i]
    OBVIOUS
  <2>1. Len(p) + i \in 1..Len(r) /\ ~(Len(p) + i <= Len(p)) /\ Len(p) + i - Len(p) = i
    BY <1>1
  <2> QED  BY <1>1, <2>1
<1>5. SubSeq(r, Len(p) + 1, Len(r)) = q
  BY <1>3, <1>4, SeqEqual
<1> QED  BY <1>5 DEF r
===============================================================================
