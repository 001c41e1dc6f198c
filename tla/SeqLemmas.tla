----------------------------- MODULE SeqLemmas -----------------------------
(* What the list operations of the models do to the elements of a sequence: *)
(* the facts that the proofs about queues and lists cite.                   *)
EXTENDS Integers, Sequences, SequencesExt, SequenceTheorems, FiniteSetTheorems,
        WellFoundedInduction, TLAPS

\* The element of a sequence at a position of its domain is of its type, and
\* a new last element extends the sequence by one.
LEMMA AppendElements ==
    ASSUME NEW S, NEW s \in Seq(S), NEW x \in S
    PROVE  /\ Append(s, x) \in Seq(S)
           /\ Len(Append(s, x)) = Len(s) + 1
           /\ DOMAIN Append(s, x) = 1..(Len(s) + 1)
           /\ \A i \in DOMAIN s : Append(s, x)[i] = s[i]
           /\ Append(s, x)[Len(s) + 1] = x
  OBVIOUS

\* The tail of a sequence holds the elements of the sequence after the first.
LEMMA TailElements ==
    ASSUME NEW S, NEW s \in Seq(S), s # << >>
    PROVE  /\ Tail(s) \in Seq(S) /\ Head(s) \in S
           /\ Len(Tail(s)) = Len(s) - 1
           /\ 1 \in DOMAIN s /\ Head(s) = s[1]
           /\ \A i \in DOMAIN Tail(s) : i + 1 \in DOMAIN s /\ Tail(s)[i] = s[i + 1]
  BY HeadTailProperties

\* RemoveAt shifts what follows the position one place down.
LEMMA RemoveAtElements ==
    ASSUME NEW S, NEW s \in Seq(S), NEW k \in DOMAIN s
    PROVE  /\ RemoveAt(s, k) \in Seq(S)
           /\ Len(RemoveAt(s, k)) = Len(s) - 1
           /\ \A i \in DOMAIN RemoveAt(s, k) :
                RemoveAt(s, k)[i] = IF i < k THEN s[i] ELSE s[i + 1]
  <1>0. k \in 1..Len(s) /\ Len(s) \in Nat
    BY LenProperties
  <1> DEFINE l == SubSeq(s, 1, k - 1)
             r == SubSeq(s, k + 1, Len(s))
  <1>1. l \in Seq(S) /\ Len(l) = k - 1 /\ \A i \in 1..(k - 1) : l[i] = s[i]
    <2>1. \A i \in 1..(k - 1) : s[i] \in S
      BY <1>0, ElementOfSeq
    <2>2. QED
      BY <2>1, <1>0, SubSeqProperties
  <1>2. /\ r \in Seq(S) /\ Len(r) = Len(s) - k
        /\ \A i \in 1..(Len(s) - k) : r[i] = s[k + i]
    <2>1. \A i \in (k + 1)..Len(s) : s[i] \in S
      BY <1>0, ElementOfSeq
    <2>2. QED
      BY <2>1, <1>0, SubSeqProperties
  <1>3. RemoveAt(s, k) = l \o r
    BY DEF RemoveAt
  <1>4. /\ l \o r \in Seq(S) /\ Len(l \o r) = Len(s) - 1
        /\ \A i \in 1..(Len(s) - 1) :
             (l \o r)[i] = IF i <= k - 1 THEN l[i] ELSE r[i - (k - 1)]
    <2> HIDE DEF l, r
    <2>1. Len(l) + Len(r) = Len(s) - 1
      BY <1>0, <1>1, <1>2
    <2>2. /\ l \o r \in Seq(S) /\ Len(l \o r) = Len(l) + Len(r)
          /\ \A i \in 1..(Len(l) + Len(r)) :
               (l \o r)[i] = IF i <= Len(l) THEN l[i] ELSE r[i - Len(l)]
      BY <1>1, <1>2, ConcatProperties, Zenon
    <2>3. QED
      BY <1>1, <2>1, <2>2
  <1>5. DOMAIN (l \o r) = 1..(Len(s) - 1)
    BY <1>4, LenProperties
  <1>6. \A i \in 1..(Len(s) - 1) : (l \o r)[i] = IF i < k THEN s[i] ELSE s[i + 1]
    <2> HIDE DEF l, r
    <2> TAKE i \in 1..(Len(s) - 1)
    <2>1. CASE i < k
      BY <2>1, <1>0, <1>1, <1>4
    <2>2. CASE ~(i < k)
      <3>1. r[i - (k - 1)] = s[k + (i - (k - 1))]
        BY <2>2, <1>0, <1>2
      <3>2. k + (i - (k - 1)) = i + 1
        BY <1>0
      <3>3. QED
        BY <2>2, <3>1, <3>2, <1>0, <1>4
    <2>3. QED
      BY <2>1, <2>2
  <1>7. QED
    BY <1>3, <1>4, <1>5, <1>6

\* RemoveAt leaves elements of the sequence only.
LEMMA RemoveAtSelects ==
    ASSUME NEW S, NEW s \in Seq(S), NEW k \in DOMAIN s
    PROVE  \A i \in DOMAIN RemoveAt(s, k) : \E j \in DOMAIN s : RemoveAt(s, k)[i] = s[j]
  <1> DEFINE r == RemoveAt(s, k)
  <1>1. /\ DOMAIN s = 1..Len(s) /\ Len(s) \in Nat
        /\ r \in Seq(S) /\ Len(r) = Len(s) - 1
        /\ \A i \in DOMAIN r : r[i] = IF i < k THEN s[i] ELSE s[i + 1]
    BY RemoveAtElements, LenProperties
  <1> HIDE DEF r
  <1>2. DOMAIN r = 1..(Len(s) - 1)
    BY <1>1, LenProperties
  <1>3. \A i \in DOMAIN r : \E j \in DOMAIN s : r[i] = s[j]
    BY <1>1, <1>2
  <1>4. QED
    BY <1>3 DEF r

\* No element of the sequence occurs twice.
Distinct(s) == \A i, j \in DOMAIN s : s[i] = s[j] => i = j

\* An element that is not in a distinct sequence can be appended to it.
LEMMA AppendDistinct ==
    ASSUME NEW S, NEW s \in Seq(S), NEW x \in S, Distinct(s), ~Contains(s, x)
    PROVE  Distinct(Append(s, x))
  <1>1. DOMAIN s = 1..Len(s) /\ Len(s) \in Nat
    BY LenProperties
  <1>2. \A i \in 1..Len(s) : s[i] # x
    BY DEF Contains
  <1>3. QED
    BY <1>1, <1>2, AppendElements DEF Distinct

\* Taking one element out keeps a sequence distinct, and takes every
\* occurrence of that element out and nothing else.
LEMMA RemoveAtDistinct ==
    ASSUME NEW S, NEW s \in Seq(S), NEW k \in DOMAIN s, Distinct(s)
    PROVE  /\ Distinct(RemoveAt(s, k))
           /\ \A i \in DOMAIN RemoveAt(s, k) :
                RemoveAt(s, k)[i] # s[k] /\ \E j \in DOMAIN s : RemoveAt(s, k)[i] = s[j]
  <1> DEFINE r == RemoveAt(s, k)
  <1>1. /\ DOMAIN s = 1..Len(s) /\ Len(s) \in Nat
        /\ r \in Seq(S) /\ Len(r) = Len(s) - 1
        /\ \A i \in DOMAIN r : r[i] = IF i < k THEN s[i] ELSE s[i + 1]
    BY RemoveAtElements, LenProperties
  <1> HIDE DEF r
  <1>2. DOMAIN r = 1..(Len(s) - 1)
    BY <1>1, LenProperties
  <1>3. Distinct(r)
    BY <1>1, <1>2 DEF Distinct
  <1>4. ASSUME NEW i \in DOMAIN r
        PROVE  r[i] # s[k] /\ \E j \in DOMAIN s : r[i] = s[j]
    BY <1>1, <1>2, <1>4 DEF Distinct
  <1>5. QED
    BY <1>3, <1>4 DEF r

\* The tail of a distinct sequence is distinct.
LEMMA TailDistinct ==
    ASSUME NEW S, NEW s \in Seq(S), s # << >>, Distinct(s)
    PROVE  Distinct(Tail(s))
  <1>1. \A i \in DOMAIN Tail(s) : i \in Int /\ i + 1 \in DOMAIN s /\ Tail(s)[i] = s[i + 1]
    BY TailElements, LenProperties
  <1>2. QED
    BY <1>1 DEF Distinct

\* A set of natural numbers that is not empty has a least one.
LEMMA LeastExists ==
    ASSUME NEW S, S \subseteq Nat, S # {}
    PROVE  \E i \in S : \A j \in S : i <= j
  <1> DEFINE R == OpToRel(<, Nat)
  <1>1. IsWellFoundedOn(R, Nat)
    BY NatLessThanWellFounded, Zenon
  <1>2. PICK i \in S : \A j \in S : ~(<<j, i>> \in R)
    <2> HIDE DEF R
    <2>1. QED
      BY <1>1, WFMin
  <1>3. \A a, b \in Nat : <<a, b>> \in R <=> a < b
    BY Zenon DEF OpToRel
  <1>4. \A j \in S : i <= j
    <2> HIDE DEF R
    <2>1. i \in Nat /\ \A j \in S : j \in Nat /\ ~(j < i)
      BY <1>2, <1>3
    <2>2. QED
      BY <2>1
  <1>5. QED
    BY <1>4

\* The steps of a recursion over 0..n, and the function they define from base.
Steps(n, D) == [1..n -> [D -> D]]
IsRecursion(f, n, D, base, step) ==
    f \in [0..n -> D] /\ f[0] = base /\ \A i \in 1..n : f[i] = step[i][f[i - 1]]

\* A base and a step for each position define a function.
LEMMA Recursion ==
    ASSUME NEW n, NEW D, NEW base, NEW step, n \in Nat, base \in D, step \in Steps(n, D)
    PROVE  \E f : IsRecursion(f, n, D, base, step)
  <1> USE DEF Steps
  <1> DEFINE Rec(f, m) == \A i \in 0..m : f[i] = IF i = 0 THEN base ELSE step[i][f[i - 1]]
             Failing == {m \in 0..n : ~ \E f \in [0..m -> D] : Rec(f, m)}
  <1>1. Failing = {}
    <2>1. SUFFICES ASSUME Failing # {} PROVE FALSE
      OBVIOUS
    <2>2. PICK m \in Failing : \A j \in Failing : m <= j
      <3>1. Failing \subseteq Nat
        OBVIOUS
      <3>2. QED
        BY <2>1, <3>1, LeastExists
    <2>3. CASE m = 0
      <3> DEFINE f0 == [i \in 0..0 |-> base]
      <3>1. f0 \in [0..0 -> D] /\ Rec(f0, 0)
        OBVIOUS
      <3>2. QED
        BY <2>2, <2>3, <3>1
    <2>4. CASE m # 0
      <3>0. m \in 0..n
        OBVIOUS
      <3>1. m \in 1..n /\ m - 1 \in 0..n /\ m - 1 \notin Failing
        <4> HIDE DEF Failing
        <4>1. m \in 1..n /\ m - 1 \in 0..n /\ ~(m <= m - 1)
          BY <2>4, <3>0
        <4>2. QED
          BY <2>2, <4>1
      <3>2. PICK f \in [0..(m - 1) -> D] : Rec(f, m - 1)
        BY <3>1
      <3> DEFINE g == [i \in 0..m |-> IF i = m THEN step[m][f[m - 1]] ELSE f[i]]
      <3>3. f[m - 1] \in D
        BY <3>1
      <3>4. g \in [0..m -> D]
        BY <3>1, <3>3
      <3>5. Rec(g, m)
        <4> HIDE DEF Failing
        <4> SUFFICES ASSUME NEW i \in 0..m
                     PROVE  g[i] = IF i = 0 THEN base ELSE step[i][g[i - 1]]
          OBVIOUS
        <4>1. CASE i = m
          BY <4>1, <3>1
        <4>2. CASE i # m
          BY <4>2, <3>1, <3>2
        <4>3. QED
          BY <4>1, <4>2
      <3>6. QED
        BY <3>4, <3>5, <2>2
    <2>5. QED
      BY <2>3, <2>4
  <1>2. PICK f \in [0..n -> D] : Rec(f, n)
    <2>1. n \in 0..n /\ n \notin Failing
      BY <1>1
    <2>2. QED
      BY <2>1
  <1>3. QED
    BY <1>2 DEF IsRecursion

\* A property that holds at 0 and goes from each position to the next.
LEMMA InductionTo ==
    ASSUME NEW n \in Nat, NEW P \in SUBSET Nat, 0 \in P, \A i \in 0..(n - 1) : i \in P => i + 1 \in P
    PROVE  \A i \in 0..n : i \in P
  <1> DEFINE Failing == {i \in 0..n : i \notin P}
  <1>1. SUFFICES ASSUME Failing # {} PROVE FALSE
    OBVIOUS
  <1>2. Failing \subseteq Nat
    OBVIOUS
  <1>3. PICK m \in Failing : \A j \in Failing : m <= j
    <2> HIDE DEF Failing
    <2>1. QED
      BY <1>1, <1>2, LeastExists
  <1>4. m \in 0..n /\ m \notin P
    OBVIOUS
  <1>5. m # 0 /\ m - 1 \in 0..(n - 1) /\ m - 1 \in 0..n /\ ~(m <= m - 1) /\ (m - 1) + 1 = m
    BY <1>4
  <1>6. m - 1 \in P
    BY <1>3, <1>5
  <1>7. QED
    BY <1>4, <1>5, <1>6

\* A list without repetitions is no longer than the set of what it lists.
LEMMA DistinctLength ==
    ASSUME NEW n \in Nat, NEW s \in Seq(1..n), Distinct(s)
    PROVE  Len(s) <= n
  <1>1. Len(s) \in Nat /\ DOMAIN s = 1..Len(s) /\ s \in [1..Len(s) -> 1..n]
    <2>1. \A i \in 1..Len(s) : s[i] \in 1..n
      BY ElementOfSeq
    <2>2. QED
      BY LenProperties
  <1>2. SUFFICES ASSUME ~(Len(s) <= n) PROVE FALSE
    OBVIOUS
  <1>3. /\ IsFiniteSet(1..Len(s)) /\ Cardinality(1..Len(s)) = Len(s)
        /\ IsFiniteSet(1..n) /\ Cardinality(1..n) = n
    <2>1. Len(s) >= 0 /\ n >= 0 /\ 1 \in Int /\ Len(s) \in Int /\ n \in Int
      BY <1>1
    <2>2. \A k \in Nat : IsFiniteSet(1..k) /\ Cardinality(1..k) = IF 1 > k THEN 0 ELSE k - 1 + 1
      BY FS_Interval
    <2>3. \A k \in Nat : (IF 1 > k THEN 0 ELSE k - 1 + 1) = k
      OBVIOUS
    <2>4. QED
      BY <1>1, <2>2, <2>3
  <1>4. Cardinality(1..n) < Cardinality(1..Len(s))
    BY <1>1, <1>2, <1>3
  <1>5. \E i, j \in 1..Len(s) : i # j /\ s[i] = s[j]
    BY <1>1, <1>3, <1>4, FS_PigeonHole
  <1>6. QED
    BY <1>1, <1>5 DEF Distinct

\* What list.remove leaves of a list without repetitions.
LEMMA RemoveFirstDistinct ==
    ASSUME NEW S, NEW s \in Seq(S), Distinct(s), NEW e
    PROVE  /\ RemoveFirst(s, e) \in Seq(S) /\ Distinct(RemoveFirst(s, e))
           /\ \A i \in DOMAIN RemoveFirst(s, e) :
                 RemoveFirst(s, e)[i] # e /\ \E j \in DOMAIN s : RemoveFirst(s, e)[i] = s[j]
  <1>1. DOMAIN s = 1..Len(s) /\ Len(s) \in Nat
    BY LenProperties
  <1>2. CASE \E i \in 1..Len(s) : s[i] = e
    <2> DEFINE I == {i \in 1..Len(s) : s[i] = e}
               k == CHOOSE i \in I : \A j \in I : i <= j
    <2>1. I \subseteq Nat /\ I # {}
      BY <1>1, <1>2
    <2>2. k \in I
      <3> HIDE DEF I
      <3>1. \E i \in I : \A j \in I : i <= j
        BY <2>1, LeastExists
      <3>2. QED
        BY <3>1
    <2>3. RemoveFirst(s, e) = RemoveAt(s, k)
      <3>1. RemoveFirst(s, e) = RemoveAt(s, IF I # {} THEN Min(I) ELSE 0)
        BY <1>2, Zenon DEF RemoveFirst, SelectInSeq
      <3>2. Min(I) = k
        BY DEF Min
      <3>3. QED
        BY <3>1, <3>2, <2>1
    <2>4. k \in DOMAIN s /\ s[k] = e
      BY <2>2, <1>1
    <2> HIDE DEF k
    <2>5. RemoveAt(s, k) \in Seq(S)
      BY <2>4, RemoveAtElements
    <2>6. /\ Distinct(RemoveAt(s, k))
          /\ \A i \in DOMAIN RemoveAt(s, k) :
                RemoveAt(s, k)[i] # e /\ \E j \in DOMAIN s : RemoveAt(s, k)[i] = s[j]
      BY <2>4, RemoveAtDistinct
    <2>7. QED
      BY <2>3, <2>5, <2>6
  <1>3. CASE ~ \E i \in 1..Len(s) : s[i] = e
    <2>1. RemoveFirst(s, e) = s
      BY <1>3 DEF RemoveFirst
    <2>2. QED
      BY <1>1, <1>3, <2>1
  <1>4. QED
    BY <1>2, <1>3

-----------------------------------------------------------------------------
(* FlattenSeq, which folds over a sequence of sequences, through the sequence of  *)
(* its partial results.                                                          *)

\* The concatenations of the first members of a sequence of sequences.
IsConcat(f, ss, S) ==
    /\ f \in [0..Len(ss) -> Seq(S)] /\ f[0] = <<>>
    /\ \A i \in 1..Len(ss) : f[i] = f[i - 1] \o ss[i]

\* FlattenSeq is the last of them.
LEMMA FlattenIsConcat ==
    ASSUME NEW S, NEW ss \in Seq(Seq(S)), NEW f, IsConcat(f, ss, S)
    PROVE  FlattenSeq(ss) = f[Len(ss)]
  <1> DEFINE n == Len(ss)
  <1>1. n \in Nat /\ \A i \in 1..n : ss[i] \in Seq(S)
    BY ElementOfSeq, LenProperties
  <1>2. CASE n = 0
    <2>1. ss = <<>>
      BY <1>2, EmptySeq
    <2>2. QED
      BY <1>2, <2>1 DEF FlattenSeq, IsConcat
  <1>3. CASE n # 0
    <2> DEFINE Flatten(g) == [i \in 1..n |-> IF i = 1 THEN ss[i] ELSE g[i - 1] \o ss[i]]
               flatten == CHOOSE g : g = Flatten(g)
               prefixes == [i \in 1..n |-> f[i]]
    <2>1. FlattenSeq(ss) = flatten[n]
      BY <1>3 DEF FlattenSeq
    <2>2. prefixes = Flatten(prefixes)
      <3>1. ASSUME NEW i \in 1..n
            PROVE  f[i] = IF i = 1 THEN ss[i] ELSE prefixes[i - 1] \o ss[i]
        <4>1. f[i] = f[i - 1] \o ss[i] /\ f[0] = <<>>
          BY DEF IsConcat
        <4>2. CASE i = 1
          <5>1. i - 1 = 0 /\ ss[i] \in Seq(S)
            BY <4>2, <1>1
          <5>2. <<>> \o ss[i] = ss[i]
            BY <5>1, ConcatEmptySeq
          <5>3. QED
            BY <4>1, <4>2, <5>1, <5>2
        <4>3. CASE i # 1
          <5>1. i - 1 \in 1..n
            BY <4>3, <1>1
          <5>2. QED
            BY <4>1, <4>3, <5>1
        <4>4. QED
          BY <4>2, <4>3
      <3>2. QED
        <4> HIDE DEF n
        <4>1. \A i \in 1..n : f[i] = IF i = 1 THEN ss[i] ELSE prefixes[i - 1] \o ss[i]
          BY <3>1
        <4>2. QED
          BY <4>1, Zenon
    <2>3. flatten = Flatten(flatten)
      <3> HIDE DEF prefixes, n
      <3>1. QED
        BY <2>2, Zenon
    <2>4. \A i \in 1..n : flatten[i] = IF i = 1 THEN ss[i] ELSE flatten[i - 1] \o ss[i]
      <3> HIDE DEF flatten, n
      <3>1. QED
        BY <2>3, Zenon
    <2> HIDE DEF flatten, prefixes
    <2> DEFINE P == {i \in Nat : i = 0 \/ i > n \/ flatten[i] = f[i]}
    <2>5. ASSUME NEW i \in 0..(n - 1), i \in P
          PROVE  i + 1 \in P
      <3>1. i + 1 \in 1..n /\ (i + 1) - 1 = i /\ i + 1 \in Nat
        BY <1>1
      <3>2. f[i + 1] = f[i] \o ss[i + 1] /\ f[0] = <<>>
        <4>1. f[i + 1] = f[(i + 1) - 1] \o ss[i + 1]
          BY <3>1 DEF IsConcat
        <4>2. QED
          BY <3>1, <4>1 DEF IsConcat
      <3>3. CASE i = 0
        <4>1. flatten[1] = ss[1] /\ 1 \in 1..n
          BY <2>4, <3>1, <3>3
        <4>2. f[1] = ss[1]
          <5>1. ss[1] \in Seq(S) /\ i + 1 = 1
            BY <3>3, <4>1, <1>1
          <5>2. <<>> \o ss[1] = ss[1]
            BY <5>1, ConcatEmptySeq
          <5>3. QED
            BY <3>2, <3>3, <5>1, <5>2
        <4>3. QED
          BY <3>1, <3>3, <4>1, <4>2
      <3>4. CASE i # 0
        <4>1. flatten[i] = f[i]
          BY <2>5, <3>1, <3>4, <1>1
        <4>2. i + 1 # 1
          BY <3>4
        <4>3. flatten[i + 1] = flatten[(i + 1) - 1] \o ss[i + 1]
          BY <2>4, <3>1, <4>2, Zenon
        <4>4. flatten[i + 1] = f[i + 1]
          BY <4>3, <3>1, <3>2, <4>1
        <4>5. QED
          BY <3>1, <4>4
      <3>5. QED
        BY <3>3, <3>4
    <2>6. 0 \in P /\ P \in SUBSET Nat
      OBVIOUS
    <2>7. \A i \in 0..n : i \in P
      <3> HIDE DEF P, n
      <3>1. QED
        BY <2>5, <2>6, <1>1, InductionTo
    <2>8. flatten[n] = f[n]
      BY <2>7, <1>1, <1>3
    <2>9. QED
      BY <2>1, <2>8
  <1>4. QED
    BY <1>2, <1>3

\* The concatenations exist.
LEMMA ConcatExists ==
    ASSUME NEW S, NEW ss \in Seq(Seq(S))
    PROVE  \E f : IsConcat(f, ss, S)
  <1> DEFINE n == Len(ss)
             step == [i \in 1..n |-> [t \in Seq(S) |-> t \o ss[i]]]
  <1>1. n \in Nat /\ \A i \in 1..n : ss[i] \in Seq(S)
    BY ElementOfSeq, LenProperties
  <1>2. step \in Steps(n, Seq(S))
    <2>1. \A i \in 1..n : \A t \in Seq(S) : t \o ss[i] \in Seq(S)
      BY <1>1, ConcatProperties
    <2> HIDE DEF n
    <2>2. QED
      BY <2>1 DEF Steps
  <1>3. <<>> \in Seq(S)
    BY EmptySeq
  <1>4. PICK f : IsRecursion(f, n, Seq(S), <<>>, step)
    <2> HIDE DEF n, step
    <2>1. QED
      BY <1>1, <1>2, <1>3, Recursion
  <1>5. ASSUME NEW i \in 1..n
        PROVE  f[i] = f[i - 1] \o ss[i]
    <2>1. i - 1 \in 0..n
      BY <1>1
    <2>2. f[i] = step[i][f[i - 1]] /\ f[i - 1] \in Seq(S)
      <3> HIDE DEF step, n
      <3>1. QED
        BY <1>4, <2>1 DEF IsRecursion
    <2>3. QED
      BY <2>2
  <1>6. QED
    BY <1>4, <1>5 DEF IsRecursion, IsConcat

\* A sequence of sequences is flattened to a sequence.
LEMMA FlattenType ==
    ASSUME NEW S, NEW ss \in Seq(Seq(S))
    PROVE  FlattenSeq(ss) \in Seq(S)
  <1>1. PICK f : IsConcat(f, ss, S)
    BY ConcatExists
  <1>2. Len(ss) \in 0..Len(ss)
    BY LenProperties
  <1>3. FlattenSeq(ss) = f[Len(ss)]
    BY <1>1, FlattenIsConcat
  <1>4. QED
    BY <1>1, <1>2, <1>3 DEF IsConcat

\* Nothing is flattened to nothing.
LEMMA FlattenEmpty == FlattenSeq(<<>>) = <<>>
  BY DEF FlattenSeq

Associates(S) == \A a, b, c \in Seq(S) : (a \o b) \o c = a \o (b \o c)
LEMMA ConcatAssociates == ASSUME NEW S PROVE Associates(S)
  <1>1. \A a, b, c \in Seq(S) : (a \o b) \o c = a \o (b \o c)
    <2> TAKE a, b, c \in Seq(S)
    <2>1. QED
      BY ConcatAssociative
  <1>2. QED
    BY <1>1, Zenon DEF Associates

EmptyIsNeutral(S) == \A a \in Seq(S) : a \o <<>> = a /\ <<>> \o a = a
LEMMA ConcatNothing == ASSUME NEW S PROVE EmptyIsNeutral(S)
  <1>1. \A a \in Seq(S) : a \o <<>> = a /\ <<>> \o a = a
    <2> TAKE a \in Seq(S)
    <2>1. QED
      BY ConcatEmptySeq
  <1>2. QED
    BY <1>1, Zenon DEF EmptyIsNeutral

\* A last member is concatenated to what the others are flattened to.
LEMMA FlattenAppend ==
    ASSUME NEW S, NEW ss \in Seq(Seq(S)), NEW t \in Seq(S)
    PROVE  FlattenSeq(Append(ss, t)) = FlattenSeq(ss) \o t
  <1> DEFINE n == Len(ss)
             st == Append(ss, t)
  <1>1. /\ n \in Nat /\ st \in Seq(Seq(S)) /\ Len(st) = n + 1
        /\ st[n + 1] = t /\ \A i \in 1..n : st[i] = ss[i]
    BY AppendProperties, LenProperties
  <1>2. PICK f : IsConcat(f, st, S)
    BY <1>1, ConcatExists
  <1> DEFINE g == [i \in 0..n |-> f[i]]
  <1> HIDE DEF st, n
  <1>3. /\ f \in [0..(n + 1) -> Seq(S)] /\ f[0] = <<>>
        /\ \A i \in 1..(n + 1) : f[i] = f[i - 1] \o st[i]
    BY <1>1, <1>2 DEF IsConcat
  <1>4. g \in [0..n -> Seq(S)] /\ g[0] = <<>>
    BY <1>1, <1>3
  <1>5. ASSUME NEW i \in 1..n
        PROVE  g[i] = g[i - 1] \o ss[i]
    <2>1. i \in 1..(n + 1) /\ i \in 0..n /\ i - 1 \in 0..n
      BY <1>1
    <2>2. QED
      BY <2>1, <1>1, <1>3
  <1>6. IsConcat(g, ss, S)
    <2> HIDE DEF g
    <2>1. QED
      BY <1>4, <1>5 DEF IsConcat, n
  <1>7. FlattenSeq(ss) = g[n] /\ n \in 0..n
    BY <1>6, <1>1, FlattenIsConcat DEF n
  <1>8. FlattenSeq(st) = f[n + 1]
    BY <1>1, <1>2, FlattenIsConcat
  <1>9. f[n + 1] = f[n] \o t
    <2>1. n + 1 \in 1..(n + 1) /\ (n + 1) - 1 = n
      BY <1>1
    <2>2. f[n + 1] = f[(n + 1) - 1] \o st[n + 1]
      BY <2>1, <1>3
    <2>3. QED
      BY <2>1, <2>2, <1>1
  <1>10. QED
    BY <1>7, <1>8, <1>9 DEF st

\* What is flattened in two halves.
LEMMA FlattenConcat ==
    ASSUME NEW S, NEW ss \in Seq(Seq(S)), NEW tt \in Seq(Seq(S))
    PROVE  FlattenSeq(ss \o tt) = FlattenSeq(ss) \o FlattenSeq(tt)
  <1> DEFINE m == Len(ss)
             n == Len(tt)
             st == ss \o tt
  <1>0. \A a, b, c \in Seq(S) : (a \o b) \o c = a \o (b \o c)
    <2>1. Associates(S)
      BY ConcatAssociates
    <2>2. QED
      BY <2>1, Zenon DEF Associates
  <1>1. /\ m \in Nat /\ n \in Nat /\ st \in Seq(Seq(S)) /\ Len(st) = m + n
        /\ \A i \in 1..(m + n) : st[i] = IF i <= m THEN ss[i] ELSE tt[i - m]
        /\ \A i \in 1..n : tt[i] \in Seq(S)
    BY ConcatProperties, LenProperties, ElementOfSeq
  <1>2. PICK f : IsConcat(f, ss, S)
    BY ConcatExists
  <1>3. PICK g : IsConcat(g, tt, S)
    BY ConcatExists
  <1> HIDE DEF st, m, n
  <1>4. /\ f \in [0..m -> Seq(S)] /\ f[0] = <<>>
        /\ \A i \in 1..m : f[i] = f[i - 1] \o ss[i]
        /\ FlattenSeq(ss) = f[m]
    BY <1>2, FlattenIsConcat DEF IsConcat, m
  <1>5. /\ g \in [0..n -> Seq(S)] /\ g[0] = <<>>
        /\ \A i \in 1..n : g[i] = g[i - 1] \o tt[i]
        /\ FlattenSeq(tt) = g[n]
    BY <1>3, FlattenIsConcat DEF IsConcat, n
  <1>6. f[m] \in Seq(S) /\ \A i \in 0..n : g[i] \in Seq(S)
    BY <1>1, <1>4, <1>5
  <1>7. f[m] \o <<>> = f[m]
    <2>1. EmptyIsNeutral(S)
      BY ConcatNothing
    <2>2. QED
      BY <2>1, <1>6, Zenon DEF EmptyIsNeutral
  <1> DEFINE h == [i \in 0..(m + n) |-> IF i <= m THEN f[i] ELSE f[m] \o g[i - m]]
  <1>8. h \in [0..(m + n) -> Seq(S)]
    <2>1. ASSUME NEW i \in 0..(m + n)
          PROVE  (IF i <= m THEN f[i] ELSE f[m] \o g[i - m]) \in Seq(S)
      <3>1. CASE i <= m
        BY <3>1, <1>1, <1>4
      <3>2. CASE ~(i <= m)
        <4>1. i - m \in 0..n
          BY <3>2, <1>1
        <4>2. f[m] \o g[i - m] \in Seq(S)
          BY <4>1, <1>6, ConcatProperties
        <4>3. QED
          BY <3>2, <4>2
      <3>3. QED
        BY <3>1, <3>2
    <2>2. QED
      BY <2>1
  <1>9. h[0] = <<>>
    BY <1>1, <1>4
  <1>10. ASSUME NEW i \in 1..(m + n)
        PROVE  h[i] = h[i - 1] \o st[i]
    <2>0. i \in 0..(m + n) /\ i - 1 \in 0..(m + n) /\ i \in Int
      BY <1>1
    <2>1. CASE i <= m
      <3>1. i \in 1..m /\ i - 1 <= m
        BY <2>1, <1>1
      <3>2. h[i] = f[i] /\ h[i - 1] = f[i - 1] /\ st[i] = ss[i]
        BY <2>0, <2>1, <3>1, <1>1
      <3>3. f[i] = f[i - 1] \o ss[i]
        BY <3>1, <1>4
      <3>4. QED
        BY <3>2, <3>3
    <2>2. CASE ~(i <= m)
      <3> DEFINE k == i - m
      <3>1. k \in 1..n /\ k - 1 \in 0..n /\ k \in 0..n /\ (i - 1) - m = k - 1
        BY <2>2, <1>1
      <3>2. h[i] = f[m] \o g[k] /\ st[i] = tt[k]
        BY <2>0, <2>2, <1>1
      <3>3. h[i - 1] = f[m] \o g[k - 1]
        <4>1. CASE i - 1 <= m
          <5>1. i - 1 = m /\ k - 1 = 0
            BY <4>1, <2>2, <1>1
          <5>2. h[i - 1] = f[m]
            BY <4>1, <5>1, <2>0
          <5>3. f[m] \o g[k - 1] = f[m]
            <6>1. g[k - 1] = <<>>
              BY <5>1, <1>5
            <6> HIDE DEF k
            <6>2. QED
              BY <6>1, <1>7, Zenon
          <5>4. QED
            BY <5>2, <5>3
        <4>2. CASE ~(i - 1 <= m)
          BY <4>2, <2>0, <3>1
        <4>3. QED
          BY <4>1, <4>2
      <3>4. g[k] = g[k - 1] \o tt[k] /\ g[k - 1] \in Seq(S) /\ tt[k] \in Seq(S)
        BY <3>1, <1>1, <1>5
      <3>5. f[m] \o (g[k - 1] \o tt[k]) = (f[m] \o g[k - 1]) \o tt[k]
        <4> HIDE DEF k
        <4>1. QED
          BY <1>0, <3>4, <1>6, Zenon
      <3> HIDE DEF h, k
      <3>6. QED
        BY <3>2, <3>3, <3>4, <3>5
    <2>3. QED
      BY <2>1, <2>2
  <1>11. IsConcat(h, st, S)
    <2> HIDE DEF h
    <2>1. QED
      BY <1>1, <1>8, <1>9, <1>10 DEF IsConcat
  <1>12. h[m + n] = f[m] \o g[n]
    <2>1. CASE n = 0
      <3>1. h[m + n] = f[m]
        BY <2>1, <1>1
      <3>2. f[m] \o g[n] = f[m]
        <4>1. g[n] = <<>>
          BY <2>1, <1>5
        <4>2. QED
          BY <4>1, <1>7, Zenon
      <3>3. QED
        BY <3>1, <3>2
    <2>2. CASE n # 0
      <3>1. ~(m + n <= m) /\ m + n \in 0..(m + n) /\ (m + n) - m = n
        BY <2>2, <1>1
      <3>2. QED
        BY <3>1
    <2>3. QED
      BY <2>1, <2>2
  <1>13. FlattenSeq(st) = h[m + n]
    <2> HIDE DEF h
    <2>1. QED
      BY <1>1, <1>11, FlattenIsConcat
  <1>14. QED
    BY <1>4, <1>5, <1>12, <1>13 DEF st

\* Empty sequences are flattened to the empty one.
LEMMA FlattenNothing ==
    ASSUME NEW S, NEW ss \in Seq(Seq(S)), \A i \in 1..Len(ss) : ss[i] = <<>>
    PROVE  FlattenSeq(ss) = <<>>
  <1> DEFINE f == [i \in 0..Len(ss) |-> <<>>]
  <1>1. Len(ss) \in Nat /\ <<>> \in Seq(S)
    BY LenProperties, EmptySeq
  <1>2. f \in [0..Len(ss) -> Seq(S)] /\ f[0] = <<>> /\ f[Len(ss)] = <<>>
    BY <1>1
  <1>3. ASSUME NEW i \in 1..Len(ss)
        PROVE  f[i] = f[i - 1] \o ss[i]
    <2>1. i \in 0..Len(ss) /\ i - 1 \in 0..Len(ss)
      BY <1>1
    <2>2. <<>> \o <<>> = <<>>
      BY <1>1, ConcatEmptySeq
    <2>3. QED
      BY <2>1, <2>2
  <1>4. IsConcat(f, ss, S)
    <2> HIDE DEF f
    <2>1. QED
      BY <1>2, <1>3 DEF IsConcat
  <1>5. QED
    <2> HIDE DEF f
    <2>1. QED
      BY <1>2, <1>4, FlattenIsConcat
=============================================================================
