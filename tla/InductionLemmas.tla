-------------------------- MODULE InductionLemmas --------------------------
(***************************************************************************)
(* Induction for the proofs about data. The theorem of the library takes   *)
(* the property as an operator; here it is a set of numbers, which a       *)
(* caller can name. From it: what a fold over a sequence computes, and the *)
(* powers of two.                                                          *)
(***************************************************************************)
EXTENDS Integers, Sequences, SequencesExt, FiniteSetTheorems, WellFoundedInduction, SequenceTheorems, TLAPS

LessThan == {p \in Nat \X Nat : p[1] < p[2]}

\* No set of numbers goes down for ever.
LEMMA SmallerIsWellFounded == IsWellFoundedOn(LessThan, Nat)
  BY NatLessThanWellFounded DEF LessThan, OpToRel

\* A set of numbers has a least one.
LEMMA LeastNumber ==
  ASSUME NEW T, T \subseteq Nat, T # {}
  PROVE  \E x \in T : \A y \in T : x <= y
<1>1. PICK x \in T : \A y \in T : <<y, x>> \notin LessThan
  BY SmallerIsWellFounded, WFMin
<1>2. \A y \in T : x <= y
  <2> TAKE y \in T
  <2>1. x \in Nat /\ y \in Nat /\ ~(y < x)
    BY <1>1 DEF LessThan
  <2> QED
    BY <2>1
<1> QED
  BY <1>2

\* A set with 0 in it, and with n + 1 for each n, has every number.
LEMMA Induction ==
  ASSUME NEW T, 0 \in T, \A n \in Nat : n \in T => n + 1 \in T
  PROVE  \A n \in Nat : n \in T
<1> SUFFICES ASSUME Nat \ T # {} PROVE FALSE
  OBVIOUS
<1>1. PICK x \in Nat \ T : \A y \in Nat \ T : x <= y
  BY LeastNumber
<1>2. x - 1 \in Nat /\ x - 1 + 1 = x
  BY <1>1
<1>3. x - 1 \in T
  BY <1>1, <1>2
<1> QED
  BY <1>1, <1>2, <1>3

----------------------------------------------------------------------------
(* Folds. *)

\* The greatest number of 1..n is n.
LEMMA GreatestOfRun ==
  ASSUME NEW n \in Nat \ {0}
  PROVE  Max(1..n) = n /\ (1..n) \ {n} = 1..(n - 1)
  BY DEF Max

\* A set of numbers with a bound has a greatest one.
LEMMA GreatestNumber ==
  ASSUME NEW n \in Nat, NEW S \in SUBSET (1..n), S # {}
  PROVE  Max(S) \in S /\ \A i \in S : i <= Max(S)
<1> DEFINE T == {m \in Nat : \A j \in S : j <= m}
<1>1. T \subseteq Nat /\ n \in T
  OBVIOUS
<1>2. PICK x \in T : \A y \in T : x <= y
  BY <1>1, LeastNumber
<1>3. x \in S
  <2> SUFFICES ASSUME x \notin S PROVE FALSE
    OBVIOUS
  <2>1. \A j \in S : j <= x - 1 /\ 1 <= j
    BY <1>2
  <2>2. x - 1 \in Nat
    <3>1. PICK j \in S : j <= x - 1 /\ 1 <= j
      BY <2>1
    <3> QED
      BY <3>1, x \in Nat, j \in Nat
  <2>3. x - 1 \in T
    BY <2>1, <2>2
  <2> QED
    BY <1>2, <2>3
<1>4. x \in S /\ \A j \in S : x >= j
  BY <1>2, <1>3
<1> QED
  BY <1>4 DEF Max

\* The states that a sequence of things takes base through, by the things taken.
FoldStep(step, base, seq, f, s) ==
  f[s] = IF s = {} THEN base ELSE step[<<f[s \ {Max(s)}], seq[Max(s)]>>]
FoldsTo(States, step, base, seq, n, f) ==
  f \in [SUBSET (1..n) -> States] /\ \A s \in SUBSET (1..n) : FoldStep(step, base, seq, f, s)

\* One more thing.
LEMMA FoldGrows ==
  ASSUME NEW States, NEW Things, NEW step \in [States \X Things -> States],
         NEW base \in States, NEW k \in Nat, NEW seq \in [1..k -> Things],
         NEW n \in Nat, n < k, NEW f, FoldsTo(States, step, base, seq, n, f)
  PROVE  \E g : FoldsTo(States, step, base, seq, n + 1, g)
<1> DEFINE g == [s \in SUBSET (1..(n + 1)) |->
                   IF s = {} THEN base ELSE step[<<f[s \ {Max(s)}], seq[Max(s)]>>]]
<1>1. ASSUME NEW s \in SUBSET (1..(n + 1)), s # {}
      PROVE  s \ {Max(s)} \in SUBSET (1..n) /\ Max(s) \in 1..k
  <2>1. n + 1 \in Nat
    OBVIOUS
  <2>2. Max(s) \in s /\ \A i \in s : i <= Max(s)
    BY <1>1, <2>1, GreatestNumber
  <2> HIDE DEF g
  <2>3. Max(s) \in 1..(n + 1)
    BY <2>2
  <2>4. \A i \in s \ {Max(s)} : i \in 1..n
    BY <2>2, <2>3
  <2>5. Max(s) \in 1..k
    BY <2>3
  <2>6. s \ {Max(s)} \in SUBSET (1..n)
    BY <2>4, Zenon
  <2> QED
    BY <2>5, <2>6
<1>2. \A s \in SUBSET (1..(n + 1)) : g[s] \in States
  BY <1>1 DEF FoldsTo
<1>3. \A s \in SUBSET (1..n) : s \in SUBSET (1..(n + 1))
  OBVIOUS
<1>4. \A s \in SUBSET (1..n) : g[s] = f[s]
  BY <1>3 DEF FoldsTo, FoldStep
<1>5. \A s \in SUBSET (1..(n + 1)) : FoldStep(step, base, seq, g, s)
  BY <1>1, <1>4 DEF FoldStep
<1>6. g \in [SUBSET (1..(n + 1)) -> States]
  BY <1>2
<1> HIDE DEF g
<1>7. FoldsTo(States, step, base, seq, n + 1, g)
  BY <1>5, <1>6 DEF FoldsTo
<1> QED
  BY <1>7

\* A sequence of things of any length takes base somewhere.
LEMMA FoldExists ==
  ASSUME NEW States, NEW Things, NEW step \in [States \X Things -> States],
         NEW base \in States, NEW k \in Nat, NEW seq \in [1..k -> Things]
  PROVE  \E f : FoldsTo(States, step, base, seq, k, f)
<1> DEFINE T == {n \in Nat : n <= k => \E f : FoldsTo(States, step, base, seq, n, f)}
<1>1. 0 \in T
  <2> DEFINE f == [s \in SUBSET (1..0) |-> base]
  <2>1. \A s \in SUBSET (1..0) : s = {}
    OBVIOUS
  <2>2. FoldsTo(States, step, base, seq, 0, f)
    BY <2>1 DEF FoldsTo, FoldStep
  <2> QED
    BY <2>2, Zenon
<1>2. ASSUME NEW n \in Nat, n \in T PROVE n + 1 \in T
  <2> SUFFICES ASSUME n + 1 <= k PROVE \E f : FoldsTo(States, step, base, seq, n + 1, f)
    OBVIOUS
  <2>1. n < k /\ n <= k
    OBVIOUS
  <2>2. PICK f : FoldsTo(States, step, base, seq, n, f)
    BY <1>2, <2>1, Zenon
  <2> QED
    BY <2>1, <2>2, FoldGrows
<1>3. k \in T
  <2> HIDE DEF T
  <2> QED
    BY <1>1, <1>2, Induction
<1>4. k <= k
  OBVIOUS
<1> QED
  BY <1>3, <1>4, Zenon

\* Such a fold goes through the things in their order.
LEMMA FoldGoesThrough ==
  ASSUME NEW States, NEW step, NEW base, NEW k \in Nat, NEW seq,
         NEW f, FoldsTo(States, step, base, seq, k, f)
  PROVE  /\ \A n \in 0..k : f[1..n] \in States
         /\ f[1..0] = base
         /\ \A n \in 1..k : f[1..n] = step[<<f[1..(n - 1)], seq[n]>>]
<1>1. \A n \in 0..k : (1..n) \in SUBSET (1..k)
  OBVIOUS
<1>2. f[1..0] = base
  <2>1. 1..0 = {}
    OBVIOUS
  <2> QED
    BY <1>1, <2>1 DEF FoldsTo, FoldStep
<1>3. ASSUME NEW n \in 1..k PROVE f[1..n] = step[<<f[1..(n - 1)], seq[n]>>]
  <2>1. 1..n # {} /\ n \in Nat \ {0} /\ (1..n) \in SUBSET (1..k)
    BY <1>1
  <2>2. Max(1..n) = n /\ (1..n) \ {n} = 1..(n - 1)
    BY <2>1, GreatestOfRun
  <2> QED
    BY <2>1, <2>2 DEF FoldsTo, FoldStep
<1> QED
  BY <1>1, <1>2, <1>3 DEF FoldsTo

\* SetToSeq() names every element once.
LEMMA SetToSeqCovers ==
  ASSUME NEW S, IsFiniteSet(S)
  PROVE  /\ SetToSeq(S) \in [1..Cardinality(S) -> S] /\ Cardinality(S) \in Nat
         /\ \A x \in S : \E i \in 1..Cardinality(S) : SetToSeq(S)[i] = x
         /\ \A i, j \in 1..Cardinality(S) : SetToSeq(S)[i] = SetToSeq(S)[j] => i = j
<1> DEFINE D == 1..Cardinality(S)
<1>1. Cardinality(S) \in Nat /\ ExistsBijection(D, S)
  BY FS_CardinalityType
<1>2. PICK g : g \in Bijection(D, S)
  BY <1>1 DEF ExistsBijection
<1>3. g \in [D -> S] /\ IsInjective(g)
  BY <1>2 DEF Bijection, Injection
<1> DEFINE f == SetToSeq(S)
<1>4. f \in [D -> S] /\ IsInjective(f)
  BY <1>3 DEF SetToSeq
<1>5. f \in Injection(D, S)
  BY <1>4 DEF Injection
<1>6. IsFiniteSet(D) /\ Cardinality(D) = Cardinality(S)
  BY <1>1, FS_Interval
<1>7. f \in Surjection(D, S)
  BY <1>5, <1>6, FS_Injection
<1>8. \A x \in S : \E i \in D : f[i] = x
  BY <1>7 DEF Surjection
<1>9. \A i, j \in D : f[i] = f[j] => i = j
  BY <1>4 DEF IsInjective
<1> QED
  BY <1>1, <1>4, <1>8, <1>9

----------------------------------------------------------------------------
(* Sequences, and the sequences they join. *)

\* A set of numbers with a bound has a least and a greatest one.
LEMMA LeastAndGreatest ==
  ASSUME NEW S \in SUBSET Nat, S # {}, NEW b \in Nat, \A i \in S : i <= b
  PROVE  /\ Max(S) \in S /\ \A i \in S : i <= Max(S)
         /\ Min(S) \in S /\ \A i \in S : Min(S) <= i
<1> DEFINE T == {m \in Nat : \A j \in S : j <= m}
<1>1. T \subseteq Nat /\ b \in T
  OBVIOUS
<1>2. PICK x \in T : \A y \in T : x <= y
  BY <1>1, LeastNumber
<1>3. x \in S
  <2> SUFFICES ASSUME x \notin S PROVE FALSE
    OBVIOUS
  <2>1. \A j \in S : j <= x - 1 /\ 0 <= j
    BY <1>2
  <2>2. x - 1 \in Nat
    <3>1. PICK j \in S : j <= x - 1 /\ 0 <= j
      BY <2>1
    <3> QED
      BY <3>1, x \in Nat, j \in Nat
  <2>3. x - 1 \in T
    BY <2>1, <2>2
  <2> QED
    BY <1>2, <2>3
<1>4. x \in S /\ \A j \in S : x >= j
  BY <1>2, <1>3
<1>5. Max(S) \in S /\ \A i \in S : Max(S) >= i
  BY <1>4 DEF Max
<1>6. \E z \in S : \A j \in S : z <= j
  BY LeastNumber
<1>7. Min(S) \in S /\ \A i \in S : Min(S) <= i
  BY <1>6 DEF Min
<1>8. \A i \in S : i <= Max(S)
  BY <1>5
<1> QED
  BY <1>5, <1>7, <1>8

\* A sequence is its head and its tail.
LEMMA HeadAndTail ==
  ASSUME NEW S, NEW s \in Seq(S), s # <<>>
  PROVE  Tail(s) \in Seq(S) /\ Range(s) = {Head(s)} \cup Range(Tail(s)) /\ Range(s) \subseteq S
<1>1. DOMAIN s = 1..Len(s) /\ Len(s) \in Nat /\ Len(s) # 0 /\ Tail(s) \in Seq(S) /\ DOMAIN Tail(s) = 1..(Len(s) - 1)
  OBVIOUS
<1>2. Head(s) = s[1] /\ \A i \in 1..(Len(s) - 1) : Tail(s)[i] = s[i + 1]
  OBVIOUS
<1> DEFINE t == Tail(s)
<1> HIDE DEF t
<1>3. \A x \in Range(s) : x = Head(s) \/ x \in Range(t)
  <2> SUFFICES ASSUME NEW i \in 1..Len(s) PROVE s[i] = Head(s) \/ s[i] \in Range(t)
    BY <1>1, Zenon DEF Range
  <2>1. i = 1 \/ (i - 1 \in 1..(Len(s) - 1) /\ i - 1 + 1 = i)
    BY <1>1
  <2>2. i = 1 \/ (i - 1 \in DOMAIN t /\ t[i - 1] = s[i])
    BY <1>1, <1>2, <2>1 DEF t
  <2> QED
    BY <1>2, <2>2, Zenon DEF Range
<1>4. \A x \in Range(t) : x \in Range(s)
  <2> SUFFICES ASSUME NEW i \in 1..(Len(s) - 1) PROVE t[i] \in Range(s)
    BY <1>1, Zenon DEF Range, t
  <2>1. i + 1 \in 1..Len(s) /\ t[i] = s[i + 1]
    BY <1>1, <1>2 DEF t
  <2> QED
    BY <1>1, <2>1, Zenon DEF Range
<1>5. Head(s) \in Range(s)
  <2>1. 1 \in 1..Len(s)
    BY <1>1
  <2> QED
    BY <1>1, <1>2, <2>1, Zenon DEF Range
<1>6. \A i \in 1..Len(s) : s[i] \in S
  OBVIOUS
<1>7. Range(s) \subseteq S
  BY <1>1, <1>6, Zenon DEF Range
<1> QED
  BY <1>1, <1>3, <1>4, <1>5, <1>7 DEF t

\* The numbers of a sequence have a bound.
LEMMA BoundOfSequence ==
  ASSUME NEW s \in Seq(Nat)
  PROVE  \E b \in Nat : \A i \in DOMAIN s : s[i] <= b
<1> DEFINE T == {n \in Nat : n <= Len(s) => \E b \in Nat : \A i \in 1..n : s[i] <= b}
<1>1. 0 \in T
  <2>1. \A i \in 1..0 : s[i] <= 0
    OBVIOUS
  <2> QED
    BY <2>1
<1>2. ASSUME NEW n \in Nat, n \in T PROVE n + 1 \in T
  <2> SUFFICES ASSUME n + 1 <= Len(s) PROVE \E b \in Nat : \A i \in 1..(n + 1) : s[i] <= b
    OBVIOUS
  <2>1. PICK b \in Nat : \A i \in 1..n : s[i] <= b
    BY <1>2
  <2>2. s[n + 1] \in Nat
    OBVIOUS
  <2>3. b + s[n + 1] \in Nat /\ \A i \in 1..(n + 1) : s[i] <= b + s[n + 1]
    <3>1. \A i \in 1..n : s[i] <= b /\ s[i] \in Nat
      BY <2>1
    <3> QED
      BY <2>2, <3>1
  <2> QED
    BY <2>3
<1>3. Len(s) \in T
  <2>1. Len(s) \in Nat
    OBVIOUS
  <2> HIDE DEF T
  <2> QED
    BY <1>1, <1>2, <2>1, Induction
<1>4. \E b \in Nat : \A i \in 1..Len(s) : s[i] <= b
  BY <1>3
<1>5. DOMAIN s = 1..Len(s)
  OBVIOUS
<1> QED
  BY <1>4, <1>5, Zenon

LEMMA JoinedRange ==
  ASSUME NEW S, NEW s \in Seq(S), NEW t \in Seq(S)
  PROVE  s \o t \in Seq(S) /\ Range(s \o t) = Range(s) \cup Range(t)
<1> DEFINE st == s \o t
<1>1. st \in Seq(S) /\ DOMAIN st = 1..(Len(s) + Len(t)) /\ DOMAIN s = 1..Len(s) /\ DOMAIN t = 1..Len(t)
      /\ Len(s) \in Nat /\ Len(t) \in Nat
  OBVIOUS
<1>2. \A i \in 1..(Len(s) + Len(t)) : st[i] = IF i <= Len(s) THEN s[i] ELSE t[i - Len(s)]
  OBVIOUS
<1> HIDE DEF st
<1>3. ASSUME NEW i \in DOMAIN s PROVE i \in DOMAIN st /\ st[i] = s[i]
  BY <1>1, <1>2
<1>4. ASSUME NEW i \in DOMAIN t PROVE i + Len(s) \in DOMAIN st /\ st[i + Len(s)] = t[i]
  <2>1. i + Len(s) \in 1..(Len(s) + Len(t)) /\ ~(i + Len(s) <= Len(s)) /\ i + Len(s) - Len(s) = i
    BY <1>1
  <2> QED
    BY <1>1, <1>2, <2>1
<1>5. ASSUME NEW i \in DOMAIN st
      PROVE  \/ i \in DOMAIN s /\ st[i] = s[i]
             \/ i - Len(s) \in DOMAIN t /\ st[i] = t[i - Len(s)]
  <2>1. i \in 1..Len(s) \/ (i - Len(s) \in 1..Len(t) /\ ~(i <= Len(s)))
    BY <1>1
  <2> QED
    BY <1>1, <1>2, <2>1
<1>6. \A x \in Range(st) : x \in Range(s) \cup Range(t)
  BY <1>5, Zenon DEF Range
<1>7. \A x \in Range(s) : x \in Range(st)
  BY <1>3, Zenon DEF Range
<1>8. \A x \in Range(t) : x \in Range(st)
  BY <1>4, Zenon DEF Range
<1> QED
  BY <1>1, <1>6, <1>7, <1>8 DEF st

\* What FlattenSeq() has joined after the first, the second, ... of its sequences.
Joining(seqs, k, f) == f = [i \in 1..k |-> IF i = 1 THEN seqs[i] ELSE f[i - 1] \o seqs[i]]

LEMMA JoiningGrows ==
  ASSUME NEW seqs, NEW k \in Nat, NEW f, Joining(seqs, k, f)
  PROVE  \E g : Joining(seqs, k + 1, g)
<1> DEFINE g == [i \in 1..(k + 1) |-> IF i = 1 THEN seqs[i] ELSE f[i - 1] \o seqs[i]]
           h == [i \in 1..k |-> IF i = 1 THEN seqs[i] ELSE f[i - 1] \o seqs[i]]
<1>1. f = h
  BY DEF Joining
<1>2. \A i \in 1..k : g[i] = h[i]
  OBVIOUS
<1>3. \A i \in 1..k : g[i] = f[i]
  <2> HIDE DEF g, h
  <2> QED
    BY <1>1, <1>2
<1>4. \A i \in 1..(k + 1) : i = 1 \/ i - 1 \in 1..k
  OBVIOUS
<1> DEFINE g2 == [i \in 1..(k + 1) |-> IF i = 1 THEN seqs[i] ELSE g[i - 1] \o seqs[i]]
<1>5. \A i \in 1..(k + 1) : (IF i = 1 THEN seqs[i] ELSE f[i - 1] \o seqs[i]) = (IF i = 1 THEN seqs[i] ELSE g[i - 1] \o seqs[i])
  <2> HIDE DEF g
  <2> QED
    BY <1>3, <1>4
<1>6. g = g2
  BY <1>5
<1>7. Joining(seqs, k + 1, g)
  <2> HIDE DEF g
  <2> QED
    BY <1>6, Zenon DEF Joining
<1> QED
  BY <1>7, Zenon

LEMMA JoiningExists ==
  ASSUME NEW seqs, NEW n \in Nat
  PROVE  \E f : Joining(seqs, n, f)
<1> DEFINE T == {k \in Nat : \E f : Joining(seqs, k, f)}
<1>1. 0 \in T
  <2> DEFINE f == [i \in 1..0 |-> <<>>]
  <2>1. f = [i \in 1..0 |-> IF i = 1 THEN seqs[i] ELSE f[i - 1] \o seqs[i]]
    OBVIOUS
  <2> HIDE DEF f
  <2>2. Joining(seqs, 0, f)
    BY <2>1, Zenon DEF Joining
  <2>3. 0 \in Nat
    OBVIOUS
  <2> QED
    BY <2>2, <2>3, Zenon
<1>2. ASSUME NEW k \in Nat, k \in T PROVE k + 1 \in T
  <2>1. PICK f : Joining(seqs, k, f)
    BY <1>2, Zenon
  <2>2. \E g : Joining(seqs, k + 1, g)
    BY <2>1, JoiningGrows
  <2>3. k + 1 \in Nat
    OBVIOUS
  <2> QED
    BY <2>2, <2>3, Zenon
<1>3. n \in T
  <2> HIDE DEF T
  <2> QED
    BY <1>1, <1>2, Induction
<1> QED
  BY <1>3, Zenon

\* FlattenSeq() joins one sequence after the other.
JoinedBy(f, seqs, n) ==
  /\ FlattenSeq(seqs) = f[n] /\ f[1] = seqs[1]
  /\ \A i \in 1..n : i # 1 => f[i] = f[i - 1] \o seqs[i]

LEMMA JoinsInTurn ==
  ASSUME NEW n \in Nat \ {0}, NEW seqs, Len(seqs) = n
  PROVE  \E f : JoinedBy(f, seqs, n)
<1>1. PICK f : Joining(seqs, n, f) /\ FlattenSeq(seqs) = f[n]
  <2> DEFINE F == CHOOSE f : f = [i \in 1..n |-> IF i = 1 THEN seqs[i] ELSE f[i - 1] \o seqs[i]]
  <2>1. n # 0
    OBVIOUS
  <2>2. FlattenSeq(seqs) = F[n]
    BY <2>1, Zenon DEF FlattenSeq
  <2>3. \E f : f = [i \in 1..n |-> IF i = 1 THEN seqs[i] ELSE f[i - 1] \o seqs[i]]
    BY JoiningExists, Zenon DEF Joining
  <2>4. F = [i \in 1..n |-> IF i = 1 THEN seqs[i] ELSE F[i - 1] \o seqs[i]]
    BY <2>3, Zenon
  <2> HIDE DEF F
  <2>5. Joining(seqs, n, F)
    BY <2>4, Zenon DEF Joining
  <2> QED
    BY <2>2, <2>5, Zenon
<1> DEFINE g == [i \in 1..n |-> IF i = 1 THEN seqs[i] ELSE f[i - 1] \o seqs[i]]
<1>2. f = g
  BY <1>1, Zenon DEF Joining
<1>3. g[1] = seqs[1] /\ \A i \in 1..n : i # 1 => g[i] = f[i - 1] \o seqs[i]
  OBVIOUS
<1> HIDE DEF g
<1>4. f[1] = seqs[1] /\ \A i \in 1..n : i # 1 => f[i] = f[i - 1] \o seqs[i]
  BY <1>2, <1>3
<1> QED
  BY <1>1, <1>4, Zenon DEF JoinedBy

\* What FlattenSeq() joins is what its sequences have.
LEMMA Flattened ==
  ASSUME NEW S, NEW n \in Nat, NEW seqs \in [1..n -> Seq(S)]
  PROVE  /\ FlattenSeq(seqs) \in Seq(S)
         /\ Range(FlattenSeq(seqs)) = UNION {Range(seqs[i]) : i \in 1..n}
<1>1. Len(seqs) = n
  OBVIOUS
<1>2. CASE n = 0
  <2>1. FlattenSeq(seqs) = seqs /\ seqs = <<>>
    BY <1>1, <1>2 DEF FlattenSeq
  <2>2. 1..n = {} /\ Range(<<>>) = {} /\ <<>> \in Seq(S)
    BY <1>2 DEF Range
  <2>3. UNION {Range(seqs[i]) : i \in 1..n} = {}
    BY <2>2
  <2> QED
    BY <2>1, <2>2, <2>3
<1>3. CASE n # 0
  <2>0. n \in Nat \ {0}
    BY <1>3
  <2>1. PICK f : JoinedBy(f, seqs, n)
    BY <1>1, <2>0, JoinsInTurn
  <2>2. FlattenSeq(seqs) = f[n] /\ f[1] = seqs[1] /\ \A i \in 1..n : i # 1 => f[i] = f[i - 1] \o seqs[i]
    BY <2>1, Zenon DEF JoinedBy
  <2> DEFINE Has(k) == f[k] \in Seq(S) /\ Range(f[k]) = UNION {Range(seqs[i]) : i \in 1..k}
             U == {k \in Nat : k + 1 <= n => Has(k + 1)}
  <2>3. 0 \in U
    <3>1. 1..1 = {1} /\ 0 + 1 = 1 /\ 1 \in 1..n
      BY <1>3
    <3>2. Has(1)
      BY <2>2, <3>1
    <3> HIDE DEF Has
    <3> QED
      BY <3>1, <3>2
  <2>4. ASSUME NEW k \in Nat, k \in U PROVE k + 1 \in U
    <3> SUFFICES ASSUME k + 1 + 1 <= n PROVE Has(k + 1 + 1)
      OBVIOUS
    <3> DEFINE p == k + 1
    <3>1. p \in 1..n /\ p + 1 \in 1..n /\ p + 1 # 1 /\ p + 1 - 1 = p /\ 1..(p + 1) = 1..p \cup {p + 1}
      OBVIOUS
    <3>2. Has(p)
      <4>1. k + 1 <= n
        OBVIOUS
      <4> HIDE DEF Has
      <4> QED
        BY <2>4, <4>1
    <3> HIDE DEF p
    <3>3. f[p + 1] = f[p] \o seqs[p + 1] /\ seqs[p + 1] \in Seq(S)
      <4> DEFINE q == p + 1
      <4>1. q \in 1..n /\ q # 1 /\ q - 1 = p
        BY <3>1
      <4>2. seqs[q] \in Seq(S)
        BY <4>1
      <4> HIDE DEF q
      <4>3. f[q] = f[p] \o seqs[q]
        BY <2>2, <4>1
      <4> QED
        BY <4>2, <4>3 DEF q
    <3>4. f[p + 1] \in Seq(S) /\ Range(f[p + 1]) = Range(f[p]) \cup Range(seqs[p + 1])
      BY <3>2, <3>3, JoinedRange
    <3>5. UNION {Range(seqs[i]) : i \in 1..(p + 1)} = (UNION {Range(seqs[i]) : i \in 1..p}) \cup Range(seqs[p + 1])
      BY <3>1
    <3>6. Has(p + 1)
      BY <3>2, <3>4, <3>5
    <3> QED
      BY <3>6 DEF p
  <2>5. n - 1 \in Nat /\ n - 1 + 1 = n
    BY <1>3
  <2>6. n - 1 \in U
    <3> HIDE DEF U
    <3> QED
      BY <2>3, <2>4, <2>5, Induction
  <2>7. Has(n)
    <3> HIDE DEF Has
    <3>1. n - 1 + 1 <= n
      BY <2>5
    <3> QED
      BY <2>5, <2>6, <3>1
  <2> QED
    BY <2>2, <2>7
<1> QED
  BY <1>2, <1>3

\* Where a joined sequence has its things from: which sequence, and which place in it.
Traced(r, seqs, m, blk, off) ==
  /\ blk \in [1..Len(r) -> 1..m] /\ off \in [1..Len(r) -> Nat]
  /\ \A k \in 1..Len(r) : off[k] \in DOMAIN seqs[blk[k]] /\ r[k] = seqs[blk[k]][off[k]]
  /\ \A k, l \in 1..Len(r) : k < l => blk[k] < blk[l] \/ (blk[k] = blk[l] /\ off[k] < off[l])

\* One more sequence.
LEMMA TraceGrows ==
  ASSUME NEW S, NEW r \in Seq(S), NEW m \in Nat, NEW seqs, NEW t \in Seq(S), t = seqs[m + 1],
         NEW blk, NEW off, Traced(r, seqs, m, blk, off)
  PROVE  \E b, o : Traced(r \o t, seqs, m + 1, b, o)
<1> DEFINE n == Len(r)
           z == n + Len(t)
           rt == r \o t
           b == [k \in 1..z |-> IF k <= n THEN blk[k] ELSE m + 1]
           o == [k \in 1..z |-> IF k <= n THEN off[k] ELSE k - n]
<1>1. n \in Nat /\ Len(t) \in Nat /\ z \in Nat /\ DOMAIN t = 1..Len(t) /\ rt \in Seq(S) /\ Len(rt) = z
  OBVIOUS
<1>2. /\ \A k \in 1..z : k <= n => rt[k] = r[k]
      /\ \A k \in 1..z : ~(k <= n) => rt[k] = t[k - n]
  OBVIOUS
<1>3. /\ \A k \in 1..n : blk[k] \in 1..m /\ off[k] \in Nat
      /\ \A k \in 1..n : off[k] \in DOMAIN seqs[blk[k]] /\ r[k] = seqs[blk[k]][off[k]]
      /\ \A k, l \in 1..n : k < l => blk[k] < blk[l] \/ (blk[k] = blk[l] /\ off[k] < off[l])
  BY DEF Traced
<1> HIDE DEF rt
<1>4. ASSUME NEW k \in 1..z, k <= n PROVE k \in 1..n /\ b[k] = blk[k] /\ o[k] = off[k]
  BY <1>1, <1>4
<1>5. ASSUME NEW k \in 1..z, ~(k <= n) PROVE k - n \in 1..Len(t) /\ b[k] = m + 1 /\ o[k] = k - n
  BY <1>1, <1>5
<1> HIDE DEF n
<1>6. \A k \in 1..z : b[k] \in 1..(m + 1) /\ o[k] \in Nat
  <2> SUFFICES ASSUME NEW k \in 1..z PROVE b[k] \in 1..(m + 1) /\ o[k] \in Nat
    OBVIOUS
  <2>1. CASE k <= n
    BY <1>3, <1>4, <2>1
  <2>2. CASE ~(k <= n)
    BY <1>1, <1>5, <2>2
  <2> QED
    BY <2>1, <2>2
<1>7. b \in [1..z -> 1..(m + 1)] /\ o \in [1..z -> Nat]
  BY <1>6
<1> HIDE DEF b, o
<1>8. \A k \in 1..z : o[k] \in DOMAIN seqs[b[k]] /\ rt[k] = seqs[b[k]][o[k]]
  <2> SUFFICES ASSUME NEW k \in 1..z PROVE o[k] \in DOMAIN seqs[b[k]] /\ rt[k] = seqs[b[k]][o[k]]
    OBVIOUS
  <2>1. CASE k <= n
    BY <1>2, <1>3, <1>4, <2>1
  <2>2. CASE ~(k <= n)
    BY <1>1, <1>2, <1>5, <2>2
  <2> QED
    BY <2>1, <2>2
<1>9. \A k, l \in 1..z : k < l => b[k] < b[l] \/ (b[k] = b[l] /\ o[k] < o[l])
  <2> SUFFICES ASSUME NEW k \in 1..z, NEW l \in 1..z, k < l PROVE b[k] < b[l] \/ (b[k] = b[l] /\ o[k] < o[l])
    OBVIOUS
  <2> HIDE DEF z
  <2>0. k \in Nat /\ l \in Nat
    BY <1>1
  <2>1. CASE l <= n
    <3>1. k <= n
      BY <2>0, <2>1, <1>1
    <3> QED
      BY <1>3, <1>4, <2>1, <3>1
  <2>2. CASE ~(l <= n) /\ k <= n
    <3>1. blk[k] \in 1..m /\ b[k] = blk[k] /\ b[l] = m + 1
      BY <1>3, <1>4, <1>5, <2>2
    <3> QED
      BY <3>1
  <2>3. CASE ~(l <= n) /\ ~(k <= n)
    <3>1. b[k] = m + 1 /\ b[l] = m + 1 /\ o[k] = k - n /\ o[l] = l - n
      BY <1>5, <2>3
    <3> QED
      BY <1>1, <2>0, <3>1
  <2> QED
    BY <2>1, <2>2, <2>3
<1>10. Traced(rt, seqs, m + 1, b, o)
  <2> HIDE DEF z
  <2> QED
    BY <1>1, <1>7, <1>8, <1>9 DEF Traced
<1> QED
  BY <1>10 DEF rt

\* FlattenSeq() keeps the order.
LEMMA FlattenedInOrder ==
  ASSUME NEW S, NEW n \in Nat \ {0}, NEW seqs \in [1..n -> Seq(S)]
  PROVE  \E blk, off : Traced(FlattenSeq(seqs), seqs, n, blk, off)
<1>1. Len(seqs) = n
  OBVIOUS
<1>0. PICK f : JoinedBy(f, seqs, n)
  BY <1>1, JoinsInTurn
<1>2. FlattenSeq(seqs) = f[n] /\ f[1] = seqs[1] /\ \A i \in 1..n : i # 1 => f[i] = f[i - 1] \o seqs[i]
  BY <1>0, Zenon DEF JoinedBy
<1> DEFINE Has(k) == f[k] \in Seq(S) /\ \E blk, off : Traced(f[k], seqs, k, blk, off)
           U == {k \in Nat : k + 1 <= n => Has(k + 1)}
<1>3. 0 \in U
  <2>1. 1 \in 1..n /\ 0 + 1 = 1
    OBVIOUS
  <2>2. Has(1)
    <3> DEFINE r == seqs[1]
               blk == [k \in 1..Len(r) |-> 1]
               off == [k \in 1..Len(r) |-> k]
    <3>1. r \in Seq(S) /\ DOMAIN r = 1..Len(r) /\ Len(r) \in Nat
      BY <2>1
    <3> HIDE DEF r
    <3>2. blk \in [1..Len(r) -> 1..1] /\ off \in [1..Len(r) -> Nat]
          /\ \A k \in 1..Len(r) : blk[k] = 1 /\ off[k] = k
      BY <3>1
    <3> HIDE DEF blk, off
    <3>3. \A k, l \in 1..Len(r) : k < l => blk[k] < blk[l] \/ (blk[k] = blk[l] /\ off[k] < off[l])
      BY <3>2
    <3>4. \A k \in 1..Len(r) : off[k] \in DOMAIN seqs[blk[k]] /\ r[k] = seqs[blk[k]][off[k]]
      BY <3>1, <3>2 DEF r
    <3>5. Traced(r, seqs, 1, blk, off)
      BY <3>2, <3>3, <3>4 DEF Traced
    <3> QED
      BY <1>2, <3>1, <3>5 DEF r
  <2> HIDE DEF Has
  <2> QED
    BY <2>1, <2>2
<1>4. ASSUME NEW k \in Nat, k \in U PROVE k + 1 \in U
  <2> SUFFICES ASSUME k + 1 + 1 <= n PROVE Has(k + 1 + 1)
    OBVIOUS
  <2> DEFINE p == k + 1
             q == k + 2
  <2>1. p \in Nat /\ q \in 1..n /\ q # 1 /\ q - 1 = p /\ p + 1 = q
    OBVIOUS
  <2>2. Has(p)
    <3>1. k + 1 <= n
      OBVIOUS
    <3> HIDE DEF Has
    <3> QED
      BY <1>4, <3>1
  <2> HIDE DEF p, q
  <2>3. f[q] = f[p] \o seqs[q] /\ seqs[q] \in Seq(S)
    BY <1>2, <2>1
  <2>4. PICK blk, off : Traced(f[p], seqs, p, blk, off)
    BY <2>2
  <2>5. \E b, o : Traced(f[q], seqs, q, b, o)
    <3>1. \E b, o : Traced(f[p] \o seqs[q], seqs, p + 1, b, o)
      <4>1. f[p] \in Seq(S) /\ p \in Nat /\ seqs[q] = seqs[p + 1]
        BY <2>1, <2>2
      <4> HIDE DEF Has
      <4> QED
        BY <2>3, <2>4, <4>1, TraceGrows
    <3> QED
      BY <2>1, <2>3, <3>1, Zenon
  <2>6. f[q] \in Seq(S)
    BY <2>2, <2>3
  <2>7. Has(q)
    BY <2>5, <2>6, Zenon
  <2>8. k + 1 + 1 = q
    BY DEF q
  <2> HIDE DEF Has
  <2> QED
    BY <2>7, <2>8
<1>5. n - 1 \in U /\ n - 1 \in Nat /\ n - 1 + 1 = n
  <2>1. n - 1 \in Nat /\ n - 1 + 1 = n
    OBVIOUS
  <2> HIDE DEF U
  <2> QED
    BY <1>3, <1>4, <2>1, Induction
<1>6. Has(n)
  <2> HIDE DEF Has
  <2>1. n - 1 + 1 <= n
    BY <1>5
  <2> QED
    BY <1>5, <2>1
<1> QED
  BY <1>2, <1>6

\* A sequence has its head and what its tail has.
LEMMA ToSetOfTail ==
  ASSUME NEW S, NEW s \in Seq(S), s # <<>>
  PROVE  /\ Head(s) \in S /\ Tail(s) \in Seq(S)
         /\ ToSet(s) = {Head(s)} \cup ToSet(Tail(s)) /\ ToSet(s) \subseteq S
<1>1. Head(s) \in S
  OBVIOUS
<1>2. \A r : ToSet(r) = Range(r)
  BY DEF ToSet, Range
<1>3. Tail(s) \in Seq(S) /\ Range(s) = {Head(s)} \cup Range(Tail(s)) /\ Range(s) \subseteq S
  BY HeadAndTail
<1> QED
  BY <1>1, <1>2, <1>3

\* One thing put at the end.
LEMMA ToSetOfAppend ==
  ASSUME NEW S, NEW s \in Seq(S), NEW x \in S
  PROVE  /\ Append(s, x) \in Seq(S) /\ ToSet(Append(s, x)) = ToSet(s) \cup {x}
         /\ Len(s) \in Nat /\ Len(Append(s, x)) = Len(s) + 1
         /\ \A i \in 1..Len(s) : Append(s, x)[i] = s[i]
         /\ Append(s, x)[Len(s) + 1] = x
<1> DEFINE r == Append(s, x)
           n == Len(s)
<1>1. r \in Seq(S) /\ n \in Nat /\ Len(r) = n + 1 /\ DOMAIN r = 1..(n + 1) /\ DOMAIN s = 1..n
  OBVIOUS
<1>2. (\A i \in 1..n : r[i] = s[i]) /\ r[n + 1] = x
  OBVIOUS
<1>3. 1..(n + 1) = 1..n \cup {n + 1}
  BY <1>1
<1> HIDE DEF r, n
<1>4. ToSet(r) = ToSet(s) \cup {x}
  BY <1>1, <1>2, <1>3 DEF ToSet
<1> QED
  BY <1>1, <1>2, <1>4 DEF r, n

\* One thing taken out: the others stay, in their order.
LEMMA RemovedAt ==
  ASSUME NEW S, NEW s \in Seq(S), NEW k \in DOMAIN s
  PROVE  /\ RemoveAt(s, k) \in Seq(S) /\ Len(s) \in Nat \ {0} /\ Len(RemoveAt(s, k)) = Len(s) - 1
         /\ \A i \in 1..(Len(s) - 1) : RemoveAt(s, k)[i] = s[IF i < k THEN i ELSE i + 1]
<1> DEFINE n == Len(s)
           h == SubSeq(s, 1, k - 1)
           t == SubSeq(s, k + 1, n)
<1>1. n \in Nat \ {0} /\ k \in 1..n
  OBVIOUS
<1>2. h \in Seq(S) /\ Len(h) = k - 1 /\ \A i \in 1..(k - 1) : h[i] = s[i]
  BY <1>1, SubSeqProperties
<1>3. t \in Seq(S) /\ Len(t) = n - k /\ \A i \in 1..(n - k) : t[i] = s[k + i]
  <2>1. k + 1 \in Nat \ {0} /\ n \in Nat
    BY <1>1
  <2>2. t \in Seq(S)
    BY <1>1, SubSeqProperties
  <2>3. Len(t) = n - k
    BY <1>1
  <2>4. \A i \in 1..(n - k) : t[i] = s[k + i]
    BY <1>1
  <2> QED
    BY <2>2, <2>3, <2>4
<1>4. RemoveAt(s, k) = h \o t
  BY DEF RemoveAt
<1> DEFINE r == h \o t
<1> HIDE DEF h, t, n
<1>5. /\ r \in Seq(S) /\ Len(r) = n - 1
      /\ \A i \in 1..(n - 1) : i < k => r[i] = h[i]
      /\ \A i \in 1..(n - 1) : ~(i < k) => r[i] = t[i - (k - 1)]
  <2>1. r \in Seq(S) /\ Len(r) = n - 1
    <3>1. r \in Seq(S) /\ Len(r) = Len(h) + Len(t)
      BY <1>2, <1>3, ConcatProperties
    <3> QED
      BY <1>1, <1>2, <1>3, <3>1
  <2>2. \A i \in 1..(Len(h) + Len(t)) : r[i] = IF i <= Len(h) THEN h[i] ELSE t[i - Len(h)]
    BY <1>2, <1>3, ConcatProperties
  <2>3. Len(h) + Len(t) = n - 1 /\ \A i \in 1..(n - 1) : i < k <=> i <= Len(h)
    BY <1>1, <1>2, <1>3
  <2> QED
    BY <1>2, <2>1, <2>2, <2>3
<1>6. \A i \in 1..(n - 1) : r[i] = s[IF i < k THEN i ELSE i + 1]
  <2> SUFFICES ASSUME NEW i \in 1..(n - 1) PROVE r[i] = s[IF i < k THEN i ELSE i + 1]
    OBVIOUS
  <2>1. CASE i < k
    <3>1. i \in 1..(k - 1)
      BY <1>1, <2>1
    <3> QED
      BY <1>2, <1>5, <2>1, <3>1
  <2>2. CASE ~(i < k)
    <3>1. i - (k - 1) \in 1..(n - k) /\ k + (i - (k - 1)) = i + 1
      BY <1>1, <2>2
    <3> HIDE DEF r
    <3> QED
      BY <1>3, <1>5, <2>2, <3>1
  <2> QED
    BY <2>1, <2>2
<1> QED
  BY <1>1, <1>4, <1>5, <1>6 DEF n

----------------------------------------------------------------------------
(* Powers of two, as numbers of sets. *)

\* One more bit doubles what a word can hold.
LEMMA DoubledPower ==
  ASSUME NEW n \in Nat
  PROVE  2^n \in Nat \ {0} /\ 2^(n + 1) = 2 * 2^n
<1> DEFINE A == SUBSET (1..n)
           Add(s) == s \cup {n + 1}
           f == [s \in A |-> Add(s)]
           B == {Add(s) : s \in A}
<1>1. IsFiniteSet(1..n) /\ Cardinality(1..n) = n /\ IsFiniteSet(1..(n + 1)) /\ Cardinality(1..(n + 1)) = n + 1
  BY FS_Interval
<1>2. IsFiniteSet(A) /\ Cardinality(A) = 2^n /\ Cardinality(SUBSET (1..(n + 1))) = 2^(n + 1)
  BY <1>1, FS_SUBSET
<1>3. Cardinality(A) \in Nat /\ A # {}
  BY <1>2, FS_CardinalityType
<1>4. f \in Bijection(A, B)
  <2>1. \A s, t \in A : Add(s) = Add(t) => s = t
    <3> SUFFICES ASSUME NEW s \in A, NEW t \in A, Add(s) = Add(t) PROVE s = t
      OBVIOUS
    <3>1. n + 1 \notin s /\ n + 1 \notin t
      OBVIOUS
    <3> QED
      BY <3>1
  <2> HIDE DEF A, Add
  <2>2. f \in [A -> B] /\ IsInjective(f)
    BY <2>1 DEF IsInjective
  <2>3. \A y \in B : \E s \in A : f[s] = y
    OBVIOUS
  <2> HIDE DEF f, B
  <2> QED
    BY <2>2, <2>3 DEF Bijection, Injection, Surjection
<1>5. IsFiniteSet(B) /\ Cardinality(B) = Cardinality(A)
  BY <1>2, <1>4, FS_Bijection DEF ExistsBijection
<1>6. A \cap B = {}
  OBVIOUS
<1>7. A \cup B = SUBSET (1..(n + 1))
  <2>1. ASSUME NEW s \in SUBSET (1..(n + 1)), n + 1 \in s PROVE s \in B
    <3>1. s \ {n + 1} \in A /\ s = Add(s \ {n + 1})
      BY <2>1
    <3> QED
      BY <3>1
  <2>2. ASSUME NEW s \in SUBSET (1..(n + 1)), n + 1 \notin s PROVE s \in A
    BY <2>2
  <2>3. ASSUME NEW s \in SUBSET (1..n) PROVE s \in SUBSET (1..(n + 1)) /\ Add(s) \in SUBSET (1..(n + 1))
    OBVIOUS
  <2>4. \A t \in A \cup B : t \in SUBSET (1..(n + 1))
    <3> HIDE DEF Add
    <3>1. \A t \in B : \E s \in SUBSET (1..n) : t = Add(s)
      OBVIOUS
    <3>2. ASSUME NEW t \in B PROVE t \in SUBSET (1..(n + 1))
      <4> HIDE DEF B
      <4>1. PICK s \in SUBSET (1..n) : t = Add(s)
        BY <3>1
      <4>2. Add(s) \in SUBSET (1..(n + 1))
        BY <2>3
      <4> QED
        BY <4>1, <4>2
    <3> QED
      BY <2>3, <3>2
  <2> HIDE DEF A, B
  <2> QED
    BY <2>1, <2>2, <2>4
<1> HIDE DEF A, B
<1>8. Cardinality(A \cup B) = Cardinality(A) + Cardinality(B) - Cardinality({})
  BY <1>2, <1>5, <1>6, FS_Union
<1>9. Cardinality({}) = 0 /\ Cardinality(A) # 0
  BY <1>2, <1>3, FS_EmptySet
<1>10. Cardinality(A \cup B) = 2 * Cardinality(A) /\ Cardinality(A) \in Nat \ {0}
  BY <1>3, <1>5, <1>8, <1>9
<1> QED
  BY <1>2, <1>7, <1>10, Zenon
=============================================================================
