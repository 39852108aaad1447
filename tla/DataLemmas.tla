----------------------------- MODULE DataLemmas -----------------------------
(***************************************************************************)
(* What the proofs know about data: least members of sets of numbers, which  *)
(* stand for induction; powers of two; folds and recursive functions, which  *)
(* exist and are computed step by step.                                      *)
(***************************************************************************)
EXTENDS Integers, Sequences, FiniteSets, SequencesExt, FiniteSetTheorems, WellFoundedInduction, TLAPS

-----------------------------------------------------------------------------
(* Natural numbers.                                                          *)

\* A set of naturals has a least member: what stands for induction here.
LEMMA LeastOf ==
  ASSUME NEW T \in SUBSET Nat, T # {}
  PROVE  \E m \in T : \A n \in T : m <= n
<1>1. PICK m \in T : \A n \in T : <<n, m>> \notin OpToRel(<, Nat)
  BY NatLessThanWellFounded, WFMin
<1>2. OpToRel(<, Nat) = {ss \in Nat \X Nat : ss[1] < ss[2]}
  BY Zenon DEF OpToRel
<1>3. ASSUME NEW n \in T, n < m PROVE FALSE
  <2>1. <<n, m>> \in {ss \in Nat \X Nat : ss[1] < ss[2]}
    BY <1>3
  <2>2. QED
    BY <2>1, <1>2, <1>1
<1>4. QED
  BY <1>3

\* 2^(n+1) is twice 2^n: n + 1 elements have twice the subsets n have.
LEMMA Doubling ==
  ASSUME NEW n \in Nat
  PROVE  2 ^ (n + 1) = 2 ^ n + 2 ^ n /\ 2 ^ n \in Nat
<1> DEFINE A == SUBSET (1 .. n)
           Mark == [T \in A |-> T \cup {n + 1}]
           B == {T \cup {n + 1} : T \in A}
<1>1. /\ IsFiniteSet(1 .. n) /\ Cardinality(1 .. n) = n
      /\ IsFiniteSet(1 .. n + 1) /\ Cardinality(1 .. n + 1) = n + 1
  BY FS_Interval
<1>2. /\ IsFiniteSet(A) /\ Cardinality(A) = 2 ^ n
      /\ Cardinality(SUBSET (1 .. n + 1)) = 2 ^ (n + 1)
  BY <1>1, FS_SUBSET
<1>3. IsFiniteSet(B) /\ Cardinality(B) = Cardinality(A)
  <2>1. Mark \in Bijection(A, B)
    <3>1. \A S, T \in A : S \cup {n + 1} = T \cup {n + 1} => S = T
      <4>1. \A S \in A : n + 1 \notin S
        OBVIOUS
      <4>2. QED
        BY <4>1
    <3>2. Mark \in [A -> B]
      OBVIOUS
    <3>3. Mark \in Injection(A, B)
      BY <3>1, <3>2 DEF Injection, IsInjective
    <3>4. Mark \in Surjection(A, B)
      BY <3>2 DEF Surjection
    <3>5. QED
      BY <3>3, <3>4 DEF Bijection
  <2>2. QED
    BY <1>2, <2>1, FS_Bijection DEF ExistsBijection
<1>4. A \cup B = SUBSET (1 .. n + 1) /\ A \cap B = {}
  <2>1. ASSUME NEW S \in SUBSET (1 .. n + 1), n + 1 \in S
        PROVE  S \in B
    <3>1. S \ {n + 1} \in A /\ S = (S \ {n + 1}) \cup {n + 1}
      BY <2>1
    <3>2. QED
      BY <3>1
  <2>2. ASSUME NEW S \in SUBSET (1 .. n + 1), n + 1 \notin S
        PROVE  S \in A
    BY <2>2
  <2>3. \A S \in A : S \in SUBSET (1 .. n + 1) /\ n + 1 \notin S
    OBVIOUS
  <2>4. ASSUME NEW S \in B
        PROVE  S \in SUBSET (1 .. n + 1) /\ n + 1 \in S
    <3>1. PICK T \in A : S = T \cup {n + 1}
      OBVIOUS
    <3>2. n + 1 \in 1 .. n + 1 /\ 1 .. n \subseteq 1 .. n + 1
      OBVIOUS
    <3>3. QED
      BY <3>1, <3>2
  <2>5. SUBSET (1 .. n + 1) \subseteq A \cup B
    BY <2>1, <2>2
  <2> HIDE DEF A, B
  <2>6. QED
    BY <2>3, <2>4, <2>5
<1>5. Cardinality(A \cup B) = Cardinality(A) + Cardinality(B) /\ Cardinality(A) \in Nat
  <2>1. Cardinality(A \cap B) = 0
    BY <1>4, FS_EmptySet
  <2>2. Cardinality(A \cup B) = Cardinality(A) + Cardinality(B) - Cardinality(A \cap B)
    BY <1>2, <1>3, FS_Union
  <2>3. Cardinality(A) \in Nat /\ Cardinality(B) \in Nat
    BY <1>2, <1>3, FS_CardinalityType
  <2>4. QED
    BY <2>1, <2>2, <2>3
<1>6. QED
  BY <1>2, <1>3, <1>4, <1>5

\* The first powers of two.
LEMMA SmallPowers ==
  2 ^ 0 = 1 /\ 2 ^ 1 = 2 /\ 2 ^ 2 = 4 /\ 2 ^ 3 = 8 /\ 2 ^ 4 = 16 /\ 2 ^ 5 = 32 /\ 2 ^ 6 = 64
<1>1. 2 ^ 0 = 1
  <2>1. IsFiniteSet({}) /\ Cardinality({}) = 0
    BY FS_EmptySet
  <2>2. Cardinality(SUBSET {}) = 2 ^ 0
    BY <2>1, FS_SUBSET
  <2>3. SUBSET {} = {{}}
    OBVIOUS
  <2>4. QED
    BY <2>2, <2>3, FS_Singleton
<1>2. /\ 2 ^ (0 + 1) = 2 ^ 0 + 2 ^ 0 /\ 2 ^ (1 + 1) = 2 ^ 1 + 2 ^ 1 /\ 2 ^ (2 + 1) = 2 ^ 2 + 2 ^ 2
      /\ 2 ^ (3 + 1) = 2 ^ 3 + 2 ^ 3 /\ 2 ^ (4 + 1) = 2 ^ 4 + 2 ^ 4 /\ 2 ^ (5 + 1) = 2 ^ 5 + 2 ^ 5
  BY Doubling
<1>3. 0 + 1 = 1 /\ 1 + 1 = 2 /\ 2 + 1 = 3 /\ 3 + 1 = 4 /\ 4 + 1 = 5 /\ 5 + 1 = 6
  OBVIOUS
<1>4. QED
  BY <1>1, <1>2, <1>3

\* Powers of two grow with the exponent, faster than the exponent does.
LEMMA PowersGrow ==
  /\ \A n \in Nat : 2 ^ n \in Nat /\ n < 2 ^ n
  /\ \A n, m \in Nat : m < n => 2 ^ m < 2 ^ n
<1>1. \A n \in Nat : 2 ^ n \in Nat /\ 2 ^ (n + 1) = 2 ^ n + 2 ^ n
  BY Doubling
<1>2. \A n \in Nat : n < 2 ^ n
  <2> DEFINE Bad == {n \in Nat : ~(n < 2 ^ n)}
  <2>1. ASSUME Bad # {} PROVE FALSE
    <3>1. PICK n \in Bad : \A m \in Bad : n <= m
      BY <2>1, LeastOf
    <3>2. n \in Nat /\ n # 0
      <4>1. n \in Nat /\ ~(n < 2 ^ n)
        OBVIOUS
      <4>2. 0 < 2 ^ 0
        BY SmallPowers
      <4>3. QED
        BY <4>1, <4>2
    <3>3. n - 1 \in Nat /\ n - 1 \notin Bad
      BY <3>1, <3>2
    <3>4. n - 1 < 2 ^ (n - 1)
      BY <3>3
    <3>5. 2 ^ n = 2 ^ (n - 1) + 2 ^ (n - 1) /\ 2 ^ (n - 1) \in Nat
      <4>1. 2 ^ ((n - 1) + 1) = 2 ^ (n - 1) + 2 ^ (n - 1)
        BY <3>3, <1>1
      <4>2. (n - 1) + 1 = n
        BY <3>2
      <4>3. QED
        BY <4>1, <4>2, <3>3, <1>1
    <3>6. ~(n < 2 ^ n)
      BY <3>1
    <3>7. QED
      BY <3>2, <3>4, <3>5, <3>6
  <2>2. QED
    BY <2>1
<1>3. ASSUME NEW m \in Nat, NEW n \in Nat, m < n
      PROVE  2 ^ m < 2 ^ n
  <2> DEFINE Bad == {k \in Nat : m < k /\ ~(2 ^ m < 2 ^ k)}
  <2>1. ASSUME Bad # {} PROVE FALSE
    <3>1. PICK k \in Bad : \A j \in Bad : k <= j
      BY <2>1, LeastOf
    <3>2. k \in Nat /\ m < k /\ ~(2 ^ m < 2 ^ k)
      BY <3>1
    <3>3. k - 1 \in Nat /\ k - 1 \notin Bad
      BY <3>1, <3>2
    <3>4. 2 ^ m <= 2 ^ (k - 1)
      <4>1. CASE m = k - 1
        BY <4>1, <3>3, <1>1
      <4>2. CASE m # k - 1
        BY <4>2, <3>2, <3>3, <1>1
      <4>3. QED
        BY <4>1, <4>2
    <3>5. 2 ^ k = 2 ^ (k - 1) + 2 ^ (k - 1) /\ 2 ^ (k - 1) \in Nat
      <4>1. 2 ^ ((k - 1) + 1) = 2 ^ (k - 1) + 2 ^ (k - 1)
        BY <3>3, <1>1
      <4>2. (k - 1) + 1 = k
        BY <3>2
      <4>3. QED
        BY <4>1, <4>2, <3>3, <1>1
    <3>6. 0 < 2 ^ (k - 1) /\ 2 ^ m \in Nat
      BY <3>3, <1>2, <1>1
    <3>7. QED
      BY <3>2, <3>4, <3>5, <3>6
  <2>2. QED
    BY <2>1, <1>3
<1>4. QED
  BY <1>1, <1>2, <1>3

\* The greatest member of a set of numbers.
LEMMA MaxOf ==
  ASSUME NEW n \in Nat, NEW S \in SUBSET (0 .. n), S # {}
  PROVE  Max(S) \in S /\ \A m \in S : m <= Max(S)
<1> DEFINE T == {n - m : m \in S}
<1>1. T \in SUBSET Nat /\ T # {}
  <2>1. \A m \in S : n - m \in Nat
    OBVIOUS
  <2>2. QED
    BY <2>1
<1>2. PICK k \in T : \A j \in T : k <= j
  BY <1>1, LeastOf
<1>3. PICK m \in S : k = n - m
  BY <1>2
<1>4. \A j \in S : j <= m /\ m >= j
  BY <1>2, <1>3
<1>5. Max(S) \in S /\ \A j \in S : Max(S) >= j
  BY <1>3, <1>4 DEF Max
<1>6. \A j \in S : j <= Max(S)
  BY <1>5
<1>7. QED
  BY <1>5, <1>6

-----------------------------------------------------------------------------
(* Folds and recursive functions.                                            *)

\* The function by which MapThenFoldSet folds a sequence of n elements exists.
IsFold(g, n, V, base, Op) ==
  /\ g \in [SUBSET (1 .. n) -> V]
  /\ \A s \in SUBSET (1 .. n) :
       g[s] = IF s = {} THEN base ELSE Op[<<g[s \ {Max(s)}], Max(s)>>]
LEMMA FoldExists ==
  ASSUME NEW n \in Nat, NEW V, NEW base \in V, NEW Op \in [V \X (1 .. n) -> V]
  PROVE  \E g : IsFold(g, n, V, base, Op)
<1> DEFINE Folds(g, k) == IsFold(g, k, V, base, Op)
           Bad == {k \in 0 .. n : ~ \E g : Folds(g, k)}
<1> HIDE DEF Folds
<1>1. ASSUME Bad # {} PROVE FALSE
  <2>1. PICK k \in Bad : \A j \in Bad : k <= j
    <3>1. Bad \in SUBSET Nat
      OBVIOUS
    <3>2. QED
      BY <3>1, <1>1, LeastOf
  <2>2. k \in 0 .. n /\ ~ \E g : Folds(g, k)
    BY <2>1
  <2>3. k # 0
    <3>1. ASSUME k = 0 PROVE FALSE
      <4>1. SUBSET (1 .. k) = {{}}
        BY <3>1
      <4>2. Folds([s \in {{}} |-> base], k)
        BY <4>1 DEF Folds, IsFold
      <4>3. QED
        BY <4>2, <2>2
    <3>2. QED
      BY <3>1
  <2>4. k - 1 \in 0 .. n /\ k - 1 \notin Bad /\ k \in 1 .. n
    BY <2>1, <2>2, <2>3
  <2>5. PICK g : Folds(g, k - 1)
    BY <2>4
  <2> DEFINE h == [s \in SUBSET (1 .. k) |->
                     IF k \in s THEN Op[<<g[s \ {k}], k>>] ELSE g[s]]
  <2>6. \A s \in SUBSET (1 .. k) : s \ {k} \in SUBSET (1 .. k - 1) /\ (k \notin s => s \in SUBSET (1 .. k - 1))
    BY <2>4
  <2>7. h \in [SUBSET (1 .. k) -> V]
    <3>1. ASSUME NEW s \in SUBSET (1 .. k)
          PROVE  (IF k \in s THEN Op[<<g[s \ {k}], k>>] ELSE g[s]) \in V
      BY <2>4, <2>5, <2>6 DEF Folds, IsFold
    <3>2. QED
      BY <3>1
  <2>8. ASSUME NEW s \in SUBSET (1 .. k)
        PROVE  h[s] = IF s = {} THEN base ELSE Op[<<h[s \ {Max(s)}], Max(s)>>]
    <3>1. CASE s = {}
      BY <3>1, <2>5, <2>6 DEF Folds, IsFold
    <3>2. CASE k \in s
      <4>1. Max(s) = k
        <5>1. s \in SUBSET (0 .. k) /\ k \in Nat
          BY <2>4
        <5>2. Max(s) \in s /\ k <= Max(s)
          BY <5>1, <3>2, MaxOf
        <5>3. Max(s) \in 1 .. k
          BY <5>2
        <5>4. QED
          BY <5>2, <5>3, <2>4
      <4>2. h[s \ {k}] = g[s \ {k}]
        BY <2>6
      <4>3. h[s] = Op[<<g[s \ {k}], k>>]
        BY <3>2
      <4>4. QED
        BY <3>2, <4>1, <4>2, <4>3
    <3>3. CASE s # {} /\ k \notin s
      <4>1. s \in SUBSET (1 .. k - 1) /\ s \ {Max(s)} \in SUBSET (1 .. k - 1) /\ k \notin s \ {Max(s)}
        BY <3>3, <2>6
      <4>2. s \ {Max(s)} \in SUBSET (1 .. k)
        OBVIOUS
      <4>3. h[s] = g[s] /\ h[s \ {Max(s)}] = g[s \ {Max(s)}]
        BY <3>3, <4>1, <4>2
      <4>4. g[s] = Op[<<g[s \ {Max(s)}], Max(s)>>]
        BY <2>5, <3>3, <4>1 DEF Folds, IsFold
      <4>5. QED
        BY <3>3, <4>3, <4>4
    <3>4. QED
      BY <3>1, <3>2, <3>3
  <2>9. Folds(h, k)
    <3> HIDE DEF h
    <3>1. QED
      BY <2>7, <2>8 DEF Folds, IsFold
  <2>10. QED
    BY <2>2, <2>9
<1>2. n \notin Bad
  BY <1>1
<1>3. PICK g : Folds(g, n)
  BY <1>2
<1>4. QED
  BY <1>3 DEF Folds

\* The first k elements without the last are the first k - 1.
LEMMA Prefix ==
  ASSUME NEW n \in Nat, NEW k \in 1 .. n
  PROVE  /\ Max(1 .. k) = k /\ (1 .. k) \ {k} = 1 .. k - 1 /\ 1 .. k # {}
         /\ 1 .. k \in SUBSET (1 .. n) /\ 1 .. k - 1 \in SUBSET (1 .. n)
<1>1. 1 .. k \in SUBSET (0 .. k) /\ k \in Nat /\ k \in 1 .. k
  OBVIOUS
<1>2. Max(1 .. k) \in 1 .. k /\ k <= Max(1 .. k)
  BY <1>1, MaxOf
<1>3. QED
  BY <1>2

\* A chain whose links lead to smaller numbers ends: the walk of find() stops at the
\* first link that is wanted, or at 0.
LEMMA WalkExists ==
  ASSUME NEW n \in Nat, NEW Next1 \in [1 .. n -> Nat], NEW Stop \in SUBSET (1 .. n),
         \A i \in 1 .. n : Next1[i] < i
  PROVE  \E w : w = [i \in 0 .. n |-> IF i = 0 \/ i \in Stop THEN i ELSE w[Next1[i]]]
<1> DEFINE Walks(w, k) ==
             \A i \in 0 .. k : w[i] = IF i = 0 \/ i \in Stop THEN i ELSE w[Next1[i]]
           Bad == {k \in 0 .. n : ~ \E w : Walks(w, k)}
<1> HIDE DEF Walks
<1>1. ASSUME Bad # {} PROVE FALSE
  <2>1. PICK k \in Bad : \A j \in Bad : k <= j
    <3>1. Bad \in SUBSET Nat
      OBVIOUS
    <3>2. QED
      BY <3>1, <1>1, LeastOf
  <2>2. k \in 0 .. n /\ ~ \E w : Walks(w, k)
    BY <2>1
  <2>3. k # 0
    <3>1. ASSUME k = 0 PROVE FALSE
      <4>1. Walks([i \in {0} |-> 0], k)
        BY <3>1 DEF Walks
      <4>2. QED
        BY <4>1, <2>2
    <3>2. QED
      BY <3>1
  <2>4. k - 1 \in 0 .. n /\ k - 1 \notin Bad /\ k \in 1 .. n /\ k \in Nat
    BY <2>1, <2>2, <2>3
  <2>5. PICK w : Walks(w, k - 1)
    BY <2>4
  <2> DEFINE h == [i \in 0 .. k |-> IF i # k THEN w[i] ELSE IF k \in Stop THEN k ELSE w[Next1[k]]]
  <2>6. ASSUME NEW i \in 0 .. k
        PROVE  h[i] = IF i = 0 \/ i \in Stop THEN i ELSE h[Next1[i]]
    <3>1. CASE i = 0
      BY <3>1, <2>3, <2>4, <2>5 DEF Walks
    <3>2. CASE i # 0
      <4>1. i \in 1 .. n /\ Next1[i] \in 0 .. k /\ Next1[i] # k /\ Next1[i] < i
        BY <3>2, <2>4
      <4>2. h[Next1[i]] = w[Next1[i]]
        BY <4>1
      <4>3. CASE i = k
        BY <4>2, <4>3, <3>2, <2>4
      <4>4. CASE i # k
        <5>1. i \in 0 .. k - 1 /\ h[i] = w[i]
          BY <4>4, <2>4
        <5>2. w[i] = IF i = 0 \/ i \in Stop THEN i ELSE w[Next1[i]]
          BY <5>1, <2>5 DEF Walks
        <5>3. QED
          BY <5>1, <5>2, <4>2
      <4>5. QED
        BY <4>3, <4>4
    <3>3. QED
      BY <3>1, <3>2
  <2>7. Walks(h, k)
    <3> HIDE DEF h
    <3>1. QED
      BY <2>6 DEF Walks
  <2>8. QED
    BY <2>2, <2>7
<1>2. n \notin Bad
  BY <1>1
<1>3. PICK w : Walks(w, n)
  BY <1>2
<1> DEFINE v == [i \in 0 .. n |-> w[i]]
<1>4. ASSUME NEW i \in 0 .. n
      PROVE  v[i] = IF i = 0 \/ i \in Stop THEN i ELSE v[Next1[i]]
  <2>1. CASE i = 0 \/ i \in Stop
    BY <2>1, <1>3 DEF Walks
  <2>2. CASE i # 0 /\ i \notin Stop
    <3>1. i \in 1 .. n /\ Next1[i] \in 0 .. n
      BY <2>2
    <3>2. v[i] = w[Next1[i]] /\ v[Next1[i]] = w[Next1[i]]
      BY <2>2, <3>1, <1>3 DEF Walks
    <3>3. QED
      BY <2>2, <3>2
  <2>3. QED
    BY <2>1, <2>2
<1>5. v = [i \in 0 .. n |-> IF i = 0 \/ i \in Stop THEN i ELSE v[Next1[i]]]
  <2>1. v = [i \in 0 .. n |-> v[i]]
    OBVIOUS
  <2> HIDE DEF v
  <2>2. QED
    BY <2>1, <1>4
<1>6. QED
  BY <1>5

\* A fold is computed element by element.
FoldSteps(it, n, V, Op) ==
  \A k \in 1 .. n : it[1 .. k - 1] \in V => it[1 .. k] = Op[<<it[1 .. k - 1], k>>]
IsTrace(h, n, V, base, Op) ==
  h \in [0 .. n -> V] /\ h[0] = base /\ \A k \in 1 .. n : h[k] = Op[<<h[k - 1], k>>]
FoldTraced(it, n, V, base, Op) == \E h : IsTrace(h, n, V, base, Op) /\ h[n] = it[1 .. n]
LEMMA FoldTrace ==
  ASSUME NEW n \in Nat, NEW V, NEW base \in V, NEW Op \in [V \X (1 .. n) -> V], NEW it,
         it[{}] = base, FoldSteps(it, n, V, Op)
  PROVE  FoldTraced(it, n, V, base, Op)
<1> USE DEF FoldSteps
<1> DEFINE Bad == {k \in 0 .. n : it[1 .. k] \notin V}
<1>1. 1 .. 0 = {}
  OBVIOUS
<1>2. ASSUME Bad # {} PROVE FALSE
  <2>1. PICK k \in Bad : \A j \in Bad : k <= j
    <3>1. Bad \in SUBSET Nat
      OBVIOUS
    <3>2. QED
      BY <3>1, <1>2, LeastOf
  <2>2. k \in 0 .. n /\ it[1 .. k] \notin V
    BY <2>1
  <2>3. k # 0
    BY <1>1, <2>2
  <2>4. k \in 1 .. n /\ k - 1 \in 0 .. n /\ k - 1 \notin Bad
    BY <2>1, <2>2, <2>3
  <2>5. it[1 .. k - 1] \in V
    BY <2>4
  <2>6. it[1 .. k] = Op[<<it[1 .. k - 1], k>>]
    BY <2>4, <2>5
  <2>7. QED
    BY <2>2, <2>4, <2>5, <2>6
<1>3. \A k \in 0 .. n : it[1 .. k] \in V
  BY <1>2
<1> DEFINE h == [k \in 0 .. n |-> it[1 .. k]]
<1>4. h \in [0 .. n -> V] /\ h[0] = base /\ h[n] = it[1 .. n]
  BY <1>1, <1>3
<1>5. \A k \in 1 .. n : h[k] = Op[<<h[k - 1], k>>]
  BY <1>3
<1>6. QED
  BY <1>4, <1>5 DEF IsTrace, FoldTraced

-----------------------------------------------------------------------------
(* Sequences of sequences.                                                   *)

LEMMA SameSequence ==
  ASSUME NEW S, NEW s \in Seq(S), NEW t \in Seq(S), Len(s) = Len(t), \A i \in 1 .. Len(s) : s[i] = t[i]
  PROVE  s = t
<1>1. s = [i \in 1 .. Len(s) |-> s[i]] /\ t = [i \in 1 .. Len(s) |-> t[i]]
  OBVIOUS
<1>2. QED
  BY <1>1

\* FlattenSeq appends one sequence after the other.
LEMMA FlattenTrace ==
  ASSUME NEW S, NEW seqs \in Seq(Seq(S)), Len(seqs) # 0
  PROVE  \E f \in [1 .. Len(seqs) -> Seq(S)] :
           /\ f[1] = seqs[1]
           /\ \A i \in 2 .. Len(seqs) : f[i] = f[i - 1] \o seqs[i]
           /\ FlattenSeq(seqs) = f[Len(seqs)]
<1> DEFINE n == Len(seqs)
           Op == [p \in Seq(S) \X (1 .. n) |-> p[1] \o seqs[p[2]]]
           Step(f) == [i \in 1 .. n |-> IF i = 1 THEN seqs[i] ELSE f[i - 1] \o seqs[i]]
           fl == CHOOSE f : f = Step(f)
<1>1. n \in Nat \ {0} /\ \A i \in 1 .. n : seqs[i] \in Seq(S)
  OBVIOUS
<1>2. FlattenSeq(seqs) = fl[n]
  BY DEF FlattenSeq
<1> HIDE DEF n
<1>3. Op \in [Seq(S) \X (1 .. n) -> Seq(S)] /\ <<>> \in Seq(S)
  BY <1>1
<1>4. PICK g : IsFold(g, n, Seq(S), <<>>, Op)
  BY <1>1, <1>3, FoldExists
<1> DEFINE h == [i \in 1 .. n |-> g[1 .. i]]
<1>5. ASSUME NEW i \in 1 .. n
      PROVE  h[i] = IF i = 1 THEN seqs[i] ELSE h[i - 1] \o seqs[i]
  <2>1. /\ Max(1 .. i) = i /\ (1 .. i) \ {i} = 1 .. i - 1 /\ 1 .. i # {}
        /\ 1 .. i \in SUBSET (1 .. n) /\ 1 .. i - 1 \in SUBSET (1 .. n)
    BY <1>1, Prefix
  <2>2. g[1 .. i] = Op[<<g[1 .. i - 1], i>>] /\ g[1 .. i - 1] \in Seq(S)
    BY <1>4, <2>1 DEF IsFold
  <2>3. g[1 .. i] = g[1 .. i - 1] \o seqs[i]
    BY <2>2
  <2>4. CASE i = 1
    <3>1. 1 .. i - 1 = {}
      BY <2>4
    <3>2. g[{}] = <<>>
      BY <1>4, <2>1, <3>1 DEF IsFold
    <3>3. <<>> \o seqs[i] = seqs[i]
      BY <1>1
    <3>4. QED
      BY <2>3, <2>4, <3>1, <3>2, <3>3
  <2>5. CASE i # 1
    <3>1. i - 1 \in 1 .. n
      BY <2>5, <1>1
    <3>2. h[i] = g[1 .. i] /\ h[i - 1] = g[1 .. i - 1]
      BY <3>1
    <3> HIDE DEF h
    <3>3. QED
      BY <2>3, <2>5, <3>2
  <2>6. QED
    BY <2>4, <2>5
<1>6. h = Step(h)
  <2>1. h = [i \in 1 .. n |-> h[i]]
    OBVIOUS
  <2> HIDE DEF h
  <2>2. QED
    BY <2>1, <1>5
<1>7. fl = Step(fl)
  BY <1>6
<1> HIDE DEF fl
<1>8. \A i \in 1 .. n : fl[i] = IF i = 1 THEN seqs[i] ELSE fl[i - 1] \o seqs[i]
  BY <1>7
<1> DEFINE Bad == {i \in 1 .. n : fl[i] \notin Seq(S)}
<1>9. ASSUME Bad # {} PROVE FALSE
  <2>1. PICK k \in Bad : \A j \in Bad : k <= j
    <3>1. Bad \in SUBSET Nat
      OBVIOUS
    <3>2. QED
      BY <3>1, <1>9, LeastOf
  <2>2. k \in 1 .. n /\ fl[k] \notin Seq(S)
    BY <2>1
  <2>3. k # 1
    BY <1>1, <1>8, <2>2
  <2>4. k - 1 \in 1 .. n /\ k - 1 \notin Bad
    BY <2>1, <2>2, <2>3, <1>1
  <2>5. fl[k - 1] \in Seq(S)
    BY <2>4
  <2>6. fl[k] = fl[k - 1] \o seqs[k]
    BY <1>8, <2>2, <2>3
  <2>7. QED
    BY <1>1, <2>2, <2>5, <2>6
<1>10. \A i \in 1 .. n : fl[i] \in Seq(S)
  BY <1>9
<1>11. fl \in [1 .. n -> Seq(S)]
  <2>1. fl = [i \in 1 .. n |-> fl[i]]
    BY <1>7
  <2>2. QED
    BY <2>1, <1>10
<1>12. fl[1] = seqs[1] /\ \A i \in 2 .. n : fl[i] = fl[i - 1] \o seqs[i]
  <2>1. 1 \in 1 .. n /\ \A i \in 2 .. n : i \in 1 .. n /\ i # 1
    BY <1>1
  <2>2. fl[1] = seqs[1]
    BY ONLY <2>1, <1>8
  <2>3. ASSUME NEW i \in 2 .. n
        PROVE  fl[i] = fl[i - 1] \o seqs[i]
    BY ONLY <2>1, <1>8
  <2>4. QED
    BY <2>2, <2>3
<1>13. QED
  BY <1>2, <1>11, <1>12 DEF n

LEMMA FlattenEmpty == FlattenSeq(<<>>) = <<>>
BY DEF FlattenSeq

LEMMA EmptyTyped ==
  ASSUME NEW S
  PROVE  <<>> \in Seq(S)
OBVIOUS

LEMMA FlattenType ==
  ASSUME NEW S, NEW seqs \in Seq(Seq(S))
  PROVE  FlattenSeq(seqs) \in Seq(S)
<1>1. CASE Len(seqs) = 0
  <2>1. seqs = <<>>
    BY <1>1
  <2>2. QED
    BY ONLY <2>1, FlattenEmpty, EmptyTyped
<1>2. CASE Len(seqs) # 0
  <2>1. PICK f \in [1 .. Len(seqs) -> Seq(S)] : FlattenSeq(seqs) = f[Len(seqs)]
    BY <1>2, FlattenTrace
  <2>2. Len(seqs) \in 1 .. Len(seqs)
    BY <1>2
  <2>3. QED
    BY <2>1, <2>2
<1>3. QED
  BY <1>1, <1>2

\* What is appended last comes last.
LEMMA FlattenAppend ==
  ASSUME NEW S, NEW seqs \in Seq(Seq(S)), NEW x \in Seq(S)
  PROVE  FlattenSeq(Append(seqs, x)) = FlattenSeq(seqs) \o x
<1> DEFINE n == Len(seqs)
           more == Append(seqs, x)
<1>1. /\ n \in Nat /\ more \in Seq(Seq(S)) /\ Len(more) = n + 1 /\ more[n + 1] = x
      /\ \A i \in 1 .. n : more[i] = seqs[i]
  OBVIOUS
<1>2. PICK f \in [1 .. n + 1 -> Seq(S)] :
        /\ f[1] = more[1]
        /\ \A i \in 2 .. n + 1 : f[i] = f[i - 1] \o more[i]
        /\ FlattenSeq(more) = f[n + 1]
  <2>1. Len(more) # 0
    BY <1>1
  <2> HIDE DEF more, n
  <2>2. QED
    <3>1. more \in Seq(Seq(S)) /\ Len(more) = n + 1
      BY <1>1
    <3>2. \E f \in [1 .. Len(more) -> Seq(S)] :
            /\ f[1] = more[1]
            /\ \A i \in 2 .. Len(more) : f[i] = f[i - 1] \o more[i]
            /\ FlattenSeq(more) = f[Len(more)]
      BY ONLY <2>1, <3>1, FlattenTrace
    <3>3. QED
      BY ONLY <3>1, <3>2
<1>3. CASE n = 0
  <2>1. seqs = <<>>
    BY <1>3
  <2>2. FlattenSeq(seqs) \o x = x
    BY <2>1, FlattenEmpty
  <2> HIDE DEF more, n
  <2>3. FlattenSeq(more) = x
    BY <1>1, <1>2, <1>3
  <2>4. QED
    BY <2>2, <2>3 DEF more
<1>4. CASE n # 0
  <2>1. PICK e \in [1 .. n -> Seq(S)] :
          /\ e[1] = seqs[1]
          /\ \A i \in 2 .. n : e[i] = e[i - 1] \o seqs[i]
          /\ FlattenSeq(seqs) = e[n]
    BY <1>4, FlattenTrace
  <2> HIDE DEF more, n
  <2> DEFINE Bad == {i \in 1 .. n : e[i] # f[i]}
  <2>2. ASSUME Bad # {} PROVE FALSE
    <3>1. PICK k \in Bad : \A j \in Bad : k <= j
      <4>1. Bad \in SUBSET Nat
        OBVIOUS
      <4>2. QED
        BY <4>1, <2>2, LeastOf
    <3>2. k \in 1 .. n /\ e[k] # f[k]
      BY <3>1
    <3>3. k # 1
      BY <1>1, <1>2, <2>1, <3>2
    <3>4. k - 1 \in 1 .. n /\ k - 1 \notin Bad /\ k \in 2 .. n /\ k \in 2 .. n + 1
      BY <3>1, <3>2, <3>3, <1>1
    <3>5. e[k - 1] = f[k - 1]
      BY <3>4
    <3>6. QED
      BY <1>1, <1>2, <2>1, <3>2, <3>4, <3>5
  <2>3. n \in 1 .. n /\ n + 1 \in 2 .. n + 1 /\ (n + 1) - 1 = n
    BY <1>1, <1>4
  <2>4. e[n] = f[n]
    BY <2>2, <2>3
  <2>5. f[n + 1] = f[n] \o x
    BY <1>1, <1>2, <2>3
  <2>6. QED
    BY <1>2, <2>1, <2>4, <2>5 DEF more
<1>5. QED
  BY <1>3, <1>4

\* Where the parts correspond, so do the wholes.
Alike(s, t, R) == Len(s) = Len(t) /\ \A n \in 1 .. Len(s) : <<s[n], t[n]>> \in R

LEMMA AlikeAppended ==
  ASSUME NEW S, NEW T, NEW R, NEW s \in Seq(S), NEW t \in Seq(T), NEW u \in Seq(S), NEW v \in Seq(T),
         Alike(s, t, R), Alike(u, v, R)
  PROVE  Alike(s \o u, t \o v, R)
<1>1. /\ Len(s) \in Nat /\ Len(u) \in Nat /\ Len(t) = Len(s) /\ Len(v) = Len(u)
      /\ \A n \in 1 .. Len(s) : <<s[n], t[n]>> \in R
      /\ \A n \in 1 .. Len(u) : <<u[n], v[n]>> \in R
  BY DEF Alike
<1> DEFINE a == s \o u
           b == t \o v
<1>2. /\ Len(a) = Len(s) + Len(u) /\ Len(b) = Len(s) + Len(u)
      /\ \A n \in 1 .. Len(s) : a[n] = s[n] /\ b[n] = t[n]
      /\ \A n \in Len(s) + 1 .. Len(s) + Len(u) : a[n] = u[n - Len(s)] /\ b[n] = v[n - Len(s)]
  BY <1>1
<1> HIDE DEF a, b
<1>3. ASSUME NEW n \in 1 .. Len(s) + Len(u)
      PROVE  <<a[n], b[n]>> \in R
  <2>1. CASE n \in 1 .. Len(s)
    BY <2>1, <1>1, <1>2
  <2>2. CASE n \notin 1 .. Len(s)
    <3>1. n \in Len(s) + 1 .. Len(s) + Len(u) /\ n - Len(s) \in 1 .. Len(u)
      BY <2>2, <1>1
    <3>2. QED
      BY <3>1, <1>1, <1>2
  <2>3. QED
    BY <2>1, <2>2
<1>4. QED
  BY <1>2, <1>3 DEF Alike, a, b

LEMMA FlattenAlike ==
  ASSUME NEW S, NEW T, NEW R, NEW xs \in Seq(Seq(S)), NEW ys \in Seq(Seq(T)),
         Len(xs) = Len(ys), \A i \in 1 .. Len(xs) : Alike(xs[i], ys[i], R)
  PROVE  Alike(FlattenSeq(xs), FlattenSeq(ys), R)
<1>1. CASE Len(xs) = 0
  <2>1. xs = <<>> /\ ys = <<>>
    <3>1. \A Q : \A q \in Seq(Q) : Len(q) = 0 => q = <<>>
      OBVIOUS
    <3>2. Len(xs) = 0 /\ Len(ys) = 0
      BY <1>1
    <3>3. QED
      BY ONLY <3>1, <3>2, xs \in Seq(Seq(S)), ys \in Seq(Seq(T))
  <2>2. Alike(<<>>, <<>>, R)
    BY DEF Alike
  <2>3. QED
    BY ONLY <2>1, <2>2, FlattenEmpty
<1>2. CASE Len(xs) # 0
  <2>1. PICK n : n = Len(xs)
    OBVIOUS
  <2>2. n \in Nat \ {0} /\ Len(ys) = n /\ \A i \in 1 .. n : xs[i] \in Seq(S) /\ ys[i] \in Seq(T)
    BY <1>2, <2>1
  <2>3. PICK f \in [1 .. Len(xs) -> Seq(S)] :
          /\ f[1] = xs[1]
          /\ \A i \in 2 .. Len(xs) : f[i] = f[i - 1] \o xs[i]
          /\ FlattenSeq(xs) = f[Len(xs)]
    BY <1>2, FlattenTrace
  <2>4. PICK g \in [1 .. Len(ys) -> Seq(T)] :
          /\ g[1] = ys[1]
          /\ \A i \in 2 .. Len(ys) : g[i] = g[i - 1] \o ys[i]
          /\ FlattenSeq(ys) = g[Len(ys)]
    BY <1>2, FlattenTrace
  <2> DEFINE Bad == {i \in 1 .. n : ~Alike(f[i], g[i], R)}
  <2>5. ASSUME Bad # {} PROVE FALSE
    <3>1. PICK k \in Bad : \A j \in Bad : k <= j
      <4>1. Bad \in SUBSET Nat
        OBVIOUS
      <4>2. QED
        BY <4>1, <2>5, LeastOf
    <3>2. k \in 1 .. n /\ ~Alike(f[k], g[k], R) /\ Alike(xs[k], ys[k], R)
      BY <3>1, <2>1
    <3>3. k # 1
      BY <2>1, <2>2, <2>3, <2>4, <3>2
    <3>4. k - 1 \in 1 .. n /\ k - 1 \notin Bad /\ k \in 2 .. n
      BY <2>2, <3>1, <3>2, <3>3
    <3>5. Alike(f[k - 1], g[k - 1], R)
      BY <3>4
    <3>6. f[k - 1] \in Seq(S) /\ g[k - 1] \in Seq(T) /\ xs[k] \in Seq(S) /\ ys[k] \in Seq(T)
      BY <2>1, <2>2, <2>3, <2>4, <3>2, <3>4
    <3>7. Alike(f[k - 1] \o xs[k], g[k - 1] \o ys[k], R)
      BY ONLY <3>2, <3>5, <3>6, AlikeAppended
    <3>8. f[k] = f[k - 1] \o xs[k] /\ g[k] = g[k - 1] \o ys[k]
      BY <2>1, <2>2, <2>3, <2>4, <3>4
    <3>9. QED
      BY ONLY <3>2, <3>7, <3>8
  <2>6. n \in 1 .. n
    BY <2>2
  <2>7. Alike(f[n], g[n], R)
    BY <2>5, <2>6
  <2>8. QED
    BY <2>1, <2>2, <2>3, <2>4, <2>7
<1>3. QED
  BY <1>1, <1>2

\* A sequence with one more element, which is that of another sequence.
LEMMA OneMoreToken ==
  ASSUME NEW S, NEW s \in Seq(S), NEW u \in Seq(S), Len(u) = 1
  PROVE  /\ Len(s \o u) = Len(s) + 1 /\ (s \o u)[Len(s) + 1] = u[1]
         /\ \A j \in 1 .. Len(s) : (s \o u)[j] = s[j]
<1>1. Len(s) \in Nat /\ Len(u) \in Nat
  OBVIOUS
<1> DEFINE a == s \o u
<1>2. /\ Len(a) = Len(s) + Len(u)
      /\ \A n \in 1 .. Len(s) : a[n] = s[n]
      /\ \A n \in Len(s) + 1 .. Len(s) + Len(u) : a[n] = u[n - Len(s)]
  BY ONLY <1>1, s \in Seq(S), u \in Seq(S)
<1> HIDE DEF a
<1>3. Len(s) + 1 \in Len(s) + 1 .. Len(s) + Len(u) /\ (Len(s) + 1) - Len(s) = 1
  BY <1>1
<1>4. a[Len(s) + 1] = u[1]
  BY <1>2, <1>3
<1>5. QED
  BY <1>2, <1>4 DEF a

\* Sequences of one element each.
LEMMA FlattenSingles ==
  ASSUME NEW S, NEW seqs \in Seq(Seq(S)), \A i \in 1 .. Len(seqs) : Len(seqs[i]) = 1
  PROVE  /\ FlattenSeq(seqs) \in Seq(S) /\ Len(FlattenSeq(seqs)) = Len(seqs)
         /\ \A i \in 1 .. Len(seqs) : FlattenSeq(seqs)[i] = seqs[i][1]
<1>1. CASE Len(seqs) = 0
  <2>1. seqs = <<>>
    BY <1>1
  <2>2. FlattenSeq(seqs) = <<>>
    BY ONLY <2>1, FlattenEmpty
  <2>3. QED
    BY <1>1, <2>2
<1>2. CASE Len(seqs) # 0
  <2>1. PICK n : n = Len(seqs)
    OBVIOUS
  <2>2. n \in Nat \ {0} /\ \A i \in 1 .. n : seqs[i] \in Seq(S) /\ Len(seqs[i]) = 1
    BY <1>2, <2>1
  <2>3. PICK f \in [1 .. Len(seqs) -> Seq(S)] :
          /\ f[1] = seqs[1]
          /\ \A i \in 2 .. Len(seqs) : f[i] = f[i - 1] \o seqs[i]
          /\ FlattenSeq(seqs) = f[Len(seqs)]
    BY <1>2, FlattenTrace
  <2> DEFINE Good(i) == Len(f[i]) = i /\ \A j \in 1 .. i : f[i][j] = seqs[j][1]
             Bad == {i \in 1 .. n : ~Good(i)}
  <2>4. ASSUME Bad # {} PROVE FALSE
    <3>1. PICK k \in Bad : \A j \in Bad : k <= j
      <4>1. Bad \in SUBSET Nat
        OBVIOUS
      <4>2. QED
        BY <4>1, <2>4, LeastOf
    <3>2. k \in 1 .. n /\ ~Good(k) /\ seqs[k] \in Seq(S) /\ Len(seqs[k]) = 1
      BY <2>2, <3>1
    <3>3. k # 1
      <4>1. f[1] = seqs[1] /\ \A j \in 1 .. 1 : j = 1
        BY <2>3
      <4>2. k = 1 => Good(k)
        BY <3>2, <4>1
      <4>3. QED
        BY <3>2, <4>2
    <3>4. k - 1 \in 1 .. n /\ k - 1 < k /\ k \in 2 .. n
      BY <2>2, <3>2, <3>3
    <3>5. Good(k - 1) /\ f[k - 1] \in Seq(S)
      <4>1. k - 1 \notin Bad
        <5> HIDE DEF Bad
        <5>1. k \in Nat
          BY <2>2, <3>2
        <5>2. QED
          BY <3>1, <3>4, <5>1
      <4>2. Good(k - 1)
        <5> HIDE DEF Good
        <5>1. QED
          BY <3>4, <4>1
      <4>3. QED
        BY <2>1, <2>3, <3>4, <4>2
    <3>6. f[k] = f[k - 1] \o seqs[k]
      BY <2>1, <2>3, <3>4
    <3>7. /\ Len(f[k]) = k /\ f[k][k] = seqs[k][1]
          /\ \A j \in 1 .. k - 1 : f[k][j] = f[k - 1][j]
      <4>1. Len(f[k - 1]) = k - 1 /\ (k - 1) + 1 = k
        BY <3>2, <3>5
      <4>2. /\ Len(f[k - 1] \o seqs[k]) = Len(f[k - 1]) + 1
            /\ (f[k - 1] \o seqs[k])[Len(f[k - 1]) + 1] = seqs[k][1]
            /\ \A j \in 1 .. Len(f[k - 1]) : (f[k - 1] \o seqs[k])[j] = f[k - 1][j]
        <5>1. f[k - 1] \in Seq(S) /\ seqs[k] \in Seq(S) /\ Len(seqs[k]) = 1
          BY <3>2, <3>5
        <5>2. PICK a, u : a = f[k - 1] /\ u = seqs[k]
          OBVIOUS
        <5>3. a \in Seq(S) /\ u \in Seq(S) /\ Len(u) = 1
          BY <5>1, <5>2
        <5>4. /\ Len(a \o u) = Len(a) + 1 /\ (a \o u)[Len(a) + 1] = u[1]
              /\ \A j \in 1 .. Len(a) : (a \o u)[j] = a[j]
          BY ONLY <5>3, OneMoreToken
        <5>5. QED
          BY ONLY <5>2, <5>4
      <4>3. QED
        BY ONLY <3>6, <4>1, <4>2
    <3>8. ASSUME NEW j \in 1 .. k PROVE f[k][j] = seqs[j][1]
      <4>1. j = k \/ j \in 1 .. k - 1
        BY <3>2
      <4>2. QED
        BY <3>5, <3>7, <4>1
    <3>9. QED
      BY <3>2, <3>7, <3>8
  <2>5. n \in 1 .. n
    BY <2>2
  <2>6. Good(n) /\ f[n] \in Seq(S)
    BY <2>1, <2>3, <2>4, <2>5
  <2>7. QED
    BY <2>1, <2>3, <2>6
<1>3. QED
  BY <1>1, <1>2

==============================================================================
