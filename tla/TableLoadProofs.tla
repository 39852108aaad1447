--------------------------- MODULE TableLoadProofs ---------------------------
(***************************************************************************)
(* What normalize_dim computes, for every width of the integers, every       *)
(* strategy and every dimension whose normal form fits the type: the least   *)
(* bucket that is no smaller.  And the safety of loading: what the index of   *)
(* a table finds, which files load() accepts, and which table every kernel    *)
(* has once load_from_env() has returned to all its callers.                 *)
(***************************************************************************)
EXTENDS TableLoad, DataLemmas

-----------------------------------------------------------------------------
(* pow2_ceil and ceil_div_32.                                                *)

\* The types of the arithmetic.
LEMMA Sizes ==
  /\ Width \in Nat /\ Width - 1 \in Nat /\ Width - 2 \in Nat
  /\ Limit = 2 ^ (Width - 1) /\ Limit = 2 ^ (Width - 2) + 2 ^ (Width - 2)
  /\ 2 ^ (Width - 2) \in Nat /\ Limit \div 2 = 2 ^ (Width - 2)
  /\ Limit \in Nat /\ 64 <= Limit
<1>1. Width \in Nat /\ Width - 1 \in Nat /\ Width - 2 \in Nat /\ 6 <= Width - 1
  BY WidthAssumption
<1>2. (Width - 2) + 1 = Width - 1
  BY <1>1
<1>3. 2 ^ (Width - 1) = 2 ^ (Width - 2) + 2 ^ (Width - 2) /\ 2 ^ (Width - 2) \in Nat
  BY <1>1, <1>2, Doubling
<1>4. 64 <= 2 ^ (Width - 1)
  <2>1. CASE Width - 1 = 6
    BY <2>1, SmallPowers
  <2>2. CASE Width - 1 # 6
    <3>1. 2 ^ 6 < 2 ^ (Width - 1)
      <4>1. 6 \in Nat /\ Width - 1 \in Nat /\ 6 < Width - 1
        BY <1>1, <2>2
      <4>2. QED
        BY <4>1, PowersGrow
    <3>2. QED
      BY <3>1, <1>3, SmallPowers
  <2>3. QED
    BY <2>1, <2>2
<1>5. QED
  BY <1>1, <1>3, <1>4 DEF Limit

\* __builtin_clzll: a positive dimension has a bit length, and it is what it says.
LEMMA BitLengthOf ==
  ASSUME NEW v \in Nat, 1 <= v, v < Limit
  PROVE  /\ BitLength(v) \in 1 .. Width - 1
         /\ 2 ^ (BitLength(v) - 1) <= v
         /\ v < 2 ^ BitLength(v)
<1> DEFINE T == {n \in Nat : v < 2 ^ n}
<1>1. PICK n \in T : \A m \in T : n <= m
  <2>1. Width - 1 \in T
    BY Sizes
  <2>2. QED
    BY <2>1, LeastOf
<1>2. n \in Nat /\ v < 2 ^ n /\ n <= Width - 1
  BY <1>1, Sizes
<1>3. n # 0
  <2>1. ~(v < 2 ^ 0)
    BY SmallPowers
  <2>2. QED
    BY <2>1, <1>2
<1>4. n - 1 \in Nat /\ ~(v < 2 ^ (n - 1))
  BY <1>1, <1>2, <1>3
<1>5. 2 ^ (n - 1) <= v
  BY <1>4, PowersGrow
<1>6. n \in 1 .. Width /\ n \in 1 .. Width - 1
  BY <1>2, <1>3, Sizes
<1>7. ASSUME NEW k \in 1 .. Width, 2 ^ (k - 1) <= v, v < 2 ^ k
      PROVE  k = n
  <2>1. k \in Nat /\ k - 1 \in Nat
    OBVIOUS
  <2>2. n <= k
    BY <1>1, <1>7, <2>1
  <2>3. ASSUME n < k PROVE FALSE
    <3>1. 2 ^ n <= 2 ^ (k - 1)
      <4>1. CASE n = k - 1
        BY <4>1, <2>1, PowersGrow
      <4>2. CASE n # k - 1
        <5>1. n < k - 1
          BY <4>2, <2>3, <1>2, <2>1
        <5>2. QED
          BY <5>1, <1>2, <2>1, PowersGrow
      <4>3. QED
        BY <4>1, <4>2
    <3>2. 2 ^ n \in Nat /\ 2 ^ (k - 1) \in Nat
      BY <1>2, <2>1, PowersGrow
    <3>3. QED
      BY <3>1, <3>2, <1>2, <1>7
  <2>4. QED
    BY <2>2, <2>3, <2>1, <1>2
<1>8. BitLength(v) = n
  <2>1. \E k \in 1 .. Width : 2 ^ (k - 1) <= v /\ v < 2 ^ k
    BY <1>2, <1>5, <1>6
  <2>2. BitLength(v) \in 1 .. Width /\ 2 ^ (BitLength(v) - 1) <= v /\ v < 2 ^ BitLength(v)
    BY <2>1 DEF BitLength
  <2>3. QED
    BY <2>2, <1>7
<1>9. QED
  BY <1>2, <1>5, <1>6, <1>8

\* pow2_ceil is the least power of two that is not below a dimension, where the
\* type has one.
LEMMA Pow2CeilIsLeast ==
  ASSUME NEW v \in Nat, 1 <= v, v < Limit
  PROVE  /\ v > Limit \div 2 => Pow2Ceil(v) = v
         /\ v <= Limit \div 2 =>
              /\ Pow2Ceil(v) \in PowersOfTwo
              /\ v <= Pow2Ceil(v)
              /\ \A k \in Nat : v <= 2 ^ k => Pow2Ceil(v) <= 2 ^ k
<1>1. CASE v = 1
  <2>1. Pow2Ceil(v) = 2 ^ 0 /\ 2 ^ 0 = 1
    BY <1>1, SmallPowers DEF Pow2Ceil
  <2>2. 0 \in 0 .. Width - 2 /\ ~(v > Limit \div 2)
    BY <1>1, Sizes
  <2>3. 2 ^ 0 \in PowersOfTwo
    BY <2>2 DEF PowersOfTwo
  <2>4. \A k \in Nat : v <= 2 ^ k => Pow2Ceil(v) <= 2 ^ k
    BY <1>1, <2>1
  <2>5. QED
    BY <1>1, <2>1, <2>2, <2>3, <2>4
<1>2. CASE v > 1
  <2> DEFINE bits == BitLength(v - 1)
  <2>1. v - 1 \in Nat /\ 1 <= v - 1 /\ v - 1 < Limit
    BY <1>2, Sizes
  <2>2. bits \in 1 .. Width - 1 /\ 2 ^ (bits - 1) <= v - 1 /\ v - 1 < 2 ^ bits
    BY <2>1, BitLengthOf
  <2>3. Pow2Ceil(v) = IF bits >= Width - 1 THEN v ELSE 2 ^ bits
    BY <1>2 DEF Pow2Ceil
  <2> HIDE DEF bits
  <2>4. bits \in Nat /\ bits - 1 \in Nat /\ 2 ^ bits \in Nat /\ 2 ^ (bits - 1) \in Nat
    <3>1. bits \in Nat /\ bits - 1 \in Nat
      BY <2>2
    <3>2. QED
      BY <3>1, PowersGrow
  <2>5. ASSUME v > Limit \div 2
        PROVE  Pow2Ceil(v) = v
    <3>1. ASSUME bits < Width - 1 PROVE FALSE
      <4>1. 2 ^ bits <= 2 ^ (Width - 2)
        <5>1. CASE bits = Width - 2
          BY <5>1, Sizes
        <5>2. CASE bits # Width - 2
          <6>1. bits < Width - 2
            BY <5>2, <3>1, <2>4, Sizes
          <6>2. QED
            BY <6>1, <2>4, Sizes, PowersGrow
        <5>3. QED
          BY <5>1, <5>2
      <4>2. QED
        BY <4>1, <2>2, <2>4, <2>5, Sizes
    <3>2. QED
      BY <3>1, <2>3, <2>4, Sizes
  <2>6. ASSUME v <= Limit \div 2
        PROVE  /\ Pow2Ceil(v) \in PowersOfTwo /\ v <= Pow2Ceil(v)
               /\ \A k \in Nat : v <= 2 ^ k => Pow2Ceil(v) <= 2 ^ k
    <3>1. bits - 1 < Width - 2
      <4>1. 2 ^ (bits - 1) < 2 ^ (Width - 2)
        BY <2>2, <2>4, <2>6, Sizes
      <4>2. ASSUME Width - 2 <= bits - 1 PROVE FALSE
        <5>1. 2 ^ (Width - 2) <= 2 ^ (bits - 1)
          <6>1. CASE bits - 1 = Width - 2
            BY <6>1, Sizes
          <6>2. CASE bits - 1 # Width - 2
            <7>1. Width - 2 < bits - 1
              BY <6>2, <4>2, <2>4, Sizes
            <7>2. QED
              BY <7>1, <2>4, Sizes, PowersGrow
          <6>3. QED
            BY <6>1, <6>2
        <5>2. QED
          BY <5>1, <4>1, <2>4, Sizes
      <4>3. QED
        BY <4>2, <2>4, Sizes
    <3>2. Pow2Ceil(v) = 2 ^ bits /\ bits \in 0 .. Width - 2
      BY <3>1, <2>3, <2>4, Sizes
    <3>3. ASSUME NEW k \in Nat, v <= 2 ^ k
          PROVE  2 ^ bits <= 2 ^ k
      <4>1. 2 ^ k \in Nat
        BY PowersGrow
      <4>2. 2 ^ (bits - 1) < 2 ^ k
        BY <2>2, <2>4, <3>3, <4>1
      <4>3. ASSUME k <= bits - 1 PROVE FALSE
        <5>1. CASE k = bits - 1
          BY <5>1, <4>2, <2>4
        <5>2. CASE k # bits - 1
          <6>1. k < bits - 1
            BY <5>2, <4>3, <2>4
          <6>2. 2 ^ k < 2 ^ (bits - 1)
            BY <6>1, <2>4, PowersGrow
          <6>3. QED
            BY <6>2, <4>1, <4>2, <2>4
        <5>3. QED
          BY <5>1, <5>2
      <4>4. bits = k \/ bits < k
        BY <4>3, <2>4
      <4>5. CASE bits = k
        BY <4>5, <4>1
      <4>6. CASE bits < k
        <5>1. 2 ^ bits < 2 ^ k
          BY <4>6, <2>4, PowersGrow
        <5>2. QED
          BY <5>1, <4>1, <2>4
      <4>7. QED
        BY <4>4, <4>5, <4>6
    <3>4. 2 ^ bits \in PowersOfTwo
      BY <3>2 DEF PowersOfTwo
    <3>5. v <= 2 ^ bits
      BY <2>2, <2>4
    <3>6. QED
      BY <3>2, <3>3, <3>4, <3>5
  <2>7. QED
    BY <2>5, <2>6
<1>3. QED
  BY <1>1, <1>2
\* ceil_div_32(v) * 32 is the least multiple of 32 that is not below v, for
\* negative v too, where the C++ division truncates upwards.
LEMMA CeilIsLeastMultiple ==
  ASSUME NEW v \in Int
  PROVE  /\ CeilDiv32(v) \in Int
         /\ v <= CeilDiv32(v) * 32
         /\ CeilDiv32(v) * 32 <= v + 31
         /\ \A m \in Int : v <= m * 32 => CeilDiv32(v) <= m
<1>1. CASE v >= 0
  BY <1>1 DEF CeilDiv32
<1>2. CASE v < 0
  BY <1>2 DEF CeilDiv32
<1> QED
  BY <1>1, <1>2

\* ceil_div_32 finds a multiple of 32 where it is.
LEMMA CeilOfMultiple ==
  ASSUME NEW m \in Int
  PROVE  CeilDiv32(m * 32) = m
<1>1. m * 32 \in Int
  OBVIOUS
<1>2. /\ CeilDiv32(m * 32) \in Int
      /\ m * 32 <= CeilDiv32(m * 32) * 32
      /\ CeilDiv32(m * 32) * 32 <= m * 32 + 31
  BY <1>1, CeilIsLeastMultiple
<1> QED
  BY <1>2


-----------------------------------------------------------------------------
(* normalize_dim.                                                            *)

\* CHOOSE finds the least bucket where there is one.
LEMMA BucketIs ==
  ASSUME NEW s \in Strategies, NEW v \in Int, NEW b \in v .. Limit - 1,
         IsBucket(s, b), \A w \in v .. b - 1 : ~IsBucket(s, w),
         ~(s = "log" /\ v > Limit \div 2)
  PROVE  Bucket(s, v) = b
<1>0. Limit \in Int
  BY Sizes
<1> DEFINE Least(c) == IsBucket(s, c) /\ \A w \in v .. c - 1 : ~IsBucket(s, w)
<1>1. ASSUME NEW c \in v .. Limit - 1, Least(c)
      PROVE  c = b
  <2>1. c \in Int /\ b \in Int /\ v <= c /\ v <= b
    BY <1>0
  <2>2. ~(c < b)
    <3>1. ASSUME c < b PROVE FALSE
      <4>1. c \in v .. b - 1
        BY <3>1, <2>1
      <4>2. QED
        BY <4>1, <1>1
    <3>2. QED
      BY <3>1
  <2>3. ~(b < c)
    <3>1. ASSUME b < c PROVE FALSE
      <4>1. b \in v .. c - 1
        BY <3>1, <2>1
      <4>2. QED
        BY <4>1, <1>1
    <3>2. QED
      BY <3>1
  <2>4. QED
    BY <2>1, <2>2, <2>3
<1>2. Least(b)
  OBVIOUS
<1>3. Bucket(s, v) = CHOOSE c \in v .. Limit - 1 : Least(c)
  BY DEF Bucket
<1> HIDE DEF Least
<1>4. QED
  BY <1>1, <1>2, <1>3

\* Between a dimension and the multiple of 32 that ceil_div_32 finds there is none.
LEMMA NoMultipleBetween ==
  ASSUME NEW v \in Int, NEW w \in v .. CeilDiv32(v) * 32 - 1
  PROVE  w % 32 # 0
<1>1. CeilDiv32(v) \in Int /\ \A m \in Int : v <= m * 32 => CeilDiv32(v) <= m
  BY CeilIsLeastMultiple
<1>2. w \in Int /\ v <= w /\ w < CeilDiv32(v) * 32
  BY <1>1
<1>3. ASSUME w % 32 = 0 PROVE FALSE
  <2>1. w \div 32 \in Int /\ w = (w \div 32) * 32
    BY <1>2, <1>3
  <2>2. CeilDiv32(v) <= w \div 32
    BY <1>1, <1>2, <2>1
  <2>3. QED
    BY <1>1, <1>2, <2>1, <2>2
<1>4. QED
  BY <1>3

\* Multiples of 32 are those of ceil_div_32.
LEMMA CeilIsMultiple ==
  ASSUME NEW v \in Int
  PROVE  (CeilDiv32(v) * 32) % 32 = 0 /\ CeilDiv32(v) * 32 \in Int
BY CeilIsLeastMultiple

\* The powers of two that are not multiples of 32 are those below 32.
LEMMA PowersBelow32 ==
  ASSUME NEW k \in Nat, 2 ^ k < 32
  PROVE  k \in 0 .. Width - 2
<1>1. k < 32 /\ 2 ^ k \in Nat
  BY PowersGrow
<1>2. ASSUME 5 <= k PROVE FALSE
  <2>1. 5 = k \/ 5 < k
    BY <1>2
  <2>2. 5 \in Nat
    OBVIOUS
  <2>3. 2 ^ 5 <= 2 ^ k
    <3>1. CASE 5 = k
      <4>1. 2 ^ 5 = 2 ^ k
        BY <3>1
      <4>2. QED
        BY <4>1, <1>1
    <3>2. CASE 5 < k
      <4>1. 2 ^ 5 < 2 ^ k
        BY <3>2, <2>2, PowersGrow
      <4>2. QED
        BY <4>1, <1>1, SmallPowers
    <3>3. QED
      BY <2>1, <3>1, <3>2
  <2>4. QED
    BY <2>3, <1>1, SmallPowers
<1>3. QED
  BY <1>2, WidthAssumption

\* normalize_dim computes the key of the Python strategies: the least bucket that
\* is not below the dimension, in every width and for every dimension that does not
\* overflow.
THEOREM NormalizeIsBucket ==
  ASSUME NEW s \in Strategies, NEW v \in Int64, ~Overflows(s, v)
  PROVE  NormalizeDim(s, v) = Bucket(s, v) /\ NormalizeDim(s, v) \in Int64
<1>1. v \in Int /\ -Limit <= v /\ v <= Limit - 1 /\ Limit \in Int /\ 64 <= Limit
  BY Sizes DEF Int64
<1>2. ASSUME NEW b \in v .. Limit - 1, NormalizeDim(s, v) = b, IsBucket(s, b),
             \A w \in v .. b - 1 : ~IsBucket(s, w), ~(s = "log" /\ v > Limit \div 2)
      PROVE  NormalizeDim(s, v) = Bucket(s, v) /\ NormalizeDim(s, v) \in Int64
  <2>1. Bucket(s, v) = b
    BY <1>1, <1>2, BucketIs
  <2>2. b \in Int64
    BY <1>1 DEF Int64
  <2>3. QED
    BY <1>2, <2>1, <2>2
<1>3. ASSUME NormalizeDim(s, v) = v, IsBucket(s, v), ~(s = "log" /\ v > Limit \div 2)
      PROVE  NormalizeDim(s, v) = Bucket(s, v) /\ NormalizeDim(s, v) \in Int64
  <2>1. v \in v .. Limit - 1 /\ v .. v - 1 = {}
    BY <1>1
  <2>2. QED
    BY <1>2, <1>3, <2>1
<1>4. CASE s = "default"
  <2>1. NormalizeDim(s, v) = v /\ IsBucket(s, v)
    BY <1>4 DEF NormalizeDim, IsBucket
  <2>2. QED
    BY <1>3, <1>4, <2>1
<1>5. CASE s = "log"
  <2>1. CASE v <= 0
    <3>1. NormalizeDim(s, v) = v /\ IsBucket(s, v)
      BY <1>5, <2>1 DEF NormalizeDim, IsBucket
    <3>2. ~(v > Limit \div 2)
      BY <2>1, <1>1, Sizes
    <3>3. QED
      BY <1>3, <3>1, <3>2
  <2>2. CASE v > 0
    <3>1. v \in Nat /\ 1 <= v /\ v < Limit
      BY <1>1, <2>2
    <3>2. NormalizeDim(s, v) = Pow2Ceil(v)
      BY <1>5, <2>2, <3>1 DEF NormalizeDim
    <3>3. CASE v > Limit \div 2
      <4>1. Pow2Ceil(v) = v /\ Bucket(s, v) = v
        BY <1>5, <3>1, <3>3, Pow2CeilIsLeast DEF Bucket
      <4>2. QED
        BY <3>2, <4>1
    <3>4. CASE v <= Limit \div 2
      <4>1. /\ Pow2Ceil(v) \in PowersOfTwo /\ v <= Pow2Ceil(v)
            /\ \A k \in Nat : v <= 2 ^ k => Pow2Ceil(v) <= 2 ^ k
        BY <3>1, <3>4, Pow2CeilIsLeast
      <4>2. Pow2Ceil(v) \in Nat /\ Pow2Ceil(v) <= 2 ^ (Width - 2)
        <5>1. v <= 2 ^ (Width - 2)
          BY <3>4, Sizes
        <5>2. PICK k \in 0 .. Width - 2 : Pow2Ceil(v) = 2 ^ k
          BY <4>1 DEF PowersOfTwo
        <5>3. k \in Nat
          BY Sizes
        <5>4. QED
          BY <5>1, <5>2, <5>3, <4>1, PowersGrow, Sizes
      <4>3. Pow2Ceil(v) \in v .. Limit - 1
        BY <4>1, <4>2, <3>1, Sizes
      <4>4. IsBucket(s, Pow2Ceil(v))
        BY <1>5, <4>1 DEF IsBucket
      <4>5. ASSUME NEW w \in v .. Pow2Ceil(v) - 1, IsBucket(s, w)
            PROVE  FALSE
        <5>1. w \in Int /\ v <= w /\ w < Pow2Ceil(v)
          BY <3>1, <4>2
        <5>2. PICK k \in 0 .. Width - 2 : w = 2 ^ k
          BY <1>5, <4>5, <5>1, <2>2, <3>1 DEF IsBucket, PowersOfTwo
        <5>3. k \in Nat
          BY Sizes
        <5>4. Pow2Ceil(v) <= w
          BY <4>1, <5>1, <5>2, <5>3
        <5>5. QED
          BY <5>1, <5>4, <4>2
      <4>6. ~(s = "log" /\ v > Limit \div 2)
        BY <3>1, <3>4, Sizes
      <4> HIDE DEF IsBucket
      <4>7. QED
        BY <1>2, <3>2, <4>3, <4>4, <4>5, <4>6
    <3>5. QED
      BY <3>3, <3>4, <3>1, Sizes
  <2>3. QED
    BY <2>1, <2>2, <1>1
<1>6. CASE s \in {"align32", "align32_ceil"} /\ (s = "align32" => 32 <= v)
  <2> DEFINE b == CeilDiv32(v) * 32
  <2>1. NormalizeDim(s, v) = b
    BY <1>6, <1>1 DEF NormalizeDim
  <2>2. /\ b \in Int /\ v <= b /\ b <= v + 31 /\ b % 32 = 0
        /\ \A w \in v .. b - 1 : w % 32 # 0
    BY <1>1, CeilIsLeastMultiple, CeilIsMultiple, NoMultipleBetween
  <2>3. v + 31 < Limit
    BY <1>1, <1>6 DEF Overflows
  <2> HIDE DEF b
  <2>4. b \in v .. Limit - 1
    BY <1>1, <2>2, <2>3
  <2>5. IsBucket(s, b)
    BY <1>6, <2>2 DEF IsBucket
  <2>6. ASSUME NEW w \in v .. b - 1, IsBucket(s, w)
        PROVE  FALSE
    <3>1. w \in Int /\ v <= w /\ w % 32 # 0
      BY <1>1, <2>2
    <3>2. s = "align32" /\ (w <= 0 \/ w < 32)
      BY <1>6, <2>6, <3>1 DEF IsBucket
    <3>3. QED
      BY <1>1, <1>6, <3>1, <3>2
  <2>7. QED
    BY <1>2, <1>6, <2>1, <2>4, <2>5, <2>6
<1>7. CASE s = "align32" /\ v <= 0
  <2>1. NormalizeDim(s, v) = v /\ IsBucket(s, v)
    BY <1>7, <1>1 DEF NormalizeDim, IsBucket
  <2>2. QED
    BY <1>3, <1>7, <2>1
<1>8. CASE s = "align32" /\ 0 < v /\ v < 32
  <2>1. v \in Nat /\ 1 <= v /\ v < Limit /\ v <= Limit \div 2
    BY <1>8, <1>1, Sizes
  <2>2. NormalizeDim(s, v) = Pow2Ceil(v)
    BY <1>8, <1>1 DEF NormalizeDim
  <2>3. /\ Pow2Ceil(v) \in PowersOfTwo /\ v <= Pow2Ceil(v)
        /\ \A k \in Nat : v <= 2 ^ k => Pow2Ceil(v) <= 2 ^ k
    BY <2>1, Pow2CeilIsLeast
  <2>4. Pow2Ceil(v) \in Nat /\ Pow2Ceil(v) <= 32
    <3>1. PICK k \in 0 .. Width - 2 : Pow2Ceil(v) = 2 ^ k
      BY <2>3 DEF PowersOfTwo
    <3>2. k \in Nat /\ 2 ^ k \in Nat
      BY Sizes, PowersGrow
    <3>3. 5 \in Nat /\ v <= 2 ^ 5 /\ 2 ^ 5 = 32
      BY <1>8, <2>1, SmallPowers
    <3>4. QED
      BY <2>3, <3>1, <3>2, <3>3
  <2>5. Pow2Ceil(v) \in v .. Limit - 1
    BY <2>1, <2>3, <2>4, <1>1
  <2>6. IsBucket(s, Pow2Ceil(v))
    <3>1. Pow2Ceil(v) = 32 \/ Pow2Ceil(v) < 32
      BY <2>4
    <3>2. 32 % 32 = 0
      OBVIOUS
    <3>3. QED
      BY <1>8, <2>3, <3>1, <3>2 DEF IsBucket
  <2>7. ASSUME NEW w \in v .. Pow2Ceil(v) - 1, IsBucket(s, w)
        PROVE  FALSE
    <3>1. w \in Int /\ v <= w /\ w < Pow2Ceil(v) /\ 0 < w /\ w < 32
      BY <1>8, <2>1, <2>4
    <3>2. w % 32 # 0
      BY <3>1
    <3>3. w \in PowersOfTwo
      BY <1>8, <2>7, <3>1, <3>2 DEF IsBucket
    <3>4. PICK k \in 0 .. Width - 2 : w = 2 ^ k
      BY <3>3 DEF PowersOfTwo
    <3>5. k \in Nat
      BY Sizes
    <3>6. Pow2Ceil(v) <= w
      BY <2>3, <3>1, <3>4, <3>5
    <3>7. QED
      BY <3>1, <3>6, <2>4
  <2>8. ~(s = "log" /\ v > Limit \div 2)
    BY <1>8
  <2>9. QED
    BY <1>2, <2>2, <2>5, <2>6, <2>7, <2>8
<1>9. QED
  <2>1. s \in {"default", "log", "align32", "align32_ceil"}
    BY DEF Strategies
  <2>2. s = "align32" => 32 <= v \/ v <= 0 \/ (0 < v /\ v < 32)
    BY <1>1
  <2>3. QED
    BY <2>1, <2>2, <1>4, <1>5, <1>6, <1>7, <1>8

\* pow2_ceil leaves a power of two alone.
LEMMA Pow2CeilSettles ==
  ASSUME NEW p \in PowersOfTwo
  PROVE  p \in Nat /\ 1 <= p /\ p <= Limit \div 2 /\ Pow2Ceil(p) = p
<1>1. PICK k \in 0 .. Width - 2 : p = 2 ^ k
  BY DEF PowersOfTwo
<1>2. k \in Nat /\ k <= Width - 2 /\ p \in Nat /\ 1 <= p
  <2>1. k \in Nat /\ k <= Width - 2
    BY Sizes
  <2>2. 2 ^ k \in Nat /\ k < 2 ^ k
    BY <2>1, PowersGrow
  <2>3. QED
    BY <2>1, <2>2, <1>1
<1>3. p <= Limit \div 2
  <2>1. CASE k = Width - 2
    BY <2>1, <1>1, Sizes
  <2>2. CASE k # Width - 2
    <3>1. k < Width - 2
      BY <2>2, <1>2, Sizes
    <3>2. 2 ^ k < 2 ^ (Width - 2)
      BY <3>1, <1>2, Sizes, PowersGrow
    <3>3. QED
      BY <3>2, <1>1, <1>2, Sizes
  <2>3. QED
    BY <2>1, <2>2
<1>4. p < Limit
  BY <1>2, <1>3, Sizes
<1>5. Pow2Ceil(p) \in PowersOfTwo /\ p <= Pow2Ceil(p) /\ \A j \in Nat : p <= 2 ^ j => Pow2Ceil(p) <= 2 ^ j
  BY <1>2, <1>3, <1>4, Pow2CeilIsLeast
<1>6. Pow2Ceil(p) <= p
  <2>1. p <= 2 ^ k
    BY <1>1, <1>2
  <2>2. Pow2Ceil(p) <= 2 ^ k
    BY <2>1, <1>2, <1>5
  <2>3. QED
    BY <2>2, <1>1
<1>7. Pow2Ceil(p) \in Nat
  <2>1. PICK j \in 0 .. Width - 2 : Pow2Ceil(p) = 2 ^ j
    BY <1>5 DEF PowersOfTwo
  <2>2. j \in Nat
    BY Sizes
  <2>3. QED
    BY <2>1, <2>2, PowersGrow
<1>8. QED
  BY <1>2, <1>3, <1>5, <1>6, <1>7

\* The first value that leaves the type is a multiple of 32.
LEMMA LimitIsMultiple == Limit % 32 = 0
<1> DEFINE Bad == {k \in Nat : 5 <= k /\ (2 ^ k) % 32 # 0}
<1>1. ASSUME Bad # {} PROVE FALSE
  <2>1. PICK k \in Bad : \A j \in Bad : k <= j
    BY <1>1, LeastOf
  <2>2. k \in Nat /\ 5 <= k /\ (2 ^ k) % 32 # 0
    BY <2>1
  <2>3. k # 5
    <3>1. ASSUME k = 5 PROVE FALSE
      <4>1. 2 ^ k = 32
        BY <3>1, SmallPowers
      <4>2. QED
        BY <4>1, <2>2
    <3>2. QED
      BY <3>1
  <2>4. k - 1 \in Nat /\ 5 <= k - 1 /\ k - 1 \notin Bad
    BY <2>1, <2>2, <2>3
  <2>5. (2 ^ (k - 1)) % 32 = 0
    BY <2>4
  <2>6. 2 ^ k = 2 ^ (k - 1) + 2 ^ (k - 1) /\ 2 ^ (k - 1) \in Nat
    <3>1. 2 ^ ((k - 1) + 1) = 2 ^ (k - 1) + 2 ^ (k - 1) /\ 2 ^ (k - 1) \in Nat
      BY <2>4, Doubling
    <3>2. (k - 1) + 1 = k
      BY <2>2
    <3>3. QED
      BY <3>1, <3>2
  <2>7. \A n \in Nat : n % 32 = 0 => (n + n) % 32 = 0
    OBVIOUS
  <2>8. QED
    BY <2>2, <2>5, <2>6, <2>7
<1>2. Width - 1 \in Nat /\ 5 <= Width - 1
  BY WidthAssumption
<1>3. QED
  BY <1>1, <1>2 DEF Limit

\* Normalising a key that is a bucket already keeps it and cannot overflow: the
\* token of a flight, the row that answers it, the row of a file and the lookup that
\* finds it agree however often each of them normalises (normalize_dim).
THEOREM NormalizeSettles ==
  ASSUME NEW s \in Strategies, NEW v \in Int64, ~Overflows(s, v)
  PROVE  /\ NormalizeDim(s, NormalizeDim(s, v)) = NormalizeDim(s, v)
         /\ ~Overflows(s, NormalizeDim(s, v))
<1>1. v \in Int /\ -Limit <= v /\ v <= Limit - 1 /\ Limit \in Int /\ 64 <= Limit
  BY Sizes DEF Int64
<1>2. CASE NormalizeDim(s, v) = v
  BY <1>2
<1>3. CASE s \in {"align32", "align32_ceil"} /\ (s = "align32" => 32 <= v)
  <2> DEFINE b == CeilDiv32(v) * 32
  <2>1. b \in Int /\ v <= b /\ b <= v + 31 /\ b % 32 = 0
    BY <1>1, CeilIsLeastMultiple, CeilIsMultiple
  <2>2. NormalizeDim(s, v) = b /\ v + 31 < Limit /\ (s = "align32_ceil" => v # -Limit)
    BY <1>1, <1>3 DEF NormalizeDim, Overflows
  <2>3. CeilDiv32(b) = CeilDiv32(v)
    BY <1>1, CeilIsLeastMultiple, CeilOfMultiple
  <2>4. NormalizeDim(s, b) = CeilDiv32(b) * 32
    <3>1. s = "align32" => b >= 32
      BY <1>1, <1>3, <2>1
    <3> HIDE DEF b
    <3>2. QED
      BY <1>3, <2>1, <3>1 DEF NormalizeDim
  <2>5. NormalizeDim(s, b) = b
    BY <2>3, <2>4
  <2> HIDE DEF b
  <2>6. b <= Limit - 32
    BY <1>1, <2>1, <2>2, LimitIsMultiple
  <2>7. ~Overflows(s, b)
    BY <1>1, <1>3, <2>1, <2>2, <2>6 DEF Overflows
  <2>8. QED
    BY <2>2, <2>5, <2>7
<1>4. CASE s = "log" /\ 0 < v /\ v <= Limit \div 2
  <2>1. v \in Nat /\ 1 <= v /\ v < Limit
    BY <1>1, <1>4
  <2>2. NormalizeDim(s, v) = Pow2Ceil(v) /\ Pow2Ceil(v) \in PowersOfTwo
    BY <1>4, <2>1, Pow2CeilIsLeast DEF NormalizeDim
  <2> DEFINE p == Pow2Ceil(v)
  <2>3. p \in Nat /\ 1 <= p /\ Pow2Ceil(p) = p
    BY <2>2, Pow2CeilSettles
  <2>4. NormalizeDim(s, p) = p
    <3> HIDE DEF p
    <3>1. QED
      BY <1>4, <2>3 DEF NormalizeDim
  <2>5. ~Overflows(s, p)
    BY <1>4 DEF Overflows
  <2>6. QED
    BY <2>2, <2>4, <2>5
<1>5. CASE s = "align32" /\ 0 < v /\ v < 32
  <2>1. v \in Nat /\ 1 <= v /\ v < Limit /\ v <= Limit \div 2
    BY <1>5, <1>1, Sizes
  <2>2. NormalizeDim(s, v) = Pow2Ceil(v) /\ Pow2Ceil(v) \in PowersOfTwo
    BY <1>5, <1>1, <2>1, Pow2CeilIsLeast DEF NormalizeDim
  <2>3. Pow2Ceil(v) <= 32
    <3>1. \A k \in Nat : v <= 2 ^ k => Pow2Ceil(v) <= 2 ^ k
      BY <2>1, Pow2CeilIsLeast
    <3>2. 5 \in Nat /\ v <= 2 ^ 5 /\ 2 ^ 5 = 32
      BY <1>5, <2>1, SmallPowers
    <3>3. QED
      BY <3>1, <3>2
  <2> DEFINE p == Pow2Ceil(v)
  <2>4. p \in Nat /\ 1 <= p /\ p <= 32 /\ Pow2Ceil(p) = p
    BY <2>2, <2>3, Pow2CeilSettles
  <2>5. NormalizeDim(s, p) = p
    <3>1. CASE p = 32
      <4>1. CeilDiv32(1 * 32) = 1
        BY CeilOfMultiple
      <4>2. NormalizeDim(s, 32) = CeilDiv32(32) * 32
        BY <1>5 DEF NormalizeDim
      <4>3. NormalizeDim(s, 32) = 32
        BY <4>1, <4>2
      <4>4. QED
        BY <3>1, <4>3
    <3>2. CASE p < 32
      <4> HIDE DEF p
      <4>1. QED
        BY <1>5, <2>4, <3>2 DEF NormalizeDim
    <3>3. QED
      BY <2>4, <3>1, <3>2
  <2>6. ~Overflows(s, p)
    <3> HIDE DEF p
    <3>1. p + 31 < Limit
      BY <2>4, <1>1
    <3>2. QED
      BY <3>1, <2>4, <1>1, <1>5 DEF Overflows
  <2>7. QED
    BY <2>2, <2>5, <2>6
<1>6. QED
  <2>1. s \in {"default", "log", "align32", "align32_ceil"}
    BY DEF Strategies
  <2>2. CASE s = "default"
    <3>1. NormalizeDim(s, v) = v
      BY <2>2 DEF NormalizeDim
    <3>2. QED
      BY <1>2, <3>1
  <2>3. CASE v <= 0 /\ s \in {"log", "align32"}
    <3>1. NormalizeDim(s, v) = v
      BY <2>3, <1>1 DEF NormalizeDim
    <3>2. QED
      BY <1>2, <3>1
  <2>4. CASE s = "log" /\ v > Limit \div 2
    <3>1. v \in Nat /\ 1 <= v /\ v < Limit
      BY <1>1, <2>4, Sizes
    <3>2. NormalizeDim(s, v) = v
      BY <2>4, <3>1, Pow2CeilIsLeast DEF NormalizeDim
    <3>3. QED
      BY <1>2, <3>2
  <2>5. v <= 0 \/ 0 < v
    BY <1>1
  <2>6. s = "align32" /\ 0 < v => 32 <= v \/ v < 32
    BY <1>1
  <2>7. Limit \div 2 \in Int
    BY Sizes
  <2>8. s = "log" => v > Limit \div 2 \/ v <= Limit \div 2
    BY <2>7, <1>1
  <2>9. QED
    BY <2>1, <2>2, <2>3, <2>4, <2>5, <2>6, <2>8, <1>3, <1>4, <1>5

\* The greatest member of a set of numbers.
LEMMA GreatestOf ==
  ASSUME NEW n \in Nat, NEW S \in SUBSET (0 .. n), S # {}
  PROVE  /\ Greatest(S) \in S /\ \A m \in S : m <= Greatest(S)
         /\ Max(S) \in S /\ \A m \in S : m <= Max(S)
BY MaxOf DEF Greatest

-----------------------------------------------------------------------------
(* hash_key and build_index.                                                 *)

\* The hash of a key is a number.
LEMMA HashIsNat ==
  ASSUME NEW key, key.dims \in Seq(Int), key.dtypes \in Seq(DTypes)
  PROVE  HashKey(key) \in Nat
<1> DEFINE parts == key.dims \o [n \in DOMAIN key.dtypes |-> DTypeHash[key.dtypes[n]]]
           len == Len(parts)
           Op == [p \in Nat \X (1 .. len) |-> (p[1] * 3 + parts[p[2]]) % HashRange]
<1>1. parts \in Seq(Int)
  <2>1. DTypeHash \in [DTypes -> Nat]
    BY TableLoadAssumption
  <2>2. \A n \in DOMAIN key.dtypes : DTypeHash[key.dtypes[n]] \in Int
    BY <2>1
  <2>3. [n \in DOMAIN key.dtypes |-> DTypeHash[key.dtypes[n]]] \in Seq(Int)
    <3>1. DOMAIN key.dtypes = 1 .. Len(key.dtypes) /\ Len(key.dtypes) \in Nat
      OBVIOUS
    <3>2. [n \in DOMAIN key.dtypes |-> DTypeHash[key.dtypes[n]]] \in [1 .. Len(key.dtypes) -> Int]
      BY <2>2, <3>1
    <3>3. QED
      BY <3>1, <3>2
  <2>4. QED
    BY <2>3
<1> HIDE DEF parts
<1>2. len \in Nat /\ DOMAIN parts = 1 .. len /\ \A i \in 1 .. len : parts[i] \in Int
  BY <1>1
<1> HIDE DEF len
<1>3. Op \in [Nat \X (1 .. len) -> Nat]
  <2>1. ASSUME NEW p \in Nat \X (1 .. len)
        PROVE  (p[1] * 3 + parts[p[2]]) % HashRange \in Nat
    <3>1. p[1] * 3 + parts[p[2]] \in Int /\ HashRange \in Nat \ {0}
      BY <1>2, TableLoadAssumption
    <3>2. \A a \in Int, b \in Nat \ {0} : a % b \in Nat
      OBVIOUS
    <3>3. QED
      BY <3>1, <3>2
  <2>2. QED
    BY <2>1
<1> HIDE DEF Op
<1> DEFINE Step(iter) ==
             [s \in SUBSET (1 .. len) |->
                IF s = {} THEN 1 ELSE (iter[s \ {Max(s)}] * 3 + parts[Max(s)]) % HashRange]
<1>4. HashKey(key) = (CHOOSE iter : iter = Step(iter))[1 .. len]
  BY <1>2 DEF HashKey, FoldLeft, MapThenFoldSet, parts
<1>5. PICK g : IsFold(g, len, Nat, 1, Op)
  <2>1. len \in Nat /\ 1 \in Nat
    BY <1>2
  <2>2. QED
    BY <2>1, <1>3, FoldExists
<1>6. g = Step(g)
  <2>1. ASSUME NEW s \in SUBSET (1 .. len), s # {}
        PROVE  Op[<<g[s \ {Max(s)}], Max(s)>>] = (g[s \ {Max(s)}] * 3 + parts[Max(s)]) % HashRange
    <3>1. Max(s) \in 1 .. len
      <4>1. s \in SUBSET (0 .. len)
        BY <1>2
      <4>2. Max(s) \in s
        BY <4>1, <2>1, <1>2, GreatestOf
      <4>3. QED
        BY <4>2
    <3>2. s \ {Max(s)} \in SUBSET (1 .. len)
      OBVIOUS
    <3>3. <<g[s \ {Max(s)}], Max(s)>> \in Nat \X (1 .. len)
      BY <1>5, <3>1, <3>2 DEF IsFold
    <3>4. QED
      BY <3>3 DEF Op
  <2>2. QED
    BY <1>5, <2>1 DEF IsFold
<1> DEFINE it == CHOOSE iter : iter = Step(iter)
<1>7. it = Step(it)
  BY <1>6
<1> HIDE DEF it
<1>8. \A s \in SUBSET (1 .. len) :
        it[s] = IF s = {} THEN 1 ELSE (it[s \ {Max(s)}] * 3 + parts[Max(s)]) % HashRange
  BY <1>7
<1>9. ASSUME NEW k \in Nat, k <= len
      PROVE  it[1 .. k] \in Nat
  <2> DEFINE Bad == {j \in 0 .. len : it[1 .. j] \notin Nat}
  <2>1. ASSUME Bad # {} PROVE FALSE
    <3>1. Bad \in SUBSET Nat
      BY <1>2
    <3>2. PICK j \in Bad : \A i \in Bad : j <= i
      BY <3>1, <2>1, LeastOf
    <3>3. j \in 0 .. len /\ it[1 .. j] \notin Nat
      BY <3>2
    <3>4. CASE j = 0
      <4>1. 1 .. j = {}
        BY <3>4
      <4>2. it[{}] = 1
        BY <1>8
      <4>3. QED
        BY <4>1, <4>2, <3>3
    <3>5. CASE j # 0
      <4>1. j \in 1 .. len /\ j - 1 \in 0 .. len /\ j - 1 \notin Bad
        BY <3>2, <3>3, <3>5, <1>2
      <4>2. it[1 .. j - 1] \in Nat
        BY <4>1
      <4>3. it[1 .. j] = (it[1 .. j - 1] * 3 + parts[j]) % HashRange
        BY <1>2, <1>8, <4>1, Prefix
      <4>4. it[1 .. j - 1] * 3 + parts[j] \in Int /\ HashRange \in Nat \ {0}
        BY <1>2, <4>1, <4>2, TableLoadAssumption
      <4>5. \A a \in Int, b \in Nat \ {0} : a % b \in Nat
        OBVIOUS
      <4>6. QED
        BY <3>3, <4>3, <4>4, <4>5
    <3>6. QED
      BY <3>4, <3>5
  <2>2. Bad = {}
    BY <2>1
  <2>3. k \in 0 .. len
    BY <1>9, <1>2
  <2>4. QED
    BY <2>2, <2>3
<1>10. it[1 .. len] \in Nat
  <2>1. len <= len
    BY <1>2
  <2>2. QED
    BY <2>1, <1>2, <1>9
<1>11. QED
  BY <1>4, <1>10 DEF it

\* build_index: there is a number of buckets that is twice the rows.
LEMMA BucketsOf ==
  ASSUME NEW rows \in Nat
  PROVE  BucketCount(rows) \in Nat /\ BucketCount(rows) >= rows * 2 /\ BucketCount(rows) >= 1
<1> DEFINE Sizes1 == {MinBuckets * 2 ^ e : e \in 0 .. rows}
           Enough == {n \in Sizes1 : n >= rows * 2}
<1>1. MinBuckets \in Nat /\ 1 <= MinBuckets
  BY TableLoadAssumption
<1>2. ASSUME NEW e \in 0 .. rows
      PROVE  MinBuckets * 2 ^ e \in Nat /\ MinBuckets * 2 ^ e >= 2 ^ e /\ 2 ^ e \in Nat /\ 2 ^ e >= 1
  <2>1. e \in Nat /\ 2 ^ e \in Nat /\ e < 2 ^ e
    BY PowersGrow
  <2>2. \A a, b \in Nat : 1 <= a => a * b \in Nat /\ a * b >= b
    OBVIOUS
  <2>3. QED
    BY <1>1, <2>1, <2>2
<1>3. Enough \in SUBSET Nat
  BY <1>2
<1>4. Enough # {}
  <2>1. 2 ^ rows >= rows * 2
    <3>1. CASE rows = 0
      BY <3>1, SmallPowers
    <3>2. CASE rows # 0
      <4>1. rows - 1 \in Nat /\ (rows - 1) + 1 = rows
        BY <3>2
      <4>2. rows - 1 < 2 ^ (rows - 1) /\ 2 ^ (rows - 1) \in Nat
        BY <4>1, PowersGrow
      <4>3. 2 ^ ((rows - 1) + 1) = 2 ^ (rows - 1) + 2 ^ (rows - 1)
        BY <4>1, Doubling
      <4>4. QED
        BY <4>1, <4>2, <4>3
    <3>3. QED
      BY <3>1, <3>2
  <2>2. rows \in 0 .. rows
    OBVIOUS
  <2>3. MinBuckets * 2 ^ rows \in Enough
    BY <1>2, <2>1, <2>2
  <2>4. QED
    BY <2>3
<1>5. PICK n \in Enough : \A m \in Enough : n <= m
  BY <1>3, <1>4, LeastOf
<1>6. /\ BucketCount(rows) \in Sizes1 /\ BucketCount(rows) >= rows * 2
  <2>1. /\ n \in Sizes1 /\ n >= rows * 2
        /\ \A m \in Sizes1 : m >= rows * 2 => n <= m
    BY <1>5
  <2>2. BucketCount(rows) = CHOOSE k \in Sizes1 : k >= rows * 2 /\ \A m \in Sizes1 : m >= rows * 2 => k <= m
    BY DEF BucketCount
  <2> HIDE DEF Sizes1
  <2>3. QED
    BY <2>1, <2>2
<1>7. PICK e \in 0 .. rows : BucketCount(rows) = MinBuckets * 2 ^ e
  BY <1>6
<1>8. QED
  BY <1>2, <1>6, <1>7

\* The bucket of a row, and what the index of the first k rows says: a bucket leads
\* to its latest row, and a row to the one before it in its bucket.
BucketOf(rows, i) == HashKey(rows[i].key) % BucketCount(Len(rows))
Buckets(rows) == 0 .. BucketCount(Len(rows)) - 1
Chained(heads, next, rows, k) ==
  /\ heads \in [Buckets(rows) -> 0 .. k] /\ next \in [1 .. k -> Nat]
  /\ \A b \in Buckets(rows) :
       /\ heads[b] # 0 => BucketOf(rows, heads[b]) = b
       /\ \A j \in 1 .. k : BucketOf(rows, j) = b => j <= heads[b]
  /\ \A i \in 1 .. k :
       /\ next[i] < i
       /\ next[i] # 0 => BucketOf(rows, next[i]) = BucketOf(rows, i)
       /\ \A j \in 1 .. i - 1 : BucketOf(rows, j) = BucketOf(rows, i) => j <= next[i]

\* One more row.
LEMMA ChainOneMore ==
  ASSUME NEW rows, NEW k \in Nat, NEW heads, NEW next, Chained(heads, next, rows, k),
         BucketOf(rows, k + 1) \in Buckets(rows)
  PROVE  Chained([heads EXCEPT ![BucketOf(rows, k + 1)] = k + 1],
                 Append(next, heads[BucketOf(rows, k + 1)]), rows, k + 1)
<1> DEFINE b0 == BucketOf(rows, k + 1)
           h == [heads EXCEPT ![b0] = k + 1]
           x == Append(next, heads[b0])
<1>1. /\ heads \in [Buckets(rows) -> 0 .. k] /\ next \in [1 .. k -> Nat]
      /\ \A b \in Buckets(rows) :
           /\ heads[b] # 0 => BucketOf(rows, heads[b]) = b
           /\ \A j \in 1 .. k : BucketOf(rows, j) = b => j <= heads[b]
      /\ \A i \in 1 .. k :
           /\ next[i] < i
           /\ next[i] # 0 => BucketOf(rows, next[i]) = BucketOf(rows, i)
           /\ \A j \in 1 .. i - 1 : BucketOf(rows, j) = BucketOf(rows, i) => j <= next[i]
  BY DEF Chained
<1>2. b0 \in Buckets(rows) /\ heads[b0] \in 0 .. k
  BY <1>1
<1>3. \A b \in Buckets(rows) : heads[b] \in 0 .. k
  BY <1>1
<1>4. next \in Seq(Nat) /\ Len(next) = k
  BY <1>1
<1>5. /\ x \in Seq(Nat) /\ Len(x) = k + 1 /\ x[k + 1] = heads[b0]
      /\ \A i \in 1 .. k : x[i] = next[i]
  BY <1>2, <1>4
<1>6. x \in [1 .. k + 1 -> Nat]
  <2> HIDE DEF x
  <2>1. x \in [1 .. Len(x) -> Nat]
    BY <1>5
  <2>2. QED
    BY <2>1, <1>5
<1>7. h \in [Buckets(rows) -> 0 .. k + 1] /\ h[b0] = k + 1 /\ \A b \in Buckets(rows) : b # b0 => h[b] = heads[b]
  <2>1. 0 .. k \subseteq 0 .. k + 1 /\ k + 1 \in 0 .. k + 1
    OBVIOUS
  <2>2. QED
    BY <2>1, <1>1, <1>2
<1> HIDE DEF h, x
<1>8. ASSUME NEW b \in Buckets(rows)
      PROVE  /\ h[b] # 0 => BucketOf(rows, h[b]) = b
             /\ \A j \in 1 .. k + 1 : BucketOf(rows, j) = b => j <= h[b]
  <2>1. CASE b = b0
    BY <2>1, <1>7
  <2>2. CASE b # b0
    <3>1. h[b] = heads[b]
      BY <2>2, <1>7
    <3>2. \A j \in 1 .. k + 1 : j = k + 1 \/ j \in 1 .. k
      OBVIOUS
    <3>3. QED
      BY <2>2, <3>1, <3>2, <1>1
  <2>3. QED
    BY <2>1, <2>2
<1>9. ASSUME NEW i \in 1 .. k + 1
      PROVE  /\ x[i] < i
             /\ x[i] # 0 => BucketOf(rows, x[i]) = BucketOf(rows, i)
             /\ \A j \in 1 .. i - 1 : BucketOf(rows, j) = BucketOf(rows, i) => j <= x[i]
  <2>1. CASE i = k + 1
    <3>1. x[i] = heads[b0] /\ BucketOf(rows, i) = b0 /\ i - 1 = k
      BY <2>1, <1>5
    <3>2. QED
      BY <2>1, <3>1, <1>1, <1>2
  <2>2. CASE i # k + 1
    <3>1. i \in 1 .. k /\ x[i] = next[i]
      BY <2>2, <1>5
    <3>2. QED
      BY <3>1, <1>1
  <2>3. QED
    BY <2>1, <2>2
<1>10. Chained(h, x, rows, k + 1)
  BY <1>6, <1>7, <1>8, <1>9 DEF Chained
<1>11. QED
  BY <1>10 DEF h, x

\* build_index chains all the rows.
LEMMA IndexChains ==
  ASSUME NEW rows, Len(rows) \in Nat, DOMAIN rows = 1 .. Len(rows),
         \A i \in DOMAIN rows : HashKey(rows[i].key) \in Nat
  PROVE  Chained(BuildIndex(rows).heads, BuildIndex(rows).next, rows, Len(rows))
<1> DEFINE n == BucketCount(Len(rows))
           len == Len(rows)
           V == [heads : [Buckets(rows) -> Nat], next : Seq(Nat)]
           base == [heads |-> [b \in 0 .. n - 1 |-> 0], next |-> <<>>]
           Chain(index, i) ==
             [heads |-> [index.heads EXCEPT ![BucketOf(rows, i)] = i],
              next  |-> Append(index.next, index.heads[BucketOf(rows, i)])]
           Op == [p \in V \X (1 .. len) |-> Chain(p[1], p[2])]
<1>1. n \in Nat /\ 1 <= n /\ len \in Nat
  BY BucketsOf
<1>2. \A i \in 1 .. len : BucketOf(rows, i) \in Buckets(rows)
  <2>1. \A a \in Nat, b \in Nat : 1 <= b => a % b \in 0 .. b - 1
    OBVIOUS
  <2>2. \A i \in 1 .. len : HashKey(rows[i].key) \in Nat
    OBVIOUS
  <2>3. QED
    BY <1>1, <2>1, <2>2 DEF BucketOf, Buckets
<1>3. Buckets(rows) = 0 .. n - 1
  BY DEF Buckets
<1> DEFINE Step(iter) ==
             [s \in SUBSET (1 .. len) |->
                IF s = {} THEN base ELSE Chain(iter[s \ {Max(s)}], Max(s))]
<1>4. BuildIndex(rows) = (CHOOSE iter : iter = Step(iter))[1 .. len]
  <2>1. DOMAIN rows = 1 .. len /\ DOMAIN [i \in DOMAIN rows |-> i] = 1 .. len
    OBVIOUS
  <2>2. \A s \in SUBSET (1 .. len) : s # {} => [i \in DOMAIN rows |-> i][Max(s)] = Max(s)
    <3>1. ASSUME NEW s \in SUBSET (1 .. len), s # {} PROVE Max(s) \in 1 .. len
      <4>1. s \in SUBSET (0 .. len)
        OBVIOUS
      <4>2. Max(s) \in s
        BY <4>1, <3>1, <1>1, GreatestOf
      <4>3. QED
        BY <4>2
    <3>2. QED
      BY <3>1, <2>1
  <2> DEFINE Raw(iter) ==
               [s \in SUBSET DOMAIN [i \in DOMAIN rows |-> i] |->
                  IF s = {} THEN base
                  ELSE Chain(iter[s \ {Max(s)}], [i \in DOMAIN rows |-> i][Max(s)])]
  <2>3. BuildIndex(rows) = (CHOOSE iter : iter = Raw(iter))[DOMAIN [i \in DOMAIN rows |-> i]]
    BY DEF BuildIndex, FoldLeft, MapThenFoldSet, BucketOf
  <2>4. \A iter : Raw(iter) = Step(iter)
    <3> HIDE DEF base, Chain
    <3>1. TAKE iter
    <3>2. \A s \in SUBSET (1 .. len) :
            (IF s = {} THEN base ELSE Chain(iter[s \ {Max(s)}], [i \in DOMAIN rows |-> i][Max(s)]))
              = IF s = {} THEN base ELSE Chain(iter[s \ {Max(s)}], Max(s))
      BY <2>2
    <3>3. QED
      BY <2>1, <3>2
  <2> HIDE DEF Raw, Step
  <2>5. (CHOOSE iter : iter = Raw(iter)) = (CHOOSE iter : iter = Step(iter))
    BY <2>4
  <2>6. QED
    BY <2>1, <2>3, <2>5
<1>5. base \in V
  BY <1>1, <1>3
<1>6. \A v \in V, i \in 1 .. len : Chain(v, i) \in V
  <2>1. TAKE v \in V, i \in 1 .. len
  <2>2. i \in Nat /\ v.heads \in [Buckets(rows) -> Nat] /\ v.next \in Seq(Nat) /\ v.heads[BucketOf(rows, i)] \in Nat
    BY <1>1, <1>2
  <2>3. [v.heads EXCEPT ![BucketOf(rows, i)] = i] \in [Buckets(rows) -> Nat]
    BY <2>2
  <2>4. Append(v.next, v.heads[BucketOf(rows, i)]) \in Seq(Nat)
    BY <2>2
  <2>5. QED
    BY <2>3, <2>4
<1> HIDE DEF V, base, Chain
<1>7. Op \in [V \X (1 .. len) -> V]
  BY <1>6
<1> HIDE DEF Op
<1>8. PICK g : IsFold(g, len, V, base, Op)
  BY <1>1, <1>5, <1>7, FoldExists
<1>9. g = Step(g)
  <2>1. ASSUME NEW s \in SUBSET (1 .. len), s # {}
        PROVE  Op[<<g[s \ {Max(s)}], Max(s)>>] = Chain(g[s \ {Max(s)}], Max(s))
    <3>1. Max(s) \in 1 .. len
      <4>1. s \in SUBSET (0 .. len)
        BY <1>1
      <4>2. Max(s) \in s
        BY <4>1, <2>1, <1>1, GreatestOf
      <4>3. QED
        BY <4>2
    <3>2. s \ {Max(s)} \in SUBSET (1 .. len)
      OBVIOUS
    <3>3. <<g[s \ {Max(s)}], Max(s)>> \in V \X (1 .. len)
      BY <1>8, <3>1, <3>2 DEF IsFold
    <3>4. QED
      BY <3>3 DEF Op
  <2>2. QED
    BY <1>8, <2>1 DEF IsFold
<1> DEFINE it == CHOOSE iter : iter = Step(iter)
<1>10. it = Step(it)
  BY <1>9
<1> HIDE DEF it
<1>11. \A s \in SUBSET (1 .. len) : it[s] = IF s = {} THEN base ELSE Chain(it[s \ {Max(s)}], Max(s))
  BY <1>10
<1> DEFINE Ok(k) == Chained(it[1 .. k].heads, it[1 .. k].next, rows, k)
           Bad == {k \in 0 .. len : ~Ok(k)}
<1> HIDE DEF Ok
<1>12. ASSUME Bad # {} PROVE FALSE
  <2>1. Bad \in SUBSET Nat
    BY <1>1
  <2>2. PICK k \in Bad : \A i \in Bad : k <= i
    BY <2>1, <1>12, LeastOf
  <2>3. k \in 0 .. len /\ ~Ok(k)
    BY <2>2
  <2>4. CASE k = 0
    <3>1. 1 .. k = {} /\ it[{}] = base
      <4>1. {} \in SUBSET (1 .. len)
        OBVIOUS
      <4>2. it[{}] = IF {} = {} THEN base ELSE Chain(it[{} \ {Max({})}], Max({}))
        BY ONLY <4>1, <1>11, Zenon
      <4>3. 1 .. k = {}
        BY <2>4
      <4>4. QED
        BY <4>2, <4>3
    <3>2. it[1 .. k] = base
      BY <3>1
    <3>3. base.heads = [b \in Buckets(rows) |-> 0] /\ base.next = <<>>
      BY <1>3 DEF base
    <3>4. Chained(base.heads, base.next, rows, 0)
      <4>1. 1 .. 0 = {} /\ <<>> \in [1 .. 0 -> Nat]
        OBVIOUS
      <4>2. base.heads \in [Buckets(rows) -> 0 .. 0] /\ \A b \in Buckets(rows) : base.heads[b] = 0
        BY <3>3
      <4>3. QED
        BY <4>1, <4>2, <3>3 DEF Chained
    <3>5. QED
      BY <2>3, <2>4, <3>2, <3>4 DEF Ok
  <2>5. CASE k # 0
    <3>1. k \in 1 .. len /\ k - 1 \in 0 .. len /\ k - 1 \notin Bad /\ k - 1 \in Nat /\ (k - 1) + 1 = k
      BY <2>2, <2>3, <2>5, <1>1
    <3>2. Ok(k - 1)
      BY <3>1
    <3>3. it[1 .. k] = Chain(it[1 .. k - 1], k)
      BY <1>1, <1>11, <3>1, Prefix
    <3> DEFINE old == it[1 .. k - 1]
    <3>4. /\ it[1 .. k].heads = [old.heads EXCEPT ![BucketOf(rows, k)] = k]
          /\ it[1 .. k].next = Append(old.next, old.heads[BucketOf(rows, k)])
      BY <3>3 DEF Chain
    <3>5. Chained(old.heads, old.next, rows, k - 1)
      BY <3>2 DEF Ok
    <3> HIDE DEF old
    <3>6. BucketOf(rows, (k - 1) + 1) \in Buckets(rows)
      BY <1>2, <3>1
    <3>7. Chained([old.heads EXCEPT ![BucketOf(rows, (k - 1) + 1)] = (k - 1) + 1],
                  Append(old.next, old.heads[BucketOf(rows, (k - 1) + 1)]), rows, (k - 1) + 1)
      BY <3>1, <3>5, <3>6, ChainOneMore
    <3>8. QED
      BY <2>3, <3>1, <3>4, <3>7 DEF Ok
  <2>6. QED
    BY <2>4, <2>5
<1>13. Ok(len)
  <2>1. len \in 0 .. len
    BY <1>1
  <2>2. Bad = {}
    BY <1>12
  <2>3. QED
    BY <2>1, <2>2
<1>14. QED
  BY <1>4, <1>13 DEF Ok, it

-----------------------------------------------------------------------------
(* find().                                                                   *)

\* The normalised key that find() looks for.
Wanted(table, key) == [dims |-> Normalized(table, key.dims), dtypes |-> key.dtypes]

\* The walk from the head of a bucket ends at the last row that has the wanted key,
\* or at 0 if no row has it.
LEMMA FindIsLastRow ==
  ASSUME NEW table, NEW key,
         Len(table.rows) \in Nat, DOMAIN table.rows = 1 .. Len(table.rows),
         \A i \in DOMAIN table.rows : HashKey(table.rows[i].key) \in Nat,
         table.index = BuildIndex(table.rows), HashKey(Wanted(table, key)) \in Nat,
         Len(key.dims) = Len(table.strategies), Len(key.dtypes) = table.ndtypes,
         Len(key.dims) \in Nat, Len(key.dims) <= MaxColumns,
         table.rows = <<>> <=> Len(table.rows) = 0
  PROVE  /\ Find(table, key) \in 0 .. Len(table.rows)
         /\ Find(table, key) # 0 => table.rows[Find(table, key)].key = Wanted(table, key)
         /\ \A j \in DOMAIN table.rows :
              table.rows[j].key = Wanted(table, key) => j <= Find(table, key)
<1> DEFINE rows == table.rows
           n == Len(table.rows)
           heads == table.index.heads
           next == table.index.next
           wanted == Wanted(table, key)
           size == BucketCount(Len(rows))
           first == heads[HashKey(wanted) % Cardinality(DOMAIN heads)]
           Step(w) == [i \in 0 .. n |-> IF i = 0 \/ rows[i].key = wanted THEN i ELSE w[next[i]]]
<1>1. CASE table.rows = <<>>
  <2>1. n = 0 /\ DOMAIN table.rows = {}
    BY <1>1
  <2>2. Find(table, key) = 0
    BY <1>1 DEF Find
  <2>3. QED
    BY <2>1, <2>2
<1>2. CASE table.rows # <<>>
  <2>1. Find(table, key) = (CHOOSE w : w = Step(w))[first]
    <3>1. /\ ~(Len(key.dims) # Len(table.strategies)) /\ ~(Len(key.dtypes) # table.ndtypes)
          /\ ~(Len(key.dims) > MaxColumns)
      BY TableLoadAssumption
    <3>2. QED
      BY <3>1, <1>2 DEF Find, Wanted
  <2>2. Chained(heads, next, rows, n)
    BY IndexChains
  <2>3. /\ heads \in [Buckets(rows) -> 0 .. n] /\ next \in [1 .. n -> Nat]
        /\ \A b \in Buckets(rows) :
             /\ heads[b] # 0 => BucketOf(rows, heads[b]) = b
             /\ \A j \in 1 .. n : BucketOf(rows, j) = b => j <= heads[b]
        /\ \A i \in 1 .. n :
             /\ next[i] < i
             /\ next[i] # 0 => BucketOf(rows, next[i]) = BucketOf(rows, i)
             /\ \A j \in 1 .. i - 1 : BucketOf(rows, j) = BucketOf(rows, i) => j <= next[i]
    BY <2>2 DEF Chained
  <2>4. size \in Nat /\ 1 <= size /\ n \in Nat
    BY BucketsOf
  <2>5. Cardinality(DOMAIN heads) = size
    <3>1. DOMAIN heads = 0 .. size - 1
      BY <2>3 DEF Buckets
    <3>2. Cardinality(0 .. size - 1) = IF 0 > size - 1 THEN 0 ELSE (size - 1) - 0 + 1
      <4>1. 0 \in Int /\ size - 1 \in Int
        BY <2>4
      <4>2. QED
        BY <4>1, FS_Interval
    <3>3. QED
      BY <3>1, <3>2, <2>4
  <2> DEFINE b0 == HashKey(wanted) % size
             Stop == {i \in 1 .. n : rows[i].key = wanted}
  <2>6. b0 \in Buckets(rows) /\ first = heads[b0]
    <3>1. \A a \in Nat, b \in Nat : 1 <= b => a % b \in 0 .. b - 1
      OBVIOUS
    <3>2. QED
      BY <2>4, <2>5, <3>1 DEF Buckets
  <2>7. \A j \in 1 .. n : rows[j].key = wanted => BucketOf(rows, j) = b0
    BY DEF BucketOf
  <2> HIDE DEF rows, n, heads, next, wanted, size, first, b0
  <2>8. PICK w : w = [i \in 0 .. n |-> IF i = 0 \/ i \in Stop THEN i ELSE w[next[i]]]
    <3>1. next \in [1 .. n -> Nat] /\ Stop \in SUBSET (1 .. n) /\ \A i \in 1 .. n : next[i] < i
      BY <2>3
    <3> HIDE DEF Stop
    <3>2. QED
      BY <3>1, <2>4, WalkExists
  <2>9. w = Step(w)
    <3>1. \A i \in 0 .. n : (i = 0 \/ i \in Stop) = (i = 0 \/ rows[i].key = wanted)
      BY <2>4
    <3>2. QED
      BY <2>8, <3>1
  <2> DEFINE walk == CHOOSE v : v = Step(v)
  <2>10. walk = Step(walk)
    BY <2>9
  <2> HIDE DEF walk
  <2>11. \A i \in 0 .. n : walk[i] = IF i = 0 \/ rows[i].key = wanted THEN i ELSE walk[next[i]]
    BY <2>10
  <2> DEFINE Good(i) ==
               /\ walk[i] \in 0 .. i
               /\ walk[i] # 0 => rows[walk[i]].key = wanted
               /\ \A j \in 1 .. i : rows[j].key = wanted => j <= walk[i]
             Bad == {i \in 0 .. n : (i = 0 \/ BucketOf(rows, i) = b0) /\ ~Good(i)}
  <2>12. Good(0)
    BY <2>4, <2>11
  <2>13. ASSUME NEW i \in 1 .. n, BucketOf(rows, i) = b0,
                \A m \in 0 .. i - 1 : (m = 0 \/ BucketOf(rows, m) = b0) => Good(m)
         PROVE  Good(i)
    <3>1. i \in Nat /\ i \in 0 .. n /\ i # 0 /\ next[i] \in 0 .. i - 1
      BY <2>3, <2>4
    <3>2. CASE rows[i].key = wanted
      <4>1. walk[i] = i
        BY <2>11, <3>1, <3>2
      <4>2. QED
        BY <4>1, <3>1, <3>2
    <3>3. CASE rows[i].key # wanted
      <4>1. walk[i] = walk[next[i]]
        BY <2>11, <3>1, <3>3
      <4>2. next[i] = 0 \/ BucketOf(rows, next[i]) = b0
        BY <2>3, <2>13
      <4>3. Good(next[i])
        BY <3>1, <4>2, <2>13
      <4>4. ASSUME NEW j \in 1 .. i, rows[j].key = wanted
            PROVE  j \in 1 .. next[i]
        <5>1. j \in 1 .. i - 1 /\ j \in 1 .. n
          BY <3>1, <3>3, <4>4, <2>4
        <5>2. BucketOf(rows, j) = BucketOf(rows, i)
          BY <5>1, <4>4, <2>7, <2>13
        <5>3. j <= next[i]
          BY <5>1, <5>2, <2>3
        <5>4. QED
          BY <5>1, <5>3, <3>1
      <4>5. QED
        BY <4>1, <4>3, <4>4, <3>1
    <3>4. QED
      BY <3>2, <3>3
  <2> HIDE DEF Good
  <2>14. ASSUME Bad # {} PROVE FALSE
    <3>1. Bad \in SUBSET Nat
      BY <2>4
    <3>2. PICK i \in Bad : \A m \in Bad : i <= m
      BY <3>1, <2>14, LeastOf
    <3>3. i \in 1 .. n /\ BucketOf(rows, i) = b0 /\ ~Good(i)
      BY <3>2, <2>12, <2>4
    <3>4. \A m \in 0 .. i - 1 : (m = 0 \/ BucketOf(rows, m) = b0) => Good(m)
      <4>1. TAKE m \in 0 .. i - 1
      <4>2. m \in 0 .. n /\ ~(i <= m)
        BY <3>3, <2>4
      <4>3. m \notin Bad
        BY <3>2, <4>2
      <4>4. QED
        BY <4>2, <4>3
    <3>5. QED
      BY <3>3, <3>4, <2>13
  <2>15. first \in 0 .. n /\ (first = 0 \/ BucketOf(rows, first) = b0)
    BY <2>3, <2>6
  <2>16. Good(first)
    <3>1. Bad = {}
      BY <2>14
    <3>2. QED
      BY <3>1, <2>15
  <2>17. walk[first] \in 0 .. n
    BY <2>16, <2>15, <2>4 DEF Good
  <2>18. ASSUME NEW j \in 1 .. n, rows[j].key = wanted
         PROVE  j <= walk[first]
    <3>1. j <= first
      BY <2>18, <2>3, <2>6, <2>7
    <3>2. j \in 1 .. first
      BY <3>1, <2>15, <2>4
    <3>3. QED
      BY <3>2, <2>16, <2>18 DEF Good
  <2>19. walk[first] # 0 => rows[walk[first]].key = wanted
    BY <2>16 DEF Good
  <2>20. Find(table, key) = walk[first]
    BY <2>1 DEF walk
  <2>21. QED
    BY <2>17, <2>18, <2>19, <2>20 DEF rows, n, wanted
<1>3. QED
  BY <1>1, <1>2

-----------------------------------------------------------------------------
(* What load() makes of a kernel of a file.                                  *)

\* The table of a kernel that parses: as many rows, each with its key in buckets.
LEMMA TableShape ==
  ASSUME NEW kernel \in FileKernel, KernelParses(kernel)
  PROVE  /\ Len(kernel.rows) \in Nat /\ DOMAIN kernel.rows = 1 .. Len(kernel.rows)
         /\ TableOf(kernel).rows \in Seq({Row(kernel, kernel.rows[n]) : n \in DOMAIN kernel.rows})
         /\ Len(TableOf(kernel).rows) = Len(kernel.rows)
         /\ DOMAIN TableOf(kernel).rows = DOMAIN kernel.rows
         /\ \A n \in DOMAIN kernel.rows : TableOf(kernel).rows[n] = Row(kernel, kernel.rows[n])
         /\ TableOf(kernel).index = BuildIndex(TableOf(kernel).rows)
         /\ TableOf(kernel).ndtypes = kernel.ndtypes /\ kernel.ndtypes \in Nat
         /\ Len(kernel.strategies) \in Nat
         /\ Len(TableOf(kernel).strategies) = Len(kernel.strategies)
         /\ DOMAIN kernel.strategies = 1 .. Len(kernel.strategies)
         /\ TableOf(kernel).strategies = [i \in DOMAIN kernel.strategies |-> Parsed(kernel.strategies[i])]
         /\ \A i \in DOMAIN kernel.strategies : TableOf(kernel).strategies[i] \in Strategies
<1> DEFINE table == TableOf(kernel)
<1>1. /\ kernel.rows \in Seq(FileRow) /\ kernel.strategies \in Seq(STRING \cup {None}) /\ kernel.ndtypes \in Nat
  BY DEF FileKernel
<1>2. /\ Len(kernel.rows) \in Nat /\ DOMAIN kernel.rows = 1 .. Len(kernel.rows)
      /\ Len(kernel.strategies) \in Nat /\ DOMAIN kernel.strategies = 1 .. Len(kernel.strategies)
  BY <1>1
<1>3. /\ table.rows = [n \in DOMAIN kernel.rows |-> Row(kernel, kernel.rows[n])]
      /\ table.strategies = [i \in DOMAIN kernel.strategies |-> Parsed(kernel.strategies[i])]
      /\ table.index = BuildIndex(table.rows) /\ table.ndtypes = kernel.ndtypes
  BY DEF TableOf
<1> HIDE DEF table
<1>4. table.rows \in Seq({Row(kernel, kernel.rows[n]) : n \in DOMAIN kernel.rows}) /\ Len(table.rows) = Len(kernel.rows)
  <2> DEFINE R == {Row(kernel, kernel.rows[n]) : n \in DOMAIN kernel.rows}
  <2>1. table.rows \in [1 .. Len(kernel.rows) -> R]
    BY <1>2, <1>3
  <2> HIDE DEF R
  <2>2. table.rows \in Seq(R) /\ Len(table.rows) = Len(kernel.rows)
    BY <2>1, <1>2
  <2>3. QED
    BY <2>2 DEF R
<1>5. Len(table.strategies) = Len(kernel.strategies)
  <2> DEFINE S == {Parsed(kernel.strategies[i]) : i \in DOMAIN kernel.strategies}
  <2>1. table.strategies \in [1 .. Len(kernel.strategies) -> S]
    BY <1>2, <1>3
  <2> HIDE DEF S
  <2>2. QED
    BY <2>1, <1>2
<1>6. \A i \in DOMAIN kernel.strategies : table.strategies[i] \in Strategies
  BY <1>3 DEF KernelParses
<1>7. QED
  BY <1>1, <1>2, <1>3, <1>4, <1>5, <1>6 DEF table

\* The rows of a kernel that parses: every dimension has a column, in which it does
\* not overflow.
LEMMA RowShape ==
  ASSUME NEW kernel \in FileKernel, KernelParses(kernel), NEW n \in DOMAIN kernel.rows
  PROVE  /\ kernel.rows[n].dims \in Seq(Int64) /\ kernel.rows[n].dtypes \in Seq(DTypes)
         /\ Len(kernel.rows[n].dims) = Len(kernel.strategies)
         /\ Len(kernel.rows[n].dtypes) = kernel.ndtypes
         /\ DOMAIN kernel.rows[n].dims = DOMAIN kernel.strategies
         /\ \A i \in DOMAIN kernel.strategies :
              /\ kernel.rows[n].dims[i] \in Int64
              /\ ~Overflows(TableOf(kernel).strategies[i], kernel.rows[n].dims[i])
<1>1. /\ kernel.rows \in Seq(FileRow)
      /\ \A m \in DOMAIN kernel.rows : \A i \in DOMAIN kernel.strategies \cap DOMAIN kernel.rows[m].dims :
           ~Overflows(Parsed(kernel.strategies[i]), kernel.rows[m].dims[i])
  BY DEF FileKernel
<1>2. kernel.rows[n] \in FileRow
  BY <1>1
<1>3. kernel.rows[n].dims \in Seq(Int64) /\ kernel.rows[n].dtypes \in Seq(DTypes)
  BY <1>2 DEF FileRow
<1>4. Len(kernel.rows[n].dims) = Len(kernel.strategies) /\ Len(kernel.rows[n].dtypes) = kernel.ndtypes
  BY DEF KernelParses
<1>5. DOMAIN kernel.strategies = 1 .. Len(kernel.strategies)
  BY TableShape
<1>6. DOMAIN kernel.rows[n].dims = DOMAIN kernel.strategies /\ \A i \in DOMAIN kernel.rows[n].dims : kernel.rows[n].dims[i] \in Int64
  BY <1>3, <1>4, <1>5
<1>7. \A i \in DOMAIN kernel.strategies : TableOf(kernel).strategies[i] = Parsed(kernel.strategies[i])
  BY TableShape
<1>8. QED
  BY <1>1, <1>3, <1>4, <1>6, <1>7

\* A key that find() may be asked for in the table of a kernel.
Askable(kernel, key) ==
  /\ key.dims \in Seq(Int64) /\ key.dtypes \in Seq(DTypes)
  /\ Len(key.dims) = Len(kernel.strategies) /\ Len(key.dtypes) = kernel.ndtypes
  /\ InRange(TableOf(kernel), key)

\* find() looks a key up by its buckets.
LEMMA WantedBuckets ==
  ASSUME NEW kernel \in FileKernel, KernelParses(kernel), NEW key, Askable(kernel, key)
  PROVE  /\ HashKey(Wanted(TableOf(kernel), key)) \in Nat
         /\ DOMAIN key.dims = DOMAIN kernel.strategies
         /\ Wanted(TableOf(kernel), key).dims \in [DOMAIN kernel.strategies -> Int64]
         /\ \A i \in DOMAIN kernel.strategies :
              /\ Wanted(TableOf(kernel), key).dims[i] = NormalizeDim(TableOf(kernel).strategies[i], key.dims[i])
              /\ Wanted(TableOf(kernel), key).dims[i] = Bucket(TableOf(kernel).strategies[i], key.dims[i])
<1> DEFINE table == TableOf(kernel)
           dims == Normalized(table, key.dims)
<1>1. /\ key.dims \in Seq(Int64) /\ key.dtypes \in Seq(DTypes)
      /\ Len(key.dims) = Len(kernel.strategies) /\ Len(kernel.strategies) \in Nat
      /\ DOMAIN kernel.strategies = 1 .. Len(kernel.strategies)
      /\ \A i \in DOMAIN kernel.strategies : table.strategies[i] \in Strategies
  BY TableShape DEF Askable
<1>2. DOMAIN key.dims = DOMAIN kernel.strategies
  BY <1>1
<1>3. \A i \in DOMAIN kernel.strategies : key.dims[i] \in Int64 /\ ~Overflows(table.strategies[i], key.dims[i])
  BY <1>2 DEF Askable, InRange
<1>4. \A i \in DOMAIN kernel.strategies :
        /\ NormalizeDim(table.strategies[i], key.dims[i]) = Bucket(table.strategies[i], key.dims[i])
        /\ NormalizeDim(table.strategies[i], key.dims[i]) \in Int64
  BY <1>1, <1>3, NormalizeIsBucket
<1>5. dims = [i \in DOMAIN kernel.strategies |-> NormalizeDim(table.strategies[i], key.dims[i])]
  BY <1>2 DEF Normalized
<1> HIDE DEF table, dims
<1>6. dims \in [DOMAIN kernel.strategies -> Int64]
  BY <1>4, <1>5
<1>7. dims \in Seq(Int)
  <2>1. Int64 \subseteq Int
    BY Sizes DEF Int64
  <2>2. dims \in [1 .. Len(kernel.strategies) -> Int]
    BY <1>1, <1>6, <2>1
  <2>3. QED
    BY <1>1, <2>2
<1>8. Wanted(table, key).dims = dims /\ Wanted(table, key).dtypes = key.dtypes
  BY DEF Wanted, dims
<1>9. HashKey(Wanted(table, key)) \in Nat
  BY <1>1, <1>7, <1>8, HashIsNat
<1>10. QED
  BY <1>2, <1>4, <1>5, <1>6, <1>8, <1>9 DEF table

\* A row as a key: what it was made from has the key of the row, and find() wants
\* that key again, although it normalises it again.
LEMMA RowKeys ==
  ASSUME NEW kernel \in FileKernel, KernelParses(kernel), NEW n \in DOMAIN kernel.rows
  PROVE  /\ Askable(kernel, kernel.rows[n])
         /\ TableOf(kernel).rows[n].key = Wanted(TableOf(kernel), kernel.rows[n])
         /\ TableOf(kernel).rows[n].of = kernel.rows[n]
         /\ HashKey(TableOf(kernel).rows[n].key) \in Nat
         /\ Askable(kernel, TableOf(kernel).rows[n].key)
         /\ Wanted(TableOf(kernel), TableOf(kernel).rows[n].key) = TableOf(kernel).rows[n].key
<1> DEFINE table == TableOf(kernel)
           row == kernel.rows[n]
           key == table.rows[n].key
<1>1. /\ row.dims \in Seq(Int64) /\ row.dtypes \in Seq(DTypes)
      /\ Len(row.dims) = Len(kernel.strategies) /\ Len(row.dtypes) = kernel.ndtypes
      /\ DOMAIN row.dims = DOMAIN kernel.strategies
      /\ \A i \in DOMAIN kernel.strategies :
           row.dims[i] \in Int64 /\ ~Overflows(table.strategies[i], row.dims[i])
  BY RowShape
<1>2. /\ table.rows[n] = Row(kernel, row)
      /\ Len(kernel.strategies) \in Nat /\ DOMAIN kernel.strategies = 1 .. Len(kernel.strategies)
      /\ table.strategies = [i \in DOMAIN kernel.strategies |-> Parsed(kernel.strategies[i])]
      /\ \A i \in DOMAIN kernel.strategies : table.strategies[i] \in Strategies
  BY TableShape
<1>3. Askable(kernel, row)
  BY <1>1 DEF Askable, InRange
<1>4. /\ HashKey(Wanted(table, row)) \in Nat
      /\ Wanted(table, row).dims \in [DOMAIN kernel.strategies -> Int64]
      /\ \A i \in DOMAIN kernel.strategies :
           Wanted(table, row).dims[i] = NormalizeDim(table.strategies[i], row.dims[i])
  BY <1>3, WantedBuckets
<1>5. key = Wanted(table, row) /\ table.rows[n].of = row
  <2>1. [i \in DOMAIN row.dims |-> NormalizeDim(Parsed(kernel.strategies[i]), row.dims[i])]
          = [i \in DOMAIN row.dims |-> NormalizeDim(table.strategies[i], row.dims[i])]
    BY <1>1, <1>2
  <2>2. /\ Row(kernel, row).of = row
        /\ Row(kernel, row).key =
             [dims   |-> [i \in DOMAIN row.dims |-> NormalizeDim(Parsed(kernel.strategies[i]), row.dims[i])],
              dtypes |-> row.dtypes]
    BY DEF Row
  <2>3. Wanted(table, row) =
          [dims   |-> [i \in DOMAIN row.dims |-> NormalizeDim(table.strategies[i], row.dims[i])],
           dtypes |-> row.dtypes]
    BY DEF Wanted, Normalized
  <2> HIDE DEF table, row
  <2>4. QED
    BY <1>2, <2>1, <2>2, <2>3 DEF key
<1> HIDE DEF table, row, key
<1>6. key.dims \in [DOMAIN kernel.strategies -> Int64] /\ key.dtypes = row.dtypes
  BY <1>4, <1>5 DEF Wanted
<1>7. key.dims \in Seq(Int64) /\ Len(key.dims) = Len(kernel.strategies) /\ DOMAIN key.dims = DOMAIN kernel.strategies
  <2>1. key.dims \in [1 .. Len(kernel.strategies) -> Int64]
    BY <1>2, <1>6
  <2>2. QED
    BY <1>2, <1>6, <2>1
<1>8. \A i \in DOMAIN kernel.strategies :
        /\ ~Overflows(table.strategies[i], key.dims[i])
        /\ NormalizeDim(table.strategies[i], key.dims[i]) = key.dims[i]
        /\ key.dims[i] \in Int64
  <2>1. TAKE i \in DOMAIN kernel.strategies
  <2>2. key.dims[i] = NormalizeDim(table.strategies[i], row.dims[i]) /\ key.dims[i] \in Int64
    BY <1>4, <1>5, <1>6
  <2>3. table.strategies[i] \in Strategies /\ row.dims[i] \in Int64 /\ ~Overflows(table.strategies[i], row.dims[i])
    BY <1>1, <1>2
  <2>4. QED
    BY <2>2, <2>3, NormalizeSettles
<1>9. Askable(kernel, key)
  BY <1>1, <1>6, <1>7, <1>8 DEF Askable, InRange, table
<1>10. Wanted(table, key) = key
  <2>1. [i \in DOMAIN key.dims |-> NormalizeDim(table.strategies[i], key.dims[i])] = [i \in DOMAIN key.dims |-> key.dims[i]]
    BY <1>7, <1>8
  <2>2. [i \in DOMAIN key.dims |-> key.dims[i]] = key.dims
    BY <1>6
  <2>3. Wanted(table, key) = [dims |-> key.dims, dtypes |-> key.dtypes]
    BY <2>1, <2>2 DEF Wanted, Normalized
  <2>4. key = [dims |-> key.dims, dtypes |-> key.dtypes]
    BY <1>5 DEF Wanted
  <2>5. QED
    BY <2>3, <2>4
<1>11. QED
  BY <1>3, <1>4, <1>5, <1>9, <1>10 DEF table, row, key

\* A row has the key that is wanted exactly if it answers the key that is asked.
LEMMA SameKeyIsWanted ==
  ASSUME NEW kernel \in FileKernel, KernelParses(kernel), NEW n \in DOMAIN kernel.rows,
         NEW key, Askable(kernel, key)
  PROVE  TableOf(kernel).rows[n].key = Wanted(TableOf(kernel), key)
           <=> SameKey(TableOf(kernel).strategies, kernel.rows[n], key)
<1> DEFINE table == TableOf(kernel)
           row == kernel.rows[n]
           D == DOMAIN kernel.strategies
<1>1. Askable(kernel, row) /\ table.rows[n].key = Wanted(table, row)
  BY RowKeys
<1>2. /\ Wanted(table, row).dims \in [D -> Int64] /\ Wanted(table, key).dims \in [D -> Int64]
      /\ \A i \in D : /\ Wanted(table, row).dims[i] = Bucket(table.strategies[i], row.dims[i])
                      /\ Wanted(table, key).dims[i] = Bucket(table.strategies[i], key.dims[i])
  BY <1>1, WantedBuckets
<1>3. Len(key.dims) = Len(table.strategies) /\ DOMAIN table.strategies = D
  BY TableShape DEF Askable
<1>4. Wanted(table, row).dtypes = row.dtypes /\ Wanted(table, key).dtypes = key.dtypes
  BY DEF Wanted
<1>5. Wanted(table, row) = Wanted(table, key)
        <=> /\ Wanted(table, row).dims = Wanted(table, key).dims
            /\ row.dtypes = key.dtypes
  BY DEF Wanted
<1> HIDE DEF table, row, D
<1>6. Wanted(table, row).dims = Wanted(table, key).dims
        <=> \A i \in D : Bucket(table.strategies[i], key.dims[i]) = Bucket(table.strategies[i], row.dims[i])
  BY <1>2
<1>7. table.rows[n].key = Wanted(table, key) <=> SameKey(table.strategies, row, key)
  BY <1>1, <1>3, <1>5, <1>6 DEF SameKey
<1>8. QED
  BY <1>7 DEF table, row

\* The number of the row that find() gives is the last of those that answer the key,
\* and 0 if there is none.
THEOREM FindIsLookupOf ==
  ASSUME NEW kernel \in FileKernel, KernelParses(kernel), NEW key, Askable(kernel, key),
         Len(key.dims) <= MaxColumns
  PROVE  LET found == Find(TableOf(kernel), key)
             Answers(n) == SameKey(TableOf(kernel).strategies, kernel.rows[n], key)
         IN  /\ found \in 0 .. Len(kernel.rows)
             /\ found # 0 => Answers(found)
             /\ \A n \in DOMAIN kernel.rows : Answers(n) => n <= found
<1> DEFINE table == TableOf(kernel)
           found == Find(table, key)
           Answers(n) == SameKey(table.strategies, kernel.rows[n], key)
<1>1. /\ Len(kernel.rows) \in Nat /\ DOMAIN kernel.rows = 1 .. Len(kernel.rows)
      /\ table.rows \in Seq({Row(kernel, kernel.rows[n]) : n \in DOMAIN kernel.rows})
      /\ Len(table.rows) = Len(kernel.rows) /\ DOMAIN table.rows = DOMAIN kernel.rows
      /\ table.index = BuildIndex(table.rows) /\ table.ndtypes = kernel.ndtypes
      /\ Len(table.strategies) = Len(kernel.strategies) /\ Len(kernel.strategies) \in Nat
  BY TableShape
<1>2. \A n \in DOMAIN table.rows : HashKey(table.rows[n].key) \in Nat
  BY <1>1, RowKeys
<1>3. HashKey(Wanted(table, key)) \in Nat
  BY WantedBuckets
<1>4. Len(key.dims) = Len(table.strategies) /\ Len(key.dtypes) = table.ndtypes /\ Len(key.dims) \in Nat
  BY <1>1 DEF Askable
<1>5. table.rows = <<>> <=> Len(table.rows) = 0
  <2> DEFINE R == {Row(kernel, kernel.rows[n]) : n \in DOMAIN kernel.rows}
  <2>1. table.rows \in Seq(R)
    BY <1>1
  <2> HIDE DEF R, table
  <2>2. QED
    BY <2>1
<1>6. \A n \in DOMAIN kernel.rows : table.rows[n].key = Wanted(table, key) <=> Answers(n)
  BY SameKeyIsWanted
<1> HIDE DEF table
<1>7. /\ found \in 0 .. Len(table.rows)
      /\ found # 0 => table.rows[found].key = Wanted(table, key)
      /\ \A j \in DOMAIN table.rows : table.rows[j].key = Wanted(table, key) => j <= found
  BY <1>1, <1>2, <1>3, <1>4, <1>5, FindIsLastRow
<1> HIDE DEF found, Answers
<1>8. found # 0 => found \in DOMAIN kernel.rows
  BY <1>1, <1>7
<1>9. QED
  BY <1>1, <1>6, <1>7, <1>8 DEF table, found, Answers

\* Looking its rows up is how load() finds two rows of one bucket, and columns that
\* find() would not take.
LEMMA RowsFoundAreApart ==
  ASSUME NEW kernel \in FileKernel, KernelParses(kernel)
  PROVE  RowsAreFound(kernel)
           <=> /\ kernel.rows # <<>> => Len(kernel.strategies) <= MaxColumns
               /\ RowsApart(kernel)
<1> DEFINE table == TableOf(kernel)
           Key(n) == table.rows[n].key
<1>1. /\ Len(kernel.rows) \in Nat /\ DOMAIN kernel.rows = 1 .. Len(kernel.rows)
      /\ DOMAIN table.rows = DOMAIN kernel.rows
      /\ Len(table.strategies) = Len(kernel.strategies) /\ Len(kernel.strategies) \in Nat
      /\ table.strategies = [i \in DOMAIN kernel.strategies |-> Parsed(kernel.strategies[i])]
  BY TableShape
<1>2. \A n \in DOMAIN kernel.rows : Askable(kernel, Key(n)) /\ Wanted(table, Key(n)) = Key(n)
  BY RowKeys
<1>3. RowsAreFound(kernel) <=> \A n \in DOMAIN kernel.rows : Find(table, Key(n)) = n
  BY <1>1 DEF RowsAreFound
<1>4. RowsApart(kernel) <=>
        \A m, n \in DOMAIN kernel.rows : SameKey(table.strategies, kernel.rows[m], kernel.rows[n]) => m = n
  BY <1>1 DEF RowsApart
<1>5. \A m, n \in DOMAIN kernel.rows :
        SameKey(table.strategies, kernel.rows[m], kernel.rows[n]) <=> Key(m) = Key(n)
  <2>1. TAKE m, n \in DOMAIN kernel.rows
  <2>2. Askable(kernel, kernel.rows[n]) /\ Key(n) = Wanted(table, kernel.rows[n])
    BY RowKeys
  <2>3. Key(m) = Wanted(table, kernel.rows[n])
          <=> SameKey(table.strategies, kernel.rows[m], kernel.rows[n])
    BY <2>2, SameKeyIsWanted
  <2>4. QED
    BY <2>2, <2>3
<1>6. \A m, n \in DOMAIN kernel.rows :
        SameKey(table.strategies, kernel.rows[m], Key(n)) <=> Key(m) = Key(n)
  <2>1. TAKE m, n \in DOMAIN kernel.rows
  <2>2. Askable(kernel, Key(n)) /\ Wanted(table, Key(n)) = Key(n)
    BY <1>2
  <2>3. Key(m) = Wanted(table, Key(n)) <=> SameKey(table.strategies, kernel.rows[m], Key(n))
    BY <2>2, SameKeyIsWanted
  <2>4. QED
    BY <2>2, <2>3
<1>7. kernel.rows = <<>> <=> Len(kernel.rows) = 0
  <2>1. kernel.rows \in Seq(FileRow)
    BY DEF FileKernel
  <2>2. QED
    BY <2>1
<1>8. CASE kernel.rows = <<>>
  <2>1. DOMAIN kernel.rows = {}
    BY <1>1, <1>7, <1>8
  <2>2. QED
    BY <1>3, <1>4, <1>8, <2>1
<1>9. CASE kernel.rows # <<>> /\ Len(kernel.strategies) > MaxColumns
  <2>1. 1 \in DOMAIN kernel.rows
    BY <1>1, <1>7, <1>9
  <2>2. Len(Key(1).dims) > MaxColumns
    BY <1>2, <1>9, <2>1 DEF Askable
  <2>3. Find(table, Key(1)) = 0
    BY <2>2 DEF Find
  <2>4. ~RowsAreFound(kernel)
    BY <1>3, <2>1, <2>3
  <2>5. ~(Len(kernel.strategies) <= MaxColumns)
    BY <1>1, <1>9, TableLoadAssumption
  <2>6. QED
    BY <1>9, <2>4, <2>5
<1>10. CASE kernel.rows # <<>> /\ Len(kernel.strategies) <= MaxColumns
  <2>1. ASSUME NEW n \in DOMAIN kernel.rows
        PROVE  /\ Find(table, Key(n)) \in 0 .. Len(kernel.rows)
               /\ Find(table, Key(n)) # 0 => Key(Find(table, Key(n))) = Key(n)
               /\ \A m \in DOMAIN kernel.rows : Key(m) = Key(n) => m <= Find(table, Key(n))
    <3>1. Askable(kernel, Key(n)) /\ Len(Key(n).dims) <= MaxColumns
      BY <1>2, <1>10 DEF Askable
    <3> DEFINE found == Find(table, Key(n))
    <3>2. /\ found \in 0 .. Len(kernel.rows)
          /\ found # 0 => SameKey(table.strategies, kernel.rows[found], Key(n))
          /\ \A m \in DOMAIN kernel.rows : SameKey(table.strategies, kernel.rows[m], Key(n)) => m <= found
      BY <3>1, FindIsLookupOf
    <3>3. found # 0 => found \in DOMAIN kernel.rows
      BY <1>1, <3>2
    <3> HIDE DEF found, table, Key
    <3>4. /\ found \in 0 .. Len(kernel.rows)
          /\ found # 0 => Key(found) = Key(n)
          /\ \A m \in DOMAIN kernel.rows : Key(m) = Key(n) => m <= found
      BY <1>6, <3>2, <3>3
    <3>5. QED
      BY <3>4 DEF found
  <2> HIDE DEF table, Key
  <2>2. ASSUME RowsAreFound(kernel), NEW m \in DOMAIN kernel.rows, NEW n \in DOMAIN kernel.rows, Key(m) = Key(n)
        PROVE  m = n
    BY <1>3, <2>2
  <2>3. ASSUME \A m, n \in DOMAIN kernel.rows : Key(m) = Key(n) => m = n, NEW n \in DOMAIN kernel.rows
        PROVE  Find(table, Key(n)) = n
    <3>1. n \in Nat /\ 1 <= n
      BY <1>1
    <3>2. n <= Find(table, Key(n)) /\ Find(table, Key(n)) \in 0 .. Len(kernel.rows)
      BY <2>1
    <3>3. Find(table, Key(n)) # 0 /\ Find(table, Key(n)) \in DOMAIN kernel.rows
      BY <1>1, <3>1, <3>2
    <3>4. QED
      BY <2>1, <2>3, <3>3
  <2>4. QED
    BY <1>3, <1>4, <1>5, <1>10, <2>2, <2>3
<1>11. QED
  BY <1>1, <1>8, <1>9, <1>10, TableLoadAssumption

\* load() accepts a document exactly if it is sound.
LEMMA JudgedRight ==
  ASSUME NEW doc \in Document, NEW d \in Devices
  PROVE  Accepts(doc, d) = Sound(doc, d)
<1> DEFINE K == doc.kernels
<1>1. K \in Seq(FileKernel) /\ doc.version \in Nat
  BY DEF Document
<1>2. Len(K) \in Nat /\ DOMAIN K = 1 .. Len(K) /\ \A n \in DOMAIN K : K[n] \in FileKernel
  BY <1>1
<1>3. ToSet(K) = {K[n] : n \in DOMAIN K}
  BY DEF ToSet
<1>4. ASSUME doc.version \in {1, 2}
      PROVE  \A n \in DOMAIN K : NamespaceFits(doc, K[n]) <=> (doc.version = 1 <=> K[n].namespace = None)
  BY <1>4 DEF NamespaceFits
<1>5. (\A n \in DOMAIN K : \A m \in 1 .. n - 1 : StorageId(K[m]) # StorageId(K[n]))
        <=> (\A n, m \in DOMAIN K : StorageId(K[n]) = StorageId(K[m]) => n = m)
  <2>1. \A n \in DOMAIN K : \A m \in 1 .. n - 1 : m \in DOMAIN K /\ m # n
    BY <1>2
  <2>2. \A n, m \in DOMAIN K : n = m \/ m \in 1 .. n - 1 \/ n \in 1 .. m - 1
    BY <1>2
  <2> HIDE DEF K
  <2>3. QED
    BY <2>1, <2>2
<1>6. \A n \in DOMAIN K : KernelParses(K[n]) =>
        (RowsAreFound(K[n]) <=> (K[n].rows # <<>> => Len(K[n].strategies) <= MaxColumns) /\ RowsApart(K[n]))
  BY <1>2, RowsFoundAreApart
<1>7. Accepts(doc, d) <=>
        /\ doc.parses /\ doc.version \in {1, 2} /\ FingerprintFits(doc, d)
        /\ \A n \in DOMAIN K : \A m \in 1 .. n - 1 : StorageId(K[m]) # StorageId(K[n])
        /\ \A n \in DOMAIN K : NamespaceFits(doc, K[n]) /\ KernelParses(K[n]) /\ RowsAreFound(K[n])
  BY DEF Accepts
<1>8. Sound(doc, d) <=>
        /\ doc.parses /\ doc.version \in {1, 2} /\ FingerprintFits(doc, d)
        /\ \A n, m \in DOMAIN K : StorageId(K[n]) = StorageId(K[m]) => n = m
        /\ \A n \in DOMAIN K :
             /\ doc.version = 1 <=> K[n].namespace = None
             /\ KernelParses(K[n])
             /\ K[n].rows # <<>> => Len(K[n].strategies) <= MaxColumns
             /\ RowsApart(K[n])
  BY <1>3 DEF Sound
<1>9. Accepts(doc, d) <=> Sound(doc, d)
  BY ONLY <1>4, <1>5, <1>6, <1>7, <1>8
<1>10. QED
  BY <1>9 DEF Accepts, Sound

-----------------------------------------------------------------------------
(* load_from_env().                                                          *)

\* Documents that thread t has got through.
Done(t) == Len(env) - Len(left[t])

Loaded(t) == {n \in 1 .. Done(t) : Sound(env[n], device[t])}

\* What a kernel is bound to once everything is loaded, and who is still to do it:
\* a thread that has not come to the last sound document that names the kernel, or
\* that has not published its table yet.
Final(id, d) ==
  TableOf(CHOOSE k \in ToSet(env[Greatest(Naming(id, d))].kernels) : StorageId(k) = id)
Owes(t, id, d) ==
  /\ pc[t] = "loading" /\ device[t] = d
  /\ \/ Done(t) < Greatest(Naming(id, d))
     \/ /\ Done(t) = Greatest(Naming(id, d))
        /\ \E i \in DOMAIN todo[t] : todo[t][i].id = id

Items == UNION {{Tables(env[n])[k] : k \in DOMAIN env[n].kernels} : n \in DOMAIN env}
Types ==
  /\ env \in EnvLists /\ ignore \in BOOLEAN /\ called \subseteq Devices
  /\ Len(snapshot) \in 0 .. Len(DeviceNames)
  /\ pc \in [Threads -> {"idle", "loading"}]
  /\ device \in [Threads -> Devices \cup {None}]
  /\ left \in [Threads -> Seq(Document)]
  /\ todo \in [Threads -> Seq(Items)]
  /\ count \in [Threads -> Nat]

\* Where a thread is in its list, and what it publishes: tables of the sound
\* document it has read last.
Progress(t) ==
  /\ pc[t] = "idle" => left[t] = <<>> /\ todo[t] = <<>>
  /\ device[t] = None => pc[t] = "idle" /\ count[t] = 0
  /\ device[t] # None =>
       /\ device[t] \in called
       /\ Len(left[t]) <= Len(env)
       /\ \A i \in 1 .. Len(left[t]) : left[t][i] = env[Done(t) + i]
       /\ count[t] = Cardinality(Loaded(t))
       /\ todo[t] # <<>> => Done(t) \in DOMAIN env /\ Sound(env[Done(t)], device[t])
       /\ \A i \in 1 .. Len(todo[t]) :
            \E k \in DOMAIN env[Done(t)].kernels : todo[t][i] = Tables(env[Done(t)])[k]

\* A kernel that is not as it will be is owed by somebody; nothing else is bound.
Settled(d, id) ==
  d \in called /\ Naming(id, d) # {} =>
    \/ Kernel(snapshot, d, id) = Final(id, d)
    \/ \E t \in Threads : Owes(t, id, d)
NothingElse(d, id) ==
  d \notin called \/ Naming(id, d) = {} => Kernel(snapshot, d, id) = None

LoadInv ==
  /\ Types
  /\ \A t \in Threads : Progress(t)
  /\ \A d \in Devices, id \in Ids : Settled(d, id) /\ NothingElse(d, id)

\* The list is a list of documents, and devices are numbers.
LEMMA Listed ==
  ASSUME Types
  PROVE  /\ env \in Seq(Document) /\ Len(env) \in Nat /\ DOMAIN env = 1 .. Len(env)
         /\ \A n \in DOMAIN env : env[n] \in Document /\ env[n].kernels \in Seq(FileKernel)
         /\ Devices = 1 .. Len(DeviceNames) /\ Len(DeviceNames) \in Nat /\ None \notin Devices
<1>1. env \in Seq(Document)
  BY DocumentsAssumption DEF Types
<1>2. \A n \in DOMAIN env : env[n] \in Document
  BY <1>1
<1>3. \A n \in DOMAIN env : env[n].kernels \in Seq(FileKernel)
  BY <1>2 DEF Document
<1>4. Devices = 1 .. Len(DeviceNames) /\ Len(DeviceNames) \in Nat
  BY TableLoadAssumption DEF Devices
<1>5. QED
  BY <1>1, <1>2, <1>3, <1>4, TableLoadAssumption

\* The last sound document that names a kernel is one of the list.
LEMMA LastNaming ==
  ASSUME Types, NEW d \in Devices, NEW id, Naming(id, d) # {}
  PROVE  /\ Greatest(Naming(id, d)) \in Naming(id, d)
         /\ Greatest(Naming(id, d)) \in DOMAIN env
         /\ \A n \in Naming(id, d) : n <= Greatest(Naming(id, d))
<1>1. Naming(id, d) \in SUBSET (0 .. Len(env)) /\ Naming(id, d) \subseteq DOMAIN env
  BY Listed DEF Naming
<1>2. QED
  BY <1>1, Listed, GreatestOf

LEMMA LoadInit == Init => LoadInv
<1> SUFFICES ASSUME Init PROVE LoadInv
  OBVIOUS
<1>1. Types
  BY TableLoadAssumption DEF Init, Types
<1>2. ASSUME NEW t \in Threads PROVE Progress(t)
  BY DEF Init, Progress
<1>3. ASSUME NEW d \in Devices, NEW id \in Ids PROVE Settled(d, id) /\ NothingElse(d, id)
  BY Listed, <1>1 DEF Init, Settled, NothingElse, Kernel
<1>4. QED
  BY <1>1, <1>2, <1>3 DEF LoadInv

\* What an action does not change: the documents, and what they bind.
LEMMA EnvKept ==
  ASSUME Constant
  PROVE  /\ Items' = Items /\ Ids' = Ids
         /\ \A id, d : Naming(id, d)' = Naming(id, d) /\ Final(id, d)' = Final(id, d)
         /\ \A doc, d : Sound(doc, d)' = Sound(doc, d)
<1>1. env' = env /\ ignore' = ignore
  BY DEF Constant
<1>2. \A doc, d : Sound(doc, d)' = Sound(doc, d)
  BY <1>1 DEF Sound, FingerprintFits
<1>3. \A id, d : Naming(id, d)' = Naming(id, d)
  BY <1>1, <1>2 DEF Naming
<1>4. Items' = Items /\ Ids' = Ids
  BY <1>1 DEF Items, Ids
<1>5. ASSUME NEW id, NEW d PROVE Final(id, d)' = Final(id, d)
  <2>1. Naming(id, d)' = Naming(id, d)
    BY <1>3
  <2>2. env'[Greatest(Naming(id, d)')] = env[Greatest(Naming(id, d))]
    BY <1>1, <2>1
  <2>3. QED
    BY <2>2 DEF Final
<1>6. QED
  BY <1>2, <1>3, <1>4, <1>5

\* A step of one thread that does not touch the snapshot, and calls for no device
\* but its own.
LEMMA OneThreadSteps ==
  ASSUME LoadInv, Types', Constant, NEW t \in Threads, snapshot' = snapshot,
         \A u \in Threads \ {t} :
           /\ pc'[u] = pc[u] /\ device'[u] = device[u] /\ left'[u] = left[u]
           /\ todo'[u] = todo[u] /\ count'[u] = count[u],
         called \subseteq called', called' \ called \subseteq {device'[t]},
         Progress(t)',
         \A d \in Devices, id \in Ids :
           Naming(id, d) # {} /\ (Owes(t, id, d) \/ d \in called' \ called) => Owes(t, id, d)'
  PROVE  LoadInv'
<1> USE DEF LoadInv
<1>1. env' = env /\ Devices' = Devices
  BY DEF Constant, Devices
<1>2. ASSUME NEW u \in Threads \ {t} PROVE Progress(u)'
  <2>1. Done(u)' = Done(u)
    BY <1>1 DEF Done
  <2>2. \A n : Sound(env[n], device[u])' = Sound(env[n], device[u])
    BY <1>1 DEF Sound, FingerprintFits, Constant
  <2>3. Loaded(u)' = Loaded(u) /\ Sound(env[Done(u)], device[u])' = Sound(env[Done(u)], device[u])
    BY <2>1, <2>2 DEF Loaded
  <2>4. env'[Done(u)'] = env[Done(u)] /\ Tables(env[Done(u)])' = Tables(env[Done(u)])
    BY <2>1, <1>1
  <2>5. Progress(u)
    OBVIOUS
  <2>6. QED
    BY ONLY <2>1, <2>3, <2>4, <2>5, <1>1, called \subseteq called', pc'[u] = pc[u],
            device'[u] = device[u], left'[u] = left[u], todo'[u] = todo[u], count'[u] = count[u]
       DEF Progress
<1>3. ASSUME NEW d \in Devices, NEW id \in Ids
      PROVE  Settled(d, id)' /\ NothingElse(d, id)'
  <2>1. /\ Naming(id, d)' = Naming(id, d) /\ Final(id, d)' = Final(id, d)
        /\ Kernel(snapshot, d, id)' = Kernel(snapshot, d, id)
    BY <1>1, EnvKept DEF Kernel
  <2>2. \A u \in Threads \ {t} : Owes(u, id, d) => Owes(u, id, d)'
    BY <2>1, <1>1 DEF Owes, Done
  <2>3. QED
    BY <2>1, <2>2 DEF Settled, NothingElse
<1>4. QED
  BY <1>1, <1>2, <1>3, EnvKept

LEMMA EnterKeeps ==
  ASSUME LoadInv, NEW t \in Threads, NEW d \in Devices, LoadFromEnv(t, d)
  PROVE  LoadInv'
<1>1. /\ pc[t] = "idle" /\ device[t] = None /\ pc' = [pc EXCEPT ![t] = "loading"]
      /\ device' = [device EXCEPT ![t] = d] /\ left' = [left EXCEPT ![t] = env]
      /\ called' = called \cup {d} /\ Constant
      /\ snapshot' = snapshot /\ todo' = todo /\ count' = count
  BY DEF LoadFromEnv
<1>2. env' = env /\ ignore' = ignore /\ Types /\ env \in Seq(Document) /\ None \notin Devices
  BY <1>1, Listed DEF LoadInv, Constant
<1>3. Types'
  BY <1>1, <1>2, EnvKept DEF Types, Devices
<1>4. pc'[t] = "loading" /\ device'[t] = d /\ left'[t] = env /\ todo'[t] = <<>> /\ count'[t] = 0
  BY <1>1, <1>2 DEF Types, LoadInv, Progress
<1>5. Done(t)' = 0
  BY <1>2, <1>4 DEF Done
<1>6. Progress(t)'
  <2>1. Loaded(t)' = {}
    BY <1>5 DEF Loaded
  <2>2. Cardinality(Loaded(t)') = 0
    BY <2>1, FS_EmptySet
  <2>3. QED
    BY <1>1, <1>2, <1>4, <1>5, <2>2 DEF Progress
<1>7. ASSUME NEW c \in Devices, NEW id \in Ids, Naming(id, c) # {},
             Owes(t, id, c) \/ c \in called' \ called
      PROVE  Owes(t, id, c)'
  <2>1. c = d
    BY <1>1, <1>2, <1>7 DEF Owes
  <2>2. 0 < Greatest(Naming(id, c))
    BY <1>2, <1>7, LastNaming, Listed
  <2>3. Greatest(Naming(id, c))' = Greatest(Naming(id, c))
    BY <1>1, EnvKept
  <2>4. QED
    BY <1>4, <1>5, <2>1, <2>2, <2>3 DEF Owes
<1>8. \A u \in Threads \ {t} :
           /\ pc'[u] = pc[u] /\ device'[u] = device[u] /\ left'[u] = left[u]
           /\ todo'[u] = todo[u] /\ count'[u] = count[u]
  BY <1>1, <1>2 DEF Types
<1>9. QED
  BY <1>1, <1>3, <1>4, <1>6, <1>7, <1>8, OneThreadSteps

LEMMA TablesOf ==
  ASSUME Types, NEW n \in DOMAIN env
  PROVE  /\ Tables(env[n]) \in Seq(Items) /\ Len(Tables(env[n])) = Len(env[n].kernels)
         /\ DOMAIN Tables(env[n]) = DOMAIN env[n].kernels
         /\ \A k \in DOMAIN env[n].kernels : Tables(env[n])[k].id = StorageId(env[n].kernels[k])
<1>1. env[n].kernels \in Seq(FileKernel)
  BY Listed
<1>2. DOMAIN env[n].kernels = 1 .. Len(env[n].kernels) /\ Len(env[n].kernels) \in Nat
  BY <1>1
<1>3. \A k \in DOMAIN env[n].kernels : Tables(env[n])[k] \in Items
  BY DEF Items
<1>4. /\ DOMAIN Tables(env[n]) = 1 .. Len(env[n].kernels)
      /\ \A k \in DOMAIN env[n].kernels : Tables(env[n])[k].id = StorageId(env[n].kernels[k])
  BY <1>2 DEF Tables
<1>5. Tables(env[n]) = [k \in 1 .. Len(env[n].kernels) |-> Tables(env[n])[k]]
  BY <1>2 DEF Tables
<1>6. Tables(env[n]) \in Seq(Items) /\ Len(Tables(env[n])) = Len(env[n].kernels)
  <2>1. Tables(env[n]) \in [1 .. Len(env[n].kernels) -> Items]
    BY <1>2, <1>3, <1>4, <1>5
  <2>2. QED
    BY <1>2, <2>1
<1>7. QED
  BY <1>2, <1>4, <1>6

\* Where a thread that has documents left is.
LEMMA NextDocument ==
  ASSUME LoadInv, NEW t \in Threads, pc[t] = "loading"
  PROVE  /\ device[t] \in Devices /\ device[t] \in called /\ device[t] # None
         /\ Done(t) \in 0 .. Len(env) /\ Len(left[t]) \in Nat /\ left[t] \in Seq(Document)
         /\ left[t] # <<>> => /\ Done(t) + 1 \in DOMAIN env
                              /\ Head(left[t]) = env[Done(t) + 1]
<1>1. Types /\ Progress(t)
  BY DEF LoadInv
<1>2. device[t] # None /\ device[t] \in Devices
  BY <1>1 DEF Progress, Types
<1>3. left[t] \in Seq(Document) /\ Len(left[t]) \in Nat /\ Len(left[t]) <= Len(env)
      /\ \A i \in 1 .. Len(left[t]) : left[t][i] = env[Done(t) + i]
  BY <1>1, <1>2 DEF Progress, Types
<1>4. Done(t) \in 0 .. Len(env)
  BY <1>1, <1>3, Listed DEF Done
<1>5. ASSUME left[t] # <<>>
      PROVE  Done(t) + 1 \in DOMAIN env /\ Head(left[t]) = env[Done(t) + 1]
  <2>1. Len(left[t]) >= 1 /\ Head(left[t]) = left[t][1]
    BY <1>3, <1>5
  <2>2. Head(left[t]) = env[Done(t) + 1]
    BY <1>3, <2>1
  <2>3. Len(env) \in Nat /\ DOMAIN env = 1 .. Len(env)
    BY <1>1, Listed
  <2>4. Done(t) + 1 \in 1 .. Len(env)
    BY <1>3, <2>1, <2>3 DEF Done
  <2>5. QED
    BY <2>2, <2>3, <2>4
<1>6. QED
  BY <1>1, <1>2, <1>3, <1>4, <1>5 DEF Progress

LEMMA DocumentKeeps ==
  ASSUME LoadInv, NEW t \in Threads, LoadDocument(t)
  PROVE  LoadInv'
<1> DEFINE n == Done(t) + 1
           doc == env[n]
           d == device[t]
<1>1. /\ pc[t] = "loading" /\ todo[t] = <<>> /\ left[t] # <<>>
      /\ left' = [left EXCEPT ![t] = Tail(left[t])]
      /\ Constant /\ snapshot' = snapshot /\ pc' = pc /\ device' = device /\ called' = called
  BY DEF LoadDocument
<1>2. Types /\ Progress(t)
  BY DEF LoadInv
<1>3. /\ d \in Devices /\ d \in called /\ d # None /\ n \in DOMAIN env /\ Head(left[t]) = doc
      /\ left[t] \in Seq(Document) /\ doc \in Document
  BY <1>1, <1>2, NextDocument, Listed
<1>4. IF Sound(doc, d)
      THEN todo' = [todo EXCEPT ![t] = Tables(doc)] /\ count' = [count EXCEPT ![t] = count[t] + 1]
      ELSE todo' = todo /\ count' = count
  BY <1>3, JudgedRight DEF LoadDocument
<1>5. env' = env /\ ignore' = ignore
  BY <1>1 DEF Constant
<1>6. /\ left'[t] = Tail(left[t]) /\ pc'[t] = "loading" /\ device'[t] = d
      /\ todo'[t] = IF Sound(doc, d) THEN Tables(doc) ELSE <<>>
      /\ count'[t] = IF Sound(doc, d) THEN count[t] + 1 ELSE count[t]
  BY <1>1, <1>2, <1>4 DEF Types
<1>7. /\ Tail(left[t]) \in Seq(Document) /\ Len(Tail(left[t])) = Len(left[t]) - 1
      /\ \A i \in 1 .. Len(left[t]) - 1 : Tail(left[t])[i] = left[t][i + 1]
  BY <1>1, <1>3
<1>8. Done(t)' = n
  <2>1. Len(env) \in Nat /\ Len(left[t]) \in Nat
    BY <1>1, <1>2, NextDocument, Listed
  <2>2. Done(t)' = Len(env) - (Len(left[t]) - 1)
    BY <1>5, <1>6, <1>7 DEF Done
  <2>3. Done(t) = Len(env) - Len(left[t])
    BY DEF Done
  <2>4. QED
    BY <2>1, <2>2, <2>3
<1>9. Types'
  <2>1. left' \in [Threads -> Seq(Document)]
    BY <1>1, <1>2, <1>7 DEF Types
  <2>2. todo' \in [Threads -> Seq(Items)] /\ count' \in [Threads -> Nat]
    <3>1. todo \in [Threads -> Seq(Items)] /\ count \in [Threads -> Nat]
      BY <1>2 DEF Types
    <3>2. Tables(doc) \in Seq(Items) /\ count[t] + 1 \in Nat
      BY <1>2, <1>3, <3>1, TablesOf
    <3>3. QED
      BY <1>4, <3>1, <3>2
  <2>3. QED
    BY <1>1, <1>2, <1>5, <2>1, <2>2, EnvKept DEF Types, Devices
<1>10. Progress(t)'
  <2>1. \A m : Sound(env[m], device[t])' = Sound(env[m], device[t])
    BY <1>1, <1>5 DEF Sound, FingerprintFits
  <2>2. Loaded(t)' = IF Sound(doc, d) THEN Loaded(t) \cup {n} ELSE Loaded(t)
    BY <1>2, <1>3, <1>8, <2>1, NextDocument, <1>1 DEF Loaded
  <2>3. n \notin Loaded(t) /\ IsFiniteSet(Loaded(t))
    <3>0. Done(t) \in Nat
      BY <1>1, <1>2, NextDocument, Listed
    <3>1. IsFiniteSet(1 .. Done(t))
      BY <3>0, FS_Interval
    <3>2. QED
      BY <3>0, <3>1, FS_Subset DEF Loaded
  <2>4. count'[t] = Cardinality(Loaded(t)')
    <3>1. count[t] = Cardinality(Loaded(t))
      BY <1>2, <1>3 DEF Progress
    <3>2. Cardinality(Loaded(t) \cup {n}) = Cardinality(Loaded(t)) + 1
      BY <2>3, FS_AddElement
    <3>3. QED
      BY <1>6, <2>2, <3>1, <3>2
  <2>5. /\ Len(left'[t]) <= Len(env)
        /\ \A i \in 1 .. Len(left'[t]) : left'[t][i] = env[n + i]
    <3>1. Len(left[t]) \in Nat /\ Len(env) \in Nat /\ Done(t) \in Nat
      BY <1>1, <1>2, NextDocument, Listed
    <3>2. Len(left[t]) <= Len(env) /\ \A i \in 1 .. Len(left[t]) : left[t][i] = env[Done(t) + i]
      BY <1>2, <1>3 DEF Progress
    <3>3. \A i \in 1 .. Len(left[t]) - 1 : left[t][i + 1] = env[Done(t) + (i + 1)]
      BY <3>1, <3>2
    <3>4. \A i \in 1 .. Len(left[t]) - 1 : Done(t) + (i + 1) = n + i
      BY <3>1
    <3>5. QED
      BY <1>6, <1>7, <3>1, <3>2, <3>3, <3>4
  <2>6. /\ todo'[t] # <<>> => Sound(doc, d)
        /\ \A i \in 1 .. Len(todo'[t]) : \E k \in DOMAIN doc.kernels : todo'[t][i] = Tables(doc)[k]
    BY <1>2, <1>3, <1>6, TablesOf
  <2>7. Sound(env[Done(t)], device[t])' = Sound(doc, d) /\ env'[Done(t)'] = doc
    BY <1>5, <1>8, <2>1
  <2>8. Tables(env[Done(t)])' = Tables(doc)
    BY <2>7
  <2>9. QED
    BY ONLY <1>1, <1>3, <1>5, <1>6, <1>8, <2>4, <2>5, <2>6, <2>7, <2>8 DEF Progress
<1>11. ASSUME NEW c \in Devices, NEW id \in Ids, Naming(id, c) # {}, Owes(t, id, c)
       PROVE  Owes(t, id, c)'
  <2>1. c = d /\ Done(t) < Greatest(Naming(id, c))
    BY <1>1, <1>11 DEF Owes
  <2>2. Greatest(Naming(id, c)) \in Naming(id, c) /\ Greatest(Naming(id, c)) \in Nat
        /\ Done(t) \in Nat
    BY <1>1, <1>2, <1>11, LastNaming, Listed, NextDocument
  <2>3. Greatest(Naming(id, c))' = Greatest(Naming(id, c))
    BY <1>1, EnvKept
  <2>4. CASE n < Greatest(Naming(id, c))
    BY <1>6, <1>8, <2>1, <2>3, <2>4 DEF Owes
  <2>5. CASE n = Greatest(Naming(id, c))
    <3>1. Sound(doc, d) /\ \E k \in DOMAIN doc.kernels : StorageId(doc.kernels[k]) = id
      BY <2>1, <2>2, <2>5 DEF Naming
    <3>2. \E i \in DOMAIN todo'[t] : todo'[t][i].id = id
      BY <3>1, <1>2, <1>3, <1>6, TablesOf
    <3>3. QED
      BY <1>6, <1>8, <2>1, <2>3, <2>5, <3>2 DEF Owes
  <2>6. QED
    BY <2>1, <2>2, <2>4, <2>5
<1>12. \A u \in Threads \ {t} :
           /\ pc'[u] = pc[u] /\ device'[u] = device[u] /\ left'[u] = left[u]
           /\ todo'[u] = todo[u] /\ count'[u] = count[u]
  BY <1>1, <1>2, <1>4 DEF Types
<1>13. called' \ called = {}
  BY <1>1
<1>14. QED
  BY ONLY LoadInv, <1>1, <1>9, <1>10, <1>11, <1>12, <1>13, OneThreadSteps

\* publish() binds one id of one device, and leaves the others as they were.
LEMMA PublishedBinds ==
  ASSUME NEW maps, Len(maps) \in Nat, NEW d \in Nat \ {0}, NEW id, NEW table
  PROVE  /\ Len(Published(maps, d, id, table)) = IF Len(maps) < d THEN d ELSE Len(maps)
         /\ \A c \in Nat \ {0} : \A i :
              Kernel(Published(maps, d, id, table), c, i) =
                IF c = d /\ i = id THEN table ELSE Kernel(maps, c, i)
<1> DEFINE P == Published(maps, d, id, table)
           m == IF Len(maps) < d THEN d ELSE Len(maps)
           old == MapOf(maps, d)
           new == [i \in DOMAIN old \cup {id} |-> IF i = id THEN table ELSE old[i]]
<1>1. P = [n \in 1 .. m |-> IF n # d THEN MapOf(maps, n) ELSE new]
  BY DEF Published
<1>2. m \in Nat /\ d <= m /\ Len(maps) <= m
  OBVIOUS
<1>3. Len(P) = m
  BY <1>1, <1>2
<1>4. ASSUME NEW c \in Nat \ {0}, NEW i
      PROVE  Kernel(P, c, i) = IF c = d /\ i = id THEN table ELSE Kernel(maps, c, i)
  <2>1. CASE c > m
    BY <1>2, <1>3, <2>1 DEF Kernel
  <2>2. CASE c <= m /\ c = d
    <3>1. P[c] = new
      BY <1>1, <1>2, <2>2
    <3>2. Kernel(P, c, i) = IF i \in DOMAIN new THEN new[i] ELSE None
      BY <1>3, <2>2, <3>1 DEF Kernel
    <3>3. i # id => Kernel(maps, c, i) = IF i \in DOMAIN old THEN old[i] ELSE None
      BY <2>2 DEF Kernel, MapOf
    <3>4. QED
      BY <2>2, <3>2, <3>3
  <2>3. CASE c <= m /\ c # d
    <3>1. P[c] = MapOf(maps, c)
      BY <1>1, <1>2, <2>3
    <3>2. QED
      BY <1>3, <2>3, <3>1 DEF Kernel, MapOf
  <2>4. QED
    BY <1>2, <2>1, <2>2, <2>3
<1>5. QED
  BY <1>3, <1>4

\* What a thread publishes next is what the document it has read last says of one
\* of its kernels.
LEMMA NextTable ==
  ASSUME LoadInv, NEW t \in Threads, pc[t] = "loading", todo[t] # <<>>
  PROVE  /\ Done(t) \in Naming(Head(todo[t]).id, device[t])
         /\ Done(t) = Greatest(Naming(Head(todo[t]).id, device[t])) =>
              Head(todo[t]).table = Final(Head(todo[t]).id, device[t])
         /\ todo[t] \in Seq(Items)
<1>1. Types /\ Progress(t) /\ device[t] # None
  BY NextDocument DEF LoadInv
<1>2. /\ Done(t) \in DOMAIN env /\ Sound(env[Done(t)], device[t]) /\ todo[t] \in Seq(Items)
      /\ \A i \in 1 .. Len(todo[t]) :
            \E k \in DOMAIN env[Done(t)].kernels : todo[t][i] = Tables(env[Done(t)])[k]
  BY <1>1 DEF Progress, Types
<1> DEFINE kernels == env[Done(t)].kernels
<1>3. Len(todo[t]) >= 1 /\ Head(todo[t]) = todo[t][1]
  BY <1>2
<1>4. PICK k \in DOMAIN kernels : Head(todo[t]) = Tables(env[Done(t)])[k]
  BY <1>2, <1>3
<1>5. Head(todo[t]).id = StorageId(kernels[k]) /\ Head(todo[t]).table = TableOf(kernels[k])
  BY <1>4 DEF Tables
<1>6. \A j \in DOMAIN kernels : StorageId(kernels[j]) = StorageId(kernels[k]) => j = k
  BY <1>2 DEF Sound
<1>7. (CHOOSE one \in ToSet(kernels) : StorageId(one) = StorageId(kernels[k])) = kernels[k]
  BY <1>6 DEF ToSet
<1>8. QED
  BY <1>2, <1>5, <1>7 DEF Naming, Final

LEMMA PublishKeeps ==
  ASSUME LoadInv, NEW t \in Threads, PublishTable(t)
  PROVE  LoadInv'
<1> DEFINE item == Head(todo[t])
           d == device[t]
<1>1. /\ pc[t] = "loading" /\ todo[t] # <<>>
      /\ snapshot' = Published(snapshot, d, item.id, item.table)
      /\ todo' = [todo EXCEPT ![t] = Tail(todo[t])]
      /\ Constant /\ pc' = pc /\ device' = device /\ left' = left /\ count' = count
      /\ called' = called
  BY DEF PublishTable
<1>2. Types /\ Progress(t) /\ env' = env
  BY <1>1 DEF LoadInv, Constant
<1>3. /\ d \in Devices /\ d \in called /\ d # None /\ d \in 1 .. Len(DeviceNames)
      /\ Devices \subseteq Nat \ {0} /\ Len(DeviceNames) \in Nat
  BY <1>1, <1>2, NextDocument, Listed
<1>4. /\ Done(t) \in Naming(item.id, d)
      /\ Done(t) = Greatest(Naming(item.id, d)) => item.table = Final(item.id, d)
      /\ todo[t] \in Seq(Items)
  BY <1>1, NextTable
<1>5. Len(snapshot) \in 0 .. Len(DeviceNames)
  BY <1>2 DEF Types
<1>6. /\ Len(snapshot') \in 0 .. Len(DeviceNames)
      /\ \A c \in Devices : \A id :
           Kernel(snapshot, c, id)' = IF c = d /\ id = item.id THEN item.table ELSE Kernel(snapshot, c, id)
  <2>1. /\ Len(snapshot') = IF Len(snapshot) < d THEN d ELSE Len(snapshot)
        /\ \A c \in Nat \ {0} : \A id :
             Kernel(snapshot', c, id) = IF c = d /\ id = item.id THEN item.table ELSE Kernel(snapshot, c, id)
    BY <1>1, <1>3, <1>5, PublishedBinds
  <2>2. \A c, id : Kernel(snapshot, c, id)' = Kernel(snapshot', c, id)
    BY DEF Kernel
  <2>3. QED
    BY <1>3, <1>5, <2>1, <2>2
<1> HIDE DEF item
<1>7. /\ Tail(todo[t]) \in Seq(Items) /\ Len(Tail(todo[t])) = Len(todo[t]) - 1
      /\ Len(todo[t]) \in Nat \ {0} /\ DOMAIN todo[t] = 1 .. Len(todo[t]) /\ todo[t][1] = item
      /\ \A i \in 1 .. Len(todo[t]) - 1 : Tail(todo[t])[i] = todo[t][i + 1]
  BY <1>1, <1>4 DEF item
<1>8. todo'[t] = Tail(todo[t]) /\ \A u \in Threads \ {t} : todo'[u] = todo[u]
  BY <1>1, <1>2 DEF Types
<1>9. Types'
  <2>1. todo' \in [Threads -> Seq(Items)]
    BY <1>1, <1>2, <1>7 DEF Types
  <2>2. QED
    BY <1>1, <1>2, <1>6, <2>1, EnvKept DEF Types, Devices, Constant
<1>10. ASSUME NEW u \in Threads
       PROVE  Progress(u)' /\ Done(u)' = Done(u)
  <2>1. Done(u)' = Done(u)
    BY <1>1, <1>2 DEF Done
  <2>2. \A n : Sound(env[n], device[u])' = Sound(env[n], device[u])
    BY <1>1, <1>2 DEF Sound, FingerprintFits, Constant
  <2>3. Loaded(u)' = Loaded(u) /\ Sound(env[Done(u)], device[u])' = Sound(env[Done(u)], device[u])
    BY <2>1, <2>2 DEF Loaded
  <2>4. env'[Done(u)'] = env[Done(u)] /\ Tables(env[Done(u)])' = Tables(env[Done(u)])
    BY <2>1, <1>2
  <2>5. Progress(u)
    BY DEF LoadInv
  <2>6. /\ todo[u] = <<>> => todo'[u] = <<>>
        /\ \A i \in 1 .. Len(todo'[u]) : \E j \in 1 .. Len(todo[u]) : todo'[u][i] = todo[u][j]
    <3>1. CASE u = t
      BY <1>1, <1>7, <1>8, <3>1
    <3>2. CASE u # t
      BY <1>8, <3>2
    <3>3. QED
      BY <3>1, <3>2
  <2>7. Progress(u)'
    BY ONLY <2>1, <2>3, <2>4, <2>5, <2>6, <1>1, <1>2 DEF Progress
  <2>8. QED
    BY <2>1, <2>7
<1>11. ASSUME NEW c \in Devices, NEW id \in Ids
       PROVE  Settled(c, id)' /\ NothingElse(c, id)'
  <2>1. /\ Naming(id, c)' = Naming(id, c) /\ Final(id, c)' = Final(id, c)
    BY <1>1, EnvKept
  <2>2. Settled(c, id) /\ NothingElse(c, id)
    BY DEF LoadInv
  <2>3. CASE c = d /\ id = item.id
    <3>1. Done(t) <= Greatest(Naming(id, c)) /\ Naming(id, c) # {}
          /\ Greatest(Naming(id, c)) \in Nat /\ Done(t) \in Nat
      <4>1. Done(t) \in Naming(id, c)
        BY <1>4, <2>3
      <4>2. Greatest(Naming(id, c)) \in DOMAIN env /\ Done(t) <= Greatest(Naming(id, c))
        BY <1>2, <4>1, LastNaming
      <4>3. DOMAIN env \subseteq Nat /\ Done(t) \in DOMAIN env
        BY <1>2, <4>1, Listed DEF Naming
      <4>4. QED
        BY <4>1, <4>2, <4>3
    <3>2. CASE Done(t) = Greatest(Naming(id, c))
      BY <1>4, <1>6, <2>1, <2>3, <3>1, <3>2, <1>1, <1>3 DEF Settled, NothingElse
    <3>3. CASE Done(t) < Greatest(Naming(id, c))
      <4>1. Owes(t, id, c)'
        BY <1>1, <1>10, <2>1, <2>3, <3>3 DEF Owes
      <4>2. QED
        BY <1>1, <1>3, <2>1, <2>3, <3>1, <4>1 DEF Settled, NothingElse
    <3>4. QED
      BY <3>1, <3>2, <3>3
  <2>4. CASE ~(c = d /\ id = item.id)
    <3>1. Kernel(snapshot, c, id)' = Kernel(snapshot, c, id)
      BY <1>6, <2>4
    <3>2. ASSUME NEW u \in Threads, Owes(u, id, c)
          PROVE  Owes(u, id, c)'
      <4>1. CASE u # t
        BY <1>1, <1>8, <1>10, <2>1, <3>2, <4>1 DEF Owes
      <4>2. CASE u = t /\ Done(t) < Greatest(Naming(id, c))
        BY <1>1, <1>10, <2>1, <3>2, <4>2 DEF Owes
      <4>3. CASE u = t /\ Done(t) = Greatest(Naming(id, c))
                   /\ \E i \in DOMAIN todo[t] : todo[t][i].id = id
        <5>1. PICK i \in DOMAIN todo[t] : todo[t][i].id = id
          BY <4>3
        <5>2. c = d
          BY <3>2, <4>3 DEF Owes
        <5>3. i # 1
          BY <1>7, <2>4, <5>1, <5>2
        <5>4. i - 1 \in DOMAIN todo'[t] /\ todo'[t][i - 1].id = id
          BY <1>7, <1>8, <5>1, <5>3
        <5>5. QED
          BY <1>1, <1>10, <2>1, <3>2, <4>3, <5>4 DEF Owes
      <4>4. QED
        BY <3>2, <4>1, <4>2, <4>3 DEF Owes
    <3>3. QED
      BY <1>1, <2>1, <2>2, <3>1, <3>2 DEF Settled, NothingElse
  <2>5. QED
    BY <2>3, <2>4
<1>12. Devices' = Devices /\ Ids' = Ids
  BY <1>1, EnvKept DEF Devices
<1>13. QED
  BY <1>9, <1>10, <1>11, <1>12 DEF LoadInv

LEMMA ReturnKeeps ==
  ASSUME LoadInv, NEW t \in Threads, Return(t)
  PROVE  LoadInv'
<1>1. /\ pc[t] = "loading" /\ todo[t] = <<>> /\ left[t] = <<>> /\ pc' = [pc EXCEPT ![t] = "idle"]
      /\ Constant /\ snapshot' = snapshot /\ device' = device /\ left' = left /\ todo' = todo
      /\ count' = count /\ called' = called
  BY DEF Return
<1>2. Types /\ Progress(t) /\ env' = env
  BY <1>1 DEF LoadInv, Constant
<1>3. Types'
  BY <1>1, <1>2, EnvKept DEF Types, Devices, Constant
<1>4. pc'[t] = "idle" /\ Done(t)' = Done(t) /\ Done(t) = Len(env) /\ Len(env) \in Nat
  BY <1>1, <1>2, Listed DEF Types, Done
<1>5. Progress(t)'
  <2>1. \A n : Sound(env[n], device[t])' = Sound(env[n], device[t])
    BY <1>1, <1>2 DEF Sound, FingerprintFits, Constant
  <2>2. Loaded(t)' = Loaded(t)
    BY <1>4, <2>1 DEF Loaded
  <2>3. QED
    BY <1>1, <1>2, <1>4, <2>2 DEF Progress
<1>6. ASSUME NEW c \in Devices, NEW id \in Ids, Naming(id, c) # {}, Owes(t, id, c)
      PROVE  FALSE
  <2>1. Greatest(Naming(id, c)) \in DOMAIN env
    BY <1>2, <1>6, LastNaming
  <2>2. Greatest(Naming(id, c)) <= Len(env) /\ Greatest(Naming(id, c)) \in Nat
    BY <1>2, <2>1, Listed
  <2>3. QED
    BY <1>1, <1>4, <1>6, <2>2 DEF Owes
<1>7. \A u \in Threads \ {t} :
           /\ pc'[u] = pc[u] /\ device'[u] = device[u] /\ left'[u] = left[u]
           /\ todo'[u] = todo[u] /\ count'[u] = count[u]
  BY <1>1, <1>2 DEF Types
<1>8. QED
  BY ONLY LoadInv, <1>1, <1>3, <1>5, <1>6, <1>7, OneThreadSteps

LEMMA StutterKeeps ==
  ASSUME LoadInv, UNCHANGED vars
  PROVE  LoadInv'
<1>1. /\ Constant /\ snapshot' = snapshot /\ pc' = pc /\ device' = device /\ left' = left
      /\ todo' = todo /\ count' = count /\ called' = called /\ env' = env
  BY DEF vars, Constant
<1>2. Types'
  BY <1>1, EnvKept DEF LoadInv, Types, Devices, Constant
<1>3. ASSUME NEW u \in Threads PROVE Progress(u)' /\ Done(u)' = Done(u)
  <2>1. Done(u)' = Done(u)
    BY <1>1 DEF Done
  <2>2. \A n : Sound(env[n], device[u])' = Sound(env[n], device[u])
    BY <1>1 DEF Sound, FingerprintFits, Constant
  <2>3. Loaded(u)' = Loaded(u) /\ Sound(env[Done(u)], device[u])' = Sound(env[Done(u)], device[u])
    BY <2>1, <2>2 DEF Loaded
  <2>4. env'[Done(u)'] = env[Done(u)] /\ Tables(env[Done(u)])' = Tables(env[Done(u)])
    BY <2>1, <1>1
  <2>5. Progress(u)
    BY DEF LoadInv
  <2>6. QED
    BY ONLY <1>1, <2>1, <2>3, <2>4, <2>5 DEF Progress
<1>4. ASSUME NEW d \in Devices, NEW id \in Ids PROVE Settled(d, id)' /\ NothingElse(d, id)'
  <2>1. /\ Naming(id, d)' = Naming(id, d) /\ Final(id, d)' = Final(id, d)
        /\ Kernel(snapshot, d, id)' = Kernel(snapshot, d, id)
    BY <1>1, EnvKept DEF Kernel
  <2>2. \A u \in Threads : Owes(u, id, d) => Owes(u, id, d)'
    BY <1>1, <1>3, <2>1 DEF Owes
  <2>3. QED
    BY <1>1, <2>1, <2>2 DEF LoadInv, Settled, NothingElse
<1>5. Devices' = Devices /\ Ids' = Ids
  BY <1>1, EnvKept DEF Devices
<1>6. QED
  BY <1>2, <1>3, <1>4, <1>5 DEF LoadInv

LEMMA LoadNext == LoadInv /\ [Next]_vars => LoadInv'
  BY EnterKeeps, DocumentKeeps, PublishKeeps, ReturnKeeps, StutterKeeps DEF Next

THEOREM LoadCorrect == Spec => []LoadInv
  BY LoadInit, LoadNext, PTL DEF Spec

\* However the threads that call load_from_env() take turns, and whichever documents
\* are refused: once all have returned, each kernel has the table of the last sound
\* document that names it on its device, nothing else is bound, and each call has
\* returned the number of documents that are sound for it.
THEOREM EnvTableWins == Spec => []QuietTableIsEnvTable
<1>1. LoadInv => QuietTableIsEnvTable
  <2> SUFFICES ASSUME LoadInv, \A t \in Threads : pc[t] = "idle"
               PROVE  /\ \A d \in Devices, id \in Ids :
                           Kernel(snapshot, d, id) =
                             IF d \notin called \/ Naming(id, d) = {} THEN None ELSE Final(id, d)
                      /\ \A t \in Threads : device[t] # None =>
                           count[t] = Cardinality({n \in DOMAIN env : Sound(env[n], device[t])})
    BY DEF QuietTableIsEnvTable, Final
  <2>1. ASSUME NEW d \in Devices, NEW id \in Ids
        PROVE  Kernel(snapshot, d, id) =
                 IF d \notin called \/ Naming(id, d) = {} THEN None ELSE Final(id, d)
    BY DEF LoadInv, Settled, NothingElse, Owes
  <2>2. ASSUME NEW t \in Threads, device[t] # None
        PROVE  count[t] = Cardinality({n \in DOMAIN env : Sound(env[n], device[t])})
    <3>1. Done(t) = Len(env) /\ DOMAIN env = 1 .. Len(env)
      <4>1. left[t] = <<>> /\ Len(env) \in Nat /\ DOMAIN env = 1 .. Len(env)
        BY Listed DEF LoadInv, Progress
      <4>2. QED
        BY <4>1 DEF Done
    <3>2. QED
      BY <2>2, <3>1 DEF LoadInv, Progress, Loaded
  <2>3. QED
    BY <2>1, <2>2
<1>2. QED
  BY <1>1, LoadCorrect, PTL

-----------------------------------------------------------------------------
(* The tables that are bound.                                                *)

\* Every table in the snapshot was made of a kernel of a sound document.
OfFile(table) ==
  \E n \in DOMAIN env, d \in Devices :
    Sound(env[n], d) /\ \E k \in DOMAIN env[n].kernels : table = TableOf(env[n].kernels[k])
BoundInv ==
  /\ DOMAIN snapshot = 1 .. Len(snapshot) /\ Len(snapshot) \in Nat
  /\ \A d \in DOMAIN snapshot : \A id \in DOMAIN snapshot[d] : OfFile(snapshot[d][id])

LEMMA OfFileKept ==
  ASSUME Constant, NEW table, OfFile(table)
  PROVE  OfFile(table)'
<1>1. env' = env /\ ignore' = ignore /\ Devices' = Devices
  BY DEF Constant, Devices
<1>2. \A doc, d : Sound(doc, d)' = Sound(doc, d)
  BY EnvKept
<1>3. PICK n \in DOMAIN env, d \in Devices :
        Sound(env[n], d) /\ \E k \in DOMAIN env[n].kernels : table = TableOf(env[n].kernels[k])
  BY DEF OfFile
<1>4. Sound(env[n], d)'
  BY <1>1, <1>2, <1>3 DEF Sound, FingerprintFits
<1>5. QED
  BY <1>1, <1>3, <1>4 DEF OfFile

\* publish() adds one table and keeps the others.
OneMore(P, maps, table) ==
  /\ DOMAIN P = 1 .. Len(P) /\ Len(P) \in Nat
  /\ \A c \in DOMAIN P : \A i \in DOMAIN P[c] :
       \/ P[c][i] = table
       \/ c \in DOMAIN maps /\ i \in DOMAIN maps[c] /\ P[c][i] = maps[c][i]

LEMMA PublishedTables ==
  ASSUME NEW maps, DOMAIN maps = 1 .. Len(maps), Len(maps) \in Nat, NEW d \in Nat \ {0},
         NEW id, NEW table
  PROVE  OneMore(Published(maps, d, id, table), maps, table)
<1> DEFINE P == Published(maps, d, id, table)
<1> DEFINE m == IF Len(maps) < d THEN d ELSE Len(maps)
           old == MapOf(maps, d)
           new == [i \in DOMAIN old \cup {id} |-> IF i = id THEN table ELSE old[i]]
<1>1. P = [n \in 1 .. m |-> IF n # d THEN MapOf(maps, n) ELSE new]
  BY DEF Published
<1> HIDE DEF P
<1>2. m \in Nat /\ d <= m
  OBVIOUS
<1>3. DOMAIN P = 1 .. m /\ Len(P) = m
  BY <1>1, <1>2
<1>4. \A n \in 1 .. m : \A i \in DOMAIN MapOf(maps, n) :
        n \in DOMAIN maps /\ i \in DOMAIN maps[n] /\ MapOf(maps, n)[i] = maps[n][i]
  <2>1. TAKE n \in 1 .. m
  <2>2. TAKE i \in DOMAIN MapOf(maps, n)
  <2>3. n <= Len(maps)
    <3>1. ASSUME ~(n <= Len(maps)) PROVE FALSE
      <4>1. MapOf(maps, n) = <<>>
        BY <3>1 DEF MapOf
      <4>2. DOMAIN MapOf(maps, n) = {}
        BY <4>1
      <4>3. QED
        BY <4>2
    <3>2. QED
      BY <3>1
  <2>4. MapOf(maps, n) = maps[n] /\ n \in DOMAIN maps
    BY <1>2, <2>3 DEF MapOf
  <2>5. QED
    BY <2>4
<1>5. ASSUME NEW c \in DOMAIN P, NEW i \in DOMAIN P[c]
      PROVE  \/ P[c][i] = table
             \/ c \in DOMAIN maps /\ i \in DOMAIN maps[c] /\ P[c][i] = maps[c][i]
  <2>1. CASE c # d
    <3>1. P[c] = MapOf(maps, c) /\ c \in 1 .. m
      BY <1>1, <1>3, <2>1
    <3>2. QED
      BY <1>4, <3>1
  <2>2. CASE c = d
    <3>1. P[c] = new /\ d \in 1 .. m
      BY <1>1, <1>3, <2>2
    <3>2. i \in DOMAIN old \cup {id} /\ P[c][i] = IF i = id THEN table ELSE old[i]
      BY <3>1
    <3>3. QED
      BY <1>4, <2>2, <3>1, <3>2
  <2>3. QED
    BY <2>1, <2>2
<1>6. /\ DOMAIN P = 1 .. Len(P) /\ Len(P) \in Nat
      /\ \A c \in DOMAIN P : \A i \in DOMAIN P[c] :
           \/ P[c][i] = table
           \/ c \in DOMAIN maps /\ i \in DOMAIN maps[c] /\ P[c][i] = maps[c][i]
  BY <1>2, <1>3, <1>5
<1>7. OneMore(P, maps, table)
  BY ONLY <1>6 DEF OneMore
<1>8. QED
  BY <1>7 DEF P

LEMMA BoundInit == Init => BoundInv
  BY DEF Init, BoundInv

LEMMA BoundNext == LoadInv /\ LoadInv' /\ BoundInv /\ [Next]_vars => BoundInv'
<1> SUFFICES ASSUME LoadInv, BoundInv, [Next]_vars PROVE BoundInv'
  OBVIOUS
<1>1. Constant
  BY DEF Next, vars, Constant, LoadFromEnv, LoadDocument, PublishTable, Return
<1>2. CASE snapshot' = snapshot
  BY <1>1, <1>2, OfFileKept DEF BoundInv
<1>3. ASSUME NEW t \in Threads, PublishTable(t)
      PROVE  BoundInv'
  <2>1. /\ pc[t] = "loading" /\ todo[t] # <<>>
        /\ snapshot' = Published(snapshot, device[t], Head(todo[t]).id, Head(todo[t]).table)
    BY <1>3 DEF PublishTable
  <2>2. device[t] \in Devices /\ Devices \subseteq Nat \ {0} /\ device[t] # None
    BY <2>1, NextDocument, Listed DEF LoadInv
  <2>3. OfFile(Head(todo[t]).table)
    <3>1. /\ Done(t) \in DOMAIN env /\ Sound(env[Done(t)], device[t]) /\ todo[t] \in Seq(Items)
          /\ \A i \in 1 .. Len(todo[t]) :
                \E k \in DOMAIN env[Done(t)].kernels : todo[t][i] = Tables(env[Done(t)])[k]
      BY <2>1, <2>2 DEF LoadInv, Progress, Types
    <3>2. Len(todo[t]) >= 1 /\ Head(todo[t]) = todo[t][1]
      BY <2>1, <3>1
    <3>3. PICK k \in DOMAIN env[Done(t)].kernels : Head(todo[t]) = Tables(env[Done(t)])[k]
      BY <3>1, <3>2
    <3>4. Head(todo[t]).table = TableOf(env[Done(t)].kernels[k])
      BY <3>3 DEF Tables
    <3>5. QED
      BY <2>2, <3>1, <3>4 DEF OfFile
  <2>4. OneMore(snapshot', snapshot, Head(todo[t]).table)
    <3>1. DOMAIN snapshot = 1 .. Len(snapshot) /\ Len(snapshot) \in Nat /\ device[t] \in Nat \ {0}
      BY <2>2 DEF BoundInv
    <3>2. \A id, table :
            OneMore(Published(snapshot, device[t], id, table), snapshot, table)
      BY ONLY <3>1, PublishedTables
    <3>3. QED
      BY ONLY <2>1, <3>2
  <2>5. \A c \in DOMAIN snapshot' : \A i \in DOMAIN snapshot'[c] : OfFile(snapshot'[c][i])
    BY <2>3, <2>4 DEF BoundInv, OneMore
  <2>6. \A table : OfFile(table) => OfFile(table)'
    BY <1>1, OfFileKept
  <2>7. QED
    BY <2>4, <2>5, <2>6 DEF BoundInv, OneMore
<1>4. QED
  BY <1>2, <1>3 DEF Next, vars, LoadFromEnv, LoadDocument, Return

THEOREM BoundTables == Spec => [](LoadInv /\ BoundInv)
<1>1. Init => LoadInv /\ BoundInv
  BY LoadInit, BoundInit
<1>2. LoadInv /\ BoundInv /\ [Next]_vars => (LoadInv /\ BoundInv)'
  BY LoadNext, BoundNext
<1>3. QED
  BY <1>1, <1>2, PTL DEF Spec

\* What a table that is bound is like.
LEMMA BoundIsTable ==
  ASSUME LoadInv, BoundInv, NEW table \in Bound
  PROVE  \E kernel \in FileKernel :
           /\ table = TableOf(kernel) /\ KernelParses(kernel)
           /\ kernel.rows # <<>> => Len(kernel.strategies) <= MaxColumns
<1>1. PICK d \in DOMAIN snapshot : \E id \in DOMAIN snapshot[d] : table = snapshot[d][id]
  BY DEF Bound
<1>2. OfFile(table)
  BY <1>1 DEF BoundInv
<1>3. PICK n \in DOMAIN env, c \in Devices :
        Sound(env[n], c) /\ \E k \in DOMAIN env[n].kernels : table = TableOf(env[n].kernels[k])
  BY <1>2 DEF OfFile
<1>4. PICK k \in DOMAIN env[n].kernels : table = TableOf(env[n].kernels[k])
  BY <1>3
<1> DEFINE kernel == env[n].kernels[k]
<1>5. kernel \in FileKernel
  <2>1. env[n].kernels \in Seq(FileKernel)
    BY Listed DEF LoadInv
  <2>2. QED
    BY <2>1
<1>6. kernel \in ToSet(env[n].kernels)
  BY DEF ToSet
<1>7. KernelParses(kernel) /\ (kernel.rows # <<>> => Len(kernel.strategies) <= MaxColumns)
  BY <1>3, <1>6 DEF Sound
<1>8. QED
  BY <1>4, <1>5, <1>7

\* Types; and an index has room for twice its rows.
THEOREM LoadTypes == Spec => []TypeOK
<1>1. LoadInv /\ BoundInv => TypeOK
  <2> SUFFICES ASSUME LoadInv, BoundInv PROVE TypeOK
    OBVIOUS
  <2>1. Types
    BY DEF LoadInv
  <2>2. ASSUME NEW t \in Threads
        PROVE  /\ pc[t] \in {"idle", "loading"} /\ device[t] \in Devices \cup {None}
               /\ count[t] + Len(left[t]) \in 0 .. Len(env)
    <3>1. pc[t] \in {"idle", "loading"} /\ device[t] \in Devices \cup {None} /\ Progress(t)
      BY <2>1 DEF Types, LoadInv
    <3>2. /\ Len(env) \in Nat /\ DOMAIN env = 1 .. Len(env)
          /\ left[t] \in Seq(Document) /\ Len(left[t]) \in Nat
      BY <2>1, Listed DEF Types
    <3>3. CASE device[t] = None
      <4>1. count[t] = 0 /\ left[t] = <<>>
        BY <3>1, <3>3 DEF Progress
      <4>2. QED
        BY <3>1, <3>2, <4>1
    <3>4. CASE device[t] # None
      <4>1. Len(left[t]) <= Len(env) /\ count[t] = Cardinality(Loaded(t))
        BY <3>1, <3>4 DEF Progress
      <4>2. Done(t) \in Nat /\ Done(t) + Len(left[t]) = Len(env)
        BY <3>2, <4>1 DEF Done
      <4>3. IsFiniteSet(1 .. Done(t)) /\ Cardinality(1 .. Done(t)) = Done(t)
        BY <4>2, FS_Interval
      <4>4. Loaded(t) \in SUBSET (1 .. Done(t))
        BY DEF Loaded
      <4>5. Cardinality(Loaded(t)) <= Done(t) /\ Cardinality(Loaded(t)) \in Nat
        BY <4>3, <4>4, FS_Subset, FS_CardinalityType
      <4>6. QED
        BY <3>1, <3>2, <4>1, <4>2, <4>5
    <3>5. QED
      BY <3>3, <3>4
  <2>3. ASSUME NEW table \in Bound
        PROVE  Cardinality(DOMAIN table.index.heads) >= 2 * Len(table.rows)
    <3>1. PICK kernel \in FileKernel : table = TableOf(kernel) /\ KernelParses(kernel)
      BY BoundIsTable
    <3>2. /\ Len(table.rows) \in Nat /\ DOMAIN table.rows = 1 .. Len(table.rows)
          /\ table.index = BuildIndex(table.rows)
          /\ \A n \in DOMAIN table.rows : HashKey(table.rows[n].key) \in Nat
      BY <3>1, TableShape, RowKeys
    <3>3. Chained(table.index.heads, table.index.next, table.rows, Len(table.rows))
      BY <3>2, IndexChains
    <3>4. DOMAIN table.index.heads = 0 .. BucketCount(Len(table.rows)) - 1
      BY <3>3 DEF Chained, Buckets
    <3>5. BucketCount(Len(table.rows)) \in Nat /\ BucketCount(Len(table.rows)) >= Len(table.rows) * 2
          /\ BucketCount(Len(table.rows)) >= 1
      BY <3>2, BucketsOf
    <3>6. Cardinality(0 .. BucketCount(Len(table.rows)) - 1) = BucketCount(Len(table.rows))
      <4> DEFINE b == BucketCount(Len(table.rows))
      <4>1. 0 \in Int /\ b - 1 \in Int
        BY <3>5
      <4>2. Cardinality(0 .. b - 1) = IF 0 > b - 1 THEN 0 ELSE (b - 1) - 0 + 1
        BY <4>1, FS_Interval
      <4>3. QED
        BY <3>5, <4>2
    <3>7. QED
      BY <3>2, <3>4, <3>5, <3>6
  <2>4. QED
    BY <2>1, <2>2, <2>3 DEF TypeOK, Types
<1>2. QED
  BY <1>1, BoundTables, PTL

\* load() judges a file as its meaning says: every file it accepts is sound, and it
\* accepts every sound file.
THEOREM LoadJudges == Spec => []FilesAreJudged
<1>1. LoadInv => FilesAreJudged
  BY Listed, JudgedRight DEF LoadInv, FilesAreJudged
<1>2. QED
  BY <1>1, LoadCorrect, PTL

\* A row has the least bucket that is not below the dimension of the file, and find()
\* gives the row of the key's bucket, or nothing if no row has it.
THEOREM LookupsAreRight == Spec => []FindIsLookup
<1>1. LoadInv /\ BoundInv => FindIsLookup
  <2> SUFFICES ASSUME LoadInv, BoundInv PROVE FindIsLookup
    OBVIOUS
  <2>1. ASSUME NEW table \in Bound, NEW row \in ToSet(table.rows), NEW i \in DOMAIN table.strategies
        PROVE  row.key.dims[i] = Bucket(table.strategies[i], row.of.dims[i])
    <3>1. PICK kernel \in FileKernel : table = TableOf(kernel) /\ KernelParses(kernel)
      BY BoundIsTable
    <3>2. DOMAIN table.rows = DOMAIN kernel.rows /\ DOMAIN table.strategies = DOMAIN kernel.strategies
      BY <3>1, TableShape
    <3>3. PICK n \in DOMAIN kernel.rows : row = table.rows[n]
      BY <3>2 DEF ToSet
    <3>4. /\ Askable(kernel, kernel.rows[n]) /\ row.of = kernel.rows[n]
          /\ row.key = Wanted(table, kernel.rows[n])
      BY <3>1, <3>3, RowKeys
    <3>5. Wanted(table, kernel.rows[n]).dims[i] = Bucket(table.strategies[i], kernel.rows[n].dims[i])
      BY <3>1, <3>2, <3>4, WantedBuckets
    <3>6. QED
      BY <3>4, <3>5
  <2>2. ASSUME NEW table \in Bound, NEW key \in Asked(table), InRange(table, key)
        PROVE  LET rows == {n \in DOMAIN table.rows : SameKey(table.strategies, table.rows[n].of, key)}
               IN  IF rows = {} THEN Find(table, key) = 0 ELSE Find(table, key) \in rows
    <3>1. PICK kernel \in FileKernel :
            /\ table = TableOf(kernel) /\ KernelParses(kernel)
            /\ kernel.rows # <<>> => Len(kernel.strategies) <= MaxColumns
      BY BoundIsTable
    <3>2. /\ DOMAIN table.rows = DOMAIN kernel.rows /\ DOMAIN kernel.rows = 1 .. Len(kernel.rows)
          /\ Len(kernel.rows) \in Nat /\ DOMAIN table.strategies = DOMAIN kernel.strategies
          /\ DOMAIN kernel.strategies = 1 .. Len(kernel.strategies) /\ Len(kernel.strategies) \in Nat
      BY <3>1, TableShape
    <3>3. PICK n \in DOMAIN kernel.rows, c \in DOMAIN kernel.strategies, k \in -1 .. 1 :
            key = [dims |-> [kernel.rows[n].dims EXCEPT ![c] = kernel.rows[n].dims[c] + k],
                   dtypes |-> kernel.rows[n].dtypes]
      <4>1. PICK row \in ToSet(table.rows), c \in DOMAIN table.strategies, k \in -1 .. 1 :
              key = [dims |-> [row.of.dims EXCEPT ![c] = row.of.dims[c] + k], dtypes |-> row.of.dtypes]
        BY <2>2 DEF Asked
      <4>2. PICK n \in DOMAIN kernel.rows : row = table.rows[n]
        BY <3>2 DEF ToSet
      <4>3. row.of = kernel.rows[n]
        BY <3>1, <4>2, RowKeys
      <4>4. QED
        BY <3>2, <4>1, <4>3
    <3>4. Askable(kernel, key)
      <4>1. /\ kernel.rows[n].dims \in Seq(Int64) /\ kernel.rows[n].dtypes \in Seq(DTypes)
            /\ Len(kernel.rows[n].dims) = Len(kernel.strategies)
            /\ Len(kernel.rows[n].dtypes) = kernel.ndtypes
            /\ DOMAIN kernel.rows[n].dims = DOMAIN kernel.strategies
        BY <3>1, RowShape
      <4>2. key.dtypes = kernel.rows[n].dtypes /\ DOMAIN key.dims = 1 .. Len(kernel.strategies)
        BY <3>2, <3>3, <4>1
      <4>3. \A i \in DOMAIN key.dims : key.dims[i] \in Int64
        BY <2>2 DEF InRange
      <4>4. key.dims = [i \in 1 .. Len(kernel.strategies) |-> key.dims[i]]
        BY <3>2, <3>3, <4>1
      <4>5. key.dims \in [1 .. Len(kernel.strategies) -> Int64]
        BY <4>2, <4>3, <4>4
      <4>6. key.dims \in Seq(Int64) /\ Len(key.dims) = Len(kernel.strategies)
        BY <3>2, <4>5
      <4>7. QED
        BY <2>2, <3>1, <4>1, <4>2, <4>6 DEF Askable
    <3>5. Len(key.dims) <= MaxColumns
      <4>1. kernel.rows # <<>>
        <5>1. kernel.rows \in Seq(FileRow)
          BY DEF FileKernel
        <5>2. QED
          BY <5>1
      <4>2. QED
        BY <3>1, <3>4, <4>1 DEF Askable
    <3> DEFINE found == Find(table, key)
               Answers(m) == SameKey(table.strategies, kernel.rows[m], key)
               rows == {m \in DOMAIN table.rows : SameKey(table.strategies, table.rows[m].of, key)}
    <3>6. /\ found \in 0 .. Len(kernel.rows)
          /\ found # 0 => Answers(found)
          /\ \A m \in DOMAIN kernel.rows : Answers(m) => m <= found
      BY <3>1, <3>4, <3>5, FindIsLookupOf
    <3>7. \A m \in DOMAIN kernel.rows : table.rows[m].of = kernel.rows[m]
      BY <3>1, RowKeys
    <3>8. rows = {m \in DOMAIN kernel.rows : Answers(m)}
      BY <3>2, <3>7
    <3> HIDE DEF found, Answers, rows
    <3>9. IF rows = {} THEN found = 0 ELSE found \in rows
      BY <3>2, <3>6, <3>8
    <3>10. QED
      BY <3>9 DEF found, rows
  <2>3. QED
    BY <2>1, <2>2 DEF FindIsLookup, KeyIsLeastBucket
<1>2. QED
  BY <1>1, BoundTables, PTL
==============================================================================
