---------------------------- MODULE KeyNormalize ----------------------------
(***************************************************************************)
(* The key strategies of a tuned table: normalize_dim and its helpers       *)
(* pow2_ceil and ceil_div_32 (src/tuned_config.cpp), on integers of a       *)
(* parametric width.  A key is normalised more than once on its way: a row  *)
(* when insert_resolved stores it, a request when the flight token is made  *)
(* and again in every lookup, a file row by the exporter, by load() and by  *)
(* find().  TableLoad and its properties use these operators.               *)
(***************************************************************************)
EXTENDS Integers

CONSTANTS
  Width   (* Bits of an int64_t: 64 in the code. *)

ASSUME WidthAssumption == Width \in Nat /\ Width > 6

Strategies == {"default", "log", "align32", "align32_ceil"}
Limit == 2 ^ (Width - 1)
Int64 == -Limit .. Limit - 1

\* value + 31, or -value, leaves the type: undefined behaviour in the code, and
\* outside the inputs of this model.
Overflows(s, v) ==
  \/ s \in {"align32", "align32_ceil"} /\ v + 31 >= Limit
  \/ s = "align32_ceil" /\ v = -Limit

-----------------------------------------------------------------------------
(* The code *)

\* 64 - __builtin_clzll(v): the number of bits of v >= 1.
BitLength(v) == CHOOSE n \in 1 .. Width : 2 ^ (n - 1) <= v /\ v < 2 ^ n

\* The least power of two that is not below value.  Mutant: the one above it.
Pow2CeilOfValue(value) ==
  IF value <= 1 THEN 1
  ELSE IF BitLength(value) >= Width - 1 THEN value ELSE 2 ^ BitLength(value)
Pow2Ceil(value) ==
  IF value <= 1 THEN 1
  ELSE LET bits == BitLength(value - 1)
       IN IF bits >= Width - 1 THEN value ELSE 2 ^ bits

\* C++ division truncates toward zero; both branches divide naturals.
CeilDiv32(value) == IF value >= 0 THEN (value + 31) \div 32 ELSE -((-value) \div 32)

NormalizeDim(s, value) ==
  CASE s = "default" -> value
    [] s = "log" -> IF value <= 0 THEN value ELSE Pow2Ceil(value)
    [] s = "align32" -> IF value <= 0 THEN value
                        ELSE IF value < 32 THEN Pow2Ceil(value)
                        ELSE CeilDiv32(value) * 32
    [] s = "align32_ceil" -> CeilDiv32(value) * 32

-----------------------------------------------------------------------------
(* Reference: what the Python strategies compute with real numbers *)

PowersOfTwo == {2 ^ n : n \in 0 .. Width - 2}

\* The values a strategy maps to.
IsBucket(s, b) ==
  \/ s = "default"
  \/ s \in {"align32", "align32_ceil"} /\ b % 32 = 0
  \/ s \in {"log", "align32"} /\ b <= 0
  \/ s = "log" /\ b \in PowersOfTwo
  \/ s = "align32" /\ b < 32 /\ b \in PowersOfTwo

\* The key of a dimension as math.ceil makes it: the least bucket that is not below
\* it.  Above the largest power of two of the type "log" keeps a dimension as it is.
Bucket(s, v) ==
  IF s = "log" /\ v > Limit \div 2 THEN v
  ELSE CHOOSE b \in v .. Limit - 1 : IsBucket(s, b) /\ \A w \in v .. b - 1 : ~IsBucket(s, w)
=============================================================================
