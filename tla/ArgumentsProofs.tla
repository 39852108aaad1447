-------------------------- MODULE ArgumentsProofs --------------------------
(***************************************************************************)
(* Theorems about Arguments: what a token says of its argument, what the     *)
(* buffer holds, and why the two readings of a signature, the runtime's and  *)
(* the compiler's, agree.                                                    *)
(***************************************************************************)
EXTENDS Arguments, DataLemmas

-----------------------------------------------------------------------------
(* Numbers, and what a token says of them.                                   *)

LEMMA NumberParts ==
  ASSUME NEW names, NEW v \in Number(names)
  PROVE  /\ v.type.pointer = FALSE /\ v.type.name \in names /\ v.type = Value(v.type.name)
         /\ v.value \in Int /\ InRange(v)
         /\ v = [type |-> v.type, value |-> v.value]
BY DEF Number, Value

\* A number that stays a run-time argument: its type is narrowed, and a hint of 1
\* or 16 is true of the value.
NumberWith(v, kind, r, hint) ==
  /\ r = Adds(Typed(NarrowType(v), hint, FALSE),
              IF hint = 1 /\ (pooled \/ kind # "SPECIALIZED") THEN <<>> ELSE <<v>>)
  /\ hint = 16 => v.value % 16 = 0
  /\ hint = 1 => v.value = 1
  /\ build = "npu" => hint = 0
RuntimeNumber(v, kind, r) == \E hint \in {0, 1, 16} : NumberWith(v, kind, r, hint)

LEMMA NumberTells ==
  ASSUME NEW v \in Number(Scalars), NEW kind \in Kinds
  PROVE  /\ kind = "CONSTEXPR" =>
              \E class \in {"number", "bool"} : HandleNumber(v, kind) = Adds(Printed(class, v.value), <<>>)
         /\ kind # "CONSTEXPR" => RuntimeNumber(v, kind, HandleNumber(v, kind))
<1>1. CASE kind = "CONSTEXPR"
  BY <1>1 DEF HandleNumber, HandleConstexpr
<1>2. CASE kind = "SPECIALIZED"
  <2> DEFINE hint == IF Integral(v.type) /\ build # "npu" THEN Spec16or1(v.value) ELSE 0
  <2>1. HandleNumber(v, kind) = Adds(Typed(NarrowType(v), hint, FALSE), IF hint = 1 /\ pooled THEN <<>> ELSE <<v>>)
    BY <1>2 DEF HandleNumber, HandleSpecialized
  <2>2. /\ hint \in {0, 1, 16} /\ (hint = 16 => v.value % 16 = 0) /\ (hint = 1 => v.value = 1)
        /\ (build = "npu" => hint = 0)
    BY DEF Spec16or1
  <2> HIDE DEF hint
  <2>3. QED
    BY <1>2, <2>1, <2>2 DEF RuntimeNumber, NumberWith
<1>3. CASE kind = "SPECIALIZED_NO_ALIGNMENT"
  <2> DEFINE one == Integral(v.type) /\ build # "npu" /\ v.value = 1
             hint == IF one THEN 1 ELSE 0
  <2>1. HandleNumber(v, kind) = Adds(Typed(NarrowType(v), hint, FALSE), IF one THEN <<>> ELSE <<v>>)
    BY <1>3 DEF HandleNumber, HandleNoAlignment
  <2>2. /\ hint \in {0, 1} /\ (hint = 1 <=> one) /\ (hint = 1 => v.value = 1)
        /\ (build = "npu" => hint = 0)
    OBVIOUS
  <2> HIDE DEF hint, one
  <2>3. HandleNumber(v, kind) = Adds(Typed(NarrowType(v), hint, FALSE),
                                     IF hint = 1 /\ (pooled \/ kind # "SPECIALIZED") THEN <<>> ELSE <<v>>)
    BY <1>3, <2>1, <2>2
  <2>4. hint \in {0, 1, 16} /\ (hint = 16 => v.value % 16 = 0)
    BY <2>2
  <2>5. NumberWith(v, kind, HandleNumber(v, kind), hint)
    BY ONLY <2>2, <2>3, <2>4 DEF NumberWith
  <2>6. QED
    BY <1>3, <2>4, <2>5 DEF RuntimeNumber
<1>4. CASE kind = "NON_CONSTEXPR"
  <2>1. HandleNumber(v, kind) = Adds(Typed(NarrowType(v), 0, FALSE), <<v>>)
    BY <1>4 DEF HandleNumber, HandleNonConstexpr
  <2> DEFINE hint == 0
  <2>2. HandleNumber(v, kind) = Adds(Typed(NarrowType(v), hint, FALSE),
                                     IF hint = 1 /\ (pooled \/ kind # "SPECIALIZED") THEN <<>> ELSE <<v>>)
    BY <2>1
  <2>3. /\ hint \in {0, 1, 16} /\ (hint = 16 => v.value % 16 = 0) /\ (hint = 1 => v.value = 1)
        /\ (build = "npu" => hint = 0)
    OBVIOUS
  <2> HIDE DEF hint
  <2>4. NumberWith(v, kind, HandleNumber(v, kind), hint)
    BY ONLY <2>2, <2>3 DEF NumberWith
  <2>5. QED
    BY <1>4, <2>3, <2>4 DEF RuntimeNumber
<1>5. QED
  BY <1>1, <1>2, <1>3, <1>4 DEF Kinds

\* A pointer: an alignment of 16 and a 32-bit range are true of it.
RuntimePointer(dtype, address, extent, r) ==
  \E hint \in {0, 16}, range \in BOOLEAN :
    /\ r = Adds(Typed(Pointer(dtype), hint, range), <<[type |-> Pointer(dtype), value |-> address]>>)
    /\ hint = 16 => address % 16 = 0
    /\ range => extent # None /\ extent <= Largest(4)
    /\ build = "npu" => hint = 0

LEMMA PointerTells ==
  ASSUME NEW dtype, NEW address \in Nat, NEW extent \in Nat \cup {None}, NEW kind \in Kinds
  PROVE  IF kind = "CONSTEXPR" THEN HandlePointer(dtype, address, extent, kind) = Refused
         ELSE RuntimePointer(dtype, address, extent, HandlePointer(dtype, address, extent, kind))
<1> DEFINE hint == IF kind = "SPECIALIZED" /\ build # "npu" THEN PtrSpec(address) ELSE 0
           range == kind \in {"SPECIALIZED", "SPECIALIZED_NO_ALIGNMENT"} /\ PtrRangeSpec(extent)
<1>1. kind # "CONSTEXPR" =>
        HandlePointer(dtype, address, extent, kind) =
          Adds(Typed(Pointer(dtype), hint, range), <<[type |-> Pointer(dtype), value |-> address]>>)
  BY DEF HandlePointer
<1>2. /\ hint \in {0, 16} /\ (hint = 16 => address % 16 = 0) /\ (build = "npu" => hint = 0)
  BY DEF PtrSpec
<1>3. range \in BOOLEAN /\ (range => extent # None /\ extent <= Largest(4))
  BY DEF PtrRangeSpec
<1>4. kind = "CONSTEXPR" => HandlePointer(dtype, address, extent, kind) = Refused
  BY DEF HandlePointer
<1> HIDE DEF hint, range
<1>5. QED
  BY <1>1, <1>2, <1>3, <1>4 DEF RuntimePointer

-----------------------------------------------------------------------------
(* What HandleArg makes of an argument: one of eight answers.                *)

LEMMA UnwrappedPlain ==
  ASSUME NEW given \in Argument
  PROVE  Unwrapped(given) \in Plain
<1>1. CASE given \in Plain
  <2>1. given.form # "optional"
    BY <1>1 DEF Plain
  <2>2. QED
    BY <1>1, <2>1 DEF Unwrapped
<1>2. CASE given \in [form : {"optional"}, value : Plain \cup {None}]
  <2>1. given.form = "optional" /\ given.value \in Plain \cup {None}
    BY <1>2
  <2>2. CASE given.value = None
    <3>1. Unwrapped(given) = [form |-> "nullopt"]
      BY <2>1, <2>2 DEF Unwrapped
    <3>2. QED
      BY <3>1 DEF Plain
  <2>3. CASE given.value # None
    <3>1. Unwrapped(given) = given.value
      BY <2>1, <2>3 DEF Unwrapped
    <3>2. QED
      BY <3>1, <2>1, <2>3
  <2>4. QED
    BY <2>2, <2>3
<1>3. QED
  BY <1>1, <1>2 DEF Argument

MadeNullopt(a, i, r) == a.form = "nullopt" /\ r = Adds(NulloptToken, <<>>)
MadeText(a, i, r) == a.form = "text" /\ a.text \in Words /\ r = Adds(Printed("text", a.text), <<>>)
MadeJit(a, i, r) == a.form = "jit" /\ a.callee \in Words /\ r = Adds(Printed("jit", a.callee), <<>>)
\* The number that is handled: a double in a scalar becomes a float on GCU.
Taken(a, v) ==
  /\ a.form \in {"number", "scalar"}
  /\ a.form = "scalar" => a.number.type.name \in {"i1", "i64", "u64", "fp64"}
  /\ v.value = a.number.value
  /\ \/ v.type = a.number.type
     \/ build = "gcu" /\ a.form = "scalar" /\ v.type = Value("fp32")
  /\ build = "gcu" /\ v.type = Value("fp64") => a.form = "number" /\ a.number.type = Value("fp64")
MadeConstexpr(a, i, r) ==
  /\ kinds[i] = "CONSTEXPR"
  /\ \E v \in Number(Scalars), class \in {"number", "bool"} :
       Taken(a, v) /\ r = Adds(Printed(class, v.value), <<>>)
MadeNumber(a, i, r) ==
  /\ kinds[i] # "CONSTEXPR"
  /\ \E v \in Number(Scalars) : Taken(a, v) /\ RuntimeNumber(v, kinds[i], r)
MadePointer(a, i, r) ==
  /\ kinds[i] # "CONSTEXPR" /\ a.form \in {"tensor", "device_ptr"}
  /\ a.address \in Nat /\ a.dtype \in DTypes
  /\ \E extent \in Nat \cup {None} :
       /\ extent # None => extent = a.extent /\ (a.form = "device_ptr" => extent # 0)
       /\ RuntimePointer(a.dtype, a.address, extent, r)
MadeTuple(a, i, r) ==
  /\ kinds[i] # "CONSTEXPR" /\ a.form = "tuple"
  /\ a.elements \in Seq(Number(Scalars)) /\ a.elements # <<>>
  /\ r = Adds(Grouped([n \in DOMAIN a.elements |-> a.elements[n].type]), a.elements)
Made(a, i, r) ==
  \/ MadeNullopt(a, i, r) \/ MadeText(a, i, r)
  \/ /\ i \in DOMAIN kinds
     /\ \/ MadeJit(a, i, r) \/ MadeConstexpr(a, i, r) \/ MadeNumber(a, i, r)
        \/ MadePointer(a, i, r) \/ MadeTuple(a, i, r)

LEMMA ScalarTaken ==
  ASSUME NEW a \in [form : {"scalar"}, number : Number({"i1", "i64", "u64", "fp64", "complex"})],
         a.number.type.name # "complex"
  PROVE  \E v \in Number(Scalars) :
           Taken(a, v) /\ \A kind : HandleScalar(a, kind) = HandleNumber(v, kind)
<1> DEFINE x == a.number
           narrow == x.type.name = "fp64" /\ build = "gcu"
           v == IF narrow THEN [x EXCEPT !.type = Value("fp32")] ELSE x
<1>1. a.form = "scalar" /\ x \in Number({"i1", "i64", "u64", "fp64", "complex"})
  OBVIOUS
<1>2. /\ x.type = Value(x.type.name) /\ x.type.name \in {"i1", "i64", "u64", "fp64"}
      /\ x.value \in Int /\ InRange(x) /\ x = [type |-> x.type, value |-> x.value]
  <2>1. x.type.name \in {"i1", "i64", "u64", "fp64", "complex"}
    BY <1>1, NumberParts
  <2>2. QED
    BY <1>1, <2>1, NumberParts
<1> HIDE DEF x
<1>3. CASE narrow
  <2>1. v = [type |-> Value("fp32"), value |-> x.value]
    BY <1>2, <1>3
  <2>2. v.type = Value("fp32") /\ v.value = x.value /\ v \in [type : {Value(n) : n \in Scalars}, value : Int]
    BY <1>2, <2>1 DEF Scalars
  <2> HIDE DEF v
  <2>3. InRange(v)
    BY <2>2 DEF InRange, Signed, Value
  <2>4. v \in Number(Scalars)
    BY <2>2, <2>3 DEF Number
  <2>5. Value("fp32") # Value("fp64")
    BY DEF Value
  <2>6. Taken(a, v)
    BY <1>1, <1>2, <1>3, <2>2, <2>5 DEF Taken, x
  <2>7. \A kind : HandleScalar(a, kind) = HandleNumber(v, kind)
    BY <1>2, <1>3 DEF HandleScalar, x, v
  <2>8. QED
    BY <2>4, <2>6, <2>7
<1>4. CASE ~narrow
  <2>1. v = x
    BY <1>4
  <2>2. x \in Number(Scalars)
    <3>1. x.type \in {Value(n) : n \in Scalars}
      BY <1>2 DEF Scalars
    <3>2. QED
      BY <3>1, <1>2 DEF Number
  <2>3. build = "gcu" => x.type # Value("fp64")
    BY <1>4, <1>2 DEF Value
  <2>4. Taken(a, x)
    BY <1>1, <1>2, <2>3 DEF Taken, x
  <2>5. \A kind : HandleScalar(a, kind) = HandleNumber(x, kind)
    BY <1>2, <1>4 DEF HandleScalar, x
  <2>6. QED
    BY <2>2, <2>4, <2>5
<1>5. QED
  BY <1>3, <1>4

\* An argument is refused because it does not suit its parameter, or it is made a token.
LEMMA HandleArgTells ==
  ASSUME kernel \in Kernels, NEW given \in Argument, NEW i \in Nat \ {0}
  PROVE  \/ HandleArg(given, i) = Refused /\ Unsuitable(given, i)
         \/ Made(Unwrapped(given), i, HandleArg(given, i))
<1> DEFINE a == Unwrapped(given)
           r == HandleArg(given, i)
<1>1. a \in Plain
  BY UnwrappedPlain
<1>2. \A j \in DOMAIN kinds : kinds[j] \in Kinds
  BY KernelsAssumption DEF kinds
<1>3. /\ a.form = "nullopt" => r = Adds(NulloptToken, <<>>)
      /\ a.form = "text" => r = Adds(Printed("text", a.text), <<>>)
      /\ a.form \notin {"nullopt", "text"} /\ i \notin DOMAIN kinds => r = Refused
      /\ i \in DOMAIN kinds =>
           /\ a.form = "jit" => r = Adds(Printed("jit", a.callee), <<>>)
           /\ a.form = "tensor" => r = HandleTensor(a, kinds[i])
           /\ a.form = "device_ptr" => r = HandleDevicePtr(a, kinds[i])
           /\ a.form = "tuple" => r = HandleTuple(a, kinds[i])
           /\ a.form = "scalar" => r = HandleScalar(a, kinds[i])
           /\ a.form = "number" => r = HandleNumber(a.number, kinds[i])
  BY DEF HandleArg
<1>4. /\ i \notin DOMAIN kinds => Unsuitable(given, i)
      /\ i \in DOMAIN kinds /\ kinds[i] = "CONSTEXPR" /\ a.form \in {"tensor", "device_ptr", "tuple"} => Unsuitable(given, i)
      /\ a.form = "scalar" /\ a.number.type.name \notin {"i1", "i64", "u64", "fp64"} => Unsuitable(given, i)
  BY DEF Unsuitable
<1> HIDE DEF a, r
<1>5. CASE a \in [form : {"nullopt"}]
  BY <1>3, <1>5 DEF a, r, Made, MadeNullopt
<1>6. CASE a \in [form : {"text"}, text : Words]
  BY <1>3, <1>6 DEF a, r, Made, MadeText
<1>7. CASE a.form \notin {"nullopt", "text"} /\ i \notin DOMAIN kinds
  BY <1>3, <1>4, <1>7 DEF a, r
<1>8. CASE i \in DOMAIN kinds /\ a \in [form : {"jit"}, callee : Words]
  BY <1>3, <1>8 DEF a, r, Made, MadeJit
<1>9. CASE /\ i \in DOMAIN kinds
           /\ a \in [form : {"tensor", "device_ptr"}, dtype : DTypes, address : Nat, extent : Nat \cup {None}]
  <2>1. /\ a.form \in {"tensor", "device_ptr"} /\ a.dtype \in DTypes /\ a.address \in Nat
        /\ a.extent \in Nat \cup {None} /\ kinds[i] \in Kinds
    BY <1>2, <1>9
  <2> DEFINE extent == IF a.form = "device_ptr" /\ a.extent = 0 THEN None ELSE a.extent
  <2>2. r = HandlePointer(a.dtype, a.address, extent, kinds[i])
    BY <1>3, <1>9, <2>1 DEF HandleTensor, HandleDevicePtr
  <2>3. extent \in Nat \cup {None} /\ (extent # None => extent = a.extent /\ (a.form = "device_ptr" => extent # 0))
    BY <2>1
  <2> HIDE DEF extent
  <2>4. CASE kinds[i] = "CONSTEXPR"
    BY <1>4, <1>9, <2>1, <2>2, <2>3, <2>4, PointerTells DEF a, r
  <2>5. CASE kinds[i] # "CONSTEXPR"
    <3>1. RuntimePointer(a.dtype, a.address, extent, r)
      BY <2>1, <2>2, <2>3, <2>5, PointerTells
    <3>2. MadePointer(a, i, r)
      BY <2>1, <2>3, <2>5, <3>1 DEF MadePointer
    <3>3. QED
      BY <1>9, <3>2 DEF a, r, Made
  <2>6. QED
    BY <2>4, <2>5
<1>10. CASE i \in DOMAIN kinds /\ a \in [form : {"tuple"}, elements : Seq(Number(Elements)) \ {<<>>}]
  <2>1. a.form = "tuple" /\ a.elements \in Seq(Number(Scalars)) /\ a.elements # <<>> /\ r = HandleTuple(a, kinds[i])
    <3>1. a.form = "tuple" /\ a.elements \in Seq(Number(Elements)) /\ a.elements # <<>>
      BY <1>10
    <3>2. r = HandleTuple(a, kinds[i])
      BY <1>3, <1>10, <3>1
    <3>3. Number(Elements) \subseteq Number(Scalars)
      BY DEF Number, Elements
    <3>4. QED
      BY <3>1, <3>2, <3>3
  <2>2. CASE kinds[i] = "CONSTEXPR"
    BY <1>4, <1>10, <2>1, <2>2 DEF HandleTuple, a, r
  <2>3. CASE kinds[i] # "CONSTEXPR"
    <3>1. MadeTuple(a, i, r)
      BY <2>1, <2>3 DEF HandleTuple, MadeTuple
    <3>2. QED
      BY <1>10, <3>1 DEF a, r, Made
  <2>4. QED
    BY <2>2, <2>3
<1>11. ASSUME i \in DOMAIN kinds,
              NEW v \in Number(Scalars), Taken(a, v), r = HandleNumber(v, kinds[i])
       PROVE  Made(a, i, r)
  <2>1. CASE kinds[i] = "CONSTEXPR"
    <3>1. \E class \in {"number", "bool"} : r = Adds(Printed(class, v.value), <<>>)
      BY <1>2, <1>11, <2>1, NumberTells
    <3>2. MadeConstexpr(a, i, r)
      BY <2>1, <3>1, <1>11 DEF MadeConstexpr
    <3>3. QED
      BY <3>2, <1>11 DEF Made
  <2>2. CASE kinds[i] # "CONSTEXPR"
    <3>1. RuntimeNumber(v, kinds[i], r)
      BY <1>2, <1>11, <2>2, NumberTells
    <3>2. MadeNumber(a, i, r)
      BY <2>2, <3>1, <1>11 DEF MadeNumber
    <3>3. QED
      BY <3>2, <1>11 DEF Made
  <2>3. QED
    BY <2>1, <2>2
<1>12. CASE /\ i \in DOMAIN kinds
            /\ a \in [form : {"scalar"}, number : Number({"i1", "i64", "u64", "fp64", "complex"})]
  <2>1. a.form = "scalar" /\ r = HandleScalar(a, kinds[i])
    BY <1>3, <1>12
  <2>2. CASE a.number.type.name = "complex"
    BY <1>4, <2>1, <2>2 DEF HandleScalar, a, r
  <2>3. CASE a.number.type.name # "complex"
    <3>1. PICK v \in Number(Scalars) : Taken(a, v) /\ \A kind : HandleScalar(a, kind) = HandleNumber(v, kind)
      BY <1>12, <2>3, ScalarTaken
    <3>2. Made(a, i, r)
      BY <2>1, <3>1, <1>11, <1>12
    <3>3. QED
      BY <3>2 DEF a, r
  <2>4. QED
    BY <2>2, <2>3
<1>13. CASE i \in DOMAIN kinds /\ a \in [form : {"number"}, number : Number(Scalars)]
  <2>1. a.form = "number" /\ a.number \in Number(Scalars) /\ r = HandleNumber(a.number, kinds[i])
    BY <1>3, <1>13
  <2>2. Taken(a, a.number)
    BY <2>1 DEF Taken
  <2>3. Made(a, i, r)
    BY <2>1, <2>2, <1>11, <1>13
  <2>4. QED
    BY <2>3 DEF a, r
<1>14. QED
  BY <1>1, <1>5, <1>6, <1>7, <1>8, <1>9, <1>10, <1>12, <1>13 DEF Plain

-----------------------------------------------------------------------------
(* What follows from a token.                                                *)

Folded(token, i) == kinds[i] = "CONSTEXPR" \/ token.is \in {"jit", "nullopt"} \/ token.hint = 1

LEMMA NarrowTypes ==
  ASSUME NEW v \in Number(Scalars)
  PROVE  v.type \in Types /\ NarrowType(v) \in Types /\ v \in Passable
<1>1. /\ v.type.pointer = FALSE /\ v.type.name \in Scalars /\ v.type = Value(v.type.name) /\ v.value \in Int
      /\ v = [type |-> v.type, value |-> v.value]
  BY NumberParts
<1>2. \A n \in Scalars : Value(n) \in Types
  BY DEF Types
<1>3. v.type \in Types
  BY <1>1, <1>2
<1>4. NarrowType(v) \in Types
  <2>1. NarrowType(v) \in {v.type, Value("i32"), Value("i64")}
    BY DEF NarrowType
  <2>2. Value("i32") \in Types /\ Value("i64") \in Types
    BY <1>2 DEF Scalars
  <2>3. QED
    BY <1>3, <2>1, <2>2
<1>5. v \in Passable
  BY <1>1, <1>3 DEF Passable
<1>6. QED
  BY <1>3, <1>4, <1>5

LEMMA TypedIsToken ==
  ASSUME NEW t \in Types, NEW hint \in {0, 1, 16}, NEW range \in BOOLEAN
  PROVE  /\ Typed(t, hint, range) \in Token
         /\ Typed(t, hint, range).is = "type" /\ Typed(t, hint, range).types = <<t>>
         /\ Typed(t, hint, range).hint = hint /\ Typed(t, hint, range).range = range
<1>1. <<t>> \in Seq(Types)
  OBVIOUS
<1>2. QED
  BY <1>1 DEF Typed, Token, Types

LEMMA GroupedIsToken ==
  ASSUME NEW vs \in Seq(Number(Scalars))
  PROVE  LET token == Grouped([n \in DOMAIN vs |-> vs[n].type])
         IN  /\ token \in Token
             /\ token.is = "tuple" /\ token.types = [n \in DOMAIN vs |-> vs[n].type]
             /\ token.hint = 0 /\ token.range = FALSE
             /\ Len(token.types) = Len(vs) /\ token.types \in Seq(Types)
             /\ vs \in Seq(Passable)
<1> DEFINE ts == [n \in DOMAIN vs |-> vs[n].type]
<1>1. DOMAIN vs = 1 .. Len(vs) /\ Len(vs) \in Nat
  OBVIOUS
<1>2. \A n \in DOMAIN vs : vs[n] \in Number(Scalars)
  OBVIOUS
<1>3. \A n \in DOMAIN vs : vs[n].type \in Types /\ vs[n] \in Passable
  BY <1>2, NarrowTypes
<1>4. ts \in [1 .. Len(vs) -> Types]
  BY <1>1, <1>3
<1>5. ts \in Seq(Types) /\ Len(ts) = Len(vs)
  BY <1>1, <1>4
<1>6. vs \in Seq(Passable)
  <2>1. vs = [n \in 1 .. Len(vs) |-> vs[n]]
    BY <1>1
  <2>2. vs \in [1 .. Len(vs) -> Passable]
    BY <1>1, <1>3, <2>1
  <2>3. QED
    BY <1>1, <2>2
<1> HIDE DEF ts
<1>7. Grouped(ts) \in Token
  BY <1>5 DEF Grouped, Token, Types
<1>8. Grouped(ts).is = "tuple" /\ Grouped(ts).types = ts /\ Grouped(ts).hint = 0 /\ Grouped(ts).range = FALSE
  BY DEF Grouped
<1>9. QED
  BY <1>5, <1>6, <1>7, <1>8 DEF ts

\* The token and what is pushed, for each of the answers.
LEMMA MadeTypes ==
  ASSUME NEW a, NEW i, NEW r, Made(a, i, r)
  PROVE  r.token \in Token /\ r.pushed \in Seq(Passable)
<1>1. <<>> \in Seq(Passable)
  OBVIOUS
<1>2. CASE MadeNullopt(a, i, r)
  BY <1>1, <1>2 DEF MadeNullopt, NulloptToken, Adds, Printed, Token
<1>3. CASE MadeText(a, i, r)
  BY <1>1, <1>3 DEF MadeText, Adds, Printed, Token
<1>4. CASE MadeJit(a, i, r)
  BY <1>1, <1>4 DEF MadeJit, Adds, Printed, Token
<1>5. CASE MadeConstexpr(a, i, r)
  <2>1. PICK v \in Number(Scalars), class \in {"number", "bool"} : r = Adds(Printed(class, v.value), <<>>)
    BY <1>5 DEF MadeConstexpr
  <2>2. v.value \in Int
    BY NumberParts
  <2>3. QED
    BY <1>1, <2>1, <2>2 DEF Adds, Printed, Token
<1>6. CASE MadeNumber(a, i, r)
  <2>1. PICK v \in Number(Scalars), hint \in {0, 1, 16} : NumberWith(v, kinds[i], r, hint)
    BY <1>6 DEF MadeNumber, RuntimeNumber
  <2>2. NarrowType(v) \in Types /\ v \in Passable
    BY NarrowTypes
  <2>3. r.token = Typed(NarrowType(v), hint, FALSE) /\ r.pushed \in {<<>>, <<v>>}
    BY <2>1 DEF NumberWith, Adds
  <2>4. r.token \in Token
    BY <2>2, <2>3, TypedIsToken
  <2>5. <<v>> \in Seq(Passable)
    BY <2>2
  <2>6. QED
    BY <1>1, <2>3, <2>4, <2>5
<1>7. CASE MadePointer(a, i, r)
  <2>1. PICK extent : RuntimePointer(a.dtype, a.address, extent, r)
    BY <1>7 DEF MadePointer
  <2>2. PICK hint \in {0, 16}, range \in BOOLEAN :
          r = Adds(Typed(Pointer(a.dtype), hint, range), <<[type |-> Pointer(a.dtype), value |-> a.address]>>)
    BY <2>1 DEF RuntimePointer
  <2>3. Pointer(a.dtype) \in Types /\ a.address \in Nat
    BY <1>7 DEF MadePointer, Pointer, Types
  <2>4. [type |-> Pointer(a.dtype), value |-> a.address] \in Passable
    BY <2>3 DEF Passable
  <2>5. r.token \in Token
    BY <2>2, <2>3, TypedIsToken DEF Adds
  <2>6. QED
    BY <2>2, <2>4, <2>5 DEF Adds
<1>8. CASE MadeTuple(a, i, r)
  <2>1. a.elements \in Seq(Number(Scalars)) /\ r.pushed = a.elements
        /\ r.token = Grouped([n \in DOMAIN a.elements |-> a.elements[n].type])
    BY <1>8 DEF MadeTuple, Adds
  <2>2. QED
    BY <2>1, GroupedIsToken
<1>9. QED
  BY <1>2, <1>3, <1>4, <1>5, <1>6, <1>7, <1>8 DEF Made

\* A hint of 16 and a range are true of the argument.
LEMMA HintsAreTrue ==
  ASSUME NEW i, NEW r, Made(Unwrapped(args[i]), i, r)
  PROVE  /\ r.token.hint = 16 => Passed(i, 1) % 16 = 0
         /\ r.token.range =>
              LET arg == Unwrapped(args[i])
              IN  /\ arg.extent # None /\ arg.extent <= Largest(4)
                  /\ arg.form = "device_ptr" => arg.extent # 0
<1> DEFINE a == Unwrapped(args[i])
<1> USE DEF Adds
<1>1. CASE MadeNullopt(a, i, r)
  BY <1>1 DEF MadeNullopt, NulloptToken, Printed
<1>2. CASE MadeText(a, i, r)
  BY <1>2 DEF MadeText, Printed
<1>3. CASE MadeJit(a, i, r)
  BY <1>3 DEF MadeJit, Printed
<1>4. CASE MadeConstexpr(a, i, r)
  <2>1. PICK v \in Number(Scalars), class \in {"number", "bool"} : r = Adds(Printed(class, v.value), <<>>)
    BY <1>4 DEF MadeConstexpr
  <2>2. v.value \in Int
    BY NumberParts
  <2>3. QED
    BY <2>1, <2>2 DEF Printed
<1>5. CASE MadeNumber(a, i, r)
  <2>1. PICK v \in Number(Scalars) : Taken(a, v) /\ RuntimeNumber(v, kinds[i], r)
    BY <1>5 DEF MadeNumber
  <2>2. PICK hint \in {0, 1, 16} : NumberWith(v, kinds[i], r, hint)
    BY <2>1 DEF RuntimeNumber
  <2>3. r.token = Typed(NarrowType(v), hint, FALSE) /\ (hint = 16 => v.value % 16 = 0)
    BY <2>2 DEF NumberWith
  <2>4. r.token.hint = hint /\ r.token.range = FALSE
    BY <2>3 DEF Typed
  <2>5. v.value = a.number.value /\ a.form \in {"number", "scalar"}
    BY <2>1 DEF Taken
  <2>6. Passed(i, 1) = v.value
    BY <2>5 DEF Passed
  <2>7. QED
    BY <2>3, <2>4, <2>6
<1>6. CASE MadePointer(a, i, r)
  <2>1. /\ a.address \in Nat /\ a.dtype \in DTypes /\ a.form \in {"tensor", "device_ptr"}
    BY <1>6 DEF MadePointer
  <2>2. PICK extent \in Nat \cup {None} :
          /\ extent # None => extent = a.extent /\ (a.form = "device_ptr" => extent # 0)
          /\ RuntimePointer(a.dtype, a.address, extent, r)
    BY <1>6 DEF MadePointer
  <2>3. PICK hint \in {0, 16}, range \in BOOLEAN :
          /\ r = Adds(Typed(Pointer(a.dtype), hint, range), <<[type |-> Pointer(a.dtype), value |-> a.address]>>)
          /\ hint = 16 => a.address % 16 = 0
          /\ range => extent # None /\ extent <= Largest(4)
    BY <2>2 DEF RuntimePointer
  <2>4. Pointer(a.dtype) \in Types
    BY <2>1 DEF Pointer, Types
  <2>5. r.token.hint = hint /\ r.token.range = range
    BY <2>3, <2>4, TypedIsToken
  <2>6. Passed(i, 1) = a.address
    BY <2>1 DEF Passed
  <2>7. QED
    BY <2>2, <2>3, <2>5, <2>6
<1>7. CASE MadeTuple(a, i, r)
  BY <1>7 DEF MadeTuple, Grouped
<1>8. QED
  BY <1>1, <1>2, <1>3, <1>4, <1>5, <1>6, <1>7 DEF Made

\* A token stands for an argument that suits its parameter unless the compiler
\* refuses it.
LEMMA TakenSuits ==
  ASSUME NEW given, NEW i, NEW r, Made(Unwrapped(given), i, r)
  PROVE  Unsuitable(given, i) <=>
           \/ i \notin DOMAIN kinds
           \/ ~Folded(r.token, i) /\ ~HasTypes(r.token)
           \/ ~Folded(r.token, i) /\ build = "gcu" /\ r.token.is = "tuple" /\ Value("fp64") \in ToSet(r.token.types)
<1> DEFINE a == Unwrapped(given)
<1>1. Unsuitable(given, i) <=>
        \/ i \notin DOMAIN kinds
        \/ i \in DOMAIN kinds /\ kinds[i] = "CONSTEXPR" /\ a.form \in {"tensor", "device_ptr", "tuple"}
        \/ i \in DOMAIN kinds /\ kinds[i] # "CONSTEXPR" /\ a.form = "text"
        \/ a.form = "scalar" /\ a.number.type.name \notin {"i1", "i64", "u64", "fp64"}
        \/ build = "gcu" /\ a.form = "tuple" /\ \E n \in DOMAIN a.elements : a.elements[n].type = Value("fp64")
  BY DEF Unsuitable
<1>2. Made(a, i, r)
  OBVIOUS
<1> HIDE DEF a
<1> USE DEF Adds, HasTypes, Folded
<1>3. CASE MadeNullopt(a, i, r)
  BY <1>1, <1>3 DEF MadeNullopt, NulloptToken, Printed
<1>4. CASE MadeText(a, i, r)
  BY <1>1, <1>4 DEF MadeText, Printed
<1>5. CASE i \in DOMAIN kinds /\ MadeJit(a, i, r)
  BY <1>1, <1>5 DEF MadeJit, Printed
<1>6. CASE i \in DOMAIN kinds /\ MadeConstexpr(a, i, r)
  <2>1. /\ kinds[i] = "CONSTEXPR" /\ a.form \in {"number", "scalar"} /\ r.token.is \in {"number", "bool"}
        /\ a.form = "scalar" => a.number.type.name \in {"i1", "i64", "u64", "fp64"}
    BY <1>6 DEF MadeConstexpr, Taken, Printed
  <2>2. QED
    BY <1>1, <1>6, <2>1
<1>7. CASE i \in DOMAIN kinds /\ MadeNumber(a, i, r)
  <2>1. /\ kinds[i] # "CONSTEXPR" /\ a.form \in {"number", "scalar"} /\ r.token.is = "type"
        /\ a.form = "scalar" => a.number.type.name \in {"i1", "i64", "u64", "fp64"}
    BY <1>7 DEF MadeNumber, Taken, RuntimeNumber, NumberWith, Typed
  <2>2. QED
    BY <1>1, <1>7, <2>1
<1>8. CASE i \in DOMAIN kinds /\ MadePointer(a, i, r)
  <2>1. kinds[i] # "CONSTEXPR" /\ a.form \in {"tensor", "device_ptr"} /\ r.token.is = "type"
    BY <1>8 DEF MadePointer, RuntimePointer, Typed
  <2>2. QED
    BY <1>1, <1>8, <2>1
<1>9. CASE i \in DOMAIN kinds /\ MadeTuple(a, i, r)
  <2>1. /\ kinds[i] # "CONSTEXPR" /\ a.form = "tuple" /\ r.token.is = "tuple"
        /\ r.token.types = [n \in DOMAIN a.elements |-> a.elements[n].type] /\ r.token.hint = 0
    BY <1>9 DEF MadeTuple, Grouped
  <2>2. ToSet(r.token.types) = {a.elements[n].type : n \in DOMAIN a.elements}
    BY <2>1 DEF ToSet
  <2>3. QED
    BY <1>1, <1>9, <2>1, <2>2
<1>10. QED
  BY <1>2, <1>3, <1>4, <1>5, <1>6, <1>7, <1>8, <1>9 DEF Made

\* A range is one of a pointer, and no argument breaks the signature or passes for text.
LEMMA TokensAreWhole ==
  ASSUME NEW a, NEW i, NEW r, Made(a, i, r)
  PROVE  /\ r.token.is # "broken"
         /\ r.token.is = "text" <=> a.form = "text"
         /\ a.form = "text" => r.token = Printed("text", a.text) /\ a.text \in Words
         /\ r.token.range => r.token.is = "type" /\ r.token.types[1].pointer
<1> USE DEF Adds
<1>1. CASE MadeNullopt(a, i, r)
  BY <1>1 DEF MadeNullopt, NulloptToken, Printed
<1>2. CASE MadeText(a, i, r)
  BY <1>2 DEF MadeText, Printed
<1>3. CASE MadeJit(a, i, r)
  BY <1>3 DEF MadeJit, Printed
<1>4. CASE MadeConstexpr(a, i, r)
  <2>1. /\ a.form \in {"number", "scalar"} /\ r.token.is \in {"number", "bool"} /\ ~r.token.range
    BY <1>4 DEF MadeConstexpr, Taken, Printed
  <2>2. QED
    BY <2>1
<1>5. CASE MadeNumber(a, i, r)
  <2>1. /\ a.form \in {"number", "scalar"} /\ r.token.is = "type" /\ ~r.token.range
    BY <1>5 DEF MadeNumber, Taken, RuntimeNumber, NumberWith, Typed
  <2>2. QED
    BY <2>1
<1>6. CASE MadePointer(a, i, r)
  <2>1. a.form \in {"tensor", "device_ptr"} /\ r.token.is = "type" /\ r.token.types[1].pointer
    BY <1>6 DEF MadePointer, RuntimePointer, Typed, Pointer
  <2>2. QED
    BY <2>1
<1>7. CASE MadeTuple(a, i, r)
  <2>1. a.form = "tuple" /\ r.token.is = "tuple" /\ ~r.token.range
    BY <1>7 DEF MadeTuple, Grouped
  <2>2. QED
    BY <2>1
<1>8. QED
  BY <1>1, <1>2, <1>3, <1>4, <1>5, <1>6, <1>7 DEF Made

\* On an NPU, what is pushed and what the layout says are of one length.
LEMMA LayoutLength ==
  ASSUME NEW a, NEW i, NEW r, Made(a, i, r), build = "npu", a.form # "text"
  PROVE  Len(r.pushed) = Len(LayoutOf(r.token))
<1> USE DEF Adds, LayoutOf
<1>1. CASE MadeNullopt(a, i, r)
  BY <1>1 DEF MadeNullopt, NulloptToken, Printed
<1>2. CASE MadeText(a, i, r)
  BY <1>2 DEF MadeText
<1>3. CASE MadeJit(a, i, r)
  BY <1>3 DEF MadeJit, Printed
<1>4. CASE MadeConstexpr(a, i, r)
  <2>1. r.token.is \in {"number", "bool"} /\ r.pushed = <<>>
    BY <1>4 DEF MadeConstexpr, Printed
  <2>2. QED
    BY <2>1
<1>5. CASE MadeNumber(a, i, r)
  <2>1. PICK v, t : r.pushed = <<v>> /\ r.token.is = "type" /\ r.token.types = <<t>>
    BY <1>5 DEF MadeNumber, RuntimeNumber, NumberWith, Typed
  <2>2. QED
    BY <2>1
<1>6. CASE MadePointer(a, i, r)
  <2>1. PICK v, t : r.pushed = <<v>> /\ r.token.is = "type" /\ r.token.types = <<t>>
    BY <1>6 DEF MadePointer, RuntimePointer, Typed
  <2>2. QED
    BY <2>1
<1>7. CASE MadeTuple(a, i, r)
  <2>1. /\ r.pushed = a.elements /\ r.pushed \in Seq(Number(Scalars)) /\ r.token.is = "tuple"
        /\ r.token.types = [n \in DOMAIN r.pushed |-> r.pushed[n].type]
    BY <1>7 DEF MadeTuple, Grouped
  <2>2. DOMAIN r.pushed = 1 .. Len(r.pushed) /\ Len(r.pushed) \in Nat
    BY <2>1
  <2>3. LayoutOf(r.token) = [n \in 1 .. Len(r.pushed) |-> LayoutType(r.token.types[n])]
    BY <2>1, <2>2
  <2> HIDE DEF LayoutOf
  <2>4. QED
    BY ONLY <2>2, <2>3
<1>8. QED
  BY <1>1, <1>2, <1>3, <1>4, <1>5, <1>6, <1>7 DEF Made

-----------------------------------------------------------------------------
(* Blocks of bytes.                                                          *)

Byte == [of : Passable \cup {None}, byte : Nat]

LEMMA Sizes ==
  ASSUME NEW t
  PROVE  SizeOf(t) \in {1, 4, 8}
BY DEF SizeOf

LEMMA Multiples ==
  ASSUME NEW pos \in Nat, NEW step \in {1, 4, 8}
  PROVE  NextMultiple(pos, step) \in Nat /\ pos <= NextMultiple(pos, step)
<1>1. CASE step = 1
  BY <1>1 DEF NextMultiple
<1>2. CASE step = 4
  BY <1>2 DEF NextMultiple
<1>3. CASE step = 8
  BY <1>3 DEF NextMultiple
<1>4. QED
  BY <1>1, <1>2, <1>3

\* What is written goes behind the others and leaves them alone.
Placed(bytes, new, offset, after) ==
  /\ offset \in Nat /\ Len(bytes) <= offset
  /\ after \in Seq(Byte) /\ Len(after) = offset + Len(new)
  /\ \A k \in 1 .. Len(bytes) : after[k] = bytes[k]
  /\ \A k \in 1 .. Len(new) : after[offset + k] = new[k]
LEMMA WrittenPlaced ==
  ASSUME NEW bytes \in Seq(Byte), NEW new \in Seq(Byte), NEW align \in {1, 4, 8}
  PROVE  Placed(bytes, new, NextMultiple(Len(bytes), align), Written(bytes, new, align))
<1> DEFINE offset == NextMultiple(Len(bytes), align)
           after  == Written(bytes, new, align)
           len == offset + Len(new)
<1>1. Len(bytes) \in Nat /\ Len(new) \in Nat /\ DOMAIN bytes = 1 .. Len(bytes)
  OBVIOUS
<1>2. offset \in Nat /\ Len(bytes) <= offset
  BY <1>1, Multiples
<1>3. after = [k \in 1 .. len |-> IF k > offset THEN new[k - offset] ELSE ByteAt(bytes, k)]
  BY DEF Written
<1> HIDE DEF offset, after
<1>4. len \in Nat
  BY <1>1, <1>2
<1>5. ASSUME NEW k \in 1 .. len
      PROVE  (IF k > offset THEN new[k - offset] ELSE ByteAt(bytes, k)) \in Byte
  <2>1. CASE k > offset
    <3>1. k - offset \in 1 .. Len(new)
      BY <1>1, <1>2, <1>4, <2>1
    <3>2. QED
      BY <2>1, <3>1
  <2>2. CASE ~(k > offset)
    <3>1. Pad \in Byte
      BY DEF Pad, Byte
    <3>2. ByteAt(bytes, k) \in Byte
      BY <1>1, <3>1 DEF ByteAt
    <3>3. QED
      BY <2>2, <3>2
  <2>3. QED
    BY <2>1, <2>2
<1>6. after \in [1 .. len -> Byte]
  BY <1>3, <1>5
<1>7. after \in Seq(Byte) /\ Len(after) = len
  BY <1>4, <1>6
<1>8. ASSUME NEW k \in 1 .. Len(bytes)
      PROVE  after[k] = bytes[k]
  <2>1. k \in 1 .. len /\ ~(k > offset)
    BY <1>1, <1>2
  <2>2. QED
    BY <1>1, <1>3, <2>1 DEF ByteAt
<1>9. ASSUME NEW k \in 1 .. Len(new)
      PROVE  after[offset + k] = new[k]
  <2>1. offset + k \in 1 .. len /\ offset + k > offset /\ (offset + k) - offset = k
    BY <1>1, <1>2
  <2>2. QED
    BY <1>3, <2>1
<1>10. Placed(bytes, new, offset, after)
  BY <1>2, <1>7, <1>8, <1>9 DEF Placed, len
<1>11. QED
  BY <1>10 DEF offset, after

LEMMA WrittenBehind ==
  ASSUME NEW bytes \in Seq(Byte), NEW new \in Seq(Byte), NEW align \in {1, 4, 8}
  PROVE  LET offset == NextMultiple(Len(bytes), align)
             after  == Written(bytes, new, align)
         IN  /\ offset \in Nat /\ Len(bytes) <= offset
             /\ after \in Seq(Byte) /\ Len(after) = offset + Len(new)
             /\ \A k \in 1 .. Len(bytes) : after[k] = bytes[k]
             /\ \A k \in 1 .. Len(new) : after[offset + k] = new[k]
BY WrittenPlaced DEF Placed

LEMMA BytesOfTypes ==
  ASSUME NEW v \in Passable
  PROVE  /\ BytesOf(v) \in Seq(Byte) /\ Len(BytesOf(v)) = SizeOf(v.type)
         /\ \A k \in 1 .. SizeOf(v.type) : BytesOf(v)[k] = [of |-> v, byte |-> k]
<1>1. SizeOf(v.type) \in Nat
  BY Sizes
<1>2. BytesOf(v) \in [1 .. SizeOf(v.type) -> Byte]
  BY <1>1 DEF BytesOf, Byte
<1>3. QED
  BY <1>1, <1>2 DEF BytesOf

-----------------------------------------------------------------------------
(* The buffer: one entry for each value that was pushed, its bytes in place. *)

HoldsAt(b, offset, v) ==
  /\ offset + SizeOf(v.type) <= Len(b.bytes)
  /\ \A k \in 1 .. SizeOf(v.type) : b.bytes[offset + k] = [of |-> v, byte |-> k]
Buffers == [bytes : Seq(Byte), offsets : Seq(Nat)]
Holds(b, vs) ==
  /\ b \in Buffers /\ Len(b.offsets) = Len(vs)
  /\ \A n \in 1 .. Len(vs) : HoldsAt(b, b.offsets[n], vs[n])

LEMMA EmptyHolds == Holds(Empty, <<>>)
<1>1. Empty.bytes = <<>> /\ Empty.offsets = <<>>
  BY DEF Empty
<1>2. <<>> \in Seq(Byte) /\ <<>> \in Seq(Nat) /\ Len(<<>>) = 0 /\ 1 .. 0 = {}
  OBVIOUS
<1>3. Empty \in Buffers
  BY <1>2 DEF Empty, Buffers
<1>4. QED
  BY <1>1, <1>2, <1>3 DEF Holds

LEMMA PushHolds ==
  ASSUME NEW b, NEW vs \in Seq(Passable), Holds(b, vs), NEW v \in Passable
  PROVE  Holds(PushArg(b, v), Append(vs, v))
<1> DEFINE offset == NextMultiple(Len(b.bytes), SizeOf(v.type))
           p == PushArg(b, v)
           ws == Append(vs, v)
<1>1. /\ b.bytes \in Seq(Byte) /\ b.offsets \in Seq(Nat) /\ Len(b.offsets) = Len(vs)
      /\ \A n \in 1 .. Len(vs) : HoldsAt(b, b.offsets[n], vs[n])
  BY DEF Holds, Buffers
<1>2. p.bytes = Written(b.bytes, BytesOf(v), SizeOf(v.type)) /\ p.offsets = Append(b.offsets, offset)
  BY DEF PushArg
<1>3. SizeOf(v.type) \in {1, 4, 8} /\ SizeOf(v.type) \in Nat
  BY Sizes
<1>4. /\ BytesOf(v) \in Seq(Byte) /\ Len(BytesOf(v)) = SizeOf(v.type)
      /\ \A k \in 1 .. SizeOf(v.type) : BytesOf(v)[k] = [of |-> v, byte |-> k]
  BY BytesOfTypes
<1>5. /\ offset \in Nat /\ Len(b.bytes) <= offset
      /\ p.bytes \in Seq(Byte) /\ Len(p.bytes) = offset + SizeOf(v.type)
      /\ \A k \in 1 .. Len(b.bytes) : p.bytes[k] = b.bytes[k]
      /\ \A k \in 1 .. SizeOf(v.type) : p.bytes[offset + k] = BytesOf(v)[k]
  <2> DEFINE new == BytesOf(v)
             align == SizeOf(v.type)
             after == Written(b.bytes, new, align)
  <2>1. b.bytes \in Seq(Byte) /\ new \in Seq(Byte) /\ align \in {1, 4, 8} /\ Len(new) = align
    BY <1>1, <1>3, <1>4
  <2>2. p.bytes = after /\ offset = NextMultiple(Len(b.bytes), align)
    BY <1>2
  <2> HIDE DEF new, align, p, offset
  <2>3. /\ NextMultiple(Len(b.bytes), align) \in Nat /\ Len(b.bytes) <= NextMultiple(Len(b.bytes), align)
        /\ after \in Seq(Byte) /\ Len(after) = NextMultiple(Len(b.bytes), align) + Len(new)
        /\ \A k \in 1 .. Len(b.bytes) : after[k] = b.bytes[k]
        /\ \A k \in 1 .. Len(new) : after[NextMultiple(Len(b.bytes), align) + k] = new[k]
    BY ONLY <2>1, WrittenBehind
  <2> HIDE DEF after
  <2>4. /\ offset \in Nat /\ Len(b.bytes) <= offset
        /\ p.bytes \in Seq(Byte) /\ Len(p.bytes) = offset + align
        /\ \A k \in 1 .. Len(b.bytes) : p.bytes[k] = b.bytes[k]
        /\ \A k \in 1 .. align : p.bytes[offset + k] = new[k]
    BY ONLY <2>1, <2>2, <2>3
  <2>5. QED
    BY <2>4 DEF new, align
<1> HIDE DEF offset, p
<1>6. /\ Len(vs) \in Nat /\ Len(b.bytes) \in Nat /\ Len(ws) = Len(vs) + 1 /\ ws[Len(vs) + 1] = v
      /\ \A n \in 1 .. Len(vs) : ws[n] = vs[n]
  BY <1>1
<1>7. /\ p.offsets \in Seq(Nat) /\ Len(p.offsets) = Len(ws) /\ p.offsets[Len(vs) + 1] = offset
      /\ \A n \in 1 .. Len(vs) : p.offsets[n] = b.offsets[n] /\ b.offsets[n] \in Nat
  BY <1>1, <1>2, <1>5, <1>6
<1> HIDE DEF ws
<1>8. HoldsAt(p, offset, v)
  BY <1>4, <1>5, <1>6 DEF HoldsAt
<1>9. ASSUME NEW n \in 1 .. Len(vs)
      PROVE  HoldsAt(p, b.offsets[n], vs[n])
  <2> DEFINE o == b.offsets[n]
             s == SizeOf(vs[n].type)
  <2>1. /\ o + s <= Len(b.bytes) /\ o \in Nat /\ s \in Nat
        /\ \A k \in 1 .. s : b.bytes[o + k] = [of |-> vs[n], byte |-> k]
    <3>1. HoldsAt(b, o, vs[n]) /\ o \in Nat
      BY <1>1, <1>7
    <3>2. s \in Nat
      BY Sizes
    <3>3. QED
      BY <3>1, <3>2 DEF HoldsAt
  <2> HIDE DEF o, s
  <2>2. o + s <= Len(p.bytes)
    BY <1>3, <1>5, <1>6, <2>1
  <2>3. ASSUME NEW k \in 1 .. s PROVE p.bytes[o + k] = [of |-> vs[n], byte |-> k]
    <3>1. o + k \in 1 .. Len(b.bytes)
      BY <1>6, <2>1
    <3>2. QED
      BY <3>1, <2>1, <1>5
  <2>4. QED
    BY <2>2, <2>3 DEF HoldsAt, o, s
<1>10. ASSUME NEW n \in 1 .. Len(ws)
       PROVE  HoldsAt(p, p.offsets[n], ws[n])
  <2>1. CASE n = Len(vs) + 1
    BY <2>1, <1>6, <1>7, <1>8
  <2>2. CASE n # Len(vs) + 1
    <3>1. n \in 1 .. Len(vs)
      BY <2>2, <1>6
    <3>2. QED
      BY <3>1, <1>6, <1>7, <1>9
  <2>3. QED
    BY <2>1, <2>2
<1>11. p \in Buffers
  BY <1>5, <1>7 DEF Buffers, PushArg, p
<1>12. QED
  BY <1>7, <1>10, <1>11 DEF Holds, p, ws

LEMMA PushArgTypes ==
  ASSUME NEW b \in Buffers, NEW v \in Passable
  PROVE  PushArg(b, v) \in Buffers
<1> DEFINE new == BytesOf(v)
           align == SizeOf(v.type)
<1>1. b.bytes \in Seq(Byte) /\ b.offsets \in Seq(Nat)
  BY DEF Buffers
<1>2. new \in Seq(Byte) /\ align \in {1, 4, 8}
  BY BytesOfTypes, Sizes
<1>3. PushArg(b, v) = [bytes   |-> Written(b.bytes, new, align),
                       offsets |-> Append(b.offsets, NextMultiple(Len(b.bytes), align))]
  BY DEF PushArg
<1> HIDE DEF new, align
<1>4. NextMultiple(Len(b.bytes), align) \in Nat /\ Written(b.bytes, new, align) \in Seq(Byte)
  BY ONLY <1>1, <1>2, WrittenBehind
<1>5. Append(b.offsets, NextMultiple(Len(b.bytes), align)) \in Seq(Nat)
  BY <1>1, <1>4
<1>6. QED
  BY <1>3, <1>4, <1>5 DEF Buffers

\* Pushing a sequence of values is pushing one after the other.
LEMMA PushTrace ==
  ASSUME NEW b \in Buffers, NEW seq \in Seq(Passable)
  PROVE  \E h \in [0 .. Len(seq) -> Buffers] :
           /\ h[0] = b
           /\ \A k \in 1 .. Len(seq) : h[k] = PushArg(h[k - 1], seq[k])
           /\ FoldLeft(PushArg, b, seq) = h[Len(seq)]
<1> DEFINE len == Len(seq)
           Op == [p \in Buffers \X (1 .. len) |-> PushArg(p[1], seq[p[2]])]
           Step(iter) ==
             [s \in SUBSET (1 .. len) |->
                IF s = {} THEN b ELSE PushArg(iter[s \ {Max(s)}], seq[Max(s)])]
           it == CHOOSE iter : iter = Step(iter)
<1>1. len \in Nat /\ DOMAIN seq = 1 .. len /\ \A i \in 1 .. len : seq[i] \in Passable
  OBVIOUS
<1>2. FoldLeft(PushArg, b, seq) = it[1 .. len]
  BY <1>1 DEF FoldLeft, MapThenFoldSet
<1> HIDE DEF len
<1>3. Op \in [Buffers \X (1 .. len) -> Buffers]
  BY <1>1, PushArgTypes
<1>4. PICK g : IsFold(g, len, Buffers, b, Op)
  BY <1>1, <1>3, FoldExists
<1>5. \A p \in Buffers \X (1 .. len) : Op[p] = PushArg(p[1], seq[p[2]])
  OBVIOUS
<1> HIDE DEF Op
<1>6. \A s \in SUBSET (1 .. len) : s # {} => Max(s) \in s /\ s \ {Max(s)} \in SUBSET (1 .. len)
  <2>1. ASSUME NEW s \in SUBSET (1 .. len), s # {}
        PROVE  Max(s) \in s
    <3>1. s \in SUBSET (0 .. len)
      BY <1>1
    <3>2. PICK x : x \in s
      BY <2>1
    <3>3. QED
      BY <1>1, <3>1, <3>2, MaxOf
  <2>2. QED
    BY <2>1
<1>7. g = Step(g)
  <2>1. ASSUME NEW s \in SUBSET (1 .. len)
        PROVE  g[s] = IF s = {} THEN b ELSE PushArg(g[s \ {Max(s)}], seq[Max(s)])
    <3>1. g \in [SUBSET (1 .. len) -> Buffers] /\ g[s] = IF s = {} THEN b ELSE Op[<<g[s \ {Max(s)}], Max(s)>>]
      BY <1>4 DEF IsFold
    <3>2. CASE s # {}
      <4>1. <<g[s \ {Max(s)}], Max(s)>> \in Buffers \X (1 .. len)
        BY <1>6, <3>1, <3>2
      <4>2. QED
        BY <1>5, <3>1, <3>2, <4>1
    <3>3. QED
      BY <3>1, <3>2
  <2>2. g = [s \in SUBSET (1 .. len) |-> g[s]]
    BY <1>4 DEF IsFold
  <2>3. QED
    BY <2>1, <2>2
<1>8. it = Step(it)
  BY <1>7
<1> HIDE DEF it
<1>9. \A s \in SUBSET (1 .. len) :
        it[s] = IF s = {} THEN b ELSE PushArg(it[s \ {Max(s)}], seq[Max(s)])
  BY <1>8
<1>10. it[{}] = b
  BY <1>9
<1>11. ASSUME NEW k \in 1 .. len, it[1 .. k - 1] \in Buffers
       PROVE  it[1 .. k] = Op[<<it[1 .. k - 1], k>>]
  <2>1. /\ Max(1 .. k) = k /\ (1 .. k) \ {k} = 1 .. k - 1 /\ 1 .. k # {}
        /\ 1 .. k \in SUBSET (1 .. len)
    BY <1>1, Prefix
  <2>2. it[1 .. k] = PushArg(it[1 .. k - 1], seq[k])
    BY <1>9, <2>1
  <2>3. <<it[1 .. k - 1], k>> \in Buffers \X (1 .. len)
    BY <1>11
  <2>4. QED
    BY <1>5, <2>2, <2>3
<1>12. PICK h \in [0 .. len -> Buffers] :
         /\ h[0] = b
         /\ \A k \in 1 .. len : h[k] = Op[<<h[k - 1], k>>]
         /\ h[len] = it[1 .. len]
  <2>1. b \in Buffers /\ len \in Nat
    BY <1>1
  <2>2. FoldSteps(it, len, Buffers, Op)
    BY <1>11 DEF FoldSteps
  <2>3. FoldTraced(it, len, Buffers, b, Op)
    BY ONLY <2>1, <2>2, <1>3, <1>10, FoldTrace
  <2>4. QED
    BY <2>3 DEF IsTrace, FoldTraced
<1>13. ASSUME NEW k \in 1 .. len
       PROVE  h[k] = PushArg(h[k - 1], seq[k])
  <2>1. k - 1 \in 0 .. len
    BY <1>1
  <2>2. <<h[k - 1], k>> \in Buffers \X (1 .. len)
    BY <2>1, <1>12
  <2>3. QED
    BY <1>5, <1>12, <2>2
<1>14. QED
  BY <1>2, <1>12, <1>13 DEF len

LEMMA PushesHold ==
  ASSUME NEW b, NEW vs \in Seq(Passable), Holds(b, vs), NEW seq \in Seq(Passable)
  PROVE  Holds(FoldLeft(PushArg, b, seq), vs \o seq)
<1> DEFINE m == Len(vs)
           n == Len(seq)
           all == vs \o seq
           Part(k) == [j \in 1 .. m + k |-> all[j]]
<1>1. /\ m \in Nat /\ n \in Nat /\ all \in Seq(Passable) /\ Len(all) = m + n
      /\ \A j \in 1 .. m : all[j] = vs[j]
      /\ \A j \in 1 .. n : all[m + j] = seq[j] /\ seq[j] \in Passable
      /\ \A j \in 1 .. m + n : all[j] \in Passable
  OBVIOUS
<1>2. b \in Buffers
  BY DEF Holds
<1>3. PICK h \in [0 .. n -> Buffers] :
        /\ h[0] = b
        /\ \A k \in 1 .. n : h[k] = PushArg(h[k - 1], seq[k])
        /\ FoldLeft(PushArg, b, seq) = h[n]
  BY <1>2, PushTrace
<1> HIDE DEF all, n
<1>4. all = [j \in 1 .. m + n |-> all[j]]
  BY <1>1
<1>5. ASSUME NEW k \in 0 .. n
      PROVE  Part(k) \in Seq(Passable) /\ Len(Part(k)) = m + k
  <2>1. m + k \in Nat /\ \A j \in 1 .. m + k : all[j] \in Passable
    BY <1>1
  <2>2. Part(k) \in [1 .. m + k -> Passable]
    BY <2>1
  <2>3. QED
    BY <2>1, <2>2
<1>6. Part(0) = vs
  <2>1. Part(0) \in Seq(Passable) /\ Len(Part(0)) = m /\ \A j \in 1 .. m : Part(0)[j] = vs[j]
    BY <1>1, <1>5
  <2> HIDE DEF Part
  <2>2. QED
    BY ONLY <2>1, SameSequence, vs \in Seq(Passable)
<1> HIDE DEF m
<1>7. Part(n) = all
  BY <1>4
<1>8. ASSUME NEW k \in 1 .. n
      PROVE  Part(k) = Append(Part(k - 1), seq[k])
  <2>1. k - 1 \in 0 .. n /\ m + k = (m + (k - 1)) + 1 /\ m + k \in Nat /\ seq[k] = all[m + k]
    BY <1>1
  <2>2. Part(k - 1) \in Seq(Passable) /\ Len(Part(k - 1)) = m + (k - 1)
    BY <1>5, <2>1
  <2>3. \A j \in 1 .. m + (k - 1) : Part(k - 1)[j] = all[j]
    OBVIOUS
  <2>4. Part(k) \in Seq(Passable) /\ Len(Part(k)) = m + k /\ \A j \in 1 .. m + k : Part(k)[j] = all[j]
    <3>1. k \in 0 .. n
      BY <2>1
    <3>2. \A j \in 1 .. m + k : Part(k)[j] = all[j]
      OBVIOUS
    <3> HIDE DEF Part
    <3>3. QED
      BY <1>5, <3>1, <3>2
  <2> DEFINE q == Part(k - 1)
             w == Append(q, seq[k])
  <2> HIDE DEF q, Part
  <2>5. /\ w \in Seq(Passable) /\ Len(w) = m + k /\ w[m + k] = seq[k]
        /\ \A j \in 1 .. m + (k - 1) : w[j] = q[j]
    BY <1>1, <2>1, <2>2 DEF q
  <2> HIDE DEF w
  <2>6. ASSUME NEW j \in 1 .. m + k PROVE w[j] = all[j]
    <3>1. j = m + k \/ j \in 1 .. m + (k - 1)
      BY <1>1, <2>1
    <3>2. QED
      BY <2>1, <2>3, <2>5, <3>1 DEF q
  <2>7. Part(k) = w
    BY ONLY <2>4, <2>5, <2>6, SameSequence
  <2>8. QED
    BY <2>7 DEF w, q
<1> HIDE DEF Part
<1> DEFINE Bad == {k \in 0 .. n : ~Holds(h[k], Part(k))}
<1>9. ASSUME Bad # {} PROVE FALSE
  <2>1. PICK k \in Bad : \A j \in Bad : k <= j
    <3>1. Bad \in SUBSET Nat
      BY <1>1
    <3>2. QED
      BY <3>1, <1>9, LeastOf
  <2>2. k \in 0 .. n /\ ~Holds(h[k], Part(k))
    BY <2>1
  <2>3. k # 0
    BY <1>3, <1>6, <2>2
  <2>4. k \in 1 .. n /\ k - 1 \in 0 .. n /\ k - 1 \notin Bad
    BY <1>1, <2>1, <2>2, <2>3
  <2>5. Holds(h[k - 1], Part(k - 1))
    BY <2>4
  <2>6. Part(k - 1) \in Seq(Passable) /\ seq[k] \in Passable
    BY <1>1, <1>5, <2>4
  <2>7. Holds(PushArg(h[k - 1], seq[k]), Append(Part(k - 1), seq[k]))
    BY <2>5, <2>6, PushHolds
  <2>8. QED
    BY <1>3, <1>8, <2>2, <2>4, <2>7
<1>10. Holds(h[n], Part(n))
  <2>1. n \in 0 .. n
    BY <1>1
  <2>2. QED
    BY <1>9, <2>1
<1>11. QED
  BY <1>3, <1>7, <1>10 DEF all, n

-----------------------------------------------------------------------------
(* The inductive invariant: what is known of a call between two steps.       *)

Scratch == [type |-> Pointer("i8"), value |-> 0]
Behind == IF build = "npu" THEN <<>> ELSE <<Scratch, Scratch>>
PushedAt == [i \in DOMAIN args |-> HandleArg(args[i], i).pushed]
Pushes == FlattenSeq(PushedAt)

Frame ==
  /\ build \in Builds /\ pooled \in Literals /\ kernel \in Kernels /\ calls \in 0 .. kernel.calls
  /\ pc \in {"idle", "handling", "found", "launched", "thrown"}
  /\ args \in Seq(Argument)
  /\ IF pc = "idle" THEN setting = None /\ args = <<>> /\ tokens = <<>> /\ buffer = Empty
     ELSE setting \in kernel.settings
\* One token for each argument, and it is the answer to the argument.
Answered ==
  pc # "thrown" =>
    /\ tokens \in Seq(Token) /\ Len(tokens) = Len(args)
    /\ \A i \in 1 .. Len(args) : tokens[i] = HandleArg(args[i], i).token
\* A kernel is what the compiler made of its key.
OverloadOf(k, s) == k = MakeKey(k.sig, s) /\ overloads[k] = Compiled(k.sig, s)
Overloaded ==
  \A k \in DOMAIN overloads :
    k.sig \in Seq(Token) /\ Compiles(k.sig) /\ \E s \in kernel.settings : OverloadOf(k, s)
Keyed ==
  /\ key = None \/ key \in DOMAIN overloads
  /\ pc \in {"found", "launched"} =>
       key = MakeKey(Signature(tokens), setting) /\ key \in DOMAIN overloads /\ setting.extra \cap Reserved = {}
\* The buffer holds what was pushed, and the scratch pointers once they are behind it.
Held(vs) ==
  /\ vs \in Seq(Passable) /\ Holds(buffer, vs)
  /\ pc \in {"idle", "handling"} => vs = Pushes
  /\ pc \in {"found", "launched"} => vs = Pushes \o Behind
Buffered == \E vs : Held(vs)
Blocked ==
  pc = "launched" /\ build = "npu" =>
    packed = Pack(Layout(Signature(tokens))) /\ Len(buffer.offsets) \in {0, Len(Layout(Signature(tokens)))}
Thrown == pc = "thrown" => Misused \/ TextBreaks \/ TextSplits \/ (build = "npu" /\ TextLost)
ArgumentsInv == Frame /\ Answered /\ Overloaded /\ Keyed /\ Buffered /\ Blocked /\ Thrown

\* What depends on the build and the kernel alone does not change.
LEMMA SameAnswers ==
  ASSUME Fixed
  PROVE  /\ \A given, i : HandleArg(given, i)' = HandleArg(given, i)
         /\ \A given, i : Unsuitable(given, i)' = Unsuitable(given, i)
<1>1. build' = build /\ pooled' = pooled /\ kernel' = kernel /\ kinds' = kinds
  BY DEF Fixed, kinds
<1>2. ASSUME NEW extent PROVE PtrRangeSpec(extent)' = PtrRangeSpec(extent)
  BY <1>1 DEF PtrRangeSpec
<1>3. ASSUME NEW dtype, NEW address, NEW extent, NEW kind
      PROVE  HandlePointer(dtype, address, extent, kind)' = HandlePointer(dtype, address, extent, kind)
  BY <1>1, <1>2 DEF HandlePointer
<1>4. ASSUME NEW v, NEW kind PROVE HandleNumber(v, kind)' = HandleNumber(v, kind)
  <2>1. HandleSpecialized(v)' = HandleSpecialized(v)
    BY <1>1 DEF HandleSpecialized
  <2>2. HandleNoAlignment(v)' = HandleNoAlignment(v)
    BY <1>1 DEF HandleNoAlignment
  <2>3. QED
    BY <2>1, <2>2 DEF HandleNumber
<1>5. ASSUME NEW arg, NEW kind PROVE HandleScalar(arg, kind)' = HandleScalar(arg, kind)
  BY <1>1, <1>4 DEF HandleScalar
<1>6. ASSUME NEW arg, NEW kind
      PROVE  /\ HandleTensor(arg, kind)' = HandleTensor(arg, kind)
             /\ HandleDevicePtr(arg, kind)' = HandleDevicePtr(arg, kind)
  BY <1>3 DEF HandleTensor, HandleDevicePtr
<1>7. ASSUME NEW given, NEW i PROVE HandleArg(given, i)' = HandleArg(given, i)
  BY <1>1, <1>4, <1>5, <1>6 DEF HandleArg
<1>8. ASSUME NEW given, NEW i PROVE Unsuitable(given, i)' = Unsuitable(given, i)
  BY <1>1 DEF Unsuitable
<1>9. QED
  BY <1>7, <1>8

LEMMA SameCompiler ==
  ASSUME Fixed
  PROVE  /\ \A sig : Compiles(sig)' = Compiles(sig)
         /\ \A sig, s : Compiled(sig, s)' = Compiled(sig, s)
<1>1. build' = build /\ pooled' = pooled /\ kernel' = kernel /\ kinds' = kinds
  BY DEF Fixed, kinds
<1>2. ASSUME NEW sig PROVE ConstantIndices(sig)' = ConstantIndices(sig)
  BY <1>1 DEF ConstantIndices
<1>3. ASSUME NEW sig PROVE Constants(sig)' = Constants(sig)
  BY <1>1, <1>2 DEF Constants
<1>4. ASSUME NEW t PROVE ParameterType(t)' = ParameterType(t)
  BY <1>1 DEF ParameterType
<1>5. ASSUME NEW sig, NEW i PROVE ParametersAt(sig, i)' = ParametersAt(sig, i)
  BY <1>4 DEF ParametersAt
<1>6. ASSUME NEW sig PROVE Parameters(sig)' = Parameters(sig)
  BY <1>2, <1>5 DEF Parameters
<1>7. ASSUME NEW sig, NEW s PROVE Compiled(sig, s)' = Compiled(sig, s)
  BY <1>1, <1>3, <1>6 DEF Compiled
<1>8. ASSUME NEW sig PROVE Compiles(sig)' = Compiles(sig)
  BY <1>1, <1>2 DEF Compiles
<1>9. QED
  BY <1>7, <1>8

\* Every argument that has a token was made one.
LEMMA AllMade ==
  ASSUME kernel \in Kernels, args \in Seq(Argument), pc # "thrown", Answered
  PROVE  \A i \in 1 .. Len(args) :
           /\ Made(Unwrapped(args[i]), i, HandleArg(args[i], i))
           /\ HandleArg(args[i], i).token \in Token /\ HandleArg(args[i], i).pushed \in Seq(Passable)
<1>1. ASSUME NEW i \in 1 .. Len(args)
      PROVE  Made(Unwrapped(args[i]), i, HandleArg(args[i], i))
  <2>1. args[i] \in Argument /\ i \in Nat \ {0} /\ tokens[i] = HandleArg(args[i], i).token /\ tokens[i] \in Token
    BY <1>1 DEF Answered
  <2>2. None \notin Token
    BY KernelsAssumption
  <2>3. HandleArg(args[i], i) # Refused
    BY <2>1, <2>2 DEF Refused
  <2>4. QED
    BY <2>1, <2>3, HandleArgTells
<1>2. QED
  BY <1>1, MadeTypes

LEMMA PushesTyped ==
  ASSUME kernel \in Kernels, args \in Seq(Argument), pc # "thrown", Answered
  PROVE  PushedAt \in Seq(Seq(Passable)) /\ Len(PushedAt) = Len(args) /\ Pushes \in Seq(Passable)
<1>1. DOMAIN args = 1 .. Len(args) /\ Len(args) \in Nat
  OBVIOUS
<1>2. PushedAt \in [1 .. Len(args) -> Seq(Passable)]
  BY <1>1, AllMade DEF PushedAt
<1>3. PushedAt \in Seq(Seq(Passable)) /\ Len(PushedAt) = Len(args)
  BY <1>1, <1>2
<1>4. QED
  BY <1>3, FlattenType DEF Pushes

LEMMA NothingPushed ==
  ASSUME args = <<>>
  PROVE  PushedAt = <<>> /\ Pushes = <<>>
<1>1. DOMAIN args = {}
  OBVIOUS
<1>2. PushedAt = <<>>
  BY <1>1 DEF PushedAt
<1>3. QED
  BY <1>2, FlattenEmpty DEF Pushes

LEMMA ArgumentsInvInit ==
  ASSUME Init
  PROVE  ArgumentsInv
<1> USE DEF Init
<1>1. Frame
  <2>1. kernel.calls \in Nat /\ <<>> \in Seq(Argument)
    BY KernelsAssumption
  <2>2. QED
    BY <2>1 DEF Frame
<1>2. Answered
  BY DEF Answered
<1>3. Overloaded /\ Keyed
  BY DEF Overloaded, Keyed
<1>4. Buffered
  <2>1. <<>> \in Seq(Passable)
    OBVIOUS
  <2>2. Held(<<>>)
    BY <2>1, EmptyHolds, NothingPushed DEF Held
  <2>3. QED
    BY <2>2 DEF Buffered
<1>5. Blocked /\ Thrown
  BY DEF Blocked, Thrown
<1>6. QED
  BY <1>1, <1>2, <1>3, <1>4, <1>5 DEF ArgumentsInv

\* The kernels that were compiled stay what they are.
LEMMA OverloadsStay ==
  ASSUME Overloaded, Fixed, UNCHANGED overloads
  PROVE  Overloaded'
<1>1. ASSUME NEW k \in DOMAIN overloads
      PROVE  k.sig \in Seq(Token) /\ Compiles(k.sig)' /\ \E s \in kernel'.settings : OverloadOf(k, s)'
  <2>1. k.sig \in Seq(Token) /\ Compiles(k.sig) /\ \E s \in kernel.settings : OverloadOf(k, s)
    BY <1>1 DEF Overloaded
  <2>2. Compiles(k.sig)' /\ \A s : OverloadOf(k, s)' = OverloadOf(k, s)
    BY <2>1, SameCompiler DEF OverloadOf
  <2>3. kernel' = kernel
    BY DEF Fixed
  <2>4. QED
    BY <2>1, <2>2, <2>3
<1>2. QED
  BY <1>1 DEF Overloaded

LEMMA SamePushes ==
  ASSUME Fixed, UNCHANGED args
  PROVE  Pushes' = Pushes /\ Behind' = Behind /\ PushedAt' = PushedAt
<1>1. PushedAt' = PushedAt
  BY SameAnswers DEF PushedAt
<1>2. QED
  BY <1>1 DEF Pushes, Behind, Fixed

LEMMA ArgumentsInvBegin ==
  ASSUME ArgumentsInv, Begin
  PROVE  ArgumentsInv'
<1>1. /\ pc = "idle" /\ pc' = "handling" /\ calls < kernel.calls /\ calls' = calls + 1
      /\ setting' \in kernel.settings /\ Fixed
      /\ UNCHANGED <<args, tokens, buffer, overloads, key, packed>>
  BY DEF Begin
<1>2. Frame /\ Answered /\ Overloaded /\ Keyed /\ Buffered
  BY DEF ArgumentsInv
<1>3. kernel' = kernel /\ build' = build /\ pooled' = pooled /\ kernel.calls \in Nat
  BY <1>1, <1>2, KernelsAssumption DEF Fixed, Frame
<1>4. Frame'
  BY <1>1, <1>2, <1>3 DEF Frame
<1>5. Answered'
  BY <1>1, <1>2, SameAnswers DEF Answered
<1>6. Overloaded'
  BY <1>1, <1>2, OverloadsStay
<1>7. Keyed'
  BY <1>1, <1>2 DEF Keyed
<1>8. Buffered'
  <2>1. PICK vs : Held(vs)
    BY <1>2 DEF Buffered
  <2>2. Held(vs)'
    BY <1>1, <2>1, SamePushes DEF Held
  <2>3. QED
    BY <2>2 DEF Buffered
<1>9. Blocked' /\ Thrown'
  BY <1>1 DEF Blocked, Thrown
<1>10. QED
  BY <1>4, <1>5, <1>6, <1>7, <1>8, <1>9 DEF ArgumentsInv

LEMMA ArgumentsInvReturn ==
  ASSUME ArgumentsInv, Return
  PROVE  ArgumentsInv'
<1>1. /\ pc' = "idle" /\ setting' = None /\ args' = <<>> /\ tokens' = <<>> /\ buffer' = Empty
      /\ key' = None /\ packed' = <<>> /\ Fixed /\ UNCHANGED <<overloads, calls>>
  BY DEF Return
<1>2. Frame /\ Overloaded
  BY DEF ArgumentsInv
<1>3. kernel' = kernel /\ build' = build /\ pooled' = pooled
  BY <1>1 DEF Fixed
<1>4. Frame'
  BY <1>1, <1>2, <1>3 DEF Frame
<1>5. Answered'
  BY <1>1 DEF Answered
<1>6. Overloaded'
  BY <1>1, <1>2, OverloadsStay
<1>7. Keyed'
  BY <1>1 DEF Keyed
<1>8. Buffered'
  <2>1. <<>> \in Seq(Passable) /\ Holds(Empty, <<>>)
    BY EmptyHolds
  <2>2. DOMAIN args' = {}
    BY <1>1
  <2>3. PushedAt' = <<>>
    BY <2>2 DEF PushedAt
  <2>4. Pushes' = <<>>
    BY <2>3, FlattenEmpty DEF Pushes
  <2>5. Held(<<>>)'
    BY <1>1, <2>1, <2>4 DEF Held
  <2>6. QED
    BY <2>5 DEF Buffered
<1>9. Blocked' /\ Thrown'
  BY <1>1 DEF Blocked, Thrown
<1>10. QED
  BY <1>4, <1>5, <1>6, <1>7, <1>8, <1>9 DEF ArgumentsInv

LEMMA ArgumentsInvHandle ==
  ASSUME ArgumentsInv, Handle
  PROVE  ArgumentsInv'
<1>1. PICK len : len = Len(args)
  OBVIOUS
<1>2. PICK arg \in (IF len < Len(kinds) THEN kernel.arguments ELSE kernel.extra) :
        LET added == HandleArg(arg, len + 1)
        IN  /\ args' = Append(args, arg)
            /\ pc' = IF added.token = None THEN "thrown" ELSE "handling"
            /\ tokens' = IF added.token = None THEN tokens ELSE Append(tokens, added.token)
            /\ buffer' = FoldLeft(PushArg, buffer, added.pushed)
  BY <1>1 DEF Handle
<1>3. PICK added : added = HandleArg(arg, len + 1)
  OBVIOUS
<1>4. pc = "handling" /\ Fixed /\ UNCHANGED <<setting, overloads, key, packed, calls>>
  BY DEF Handle
<1>5. Frame /\ Answered /\ Overloaded /\ Keyed /\ Buffered
  BY DEF ArgumentsInv
<1>6. kernel' = kernel /\ build' = build /\ pooled' = pooled /\ kinds' = kinds
  BY <1>4 DEF Fixed, kinds
<1>7. /\ kernel \in Kernels /\ args \in Seq(Argument) /\ len \in Nat /\ setting \in kernel.settings
      /\ tokens \in Seq(Token) /\ Len(tokens) = len
      /\ \A i \in 1 .. len : tokens[i] = HandleArg(args[i], i).token
  BY <1>1, <1>4, <1>5 DEF Frame, Answered
<1>8. arg \in Argument
  BY <1>2, <1>7, KernelsAssumption
<1>9. /\ args' = Append(args, arg) /\ pc' = (IF added.token = None THEN "thrown" ELSE "handling")
      /\ tokens' = (IF added.token = None THEN tokens ELSE Append(tokens, added.token))
      /\ buffer' = FoldLeft(PushArg, buffer, added.pushed)
  BY <1>2, <1>3
<1>10. \/ added = Refused /\ Unsuitable(arg, len + 1)
      \/ Made(Unwrapped(arg), len + 1, added)
  BY <1>7, <1>8, <1>3, HandleArgTells
<1>11. /\ args' \in Seq(Argument) /\ Len(args') = len + 1 /\ args'[len + 1] = arg
      /\ \A i \in 1 .. len : args'[i] = args[i]
  BY <1>1, <1>7, <1>8, <1>9
<1>12. Frame'
  BY <1>4, <1>5, <1>6, <1>7, <1>9, <1>11 DEF Frame
<1>13. Overloaded'
  BY <1>4, <1>5, OverloadsStay
<1>14. Keyed' /\ Blocked'
  BY <1>4, <1>5, <1>9 DEF Keyed, Blocked
<1>15. added.pushed \in Seq(Passable) /\ (added.token = None => added = Refused)
  <2>1. CASE added = Refused
    BY <2>1 DEF Refused
  <2>2. CASE Made(Unwrapped(arg), len + 1, added)
    BY <2>2, MadeTypes, KernelsAssumption
  <2>3. QED
    BY <1>10, <2>1, <2>2
<1>16. Pushes \in Seq(Passable) /\ PushedAt \in Seq(Seq(Passable)) /\ Len(PushedAt) = len
  BY <1>4, <1>5, <1>7, PushesTyped, <1>1
<1>17. PICK all : all = Pushes \o added.pushed
  OBVIOUS
<1>18. Holds(buffer', all) /\ all \in Seq(Passable)
  <2>1. Holds(buffer, Pushes)
    BY <1>4, <1>5 DEF Buffered, Held
  <2>2. QED
    BY <2>1, <1>9, <1>15, <1>16, <1>17, PushesHold
<1>19. CASE added.token = None
  <2>1. pc' = "thrown"
    BY <1>9, <1>19
  <2>2. Answered'
    BY <2>1 DEF Answered
  <2>3. Buffered'
    <3>1. Held(all)'
      BY <2>1, <1>18 DEF Held
    <3>2. QED
      BY <3>1 DEF Buffered
  <2>4. Thrown'
    <3>1. Unsuitable(arg, len + 1)
      <4>1. ~Made(Unwrapped(arg), len + 1, added)
        BY <1>19, MadeTypes, KernelsAssumption
      <4>2. QED
        BY <4>1, <1>10
    <3>2. Unsuitable(arg, len + 1)'
      BY <3>1, <1>4, SameAnswers
    <3>3. len + 1 \in DOMAIN args'
      BY <1>7, <1>11
    <3>4. Unsuitable(args[len + 1], len + 1)' <=> Unsuitable(arg, len + 1)'
      BY <1>11
    <3>5. Misused'
      BY <3>2, <3>3, <3>4 DEF Misused
    <3>6. QED
      BY <3>5 DEF Thrown
  <2>5. QED
    BY <1>12, <1>13, <1>14, <2>2, <2>3, <2>4 DEF ArgumentsInv
<1>20. CASE added.token # None
  <2>1. pc' = "handling" /\ tokens' = Append(tokens, added.token)
    BY <1>9, <1>20
  <2>2. Made(Unwrapped(arg), len + 1, added)
    BY <1>10, <1>20 DEF Refused
  <2>3. added.token \in Token
    BY <2>2, MadeTypes
  <2>4. /\ tokens' \in Seq(Token) /\ Len(tokens') = len + 1 /\ tokens'[len + 1] = added.token
        /\ \A i \in 1 .. len : tokens'[i] = tokens[i]
    BY <1>7, <2>1, <2>3
  <2>5. ASSUME NEW i \in 1 .. len + 1
        PROVE  /\ tokens'[i] = HandleArg(args[i], i)'.token
               /\ HandleArg(args[i], i)' = IF i = len + 1 THEN added ELSE HandleArg(args[i], i)
    <3>1. \A given : HandleArg(given, i)' = HandleArg(given, i)
      BY <1>4, SameAnswers
    <3>2. CASE i = len + 1
      <4>1. HandleArg(args[i], i)' = HandleArg(arg, i)
        BY <3>1, <3>2, <1>11
      <4>2. QED
        BY <4>1, <3>2, <2>4, <1>3
    <3>3. CASE i # len + 1
      <4>1. i \in 1 .. len
        BY <3>3, <1>7
      <4>2. HandleArg(args[i], i)' = HandleArg(args[i], i)
        BY <3>1, <4>1, <1>11
      <4>3. QED
        BY <4>1, <4>2, <3>3, <2>4, <1>7
    <3>4. QED
      BY <3>2, <3>3
  <2>6. Answered'
    BY <2>4, <2>5, <1>11 DEF Answered
  <2>7. Pushes' = Pushes \o added.pushed
    <3>1. len \in Nat /\ DOMAIN args' = 1 .. len + 1 /\ DOMAIN args = 1 .. len
      BY <1>7, <1>11, <1>1
    <3> DEFINE more == Append(PushedAt, added.pushed)
    <3>2. /\ more \in Seq(Seq(Passable)) /\ Len(more) = len + 1 /\ more[len + 1] = added.pushed
          /\ \A i \in 1 .. len : more[i] = PushedAt[i]
      BY <1>15, <1>16, <3>1
    <3>3. \A i \in 1 .. len : PushedAt[i] = HandleArg(args[i], i).pushed
      BY <3>1 DEF PushedAt
    <3>4. PushedAt' = [i \in 1 .. len + 1 |-> HandleArg(args[i], i)'.pushed]
      BY <3>1 DEF PushedAt
    <3>5. more = [i \in 1 .. len + 1 |-> more[i]]
      BY <3>1, <3>2
    <3>6. ASSUME NEW i \in 1 .. len + 1
          PROVE  more[i] = HandleArg(args[i], i)'.pushed
      <4>1. i = len + 1 \/ i \in 1 .. len
        BY <3>1
      <4>2. QED
        BY <4>1, <3>1, <3>2, <3>3, <2>5
    <3> HIDE DEF more
    <3>7. PushedAt' = more
      BY <3>4, <3>5, <3>6
    <3>8. FlattenSeq(more) = FlattenSeq(PushedAt) \o added.pushed
      BY <1>15, <1>16, FlattenAppend DEF more
    <3>9. QED
      BY <3>7, <3>8 DEF Pushes
  <2>8. Buffered'
    <3>1. Held(all)'
      BY <2>1, <2>7, <1>18, <1>17 DEF Held
    <3>2. QED
      BY <3>1 DEF Buffered
  <2>9. Thrown'
    BY <2>1 DEF Thrown
  <2>10. QED
    BY <1>12, <1>13, <1>14, <2>6, <2>8, <2>9 DEF ArgumentsInv
<1>21. QED
  BY <1>19, <1>20

\* Splitting the joined tokens again gives tokens.
LEMMA SignatureTypes ==
  ASSUME NEW ts \in Seq(Token)
  PROVE  /\ Signature(ts) \in Seq(Token)
         /\ [i \in DOMAIN ts |-> ReadAs(ts[i])] \in Seq(Seq(Token))
         /\ Len([i \in DOMAIN ts |-> ReadAs(ts[i])]) = Len(ts)
<1> DEFINE parts == [i \in DOMAIN ts |-> ReadAs(ts[i])]
<1>1. DOMAIN ts = 1 .. Len(ts) /\ Len(ts) \in Nat
  OBVIOUS
<1>2. ASSUME NEW i \in 1 .. Len(ts) PROVE ReadAs(ts[i]) \in Seq(Token)
  <2>1. ts[i] \in Token
    BY <1>2
  <2>2. CASE ts[i].is = "text"
    <3>1. ts[i].value \in Words
      BY <2>1, <2>2 DEF Token
    <3>2. QED
      BY <2>2, <3>1, KernelsAssumption DEF ReadAs
  <2>3. CASE ts[i].is # "text"
    BY <2>1, <2>3 DEF ReadAs
  <2>4. QED
    BY <2>2, <2>3
<1>3. parts \in [1 .. Len(ts) -> Seq(Token)]
  BY <1>1, <1>2
<1>4. parts \in Seq(Seq(Token)) /\ Len(parts) = Len(ts)
  BY <1>1, <1>3
<1>5. Signature(ts) = FlattenSeq(parts)
  BY DEF Signature
<1> HIDE DEF parts
<1>6. Signature(ts) \in Seq(Token)
  BY <1>4, <1>5, FlattenType
<1>7. QED
  BY <1>4, <1>6 DEF parts

\* Tokens that are read as one token each, and tokens that are read as they are.
LEMMA SignatureAt ==
  ASSUME NEW ts \in Seq(Token), \A i \in 1 .. Len(ts) : Len(ReadAs(ts[i])) = 1
  PROVE  Len(Signature(ts)) = Len(ts) /\ \A i \in 1 .. Len(ts) : Signature(ts)[i] = ReadAs(ts[i])[1]
<1> DEFINE parts == [i \in DOMAIN ts |-> ReadAs(ts[i])]
<1>1. parts \in Seq(Seq(Token)) /\ Len(parts) = Len(ts) /\ DOMAIN ts = 1 .. Len(ts)
  BY SignatureTypes
<1>2. \A i \in 1 .. Len(ts) : parts[i] = ReadAs(ts[i])
  BY <1>1
<1>3. Signature(ts) = FlattenSeq(parts)
  BY DEF Signature
<1> HIDE DEF parts
<1>4. \A i \in 1 .. Len(parts) : Len(parts[i]) = 1
  BY <1>1, <1>2
<1>5. /\ Len(FlattenSeq(parts)) = Len(parts)
      /\ \A i \in 1 .. Len(parts) : FlattenSeq(parts)[i] = parts[i][1]
  BY ONLY <1>1, <1>4, FlattenSingles
<1>6. QED
  BY <1>1, <1>2, <1>3, <1>5

LEMMA SignatureSame ==
  ASSUME NEW ts \in Seq(Token), \A i \in 1 .. Len(ts) : ReadAs(ts[i]) = <<ts[i]>>
  PROVE  Signature(ts) = ts
<1>1. \A i \in 1 .. Len(ts) : Len(ReadAs(ts[i])) = 1 /\ ReadAs(ts[i])[1] = ts[i]
  OBVIOUS
<1>2. Len(Signature(ts)) = Len(ts) /\ \A i \in 1 .. Len(ts) : Signature(ts)[i] = ReadAs(ts[i])[1]
  BY <1>1, SignatureAt
<1>3. Signature(ts) \in Seq(Token)
  BY SignatureTypes
<1>4. \A i \in 1 .. Len(Signature(ts)) : Signature(ts)[i] = ts[i]
  BY <1>1, <1>2
<1>5. QED
  BY <1>2, <1>3, <1>4, SameSequence

\* Text is read as what it spells, and everything else as it was written.
LEMMA TokensRead ==
  ASSUME kernel \in Kernels, args \in Seq(Argument), pc # "thrown", Answered, NEW i \in 1 .. Len(args)
  PROVE  /\ i \in Texts => /\ ReadAs(tokens[i]) = Spelt(i) /\ Spelt(i) \in Seq(Token)
                           /\ tokens[i] = Printed("text", Unwrapped(args[i]).text)
         /\ i \notin Texts => ReadAs(tokens[i]) = <<tokens[i]>>
<1>1. Made(Unwrapped(args[i]), i, HandleArg(args[i], i)) /\ tokens[i] = HandleArg(args[i], i).token
  BY AllMade DEF Answered
<1>2. /\ tokens[i].is = "text" <=> Unwrapped(args[i]).form = "text"
      /\ Unwrapped(args[i]).form = "text" =>
           tokens[i] = Printed("text", Unwrapped(args[i]).text) /\ Unwrapped(args[i]).text \in Words
  BY <1>1, TokensAreWhole
<1>3. i \in Texts <=> Unwrapped(args[i]).form = "text"
  BY DEF Texts
<1>4. CASE i \in Texts
  <2>1. tokens[i].value = Unwrapped(args[i]).text
    BY <1>2, <1>3, <1>4 DEF Printed
  <2>2. ReadAs(tokens[i]) = Spelt(i)
    BY <1>2, <1>3, <1>4, <2>1 DEF ReadAs, Spelt
  <2>3. Spelt(i) \in Seq(Token)
    BY <1>2, <1>3, <1>4, KernelsAssumption DEF Spelt
  <2>4. QED
    BY <1>2, <1>3, <1>4, <2>2, <2>3
<1>5. CASE i \notin Texts
  BY <1>2, <1>3, <1>5 DEF ReadAs
<1>6. QED
  BY <1>4, <1>5

LEMMA ReadAsWritten ==
  ASSUME kernel \in Kernels, args \in Seq(Argument), pc # "thrown", Answered, ~TextMisread
  PROVE  Signature(tokens) = tokens
<1>1. tokens \in Seq(Token) /\ Len(tokens) = Len(args)
  BY DEF Answered
<1>2. ASSUME NEW i \in 1 .. Len(args) PROVE ReadAs(tokens[i]) = <<tokens[i]>>
  <2>1. CASE i \in Texts
    BY <2>1, TokensRead DEF TextMisread
  <2>2. CASE i \notin Texts
    BY <2>2, TokensRead
  <2>3. QED
    BY <2>1, <2>2
<1>3. QED
  BY <1>1, <1>2, SignatureSame

LEMMA NoTextNoMisreading ==
  ASSUME ~TextLost
  PROVE  ~TextMisread /\ ~TextTaken /\ ~TextSplits /\ ~TextBreaks
<1>1. Texts = {}
  BY DEF TextLost, Texts
<1>2. QED
  BY <1>1 DEF TextMisread, TextTaken, TextSplits, TextBreaks

\* The compiler takes a signature exactly when every argument suits its parameter,
\* unless text is read as something else.
LEMMA CompilesWhatSuits ==
  ASSUME kernel \in Kernels, args \in Seq(Argument), pc # "thrown", Answered, ~TextSplits
  PROVE  /\ Compiles(Signature(tokens)) /\ ~TextTaken =>
              Len(args) = Len(kinds) /\ \A i \in DOMAIN args : ~Unsuitable(args[i], i)
         /\ ~Compiles(Signature(tokens)) /\ ~TextBreaks =>
              Len(args) # Len(kinds) \/ \E i \in DOMAIN args : Unsuitable(args[i], i)
<1> DEFINE sig == Signature(tokens)
           Fp64Tuple(token) == build = "gcu" /\ token.is = "tuple" /\ Value("fp64") \in ToSet(token.types)
<1>1. /\ DOMAIN args = 1 .. Len(args) /\ tokens \in Seq(Token) /\ Len(tokens) = Len(args)
      /\ \A i \in 1 .. Len(args) : tokens[i] = HandleArg(args[i], i).token
  BY DEF Answered
<1>2. kinds \in Seq(Kinds) /\ DOMAIN kinds = 1 .. Len(kinds)
  BY KernelsAssumption DEF kinds
<1>3. ASSUME NEW i \in 1 .. Len(args) PROVE Len(ReadAs(tokens[i])) = 1
  <2>1. CASE i \in Texts
    BY <2>1, TokensRead DEF TextSplits
  <2>2. CASE i \notin Texts
    BY <2>2, TokensRead
  <2>3. QED
    BY <2>1, <2>2
<1>4. /\ Len(sig) = Len(args) /\ sig \in Seq(Token) /\ DOMAIN sig = 1 .. Len(args)
      /\ \A i \in 1 .. Len(args) : sig[i] = ReadAs(tokens[i])[1]
  <2>1. Len(sig) = Len(tokens) /\ \A i \in 1 .. Len(tokens) : sig[i] = ReadAs(tokens[i])[1]
    BY <1>1, <1>3, SignatureAt
  <2>2. sig \in Seq(Token)
    BY <1>1, SignatureTypes
  <2> HIDE DEF sig
  <2>3. QED
    BY <1>1, <2>1, <2>2
<1> HIDE DEF sig
<1>5. ASSUME NEW i \in 1 .. Len(args)
      PROVE  i \in ConstantIndices(sig) <=> Folded(sig[i], i)
  BY <1>4 DEF ConstantIndices, Folded
<1>6. ASSUME NEW i \in 1 .. Len(args), i \notin Texts
      PROVE  /\ Unsuitable(args[i], i) <=>
                  \/ i \notin DOMAIN kinds
                  \/ i \notin ConstantIndices(sig) /\ (~HasTypes(sig[i]) \/ Fp64Tuple(sig[i]))
             /\ sig[i].is # "broken"
             /\ sig[i].range => sig[i].is = "type" /\ sig[i].types[1].pointer
  <2>1. sig[i] = tokens[i]
    BY <1>4, <1>6, TokensRead
  <2>2. Made(Unwrapped(args[i]), i, HandleArg(args[i], i)) /\ tokens[i] = HandleArg(args[i], i).token
    BY <1>1, AllMade
  <2>3. Unsuitable(args[i], i) <=>
          \/ i \notin DOMAIN kinds
          \/ ~Folded(tokens[i], i) /\ ~HasTypes(tokens[i])
          \/ ~Folded(tokens[i], i) /\ build = "gcu" /\ tokens[i].is = "tuple" /\ Value("fp64") \in ToSet(tokens[i].types)
    BY ONLY <2>2, TakenSuits
  <2>4. tokens[i].is # "broken" /\ (tokens[i].range => tokens[i].is = "type" /\ tokens[i].types[1].pointer)
    BY <2>2, TokensAreWhole
  <2>5. QED
    BY <1>5, <2>1, <2>3, <2>4
<1>7. ASSUME NEW i \in 1 .. Len(args), i \in Texts
      PROVE  /\ Unsuitable(args[i], i) <=> i \notin DOMAIN kinds \/ kinds[i] # "CONSTEXPR"
             /\ sig[i] = Spelt(i)[1] /\ sig[i] \in Token
  <2>1. Unwrapped(args[i]).form = "text"
    BY <1>7 DEF Texts
  <2>2. QED
    BY <1>4, <1>7, <2>1, TokensRead DEF Unsuitable
<1>8. Compiles(sig) <=>
        /\ Len(args) = Len(kinds) /\ \A i \in 1 .. Len(args) : sig[i].is # "broken"
        /\ \A i \in 1 .. Len(args) :
             kinds[i] # "CONSTEXPR" /\ sig[i].range => sig[i].is = "type" /\ sig[i].types[1].pointer
        /\ \A i \in 1 .. Len(args) : i \notin ConstantIndices(sig) => HasTypes(sig[i]) /\ ~Fp64Tuple(sig[i])
  BY <1>4 DEF Compiles
<1>9. ASSUME Compiles(sig), ~TextTaken, NEW i \in 1 .. Len(args)
      PROVE  ~Unsuitable(args[i], i)
  <2>1. /\ i \in DOMAIN kinds
        /\ i \notin ConstantIndices(sig) => HasTypes(sig[i]) /\ ~Fp64Tuple(sig[i])
    BY <1>2, <1>8, <1>9
  <2>2. CASE i \notin Texts
    BY <1>6, <2>1, <2>2
  <2>3. CASE i \in Texts
    <3>1. ~(kinds[i] # "CONSTEXPR" /\ (HasTypes(sig[i]) \/ sig[i].is \in {"jit", "nullopt"}))
      BY <1>7, <1>9, <2>1, <2>3 DEF TextTaken
    <3>2. sig[i].hint = 1 => HasTypes(sig[i])
      <4>1. ASSUME NEW token \in Token, ~HasTypes(token) PROVE token.hint = 0
        BY <4>1 DEF Token, HasTypes
      <4>2. QED
        BY <1>7, <2>3, <4>1
    <3>3. kinds[i] = "CONSTEXPR"
      BY <1>5, <2>1, <3>1, <3>2 DEF Folded
    <3>4. QED
      BY <1>7, <2>1, <2>3, <3>3
  <2>4. QED
    BY <2>2, <2>3
<1>10. ASSUME ~TextBreaks, Len(args) = Len(kinds), \A i \in DOMAIN args : ~Unsuitable(args[i], i)
       PROVE  Compiles(sig)
  <2>1. ASSUME NEW i \in 1 .. Len(args)
        PROVE  /\ sig[i].is # "broken"
               /\ kinds[i] # "CONSTEXPR" /\ sig[i].range => sig[i].is = "type" /\ sig[i].types[1].pointer
               /\ i \notin ConstantIndices(sig) => HasTypes(sig[i]) /\ ~Fp64Tuple(sig[i])
    <3>1. i \in DOMAIN kinds /\ ~Unsuitable(args[i], i)
      BY <1>1, <1>2, <1>10
    <3>2. CASE i \notin Texts
      BY <1>6, <3>1, <3>2
    <3>3. CASE i \in Texts
      <4>1. kinds[i] = "CONSTEXPR"
        BY <1>7, <3>1, <3>3
      <4>2. i \in ConstantIndices(sig)
        BY <1>5, <4>1 DEF Folded
      <4>3. sig[i].is # "broken"
        BY <1>7, <1>10, <3>3 DEF TextBreaks
      <4>4. QED
        BY <4>1, <4>2, <4>3
    <3>4. QED
      BY <3>2, <3>3
  <2>2. QED
    BY <1>8, <1>10, <2>1
<1>11. QED
  BY <1>1, <1>8, <1>9, <1>10 DEF sig

\* On an NPU the buffer has one entry for each type of the layout, text aside.
LEMMA LayoutTypes ==
  ASSUME NEW token \in Token
  PROVE  LayoutOf(token) \in Seq(Types)
<1>1. Value("i64") \in Types
  BY DEF Value, Types, DTypes, Scalars
<1>2. CASE token.is \notin {"type", "tuple"}
  <2>1. token.is \in {"number", "bool", "text", "jit", "nullopt", "broken"}
    BY <1>2 DEF Token
  <2>2. LayoutOf(token) \in {<<>>, <<Value("i64")>>}
    BY <2>1 DEF LayoutOf
  <2>3. <<>> \in Seq(Types) /\ <<Value("i64")>> \in Seq(Types)
    BY <1>1
  <2>4. QED
    BY <2>2, <2>3
<1>3. CASE token.is \in {"type", "tuple"}
  <2>1. token.types \in Seq(Types)
    BY <1>3 DEF Token, Types
  <2>2. LayoutOf(token) = [n \in DOMAIN token.types |-> LayoutType(token.types[n])]
    BY <1>3 DEF LayoutOf
  <2>3. \A n \in DOMAIN token.types : LayoutType(token.types[n]) \in Types
    BY <1>1, <2>1 DEF LayoutType
  <2>4. DOMAIN token.types = 1 .. Len(token.types) /\ Len(token.types) \in Nat
    BY <2>1
  <2>5. LayoutOf(token) \in [1 .. Len(token.types) -> Types]
    BY <2>2, <2>3, <2>4
  <2>6. QED
    BY <2>4, <2>5
<1>4. QED
  BY <1>2, <1>3

LayoutAt == [i \in DOMAIN tokens |-> LayoutOf(tokens[i])]
LEMMA LayoutTyped ==
  ASSUME pc # "thrown", Answered
  PROVE  /\ LayoutAt \in Seq(Seq(Types)) /\ Len(LayoutAt) = Len(tokens)
         /\ Layout(tokens) = FlattenSeq(LayoutAt) /\ Layout(tokens) \in Seq(Types)
<1>1. tokens \in Seq(Token) /\ DOMAIN tokens = 1 .. Len(tokens) /\ Len(tokens) \in Nat
  BY DEF Answered
<1>2. \A i \in 1 .. Len(tokens) : LayoutOf(tokens[i]) \in Seq(Types)
  BY <1>1, LayoutTypes
<1>3. LayoutAt \in [1 .. Len(tokens) -> Seq(Types)]
  BY <1>1, <1>2 DEF LayoutAt
<1>4. LayoutAt \in Seq(Seq(Types)) /\ Len(LayoutAt) = Len(tokens)
  BY <1>1, <1>3
<1>5. Layout(tokens) = FlattenSeq(LayoutAt)
  BY DEF Layout, LayoutAt
<1>6. QED
  BY <1>4, <1>5, FlattenType

LEMMA EntriesMatch ==
  ASSUME kernel \in Kernels, args \in Seq(Argument), pc # "thrown", Answered, build = "npu", ~TextLost
  PROVE  Len(Pushes) = Len(Layout(tokens))
<1>1. /\ DOMAIN args = 1 .. Len(args) /\ DOMAIN tokens = 1 .. Len(args) /\ Len(tokens) = Len(args)
      /\ \A i \in 1 .. Len(args) : tokens[i] = HandleArg(args[i], i).token
  BY DEF Answered
<1>2. PushedAt \in Seq(Seq(Passable)) /\ Len(PushedAt) = Len(args)
  BY PushesTyped
<1>3. /\ LayoutAt \in Seq(Seq(Types)) /\ Len(LayoutAt) = Len(args)
      /\ Layout(tokens) = FlattenSeq(LayoutAt)
  BY <1>1, LayoutTyped
<1> DEFINE R == Passable \X Types
<1>4. ASSUME NEW i \in 1 .. Len(args)
      PROVE  Alike(PushedAt[i], LayoutAt[i], R)
  <2>1. PushedAt[i] = HandleArg(args[i], i).pushed /\ LayoutAt[i] = LayoutOf(HandleArg(args[i], i).token)
    BY <1>1 DEF PushedAt, LayoutAt
  <2>2. Unwrapped(args[i]).form # "text"
    BY <1>1 DEF TextLost
  <2>3. Len(PushedAt[i]) = Len(LayoutAt[i])
    BY <2>1, <2>2, AllMade, LayoutLength
  <2>4. PushedAt[i] \in Seq(Passable) /\ LayoutAt[i] \in Seq(Types)
    BY <1>2, <1>3
  <2>5. QED
    BY <2>3, <2>4 DEF Alike
<1> HIDE DEF R
<1>5. Alike(FlattenSeq(PushedAt), FlattenSeq(LayoutAt), R)
  BY <1>2, <1>3, <1>4, FlattenAlike
<1>6. QED
  BY <1>3, <1>5 DEF Alike, Pushes

\* The scratch pointers go behind what was pushed.
LEMMA ScratchBehind ==
  ASSUME NEW vs \in Seq(Passable), Holds(buffer, vs)
  PROVE  Holds(AppendGlobalScratch(buffer), vs \o Behind) /\ vs \o Behind \in Seq(Passable)
<1>1. Scratch \in Passable
  <2>1. Pointer("i8") \in Types
    BY DEF Types, DTypes
  <2>2. QED
    BY <2>1 DEF Scratch, Passable
<1>2. CASE build = "npu"
  <2>1. Behind = <<>> /\ AppendGlobalScratch(buffer) = buffer
    BY <1>2 DEF Behind, AppendGlobalScratch
  <2>2. vs \o <<>> = vs
    OBVIOUS
  <2>3. QED
    BY <2>1, <2>2
<1>3. CASE build # "npu"
  <2> DEFINE one == Append(vs, Scratch)
             two == Append(one, Scratch)
             b   == PushArg(buffer, Scratch)
  <2>1. Behind = <<Scratch, Scratch>> /\ AppendGlobalScratch(buffer) = PushArg(b, Scratch)
    BY <1>3 DEF Behind, AppendGlobalScratch, Scratch
  <2>2. one \in Seq(Passable) /\ two \in Seq(Passable)
    BY <1>1
  <2>3. two = vs \o <<Scratch, Scratch>>
    <3> DEFINE s == Scratch
               w == vs \o <<s, s>>
               n == Len(vs)
    <3>1. s \in Passable /\ n \in Nat
      BY <1>1
    <3> HIDE DEF s
    <3>2. /\ w \in Seq(Passable) /\ Len(w) = n + 2 /\ w[n + 1] = s /\ w[n + 2] = s
          /\ \A i \in 1 .. n : w[i] = vs[i]
      BY <3>1
    <3>3. /\ two \in Seq(Passable) /\ Len(two) = n + 2 /\ two[n + 1] = s /\ two[n + 2] = s
          /\ \A i \in 1 .. n : two[i] = vs[i]
      BY <3>1 DEF s
    <3> HIDE DEF two, w, n
    <3>4. \A i \in 1 .. n + 2 : i \in 1 .. n \/ i = n + 1 \/ i = n + 2
      BY <3>1
    <3>5. two = w
      BY ONLY <3>2, <3>3, <3>4, SameSequence
    <3>6. QED
      BY <3>5 DEF w, s
  <2>4. Holds(b, one)
    BY <1>1, PushHolds
  <2>5. Holds(PushArg(b, Scratch), two)
    BY <1>1, <2>2, <2>4, PushHolds
  <2>6. QED
    BY <2>1, <2>2, <2>3, <2>5
<1>4. QED
  BY <1>2, <1>3

LEMMA ArgumentsInvFind ==
  ASSUME ArgumentsInv, Find
  PROVE  ArgumentsInv'
<1>1. PICK sig, k : sig = Signature(tokens) /\ k = MakeKey(sig, setting)
  OBVIOUS
<1>2. /\ pc = "handling" /\ buffer' = AppendGlobalScratch(buffer)
      /\ Fixed /\ UNCHANGED <<setting, args, tokens, packed, calls>>
      /\ \/ setting.extra \cap Reserved # {} /\ pc' = "thrown" /\ UNCHANGED <<overloads, key>>
         \/ /\ setting.extra \cap Reserved = {} /\ k \in DOMAIN overloads
            /\ pc' = "found" /\ key' = k /\ UNCHANGED overloads
         \/ /\ setting.extra \cap Reserved = {} /\ Compiles(sig) /\ pc' = "found" /\ key' = k
            /\ overloads' = [q \in DOMAIN overloads \cup {k} |->
                               IF q = k THEN Compiled(sig, setting) ELSE overloads[q]]
         \/ ~Compiles(sig) /\ pc' = "thrown" /\ UNCHANGED <<overloads, key>>
  BY <1>1 DEF Find
<1>3. Frame /\ Answered /\ Overloaded /\ Keyed /\ Buffered
  BY DEF ArgumentsInv
<1>4. kernel' = kernel /\ build' = build /\ pooled' = pooled /\ kinds' = kinds
  BY <1>2 DEF Fixed, kinds
<1>5. kernel \in Kernels /\ args \in Seq(Argument) /\ setting \in kernel.settings
  BY <1>2, <1>3 DEF Frame
<1>6. pc' \in {"found", "thrown"}
  BY <1>2
<1>7. Frame'
  BY <1>2, <1>3, <1>4, <1>6 DEF Frame
<1>8. Answered'
  <2>1. \A given, i : HandleArg(given, i)' = HandleArg(given, i)
    BY <1>2, SameAnswers
  <2>2. QED
    BY <1>2, <1>3, <2>1 DEF Answered
<1>9. Overloaded'
  <2>1. CASE UNCHANGED overloads
    BY <1>2, <1>3, <2>1, OverloadsStay
  <2>2. CASE /\ Compiles(sig)
             /\ overloads' = [q \in DOMAIN overloads \cup {k} |->
                                IF q = k THEN Compiled(sig, setting) ELSE overloads[q]]
    <3>1. k.sig = sig /\ k = MakeKey(k.sig, setting)
      BY <1>1 DEF MakeKey
    <3>2. \A s, ts : Compiled(ts, s)' = Compiled(ts, s) /\ Compiles(ts)' = Compiles(ts)
      BY <1>2, SameCompiler
    <3>3. ASSUME NEW q \in DOMAIN overloads'
          PROVE  /\ q.sig \in Seq(Token) /\ Compiles(q.sig)'
                 /\ \E s \in kernel'.settings : OverloadOf(q, s)'
      <4>1. CASE q = k
        <5>1. overloads'[q] = Compiled(sig, setting)
          BY <2>2, <4>1
        <5>2. PICK s : s = setting
          OBVIOUS
        <5>3. OverloadOf(q, s)'
          BY <3>1, <3>2, <4>1, <5>1, <5>2 DEF OverloadOf
        <5>4. sig \in Seq(Token)
          BY <1>1, <1>2, <1>3, SignatureTypes DEF Answered
        <5>5. Compiles(q.sig)'
          BY <2>2, <3>1, <3>2, <4>1
        <5>6. QED
          BY <1>4, <1>5, <3>1, <4>1, <5>2, <5>3, <5>4, <5>5
      <4>2. CASE q # k
        <5>1. q \in DOMAIN overloads /\ overloads'[q] = overloads[q]
          BY <2>2, <4>2
        <5>2. PICK s \in kernel.settings : OverloadOf(q, s)
          BY <1>3, <5>1 DEF Overloaded
        <5>3. OverloadOf(q, s)'
          BY <3>2, <5>1, <5>2 DEF OverloadOf
        <5>4. q.sig \in Seq(Token) /\ Compiles(q.sig)
          BY <1>3, <5>1 DEF Overloaded
        <5>5. QED
          BY <1>4, <3>2, <5>2, <5>3, <5>4
      <4>3. QED
        BY <4>1, <4>2
    <3>4. QED
      BY <3>3 DEF Overloaded
  <2>3. QED
    BY <1>2, <2>1, <2>2
<1>10. Keyed'
  <2>1. MakeKey(Signature(tokens), setting)' = k
    BY <1>1, <1>2
  <2>2. CASE pc' = "found"
    <3>1. key' = k /\ k \in DOMAIN overloads' /\ setting.extra \cap Reserved = {}
      BY <1>2, <2>2
    <3>2. QED
      BY <1>1, <1>2, <2>1, <2>2, <3>1 DEF Keyed
  <2>3. CASE pc' = "thrown"
    BY <1>2, <1>3, <2>3 DEF Keyed
  <2>4. QED
    BY <1>6, <2>2, <2>3
<1>11. Buffered'
  <2>1. Holds(buffer, Pushes) /\ Pushes \in Seq(Passable)
    BY <1>2, <1>3 DEF Buffered, Held
  <2>2. PICK all : all = Pushes \o Behind
    OBVIOUS
  <2>3. Holds(buffer', all) /\ all \in Seq(Passable)
    BY <1>2, <2>1, <2>2, ScratchBehind
  <2>4. Pushes' = Pushes /\ Behind' = Behind
    BY <1>2, SamePushes
  <2>5. Held(all)'
    BY <1>6, <2>2, <2>3, <2>4 DEF Held
  <2>6. QED
    BY <2>5 DEF Buffered
<1>12. Blocked'
  BY <1>6 DEF Blocked
<1>13. Thrown'
  <2>1. CASE setting.extra \cap Reserved # {}
    <3>1. Misused'
      BY <1>2, <2>1 DEF Misused
    <3>2. QED
      BY <3>1 DEF Thrown
  <2>2. CASE ~Compiles(sig) /\ (TextBreaks \/ TextSplits)
    <3>1. Texts' = Texts /\ \A i : Spelt(i)' = Spelt(i)
      BY <1>2 DEF Texts, Spelt
    <3>2. TextBreaks' \/ TextSplits'
      BY <2>2, <3>1 DEF TextBreaks, TextSplits
    <3>3. QED
      BY <3>2 DEF Thrown
  <2>3. CASE ~Compiles(sig) /\ ~TextBreaks /\ ~TextSplits
    <3>1. Len(args) # Len(kinds) \/ \E i \in DOMAIN args : Unsuitable(args[i], i)
      BY <1>1, <1>2, <1>3, <1>5, <2>3, CompilesWhatSuits
    <3>2. \A given, i : Unsuitable(given, i)' = Unsuitable(given, i)
      BY <1>2, SameAnswers
    <3>3. (Len(args) # Len(kinds))' = (Len(args) # Len(kinds))
      BY <1>2, <1>4
    <3>4. (\E i \in DOMAIN args : Unsuitable(args[i], i))' = (\E i \in DOMAIN args : Unsuitable(args[i], i))
      BY <1>2, <3>2
    <3>5. Misused'
      BY <3>1, <3>3, <3>4 DEF Misused
    <3>6. QED
      BY <3>5 DEF Thrown
  <2>4. CASE pc' = "found"
    BY <2>4 DEF Thrown
  <2>5. QED
    BY <1>2, <2>1, <2>2, <2>3, <2>4
<1>14. QED
  BY <1>7, <1>8, <1>9, <1>10, <1>11, <1>12, <1>13 DEF ArgumentsInv

\* The block of a launch, of any buffer.
PushFrom(b, block, n, t) ==
  LET from == IF n \in DOMAIN b.offsets THEN b.offsets[n] ELSE Len(b.bytes)
  IN  Written(block, [k \in 1 .. SizeOf(t) |-> ByteAt(b.bytes, from + k)], SizeOf(t))
Packed(b, layout) ==
  LET user == FoldLeft(LAMBDA block, n : PushFrom(b, block, n, layout[n]),
                       SystemArgs, [n \in DOMAIN layout |-> n])
      WithGrid(block) == Written(block, BytesOf(GridArg), 4)
  IN  WithGrid(WithGrid(WithGrid(user)))
LEMMA PackIsPacked == \A layout : Pack(layout) = Packed(buffer, layout)
BY DEF Pack, Packed, PushByType, PushFrom

LEMMA SameBlock ==
  ASSUME UNCHANGED buffer
  PROVE  \A layout : Pack(layout)' = Pack(layout)
<1>1. (\A layout : Pack(layout) = Packed(buffer, layout))'
  BY PackIsPacked, PTL
<1>2. QED
  BY <1>1, PackIsPacked

LEMMA ArgumentsInvLaunch ==
  ASSUME ArgumentsInv, Launch
  PROVE  ArgumentsInv'
<1>1. PICK layout : layout = Layout(Signature(tokens))
  OBVIOUS
<1>2. PICK entries : entries = Len(buffer.offsets)
  OBVIOUS
<1>3. /\ pc = "found" /\ Fixed /\ UNCHANGED <<setting, args, tokens, buffer, overloads, key, calls>>
      /\ \/ build # "npu" /\ pc' = "launched"
         \/ build = "npu" /\ entries \notin {0, Len(layout)} /\ pc' = "thrown"
         \/ build = "npu" /\ entries \in {0, Len(layout)} /\ pc' = "launched" /\ packed' = Pack(layout)
  BY <1>1, <1>2 DEF Launch
<1>4. Frame /\ Answered /\ Overloaded /\ Keyed /\ Buffered
  BY DEF ArgumentsInv
<1>5. kernel' = kernel /\ build' = build /\ pooled' = pooled /\ kinds' = kinds
  BY <1>3 DEF Fixed, kinds
<1>6. kernel \in Kernels /\ args \in Seq(Argument) /\ setting \in kernel.settings
  BY <1>3, <1>4 DEF Frame
<1>7. pc' \in {"launched", "thrown"}
  BY <1>3
<1>8. Frame'
  BY <1>3, <1>4, <1>5, <1>7 DEF Frame
<1>9. Answered'
  <2>1. \A given, i : HandleArg(given, i)' = HandleArg(given, i)
    BY <1>3, SameAnswers
  <2>2. QED
    BY <1>3, <1>4, <2>1 DEF Answered
<1>10. Overloaded'
  BY <1>3, <1>4, OverloadsStay
<1>11. Keyed'
  <2>1. MakeKey(Signature(tokens), setting)' = MakeKey(Signature(tokens), setting)
    BY <1>3
  <2>2. QED
    BY <1>3, <1>4, <1>7, <2>1 DEF Keyed
<1>12. PICK vs : Held(vs)
  BY <1>4 DEF Buffered
<1>13. Holds(buffer, vs) /\ vs = Pushes \o Behind /\ vs \in Seq(Passable)
  BY <1>3, <1>12 DEF Held
<1>14. Buffered'
  <2>1. Pushes' = Pushes /\ Behind' = Behind
    BY <1>3, SamePushes
  <2>2. Held(vs)'
    BY <1>3, <1>7, <1>13, <2>1 DEF Held
  <2>3. QED
    BY <2>2 DEF Buffered
<1>15. Blocked'
  <2>1. CASE pc' = "launched" /\ build = "npu"
    <3>1. packed' = Pack(layout) /\ entries \in {0, Len(layout)}
      BY <1>3, <2>1
    <3>2. Pack(layout)' = Pack(layout)
      BY <1>3, SameBlock
    <3>3. layout = Layout(Signature(tokens))' /\ entries = Len(buffer.offsets)'
      BY <1>1, <1>2, <1>3
    <3>4. packed' = Pack(Layout(Signature(tokens)))' /\ Len(buffer.offsets)' \in {0, Len(Layout(Signature(tokens)))'}
      BY <3>1, <3>2, <3>3
    <3>5. QED
      BY <3>4 DEF Blocked
  <2>2. CASE ~(pc' = "launched" /\ build = "npu")
    BY <1>5, <2>2 DEF Blocked
  <2>3. QED
    BY <2>1, <2>2
<1>16. Thrown'
  <2>1. CASE pc' = "launched"
    BY <2>1 DEF Thrown
  <2>2. CASE pc' = "thrown"
    <3>1. build = "npu" /\ entries # Len(layout)
      BY <1>3, <2>2
    <3>2. TextLost
      <4>1. Behind = <<>>
        BY <3>1 DEF Behind
      <4>2. Pushes \in Seq(Passable)
        BY <1>3, <1>4, <1>6, PushesTyped
      <4>3. Pushes \o <<>> = Pushes
        BY <4>2
      <4>4. entries = Len(Pushes)
        BY <1>2, <1>13, <4>1, <4>3 DEF Holds
      <4>5. CASE ~TextLost
        <5>1. Signature(tokens) = tokens
          BY <1>3, <1>4, <1>6, <4>5, NoTextNoMisreading, ReadAsWritten
        <5>2. QED
          BY <1>1, <1>3, <1>4, <1>6, <3>1, <4>4, <4>5, <5>1, EntriesMatch
      <4>6. QED
        BY <4>5
    <3>3. TextLost'
      BY <3>2, <1>3 DEF TextLost
    <3>4. QED
      BY <3>1, <3>3, <1>5 DEF Thrown
  <2>3. QED
    BY <1>7, <2>1, <2>2
<1>17. QED
  BY <1>8, <1>9, <1>10, <1>11, <1>14, <1>15, <1>16 DEF ArgumentsInv

LEMMA ArgumentsInvKept ==
  ASSUME ArgumentsInv, [Next]_vars
  PROVE  ArgumentsInv'
<1>1. CASE UNCHANGED vars
  <2>1. Fixed /\ UNCHANGED <<pc, setting, args, tokens, buffer, overloads, key, packed, calls>>
    BY <1>1 DEF vars, Fixed
  <2>2. Frame /\ Answered /\ Overloaded /\ Keyed /\ Buffered /\ Blocked /\ Thrown
    BY DEF ArgumentsInv
  <2>3. kernel' = kernel /\ build' = build /\ pooled' = pooled /\ kinds' = kinds
    BY <2>1 DEF Fixed, kinds
  <2>4. Frame'
    BY <2>1, <2>2, <2>3 DEF Frame
  <2>5. Answered'
    <3>1. \A given, i : HandleArg(given, i)' = HandleArg(given, i)
      BY <2>1, SameAnswers
    <3>2. QED
      BY <2>1, <2>2, <3>1 DEF Answered
  <2>6. Overloaded'
    BY <2>1, <2>2, OverloadsStay
  <2>7. Keyed'
    <3>1. MakeKey(Signature(tokens), setting)' = MakeKey(Signature(tokens), setting)
      BY <2>1
    <3>2. QED
      BY <2>1, <2>2, <3>1 DEF Keyed
  <2>8. Buffered'
    <3>1. PICK vs : Held(vs)
      BY <2>2 DEF Buffered
    <3>2. Pushes' = Pushes /\ Behind' = Behind
      BY <2>1, SamePushes
    <3>3. Held(vs)'
      BY <2>1, <3>1, <3>2 DEF Held
    <3>4. QED
      BY <3>3 DEF Buffered
  <2>9. Blocked'
    <3>1. \A layout : Pack(layout)' = Pack(layout)
      BY <2>1, SameBlock
    <3>2. Layout(Signature(tokens))' = Layout(Signature(tokens))
      BY <2>1
    <3>3. Pack(Layout(Signature(tokens)))' = Pack(Layout(Signature(tokens)))
      BY <3>1, <3>2
    <3>4. QED
      BY <2>1, <2>2, <2>3, <3>2, <3>3 DEF Blocked
  <2>10. Thrown'
    <3>1. \A given, i : Unsuitable(given, i)' = Unsuitable(given, i)
      BY <2>1, SameAnswers
    <3>2. (\E i \in DOMAIN args : Unsuitable(args[i], i))' = (\E i \in DOMAIN args : Unsuitable(args[i], i))
      BY <2>1, <3>1
    <3>3. Misused' = Misused
      BY <2>1, <2>3, <3>2 DEF Misused
    <3>4. TextLost' = TextLost /\ Texts' = Texts /\ \A i : Spelt(i)' = Spelt(i)
      BY <2>1 DEF TextLost, Texts, Spelt
    <3>5. TextBreaks' = TextBreaks /\ TextSplits' = TextSplits
      BY <3>4 DEF TextBreaks, TextSplits
    <3>6. QED
      BY <2>1, <2>2, <2>3, <3>3, <3>4, <3>5 DEF Thrown
  <2>11. QED
    BY <2>4, <2>5, <2>6, <2>7, <2>8, <2>9, <2>10 DEF ArgumentsInv
<1>2. CASE Begin
  BY <1>2, ArgumentsInvBegin
<1>3. CASE Handle
  BY <1>3, ArgumentsInvHandle
<1>4. CASE Find
  BY <1>4, ArgumentsInvFind
<1>5. CASE Launch
  BY <1>5, ArgumentsInvLaunch
<1>6. CASE Return
  BY <1>6, ArgumentsInvReturn
<1>7. QED
  BY <1>1, <1>2, <1>3, <1>4, <1>5, <1>6 DEF Next

\* Every reachable state satisfies the invariant.
THEOREM ArgumentsKept == Spec => []ArgumentsInv
<1>1. Init => ArgumentsInv
  BY ArgumentsInvInit
<1>2. ArgumentsInv /\ [Next]_vars => ArgumentsInv'
  BY ArgumentsInvKept
<1>3. QED
  BY <1>1, <1>2, PTL DEF Spec

-----------------------------------------------------------------------------
(* What follows from the invariant.                                          *)

\* The kernel of a call is what the compiler makes of the call's own signature and
\* options, whichever call it was compiled for.
LEMMA KernelOfCall ==
  ASSUME ArgumentsInv, pc \in {"found", "launched"}
  PROVE  /\ Program = Compiled(Signature(tokens), setting) /\ Compiles(Signature(tokens))
         /\ setting.extra \cap Reserved = {}
<1>1. Frame /\ Overloaded /\ Keyed
  BY DEF ArgumentsInv
<1>2. PICK sig : sig = Signature(tokens)
  OBVIOUS
<1>3. /\ kernel \in Kernels /\ setting \in kernel.settings
      /\ key = MakeKey(sig, setting) /\ key \in DOMAIN overloads /\ setting.extra \cap Reserved = {}
  BY <1>1, <1>2 DEF Frame, Keyed
<1>4. key.sig = sig
  BY <1>3 DEF MakeKey
<1>5. PICK s \in kernel.settings : OverloadOf(key, s)
  BY <1>1, <1>3 DEF Overloaded
<1>6. Compiles(sig)
  BY <1>1, <1>3, <1>4 DEF Overloaded
<1>7. MakeKey(sig, s) = MakeKey(sig, setting) /\ Program = Compiled(sig, s)
  BY <1>3, <1>4, <1>5 DEF OverloadOf, Program
<1>8. s = setting
  <2>1. s \in Setting /\ setting \in Setting
    BY <1>3, <1>5, KernelsAssumption
  <2>2. /\ s.warps = setting.warps /\ s.stages = setting.stages /\ s.extra = setting.extra
        /\ s.device = setting.device
    BY <1>7 DEF MakeKey
  <2>3. \A x \in Setting : x = [warps |-> x.warps, stages |-> x.stages, extra |-> x.extra, device |-> x.device]
    BY DEF Setting
  <2>4. QED
    BY <2>1, <2>2, <2>3
<1>9. QED
  BY <1>2, <1>3, <1>6, <1>7, <1>8

\* The same of a call without text, whose arguments suit their parameters.
LEMMA ProgramOfCall ==
  ASSUME ArgumentsInv, pc \in {"found", "launched"}, ~TextLost
  PROVE  /\ Program = Compiled(tokens, setting) /\ Compiles(tokens) /\ tokens \in Seq(Token)
         /\ Signature(tokens) = tokens
         /\ Len(args) = Len(kinds) /\ \A i \in DOMAIN args : ~Unsuitable(args[i], i)
<1>1. Frame /\ Answered /\ kernel \in Kernels /\ args \in Seq(Argument) /\ pc # "thrown"
  BY DEF ArgumentsInv, Frame
<1>2. ~TextMisread /\ ~TextTaken /\ ~TextSplits
  BY NoTextNoMisreading
<1>3. Signature(tokens) = tokens
  BY <1>1, <1>2, ReadAsWritten
<1>4. Len(args) = Len(kinds) /\ \A i \in DOMAIN args : ~Unsuitable(args[i], i)
  BY <1>1, <1>2, KernelOfCall, CompilesWhatSuits
<1>5. QED
  BY <1>1, <1>3, <1>4, KernelOfCall DEF Answered

\* The parameters of a parameter's token, and all of them.
ParametersOf(sig) ==
  [i \in DOMAIN sig |-> IF i \in ConstantIndices(sig) THEN <<>> ELSE ParametersAt(sig, i)]
AnyParameter(sig) ==
  UNION {{ParametersAt(sig, i)[n] : n \in DOMAIN ParametersAt(sig, i)} : i \in DOMAIN sig \ ConstantIndices(sig)}
LEMMA ParametersTyped ==
  ASSUME NEW sig \in Seq(Token), Compiles(sig)
  PROVE  /\ ParametersOf(sig) \in Seq(Seq(AnyParameter(sig))) /\ Len(ParametersOf(sig)) = Len(sig)
         /\ Parameters(sig) = FlattenSeq(ParametersOf(sig))
         /\ Parameters(sig) \in Seq(AnyParameter(sig))
<1> DEFINE S == AnyParameter(sig)
<1>1. DOMAIN sig = 1 .. Len(sig) /\ Len(sig) \in Nat
  OBVIOUS
<1>2. ASSUME NEW i \in DOMAIN sig, i \notin ConstantIndices(sig)
      PROVE  ParametersAt(sig, i) \in Seq(S)
  <2>1. PICK ps : ps = ParametersAt(sig, i)
    OBVIOUS
  <2>2. \E n \in Nat : DOMAIN ps = 1 .. n /\ ps = [m \in 1 .. n |-> ps[m]]
    <3>1. CASE sig[i].is = "type"
      BY <2>1, <3>1 DEF ParametersAt
    <3>2. CASE sig[i].is # "type"
      <4>1. sig[i] \in Token /\ HasTypes(sig[i])
        BY <1>2 DEF Compiles
      <4>2. sig[i].types \in Seq(Types)
        BY <4>1 DEF Token, HasTypes, Types
      <4>3. DOMAIN sig[i].types = 1 .. Len(sig[i].types) /\ Len(sig[i].types) \in Nat
        BY <4>2
      <4>4. ps = [n \in DOMAIN sig[i].types |-> [index |-> i, element |-> n, type |-> sig[i].types[n]]]
        BY <2>1, <3>2 DEF ParametersAt
      <4>5. QED
        BY <4>3, <4>4
    <3>3. QED
      BY <3>1, <3>2
  <2>3. \A m \in DOMAIN ps : ps[m] \in S
    BY <1>2, <2>1 DEF AnyParameter
  <2>4. QED
    BY <2>1, <2>2, <2>3
<1>3. <<>> \in Seq(S)
  OBVIOUS
<1> HIDE DEF S
<1>4. ParametersOf(sig) \in [1 .. Len(sig) -> Seq(S)]
  BY <1>1, <1>2, <1>3 DEF ParametersOf
<1>5. ParametersOf(sig) \in Seq(Seq(S)) /\ Len(ParametersOf(sig)) = Len(sig)
  BY <1>1, <1>4
<1>6. Parameters(sig) = FlattenSeq(ParametersOf(sig))
  BY DEF Parameters, ParametersOf
<1>7. QED
  BY <1>5, <1>6, FlattenType DEF S

LEMMA ParametersAreNoConstants ==
  ASSUME NEW sig \in Seq(Token), Compiles(sig), NEW n \in DOMAIN Parameters(sig)
  PROVE  Parameters(sig)[n].index \in DOMAIN sig \ ConstantIndices(sig)
<1>1. Parameters(sig)[n] \in AnyParameter(sig)
  BY ParametersTyped
<1>2. PICK i, m : /\ i \in DOMAIN sig \ ConstantIndices(sig) /\ m \in DOMAIN ParametersAt(sig, i)
                  /\ Parameters(sig)[n] = ParametersAt(sig, i)[m]
  BY <1>1 DEF AnyParameter
<1>3. ParametersAt(sig, i)[m].index = i
  <2>1. CASE sig[i].is = "type"
    <3>1. m = 1
      BY <1>2, <2>1 DEF ParametersAt
    <3>2. QED
      BY <2>1, <3>1 DEF ParametersAt
  <2>2. CASE sig[i].is # "type"
    BY <1>2, <2>2 DEF ParametersAt
  <2>3. QED
    BY <2>1, <2>2
<1>4. QED
  BY <1>2, <1>3

LEMMA TypeOKHolds ==
  ASSUME ArgumentsInv
  PROVE  TypeOK
<1>1. Frame /\ Answered /\ Overloaded /\ Keyed /\ Buffered
  BY DEF ArgumentsInv
<1>2. ASSUME NEW n \in DOMAIN buffer.offsets
      PROVE  buffer.offsets[n] < Len(buffer.bytes)
  <2>1. PICK vs : Held(vs)
    BY <1>1 DEF Buffered
  <2>2. buffer \in Buffers /\ Len(buffer.offsets) = Len(vs) /\ \A m \in 1 .. Len(vs) : HoldsAt(buffer, buffer.offsets[m], vs[m])
    BY <2>1 DEF Held, Holds
  <2>3. buffer.offsets \in Seq(Nat) /\ buffer.bytes \in Seq(Byte)
    BY <2>2 DEF Buffers
  <2>4. n \in 1 .. Len(vs) /\ buffer.offsets[n] \in Nat /\ Len(buffer.bytes) \in Nat
    BY <2>2, <2>3
  <2>5. buffer.offsets[n] + SizeOf(vs[n].type) <= Len(buffer.bytes)
    BY <2>2, <2>4 DEF HoldsAt
  <2>6. SizeOf(vs[n].type) \in {1, 4, 8}
    BY Sizes
  <2>7. QED
    BY <2>4, <2>5, <2>6
<1>3. ASSUME NEW k \in DOMAIN overloads, NEW n \in DOMAIN overloads[k].parameters
      PROVE  overloads[k].parameters[n].index \notin DOMAIN overloads[k].constants
  <2>1. k.sig \in Seq(Token) /\ Compiles(k.sig) /\ \E s \in kernel.settings : OverloadOf(k, s)
    BY <1>1 DEF Overloaded
  <2>2. overloads[k].parameters = Parameters(k.sig) /\ overloads[k].constants = Constants(k.sig)
    BY <2>1 DEF OverloadOf, Compiled
  <2>3. DOMAIN Constants(k.sig) = ConstantIndices(k.sig)
    BY DEF Constants
  <2>4. QED
    BY <1>3, <2>1, <2>2, <2>3, ParametersAreNoConstants
<1>4. setting \in kernel.settings \cup {None}
  BY <1>1 DEF Frame
<1>5. pc # "thrown" => Len(tokens) = Len(args)
  BY <1>1 DEF Answered
<1>6. QED
  BY <1>1, <1>2, <1>3, <1>4, <1>5 DEF TypeOK, Frame, Keyed

\* Types, one token per argument, and no parameter that is both a constant and passed
\* at run time (standalone_compile.py, _compile_a_kernel), for every kernel, build and
\* argument.
THEOREM ArgumentsTypes == Spec => []TypeOK
BY ArgumentsKept, TypeOKHolds, PTL

\* Hints are true of every argument that led to the same token.
LEMMA SuitsHolds ==
  ASSUME ArgumentsInv
  PROVE  KernelSuitsCall
<1>1. ASSUME pc = "launched" PROVE Program.setting = setting
  BY <1>1, KernelOfCall DEF Compiled
<1>2. ASSUME pc = "launched", ~TextMisread
      PROVE  /\ \A i \in Program.sixteen : Passed(i, 1) % 16 = 0
             /\ \A i \in Program.range :
                  LET arg == Unwrapped(args[i])
                  IN  /\ arg.extent # None /\ arg.extent <= Largest(4)
                      /\ arg.form = "device_ptr" => arg.extent # 0
  <2>1. Frame /\ Answered
    BY DEF ArgumentsInv
  <2>2. /\ kernel \in Kernels /\ args \in Seq(Argument) /\ pc # "thrown"
        /\ DOMAIN tokens = 1 .. Len(args)
        /\ \A i \in 1 .. Len(args) : tokens[i] = HandleArg(args[i], i).token
    BY <1>2, <2>1 DEF Frame, Answered
  <2>3. Signature(tokens) = tokens
    BY <1>2, <2>1, <2>2, ReadAsWritten
  <2>4. Program = Compiled(tokens, setting)
    BY <1>2, <2>3, KernelOfCall
  <2>5. /\ \A i \in Program.sixteen : i \in 1 .. Len(args) /\ tokens[i].hint = 16
        /\ \A i \in Program.range : i \in 1 .. Len(args) /\ tokens[i].range
    BY <2>2, <2>4 DEF Compiled
  <2>6. \A i \in 1 .. Len(args) : Made(Unwrapped(args[i]), i, HandleArg(args[i], i))
    BY <2>1, <2>2, AllMade
  <2>7. ASSUME NEW i \in Program.sixteen
        PROVE  Passed(i, 1) % 16 = 0
    <3>1. i \in 1 .. Len(args) /\ HandleArg(args[i], i).token.hint = 16
      BY <2>2, <2>5
    <3>2. QED
      BY <2>6, <3>1, HintsAreTrue
  <2>8. ASSUME NEW i \in Program.range
        PROVE  LET arg == Unwrapped(args[i])
               IN  /\ arg.extent # None /\ arg.extent <= Largest(4)
                   /\ arg.form = "device_ptr" => arg.extent # 0
    <3>1. i \in 1 .. Len(args) /\ HandleArg(args[i], i).token.range
      BY <2>2, <2>5
    <3>2. QED
      BY <2>6, <3>1, HintsAreTrue
  <2>9. QED
    BY <2>7, <2>8
<1>3. QED
  BY <1>1, <1>2 DEF KernelSuitsCall

\* The kernel a launch finds under its key was specialised on what is true of the call:
\* the same options and device, pointers and numbers that are multiples of 16, extents a
\* 32-bit offset covers, unless a text was read as something else
\* (triton_jit_function.cpp, get_kernel; ArgHandle).
THEOREM SpecialisationsSuit == Spec => []KernelSuitsCall
BY ArgumentsKept, SuitsHolds, PTL

\* A launch was compiled for, and a refusal has its reason.
LEMMA DeservedHolds ==
  ASSUME ArgumentsInv
  PROVE  RefusalsAreDeserved
<1>1. ASSUME pc = "launched", ~TextTaken, ~TextSplits PROVE ~Misused
  <2>1. Answered /\ kernel \in Kernels /\ args \in Seq(Argument) /\ pc # "thrown"
    BY <1>1 DEF ArgumentsInv, Frame
  <2>2. Compiles(Signature(tokens)) /\ setting.extra \cap Reserved = {}
    BY <1>1, KernelOfCall
  <2>3. Len(args) = Len(kinds) /\ \A i \in DOMAIN args : ~Unsuitable(args[i], i)
    BY <1>1, <2>1, <2>2, CompilesWhatSuits
  <2>4. QED
    BY <2>2, <2>3 DEF Misused
<1>2. Thrown
  BY DEF ArgumentsInv
<1>3. QED
  BY <1>1, <1>2 DEF Thrown, RefusalsAreDeserved

\* A call reaches its kernel only if every argument suits its parameter, or a text was
\* taken for the type of a runtime parameter or for several tokens; and one that is
\* refused had an argument that does not suit, or a text that does not come back as one
\* token (ArgHandle's checks, the compiler's, the entry count of an NPU launch).
THEOREM RefusalsDeserved == Spec => []RefusalsAreDeserved
BY ArgumentsKept, DeservedHolds, PTL

-----------------------------------------------------------------------------
(* Reading a value back.                                                     *)

LEMMA SmallRemainder ==
  ASSUME NEW w \in Nat, NEW x \in Int, 0 <= x, x < w
  PROVE  (x % w) = x
OBVIOUS

LEMMA NegativeRemainder ==
  ASSUME NEW w \in Nat, NEW x \in Int, x < 0, -w <= x
  PROVE  (x % w) = x + w
OBVIOUS

\* How many values a type of some bytes has, and the largest signed one.
LEMMA Ranges ==
  ASSUME NEW s \in {1, 4, 8}
  PROVE  /\ Largest(s) \in Nat /\ 2 ^ (ByteBits * s) = (Largest(s) + 1) + (Largest(s) + 1)
         /\ s > 1 => 1 <= Largest(s)
<1> DEFINE n == ByteBits * s - 1
<1>1. ByteBits \in Nat \ {0}
  BY ArgumentsAssumption
<1>2. n \in Nat /\ ByteBits * s = n + 1 /\ (s > 1 => 3 <= n)
  <2>1. CASE s = 1
    BY <1>1, <2>1
  <2>2. CASE s = 4
    BY <1>1, <2>2
  <2>3. CASE s = 8
    BY <1>1, <2>3
  <2>4. QED
    BY <2>1, <2>2, <2>3
<1>3. Largest(s) = 2 ^ n - 1
  BY DEF Largest
<1> HIDE DEF n
<1>4. 2 ^ (n + 1) = 2 ^ n + 2 ^ n /\ 2 ^ n \in Nat
  BY <1>2, Doubling
<1>5. n < 2 ^ n
  BY <1>2, PowersGrow
<1>6. Largest(s) \in Nat /\ (s > 1 => 1 <= Largest(s))
  BY <1>2, <1>3, <1>4, <1>5
<1>7. 2 ^ (ByteBits * s) = 2 ^ (n + 1)
  BY <1>2
<1>8. QED
  BY <1>3, <1>4, <1>6, <1>7

\* An integer survives being written and read with a type that holds it.
LEMMA WrappedSigned ==
  ASSUME NEW t, Signed(t), NEW x \in Int, -Largest(SizeOf(t)) - 1 <= x, x <= Largest(SizeOf(t))
  PROVE  Wrapped(x, t) = x
<1> DEFINE s == SizeOf(t)
           l == Largest(s)
           w == 2 ^ (ByteBits * s)
<1>1. s \in {1, 4, 8}
  BY Sizes
<1>2. l \in Nat /\ w = (l + 1) + (l + 1)
  BY <1>1, Ranges
<1>3. Wrapped(x, t) = IF (x % w) > l THEN (x % w) - w ELSE (x % w)
  BY DEF Wrapped
<1>4. -l - 1 <= x /\ x <= l
  OBVIOUS
<1> HIDE DEF l, w
<1>5. CASE 0 <= x
  <2>1. w \in Nat /\ x < w
    BY <1>2, <1>4
  <2>2. (x % w) = x
    BY <2>1, <1>5, SmallRemainder
  <2>3. QED
    BY <1>2, <1>3, <1>4, <2>2
<1>6. CASE x < 0
  <2>1. w \in Nat /\ -w <= x
    BY <1>2, <1>4
  <2>2. (x % w) = x + w
    BY <2>1, <1>6, NegativeRemainder
  <2>3. x + w > l
    BY <1>2, <1>4
  <2>4. QED
    BY <1>2, <1>3, <2>2, <2>3
<1>7. QED
  BY <1>5, <1>6

LEMMA WrappedUnsigned ==
  ASSUME NEW t, ~Signed(t), NEW x \in Int, 0 <= x, x <= 2 * Largest(SizeOf(t)) + 1
  PROVE  Wrapped(x, t) = x
<1> DEFINE s == SizeOf(t)
           l == Largest(s)
           w == 2 ^ (ByteBits * s)
<1>1. s \in {1, 4, 8}
  BY Sizes
<1>2. l \in Nat /\ w = (l + 1) + (l + 1)
  BY <1>1, Ranges
<1>3. Wrapped(x, t) = x % w
  BY DEF Wrapped
<1>4. x <= 2 * l + 1
  OBVIOUS
<1> HIDE DEF l, w
<1>5. w \in Nat /\ x < w
  BY <1>2, <1>4
<1>6. QED
  BY <1>3, <1>5, SmallRemainder

\* What a number of a type can be.
LEMMA RangeOf ==
  ASSUME NEW v, InRange(v)
  PROVE  /\ Signed(v.type) => v.value \in -Largest(SizeOf(v.type)) - 1 .. Largest(SizeOf(v.type))
         /\ v.type = Value("i1") => v.value \in {0, 1}
         /\ v.type.name \in {"u32", "u64"} => v.value \in 0 .. 2 * Largest(SizeOf(v.type)) + 1
<1> DEFINE t == v.type
           A == v.value \in -Largest(SizeOf(t)) - 1 .. Largest(SizeOf(t))
           B == v.value \in {0, 1}
           C == v.value \in 0 .. 2 * Largest(SizeOf(t)) + 1
           isB == t = Value("i1")
           isC == t.name \in {"u32", "u64"}
<1>1. (CASE Signed(t) -> A [] isB -> B [] isC -> C [] OTHER -> TRUE)
  BY DEF InRange
<1>2. ~(Signed(t) /\ isB) /\ ~(Signed(t) /\ isC) /\ ~(isB /\ isC)
  BY DEF Signed, Value
<1> HIDE DEF t, A, B, C, isB, isC
<1>3. (Signed(t) => A) /\ (isB => B) /\ (isC => C)
  BY <1>1, <1>2
<1>4. QED
  BY <1>3 DEF t, A, B, C, isB, isC

\* A kernel that takes a parameter of type t for a value v gets the value.
Reads(v, t) ==
  /\ SizeOf(t) <= SizeOf(v.type)
  /\ IF Integral(t) THEN Integral(v.type) /\ Wrapped(v.value, t) = v.value
     ELSE SizeOf(v.type) = SizeOf(t) /\ v.type.pointer = t.pointer

LEMMA NumberReads ==
  ASSUME NEW v \in Number(Scalars)
  PROVE  Reads(v, v.type) /\ Reads(v, NarrowType(v))
<1> DEFINE t == v.type
           s == SizeOf(t)
<1>1. /\ t.pointer = FALSE /\ t.name \in Scalars /\ t = Value(t.name) /\ v.value \in Int /\ InRange(v)
  BY NumberParts
<1>2. s \in {1, 4, 8} /\ SizeOf(Value("i32")) = 4
  BY Sizes DEF SizeOf, Value
<1>3. Largest(1) \in Nat /\ Largest(4) \in Nat /\ Largest(8) \in Nat
  BY Ranges
<1>4. Reads(v, t)
  <2>1. CASE Signed(t)
    <3>1. v.value \in -Largest(s) - 1 .. Largest(s)
      BY <1>1, <2>1, RangeOf
    <3>2. Largest(s) \in Int
      BY <1>2, <1>3
    <3>3. -Largest(s) - 1 <= v.value /\ v.value <= Largest(s)
      BY <3>1, <3>2, <1>1
    <3>4. Wrapped(v.value, t) = v.value
      BY <1>1, <2>1, <3>3, WrappedSigned
    <3>5. Integral(t)
      BY <1>1, <2>1 DEF Integral, Signed
    <3>6. QED
      BY <1>2, <3>4, <3>5 DEF Reads
  <2>2. CASE t.name \in {"i1", "u32", "u64"}
    <3>1. ~Signed(t) /\ Integral(t)
      BY <1>1, <2>2 DEF Signed, Integral
    <3>2. 0 <= v.value /\ v.value <= 2 * Largest(s) + 1
      <4>1. CASE t.name = "i1"
        <5>1. t = Value("i1")
          BY <1>1, <4>1
        <5>2. v.value \in {0, 1}
          BY <1>1, <5>1, RangeOf
        <5>3. Largest(s) \in Nat
          BY <1>2, <1>3
        <5>4. QED
          BY <5>2, <5>3
      <4>2. CASE t.name \in {"u32", "u64"}
        <5>2. v.value \in 0 .. 2 * Largest(s) + 1
          BY <1>1, <4>2, RangeOf
        <5>3. Largest(s) \in Nat
          BY <1>2, <1>3
        <5>4. QED
          BY <5>2, <5>3
      <4>3. QED
        BY <2>2, <4>1, <4>2
    <3>3. Wrapped(v.value, t) = v.value
      BY <1>1, <3>1, <3>2, WrappedUnsigned
    <3>4. QED
      BY <1>2, <3>1, <3>3 DEF Reads
  <2>3. CASE t.name \in {"fp32", "fp64"}
    <3>1. ~Integral(t)
      BY <2>3 DEF Integral
    <3>2. QED
      BY <1>2, <3>1 DEF Reads
  <2>4. QED
    BY <1>1, <2>1, <2>2, <2>3 DEF Signed, Scalars
<1>5. CASE NarrowType(v) = t
  BY <1>4, <1>5
<1>6. CASE NarrowType(v) # t
  <2> DEFINE n == Value("i32")
  <2>1. Integral(t) /\ Signed(t)
    BY <1>6 DEF NarrowType
  <2>2. t.name \in {"i32", "i64"}
    BY <2>1 DEF Signed
  <2>3. NarrowType(v) = n /\ v.value >= -Largest(4) - 1 /\ v.value <= Largest(4)
    <3>1. CASE v.value >= -Largest(4) - 1 /\ v.value <= Largest(4)
      BY <2>1, <3>1 DEF NarrowType
    <3>2. CASE ~(v.value >= -Largest(4) - 1 /\ v.value <= Largest(4))
      <4>1. NarrowType(v) = Value("i64")
        BY <2>1, <3>2 DEF NarrowType
      <4>2. t = Value("i32")
        BY <1>1, <1>6, <2>2, <4>1
      <4>3. v.value \in -Largest(4) - 1 .. Largest(4)
        BY <1>1, <1>2, <2>1, <4>2, RangeOf
      <4>4. QED
        BY <1>1, <1>3, <3>2, <4>3
    <3>3. QED
      BY <3>1, <3>2
  <2>4. Signed(n) /\ Integral(n) /\ SizeOf(n) = 4
    BY <1>2 DEF Signed, Integral, Value
  <2>5. t = Value("i64")
    BY <1>1, <1>6, <2>2, <2>3
  <2>6. SizeOf(t) = 8
    BY <2>5 DEF SizeOf, Value
  <2> HIDE DEF n
  <2>7. Wrapped(v.value, n) = v.value
    <3>1. -Largest(SizeOf(n)) - 1 <= v.value /\ v.value <= Largest(SizeOf(n))
      BY <1>1, <1>3, <2>3, <2>4
    <3>2. QED
      BY <1>1, <2>4, <3>1, WrappedSigned
  <2>8. QED
    BY <1>4, <2>1, <2>3, <2>4, <2>6, <2>7 DEF Reads
<1>7. QED
  BY <1>4, <1>5, <1>6

\* The bytes of a value of which a type reads the low ones, in place.
Inside(bytes, offset, v, t) ==
  /\ offset + SizeOf(t) <= Len(bytes)
  /\ \A k \in 1 .. SizeOf(t) : bytes[offset + k] = [of |-> v, byte |-> k]

LEMMA ReadBack ==
  ASSUME NEW bytes \in Seq(Byte), NEW offset \in Nat, NEW v \in Passable, NEW t,
         Inside(bytes, offset, v, t), Reads(v, t)
  PROVE  Read(bytes, offset, t) = v.value
<1>1. SizeOf(t) \in {1, 4, 8} /\ Len(bytes) \in Nat /\ DOMAIN bytes = 1 .. Len(bytes)
  BY Sizes
<1>2. \A k \in 1 .. SizeOf(t) : ByteAt(bytes, offset + k) = [of |-> v, byte |-> k]
  <2>1. ASSUME NEW k \in 1 .. SizeOf(t)
        PROVE  ByteAt(bytes, offset + k) = [of |-> v, byte |-> k]
    <3>1. offset + k \in DOMAIN bytes
      BY <1>1 DEF Inside
    <3>2. QED
      BY <3>1 DEF Inside, ByteAt
  <2>2. QED
    BY <2>1
<1>3. ByteAt(bytes, offset + 1).of = v
  <2>1. 1 \in 1 .. SizeOf(t)
    BY <1>1
  <2>2. ByteAt(bytes, offset + 1) = [of |-> v, byte |-> 1]
    BY <1>2, <2>1
  <2>3. QED
    BY <2>2
<1>4. v # None
  BY KernelsAssumption
<1> DEFINE first == ByteAt(bytes, offset + 1).of
           whole == /\ first # None
                    /\ \A k \in 1 .. SizeOf(t) : ByteAt(bytes, offset + k) = [of |-> first, byte |-> k]
<1>5. first = v /\ whole
  BY <1>2, <1>3, <1>4
<1>6. Read(bytes, offset, t) =
        CASE ~whole -> Garbage
          [] whole /\ Integral(t) /\ Integral(first.type) -> Wrapped(first.value, t)
          [] whole /\ ~Integral(t) /\ SizeOf(first.type) = SizeOf(t) /\ first.type.pointer = t.pointer -> first.value
          [] OTHER -> Garbage
  BY DEF Read
<1> HIDE DEF first, whole
<1>7. QED
  BY <1>5, <1>6 DEF Reads

-----------------------------------------------------------------------------
(* Each parameter reads what was pushed for it.                              *)

Suits(v, p) == v.value = Passed(p.index, p.element) /\ Reads(v, p.type)
Matched(xs, ps) == Len(xs) = Len(ps) /\ \A n \in 1 .. Len(xs) : Suits(xs[n], ps[n])
Unlost == ~TextLost /\ ~DoubleLost /\ ~BoolLost /\ ~OneNotFolded

LEMMA NothingMatches == Matched(<<>>, <<>>)
BY DEF Matched

LEMMA OneMatches ==
  ASSUME NEW v, NEW p, Suits(v, p)
  PROVE  Matched(<<v>>, <<p>>)
BY DEF Matched

\* Where a parameter of a type that is no constant comes from.
LEMMA NumberMatches ==
  ASSUME NEW i \in DOMAIN args, NEW r, tokens[i] = r.token, DOMAIN tokens = DOMAIN args,
         MadeNumber(Unwrapped(args[i]), i, r), Unlost
  PROVE  Matched(r.pushed, ParametersOf(tokens)[i])
<1>1. PICK a : a = Unwrapped(args[i])
  OBVIOUS
<1>2. PICK v \in Number(Scalars) : Taken(a, v) /\ RuntimeNumber(v, kinds[i], r)
  BY <1>1 DEF MadeNumber
<1>3. PICK hint \in {0, 1, 16} : NumberWith(v, kinds[i], r, hint)
  BY <1>2 DEF RuntimeNumber
<1>4. kinds[i] # "CONSTEXPR"
  BY DEF MadeNumber
<1>5. PICK t : t = NarrowType(v)
  OBVIOUS
<1>6. /\ r.token = Typed(t, hint, FALSE) /\ (build = "npu" => hint = 0)
      /\ r.pushed = IF hint = 1 /\ (pooled \/ kinds[i] # "SPECIALIZED") THEN <<>> ELSE <<v>>
  BY <1>3, <1>5 DEF NumberWith, Adds
<1>7. tokens[i].is = "type" /\ tokens[i].types = <<t>> /\ tokens[i].hint = hint
  BY <1>6 DEF Typed
<1>8. i \in ConstantIndices(tokens) <=> hint = 1
  BY <1>4, <1>7 DEF ConstantIndices
<1>9. CASE hint = 1
  <2>1. pooled \/ kinds[i] # "SPECIALIZED"
    <3>1. build # "npu" /\ tokens[i].hint = 1
      <4>1. build = "npu" => hint = 0
        BY <1>6
      <4>2. tokens[i].hint = hint
        BY <1>7
      <4>3. QED
        BY ONLY <1>9, <4>1, <4>2
    <3>2. ~OneNotFolded
      BY DEF Unlost
    <3>3. QED
      BY <3>1, <3>2 DEF OneNotFolded
  <2>2. r.pushed = <<>>
    BY <1>6, <1>9, <2>1
  <2>3. ParametersOf(tokens)[i] = <<>>
    BY <1>8, <1>9 DEF ParametersOf
  <2>4. QED
    BY <2>2, <2>3, NothingMatches
<1>10. CASE hint # 1
  <2>1. r.pushed = <<v>>
    BY <1>6, <1>10
  <2>2. PICK p : p = [index |-> i, element |-> 1, type |-> ParameterType(t)]
    OBVIOUS
  <2>3. ParametersOf(tokens)[i] = <<p>>
    BY <1>7, <1>8, <1>10, <2>2 DEF ParametersOf, ParametersAt
  <2>4. ~(build = "gcu" /\ t = Value("fp64"))
    <3>1. SUFFICES ASSUME build = "gcu", t = Value("fp64")
                   PROVE  FALSE
      OBVIOUS
    <3>2. v.type = Value("fp64")
      <4>1. Value("i32") # Value("fp64") /\ Value("i64") # Value("fp64")
        BY DEF Value
      <4>2. t \in {v.type, Value("i32"), Value("i64")}
        BY <1>5 DEF NarrowType
      <4>3. QED
        BY <3>1, <4>1, <4>2
    <3>3. a.form = "number" /\ a.number.type = Value("fp64")
      BY <1>2, <3>1, <3>2 DEF Taken
    <3>4. DoubleLost
      BY <1>1, <1>4, <3>1, <3>3 DEF DoubleLost
    <3>5. QED
      BY <3>4 DEF Unlost
  <2>5. ~(build = "npu" /\ t = Value("i1"))
    <3>1. SUFFICES ASSUME build = "npu", t = Value("i1")
                   PROVE  FALSE
      OBVIOUS
    <3>2. Value("i1") \in ToSet(tokens[i].types) /\ HasTypes(tokens[i])
      BY <1>7, <3>1 DEF ToSet, HasTypes
    <3>3. BoolLost
      BY <3>1, <3>2 DEF BoolLost
    <3>4. QED
      BY <3>3 DEF Unlost
  <2>6. p.type = t
    BY <2>2, <2>4, <2>5 DEF ParameterType
  <2>7. Reads(v, t)
    BY <1>5, NumberReads
  <2>8. v.value = Passed(p.index, p.element)
    <3>1. v.value = a.number.value /\ a.form \in {"number", "scalar"}
      BY <1>2 DEF Taken
    <3>2. Passed(i, 1) = a.number.value
      BY <1>1, <3>1 DEF Passed
    <3>3. QED
      BY <2>2, <3>1, <3>2
  <2>9. QED
    BY <2>1, <2>3, <2>6, <2>7, <2>8, OneMatches DEF Suits
<1>11. QED
  BY <1>9, <1>10

LEMMA PointerMatches ==
  ASSUME NEW i \in DOMAIN args, NEW r, tokens[i] = r.token, DOMAIN tokens = DOMAIN args,
         MadePointer(Unwrapped(args[i]), i, r)
  PROVE  Matched(r.pushed, ParametersOf(tokens)[i])
<1>1. PICK a : a = Unwrapped(args[i])
  OBVIOUS
<1>2. a.form \in {"tensor", "device_ptr"} /\ kinds[i] # "CONSTEXPR"
  BY <1>1 DEF MadePointer
<1>3. PICK extent : RuntimePointer(a.dtype, a.address, extent, r)
  BY <1>1 DEF MadePointer
<1>4. PICK t : t = Pointer(a.dtype)
  OBVIOUS
<1>5. PICK v : v = [type |-> t, value |-> a.address]
  OBVIOUS
<1>6. PICK hint \in {0, 16}, range \in BOOLEAN : r = Adds(Typed(t, hint, range), <<v>>)
  BY <1>3, <1>4, <1>5 DEF RuntimePointer
<1>7. r.pushed = <<v>> /\ tokens[i].is = "type" /\ tokens[i].types = <<t>> /\ tokens[i].hint = hint
  BY <1>6 DEF Adds, Typed
<1>8. i \notin ConstantIndices(tokens)
  BY <1>2, <1>7 DEF ConstantIndices
<1>9. PICK p : p = [index |-> i, element |-> 1, type |-> ParameterType(t)]
  OBVIOUS
<1>10. ParametersOf(tokens)[i] = <<p>>
  BY <1>7, <1>8, <1>9 DEF ParametersOf, ParametersAt
<1>11. t.pointer /\ p.type = t
  <2>1. t.pointer = TRUE
    BY <1>4 DEF Pointer
  <2>2. t # Value("fp64") /\ t # Value("i1")
    BY <2>1 DEF Value
  <2>3. QED
    BY <1>9, <2>1, <2>2 DEF ParameterType
<1>12. Suits(v, p)
  <2>1. Passed(i, 1) = a.address
    BY <1>1, <1>2 DEF Passed
  <2>2. SizeOf(t) <= SizeOf(t) /\ ~Integral(t)
    BY <1>11, Sizes DEF Integral
  <2>3. QED
    BY <1>5, <1>9, <1>11, <2>1, <2>2 DEF Suits, Reads
<1>13. QED
  BY <1>7, <1>10, <1>12, OneMatches

LEMMA TupleMatches ==
  ASSUME NEW i \in DOMAIN args, NEW r, tokens[i] = r.token, DOMAIN tokens = DOMAIN args,
         MadeTuple(Unwrapped(args[i]), i, r)
  PROVE  Matched(r.pushed, ParametersOf(tokens)[i])
<1>1. PICK vs : vs = Unwrapped(args[i]).elements
  OBVIOUS
<1>2. /\ kinds[i] # "CONSTEXPR" /\ Unwrapped(args[i]).form = "tuple" /\ vs \in Seq(Number(Scalars))
      /\ r = Adds(Grouped([n \in DOMAIN vs |-> vs[n].type]), vs)
  BY <1>1 DEF MadeTuple
<1>3. /\ r.pushed = vs /\ tokens[i].is = "tuple" /\ tokens[i].hint = 0
      /\ tokens[i].types = [n \in DOMAIN vs |-> vs[n].type]
  BY <1>2 DEF Adds, Grouped
<1>4. i \notin ConstantIndices(tokens)
  BY <1>2, <1>3 DEF ConstantIndices
<1>5. DOMAIN vs = 1 .. Len(vs) /\ Len(vs) \in Nat
  BY <1>2
<1>6. PICK ps : ps = ParametersOf(tokens)[i]
  OBVIOUS
<1>7. ps = [n \in 1 .. Len(vs) |-> [index |-> i, element |-> n, type |-> vs[n].type]]
  <2>1. ps = [n \in DOMAIN tokens[i].types |-> [index |-> i, element |-> n, type |-> tokens[i].types[n]]]
    BY <1>3, <1>4, <1>6 DEF ParametersOf, ParametersAt
  <2>2. QED
    BY <1>3, <1>5, <2>1
<1>8. Len(ps) = Len(vs)
  BY <1>5, <1>7
<1>9. ASSUME NEW n \in 1 .. Len(vs)
      PROVE  Suits(vs[n], ps[n])
  <2>1. vs[n] \in Number(Scalars)
    BY <1>2, <1>5
  <2>2. Passed(i, n) = vs[n].value
    BY <1>1, <1>2 DEF Passed
  <2>3. ps[n].index = i /\ ps[n].element = n /\ ps[n].type = vs[n].type
    BY <1>7
  <2>4. Reads(vs[n], vs[n].type)
    BY <2>1, NumberReads
  <2>5. QED
    BY <2>2, <2>3, <2>4 DEF Suits
<1>10. QED
  BY <1>3, <1>6, <1>8, <1>9 DEF Matched

\* A constant has the value that was passed, and nothing was pushed for it.
FoldsTo(i, r) ==
  /\ i \in ConstantIndices(tokens) => Constants(tokens)[i] = Passed(i, 1)
  /\ Matched(r.pushed, ParametersOf(tokens)[i])

LEMMA ConstantMatches ==
  ASSUME NEW i \in DOMAIN args, i \in ConstantIndices(tokens), DOMAIN tokens = DOMAIN args
  PROVE  Matched(<<>>, ParametersOf(tokens)[i])
BY NothingMatches DEF ParametersOf

LEMMA ArgumentMatches ==
  ASSUME NEW i \in DOMAIN args, NEW r, tokens[i] = r.token, DOMAIN tokens = DOMAIN args,
         Made(Unwrapped(args[i]), i, r), Unlost
  PROVE  FoldsTo(i, r)
<1>1. PICK a : a = Unwrapped(args[i])
  OBVIOUS
<1>2. a.form # "text"
  BY <1>1 DEF Unlost, TextLost
<1> DEFINE token == tokens[i]
<1>3. Printed("nullopt", None) = NulloptToken
  BY DEF NulloptToken
<1>4. \A class, x : /\ Printed(class, x).is = class /\ Printed(class, x).value = x
                    /\ Printed(class, x).hint = 0
  BY DEF Printed
<1>5. ASSUME i \in ConstantIndices(tokens), tokens[i].hint # 1
      PROVE  Constants(tokens)[i] = Constexpr(tokens[i])
  BY <1>5 DEF Constants
<1>6. CASE MadeNullopt(a, i, r)
  <2>1. r.pushed = <<>> /\ token.is = "nullopt" /\ token.value = None /\ token.hint = 0 /\ a.form = "nullopt"
    BY <1>3, <1>4, <1>6 DEF MadeNullopt, Adds
  <2>2. i \in ConstantIndices(tokens)
    BY <2>1 DEF ConstantIndices
  <2>3. Constants(tokens)[i] = None
    BY <1>5, <2>1, <2>2 DEF Constexpr
  <2>4. Passed(i, 1) = None
    BY <1>1, <2>1 DEF Passed
  <2>5. QED
    BY <2>1, <2>2, <2>3, <2>4, ConstantMatches DEF FoldsTo
<1>7. CASE MadeText(a, i, r)
  BY <1>2, <1>7 DEF MadeText
<1>8. CASE MadeJit(a, i, r)
  <2>1. r.pushed = <<>> /\ token.is = "jit" /\ token.value = a.callee /\ token.hint = 0 /\ a.form = "jit"
    BY <1>4, <1>8 DEF MadeJit, Adds
  <2>2. i \in ConstantIndices(tokens)
    BY <2>1 DEF ConstantIndices
  <2>3. Constants(tokens)[i] = a.callee
    BY <1>5, <2>1, <2>2 DEF Constexpr
  <2>4. Passed(i, 1) = a.callee
    BY <1>1, <2>1 DEF Passed
  <2>5. QED
    BY <2>1, <2>2, <2>3, <2>4, ConstantMatches DEF FoldsTo
<1>9. CASE MadeConstexpr(a, i, r)
  <2>1. PICK v \in Number(Scalars), class \in {"number", "bool"} :
          Taken(a, v) /\ r = Adds(Printed(class, v.value), <<>>)
    BY <1>9 DEF MadeConstexpr
  <2>2. r.pushed = <<>> /\ token.is = class /\ token.value = v.value /\ token.hint = 0
    BY <1>4, <2>1 DEF Adds
  <2>3. i \in ConstantIndices(tokens)
    BY <1>9 DEF ConstantIndices, MadeConstexpr
  <2>4. Constants(tokens)[i] = v.value
    BY <1>5, <2>2, <2>3 DEF Constexpr
  <2>5. v.value = a.number.value /\ a.form \in {"number", "scalar"}
    BY <2>1 DEF Taken
  <2>6. Passed(i, 1) = v.value
    BY <1>1, <2>5 DEF Passed
  <2>7. QED
    BY <2>2, <2>3, <2>4, <2>6, ConstantMatches DEF FoldsTo
<1>10. CASE MadeNumber(a, i, r)
  <2>1. Matched(r.pushed, ParametersOf(tokens)[i])
    BY <1>1, <1>10, NumberMatches
  <2>2. PICK v \in Number(Scalars) : Taken(a, v) /\ RuntimeNumber(v, kinds[i], r)
    BY <1>10 DEF MadeNumber
  <2>3. PICK hint \in {0, 1, 16} : NumberWith(v, kinds[i], r, hint)
    BY <2>2 DEF RuntimeNumber
  <2>4. token.is = "type" /\ token.hint = hint /\ (hint = 1 => v.value = 1) /\ kinds[i] # "CONSTEXPR"
    BY <1>10, <2>3 DEF NumberWith, Adds, Typed, MadeNumber
  <2>5. v.value = a.number.value /\ a.form \in {"number", "scalar"}
    BY <2>2 DEF Taken
  <2>6. Passed(i, 1) = v.value
    BY <1>1, <2>5 DEF Passed
  <2>7. i \in ConstantIndices(tokens) => hint = 1
    BY <2>4 DEF ConstantIndices
  <2>8. i \in ConstantIndices(tokens) => Constants(tokens)[i] = 1
    BY <2>4, <2>7 DEF Constants
  <2>9. QED
    BY <2>1, <2>4, <2>6, <2>7, <2>8 DEF FoldsTo
<1>11. CASE MadePointer(a, i, r)
  <2>1. Matched(r.pushed, ParametersOf(tokens)[i])
    BY <1>1, <1>11, PointerMatches
  <2>2. PICK extent : RuntimePointer(a.dtype, a.address, extent, r)
    BY <1>11 DEF MadePointer
  <2>3. token.is = "type" /\ token.hint \in {0, 16} /\ kinds[i] # "CONSTEXPR"
    BY <1>11, <2>2 DEF RuntimePointer, Adds, Typed, MadePointer
  <2>4. i \notin ConstantIndices(tokens)
    BY <2>3 DEF ConstantIndices
  <2>5. QED
    BY <2>1, <2>4 DEF FoldsTo
<1>12. CASE MadeTuple(a, i, r)
  <2>1. Matched(r.pushed, ParametersOf(tokens)[i])
    BY <1>1, <1>12, TupleMatches
  <2>2. token.is = "tuple" /\ token.hint = 0 /\ kinds[i] # "CONSTEXPR"
    BY <1>12 DEF MadeTuple, Adds, Grouped
  <2>3. i \notin ConstantIndices(tokens)
    BY <2>2 DEF ConstantIndices
  <2>4. QED
    BY <2>1, <2>3 DEF FoldsTo
<1>13. QED
  BY <1>1, <1>6, <1>7, <1>8, <1>9, <1>10, <1>11, <1>12 DEF Made

\* So do all of them, in order: the runtime's reading of the signature and the
\* compiler's name the same values.
Fits == {q \in Passable \X AnyParameter(tokens) : Suits(q[1], q[2])}

LEMMA MatchedIsAlike ==
  ASSUME NEW xs \in Seq(Passable), NEW ps \in Seq(AnyParameter(tokens))
  PROVE  Matched(xs, ps) <=> Alike(xs, ps, Fits)
<1>1. DOMAIN xs = 1 .. Len(xs) /\ DOMAIN ps = 1 .. Len(ps) /\ Len(xs) \in Nat /\ Len(ps) \in Nat
  OBVIOUS
<1>2. ASSUME Len(xs) = Len(ps), NEW n \in 1 .. Len(xs)
      PROVE  Suits(xs[n], ps[n]) <=> <<xs[n], ps[n]>> \in Fits
  <2>1. xs[n] \in Passable /\ ps[n] \in AnyParameter(tokens)
    BY <1>1, <1>2
  <2>2. PICK x, p : x = xs[n] /\ p = ps[n]
    OBVIOUS
  <2>3. <<x, p>> \in Passable \X AnyParameter(tokens)
    BY <2>1, <2>2
  <2>4. <<x, p>>[1] = x /\ <<x, p>>[2] = p
    OBVIOUS
  <2>5. QED
    BY <2>2, <2>3, <2>4 DEF Fits
<1>3. QED
  BY <1>2 DEF Matched, Alike

LEMMA WholesMatch ==
  ASSUME ArgumentsInv, pc \in {"found", "launched"}, Unlost
  PROVE  /\ Matched(Pushes, Parameters(tokens))
         /\ \A i \in ConstantIndices(tokens) : Constants(tokens)[i] = Passed(i, 1)
<1>1. kernel \in Kernels /\ args \in Seq(Argument) /\ pc # "thrown" /\ Answered
  BY DEF ArgumentsInv, Frame
<1>2. tokens \in Seq(Token) /\ Compiles(tokens)
  BY ProgramOfCall DEF Unlost
<1>3. /\ Len(tokens) = Len(args) /\ DOMAIN tokens = 1 .. Len(args) /\ DOMAIN args = 1 .. Len(args)
      /\ Len(args) \in Nat /\ \A i \in 1 .. Len(args) : tokens[i] = HandleArg(args[i], i).token
  BY <1>1, <1>2 DEF Answered
<1>4. ASSUME NEW i \in 1 .. Len(args)
      PROVE  FoldsTo(i, HandleArg(args[i], i))
  <2>1. PICK r : r = HandleArg(args[i], i)
    OBVIOUS
  <2>2. Made(Unwrapped(args[i]), i, r)
    BY <1>1, <2>1, AllMade
  <2>3. tokens[i] = r.token /\ DOMAIN tokens = DOMAIN args /\ i \in DOMAIN args
    BY <1>3, <2>1
  <2>4. QED
    BY <2>1, <2>2, <2>3, ArgumentMatches
<1>5. PushedAt \in Seq(Seq(Passable)) /\ Len(PushedAt) = Len(args) /\ Pushes \in Seq(Passable)
  BY <1>1, PushesTyped
<1>6. /\ ParametersOf(tokens) \in Seq(Seq(AnyParameter(tokens))) /\ Len(ParametersOf(tokens)) = Len(tokens)
      /\ Parameters(tokens) = FlattenSeq(ParametersOf(tokens))
      /\ Parameters(tokens) \in Seq(AnyParameter(tokens))
  BY <1>2, ParametersTyped
<1>7. ASSUME NEW i \in 1 .. Len(PushedAt)
      PROVE  Alike(PushedAt[i], ParametersOf(tokens)[i], Fits)
  <2>1. PushedAt[i] = HandleArg(args[i], i).pushed
    BY <1>3, <1>5 DEF PushedAt
  <2>2. PushedAt[i] \in Seq(Passable) /\ ParametersOf(tokens)[i] \in Seq(AnyParameter(tokens))
    BY <1>3, <1>5, <1>6
  <2>3. Matched(PushedAt[i], ParametersOf(tokens)[i])
    BY <1>4, <1>5, <2>1 DEF FoldsTo
  <2>4. QED
    BY <2>2, <2>3, MatchedIsAlike
<1>8. Alike(Pushes, Parameters(tokens), Fits)
  <2>1. PICK xs : xs = PushedAt
    OBVIOUS
  <2>2. PICK ys : ys = ParametersOf(tokens)
    OBVIOUS
  <2>3. xs \in Seq(Seq(Passable)) /\ ys \in Seq(Seq(AnyParameter(tokens))) /\ Len(xs) = Len(ys)
    BY <1>3, <1>5, <1>6, <2>1, <2>2
  <2>4. \A i \in 1 .. Len(xs) : Alike(xs[i], ys[i], Fits)
    BY <1>7, <2>1, <2>2
  <2>5. Alike(FlattenSeq(xs), FlattenSeq(ys), Fits)
    BY ONLY <2>3, <2>4, FlattenAlike
  <2>6. QED
    BY <1>6, <2>1, <2>2, <2>5 DEF Pushes
<1>9. Matched(Pushes, Parameters(tokens))
  BY <1>5, <1>6, <1>8, MatchedIsAlike
<1>10. \A i \in ConstantIndices(tokens) : i \in 1 .. Len(args)
  BY <1>3 DEF ConstantIndices
<1>11. QED
  BY <1>4, <1>9, <1>10 DEF FoldsTo

-----------------------------------------------------------------------------
(* Kernels that read the buffer.                                             *)

\* A parameter that suits the value at a place of the buffer reads it.
LEMMA ReadsEntry ==
  ASSUME NEW b \in Buffers, NEW offset \in Nat, NEW v \in Passable, HoldsAt(b, offset, v),
         NEW t, Reads(v, t)
  PROVE  Read(b.bytes, offset, t) = v.value
<1>1. b.bytes \in Seq(Byte) /\ Len(b.bytes) \in Nat
  BY DEF Buffers
<1>2. SizeOf(t) \in {1, 4, 8} /\ SizeOf(v.type) \in {1, 4, 8} /\ SizeOf(t) <= SizeOf(v.type)
  BY Sizes DEF Reads
<1>3. Inside(b.bytes, offset, v, t)
  <2>1. offset + SizeOf(t) <= Len(b.bytes)
    BY <1>1, <1>2 DEF HoldsAt
  <2>2. \A k \in 1 .. SizeOf(t) : k \in 1 .. SizeOf(v.type)
    BY <1>2
  <2>3. QED
    BY <2>1, <2>2 DEF HoldsAt, Inside
<1>4. QED
  BY <1>1, <1>3, ReadBack

LEMMA ScratchReads == Scratch \in Passable /\ Reads(Scratch, Pointer("i8")) /\ Scratch.value = 0
<1>1. Pointer("i8") \in Types
  BY DEF Pointer, Types, DTypes
<1>2. Scratch \in Passable /\ Scratch.type = Pointer("i8") /\ Scratch.value = 0
  BY <1>1 DEF Scratch, Passable
<1>3. ~Integral(Pointer("i8"))
  BY DEF Integral, Pointer
<1>4. SizeOf(Pointer("i8")) <= SizeOf(Pointer("i8"))
  BY Sizes
<1>5. QED
  BY <1>2, <1>3, <1>4 DEF Reads

ProgramArrives ==
  /\ TrailerArrives
  /\ \A n \in DOMAIN Program.parameters :
       Received(n) = Passed(Program.parameters[n].index, Program.parameters[n].element)

LEMMA BufferArrives ==
  ASSUME ArgumentsInv, pc = "launched", Unlost, build # "npu"
  PROVE  ProgramArrives
<1>1. kernel \in Kernels /\ args \in Seq(Argument) /\ pc # "thrown" /\ Answered /\ Buffered
  BY DEF ArgumentsInv, Frame
<1>2. PICK ps : ps = Parameters(tokens)
  OBVIOUS
<1>3. tokens \in Seq(Token) /\ Compiles(tokens) /\ Program.parameters = ps
  BY <1>2, ProgramOfCall DEF Compiled, Unlost
<1>4. ps \in Seq(AnyParameter(tokens)) /\ DOMAIN ps = 1 .. Len(ps) /\ Len(ps) \in Nat
  BY <1>2, <1>3, ParametersTyped
<1>5. PICK xs : xs = Pushes
  OBVIOUS
<1>6. xs \in Seq(Passable) /\ DOMAIN xs = 1 .. Len(xs) /\ Len(xs) \in Nat
  BY <1>1, <1>5, PushesTyped
<1>7. Matched(xs, ps)
  BY <1>2, <1>5, WholesMatch
<1>8. PICK vs : vs = xs \o <<Scratch, Scratch>>
  OBVIOUS
<1>9. Holds(buffer, vs) /\ vs \in Seq(Passable)
  BY <1>1, <1>5, <1>8 DEF Buffered, Held, Behind
<1>10. /\ buffer \in Buffers /\ buffer.offsets \in Seq(Nat) /\ Len(buffer.offsets) = Len(vs)
       /\ \A n \in 1 .. Len(vs) : HoldsAt(buffer, buffer.offsets[n], vs[n])
  BY <1>9 DEF Holds, Buffers
<1>11. Len(vs) = Len(xs) + 2 /\ Len(xs) = Len(ps)
  BY <1>6, <1>7, <1>8 DEF Matched
<1>12. DOMAIN buffer.offsets = 1 .. Len(vs)
  BY <1>10
<1>13. ASSUME NEW n \in 1 .. Len(vs), NEW t, Reads(vs[n], t)
       PROVE  n \in DOMAIN buffer.offsets /\ Read(buffer.bytes, buffer.offsets[n], t) = vs[n].value
  <2>1. vs[n] \in Passable /\ buffer.offsets[n] \in Nat
    BY <1>9, <1>10, <1>12
  <2>2. HoldsAt(buffer, buffer.offsets[n], vs[n])
    BY <1>10
  <2>3. QED
    BY <1>10, <1>12, <1>13, <2>1, <2>2, ReadsEntry
<1>14. ASSUME NEW n \in DOMAIN ps
       PROVE  Received(n) = Passed(ps[n].index, ps[n].element)
  <2>1. n \in 1 .. Len(vs) /\ n \in 1 .. Len(xs)
    BY <1>4, <1>6, <1>11
  <2>2. vs[n] = xs[n]
    BY <1>6, <1>8, <2>1
  <2>3. Suits(vs[n], ps[n])
    BY <1>7, <2>1, <2>2 DEF Matched
  <2>4. Read(buffer.bytes, buffer.offsets[n], ps[n].type) = vs[n].value /\ n \in DOMAIN buffer.offsets
    BY <1>13, <2>1, <2>3 DEF Suits
  <2>5. Received(n) = Read(buffer.bytes, buffer.offsets[n], ps[n].type)
    BY <1>3, <2>4 DEF Received
  <2>6. QED
    BY <2>3, <2>4, <2>5 DEF Suits
<1>15. TrailerArrives
  <2>1. ASSUME NEW n \in {Len(ps) + 1, Len(ps) + 2}
        PROVE  n \in DOMAIN buffer.offsets /\ Read(buffer.bytes, buffer.offsets[n], Pointer("i8")) = 0
    <3>1. n \in 1 .. Len(vs) /\ vs[n] = Scratch
      BY <1>4, <1>6, <1>8, <1>11, <2>1
    <3>2. QED
      BY <1>13, <3>1, ScratchReads
  <2>2. QED
    BY <1>3, <2>1 DEF TrailerArrives
<1>16. QED
  BY <1>3, <1>14, <1>15 DEF ProgramArrives

-----------------------------------------------------------------------------
(* Kernels that read a block: the layout the launcher parses from the tokens *)
(* is the compiler's list of parameters.                                     *)

Laid(ts, ps) == Len(ts) = Len(ps) /\ \A n \in 1 .. Len(ts) : ts[n] = ps[n].type

\* On an NPU no token has a hint of 1, and a constexpr has no types.
LEMMA NpuTokens ==
  ASSUME NEW a, NEW i, NEW r, Made(a, i, r), build = "npu", a.form # "text"
  PROVE  IF Folded(r.token, i) THEN r.token.is \in {"nullopt", "jit", "number", "bool"}
         ELSE HasTypes(r.token) /\ r.token.types \in Seq(Types) /\ (r.token.is = "type" => Len(r.token.types) = 1)
<1>1. r.token \in Token
  BY MadeTypes
<1>2. HasTypes(r.token) => r.token.types \in Seq(Types)
  BY <1>1 DEF Token, HasTypes, Types
<1> USE DEF Adds, Folded
<1>3. CASE MadeNullopt(a, i, r)
  BY <1>3 DEF MadeNullopt, NulloptToken, Printed
<1>4. CASE MadeText(a, i, r)
  BY <1>4 DEF MadeText
<1>5. CASE MadeJit(a, i, r)
  BY <1>5 DEF MadeJit, Printed
<1>6. CASE MadeConstexpr(a, i, r)
  <2>1. r.token.is \in {"number", "bool"} /\ kinds[i] = "CONSTEXPR"
    BY <1>6 DEF MadeConstexpr, Printed
  <2>2. QED
    BY <2>1
<1>7. CASE MadeNumber(a, i, r)
  <2>1. PICK t : r.token.is = "type" /\ r.token.types = <<t>> /\ r.token.hint = 0
    <3>1. PICK v \in Number(Scalars) : RuntimeNumber(v, kinds[i], r)
      BY <1>7 DEF MadeNumber
    <3>2. PICK hint \in {0, 1, 16} : NumberWith(v, kinds[i], r, hint)
      BY <3>1 DEF RuntimeNumber
    <3>3. hint = 0 /\ r.token = Typed(NarrowType(v), hint, FALSE)
      BY <3>2 DEF NumberWith
    <3>4. QED
      BY <3>3 DEF Typed
  <2>2. r.token.is = "type" /\ r.token.types = <<t>> /\ r.token.hint = 0 /\ kinds[i] # "CONSTEXPR"
    BY <1>7, <2>1 DEF MadeNumber
  <2>3. QED
    BY <1>2, <2>2 DEF HasTypes
<1>8. CASE MadePointer(a, i, r)
  <2>1. PICK hint \in {0, 16}, range \in BOOLEAN : r.token = Typed(Pointer(a.dtype), hint, range)
    <3>1. PICK extent : RuntimePointer(a.dtype, a.address, extent, r)
      BY <1>8 DEF MadePointer
    <3>2. QED
      BY <3>1 DEF RuntimePointer
  <2> DEFINE t == Pointer(a.dtype)
  <2>2. r.token.is = "type" /\ r.token.types = <<t>> /\ r.token.hint # 1 /\ kinds[i] # "CONSTEXPR"
    BY <1>8, <2>1 DEF Typed, MadePointer
  <2>3. QED
    BY <1>2, <2>2 DEF HasTypes
<1>9. CASE MadeTuple(a, i, r)
  <2>1. r.token.is = "tuple" /\ r.token.hint = 0 /\ kinds[i] # "CONSTEXPR"
    BY <1>9 DEF MadeTuple, Grouped
  <2>2. QED
    BY <1>2, <2>1 DEF HasTypes
<1>10. QED
  BY <1>3, <1>4, <1>5, <1>6, <1>7, <1>8, <1>9 DEF Made

LEMMA TokenIsLaid ==
  ASSUME build = "npu", NEW i \in DOMAIN tokens, NEW r, r.token = tokens[i],
         NEW a, Made(a, i, r), a.form # "text", Unlost
  PROVE  Laid(LayoutAt[i], ParametersOf(tokens)[i])
<1>1. PICK token : token = tokens[i]
  OBVIOUS
<1>2. i \in ConstantIndices(tokens) <=> Folded(token, i)
  BY <1>1 DEF ConstantIndices, Folded
<1>3. LayoutAt[i] = LayoutOf(token)
  BY <1>1 DEF LayoutAt
<1>4. IF Folded(token, i) THEN token.is \in {"nullopt", "jit", "number", "bool"}
      ELSE HasTypes(token) /\ token.types \in Seq(Types) /\ (token.is = "type" => Len(token.types) = 1)
  BY <1>1, NpuTokens
<1>5. CASE Folded(token, i)
  <2>1. LayoutAt[i] = <<>>
    BY <1>3, <1>4, <1>5 DEF LayoutOf
  <2>2. ParametersOf(tokens)[i] = <<>>
    BY <1>2, <1>5 DEF ParametersOf
  <2>3. QED
    BY <2>1, <2>2 DEF Laid
<1>6. CASE ~Folded(token, i)
  <2>1. PICK ts : ts = token.types
    OBVIOUS
  <2>2. /\ token.is \in {"type", "tuple"} /\ ts \in Seq(Types) /\ (token.is = "type" => Len(ts) = 1)
        /\ DOMAIN ts = 1 .. Len(ts) /\ Len(ts) \in Nat
    BY <1>4, <1>6, <2>1 DEF HasTypes
  <2>3. ASSUME NEW n \in 1 .. Len(ts)
        PROVE  ts[n] # Value("i1")
    <3>1. ts[n] \in ToSet(ts)
      BY <2>2 DEF ToSet
    <3>2. ~BoolLost
      BY DEF Unlost
    <3>3. HasTypes(token)
      BY <1>4, <1>6
    <3>4. QED
      BY <1>1, <2>1, <3>1, <3>2, <3>3 DEF BoolLost
  <2>4. LayoutAt[i] = [n \in 1 .. Len(ts) |-> LayoutType(ts[n])]
    BY <1>3, <2>1, <2>2 DEF LayoutOf
  <2>5. PICK ls : ls = LayoutAt[i]
    OBVIOUS
  <2>6. Len(ls) = Len(ts) /\ \A n \in 1 .. Len(ts) : ls[n] = ts[n]
    BY <2>2, <2>3, <2>4, <2>5 DEF LayoutType
  <2>7. PICK ps : ps = ParametersOf(tokens)[i]
    OBVIOUS
  <2>8. ps = ParametersAt(tokens, i)
    BY <1>2, <1>6, <2>7 DEF ParametersOf
  <2>9. CASE token.is = "type"
    <3>1. ps = <<[index |-> i, element |-> 1, type |-> ParameterType(ts[1])]>>
      BY <1>1, <2>1, <2>8, <2>9 DEF ParametersAt
    <3>2. ts[1] # Value("i1") /\ Len(ts) = 1
      BY <2>2, <2>3, <2>9
    <3>3. ParameterType(ts[1]) = ts[1]
      BY <3>2 DEF ParameterType
    <3>4. Len(ps) = 1 /\ ps[1].type = ts[1]
      BY <3>1, <3>3
    <3>5. QED
      BY <2>5, <2>6, <2>7, <3>2, <3>4 DEF Laid
  <2>10. CASE token.is = "tuple"
    <3>1. ps = [n \in 1 .. Len(ts) |-> [index |-> i, element |-> n, type |-> ts[n]]]
      BY <1>1, <2>1, <2>2, <2>8, <2>10 DEF ParametersAt
    <3>2. Len(ps) = Len(ts) /\ \A n \in 1 .. Len(ts) : ps[n].type = ts[n]
      BY <2>2, <3>1
    <3>3. QED
      BY <2>5, <2>6, <2>7, <3>2 DEF Laid
  <2>11. QED
    BY <2>2, <2>9, <2>10
<1>7. QED
  BY <1>5, <1>6

LaidFits == {q \in Types \X AnyParameter(tokens) : q[1] = q[2].type}

LEMMA LaidIsAlike ==
  ASSUME NEW ts \in Seq(Types), NEW ps \in Seq(AnyParameter(tokens))
  PROVE  Laid(ts, ps) <=> Alike(ts, ps, LaidFits)
<1>1. DOMAIN ts = 1 .. Len(ts) /\ DOMAIN ps = 1 .. Len(ps) /\ Len(ts) \in Nat /\ Len(ps) \in Nat
  OBVIOUS
<1>2. ASSUME Len(ts) = Len(ps), NEW n \in 1 .. Len(ts)
      PROVE  ts[n] = ps[n].type <=> <<ts[n], ps[n]>> \in LaidFits
  <2>1. ts[n] \in Types /\ ps[n] \in AnyParameter(tokens)
    BY <1>1, <1>2
  <2>2. PICK t, p : t = ts[n] /\ p = ps[n]
    OBVIOUS
  <2>3. <<t, p>> \in Types \X AnyParameter(tokens)
    BY <2>1, <2>2
  <2>4. <<t, p>>[1] = t /\ <<t, p>>[2] = p
    OBVIOUS
  <2>5. QED
    BY <2>2, <2>3, <2>4 DEF LaidFits
<1>3. QED
  BY <1>2 DEF Laid, Alike

LEMMA LayoutIsLaid ==
  ASSUME ArgumentsInv, pc \in {"found", "launched"}, Unlost, build = "npu"
  PROVE  Laid(Layout(tokens), Parameters(tokens))
<1>1. kernel \in Kernels /\ args \in Seq(Argument) /\ pc # "thrown" /\ Answered
  BY DEF ArgumentsInv, Frame
<1>2. tokens \in Seq(Token) /\ Compiles(tokens)
  BY ProgramOfCall DEF Unlost
<1>3. /\ Len(tokens) = Len(args) /\ DOMAIN tokens = 1 .. Len(args) /\ DOMAIN args = 1 .. Len(args)
      /\ Len(args) \in Nat /\ \A i \in 1 .. Len(args) : tokens[i] = HandleArg(args[i], i).token
  BY <1>1, <1>2 DEF Answered
<1>4. ASSUME NEW i \in 1 .. Len(args)
      PROVE  Laid(LayoutAt[i], ParametersOf(tokens)[i])
  <2>1. PICK r : r = HandleArg(args[i], i)
    OBVIOUS
  <2>2. PICK a : a = Unwrapped(args[i])
    OBVIOUS
  <2>3. Made(a, i, r)
    BY <1>1, <2>1, <2>2, AllMade
  <2>4. tokens[i] = r.token /\ i \in DOMAIN tokens
    BY <1>3, <2>1
  <2>5. a.form # "text"
    BY <1>3, <2>2 DEF Unlost, TextLost
  <2>6. QED
    BY <2>3, <2>4, <2>5, TokenIsLaid
<1>5. /\ LayoutAt \in Seq(Seq(Types)) /\ Len(LayoutAt) = Len(tokens)
      /\ Layout(tokens) = FlattenSeq(LayoutAt) /\ Layout(tokens) \in Seq(Types)
  BY <1>1, LayoutTyped
<1>6. /\ ParametersOf(tokens) \in Seq(Seq(AnyParameter(tokens))) /\ Len(ParametersOf(tokens)) = Len(tokens)
      /\ Parameters(tokens) = FlattenSeq(ParametersOf(tokens))
      /\ Parameters(tokens) \in Seq(AnyParameter(tokens))
  BY <1>2, ParametersTyped
<1>7. ASSUME NEW i \in 1 .. Len(LayoutAt)
      PROVE  Alike(LayoutAt[i], ParametersOf(tokens)[i], LaidFits)
  <2>1. LayoutAt[i] \in Seq(Types) /\ ParametersOf(tokens)[i] \in Seq(AnyParameter(tokens))
    BY <1>3, <1>5, <1>6
  <2>2. Laid(LayoutAt[i], ParametersOf(tokens)[i])
    BY <1>3, <1>4, <1>5
  <2>3. QED
    BY <2>1, <2>2, LaidIsAlike
<1>8. Alike(Layout(tokens), Parameters(tokens), LaidFits)
  <2>1. PICK xs : xs = LayoutAt
    OBVIOUS
  <2>2. PICK ys : ys = ParametersOf(tokens)
    OBVIOUS
  <2>3. xs \in Seq(Seq(Types)) /\ ys \in Seq(Seq(AnyParameter(tokens))) /\ Len(xs) = Len(ys)
    BY <1>3, <1>5, <1>6, <2>1, <2>2
  <2>4. \A i \in 1 .. Len(xs) : Alike(xs[i], ys[i], LaidFits)
    BY <1>7, <2>1, <2>2
  <2>5. Alike(FlattenSeq(xs), FlattenSeq(ys), LaidFits)
    BY ONLY <2>3, <2>4, FlattenAlike
  <2>6. QED
    BY <1>5, <1>6, <2>1, <2>2, <2>5
<1>9. QED
  BY <1>5, <1>6, <1>8, LaidIsAlike

-----------------------------------------------------------------------------
(* The block: each parameter behind the ones before it.                      *)

UserBlock(b, layout) ==
  FoldLeft(LAMBDA block, n : PushFrom(b, block, n, layout[n]), SystemArgs, [n \in DOMAIN layout |-> n])
WithGrid(block) == Written(block, BytesOf(GridArg), 4)
LEMMA PackedUser == \A b, layout : Packed(b, layout) = WithGrid(WithGrid(WithGrid(UserBlock(b, layout))))
BY DEF Packed, UserBlock, WithGrid

LEMMA SystemArgsTyped == SystemArgs \in Seq(Byte) /\ Len(SystemArgs) = 24
<1>1. Pad \in Byte
  BY DEF Pad, Byte
<1>2. SystemArgs \in [1 .. 24 -> Byte]
  BY <1>1 DEF SystemArgs
<1>3. \A n \in Nat : \A s \in [1 .. n -> Byte] : s \in Seq(Byte) /\ Len(s) = n
  OBVIOUS
<1>4. QED
  BY <1>2, <1>3

\* What push_arg_by_type takes from the buffer.
Taking(b, n, t) ==
  LET from == IF n \in DOMAIN b.offsets THEN b.offsets[n] ELSE Len(b.bytes)
  IN  [k \in 1 .. SizeOf(t) |-> ByteAt(b.bytes, from + k)]
LEMMA TakingTyped ==
  ASSUME NEW b \in Buffers, NEW n, NEW t
  PROVE  Taking(b, n, t) \in Seq(Byte) /\ Len(Taking(b, n, t)) = SizeOf(t)
<1>1. Pad \in Byte
  BY DEF Pad, Byte
<1>2. b.bytes \in Seq(Byte)
  BY DEF Buffers
<1>3. \A k : ByteAt(b.bytes, k) \in Byte
  BY <1>1, <1>2 DEF ByteAt
<1>4. SizeOf(t) \in Nat
  BY Sizes
<1>5. Taking(b, n, t) \in [1 .. SizeOf(t) -> Byte]
  BY <1>3 DEF Taking
<1>6. QED
  BY <1>4, <1>5

LEMMA PushFromTakes ==
  \A b, block, n, t : PushFrom(b, block, n, t) = Written(block, Taking(b, n, t), SizeOf(t))
BY DEF PushFrom, Taking

LEMMA PushFromTyped ==
  ASSUME NEW b \in Buffers, NEW block \in Seq(Byte), NEW n, NEW t
  PROVE  PushFrom(b, block, n, t) \in Seq(Byte)
<1>1. Taking(b, n, t) \in Seq(Byte) /\ SizeOf(t) \in {1, 4, 8}
  BY TakingTyped, Sizes
<1>2. QED
  BY <1>1, PushFromTakes, WrittenBehind

PackSteps(b, layout, h) ==
  /\ h \in [0 .. Len(layout) -> Seq(Byte)] /\ h[0] = SystemArgs
  /\ \A k \in 1 .. Len(layout) : h[k] = PushFrom(b, h[k - 1], k, layout[k])
PackTraced(b, layout) == \E h : PackSteps(b, layout, h) /\ UserBlock(b, layout) = h[Len(layout)]

LEMMA PackTrace ==
  ASSUME NEW b \in Buffers, NEW layout \in Seq(Types)
  PROVE  PackTraced(b, layout)
<1> DEFINE len == Len(layout)
           V == Seq(Byte)
           P(block, n) == PushFrom(b, block, n, layout[n])
           Op == [p \in V \X (1 .. len) |-> P(p[1], p[2])]
           Step(iter) ==
             [s \in SUBSET (1 .. len) |-> IF s = {} THEN SystemArgs ELSE P(iter[s \ {Max(s)}], Max(s))]
           it == CHOOSE iter : iter = Step(iter)
<1>1. len \in Nat /\ DOMAIN layout = 1 .. len
  OBVIOUS
<1>2. \A s \in SUBSET (1 .. len) : s # {} => Max(s) \in s /\ s \ {Max(s)} \in SUBSET (1 .. len)
  <2>1. ASSUME NEW s \in SUBSET (1 .. len), s # {}
        PROVE  Max(s) \in s
    <3>1. s \in SUBSET (0 .. len)
      BY <1>1
    <3>2. QED
      BY <1>1, <2>1, <3>1, MaxOf
  <2>2. QED
    BY <2>1
<1>3. UserBlock(b, layout) = it[1 .. len]
  <2> DEFINE seq == [n \in DOMAIN layout |-> n]
             Raw(iter) ==
               [s \in SUBSET DOMAIN seq |-> IF s = {} THEN SystemArgs ELSE P(iter[s \ {Max(s)}], seq[Max(s)])]
  <2>1. DOMAIN seq = 1 .. len /\ \A n \in 1 .. len : seq[n] = n
    BY <1>1
  <2>2. UserBlock(b, layout) = (CHOOSE iter : iter = Raw(iter))[DOMAIN seq]
    BY DEF UserBlock, FoldLeft, MapThenFoldSet
  <2> HIDE DEF seq, P
  <2>3. \A iter : Raw(iter) = Step(iter)
    <3>1. TAKE iter
    <3>2. \A s \in SUBSET (1 .. len) : s # {} => seq[Max(s)] = Max(s)
      BY <1>2, <2>1
    <3>3. \A s \in SUBSET (1 .. len) :
            (IF s = {} THEN SystemArgs ELSE P(iter[s \ {Max(s)}], seq[Max(s)]))
              = IF s = {} THEN SystemArgs ELSE P(iter[s \ {Max(s)}], Max(s))
      BY <3>2
    <3>4. QED
      BY <2>1, <3>3
  <2> HIDE DEF Raw, Step
  <2>4. (CHOOSE iter : iter = Raw(iter)) = (CHOOSE iter : iter = Step(iter))
    BY <2>3
  <2>5. QED
    BY <2>1, <2>2, <2>4
<1>4. SystemArgs \in V
  BY SystemArgsTyped
<1>5. \A block \in V, n \in 1 .. len : P(block, n) \in V
  BY PushFromTyped
<1> HIDE DEF V, P, len
<1>6. Op \in [V \X (1 .. len) -> V]
  BY <1>5
<1>7. \A block \in V, n \in 1 .. len : Op[<<block, n>>] = P(block, n)
  OBVIOUS
<1> HIDE DEF Op
<1>8. PICK g : IsFold(g, len, V, SystemArgs, Op)
  BY <1>1, <1>4, <1>6, FoldExists
<1>9. g = Step(g)
  <2>1. /\ g \in [SUBSET (1 .. len) -> V]
        /\ \A s \in SUBSET (1 .. len) : g[s] = IF s = {} THEN SystemArgs ELSE Op[<<g[s \ {Max(s)}], Max(s)>>]
    BY <1>8 DEF IsFold
  <2>2. ASSUME NEW s \in SUBSET (1 .. len)
        PROVE  g[s] = IF s = {} THEN SystemArgs ELSE P(g[s \ {Max(s)}], Max(s))
    <3>1. CASE s = {}
      BY <2>1, <3>1
    <3>2. CASE s # {}
      <4>1. Max(s) \in 1 .. len /\ s \ {Max(s)} \in SUBSET (1 .. len)
        BY <1>2, <3>2
      <4>2. g[s \ {Max(s)}] \in V
        BY <2>1, <4>1
      <4>3. Op[<<g[s \ {Max(s)}], Max(s)>>] = P(g[s \ {Max(s)}], Max(s))
        BY <1>7, <4>1, <4>2
      <4>4. QED
        BY <2>1, <3>2, <4>3
    <3>3. QED
      BY <3>1, <3>2
  <2>3. g = [s \in SUBSET (1 .. len) |-> g[s]]
    BY <2>1
  <2>4. QED
    BY <2>2, <2>3
<1>10. it = Step(it)
  BY <1>9
<1> HIDE DEF it
<1>11. \A s \in SUBSET (1 .. len) : it[s] = IF s = {} THEN SystemArgs ELSE P(it[s \ {Max(s)}], Max(s))
  BY <1>10
<1>12. it[{}] = SystemArgs
  BY <1>11
<1>13. ASSUME NEW k \in 1 .. len, it[1 .. k - 1] \in V
       PROVE  it[1 .. k] = Op[<<it[1 .. k - 1], k>>]
  <2>1. /\ Max(1 .. k) = k /\ (1 .. k) \ {k} = 1 .. k - 1 /\ 1 .. k # {}
        /\ 1 .. k \in SUBSET (1 .. len)
    BY <1>1, Prefix
  <2>2. it[1 .. k] = P(it[1 .. k - 1], k)
    BY <1>11, <2>1
  <2>3. QED
    BY <1>7, <1>13, <2>2
<1>14. PICK h : IsTrace(h, len, V, SystemArgs, Op) /\ h[len] = it[1 .. len]
  <2>1. FoldSteps(it, len, V, Op)
    BY <1>13 DEF FoldSteps
  <2>2. FoldTraced(it, len, V, SystemArgs, Op)
    BY ONLY <1>1, <1>4, <1>6, <1>12, <2>1, FoldTrace
  <2>3. QED
    BY <2>2 DEF FoldTraced
<1>15. /\ h \in [0 .. len -> V] /\ h[0] = SystemArgs
       /\ \A k \in 1 .. len : h[k] = Op[<<h[k - 1], k>>]
  BY <1>14 DEF IsTrace
<1>16. ASSUME NEW k \in 1 .. len
       PROVE  h[k] = P(h[k - 1], k)
  <2>1. k - 1 \in 0 .. len
    BY <1>1
  <2>2. h[k - 1] \in V
    BY <1>15, <2>1
  <2>3. QED
    BY <1>7, <1>15, <2>2
<1>17. PackSteps(b, layout, h)
  BY <1>15, <1>16 DEF PackSteps, len, V, P
<1>18. QED
  BY <1>3, <1>14, <1>17 DEF PackTraced, len

\* What a step of the packing leaves: the bytes before it, and the low bytes of the
\* value, where the compiler's kernel looks for them.
Extends(new, old) == Len(old) <= Len(new) /\ \A k \in 1 .. Len(old) : new[k] = old[k]

LEMMA ExtendsOn ==
  ASSUME NEW x \in Seq(Byte), NEW y \in Seq(Byte), NEW z \in Seq(Byte), Extends(y, x), Extends(z, y)
  PROVE  Extends(z, x)
<1>1. Len(x) \in Nat /\ Len(y) \in Nat /\ Len(z) \in Nat
  OBVIOUS
<1>2. QED
  BY <1>1 DEF Extends

LEMMA StaysInside ==
  ASSUME NEW old \in Seq(Byte), NEW new \in Seq(Byte), Extends(new, old),
         NEW offset \in Nat, NEW v, NEW t, Inside(old, offset, v, t)
  PROVE  Inside(new, offset, v, t)
<1>1. SizeOf(t) \in {1, 4, 8} /\ Len(old) \in Nat /\ Len(new) \in Nat
  BY Sizes
<1>2. offset + SizeOf(t) <= Len(old) /\ Len(old) <= Len(new)
  BY DEF Inside, Extends
<1>3. ASSUME NEW k \in 1 .. SizeOf(t)
      PROVE  new[offset + k] = [of |-> v, byte |-> k]
  <2>1. offset + k \in 1 .. Len(old)
    BY <1>1, <1>2
  <2>2. old[offset + k] = [of |-> v, byte |-> k]
    BY DEF Inside
  <2>3. QED
    BY <2>1, <2>2 DEF Extends
<1>4. QED
  BY <1>1, <1>2, <1>3 DEF Inside

LEMMA WrittenExtends ==
  ASSUME NEW old \in Seq(Byte), NEW new \in Seq(Byte), NEW align \in {1, 4, 8}
  PROVE  Written(old, new, align) \in Seq(Byte) /\ Extends(Written(old, new, align), old)
<1>1. Len(old) \in Nat /\ Len(new) \in Nat
  OBVIOUS
<1>2. PICK offset : offset = NextMultiple(Len(old), align)
  OBVIOUS
<1>3. PICK after : after = Written(old, new, align)
  OBVIOUS
<1>4. /\ offset \in Nat /\ Len(old) <= offset
      /\ after \in Seq(Byte) /\ Len(after) = offset + Len(new)
      /\ \A k \in 1 .. Len(old) : after[k] = old[k]
  <2>1. Placed(old, new, offset, after)
    BY <1>2, <1>3, WrittenPlaced
  <2>2. QED
    BY <2>1 DEF Placed
<1>5. Len(old) <= Len(after)
  BY <1>1, <1>4
<1>6. QED
  BY <1>3, <1>4, <1>5 DEF Extends

\* One step: the n-th value is where the layout puts it.
LEMMA StepPlaces ==
  ASSUME NEW b \in Buffers, NEW block \in Seq(Byte), NEW n \in DOMAIN b.offsets,
         NEW v \in Passable, NEW t, HoldsAt(b, b.offsets[n], v), SizeOf(t) <= SizeOf(v.type)
  PROVE  LET place == NextMultiple(Len(block), SizeOf(t))
             after == PushFrom(b, block, n, t)
         IN  /\ place \in Nat /\ Len(after) = place + SizeOf(t)
             /\ after \in Seq(Byte) /\ Extends(after, block) /\ Inside(after, place, v, t)
<1>1. SizeOf(t) \in {1, 4, 8} /\ SizeOf(v.type) \in {1, 4, 8}
  BY Sizes
<1>2. PICK taken : taken = Taking(b, n, t)
  OBVIOUS
<1>3. taken \in Seq(Byte) /\ Len(taken) = SizeOf(t)
  BY <1>2, TakingTyped
<1>4. PICK from : from = b.offsets[n]
  OBVIOUS
<1>5. from \in Nat /\ b.bytes \in Seq(Byte) /\ DOMAIN b.bytes = 1 .. Len(b.bytes) /\ Len(b.bytes) \in Nat
  BY <1>4 DEF Buffers
<1>6. ASSUME NEW k \in 1 .. SizeOf(t)
      PROVE  taken[k] = [of |-> v, byte |-> k]
  <2>1. taken[k] = ByteAt(b.bytes, from + k)
    BY <1>2, <1>4 DEF Taking
  <2>2. k \in 1 .. SizeOf(v.type) /\ from + SizeOf(v.type) <= Len(b.bytes)
    BY <1>1, <1>4 DEF HoldsAt
  <2>3. from + k \in DOMAIN b.bytes
    BY <1>1, <1>5, <2>2
  <2>4. b.bytes[from + k] = [of |-> v, byte |-> k]
    BY <1>4, <2>2 DEF HoldsAt
  <2>5. QED
    BY <2>1, <2>3, <2>4 DEF ByteAt
<1>7. PICK place : place = NextMultiple(Len(block), SizeOf(t))
  OBVIOUS
<1>8. PICK after : after = PushFrom(b, block, n, t)
  OBVIOUS
<1>9. after = Written(block, taken, SizeOf(t))
  BY <1>2, <1>8, PushFromTakes
<1>10. /\ place \in Nat /\ after \in Seq(Byte) /\ Len(after) = place + Len(taken)
       /\ \A k \in 1 .. Len(taken) : after[place + k] = taken[k]
  <2>1. Placed(block, taken, place, after)
    BY <1>1, <1>3, <1>7, <1>9, WrittenPlaced
  <2>2. QED
    BY <2>1 DEF Placed
<1>11. Extends(after, block)
  BY <1>1, <1>3, <1>9, WrittenExtends
<1>12. Inside(after, place, v, t)
  <2>1. place + SizeOf(t) <= Len(after)
    BY <1>1, <1>3, <1>10
  <2>2. QED
    BY <1>3, <1>6, <1>10, <2>1 DEF Inside
<1>13. QED
  BY <1>3, <1>7, <1>8, <1>10, <1>11, <1>12

\* Where the compiler's kernel looks: behind the parameter before.
Places(ps, at) ==
  at = [n \in 0 .. Len(ps) |->
          IF n = 0 THEN 24 ELSE NextMultiple(at[n - 1], SizeOf(ps[n].type)) + SizeOf(ps[n].type)]

LEMMA NpuOffsetsAre ==
  ASSUME NEW S, NEW ps \in Seq(S), NEW at, Places(ps, at)
  PROVE  \A n \in 1 .. Len(ps) : NpuOffsets(ps)[n] = at[n] - SizeOf(ps[n].type)
<1> DEFINE Step(f) ==
             [n \in 0 .. Len(ps) |->
                IF n = 0 THEN 24 ELSE NextMultiple(f[n - 1], SizeOf(ps[n].type)) + SizeOf(ps[n].type)]
           it == CHOOSE f : f = Step(f)
           len == Len(ps)
<1>1. len \in Nat
  OBVIOUS
<1>2. NpuOffsets(ps) = [n \in 1 .. len |-> it[n] - SizeOf(ps[n].type)]
  BY DEF NpuOffsets
<1>3. at = Step(at)
  BY DEF Places
<1>4. it = Step(it)
  BY <1>3
<1> HIDE DEF it, len
<1>5. /\ it[0] = 24 /\ at[0] = 24
      /\ \A n \in 1 .. len : /\ it[n] = NextMultiple(it[n - 1], SizeOf(ps[n].type)) + SizeOf(ps[n].type)
                             /\ at[n] = NextMultiple(at[n - 1], SizeOf(ps[n].type)) + SizeOf(ps[n].type)
  <2>1. \A n \in 0 .. len :
          /\ it[n] = IF n = 0 THEN 24 ELSE NextMultiple(it[n - 1], SizeOf(ps[n].type)) + SizeOf(ps[n].type)
          /\ at[n] = IF n = 0 THEN 24 ELSE NextMultiple(at[n - 1], SizeOf(ps[n].type)) + SizeOf(ps[n].type)
    BY <1>3, <1>4 DEF len
  <2>2. 0 \in 0 .. len /\ \A n \in 1 .. len : n \in 0 .. len /\ n # 0
    BY <1>1
  <2> HIDE DEF Step
  <2>3. QED
    BY <2>1, <2>2
<1> DEFINE Bad == {n \in 0 .. len : it[n] # at[n]}
<1>6. ASSUME Bad # {} PROVE FALSE
  <2>1. PICK n \in Bad : \A m \in Bad : n <= m
    <3>1. Bad \in SUBSET Nat
      BY <1>1
    <3> HIDE DEF Bad
    <3>2. QED
      BY <1>6, <3>1, LeastOf
  <2>2. n \in 0 .. len /\ it[n] # at[n]
    BY <2>1
  <2>3. n # 0
    BY <1>5, <2>2
  <2>4. n \in 1 .. len /\ n - 1 \in 0 .. len /\ n - 1 \notin Bad
    BY <1>1, <2>1, <2>2, <2>3
  <2>5. it[n - 1] = at[n - 1]
    BY <2>4
  <2>6. QED
    BY <1>5, <2>2, <2>4, <2>5
<1>7. \A n \in 1 .. len : it[n] = at[n]
  BY <1>1, <1>6
<1>8. QED
  BY <1>2, <1>7 DEF len

-----------------------------------------------------------------------------
(* All the values of a block.                                                *)

Fed(b, layout, ps, xs) ==
  /\ Len(ps) = Len(layout) /\ Len(xs) = Len(layout) /\ Holds(b, xs)
  /\ \A n \in 1 .. Len(layout) : layout[n] = ps[n].type /\ SizeOf(layout[n]) <= SizeOf(xs[n].type)
PlaceAt(h, ps, n) == NextMultiple(Len(h[n - 1]), SizeOf(ps[n].type))
StepOf(h, ps, xs, n) ==
  /\ PlaceAt(h, ps, n) \in Nat /\ Len(h[n]) = PlaceAt(h, ps, n) + SizeOf(ps[n].type)
  /\ Extends(h[n], h[n - 1]) /\ Inside(h[n], PlaceAt(h, ps, n), xs[n], ps[n].type)

LEMMA StepsPlace ==
  ASSUME NEW b \in Buffers, NEW layout \in Seq(Types), NEW ps, NEW xs \in Seq(Passable),
         Fed(b, layout, ps, xs), NEW h, PackSteps(b, layout, h), NEW n \in 1 .. Len(layout)
  PROVE  StepOf(h, ps, xs, n)
<1>1. /\ Len(layout) \in Nat /\ Len(xs) = Len(layout) /\ Holds(b, xs)
      /\ layout[n] = ps[n].type /\ SizeOf(layout[n]) <= SizeOf(xs[n].type)
  BY DEF Fed
<1>2. n - 1 \in 0 .. Len(layout) /\ n \in 1 .. Len(xs)
  BY <1>1
<1>3. h[n - 1] \in Seq(Byte) /\ h[n] = PushFrom(b, h[n - 1], n, layout[n])
  BY <1>2 DEF PackSteps
<1>4. xs[n] \in Passable
  BY <1>2
<1>5. n \in DOMAIN b.offsets /\ HoldsAt(b, b.offsets[n], xs[n])
  <2>1. b.offsets \in Seq(Nat) /\ Len(b.offsets) = Len(xs)
    BY <1>1 DEF Holds, Buffers
  <2>2. QED
    BY <1>1, <1>2, <2>1 DEF Holds
<1>6. PICK block : block = h[n - 1]
  OBVIOUS
<1>7. PICK t : t = ps[n].type
  OBVIOUS
<1>8. PICK v : v = xs[n]
  OBVIOUS
<1>9. /\ block \in Seq(Byte) /\ n \in DOMAIN b.offsets /\ v \in Passable /\ HoldsAt(b, b.offsets[n], v)
      /\ SizeOf(t) <= SizeOf(v.type) /\ h[n] = PushFrom(b, block, n, t) /\ b \in Buffers
  BY <1>1, <1>3, <1>4, <1>5, <1>6, <1>7, <1>8
<1>10. PlaceAt(h, ps, n) = NextMultiple(Len(block), SizeOf(t))
  BY <1>6, <1>7 DEF PlaceAt
<1>11. /\ NextMultiple(Len(block), SizeOf(t)) \in Nat
       /\ Len(PushFrom(b, block, n, t)) = NextMultiple(Len(block), SizeOf(t)) + SizeOf(t)
       /\ Extends(PushFrom(b, block, n, t), block)
       /\ Inside(PushFrom(b, block, n, t), NextMultiple(Len(block), SizeOf(t)), v, t)
  BY ONLY <1>9, StepPlaces
<1>12. QED
  BY <1>6, <1>7, <1>8, <1>9, <1>10, <1>11 DEF StepOf

\* The places are those the kernel computes from its list of parameters.
LEMMA StepsAreOffsets ==
  ASSUME NEW S, NEW ps \in Seq(S), NEW h, NEW xs, Len(h[0]) = 24, \A n \in 1 .. Len(ps) : StepOf(h, ps, xs, n)
  PROVE  \A n \in 1 .. Len(ps) :
           /\ NpuOffsets(ps)[n] = PlaceAt(h, ps, n)
           /\ NpuOffsets(ps)[n] + SizeOf(ps[n].type) = Len(h[n])
<1> DEFINE at == [n \in 0 .. Len(ps) |-> Len(h[n])]
<1>1. Len(ps) \in Nat
  OBVIOUS
<1>2. ASSUME NEW n \in 0 .. Len(ps)
      PROVE  at[n] = IF n = 0 THEN 24 ELSE NextMultiple(at[n - 1], SizeOf(ps[n].type)) + SizeOf(ps[n].type)
  <2>1. CASE n = 0
    BY <2>1
  <2>2. CASE n # 0
    <3>1. n \in 1 .. Len(ps) /\ n - 1 \in 0 .. Len(ps)
      BY <1>1, <2>2
    <3>2. Len(h[n]) = NextMultiple(Len(h[n - 1]), SizeOf(ps[n].type)) + SizeOf(ps[n].type)
      BY <3>1 DEF StepOf, PlaceAt
    <3>3. at[n] = Len(h[n]) /\ at[n - 1] = Len(h[n - 1])
      BY <3>1
    <3> HIDE DEF at
    <3>4. QED
      BY <2>2, <3>2, <3>3
  <2>3. QED
    BY <2>1, <2>2
<1>3. Places(ps, at)
  <2>1. at = [n \in 0 .. Len(ps) |-> at[n]]
    OBVIOUS
  <2>2. [n \in 0 .. Len(ps) |-> at[n]] =
          [n \in 0 .. Len(ps) |->
             IF n = 0 THEN 24 ELSE NextMultiple(at[n - 1], SizeOf(ps[n].type)) + SizeOf(ps[n].type)]
    <3> HIDE DEF at
    <3>1. QED
      BY <1>2
  <2> HIDE DEF at
  <2>3. QED
    BY <2>1, <2>2 DEF Places
<1>4. \A n \in 1 .. Len(ps) : at[n] = Len(h[n])
  BY <1>1
<1> HIDE DEF at
<1>5. ASSUME NEW n \in 1 .. Len(ps)
      PROVE  /\ NpuOffsets(ps)[n] = PlaceAt(h, ps, n)
             /\ NpuOffsets(ps)[n] + SizeOf(ps[n].type) = Len(h[n])
  <2>1. NpuOffsets(ps)[n] = Len(h[n]) - SizeOf(ps[n].type)
    BY <1>3, <1>4, NpuOffsetsAre
  <2>2. PlaceAt(h, ps, n) \in Nat /\ Len(h[n]) = PlaceAt(h, ps, n) + SizeOf(ps[n].type)
    BY DEF StepOf
  <2>3. SizeOf(ps[n].type) \in {1, 4, 8}
    BY Sizes
  <2>4. QED
    BY <2>1, <2>2, <2>3
<1>6. QED
  BY <1>5

\* What a step wrote stays to the end.
LEMMA StepsExtend ==
  ASSUME NEW N \in Nat, NEW h \in [0 .. N -> Seq(Byte)], \A n \in 1 .. N : Extends(h[n], h[n - 1]),
         NEW n \in 0 .. N
  PROVE  Extends(h[N], h[n])
<1> DEFINE Bad == {m \in n .. N : ~Extends(h[m], h[n])}
<1>1. ASSUME Bad # {} PROVE FALSE
  <2>1. PICK m \in Bad : \A j \in Bad : m <= j
    <3>1. Bad \in SUBSET Nat
      OBVIOUS
    <3> HIDE DEF Bad
    <3>2. QED
      BY <1>1, <3>1, LeastOf
  <2>2. m \in n .. N /\ ~Extends(h[m], h[n])
    BY <2>1
  <2>3. h[n] \in Seq(Byte)
    OBVIOUS
  <2>4. m # n
    <3>1. Extends(h[n], h[n])
      BY <2>3 DEF Extends
    <3>2. QED
      BY <2>2, <3>1
  <2>5. m - 1 \in n .. N /\ m - 1 \notin Bad /\ m \in 1 .. N
    BY <2>1, <2>2, <2>4
  <2>6. Extends(h[m - 1], h[n]) /\ Extends(h[m], h[m - 1])
    BY <2>5
  <2>7. h[m - 1] \in Seq(Byte) /\ h[m] \in Seq(Byte)
    BY <2>5
  <2>8. QED
    BY <2>2, <2>3, <2>6, <2>7, ExtendsOn
<1>2. N \in n .. N
  OBVIOUS
<1>3. QED
  BY <1>1, <1>2

\* The grid goes behind the parameters, three times in a row.
LEMMA GridReads == GridArg \in Passable /\ Reads(GridArg, Value("i32")) /\ GridArg.value = 1
<1>1. Value("i32") \in Types
  BY DEF Value, Types, DTypes, Scalars
<1>2. GridArg \in Passable /\ GridArg.type = Value("i32") /\ GridArg.value = 1
  BY <1>1 DEF GridArg, Passable
<1>3. Signed(Value("i32")) /\ Integral(Value("i32")) /\ SizeOf(Value("i32")) = 4
  BY DEF Signed, Integral, SizeOf, Value
<1>4. Largest(4) \in Nat /\ 1 <= Largest(4)
  BY Ranges
<1>5. Wrapped(1, Value("i32")) = 1
  BY <1>3, <1>4, WrappedSigned
<1>6. QED
  BY <1>2, <1>3, <1>5 DEF Reads

LEMMA GridPlaced ==
  ASSUME NEW block \in Seq(Byte)
  PROVE  /\ WithGrid(block) \in Seq(Byte) /\ Extends(WithGrid(block), block)
         /\ Len(WithGrid(block)) = NextMultiple(Len(block), 4) + 4
         /\ NextMultiple(Len(block), 4) \in Nat
         /\ Inside(WithGrid(block), NextMultiple(Len(block), 4), GridArg, Value("i32"))
<1>1. PICK new : new = BytesOf(GridArg)
  OBVIOUS
<1>2. SizeOf(Value("i32")) = 4 /\ GridArg.type = Value("i32")
  BY DEF SizeOf, Value, GridArg
<1>3. new \in Seq(Byte) /\ Len(new) = 4 /\ \A k \in 1 .. 4 : new[k] = [of |-> GridArg, byte |-> k]
  BY <1>1, <1>2, GridReads, BytesOfTypes
<1>4. PICK place : place = NextMultiple(Len(block), 4)
  OBVIOUS
<1>5. PICK after : after = WithGrid(block)
  OBVIOUS
<1>6. after = Written(block, new, 4)
  BY <1>1, <1>5 DEF WithGrid
<1>7. Placed(block, new, place, after)
  BY <1>3, <1>4, <1>6, WrittenPlaced
<1>8. Extends(after, block)
  BY <1>3, <1>6, WrittenExtends
<1>9. place \in Nat /\ after \in Seq(Byte) /\ Len(after) = place + 4
  BY <1>3, <1>7 DEF Placed
<1>10. Inside(after, place, GridArg, Value("i32"))
  <2>1. \A k \in 1 .. 4 : after[place + k] = new[k]
    BY <1>3, <1>7 DEF Placed
  <2>2. QED
    BY <1>2, <1>3, <1>9, <2>1 DEF Inside
<1>11. QED
  BY <1>4, <1>5, <1>8, <1>9, <1>10

GridBehind(block, after) ==
  /\ after \in Seq(Byte) /\ Extends(after, block)
  /\ \A g \in 0 .. 2 : Inside(after, NextMultiple(Len(block), 4) + 4 * g, GridArg, Value("i32"))
LEMMA ThreeGrids ==
  ASSUME NEW block \in Seq(Byte)
  PROVE  GridBehind(block, WithGrid(WithGrid(WithGrid(block))))
<1>1. PICK p : p = NextMultiple(Len(block), 4)
  OBVIOUS
<1>2. PICK b1 : b1 = WithGrid(block)
  OBVIOUS
<1>3. PICK b2 : b2 = WithGrid(b1)
  OBVIOUS
<1>4. PICK b3 : b3 = WithGrid(b2)
  OBVIOUS
<1> DEFINE G == Value("i32")
<1>5. b1 \in Seq(Byte) /\ Extends(b1, block) /\ Len(b1) = p + 4 /\ p \in Nat /\ Inside(b1, p, GridArg, G)
  BY <1>1, <1>2, GridPlaced
<1>6. NextMultiple(p + 4, 4) = p + 4 /\ NextMultiple(p + 8, 4) = p + 8
  <2>1. PICK m \in Int : p = m * 4
    <3>1. Len(block) \in Nat
      OBVIOUS
    <3>2. QED
      BY <1>1, <3>1 DEF NextMultiple
  <2>2. QED
    BY <2>1 DEF NextMultiple
<1>7. b2 \in Seq(Byte) /\ Extends(b2, b1) /\ Len(b2) = p + 8 /\ Inside(b2, p + 4, GridArg, G)
  <2>1. /\ b2 \in Seq(Byte) /\ Extends(b2, b1) /\ Len(b2) = NextMultiple(Len(b1), 4) + 4
        /\ Inside(b2, NextMultiple(Len(b1), 4), GridArg, G)
    BY <1>3, <1>5, GridPlaced
  <2>2. NextMultiple(Len(b1), 4) = p + 4
    BY <1>5, <1>6
  <2>3. QED
    BY <1>5, <2>1, <2>2
<1>8. b3 \in Seq(Byte) /\ Extends(b3, b2) /\ Inside(b3, p + 8, GridArg, G)
  <2>1. /\ b3 \in Seq(Byte) /\ Extends(b3, b2)
        /\ Inside(b3, NextMultiple(Len(b2), 4), GridArg, G)
    BY <1>4, <1>7, GridPlaced
  <2>2. NextMultiple(Len(b2), 4) = p + 8
    BY <1>6, <1>7
  <2>3. QED
    BY <2>1, <2>2
<1> HIDE DEF G
<1>9. Extends(b3, b1) /\ Extends(b2, block)
  BY <1>5, <1>7, <1>8, ExtendsOn
<1>10. Extends(b3, block)
  BY <1>5, <1>8, <1>9, ExtendsOn
<1>11. p + 4 \in Nat /\ p + 8 \in Nat
  BY <1>5
<1>12. Inside(b3, p, GridArg, G) /\ Inside(b3, p + 4, GridArg, G)
  BY <1>5, <1>7, <1>8, <1>9, <1>11, StaysInside
<1>13. \A g \in 0 .. 2 : p + 4 * g \in {p, p + 4, p + 8}
  BY <1>5
<1>14. QED
  BY <1>1, <1>2, <1>3, <1>4, <1>8, <1>10, <1>12, <1>13 DEF GridBehind, G

LEMMA BlockArrives ==
  ASSUME ArgumentsInv, pc = "launched", Unlost, build = "npu"
  PROVE  ProgramArrives
<1>1. /\ kernel \in Kernels /\ args \in Seq(Argument) /\ pc # "thrown"
      /\ Answered /\ Buffered /\ Blocked
  BY DEF ArgumentsInv, Frame
<1>2. PICK ps : ps = Parameters(tokens)
  OBVIOUS
<1>3. tokens \in Seq(Token) /\ Compiles(tokens) /\ Program.parameters = ps
  BY <1>2, ProgramOfCall DEF Compiled, Unlost
<1>4. PICK S : S = AnyParameter(tokens)
  OBVIOUS
<1>5. ps \in Seq(S) /\ DOMAIN ps = 1 .. Len(ps) /\ Len(ps) \in Nat
  BY <1>2, <1>3, <1>4, ParametersTyped
<1>6. PICK xs : xs = Pushes
  OBVIOUS
<1>7. xs \in Seq(Passable) /\ DOMAIN xs = 1 .. Len(xs) /\ Len(xs) \in Nat
  BY <1>1, <1>6, PushesTyped
<1>8. Matched(xs, ps)
  BY <1>2, <1>6, WholesMatch
<1>9. PICK layout : layout = Layout(tokens)
  OBVIOUS
<1>10. layout \in Seq(Types) /\ Laid(layout, ps)
  BY <1>1, <1>2, <1>9, LayoutTyped, LayoutIsLaid
<1>11. Holds(buffer, xs)
  <2>1. PICK vs : Held(vs)
    BY <1>1 DEF Buffered
  <2>2. vs = xs \o <<>> /\ Holds(buffer, vs)
    BY <1>6, <2>1 DEF Held, Behind
  <2>3. xs \o <<>> = xs
    BY <1>7
  <2>4. QED
    BY <2>2, <2>3
<1>12. PICK b : b = buffer
  OBVIOUS
<1>13. b \in Buffers
  BY <1>11, <1>12 DEF Holds
<1>14. Fed(b, layout, ps, xs)
  <2>1. Len(layout) = Len(ps) /\ Len(xs) = Len(ps)
    BY <1>8, <1>10 DEF Matched, Laid
  <2>2. ASSUME NEW n \in 1 .. Len(layout)
        PROVE  layout[n] = ps[n].type /\ SizeOf(layout[n]) <= SizeOf(xs[n].type)
    <3>1. layout[n] = ps[n].type
      BY <1>10 DEF Laid
    <3>2. Reads(xs[n], ps[n].type)
      BY <1>8, <2>1 DEF Matched, Suits
    <3>3. QED
      BY <3>1, <3>2 DEF Reads
  <2>3. QED
    BY <1>11, <1>12, <2>1, <2>2 DEF Fed
<1>15. PICK N : N = Len(layout)
  OBVIOUS
<1>16. N \in Nat /\ Len(ps) = N /\ Len(xs) = N
  BY <1>5, <1>8, <1>10, <1>15 DEF Matched, Laid
<1>17. PICK h : PackSteps(b, layout, h) /\ UserBlock(b, layout) = h[N]
  BY <1>10, <1>13, <1>15, PackTrace DEF PackTraced
<1>18. h \in [0 .. N -> Seq(Byte)] /\ Len(h[0]) = 24
  BY <1>15, <1>17, SystemArgsTyped DEF PackSteps
<1>19. \A n \in 1 .. N : StepOf(h, ps, xs, n)
  BY <1>7, <1>10, <1>13, <1>14, <1>15, <1>17, StepsPlace
<1>20. \A n \in 1 .. N : /\ NpuOffsets(ps)[n] = PlaceAt(h, ps, n)
                         /\ NpuOffsets(ps)[n] + SizeOf(ps[n].type) = Len(h[n])
  <2>1. ps \in Seq(S) /\ Len(h[0]) = 24
    BY <1>5, <1>18
  <2>2. \A n \in 1 .. Len(ps) : StepOf(h, ps, xs, n)
    BY <1>16, <1>19
  <2>3. \A n \in 1 .. Len(ps) : /\ NpuOffsets(ps)[n] = PlaceAt(h, ps, n)
                                /\ NpuOffsets(ps)[n] + SizeOf(ps[n].type) = Len(h[n])
    BY ONLY <2>1, <2>2, StepsAreOffsets
  <2>4. QED
    BY <1>16, <2>3
<1>21. PICK block : block = packed
  OBVIOUS
<1>22. GridBehind(h[N], block)
  <2>1. block = WithGrid(WithGrid(WithGrid(h[N])))
    <3>1. packed = Pack(layout)
      BY <1>1, <1>9, ProgramOfCall DEF Blocked, Unlost
    <3>2. Pack(layout) = Packed(b, layout)
      BY <1>12, PackIsPacked
    <3>3. QED
      BY <1>17, <1>21, <3>1, <3>2, PackedUser
  <2>2. h[N] \in Seq(Byte)
    BY <1>16, <1>18
  <2>3. QED
    BY <2>1, <2>2, ThreeGrids
<1>23. block \in Seq(Byte) /\ Extends(block, h[N])
  BY <1>22 DEF GridBehind
<1>24. ASSUME NEW n \in 1 .. N
       PROVE  Read(block, NpuOffsets(ps)[n], ps[n].type) = xs[n].value
  <2>1. PICK o : o = NpuOffsets(ps)[n]
    OBVIOUS
  <2>2. PICK t : t = ps[n].type
    OBVIOUS
  <2>3. PICK v : v = xs[n]
    OBVIOUS
  <2>4. o \in Nat /\ Inside(h[n], o, v, t)
    BY <1>19, <1>20, <2>1, <2>2, <2>3 DEF StepOf
  <2>5. n \in 0 .. N /\ N \in 0 .. N
    BY <1>16
  <2>6. h[n] \in Seq(Byte) /\ h[N] \in Seq(Byte)
    BY <1>18, <2>5
  <2>7. Extends(h[N], h[n])
    <3>1. \A m \in 1 .. N : Extends(h[m], h[m - 1])
      BY <1>19 DEF StepOf
    <3>2. QED
      BY <1>16, <1>18, <2>5, <3>1, StepsExtend
  <2>8. Extends(block, h[n])
    BY <1>23, <2>6, <2>7, ExtendsOn
  <2>9. Inside(block, o, v, t)
    BY <1>23, <2>4, <2>6, <2>8, StaysInside
  <2>10. v \in Passable /\ Reads(v, t)
    BY <1>7, <1>8, <1>16, <2>2, <2>3 DEF Matched, Suits
  <2>11. Read(block, o, t) = v.value
    BY <1>23, <2>4, <2>9, <2>10, ReadBack
  <2>12. QED
    BY <2>1, <2>2, <2>3, <2>11
<1>25. ASSUME NEW n \in DOMAIN ps
       PROVE  Received(n) = Passed(ps[n].index, ps[n].element)
  <2>1. n \in 1 .. N
    BY <1>5, <1>16
  <2>2. Received(n) = Read(block, NpuOffsets(ps)[n], ps[n].type)
    BY <1>3, <1>21 DEF Received
  <2>3. Suits(xs[n], ps[n])
    BY <1>8, <1>16, <2>1 DEF Matched
  <2>4. QED
    BY <1>24, <2>1, <2>2, <2>3 DEF Suits
<1>26. TrailerArrives
  <2> DEFINE behind == IF ps = <<>> THEN 24 ELSE NpuOffsets(ps)[Len(ps)] + SizeOf(ps[Len(ps)].type)
  <2>1. behind = Len(h[N])
    <3>1. CASE ps = <<>>
      <4>1. N = 0
        BY <1>16, <3>1
      <4>2. QED
        BY <1>18, <3>1, <4>1
    <3>2. CASE ps # <<>>
      <4>1. N \in 1 .. N
        BY <1>5, <1>16, <3>2
      <4>2. QED
        BY <1>16, <1>20, <3>2, <4>1
    <3>3. QED
      BY <3>1, <3>2
  <2>2. ASSUME NEW g \in 0 .. 2
        PROVE  Read(block, NextMultiple(behind, 4) + 4 * g, Value("i32")) = 1
    <3>1. PICK o : o = NextMultiple(behind, 4) + 4 * g
      OBVIOUS
    <3>2. Inside(block, o, GridArg, Value("i32"))
      BY <1>22, <2>1, <3>1 DEF GridBehind
    <3>3. o \in Nat
      <4>1. h[N] \in Seq(Byte)
        BY <1>16, <1>18
      <4>2. NextMultiple(Len(h[N]), 4) \in Nat
        BY <4>1, GridPlaced
      <4> HIDE DEF behind
      <4>3. QED
        BY <2>1, <3>1, <4>2
    <3>4. Read(block, o, Value("i32")) = GridArg.value
      BY <1>23, <3>2, <3>3, GridReads, ReadBack
    <3>5. QED
      BY <3>1, <3>4, GridReads
  <2>3. TrailerArrives <=> \A g \in 0 .. 2 : Read(packed, NextMultiple(behind, 4) + 4 * g, Value("i32")) = 1
    BY <1>3 DEF TrailerArrives
  <2> HIDE DEF behind
  <2>4. QED
    BY <1>21, <2>2, <2>3
<1>27. QED
  BY <1>3, <1>25, <1>26 DEF ProgramArrives

LEMMA ArriveHolds ==
  ASSUME ArgumentsInv
  PROVE  ArgumentsArrive
<1>1. SUFFICES ASSUME pc = "launched", Unlost
               PROVE  /\ ProgramArrives
                      /\ \A i \in DOMAIN Program.constants : Program.constants[i] = Passed(i, 1)
  BY DEF ArgumentsArrive, Unlost, ProgramArrives
<1>2. ProgramArrives
  BY <1>1, BufferArrives, BlockArrives
<1>3. Program.constants = Constants(tokens) /\ DOMAIN Constants(tokens) = ConstantIndices(tokens)
  BY <1>1, ProgramOfCall DEF Compiled, Constants, Unlost
<1>4. \A i \in ConstantIndices(tokens) : Constants(tokens)[i] = Passed(i, 1)
  BY <1>1, WholesMatch
<1>5. QED
  BY <1>2, <1>3, <1>4

\* Every parameter of the kernel that is launched, constant or not, has the value the
\* caller passed for it, and what follows the parameters is where the kernel looks for
\* it: operator()'s reading of the arguments and _compile_a_kernel's of the signature
\* agree, for every kernel, build and argument, but for the exceptions the property
\* names.
THEOREM ArgumentsAlwaysArrive == Spec => []ArgumentsArrive
<1>1. ArgumentsInv => ArgumentsArrive
  BY ArriveHolds
<1>2. QED
  BY <1>1, ArgumentsKept, PTL
==============================================================================
