------------------------------ MODULE Arguments ------------------------------
(***************************************************************************)
(* What happens to the arguments of a launch: TritonJITFunctionImpl::       *)
(* operator() turns them into a signature (one token per parameter) and a   *)
(* parameter buffer (the bytes the kernel gets), asks for the kernel that   *)
(* was compiled for the signature, and hands it pointers into the buffer.   *)
(* The compiler (src/scripts/standalone_compile.py) reads the same tokens   *)
(* and decides on its own which parameters the kernel takes at run time and *)
(* how wide they are; nothing but the two readings of the signature keeps   *)
(* them together.                                                           *)
(*                                                                          *)
(* A caller makes several calls of one kernel, so that a kernel compiled    *)
(* for one call serves a later one.  Memory is a sequence of bytes; a byte  *)
(* remembers the value it is a byte of.                                     *)
(***************************************************************************)
EXTENDS Integers, Sequences, FiniteSets, SequencesExt

CONSTANTS
  Builds,    (* Backends to consider: "npu", "gcu", "hcu" or any other name.    *)
  Literals,  (* Whether equal string literals share an address, as a build may  *)
             (* have it: a subset of BOOLEAN.                                   *)
  Kernels,   (* Kernels: the kinds of the parameters, what callers pass, and a  *)
             (* bound on the calls.                                             *)
  ByteBits,  (* Bits of a byte: 8 in the code.                                  *)
  Reserved,  (* Option names extra must not hold: num_warps and num_stages.     *)
  Words,     (* What texts and JIT functions stand for.                         *)
  Spelling,  (* What a text says where the joined signature is split again: the  *)
             (* tokens its characters spell.                                    *)
  Garbage,   (* A value that is none of the caller's.                           *)
  None

Kinds == {"NON_CONSTEXPR", "SPECIALIZED", "CONSTEXPR", "SPECIALIZED_NO_ALIGNMENT"}

ASSUME ArgumentsAssumption ==
  /\ Literals \subseteq BOOLEAN
  /\ ByteBits \in Nat \ {0}
  /\ None \notin Words \cup Int /\ Garbage \notin Words \cup Int \cup {None}

VARIABLES
  build,     \* The backend the library was built for.
  pooled,    \* Equal string literals share an address.
  kernel,    \* The kernel that is called.
  pc,        \* "idle", "handling", "found", "launched", "thrown"
  setting,   \* Options and device of the call.
  args,      \* Arguments handled so far.
  tokens,    \* The tokens of ArgHandle, one for each argument, before they are joined.
  buffer,    \* ParameterBuffer: its bytes and the offsets of its entries.
  overloads, \* key -> compiled kernel
  key,       \* Key of the kernel of the call.
  packed,    \* The argument block of an NPU launch.
  calls
vars == <<build, pooled, kernel, pc, setting, args, tokens, buffer, overloads, key, packed, calls>>

kinds == kernel.kinds
Empty == [bytes |-> <<>>, offsets |-> <<>>]

-----------------------------------------------------------------------------
(* Types and the bytes of values. *)

Pointer(d) == [pointer |-> TRUE, name |-> d]
Value(t) == [pointer |-> FALSE, name |-> t]

SizeOf(t) ==
  CASE ~t.pointer /\ t.name = "i1" -> 1
    [] ~t.pointer /\ t.name \in {"i32", "u32", "fp32"} -> 4
    [] OTHER -> 8

Integral(t) == ~t.pointer /\ t.name \in {"i1", "i32", "i64", "u32", "u64"}
Signed(t) == t.name \in {"i32", "i64"}
Largest(bytes) == 2 ^ (ByteBits * bytes - 1) - 1      \* INT32_MAX for 4 bytes

\* What callers pass: numbers of a C++ type, which hold what the type can, alone, in
\* tuples or in a c10::Scalar; tensors and pointers with their extent, if it is known.
Scalars == {"i1", "i32", "i64", "u32", "u64", "fp32", "fp64"}
Elements == Scalars \ {"i1"}                          \* is_runtime_tuple_element_v
DTypes == Scalars \cup {"fp16", "bf16", "fp8e4nv", "i8", "i16", "u8", "u16"}
InRange(v) ==
  LET t == v.type
  IN  CASE Signed(t) -> v.value \in -Largest(SizeOf(t)) - 1 .. Largest(SizeOf(t))
        [] t = Value("i1") -> v.value \in {0, 1}
        [] t.name \in {"u32", "u64"} -> v.value \in 0 .. 2 * Largest(SizeOf(t)) + 1
        [] OTHER -> TRUE
Number(names) == {v \in [type : {Value(n) : n \in names}, value : Int] : InRange(v)}
Plain ==
  [form : {"tensor", "device_ptr"}, dtype : DTypes, address : Nat, extent : Nat \cup {None}]
    \cup [form : {"number"}, number : Number(Scalars)]
    \cup [form : {"scalar"}, number : Number({"i1", "i64", "u64", "fp64", "complex"})]
    \cup [form : {"tuple"}, elements : Seq(Number(Elements)) \ {<<>>}]
    \cup [form : {"jit"}, callee : Words] \cup [form : {"text"}, text : Words]
    \cup [form : {"nullopt"}]
Argument == Plain \cup [form : {"optional"}, value : Plain \cup {None}]
Setting == [warps : Nat, stages : Nat, extra : SUBSET STRING, device : Nat]
Types == {Pointer(d) : d \in DTypes} \cup {Value(t) : t \in Scalars}
Passable == [type : Types, value : Int]               \* what goes into a buffer
Token ==
  [is : {"type", "tuple"}, types : Seq(Types), hint : {0, 1, 16}, range : BOOLEAN]
    \cup [is : {"number", "bool", "nullopt", "broken"}, value : Words \cup Int \cup {None},
          hint : {0}, range : {FALSE}]
    \cup [is : {"text", "jit"}, value : Words, hint : {0}, range : {FALSE}]
ASSUME KernelsAssumption ==
  /\ \A k \in Kernels :
       /\ k.kinds \in Seq(Kinds) /\ k.calls \in Nat
       /\ k.settings \subseteq Setting /\ k.arguments \subseteq Argument /\ k.extra \subseteq Argument
  /\ None \notin Plain \cup Setting \cup Token \cup Passable
  /\ Spelling \in [Words -> Seq(Token) \ {<<>>}]

Pad == [of |-> None, byte |-> 0]
BytesOf(v) == [k \in 1 .. SizeOf(v.type) |-> [of |-> v, byte |-> k]]
ByteAt(bytes, k) == IF k \in DOMAIN bytes THEN bytes[k] ELSE Pad

NextMultiple(pos, step) == ((pos + step - 1) \div step) * step

\* The bytes after some were written at an aligned place behind the others.
Written(bytes, new, align) ==
  LET offset == NextMultiple(Len(bytes), align)
  IN  [k \in 1 .. offset + Len(new) |->
         IF k > offset THEN new[k - offset] ELSE ByteAt(bytes, k)]

PushArg(b, v) ==
  [bytes   |-> Written(b.bytes, BytesOf(v), SizeOf(v.type)),
   offsets |-> Append(b.offsets, NextMultiple(Len(b.bytes), SizeOf(v.type)))]

\* What a parameter of type t reads from an address: the low bytes of an integer
\* are that integer as far as it fits; anything else must be read as it was written.
Wrapped(x, t) ==
  LET range == 2 ^ (ByteBits * SizeOf(t))
      low   == x % range
  IN  IF Signed(t) /\ low > Largest(SizeOf(t)) THEN low - range ELSE low
Read(bytes, offset, t) ==
  LET first == ByteAt(bytes, offset + 1).of
      whole == /\ first # None
               /\ \A k \in 1 .. SizeOf(t) : ByteAt(bytes, offset + k) = [of |-> first, byte |-> k]
  IN  CASE ~whole -> Garbage
        [] whole /\ Integral(t) /\ Integral(first.type) -> Wrapped(first.value, t)
        [] whole /\ ~Integral(t) /\ SizeOf(first.type) = SizeOf(t) /\ first.type.pointer = t.pointer -> first.value
        [] OTHER -> Garbage

-----------------------------------------------------------------------------
(* Tokens. *)

Typed(t, hint, range) == [is |-> "type", types |-> <<t>>, hint |-> hint, range |-> range]
Grouped(ts) == [is |-> "tuple", types |-> ts, hint |-> 0, range |-> FALSE]
Printed(class, v) == [is |-> class, value |-> v, hint |-> 0, range |-> FALSE]
NulloptToken == Printed("nullopt", None)
HasTypes(token) == token.is \in {"type", "tuple"}

\* The signature is one string, split again at its commas (join_sig and
\* _bracket_aware_split, on an NPU split_signature_tokens).  What ArgHandle composed
\* comes back as it was; a text is read by its characters: as a type, as nullopt, as
\* several tokens, or as what cannot be split ("broken": a lone parenthesis, an empty
\* part).
ReadAs(token) == IF token.is = "text" THEN Spelling[token.value] ELSE <<token>>
Signature(composed) == FlattenSeq([i \in DOMAIN composed |-> ReadAs(composed[i])])

\* spec: ":16", ":1" or nothing.  Zero is a multiple of 16.
Spec16or1(v) == IF v % 16 = 0 THEN 16 ELSE IF v = 1 THEN 1 ELSE 0
PtrSpec(v) == IF v % 16 = 0 THEN 16 ELSE 0

PtrRangeSpec(extent) == build = "hcu" /\ extent # None /\ extent <= Largest(4)

\* Mutant: the value behind the largest still counts as an i32.
NarrowLate(v) ==
  IF Integral(v.type) /\ Signed(v.type)
  THEN Value(IF v.value >= -Largest(4) - 1 /\ v.value <= Largest(4) + 1 THEN "i32" ELSE "i64")
  ELSE v.type
NarrowType(v) ==
  IF Integral(v.type) /\ Signed(v.type)
  THEN Value(IF v.value >= -Largest(4) - 1 /\ v.value <= Largest(4) THEN "i32" ELSE "i64")
  ELSE v.type

-----------------------------------------------------------------------------
(* ArgHandle: what an argument adds to the signature and to the buffer.  An  *)
(* argument that is refused has no token.                                    *)

Refused == [token |-> None, pushed |-> <<>>]
Adds(token, pushed) == [token |-> token, pushed |-> pushed]

HandlePointer(dtype, address, extent, kind) ==
  LET hint  == IF kind = "SPECIALIZED" /\ build # "npu" THEN PtrSpec(address) ELSE 0
      range == kind \in {"SPECIALIZED", "SPECIALIZED_NO_ALIGNMENT"} /\ PtrRangeSpec(extent)
  IN  IF kind = "CONSTEXPR" THEN Refused
      ELSE Adds(Typed(Pointer(dtype), hint, range), <<[type |-> Pointer(dtype), value |-> address]>>)

HandleTensor(arg, kind) == HandlePointer(arg.dtype, arg.address, arg.extent, kind)

\* A bare pointer has no extent, and one of 0 bytes is not known.
HandleDevicePtr(arg, kind) ==
  HandlePointer(arg.dtype, arg.address, IF arg.extent = 0 THEN None ELSE arg.extent, kind)

\* Mutant: a tuple for a constexpr parameter is taken.
TupleAnywhere(arg, kind) ==
  Adds(Grouped([n \in DOMAIN arg.elements |-> arg.elements[n].type]), arg.elements)
HandleTuple(arg, kind) ==
  IF kind = "CONSTEXPR" THEN Refused
  ELSE Adds(Grouped([n \in DOMAIN arg.elements |-> arg.elements[n].type]), arg.elements)

HandleConstexpr(v) ==
  Adds(Printed(IF v.type = Value("i1") THEN "bool" ELSE "number", v.value), <<>>)

\* The code compares the address of the hint with that of another literal ":1":
\* an argument is left out only if the build made one literal of the two.
HandleSpecialized(v) ==
  LET hint == IF Integral(v.type) /\ build # "npu" THEN Spec16or1(v.value) ELSE 0
  IN  Adds(Typed(NarrowType(v), hint, FALSE), IF hint = 1 /\ pooled THEN <<>> ELSE <<v>>)

HandleNoAlignment(v) ==
  LET one == Integral(v.type) /\ build # "npu" /\ v.value = 1
  IN  Adds(Typed(NarrowType(v), IF one THEN 1 ELSE 0, FALSE), IF one THEN <<>> ELSE <<v>>)

HandleNonConstexpr(v) == Adds(Typed(NarrowType(v), 0, FALSE), <<v>>)

HandleNumber(v, kind) ==
  CASE kind = "CONSTEXPR" -> HandleConstexpr(v)
    [] kind = "SPECIALIZED" -> HandleSpecialized(v)
    [] kind = "SPECIALIZED_NO_ALIGNMENT" -> HandleNoAlignment(v)
    [] OTHER -> HandleNonConstexpr(v)

\* A c10::Scalar holds a bool, an int64, a uint64 or a double; a double becomes a
\* float on GCU.
HandleScalar(arg, kind) ==
  LET t == arg.number.type.name
  IN  IF t \notin {"i1", "i64", "u64", "fp64"} THEN Refused
      ELSE HandleNumber(IF t = "fp64" /\ build = "gcu" THEN [arg.number EXCEPT !.type = Value("fp32")]
                        ELSE arg.number, kind)

Unwrapped(arg) ==
  CASE arg.form # "optional" -> arg
    [] arg.form = "optional" /\ arg.value = None -> [form |-> "nullopt"]
    [] OTHER -> arg.value

\* Every branch but those of nullopt and of text looks up the parameter, which
\* throws when there are more arguments than parameters.
HandleArg(given, idx) ==
  LET arg  == Unwrapped(given)
      kind == kinds[idx]
  IN  CASE arg.form = "nullopt" -> Adds(NulloptToken, <<>>)
        [] arg.form = "text" -> Adds(Printed("text", arg.text), <<>>)
        [] OTHER ->
             IF idx \notin DOMAIN kinds THEN Refused
             ELSE CASE arg.form = "jit" -> Adds(Printed("jit", arg.callee), <<>>)
                    [] arg.form = "tensor" -> HandleTensor(arg, kind)
                    [] arg.form = "device_ptr" -> HandleDevicePtr(arg, kind)
                    [] arg.form = "tuple" -> HandleTuple(arg, kind)
                    [] arg.form = "scalar" -> HandleScalar(arg, kind)
                    [] arg.form = "number" -> HandleNumber(arg.number, kind)

AppendGlobalScratch(b) ==
  LET scratch == [type |-> Pointer("i8"), value |-> 0]
  IN  IF build = "npu" THEN b ELSE PushArg(PushArg(b, scratch), scratch)

-----------------------------------------------------------------------------
(* The compiler's reading of the signature (src/scripts/standalone_compile.py). *)

\* constexpr: a number or a boolean is read back; any other text becomes None.
Constexpr(token) == IF token.is \in {"number", "bool", "nullopt", "jit"} THEN token.value ELSE None

\* Parameters that are constants: constexprs, whose hints are not looked at, JIT
\* functions, nullopt, and hints of 1.
ConstantIndices(sig) ==
  {i \in DOMAIN sig : kinds[i] = "CONSTEXPR" \/ sig[i].is \in {"jit", "nullopt"} \/ sig[i].hint = 1}
Constants(sig) ==
  [i \in ConstantIndices(sig) |->
     IF kinds[i] # "CONSTEXPR" /\ sig[i].hint = 1 THEN 1 ELSE Constexpr(sig[i])]

\* How wide the kernel takes a parameter: GCU has no doubles, and an NPU takes
\* narrow integers as i32 (sig_to_npu_type).
ParameterType(t) ==
  CASE build = "gcu" /\ t = Value("fp64") -> Value("fp32")
    [] build = "npu" /\ t = Value("i1") -> Value("i32")
    [] OTHER -> t
ParametersAt(sig, i) ==
  IF sig[i].is = "type"
  THEN <<[index |-> i, element |-> 1, type |-> ParameterType(sig[i].types[1])]>>
  ELSE [n \in DOMAIN sig[i].types |-> [index |-> i, element |-> n, type |-> sig[i].types[n]]]

\* Mutant: a parameter folded to 1 stays in the runtime signature.
DeclaredTwice(sig) ==
  FlattenSeq([i \in DOMAIN sig |-> IF HasTypes(sig[i]) THEN ParametersAt(sig, i) ELSE <<>>])
Parameters(sig) ==
  FlattenSeq([i \in DOMAIN sig |-> IF i \in ConstantIndices(sig) THEN <<>> ELSE ParametersAt(sig, i)])

\* What stops the compiler: a signature it cannot split, the number of tokens, a
\* range of what is no pointer, a double in a tuple on GCU.  It takes what a token says
\* for the type of the parameter, whoever wrote it; Triton refuses what names none.
Compiles(sig) ==
  /\ Len(sig) = Len(kinds) /\ \A i \in DOMAIN sig : sig[i].is # "broken"
  /\ \A i \in DOMAIN sig : kinds[i] # "CONSTEXPR" /\ sig[i].range => sig[i].is = "type" /\ sig[i].types[1].pointer
  /\ \A i \in DOMAIN sig \ ConstantIndices(sig) :
       /\ HasTypes(sig[i])
       /\ build = "gcu" /\ sig[i].is = "tuple" => Value("fp64") \notin ToSet(sig[i].types)

\* Hints and ranges are those of parameters that are no constants yet; a range becomes
\* an attribute only where the backend has it (on HCU, with buffer operations on).
Compiled(sig, s) ==
  [constants |-> Constants(sig), parameters |-> Parameters(sig),
   sixteen   |-> {i \in DOMAIN sig : kinds[i] # "CONSTEXPR" /\ sig[i].hint = 16},
   range     |-> {i \in DOMAIN sig : kinds[i] # "CONSTEXPR" /\ build = "hcu" /\ sig[i].range},
   setting   |-> s]

-----------------------------------------------------------------------------
(* The calls. *)

Init ==
  /\ build \in Builds /\ pooled \in Literals /\ kernel \in Kernels
  /\ pc = "idle" /\ setting = None /\ args = <<>> /\ tokens = <<>> /\ buffer = Empty
  /\ overloads = <<>> /\ key = None /\ packed = <<>> /\ calls = 0

Fixed == UNCHANGED <<build, pooled, kernel>>

Begin ==
  /\ pc = "idle" /\ calls < kernel.calls
  /\ pc' = "handling" /\ calls' = calls + 1
  /\ \E s \in kernel.settings : setting' = s
  /\ Fixed /\ UNCHANGED <<args, tokens, buffer, overloads, key, packed>>

\* handle_arg(arg) of the next argument; a call may have one argument too many.
Handle ==
  /\ pc = "handling" /\ Len(args) <= Len(kinds)
  /\ \E arg \in (IF Len(args) < Len(kinds) THEN kernel.arguments ELSE kernel.extra) :
       LET added == HandleArg(arg, Len(args) + 1)
       IN  /\ args' = Append(args, arg)
           /\ pc' = IF added.token = None THEN "thrown" ELSE "handling"
           /\ tokens' = IF added.token = None THEN tokens ELSE Append(tokens, added.token)
           /\ buffer' = FoldLeft(PushArg, buffer, added.pushed)
  /\ Fixed /\ UNCHANGED <<setting, overloads, key, packed, calls>>

\* Mutant: the key of earlier versions, without the compile options.
OldKey(sig, s) == [sig |-> sig, device |-> s.device]
MakeKey(sig, s) ==
  [sig |-> sig, device |-> s.device, warps |-> s.warps, stages |-> s.stages, extra |-> s.extra]

\* The scratch pointers, the signature, and get_kernel: a kernel of the same key or
\* a new one.  A caller may also stop one argument short.
Find ==
  /\ pc = "handling" /\ Len(args) + 1 >= Len(kinds)
  /\ LET sig == Signature(tokens)
         k   == MakeKey(sig, setting)
     IN  /\ buffer' = AppendGlobalScratch(buffer)
         /\ \/ /\ setting.extra \cap Reserved # {}
               /\ pc' = "thrown" /\ UNCHANGED <<overloads, key>>
            \/ /\ setting.extra \cap Reserved = {} /\ k \in DOMAIN overloads
               /\ pc' = "found" /\ key' = k /\ UNCHANGED overloads
            \/ /\ setting.extra \cap Reserved = {} /\ k \notin DOMAIN overloads
               /\ IF Compiles(sig)
                  THEN /\ pc' = "found" /\ key' = k
                       /\ overloads' = [q \in DOMAIN overloads \cup {k} |->
                                          IF q = k THEN Compiled(sig, setting) ELSE overloads[q]]
                  ELSE pc' = "thrown" /\ UNCHANGED <<overloads, key>>
  /\ Fixed /\ UNCHANGED <<setting, args, tokens, packed, calls>>

\* parse_signature: the runtime arguments of an NPU launch, read from the tokens
\* alone.  Every pointer is one type; what has no name of its own is an i64, text
\* and i1 included.  A signature that cannot be split was not compiled.
LayoutType(t) == IF t = Value("i1") THEN Value("i64") ELSE t
LayoutOf(token) ==
  CASE token.is \in {"nullopt", "jit", "number", "bool", "broken"} -> <<>>
    [] token.is = "text" -> <<Value("i64")>>
    [] OTHER -> [n \in DOMAIN token.types |-> LayoutType(token.types[n])]
Layout(sig) == FlattenSeq([i \in DOMAIN sig |-> LayoutOf(sig[i])])

\* push_arg_by_type: as many bytes as the layout says, from the n-th entry on.
PushByType(block, n, t) ==
  LET from == IF n \in DOMAIN buffer.offsets THEN buffer.offsets[n] ELSE Len(buffer.bytes)
  IN  Written(block, [k \in 1 .. SizeOf(t) |-> ByteAt(buffer.bytes, from + k)], SizeOf(t))

\* The block of an NPU launch: three system arguments, the arguments, the grid.
SystemArgs == [k \in 1 .. 24 |-> Pad]
GridArg == [type |-> Value("i32"), value |-> 1]
Pack(layout) ==
  LET user == FoldLeft(LAMBDA block, n : PushByType(block, n, layout[n]),
                       SystemArgs, [n \in DOMAIN layout |-> n])
      WithGrid(block) == Written(block, BytesOf(GridArg), 4)
  IN  WithGrid(WithGrid(WithGrid(user)))

\* launch_with_signature with the pointers of the buffer.  An NPU launch checks the
\* number of arguments, unless there are none.
Launch ==
  /\ pc = "found"
  /\ LET layout  == Layout(Signature(tokens))
         entries == Len(buffer.offsets)
     IN  \/ build # "npu" /\ pc' = "launched" /\ UNCHANGED packed
         \/ build = "npu" /\ entries \notin {0, Len(layout)} /\ pc' = "thrown" /\ UNCHANGED packed
         \/ build = "npu" /\ entries \in {0, Len(layout)} /\ pc' = "launched" /\ packed' = Pack(layout)
  /\ Fixed /\ UNCHANGED <<setting, args, tokens, buffer, overloads, key, calls>>

Return ==
  /\ pc \in {"launched", "thrown"} /\ pc' = "idle"
  /\ setting' = None /\ args' = <<>> /\ tokens' = <<>> /\ buffer' = Empty
  /\ key' = None /\ packed' = <<>>
  /\ Fixed /\ UNCHANGED <<overloads, calls>>

Next == Begin \/ Handle \/ Find \/ Launch \/ Return

Spec == Init /\ [][Next]_vars

-----------------------------------------------------------------------------
(* What the kernel gets. *)

Program == overloads[key]

\* Where the kernel looks for its n-th parameter on an NPU: one behind the other,
\* each at a multiple of its size.
NpuOffsets(ps) ==
  LET at[n \in 0 .. Len(ps)] ==
        IF n = 0 THEN 24 ELSE NextMultiple(at[n - 1], SizeOf(ps[n].type)) + SizeOf(ps[n].type)
  IN  [n \in 1 .. Len(ps) |-> at[n] - SizeOf(ps[n].type)]

Received(n) ==
  LET ps == Program.parameters
  IN  CASE build = "npu" -> Read(packed, NpuOffsets(ps)[n], ps[n].type)
        [] build # "npu" /\ n \in DOMAIN buffer.offsets -> Read(buffer.bytes, buffer.offsets[n], ps[n].type)
        [] OTHER -> Garbage

\* The value the caller passed for an element of a parameter.
Passed(i, element) ==
  LET arg == Unwrapped(args[i])
  IN  CASE arg.form \in {"tensor", "device_ptr"} -> arg.address
        [] arg.form \in {"number", "scalar"} -> arg.number.value
        [] arg.form = "tuple" -> arg.elements[element].value
        [] arg.form = "text" -> arg.text
        [] arg.form = "jit" -> arg.callee
        [] arg.form = "nullopt" -> None

\* The scratch pointers behind the parameters are null, and an NPU kernel finds its grid.
TrailerArrives ==
  LET ps == Program.parameters
  IN  IF build = "npu"
      THEN LET behind == IF ps = <<>> THEN 24
                         ELSE NpuOffsets(ps)[Len(ps)] + SizeOf(ps[Len(ps)].type)
           IN  \A g \in 0 .. 2 : Read(packed, NextMultiple(behind, 4) + 4 * g, Value("i32")) = 1
      ELSE \A n \in {Len(ps) + 1, Len(ps) + 2} :
             n \in DOMAIN buffer.offsets /\ Read(buffer.bytes, buffer.offsets[n], Pointer("i8")) = 0

\* The four ways an argument is known to get lost.  See the README.
TextLost == \E i \in DOMAIN args : Unwrapped(args[i]).form = "text"
DoubleLost ==
  build = "gcu" /\ \E i \in DOMAIN args : kinds[i] # "CONSTEXPR" /\ Unwrapped(args[i]).form = "number"
                                          /\ Unwrapped(args[i]).number.type = Value("fp64")
BoolLost ==
  build = "npu" /\ \E i \in DOMAIN tokens : HasTypes(tokens[i]) /\ Value("i1") \in ToSet(tokens[i].types)
OneNotFolded ==
  ~pooled /\ build # "npu" /\ \E i \in DOMAIN args : kinds[i] = "SPECIALIZED" /\ tokens[i].hint = 1

\* A text may be read as something else than a text: as the type of its parameter (or
\* as nullopt), as several tokens or as what cannot be split.
Texts == {i \in DOMAIN args : Unwrapped(args[i]).form = "text"}
Spelt(i) == Spelling[Unwrapped(args[i]).text]
TextMisread == \E i \in Texts : Spelt(i) # <<Printed("text", Unwrapped(args[i]).text)>>
TextTaken ==
  \E i \in Texts \cap DOMAIN kinds : kinds[i] # "CONSTEXPR" /\ (HasTypes(Spelt(i)[1]) \/ Spelt(i)[1].is \in {"jit", "nullopt"})
TextSplits == \E i \in Texts : Len(Spelt(i)) # 1
TextBreaks == \E i \in Texts : Spelt(i)[1].is = "broken"

-----------------------------------------------------------------------------
(* Properties. *)

\* Types; one token per argument; a parameter of a compiled kernel is a constant
\* or is passed at run time, not both (standalone_compile.py:605-616).
TypeOK ==
  /\ build \in Builds /\ pooled \in Literals /\ kernel \in Kernels /\ calls \in 0 .. kernel.calls
  /\ pc \in {"idle", "handling", "found", "launched", "thrown"}
  /\ setting \in kernel.settings \cup {None}
  /\ pc # "thrown" => Len(tokens) = Len(args)
  /\ \A n \in DOMAIN buffer.offsets : buffer.offsets[n] < Len(buffer.bytes)
  /\ key = None \/ key \in DOMAIN overloads
  /\ \A k \in DOMAIN overloads : \A n \in DOMAIN overloads[k].parameters :
       overloads[k].parameters[n].index \notin DOMAIN overloads[k].constants

\* The runtime and the compiler read one signature: every parameter of the kernel
\* that is launched, constant or not, has the value the caller passed for it, and
\* what follows the parameters is where the kernel looks for it.  The exceptions
\* are the ones named above.
ArgumentsArrive ==
  pc = "launched" =>
    \/ TextLost \/ DoubleLost \/ BoolLost \/ OneNotFolded
    \/ /\ TrailerArrives
       /\ \A n \in DOMAIN Program.parameters :
            Received(n) = Passed(Program.parameters[n].index, Program.parameters[n].element)
       /\ \A i \in DOMAIN Program.constants : Program.constants[i] = Passed(i, 1)

\* A kernel that was compiled for an earlier call serves only calls it suits: those
\* of the same options and device (the comment at triton_jit_function.cpp:101-104), and
\* whose arguments are what it was specialised on: multiples of 16, pointers whose extent
\* a 32-bit offset covers.  A text that is read as something else can make up both.
KernelSuitsCall ==
  pc = "launched" =>
    /\ Program.setting = setting
    /\ TextMisread \/
         /\ \A i \in Program.sixteen : Passed(i, 1) % 16 = 0
         /\ \A i \in Program.range :
              LET arg == Unwrapped(args[i])
              IN  /\ arg.extent # None /\ arg.extent <= Largest(4)
                  /\ arg.form = "device_ptr" => arg.extent # 0

\* A call that reaches its kernel has arguments that suit the parameters: as many, no
\* pointer or tuple for a constexpr, no text for anything else, no scalar and no option
\* the library does not take; and one that is refused has not.  Nothing but the
\* compiler's reading stands behind it: ArgHandle puts a text into the signature as it
\* is (triton_jit_function.h:228-237), and the compiler takes what it spells for the
\* type of the parameter (standalone_compile.py:530-534), or for nullopt (621-624), so a
\* text "i32" is launched where no argument was pushed (TextTaken).  A comma in a text
\* makes up for a missing argument, or is one too many (TextSplits); one that cannot be
\* split is refused (TextBreaks), and text makes an NPU launch fail as well.
Unsuitable(given, i) ==
  LET arg == Unwrapped(given)
  IN  \/ i \notin DOMAIN kinds
      \/ i \in DOMAIN kinds /\ kinds[i] = "CONSTEXPR" /\ arg.form \in {"tensor", "device_ptr", "tuple"}
      \/ i \in DOMAIN kinds /\ kinds[i] # "CONSTEXPR" /\ arg.form = "text"
      \/ arg.form = "scalar" /\ arg.number.type.name \notin {"i1", "i64", "u64", "fp64"}
      \/ build = "gcu" /\ arg.form = "tuple"
         /\ \E n \in DOMAIN arg.elements : arg.elements[n].type = Value("fp64")
Misused ==
  \/ Len(args) # Len(kinds)
  \/ \E i \in DOMAIN args : Unsuitable(args[i], i)
  \/ setting.extra \cap Reserved # {}
RefusalsAreDeserved ==
  /\ pc = "launched" => ~Misused \/ TextTaken \/ TextSplits
  /\ pc = "thrown" => Misused \/ TextBreaks \/ TextSplits \/ (build = "npu" /\ TextLost)

\* What README.md:72 says of a parameter annotated with tl.constexpr: the kernel is
\* compiled for the actual value.
ConstexprsArrive ==
  pc = "launched" =>
    \A i \in DOMAIN Program.constants :
      kinds[i] = "CONSTEXPR" => Program.constants[i] = Passed(i, 1)
==============================================================================
