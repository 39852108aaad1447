----------------------------- MODULE MCArguments -----------------------------
(* Three kernels and what their callers pass.  With ByteBits = 2 an i32 holds  *)
(* -128 .. 127 and an i64 -32768 .. 32767.                                     *)
EXTENDS Arguments

CONSTANTS float32, float16, callee, i32, aligned, nullopt, pair, number, open

\* What the texts say: "tl.float32" and "tl.float16" are read as text, "i32", "*fp32:16" and
\* "nullopt" as what ArgHandle writes for others, "3,i32" as two tokens, "3" as a number;
\* "(" cannot be split.
MCSpelling ==
  [w \in Words |->
     CASE w = i32 -> <<Typed(Value("i32"), 0, FALSE)>>
       [] w = aligned -> <<Typed(Pointer("fp32"), 16, FALSE)>>
       [] w = nullopt -> <<NulloptToken>>
       [] w = pair -> <<Printed("number", 3), Typed(Value("i32"), 0, FALSE)>>
       [] w = number -> <<Printed("number", 3)>>
       [] w = open -> <<Printed("broken", None)>>
       [] OTHER -> <<Printed("text", w)>>]

Num(t, v) == [form |-> "number", number |-> [type |-> Value(t), value |-> v]]
Scalar(t, v) == [form |-> "scalar", number |-> [type |-> Value(t), value |-> v]]
Tensor(a, x) == [form |-> "tensor", dtype |-> "fp32", address |-> a, extent |-> x]
DevicePtr(a, x) == [form |-> "device_ptr", dtype |-> "fp32", address |-> a, extent |-> x]
Text(s) == [form |-> "text", text |-> s]
Optional(v) == [form |-> "optional", value |-> v]
Tuple(ts) == [form |-> "tuple", elements |-> [n \in DOMAIN ts |-> [type |-> Value(ts[n]), value |-> 20 + n]]]
Jit == [form |-> "jit", callee |-> callee]
Nullopt == [form |-> "nullopt"]

Options(w, s, e, d) == [warps |-> w, stages |-> s, extra |-> e, device |-> d]
Plain4 == Options(4, 3, {}, 0)

\* A pointer, then an integer: alignment, ranges, ones and wide values.
Mixed ==
  [kinds |-> <<"SPECIALIZED", "SPECIALIZED">>,
   arguments |-> {Tensor(32, 64), Tensor(36, 128), DevicePtr(32, None), DevicePtr(32, 0),
                  Num("i32", 1), Num("i64", 127), Num("i64", 128), Num("i64", -129), Num("u32", 16),
                  Num("i1", 1), Num("i1", 0), Num("fp64", 3), Optional(Tensor(0, 0))},
   extra |-> {Nullopt, Num("i32", 5)},
   settings |-> {Plain4}, calls |-> 2]

\* Parameters that are not aligned, and others that are not specialised at all.
Loose ==
  [kinds |-> <<"SPECIALIZED_NO_ALIGNMENT", "NON_CONSTEXPR", "CONSTEXPR">>,
   arguments |-> {Tensor(36, 64), Num("i64", 1), Num("i32", 16), Num("i1", 1), Scalar("fp64", 3),
                  Scalar("complex", 1), Tuple(<<"fp32", "i64", "i32">>), Tuple(<<"fp64">>),
                  Jit, Nullopt, Text(float32), Text(i32), Text(nullopt), Text(open)},
   extra |-> {Text(float32)},
   settings |-> {Plain4}, calls |-> 1]

\* Constexprs and compile options.
Tuned ==
  [kinds |-> <<"CONSTEXPR", "SPECIALIZED">>,
   arguments |-> {Num("i64", 1), Num("i1", 0), Text(float32), Text(float16), Text(aligned), Text(number), Text(pair),
                  Optional(None), DevicePtr(36, 128), DevicePtr(32, 128)},
   extra |-> {},
   settings |-> {Plain4, Options(8, 3, {}, 0), Options(4, 2, {}, 0), Options(4, 3, {"opt_level"}, 0),
                 Options(4, 3, {"num_warps"}, 0), Options(4, 3, {}, 1)}, calls |-> 2]

MCKernels == {Mixed, Loose, Tuned}
==============================================================================
