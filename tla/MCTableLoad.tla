---------------------------- MODULE MCTableLoad -----------------------------
(* Two threads load for two devices from lists of files, right and wrong; and   *)
(* one file for every dimension of an 8-bit integer under every strategy.        *)
EXTENDS TableLoad, TLC

CONSTANTS t1, t2

RowFor(d) == [dims |-> <<d>>, dtypes |-> <<>>, sound |-> TRUE]
KernelDoc(id, ns, s, rows) ==
  [id |-> id, namespace |-> ns, strategies |-> <<s>>, ndtypes |-> 0, unsupported |-> FALSE, rows |-> rows]
File(version, kernels) ==
  [parses |-> TRUE, version |-> version, backend |-> "CUDA", device |-> "A100", kernels |-> kernels]

\* Sizes 5, 16 and 40 in three buckets of "log"; 5 and 8 in one.
Gemm == KernelDoc("gemm", None, "log", <<RowFor(5), RowFor(16), RowFor(40)>>)
Gemv == KernelDoc("gemv", None, "align32", <<RowFor(33)>>)
Later == File(1, <<KernelDoc("gemm", None, None, <<RowFor(1), RowFor(3), RowFor(5), RowFor(7)>>)>>)
Two == File(1, <<Gemm, Gemv>>)
Twice == File(1, <<Gemv, KernelDoc("gemm", None, "log", <<RowFor(5), RowFor(8)>>)>>)
Repeated == File(1, <<Gemv, Gemv>>)
Broken == File(1, <<Gemv, [Gemm EXCEPT !.rows[1].sound = FALSE]>>)
Scoped == File(2, <<KernelDoc("gemm", "site", "log", <<RowFor(5)>>), KernelDoc("gemm", "user", "log", <<>>)>>)
ScopedOld == [Scoped EXCEPT !.version = 1]
Foreign == [Two EXCEPT !.device = "H100"]
Anywhere == [Later EXCEPT !.device = None]
OtherBackend == [Two EXCEPT !.backend = "HCU"]
Torn == [Two EXCEPT !.parses = FALSE]
Typed ==
  File(1, <<[KernelDoc("gemm", None, "align32_ceil",
               <<[dims |-> <<5>>, dtypes |-> <<"float">>, sound |-> TRUE],
                 [dims |-> <<5>>, dtypes |-> <<"half">>, sound |-> TRUE]>>) EXCEPT !.ndtypes = 1]>>)
\* One column more than find() takes.
Wide(rows) == File(1, <<[KernelDoc("gemm", None, None, rows) EXCEPT !.strategies = <<"log", "log", "log", "log", "log">>]>>)
WideRow == <<[dims |-> <<5, 5, 5, 5, 5>>, dtypes |-> <<>>, sound |-> TRUE]>>
Unknown == File(1, <<KernelDoc("gemm", None, "square", <<>>)>>)
Refusing == File(1, <<[Gemm EXCEPT !.unsupported = TRUE]>>)

Mixing == {Later, Two, Twice, Broken, Foreign}
Alone == {Repeated, Scoped, ScopedOld, Anywhere, OtherBackend, Torn, Typed, Wide(<<>>), Wide(WideRow),
          Unknown, Refusing, [Two EXCEPT !.version = 3]}
\* One dimension in a column of every strategy that takes it.
Everywhere(v) ==
  LET taking == SelectSeq(<<"default", "log", "align32", "align32_ceil">>, LAMBDA s : ~Overflows(s, v))
  IN  File(1, <<[KernelDoc("gemm", None, None, <<[RowFor(v) EXCEPT !.dims = [n \in DOMAIN taking |-> v]]>>)
                  EXCEPT !.strategies = taking]>>)

MCEnvLists ==
  {<<f, g>> : f \in Alone, g \in {Later}} \cup {<<Everywhere(v)>> : v \in Int64}
    \cup {<<f, g, h>> : f \in Mixing, g \in Mixing, h \in Mixing}
Symmetry == Permutations(Threads)
MCDTypeHash == [s \in {"float", "half"} |-> Len(s)]
MCDeviceNames == <<"A100", None>>
==============================================================================
