---------------------------- MODULE MCTunedTable ----------------------------
(* Small instances of TunedTable.  Keys are GEMM sizes: 5 and 8 share a bucket *)
(* of the "log" strategy, 16 has one of its own.                               *)
EXTENDS TunedTable, TLC

CONSTANTS t1, t2, t3, gemm, gemmAtSource, wide, torch

\* Strategies of the one key column; "wide" is a schema of two columns.
SizeNorm(s, k) ==
  CASE s = "log" /\ k = 5 -> 8
    [] s = wide -> BadWidth
    [] OTHER -> k

BucketKeys == {5, 8}
AllKeys == {5, 8, 16}
OneSchema == {"log"}
TwoSchemas == {"log", "exact"}
WideSchemas == {"log", wide}
MCNorm == [s \in Schemas |-> [k \in Norms |-> SizeNorm(s, k)]]

\* Without identity hooks a kernel id is its own storage id.
MCIdentity == [r \in Resolvers \cup {None} |-> [k \in Kernels |-> k]]

\* The torch resolver binds gemm to the namespace of its source file.
ScopedIdentity ==
  [r \in Resolvers \cup {None} |->
     [k \in Kernels |-> IF r = torch /\ k = gemm THEN gemmAtSource ELSE k]]

\* One file that binds gemm with and without its namespace; one that rebinds it
\* with two columns.
PolicyFiles ==
  { {[cell |-> gemm, schema |-> "log", keys |-> {8}],
     [cell |-> gemmAtSource, schema |-> "log", keys |-> {}]},
    {[cell |-> gemmAtSource, schema |-> wide, keys |-> {}]} }

\* Two versions of a file: the later one binds gemm without a strategy, so that
\* 5 and 8 become two keys.
RebindFiles == { {[cell |-> gemm, schema |-> s, keys |-> {}]} : s \in TwoSchemas }

\* A file of one kernel, with a row for 16 and none for the bucket of 5.
OneKernelFile == { {[cell |-> gemm, schema |-> "log", keys |-> {16}]} }

\* The same, and a file whose kernel has been tuned for no key yet.
KernelFiles == OneKernelFile \cup { {[cell |-> gemm, schema |-> "log", keys |-> {}]} }

\* The state without the locals that are dead where their thread is: no step
\* reads them before it assigns them.  A call that is over is kept only where a
\* property reads what it returned.
LocalsAt(t, over) ==
  <<pc[t], IF over THEN None ELSE req[t], IF over THEN None ELSE out[t], todo[t],
    IF pc[t] \in {"search", "research", "publish"} THEN tbl[t] ELSE NoTable,
    IF pc[t] \in Owning \cup {"join", "wait"} THEN tok[t] ELSE None,
    IF pc[t] = "wait" THEN lead[t] ELSE None,
    IF pc[t] = "insert" THEN ans[t] ELSE None>>
Shared ==
  <<entries, allocs, snap, loadMu, inflight, resolver, freezes, resolves, loads>>

Over(t) == pc[t] \in {"idle", "load"}
FlightState == <<Shared, [t \in Threads |-> LocalsAt(t, Over(t))]>>
AnswerState == <<Shared, [t \in Threads |-> LocalsAt(t, Over(t) /\ Live(t) = {})]>>

Symmetry == Permutations(Threads)
=============================================================================
