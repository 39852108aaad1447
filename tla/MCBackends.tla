----------------------------- MODULE MCBackends ------------------------------
(* Two directories of one kernel: the first asks for auto-blockify and a       *)
(* workspace, the second for two warps and neither.  Unsigned integers of four *)
(* bits: <<8, 2>> leaves the type, 8 is negative as an int.                    *)
EXTENDS Backends, TLC

CONSTANTS t1, t2, d1, d2

MCCompiled ==
  (d1 :> [shared |-> 1, workspace |-> 2, blockify |-> TRUE, warps |-> 1, promote |-> FALSE]) @@
  (d2 :> [shared |-> 3, workspace |-> 0, blockify |-> FALSE, warps |-> 2, promote |-> TRUE])

MCGrids == {<<3, 1>>, <<8, 2>>}

\* The state without the locals that are dead where their thread is, and without
\* what an NPU launch has submitted, which no property of that build reads.
Seen(t) == IF build = "npu" THEN None ELSE submitted[t]
Local(t) ==
  <<pc[t], IF pc[t] = "idle" /\ Seen(t) = None THEN None ELSE dir[t],
    IF pc[t] = "loading" THEN <<step[t], meta[t], module[t], stub[t]>> ELSE None,
    IF pc[t] \in {"prepare", "submit"} /\ build # "npu" THEN shared[t] ELSE 0,
    IF pc[t] \in {"submit", "launch"} THEN grid[t] ELSE <<>>,
    work[t], Seen(t)>>
LiveState ==
  <<build, json, touches, driverVars, names, cache, mutex, handles,
    [t \in Threads |-> Local(t)], workVars>>

Symmetry == Permutations(Threads)
=============================================================================
