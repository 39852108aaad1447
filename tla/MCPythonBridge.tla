--------------------------- MODULE MCPythonBridge ----------------------------
(* Two callers, each Python's or the program's, and two flight tokens.         *)
EXTENDS PythonBridge, TLC

CONSTANTS t1, t2, k1, k2

\* Which of the two is the program's does not matter.
MCNatives == {{}, {t1}, {t1, t2}}

\* The state without the locals that are dead where their thread is.
Local(t) ==
  <<pc[t], IF pc[t] = "idle" THEN None ELSE <<op[t], came[t]>>,
    IF pc[t] \in {"idle", "join"} \/ op[t] # "resolve" THEN None ELSE token[t],
    IF pc[t] \in InPython THEN scope[t] ELSE FALSE,
    IF pc[t] \in {"wait", "hooked"} THEN t \in told ELSE FALSE,
    IF pc[t] = "trial" THEN trials[t] ELSE 0,
    IF pc[t] = "evict" THEN inserted[t] ELSE FALSE>>
LiveState ==
  <<fixedVars, pyVars, [t \in Threads |-> Local(t)], flight, bench, tuned, nargs,
    strange \cap tuned, written>>
=============================================================================
