--------------------------- MODULE MCLaunchHooks ----------------------------
(* Small instances of LaunchHooks. *)
EXTENDS LaunchHooks, TLC

CONSTANTS t1, t2, t3, h1, h2, a1, a2, a3, a4, a5

\* The state without the contents of addresses nobody owns, and without what a
\* launch that has returned ran.
LiveState ==
  <<cell, [a \in Addresses |-> IF a \in Owned THEN memory[a] ELSE NoHooks],
    setterVars, pc, hooks, [t \in Threads |-> IF pc[t] = "idle" THEN None ELSE <<ran[t], seen[t]>>]>>
=============================================================================
