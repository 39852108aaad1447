--------------------------- MODULE MCProgramCache ---------------------------
(* Small instances of ProgramCache: two devices of one architecture. *)
EXTENDS ProgramCache, TLC

CONSTANTS t1, t2, t3, add, sum, d0, d1, sm80

SameArch == [d \in Devices |-> sm80]

\* The state without what a call that has returned was, unless it was refused.
LiveState ==
  <<sharedVars, policyVars, pc, handle, calls, historyVars,
    [t \in Threads |-> IF pc[t] = "idle" /\ outcome[t] # "frozen" THEN None
                       ELSE <<call[t], outcome[t]>>]>>

Symmetry == Permutations(Threads)
=============================================================================
