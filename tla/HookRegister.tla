---------------------------- MODULE HookRegister ----------------------------
(***************************************************************************)
(* What set_launch_enter_hook, set_launch_exit_hook and clear_launch_hooks  *)
(* promise: the two process-wide hooks are one atomic register.  A setter   *)
(* takes effect once, at a single instant between its call and its return,  *)
(* and leaves the other hook as it finds it.                                *)
(***************************************************************************)
CONSTANTS Threads, Hooks, None

VARIABLES
  register,   (* The two hooks.                                         *)
  call        (* call[t]: the setter t is in and has not served, or None *)

registerVars == <<register, call>>

NoHooks == [enter |-> None, exit |-> None]
Calls == [side : {"enter", "exit"}, hook : Hooks \cup {None}]

Init ==
  /\ register = NoHooks
  /\ call = [t \in Threads |-> None]

Ask(t) ==
  /\ call[t] = None
  /\ \E c \in Calls : call' = [call EXCEPT ![t] = c]
  /\ UNCHANGED register

Serve(t) ==
  /\ call[t] # None
  /\ register' = [register EXCEPT ![call[t].side] = call[t].hook]
  /\ call' = [call EXCEPT ![t] = None]

ClearAll ==
  /\ register' = NoHooks
  /\ UNCHANGED call

Next == ClearAll \/ \E t \in Threads : Ask(t) \/ Serve(t)

Spec == Init /\ [][Next]_registerVars
=============================================================================
