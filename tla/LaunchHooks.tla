----------------------------- MODULE LaunchHooks ----------------------------
(***************************************************************************)
(* The process-wide launch hooks (src/launch_hooks.cpp) and the part of     *)
(* TritonKernelImpl::launch_with_signature that runs them.  The hooks are   *)
(* an immutable LaunchHooksState behind one atomic shared_ptr: a setter     *)
(* copies the current state, changes its side and exchanges the pointer if  *)
(* nobody else did; a launch keeps the pointer it read for both its hooks.  *)
(*                                                                          *)
(* A shared_ptr is the address of its object, and an object whose last      *)
(* owner is gone may be replaced by a new one at the same address: the      *)
(* comparison of the exchange sees addresses only.  Callbacks run user code *)
(* that may itself call the setters or clear the hooks.                     *)
(***************************************************************************)
CONSTANTS
  Threads,
  Launchers,   (* The threads that also launch kernels.            *)
  Hooks,       (* Callbacks a program may install.                 *)
  Addresses,   (* Where a LaunchHooksState can be allocated.       *)
  None         (* An empty std::function, a null pointer, no call. *)

ASSUME LaunchersAssumption == Launchers \subseteq Threads
ASSUME NullAssumption == None \notin Addresses \cup Hooks
ASSUME CallAssumption == None \notin [side : {"enter", "exit"}, hook : Hooks \cup {None}]

VARIABLES
  cell,      (* launch_hooks: the address of the published state, or None.    *)
  memory,    (* memory[a]: the LaunchHooksState at a.                         *)
  update,    (* update[t]: what the setter t is in changes, or None.          *)
  current,   (* current[t]: the state that setter read, which it owns.        *)
  desired,   (* desired[t]: the state it wants to publish, which it owns.     *)
  stage,     (* stage[t]: where in update_launch_hooks t is.                  *)
  pc,        (* pc[t]: where in launch_with_signature t is.                   *)
  hooks,     (* hooks[t]: the snapshot of the launch, which it owns.          *)
  ran,       (* History: the callbacks t's latest launch has run.             *)
  seen       (* History: the states published since that launch was entered.  *)

cellVars == <<cell, memory>>
setterVars == <<update, current, desired, stage>>
launchVars == <<pc, hooks, ran>>
vars == <<cellVars, setterVars, launchVars, seen>>

Callback == Hooks \cup {None}
HooksState == [enter : Callback, exit : Callback]
NoHooks == [enter |-> None, exit |-> None]
Pointers == Addresses \cup {None}
Update == [side : {"enter", "exit"}, hook : Callback]

Value(p) == IF p = None THEN NoHooks ELSE memory[p]
Applied(u, state) == [state EXCEPT ![u.side] = u.hook]

TypeOK ==
  /\ cell \in Pointers
  /\ memory \in [Addresses -> HooksState]
  /\ update \in [Threads -> Update \cup {None}]
  /\ current \in [Threads -> Pointers]
  /\ desired \in [Threads -> Pointers]
  /\ stage \in [Threads -> {"out", "copy", "exchange"}]
  /\ pc \in [Threads -> {"idle", "prepare", "enter", "submit", "exit"}]
  /\ hooks \in [Threads -> Pointers]
  /\ ran \in [Threads -> HooksState]
  /\ seen \in [Threads -> SUBSET HooksState]

Init ==
  /\ cell = None
  /\ memory = [a \in Addresses |-> NoHooks]
  /\ update = [t \in Threads |-> None]
  /\ current = [t \in Threads |-> None]
  /\ desired = [t \in Threads |-> None]
  /\ stage = [t \in Threads |-> "out"]
  /\ pc = [t \in Threads |-> "idle"]
  /\ hooks = [t \in Threads |-> None]
  /\ ran = [t \in Threads |-> NoHooks]
  /\ seen = [t \in Threads |-> {}]

Witness == seen' = [t \in Threads |-> IF pc[t] = "idle" THEN {} ELSE seen[t] \cup {Value(cell)'}]

-----------------------------------------------------------------------------
(* The setters *)

InUserCode(t) == pc[t] \in {"idle", "enter", "exit"}

\* An owner keeps its object's address from being given to another.  Mutants:
\* the setter, or the launch, keeps a plain pointer to what it read.
BorrowedRead ==
  {cell} \cup {desired[t] : t \in Threads} \cup {hooks[t] : t \in Threads}
BorrowedSnapshot ==
  {cell} \cup {desired[t] : t \in Threads} \cup {current[t] : t \in Threads}
Owned ==
  {cell} \cup {hooks[t] : t \in Threads}
    \cup {current[t] : t \in Threads} \cup {desired[t] : t \in Threads}

\* set_launch_enter_hook, set_launch_exit_hook: the first read of the pointer.
Set(t) ==
  /\ InUserCode(t) /\ stage[t] = "out"
  /\ \E u \in Update : update' = [update EXCEPT ![t] = u]
  /\ current' = [current EXCEPT ![t] = cell]
  /\ stage' = [stage EXCEPT ![t] = "copy"]
  /\ UNCHANGED <<cellVars, desired, launchVars, seen>>

\* The changed copy; a copy without callbacks is dropped for a null pointer.
Copy(t) ==
  LET next == Applied(update[t], Value(current[t])) IN
  /\ stage[t] = "copy"
  /\ stage' = [stage EXCEPT ![t] = "exchange"]
  /\ IF next = NoHooks
     THEN desired' = [desired EXCEPT ![t] = None] /\ UNCHANGED memory
     ELSE \E a \in Addresses \ Owned :
            /\ memory' = [memory EXCEPT ![a] = next]
            /\ desired' = [desired EXCEPT ![t] = a]
  /\ UNCHANGED <<cell, update, current, launchVars, seen>>

\* What a failed exchange leaves in `current`.  Mutant: what it was.
KeepExpected(t) == current[t]
Reloaded(t) == cell

\* Whether the exchange finds the state the copy was made from.
StillCurrent(t) == cell = current[t]

ExchangeSucceeds(t) ==
  /\ stage[t] = "exchange" /\ StillCurrent(t)
  /\ cell' = desired[t]
  /\ update' = [update EXCEPT ![t] = None]
  /\ current' = [current EXCEPT ![t] = None]
  /\ desired' = [desired EXCEPT ![t] = None]
  /\ stage' = [stage EXCEPT ![t] = "out"]
  /\ UNCHANGED <<memory, launchVars>>
  /\ Witness

ExchangeFails(t) ==
  /\ stage[t] = "exchange" /\ ~StillCurrent(t)
  /\ current' = [current EXCEPT ![t] = Reloaded(t)]
  /\ desired' = [desired EXCEPT ![t] = None]
  /\ stage' = [stage EXCEPT ![t] = "copy"]
  /\ UNCHANGED <<cellVars, update, launchVars, seen>>

\* clear_launch_hooks.
Clear(t) ==
  /\ InUserCode(t) /\ stage[t] = "out"
  /\ cell' = None
  /\ UNCHANGED <<memory, setterVars, launchVars>>
  /\ Witness

-----------------------------------------------------------------------------
(* A launch *)

\* launch_with_signature is entered; the kernel is loaded and its options are
\* prepared, which may throw, before the pointer is read.
Launch(t) ==
  /\ t \in Launchers /\ pc[t] = "idle" /\ stage[t] = "out"
  /\ pc' = [pc EXCEPT ![t] = "prepare"]
  /\ ran' = [ran EXCEPT ![t] = NoHooks]
  /\ seen' = [seen EXCEPT ![t] = {Value(cell)}]
  /\ UNCHANGED <<cellVars, setterVars, hooks>>

Return(t) ==
  /\ pc' = [pc EXCEPT ![t] = "idle"]
  /\ hooks' = [hooks EXCEPT ![t] = None]

PrepareThrows(t) ==
  /\ pc[t] = "prepare"
  /\ Return(t)
  /\ UNCHANGED <<cellVars, setterVars, ran, seen>>

\* The snapshot, and the enter hook if it has one.
Snapshot(t) ==
  LET enter == Value(cell).enter IN
  /\ pc[t] = "prepare"
  /\ hooks' = [hooks EXCEPT ![t] = cell]
  /\ ran' = [ran EXCEPT ![t].enter = enter]
  /\ pc' = [pc EXCEPT ![t] = IF enter = None THEN "submit" ELSE "enter"]
  /\ UNCHANGED <<cellVars, setterVars, seen>>

EnterReturns(t) ==
  /\ pc[t] = "enter" /\ stage[t] = "out"
  /\ pc' = [pc EXCEPT ![t] = "submit"]
  /\ UNCHANGED <<cellVars, setterVars, hooks, ran, seen>>

CallbackThrows(t) ==
  /\ pc[t] \in {"enter", "exit"} /\ stage[t] = "out"
  /\ Return(t)
  /\ UNCHANGED <<cellVars, setterVars, ran, seen>>

SubmitThrows(t) ==
  /\ pc[t] = "submit"
  /\ Return(t)
  /\ UNCHANGED <<cellVars, setterVars, ran, seen>>

\* The exit hook of the launch, run after the kernel was submitted.  Mutant: it
\* is looked up again.
PublishedExit(t) == Value(cell).exit
ExitHook(t) == Value(hooks[t]).exit

Submit(t) ==
  /\ pc[t] = "submit"
  /\ IF ExitHook(t) = None
     THEN Return(t) /\ UNCHANGED ran
     ELSE /\ pc' = [pc EXCEPT ![t] = "exit"]
          /\ ran' = [ran EXCEPT ![t].exit = ExitHook(t)]
          /\ UNCHANGED hooks
  /\ UNCHANGED <<cellVars, setterVars, seen>>

ExitReturns(t) ==
  /\ pc[t] = "exit" /\ stage[t] = "out"
  /\ Return(t)
  /\ UNCHANGED <<cellVars, setterVars, ran, seen>>

-----------------------------------------------------------------------------
SetterStep(t) == Copy(t) \/ ExchangeSucceeds(t) \/ ExchangeFails(t)

LaunchStep(t) ==
  \/ Launch(t) \/ PrepareThrows(t) \/ Snapshot(t) \/ EnterReturns(t)
  \/ CallbackThrows(t) \/ SubmitThrows(t) \/ Submit(t) \/ ExitReturns(t)

Next == \E t \in Threads : Set(t) \/ SetterStep(t) \/ Clear(t) \/ LaunchStep(t)

Spec == Init /\ [][Next]_vars

\* A thread inside a setter keeps running; nothing is assumed of callbacks, of
\* drivers or of programs.
FairSpec == Spec /\ \A t \in Threads : WF_vars(SetterStep(t))

-----------------------------------------------------------------------------
(* Properties *)

\* The published state implements an atomic register of two hooks: an update
\* is never lost to one of the other side, never applied twice and never undone
\* by a setter that read an older state, even if an address is used again
\* (update_launch_hooks).
Register == INSTANCE HookRegister WITH register <- Value(cell), call <- update
SettersAreAtomic == Register!Spec

\* The hooks one launch runs are those of a single state that was published
\* while the launch was under way, whatever setters, clear_launch_hooks or its
\* own callbacks did in between (launch_with_signature).
LaunchRunsOneState ==
  \A t \in Threads :
    pc[t] \in {"enter", "submit", "exit"} =>
      \E state \in seen[t] :
        /\ ran[t].enter = state.enter
        /\ Value(hooks[t]) = state
        /\ pc[t] = "exit" => ran[t].exit = state.exit

\* Setters are lock-free: once the pointer stops changing, no setter keeps
\* retrying (the loop of update_launch_hooks reloads what it compares with).
QuietSettersReturn ==
  \A t \in Threads : <>[][cell' = cell]_vars => []<>(stage[t] = "out")

-----------------------------------------------------------------------------
(* The inductive invariant *)

\* A setter about to exchange has exactly the state it read with its side
\* changed, at an address nobody else knows.
CopyIsPrivate ==
  \A t \in Threads :
    stage[t] = "exchange" =>
      /\ Value(desired[t]) = Applied(update[t], Value(current[t]))
      /\ desired[t] # None =>
           /\ desired[t] \notin {cell, hooks[t], current[t]}
           /\ \A u \in Threads \ {t} : desired[t] \notin {desired[u], current[u], hooks[u]}

CallsMatch ==
  \A t \in Threads : (stage[t] = "out") <=> (update[t] = None)

\* What is published now was published during every launch under way.
PublishedIsSeen == \A t \in Threads : pc[t] # "idle" => Value(cell) \in seen[t]

HooksInv == TypeOK /\ CallsMatch /\ CopyIsPrivate /\ PublishedIsSeen
=============================================================================
