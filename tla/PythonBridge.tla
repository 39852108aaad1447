----------------------------- MODULE PythonBridge -----------------------------
(***************************************************************************)
(* The library calls Python: to read a signature when a function object is  *)
(* made, to compile, and to ask a tuner for a configuration.  Each call      *)
(* starts with ensure_initialized(), a std::call_once, and then takes the    *)
(* interpreter lock (triton_jit_function.cpp).  Callers are threads of a     *)
(* C++ program, or Python threads that hold the lock when they call.  A      *)
(* caller of resolve() may instead wait for the flight of another one        *)
(* (tuned_config.cpp; the wait hook is in torch_tuned_resolver.cpp), and the *)
(* owner's Python work is a tuner's selection: trial launches under the      *)
(* benchmark lock (scripts/tuned_resolver.py).                               *)
(***************************************************************************)
EXTENDS Naturals, FiniteSets

CONSTANTS
  Threads,
  Natives,    (* The sets of threads that may be those of the C++ program.         *)
  Tokens,     (* Flights of resolve(): kernel, device and normalised key.          *)
  Resolvers,  (* The resolvers that may be installed.                              *)
  MaxTrials,  (* Bound: candidates a selection benchmarks.                         *)
  None

(* "torch": the one of make_resolver, with its wait hook.  "plain": enters     *)
(* Python but brings no wait hook.  "reentrant": has the hook, and resolves,   *)
(* inside its callback, the token it is asked for.                             *)
ASSUME BridgeAssumption ==
  /\ Resolvers \subseteq {"torch", "plain", "reentrant"}
  /\ Natives \subseteq SUBSET Threads
  /\ None \notin Threads \cup Tokens \cup {"done"}
  /\ "done" \notin Threads /\ Tokens # {}
  /\ MaxTrials \in Nat \ {0}

VARIABLES
  resolver,  (* The installed resolver.                                             *)
  native,    (* Threads of the C++ program; the others are Python's.                *)
  serial,    (* Selections run under a benchmark lock; the Torch resolver only as   *)
             (* its tuner's library has one.                                         *)
  up,        (* Py_IsInitialized().                                                 *)
  gil,       (* Who holds the interpreter lock.                                     *)
  once,      (* init_flag: None, the thread that runs the body, or "done".          *)
  environ,   (* TRITON_JIT_BACKEND is in os.environ.                                *)
  pc,
  op,        (* What a call is for.                                                 *)
  came,      (* It came with the interpreter lock.                                  *)
  token,
  scope,     (* Its gil_scoped_acquire took the lock and will release it.           *)
  flight,    (* inflight_: the owner of a token, or None.                           *)
  told,      (* Waiters whose future is ready.                                      *)
  bench,     (* benchmark_lock, or _native_benchmark_lock.                          *)
  tuned,     (* Keys in the cache of the tuner.                                     *)
  nargs,     (* nargs of the tuner object a call drives: whose arguments, and       *)
             (* whether they are the copies.                                        *)
  trials,    (* Trials a selection has made.                                        *)
  inserted,  (* _KeyRecorder.inserted.                                              *)
  strange,   (* Keys whose latest selection made a launch of an unknown kind.       *)
  written    (* Callers whose own tensors a trial wrote.                            *)

fixedVars == <<resolver, native, serial>>
pyVars == <<up, gil, once, environ>>
callVars == <<op, came, token, scope>>
flightVars == <<flight, told>>
tunerVars == <<bench, tuned, nargs, trials, inserted, strange, written>>
vars == <<fixedVars, pyVars, pc, callVars, flightVars, tunerVars>>

Args == [of : Threads \cup {None}, copies : BOOLEAN]
NoArgs == [of |-> None, copies |-> FALSE]

\* Where Python code runs; there the interpreter switches threads.
InPython == {"os", "vendor", "work", "lock", "select", "trial", "store", "evict", "unlock"}

TypeOK ==
  /\ resolver \in Resolvers
  /\ native \subseteq Threads /\ serial \in BOOLEAN
  /\ up \in BOOLEAN /\ environ \in BOOLEAN
  /\ gil \in Threads \cup {None}
  /\ once \in Threads \cup {None, "done"}
  /\ pc \in [Threads -> {"idle", "once", "boot", "attach", "enter", "join", "wait", "hooked",
                         "regain", "publish"} \cup InPython]
  /\ op \in [Threads -> {"ensure", "python", "resolve"}]
  /\ came \in [Threads -> BOOLEAN]
  /\ token \in [Threads -> Tokens]
  /\ scope \in [Threads -> BOOLEAN]
  /\ flight \in [Tokens -> Threads \cup {None}]
  /\ told \subseteq Threads
  /\ bench \in Threads \cup {None}
  /\ tuned \subseteq Tokens /\ strange \subseteq Tokens
  /\ nargs \in [Threads -> Args]
  /\ trials \in [Threads -> 0 .. MaxTrials]
  /\ inserted \in [Threads -> BOOLEAN]
  /\ written \subseteq Threads

\* Where there is a Python thread the interpreter is up; its lock is free between
\* the steps of the Python threads.
Init ==
  /\ resolver \in Resolvers
  /\ native \in Natives
  /\ serial \in BOOLEAN /\ (resolver # "torch" => serial)
  /\ up \in BOOLEAN /\ (native # Threads => up)
  /\ gil = None /\ once = None /\ environ = FALSE
  /\ pc = [t \in Threads |-> "idle"]
  /\ op = [t \in Threads |-> "ensure"]
  /\ came = [t \in Threads |-> FALSE]
  /\ token = [t \in Threads |-> CHOOSE k \in Tokens : TRUE]
  /\ scope = [t \in Threads |-> FALSE]
  /\ flight = [k \in Tokens |-> None]
  /\ told = {}
  /\ bench = None /\ tuned = {} /\ strange = {}
  /\ nargs = [t \in Threads |-> NoArgs]
  /\ trials = [t \in Threads |-> 0]
  /\ inserted = [t \in Threads |-> FALSE]
  /\ written = {}

-----------------------------------------------------------------------------
(* Initialisation, the interpreter lock, and plain Python work *)

Goes(t, where) == pc' = [pc EXCEPT ![t] = where]

\* A call: a consumer or the loader of the GCU library asks for the interpreter,
\* the constructor and get_kernel for Python work, resolve() for a flight.
Begin(t) ==
  /\ pc[t] = "idle"
  /\ t \in native \/ gil \in {None, t}
  /\ gil' = IF t \in native THEN gil ELSE t
  /\ came' = [came EXCEPT ![t] = (gil' = t)]
  /\ \E o \in {"ensure", "python", "resolve"} :
       /\ op' = [op EXCEPT ![t] = o]
       /\ Goes(t, IF o = "resolve" THEN "join" ELSE "once")
  /\ scope' = [scope EXCEPT ![t] = FALSE]
  /\ trials' = [trials EXCEPT ![t] = 0]
  /\ inserted' = [inserted EXCEPT ![t] = FALSE]
  /\ UNCHANGED <<fixedVars, up, once, environ, token, flightVars, bench, tuned, nargs,
                 strange, written>>

\* std::call_once: run the body, wait for who runs it, or go on.
CallOnce(t) ==
  /\ pc[t] = "once"
  /\ \/ once = None /\ once' = t /\ Goes(t, "boot")
     \/ /\ once = "done"
        /\ Goes(t, IF op[t] = "ensure" THEN "idle" ELSE "enter")
        /\ UNCHANGED once
  /\ UNCHANGED <<fixedVars, up, gil, environ, callVars, flightVars, tunerVars>>

\* Py_InitializeEx leaves the lock with the thread that called it.
Boot(t) ==
  /\ pc[t] = "boot"
  /\ up' = TRUE
  /\ gil' = IF up THEN gil ELSE t
  /\ Goes(t, "attach")
  /\ UNCHANGED <<fixedVars, once, environ, callVars, flightVars, tunerVars>>

\* gil_scoped_acquire; a scope of a thread that has the lock changes nothing.
\* Mutant: such a scope releases it too.
AlwaysAcquires(t) == TRUE
Acquires(t) == gil # t

Attach(t) ==
  /\ pc[t] \in {"attach", "enter"}
  /\ gil \in {None, t}
  /\ scope' = [scope EXCEPT ![t] = Acquires(t)]
  /\ gil' = t
  /\ Goes(t, CASE pc[t] = "attach" -> "os"
               [] pc[t] = "enter" /\ op[t] = "resolve" -> "lock"
               [] OTHER -> "work")
  /\ UNCHANGED <<fixedVars, up, once, environ, op, came, token, flightVars, tunerVars>>

\* The end of the scope.
Detached(t) == IF scope[t] THEN None ELSE gil
HasPython(t, where) == pc[t] = where /\ gil = t

\* An exception leaves init_flag as it was.  Mutant: the flag is set however the
\* body ends.
SetAnyway == "done"
FlagAfterThrow == None

\* os.environ; in the resolver's callback the exception ends the flight.
SetEnviron(t) ==
  /\ HasPython(t, "os")
  /\ \/ /\ environ' = TRUE
        /\ Goes(t, "vendor")
        /\ UNCHANGED <<gil, once>>
     \/ /\ once' = FlagAfterThrow
        /\ gil' = Detached(t)
        /\ Goes(t, IF op[t] = "resolve" THEN "publish" ELSE "idle")
        /\ UNCHANGED environ
  /\ UNCHANGED <<fixedVars, up, callVars, flightVars, tunerVars>>

\* torch_musa, torch_gcu: a failed import is a warning.
ImportVendor(t) ==
  /\ HasPython(t, "vendor")
  /\ once' = "done"
  /\ gil' = Detached(t)
  /\ Goes(t, IF op[t] = "ensure" THEN "idle" ELSE "enter")
  /\ UNCHANGED <<fixedVars, up, environ, callVars, flightVars, tunerVars>>

\* extract_static_signature or compile_a_kernel, whether it returns or raises.
PythonWork(t) ==
  /\ HasPython(t, "work")
  /\ gil' = Detached(t)
  /\ Goes(t, "idle")
  /\ UNCHANGED <<fixedVars, up, once, environ, callVars, flightVars, tunerVars>>

\* The interpreter switches threads in Python code: the library's, and the code
\* of a Python thread that is not in a call.
Switchable(t) == pc[t] \in InPython \/ (pc[t] = "idle" /\ t \notin native)
Suspend(t) ==
  /\ Switchable(t) /\ gil = t
  /\ gil' = None
  /\ UNCHANGED <<fixedVars, up, once, environ, pc, callVars, flightVars, tunerVars>>

Resume(t) ==
  /\ pc[t] \in InPython /\ gil = None
  /\ gil' = t
  /\ UNCHANGED <<fixedVars, up, once, environ, pc, callVars, flightVars, tunerVars>>

-----------------------------------------------------------------------------
(* resolve(): the flight *)

\* The table had no row.  An owner asks the resolver, unless it finds the row after
\* all or has no context.
Join(t) ==
  /\ pc[t] = "join"
  /\ \E k \in Tokens :
       /\ token' = [token EXCEPT ![t] = k]
       /\ \/ flight[k] # None /\ Goes(t, "wait") /\ UNCHANGED flight
          \/ /\ flight[k] = None /\ flight' = [flight EXCEPT ![k] = t]
             /\ Goes(t, "once") \/ Goes(t, "publish")
  /\ told' = told \ {t}
  /\ UNCHANGED <<fixedVars, pyVars, op, came, scope, tunerVars>>

HasHook == resolver # "plain"

\* The hook releases a lock its caller holds.  Mutant: it does not look.
Keeps(t) == FALSE
Releases(t) == up /\ gil = t

HookReleases(t) ==
  /\ pc[t] = "wait" /\ HasHook /\ Releases(t)
  /\ gil' = None
  /\ Goes(t, "hooked")
  /\ UNCHANGED <<fixedVars, up, once, environ, callVars, flightVars, tunerVars>>

\* future.get()
Awake(t) ==
  /\ t \in told
  /\ \/ pc[t] = "wait" /\ ~(HasHook /\ Releases(t)) /\ Goes(t, "idle")
     \/ pc[t] = "hooked" /\ Goes(t, "regain")
  /\ UNCHANGED <<fixedVars, pyVars, callVars, flightVars, tunerVars>>

\* The end of gil_scoped_release.
Regain(t) ==
  /\ pc[t] = "regain"
  /\ gil = None
  /\ gil' = t
  /\ Goes(t, "idle")
  /\ UNCHANGED <<fixedVars, up, once, environ, callVars, flightVars, tunerVars>>

WaitersOf(k) == {u \in Threads : pc[u] \in {"wait", "hooked"} /\ token[u] = k}

\* erase, set_value or set_exception, return
Publish(t) ==
  /\ pc[t] = "publish"
  /\ flight' = [flight EXCEPT ![token[t]] = None]
  /\ told' = told \cup WaitersOf(token[t])
  /\ Goes(t, "idle")
  /\ UNCHANGED <<fixedVars, pyVars, callVars, tunerVars>>

-----------------------------------------------------------------------------
(* The owner in Python: a selection of the tuner *)

\* The tuner object a call drives: a copy of its own.  Mutant: the tuner.
Tuner(t) == CHOOSE u \in Threads : TRUE
LocalTuner(t) == t

\* The argument values of a trial.
Isolated(t) == [of |-> t, copies |-> TRUE]

\* A thread that finds the benchmark lock taken waits for it, and gets it, without
\* the interpreter lock.
TakeBenchmarkLock(t) ==
  /\ pc[t] = "lock"
  /\ IF serial THEN bench = None ELSE gil = t
  /\ bench' = IF serial THEN t ELSE None
  /\ nargs' = [nargs EXCEPT ![LocalTuner(t)] = [of |-> t, copies |-> FALSE]]
  /\ Goes(t, "select")
  /\ UNCHANGED <<fixedVars, pyVars, callVars, flightVars, tuned, trials, inserted, strange,
                 written>>

\* A cached key, a refusal (one candidate, no grid, tensors it cannot copy, an
\* exception), or trials on copies; a re-entrant resolver comes back to resolve().
Select(t) ==
  /\ HasPython(t, "select")
  /\ \/ Goes(t, "unlock") /\ UNCHANGED <<nargs, told>>
     \/ /\ token[t] \notin tuned
        /\ nargs' = [nargs EXCEPT ![LocalTuner(t)] = Isolated(t)]
        /\ Goes(t, "trial")
        /\ UNCHANGED told
     \/ resolver = "reentrant" /\ Goes(t, "wait") /\ told' = told \ {t} /\ UNCHANGED nargs
  /\ UNCHANGED <<fixedVars, pyVars, callVars, flight, bench, tuned, trials, inserted, strange,
                 written>>

\* The candidates are through.  Mutant: one trial more.
OneMore(t) == trials[t] = MaxTrials
WasLast(t) == trials[t] + 1 = MaxTrials

\* A trial launch writes the tensors it is given; it may raise.
Trial(t) ==
  /\ HasPython(t, "trial")
  /\ LET args == nargs[LocalTuner(t)] IN
     written' = IF args.copies \/ args.of = None THEN written ELSE written \cup {args.of}
  /\ trials' = [trials EXCEPT ![t] = @ + 1]
  /\ \/ ~WasLast(t) /\ UNCHANGED pc
     \/ WasLast(t) /\ Goes(t, "store")
     \/ Goes(t, "unlock")
  /\ UNCHANGED <<fixedVars, pyVars, callVars, flightVars, bench, tuned, nargs, inserted,
                 strange>>

\* The best configuration goes into the shared cache; then run() of a plain tuner
\* makes its final launch, which is intercepted, or launches this adapter does not
\* know.  Mutant: the recorder looks after it has stored.
LooksAfter(k) == FALSE
IsNew(k) == k \notin tuned
Store(t) ==
  /\ HasPython(t, "store")
  /\ inserted' = [inserted EXCEPT ![t] = IsNew(token[t])]
  /\ tuned' = tuned \cup {token[t]}
  /\ \/ Goes(t, "unlock") /\ strange' = strange \ {token[t]}
     \/ serial /\ Goes(t, "evict") /\ strange' = strange \cup {token[t]}
  /\ UNCHANGED <<fixedVars, pyVars, callVars, flightVars, bench, nargs, trials, written>>

Evict(t) ==
  /\ HasPython(t, "evict")
  /\ tuned' = IF inserted[t] THEN tuned \ {token[t]} ELSE tuned
  /\ Goes(t, "unlock")
  /\ UNCHANGED <<fixedVars, pyVars, callVars, flightVars, bench, nargs, trials, inserted,
                 strange, written>>

\* Leave the benchmark lock, Python, and the scope of the interpreter lock.
Unlock(t) ==
  /\ HasPython(t, "unlock")
  /\ bench' = None
  /\ nargs' = [nargs EXCEPT ![LocalTuner(t)] = NoArgs]
  /\ gil' = Detached(t)
  /\ Goes(t, "publish")
  /\ UNCHANGED <<fixedVars, up, once, environ, callVars, flightVars, tuned, trials, inserted,
                 strange, written>>

-----------------------------------------------------------------------------
Progress(t) ==
  \/ CallOnce(t) \/ Boot(t) \/ Attach(t) \/ SetEnviron(t) \/ ImportVendor(t) \/ PythonWork(t)
  \/ Join(t) \/ HookReleases(t) \/ Awake(t) \/ Regain(t) \/ Publish(t)
  \/ TakeBenchmarkLock(t) \/ Select(t) \/ Trial(t) \/ Store(t) \/ Evict(t) \/ Unlock(t)

Next == \E t \in Threads : Begin(t) \/ Progress(t) \/ Suspend(t) \/ Resume(t)

\* Threads run; the interpreter switches threads again and again; who wants its
\* lock, or a lock of Python, gets it when it is free again and again.
Fairness ==
  /\ \A t \in Threads : SF_vars(Progress(t)) /\ SF_vars(Resume(t))
  /\ SF_vars(\E t \in Threads : Suspend(t))

Spec == Init /\ [][Next]_vars /\ Fairness

-----------------------------------------------------------------------------
(* Properties *)

NeedsInterpreter(t) == pc[t] \in InPython \cup {"attach", "enter", "regain"} /\ gil # t

\* The ways into a standstill the code leaves open.  The thread that started the
\* interpreter keeps its lock while it does something else; a caller waits in
\* call_once with the lock the body needs; a caller waits with the lock the owner
\* of its flight needs, and its resolver has no hook; an owner waits for itself.
LockIsKept == \E t \in native : gil = t /\ pc[t] = "idle"
OnceHoldsLock == \E t \in Threads : gil = t /\ pc[t] = "once" /\ once \in Threads \ {t}
WaiterHoldsLock ==
  \E t, u \in Threads : ~HasHook /\ gil = t /\ pc[t] = "wait" /\ flight[token[t]] = u
                        /\ NeedsInterpreter(u)
WaitsForItself == \E t \in Threads : pc[t] \in {"wait", "hooked"} /\ flight[token[t]] = t
Standstill == LockIsKept \/ OnceHoldsLock \/ WaiterHoldsLock \/ WaitsForItself

\* Every call into Python or into a flight returns, whatever raises and however
\* threads hold and hand over the interpreter lock, the benchmark lock, call_once
\* and the flights, unless one of the four standstills is there: in particular
\* the Torch resolver's waiters never keep an owner out of Python.
CallsReturn ==
  \A t \in Threads : (pc[t] # "idle") ~> (pc[t] = "idle" \/ Standstill)

\* A call that came with the interpreter lock has it when it returns, and no
\* Python thread returns without it: through nested scopes, the wait hook and
\* exceptions.
LockIsBalanced ==
  [][\A t \in Threads : came[t] /\ pc[t] # "idle" /\ pc'[t] = "idle" => gil' = t]_vars

\* The library's Python code runs in an interpreter that knows the backend, also
\* after an attempt to tell it failed.
PythonKnowsBackend ==
  \A t \in Threads : pc[t] \in InPython \ {"os"} => up /\ environ

\* Trial launches see the arguments of their own call, copied, even where the
\* library has no benchmark lock, and no caller's tensor is ever written.
TrialsUseCopies ==
  /\ \A t \in Threads : pc[t] = "trial" => nargs[LocalTuner(t)] = [of |-> t, copies |-> TRUE]
  /\ written = {}

\* A selection that made launches the adapter does not know leaves no entry in the
\* cache of the tuner.
StrangeSelectionsLeaveNothing ==
  \A k \in strange \cap tuned : \E t \in Threads : pc[t] = "evict" /\ token[t] = k

-----------------------------------------------------------------------------
(* The inductive invariant *)

\* init_flag names who runs the body of ensure_initialized; it is done only once the
\* interpreter is up and knows the backend, and nobody works in Python before.
OnceIsHeld ==
  /\ \A t \in Threads : pc[t] \in {"boot", "attach", "os", "vendor"} <=> once = t
  /\ \A t \in Threads : pc[t] \in {"attach", "os", "vendor"} => up
  /\ \A t \in Threads : pc[t] = "vendor" => environ
  /\ once = "done" => up /\ environ
  /\ \A t \in Threads : pc[t] \in {"enter"} \cup (InPython \ {"os", "vendor"}) => once = "done"

\* A call that came with the interpreter lock has it wherever the interpreter or the
\* wait hook has not taken it away, and its own scope will not release it.
LockIsHeld ==
  /\ gil # None \/ native # Threads => up
  /\ \A t \in Threads : pc[t] \in {"hooked", "regain"} => up
  /\ \A t \in Threads : came[t] =>
       /\ pc[t] \notin InPython \cup {"idle", "hooked", "regain"} => gil = t
       /\ pc[t] \in InPython => ~scope[t]

\* Under a benchmark lock one selection at a time, of a key that is not cached until
\* it stores it; without one nothing is ever evicted.
SelectionsApart ==
  /\ \A t \in Threads : serial /\ pc[t] \in {"select", "trial", "store", "evict", "unlock"}
       => bench = t
  /\ \A t \in Threads : serial /\ pc[t] \in {"trial", "store"} => token[t] \notin tuned
  /\ \A t \in Threads : pc[t] = "evict" => serial /\ inserted[t]
  /\ ~serial => strange = {}

\* The trials of a selection.
TrialsAreCounted ==
  \A t \in Threads :
    /\ pc[t] \in {"join", "once", "boot", "attach", "os", "vendor", "enter", "lock", "select"}
         => trials[t] = 0
    /\ pc[t] = "trial" => trials[t] < MaxTrials

BridgeInv ==
  /\ TypeOK
  /\ OnceIsHeld
  /\ LockIsHeld
  /\ SelectionsApart
  /\ TrialsAreCounted
=============================================================================
