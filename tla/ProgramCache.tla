---------------------------- MODULE ProgramCache ----------------------------
(***************************************************************************)
(* The program caches behind a launch: the registry of functions            *)
(* (TritonJITFunctionImpl::get_instance), the overloads of a function       *)
(* (get_kernel, which compiles in Python), the load state of a kernel       *)
(* (TritonKernelImpl::lazy_init_handle) and the module cache of the CUDA    *)
(* backend (CudaBackend::load_kernel), with ScopedFreeze and the capture of *)
(* a launch stream, which refuse cold work.                                 *)
(*                                                                          *)
(* Compilation holds no lock, so concurrent misses compile the same program *)
(* twice and the first publication stays.  A program is a function with a   *)
(* signature and compile options; its artifact is a directory that depends  *)
(* on the architecture of the device and not on the device.                 *)
(***************************************************************************)
EXTENDS Naturals, FiniteSets

CONSTANTS
  Threads,
  Functions,
  Programs,    (* Signatures with compile options.                       *)
  Devices,
  Arch,        (* Arch[d]: the architecture of device d.                 *)
  MaxCalls,    (* Bound on the calls of a behaviour.                     *)
  MaxFreezes,  (* Bound on the live ScopedFreeze guards.                 *)
  None

\* How a call can end.
Outcomes == {"done", "frozen", "wrong device", "threw", "wrong context"}

ASSUME NoneAssumption == None \notin Threads \cup Devices \cup Outcomes
ASSUME CacheBoundsAssumption == MaxCalls \in Nat /\ MaxFreezes \in Nat
ASSUME NonEmptyAssumption == Functions # {} /\ Programs # {} /\ Devices # {}

VARIABLES
  registry,   (* functions_: the functions that have an instance.            *)
  kernels,    (* kernels[k]: overloads_ and load_state_ of program k.        *)
  modules,    (* modules[d]: in whose context module_cache_ has d, or None.  *)
  cacheMu,    (* cache_mutex_: the thread that holds it, or None.            *)
  freezes,    (* freeze_depth.                                               *)
  capturing,  (* The threads whose launch stream is being captured.          *)
  pc,         (* pc[t]: where t is.                                          *)
  call,       (* call[t]: what t was asked to do.                            *)
  handle,     (* handle[t]: what Backend::load_kernel returned to t.         *)
  outcome,    (* outcome[t]: how t's latest call ended.                      *)
  calls,      (* Calls made so far, for the bound.                           *)
  prepared,   (* History: programs that a caller was told are prepared.      *)
  quiet,      (* History: a freeze began when no thread was inside a call.   *)
  loaded      (* History: loaded[d]: how often artifact d became a module.   *)

sharedVars == <<registry, kernels, modules, cacheMu>>
policyVars == <<freezes, capturing>>
historyVars == <<prepared, quiet, loaded>>
vars == <<sharedVars, policyVars, pc, call, handle, outcome, calls, historyVars>>

Keys == Functions \X Programs \X Devices
Artifacts == Functions \X Programs \X {Arch[d] : d \in Devices}
Artifact(k) == <<k[1], k[2], Arch[k[3]]>>

Kernel == [compiled : BOOLEAN, ready : BOOLEAN, handle : Devices \cup {None}, by : Threads \cup {None}]
NoKernel == [compiled |-> FALSE, ready |-> FALSE, handle |-> None, by |-> None]

\* `device` is the current device of the thread; `wanted` is the device a
\* prepare() asks for.
Call == [op : {"launch", "prepare"}, function : Functions, program : Programs,
         device : Devices, wanted : Devices, warm : BOOLEAN]
KeyOf(c) == <<c.function, c.program, c.device>>
Key(t) == KeyOf(call[t])

Cold == {"construct", "compile", "lock", "recheck", "module", "driver", "store", "flag"}
Stages == Cold \cup {"idle", "function", "askFunction", "program", "askProgram", "load", "askLoad", "submit"}

TypeOK ==
  /\ registry \subseteq Functions
  /\ kernels \in [Keys -> Kernel]
  /\ modules \in [Artifacts -> Devices \cup {None}]
  /\ cacheMu \in Threads \cup {None}
  /\ freezes \in 0 .. MaxFreezes
  /\ capturing \subseteq Threads
  /\ pc \in [Threads -> Stages]
  /\ call \in [Threads -> Call]
  /\ handle \in [Threads -> Devices \cup {None}]
  /\ outcome \in [Threads -> Outcomes \cup {None}]
  /\ calls \in 0 .. MaxCalls
  /\ prepared \subseteq Keys
  /\ quiet \in BOOLEAN
  /\ loaded \in [Artifacts -> Nat]

Init ==
  /\ registry = {}
  /\ kernels = [k \in Keys |-> NoKernel]
  /\ modules = [a \in Artifacts |-> None]
  /\ cacheMu = None
  /\ freezes = 0
  /\ capturing = {}
  /\ pc = [t \in Threads |-> "idle"]
  /\ call = [t \in Threads |-> CHOOSE c \in Call : ~c.warm]
  /\ handle = [t \in Threads |-> None]
  /\ outcome = [t \in Threads |-> None]
  /\ calls = 0
  /\ prepared = {}
  /\ quiet = FALSE
  /\ loaded = [a \in Artifacts |-> 0]

Go(t, stage) == pc' = [pc EXCEPT ![t] = stage]

\* The call ends: normally, or with the exception `how`.
Ends(t, how) ==
  /\ Go(t, "idle")
  /\ outcome' = [outcome EXCEPT ![t] = how]
  /\ handle' = [handle EXCEPT ![t] = None]

-----------------------------------------------------------------------------
(* Calls *)

\* get_instance(path, name), then operator() or prepare() of the function.
Enter(t) ==
  /\ pc[t] = "idle" /\ calls < MaxCalls
  /\ \E c \in Call :
       /\ c.op = "launch" => c.wanted = c.device
       /\ c.warm = (KeyOf(c) \in prepared)
       /\ call' = [call EXCEPT ![t] = c]
  /\ calls' = calls + 1
  /\ outcome' = [outcome EXCEPT ![t] = None]
  /\ Go(t, "function")
  /\ UNCHANGED <<sharedVars, policyVars, handle, historyVars>>

\* is_prepared: a caller is told that the program can run.  Mutant: as soon as
\* it is compiled.
FoundOnly(k) == kernels[k].compiled
IsPrepared(k) == kernels[k].compiled /\ kernels[k].ready
TellPrepared(k) ==
  /\ IsPrepared(k) /\ k \notin prepared
  /\ prepared' = prepared \cup {k}
  /\ UNCHANGED <<sharedVars, policyVars, pc, call, handle, outcome, calls, quiet, loaded>>

\* refuse_if_frozen between `from` and `to`; the stream matters only to callers
\* that pass it.  Mutant: loading is never refused.
Refused(t, streams) == freezes > 0 \/ t \in streams
Allowed(t) == FALSE
RefusedLoad(t) == Refused(t, capturing)
RefuseIfFrozen(t, from, to, refused) ==
  /\ pc[t] = from
  /\ IF refused THEN Ends(t, "frozen") ELSE Go(t, to) /\ UNCHANGED <<outcome, handle>>
  /\ UNCHANGED <<sharedVars, policyVars, call, calls, historyVars>>

-----------------------------------------------------------------------------
(* get_instance *)

LookFunctionUp(t) ==
  /\ pc[t] = "function"
  /\ Go(t, IF call[t].function \in registry THEN "program" ELSE "askFunction")
  /\ UNCHANGED <<sharedVars, policyVars, call, handle, outcome, calls, historyVars>>

AskFunction(t) == RefuseIfFrozen(t, "askFunction", "construct", Refused(t, {}))

\* try_emplace: an instance that is there keeps its overloads.  Mutant: it is
\* replaced.
AssignFunction(f) == [k \in Keys |-> IF k[1] = f THEN NoKernel ELSE kernels[k]]
EmplaceFunction(f) == kernels

ConstructFunction(t) ==
  /\ pc[t] = "construct"
  /\ registry' = registry \cup {call[t].function}
  /\ kernels' = EmplaceFunction(call[t].function)
  /\ Go(t, "program")
  /\ UNCHANGED <<modules, cacheMu, policyVars, call, handle, outcome, calls, historyVars>>

\* The constructor, or the compilation, raises a Python exception.
PythonThrows(t) ==
  /\ pc[t] \in {"construct", "compile"}
  /\ Ends(t, "threw")
  /\ UNCHANGED <<sharedVars, policyVars, call, calls, historyVars>>

-----------------------------------------------------------------------------
(* get_kernel *)

\* prepare() compares the current device with the requested one.
LookProgramUp(t) ==
  /\ pc[t] = "program"
  /\ IF call[t].wanted # call[t].device
     THEN Ends(t, "wrong device")
     ELSE /\ Go(t, IF kernels[Key(t)].compiled THEN "load" ELSE "askProgram")
          /\ UNCHANGED <<outcome, handle>>
  /\ UNCHANGED <<sharedVars, policyVars, call, calls, historyVars>>

AskProgram(t) == RefuseIfFrozen(t, "askProgram", "compile", Refused(t, capturing))

\* try_emplace: a kernel that is there keeps its load state.  Mutant: it is
\* replaced.
AssignProgram(k) == [NoKernel EXCEPT !.compiled = TRUE]
EmplaceProgram(k) == [kernels[k] EXCEPT !.compiled = TRUE]

\* compile_a_kernel returned a directory; the kernel is published.
Compile(t) ==
  /\ pc[t] = "compile"
  /\ kernels' = [kernels EXCEPT ![Key(t)] = EmplaceProgram(Key(t))]
  /\ Go(t, "load")
  /\ UNCHANGED <<registry, modules, cacheMu, policyVars, call, handle, outcome, calls, historyVars>>

-----------------------------------------------------------------------------
(* lazy_init_handle *)

\* A prepare() is over once the kernel is ready.
Ready(t) ==
  IF call[t].op = "launch"
  THEN Go(t, "submit") /\ UNCHANGED <<outcome, handle, prepared>>
  ELSE Ends(t, "done") /\ prepared' = prepared \cup {Key(t)}

CheckLoaded(t) ==
  /\ pc[t] = "load"
  /\ IF kernels[Key(t)].ready
     THEN Ready(t)
     ELSE Go(t, "askLoad") /\ UNCHANGED <<outcome, handle, prepared>>
  /\ UNCHANGED <<sharedVars, policyVars, call, calls, quiet, loaded>>

AskLoad(t) == RefuseIfFrozen(t, "askLoad", "lock", RefusedLoad(t))

LockKernel(t) ==
  /\ pc[t] = "lock" /\ kernels[Key(t)].by = None
  /\ kernels' = [kernels EXCEPT ![Key(t)].by = t]
  /\ Go(t, "recheck")
  /\ UNCHANGED <<registry, modules, cacheMu, policyVars, call, handle, outcome, calls, historyVars>>

\* Another thread may have loaded the kernel before this one got the mutex.
Recheck(t) ==
  /\ pc[t] = "recheck"
  /\ IF kernels[Key(t)].ready
     THEN /\ kernels' = [kernels EXCEPT ![Key(t)].by = None]
          /\ Ready(t)
     ELSE Go(t, "module") /\ UNCHANGED <<kernels, outcome, handle, prepared>>
  /\ UNCHANGED <<registry, modules, cacheMu, policyVars, call, calls, quiet, loaded>>

-----------------------------------------------------------------------------
(* Backend::load_kernel *)

\* cache_mutex_ can be had.  Mutant: nobody takes it.
CacheUnguarded == TRUE
CacheFree == cacheMu = None

\* The module cache is keyed by the directory and the kernel name.
FindModule(t) ==
  /\ pc[t] = "module" /\ CacheFree
  /\ IF modules[Artifact(Key(t))] # None
     THEN /\ handle' = [handle EXCEPT ![t] = modules[Artifact(Key(t))]]
          /\ Go(t, "store")
          /\ UNCHANGED cacheMu
     ELSE /\ cacheMu' = t
          /\ Go(t, "driver")
          /\ UNCHANGED handle
  /\ UNCHANGED <<registry, kernels, modules, policyVars, call, outcome, calls, historyVars>>

LoadModule(t) ==
  /\ pc[t] = "driver"
  /\ modules' = [modules EXCEPT ![Artifact(Key(t))] = call[t].device]
  /\ loaded' = [loaded EXCEPT ![Artifact(Key(t))] = @ + 1]
  /\ handle' = [handle EXCEPT ![t] = call[t].device]
  /\ cacheMu' = None
  /\ Go(t, "store")
  /\ UNCHANGED <<registry, kernels, policyVars, call, outcome, calls, prepared, quiet>>

\* No metadata, another architecture, a driver error or too much shared
\* memory: the exception unlocks both mutexes.  Mutant: the kernel's stays locked.
KeepsKernel(t) == kernels
UnlocksKernel(t) == [kernels EXCEPT ![Key(t)].by = None]

DriverThrows(t) ==
  /\ pc[t] = "driver"
  /\ cacheMu' = None
  /\ kernels' = UnlocksKernel(t)
  /\ Ends(t, "threw")
  /\ UNCHANGED <<registry, modules, policyVars, call, calls, historyVars>>

\* The handle is written before the flag that lets others read it.  Mutant: the
\* other way round.
WriteFlag(t) == [kernels EXCEPT ![Key(t)].ready = TRUE]
WriteHandle(t) == [kernels EXCEPT ![Key(t)].handle = handle[t]]

StoreHandle(t) ==
  /\ pc[t] = "store"
  /\ kernels' = WriteHandle(t)
  /\ Go(t, "flag")
  /\ UNCHANGED <<registry, modules, cacheMu, policyVars, call, handle, outcome, calls, historyVars>>

StoreLoaded(t) ==
  /\ pc[t] = "flag"
  /\ kernels' = [kernels EXCEPT ![Key(t)] =
                   [@ EXCEPT !.handle = handle[t], !.ready = TRUE, !.by = None]]
  /\ Ready(t)
  /\ UNCHANGED <<registry, modules, cacheMu, policyVars, call, calls, quiet, loaded>>

\* get_shared_memory takes cache_mutex_ for a moment; then Backend::launch_kernel,
\* where the driver refuses a function of another context.
Submit(t) ==
  /\ pc[t] = "submit" /\ CacheFree
  /\ Ends(t, IF kernels[Key(t)].handle = call[t].device THEN "done" ELSE "wrong context")
  /\ UNCHANGED <<sharedVars, policyVars, call, calls, historyVars>>

SubmitThrows(t) ==
  /\ pc[t] = "submit"
  /\ Ends(t, "threw")
  /\ UNCHANGED <<sharedVars, policyVars, call, calls, historyVars>>

-----------------------------------------------------------------------------
(* Freezing and capturing *)

Freeze ==
  /\ freezes < MaxFreezes
  /\ freezes' = freezes + 1
  /\ quiet' = (quiet \/ \A t \in Threads : pc[t] = "idle")
  /\ UNCHANGED <<sharedVars, capturing, pc, call, handle, outcome, calls, prepared, loaded>>

Thaw ==
  /\ freezes > 0
  /\ freezes' = freezes - 1
  /\ quiet' = (quiet /\ freezes > 1)
  /\ UNCHANGED <<sharedVars, capturing, pc, call, handle, outcome, calls, prepared, loaded>>

\* A thread begins or ends the capture of its own stream between two calls.
ToggleCapture(t) ==
  /\ pc[t] = "idle"
  /\ capturing' = IF t \in capturing THEN capturing \ {t} ELSE capturing \cup {t}
  /\ UNCHANGED <<sharedVars, freezes, pc, call, handle, outcome, calls, historyVars>>

-----------------------------------------------------------------------------
CallStep(t) ==
  \/ LookFunctionUp(t) \/ AskFunction(t) \/ ConstructFunction(t) \/ PythonThrows(t)
  \/ LookProgramUp(t) \/ AskProgram(t) \/ Compile(t)
  \/ CheckLoaded(t) \/ AskLoad(t) \/ LockKernel(t) \/ Recheck(t)
  \/ FindModule(t) \/ LoadModule(t) \/ DriverThrows(t) \/ StoreHandle(t) \/ StoreLoaded(t)
  \/ Submit(t) \/ SubmitThrows(t)

Next ==
  \/ \E t \in Threads : Enter(t) \/ CallStep(t) \/ ToggleCapture(t)
  \/ \E k \in Keys : TellPrepared(k)
  \/ Freeze \/ Thaw

Spec == Init /\ [][Next]_vars

\* A thread inside a call keeps running: Python and the driver return.
FairSpec == Spec /\ \A t \in Threads : WF_vars(CallStep(t))

-----------------------------------------------------------------------------
(* Properties *)

\* A launch that begins after prepare() returned, or after is_prepared() said
\* yes, for its program and device is never refused, neither by a freeze nor by
\* the capture of its stream: preparing lasts, whatever other threads compile,
\* construct or fail to load (prepare, is_prepared, refuse_if_frozen).
PreparedIsNotRefused ==
  \A t \in Threads : outcome[t] = "frozen" => ~call[t].warm

\* Programs only get warmer: a published kernel stays published, and a kernel
\* that is ready keeps the handle that launches read without a lock
\* (get_instance, get_kernel, lazy_init_handle).
ProgramsOnlyGetWarmer ==
  [][\A k \in Keys :
       /\ kernels[k].compiled => kernels'[k].compiled
       /\ kernels[k].ready => kernels'[k].ready /\ kernels'[k].handle = kernels[k].handle]_vars

\* A launch that passed the lock-free check of lazy_init_handle reads a handle
\* that is written, and it is the one of the module its artifact was loaded as.
LaunchHasHandle ==
  \A t \in Threads :
    pc[t] = "submit" =>
      /\ kernels[Key(t)].handle # None
      /\ kernels[Key(t)].handle = modules[Artifact(Key(t))]

\* An artifact becomes a module of the process at most once, also when kernels
\* of two devices, each under its own mutex, load it at the same time
\* (load_kernel under cache_mutex_).
ModuleLoadedOnce == \A a \in Artifacts : loaded[a] <= 1

\* Once a guard was constructed while no call was under way, nothing is
\* constructed, compiled or loaded until the last guard is gone, not even by
\* launches that were told half of their work is done (refuse_if_frozen at each
\* of the three caches).
FrozenStaysWarm == quiet => \A t \in Threads : pc[t] \notin Cold

\* Every call returns, also when Python or the driver throws under the mutexes
\* of lazy_init_handle and load_kernel.
CallsReturn == \A t \in Threads : pc[t] # "idle" ~> pc[t] = "idle"

\* A prepared program can be launched on the device it was prepared for.
PreparedRunsOnItsDevice ==
  \A t \in Threads : outcome[t] = "wrong context" => ~call[t].warm

-----------------------------------------------------------------------------
(* The inductive invariant *)

Locked == {"recheck", "module", "driver", "store", "flag"}
Asking == {"askFunction", "askProgram", "askLoad"}

\* A mutex is owned by the thread that is between its lock and its unlock.
MutexesHeld ==
  /\ \A t \in Threads, k \in Keys : kernels[k].by = t <=> pc[t] \in Locked /\ Key(t) = k
  /\ \A t \in Threads : cacheMu = t <=> pc[t] = "driver"

\* A ready kernel is published, its function too, and its handle is the module
\* of its artifact.
ReadyIsComplete ==
  \A k \in Keys :
    /\ kernels[k].compiled => k[1] \in registry
    /\ kernels[k].ready =>
         /\ kernels[k].compiled
         /\ kernels[k].handle # None
         /\ kernels[k].handle = modules[Artifact(k)]

\* Where a thread is tells what has been published for it.
StagesAgree ==
  \A t \in Threads :
    /\ pc[t] \in {"load", "askLoad", "lock", "submit"} \cup Locked => kernels[Key(t)].compiled
    /\ pc[t] \in {"program", "askProgram", "compile"} => call[t].function \in registry
    /\ pc[t] = "driver" => modules[Artifact(Key(t))] = None
    /\ pc[t] \in {"store", "flag"} => handle[t] # None /\ handle[t] = modules[Artifact(Key(t))]
    /\ pc[t] \in {"module", "driver", "store", "flag"} => ~kernels[Key(t)].ready
    /\ pc[t] = "submit" => kernels[Key(t)].ready

\* What a caller was told stays true, and keeps its calls from cold stages.
PreparedIsReady ==
  /\ \A k \in prepared : kernels[k].compiled /\ kernels[k].ready
  /\ \A t \in Threads : call[t].warm =>
       Key(t) \in prepared /\ pc[t] \notin Cold \cup Asking /\ outcome[t] # "frozen"

LoadsCounted == \A a \in Artifacts : loaded[a] = IF modules[a] = None THEN 0 ELSE 1

QuietIsFrozen == quiet => freezes > 0 /\ \A t \in Threads : pc[t] \notin Cold

CacheInv ==
  /\ TypeOK
  /\ MutexesHeld
  /\ ReadyIsComplete
  /\ StagesAgree
  /\ PreparedIsReady
  /\ LoadsCounted
  /\ QuietIsFrozen
=============================================================================
