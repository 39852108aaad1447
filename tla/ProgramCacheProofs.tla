------------------------- MODULE ProgramCacheProofs -------------------------
(***************************************************************************)
(* Proofs about ProgramCache for any threads, functions, programs and       *)
(* devices: CacheInv is inductive, and from it follow that prepared         *)
(* programs are not refused, that a launch finds its handle, that an        *)
(* artifact is loaded once, that a quiet freeze keeps cold work out, and    *)
(* that programs only get warmer.                                           *)
(***************************************************************************)
EXTENDS ProgramCache, TLAPS

LEMMA KeyTypes ==
  /\ \A c \in Call : KeyOf(c) \in Keys
  /\ \A k \in Keys : Artifact(k) \in Artifacts /\ k[1] \in Functions
  BY DEF Call, Keys, KeyOf, Artifact, Artifacts

LEMMA ThreadKey ==
  ASSUME TypeOK, NEW t \in Threads
  PROVE  /\ Key(t) \in Keys /\ Artifact(Key(t)) \in Artifacts
         /\ call[t] \in Call
         /\ call[t].function = Key(t)[1] /\ call[t].function \in Functions /\ call[t].device \in Devices
  BY KeyTypes DEF TypeOK, Key, KeyOf, Call

\* The fields of a kernel are assigned one by one.
LEMMA KernelTypes ==
  ASSUME NEW r \in Kernel, NEW b \in Threads \cup {None}, NEW h \in Devices \cup {None}
  PROVE  /\ [r EXCEPT !.compiled = TRUE] \in Kernel
         /\ [r EXCEPT !.by = b] \in Kernel
         /\ [r EXCEPT !.handle = h] \in Kernel
         /\ [r EXCEPT !.handle = h, !.ready = TRUE, !.by = None] \in Kernel
  BY DEF Kernel

LEMMA FirstCall == (CHOOSE c \in Call : ~c.warm) \in {c \in Call : ~c.warm}
<1>1. PICK f \in Functions, p \in Programs, d \in Devices : TRUE
  BY NonEmptyAssumption
<1>2. [op |-> "launch", function |-> f, program |-> p, device |-> d, wanted |-> d, warm |-> FALSE]
        \in {c \in Call : ~c.warm}
  BY DEF Call
<1> QED
  BY <1>2

LEMMA InvInit == Init => CacheInv
<1> SUFFICES ASSUME Init PROVE CacheInv
  OBVIOUS
<1>1. \A t \in Threads : call[t] \in Call /\ ~call[t].warm
  BY FirstCall DEF Init
<1>2. TypeOK
  <2>1. call \in [Threads -> Call]
    BY FirstCall DEF Init
  <2>2. kernels \in [Keys -> Kernel]
    BY DEF Init, Kernel, NoKernel
  <2>3. pc \in [Threads -> Stages] /\ outcome \in [Threads -> Outcomes \cup {None}]
    BY DEF Init, Stages
  <2>4. freezes \in 0 .. MaxFreezes /\ calls \in 0 .. MaxCalls
    BY CacheBoundsAssumption DEF Init
  <2> QED
    BY <2>1, <2>2, <2>3, <2>4 DEF Init, TypeOK
<1>3. MutexesHeld
  BY NoneAssumption DEF Init, MutexesHeld, NoKernel, Locked
<1>4. ReadyIsComplete /\ LoadsCounted /\ QuietIsFrozen
  BY DEF Init, ReadyIsComplete, NoKernel, LoadsCounted, QuietIsFrozen
<1>5. StagesAgree
  BY DEF Init, StagesAgree, Locked
<1>6. PreparedIsReady
  BY <1>1 DEF Init, PreparedIsReady
<1> QED
  BY <1>2, <1>3, <1>4, <1>5, <1>6 DEF CacheInv

-----------------------------------------------------------------------------
(* Steps of a call leave the other threads where they are. *)

LEMMA OthersStay ==
  ASSUME NEW t \in Threads, CallStep(t), TypeOK
  PROVE  /\ UNCHANGED <<call, calls, freezes, capturing, quiet>>
         /\ \A u \in Threads \ {t} : pc'[u] = pc[u] /\ handle'[u] = handle[u] /\ outcome'[u] = outcome[u]
<1> USE DEF TypeOK, sharedVars, policyVars, historyVars, Go, Ends
<1>1. CASE LookFunctionUp(t) \/ ConstructFunction(t) \/ PythonThrows(t)
  BY <1>1 DEF LookFunctionUp, ConstructFunction, PythonThrows
<1>2. CASE AskFunction(t) \/ AskProgram(t) \/ AskLoad(t)
  BY <1>2 DEF AskFunction, AskProgram, AskLoad, RefuseIfFrozen
<1>3. CASE LookProgramUp(t) \/ Compile(t)
  BY <1>3 DEF LookProgramUp, Compile
<1>4. CASE CheckLoaded(t) \/ Recheck(t) \/ StoreLoaded(t)
  BY <1>4 DEF CheckLoaded, Recheck, StoreLoaded, Ready
<1>5. CASE LockKernel(t) \/ FindModule(t) \/ LoadModule(t) \/ DriverThrows(t) \/ StoreHandle(t)
  BY <1>5 DEF LockKernel, FindModule, LoadModule, DriverThrows, StoreHandle
<1>6. CASE Submit(t) \/ SubmitThrows(t)
  BY <1>6 DEF Submit, SubmitThrows
<1> QED
  BY <1>1, <1>2, <1>3, <1>4, <1>5, <1>6 DEF CallStep

\* A step that publishes nothing and holds no mutex keeps the invariant if the
\* stage it leads to is justified.
LEMMA WalkKeepsInv ==
  ASSUME CacheInv, NEW t \in Threads, CallStep(t),
         UNCHANGED <<sharedVars, prepared, loaded>>,
         pc[t] \notin Locked, pc'[t] \in Stages \ Locked,
         outcome'[t] \in Outcomes \cup {None}, handle'[t] \in Devices \cup {None},
         pc' \in [Threads -> Stages], outcome' \in [Threads -> Outcomes \cup {None}],
         handle' \in [Threads -> Devices \cup {None}],
         pc'[t] \in {"load", "askLoad", "lock", "submit"} => kernels[Key(t)].compiled,
         pc'[t] \in {"program", "askProgram", "compile"} => call[t].function \in registry,
         pc'[t] = "submit" => kernels[Key(t)].ready,
         pc'[t] \in Cold => freezes = 0,
         call[t].warm => pc'[t] \notin Cold \cup Asking /\ outcome'[t] # "frozen"
  PROVE  CacheInv'
<1> USE DEF CacheInv, sharedVars
<1>1. /\ UNCHANGED <<call, calls, freezes, capturing, quiet>>
      /\ \A u \in Threads \ {t} : pc'[u] = pc[u] /\ handle'[u] = handle[u] /\ outcome'[u] = outcome[u]
  BY OthersStay
<1>2. TypeOK'
  BY <1>1 DEF TypeOK
<1>3. MutexesHeld'
  BY <1>1 DEF MutexesHeld, Locked, Key
<1>4. ReadyIsComplete' /\ LoadsCounted'
  BY DEF ReadyIsComplete, LoadsCounted
<1>5. StagesAgree'
  BY <1>1 DEF StagesAgree, Locked, Key
<1>6. PreparedIsReady'
  BY <1>1 DEF PreparedIsReady, Key
<1>7. QuietIsFrozen'
  BY <1>1, <1>2 DEF QuietIsFrozen, TypeOK
<1> QED
  BY <1>2, <1>3, <1>4, <1>5, <1>6, <1>7

\* The steps of a call that only look, ask and end.
LEMMA WalksKeepInv ==
  ASSUME CacheInv, NEW t \in Threads,
         \/ LookFunctionUp(t) \/ AskFunction(t) \/ PythonThrows(t)
         \/ LookProgramUp(t) \/ AskProgram(t) \/ AskLoad(t)
         \/ Submit(t) \/ SubmitThrows(t)
  PROVE  CacheInv'
<1> USE DEF CacheInv
<1>1. CallStep(t)
  BY DEF CallStep
<1>2. UNCHANGED <<sharedVars, prepared, loaded>>
  BY DEF LookFunctionUp, AskFunction, PythonThrows, LookProgramUp, AskProgram, AskLoad,
         RefuseIfFrozen, Submit, SubmitThrows, historyVars
<1>3. /\ pc[t] \notin Locked /\ pc'[t] \in Stages \ Locked
      /\ pc' \in [Threads -> Stages]
      /\ outcome' \in [Threads -> Outcomes \cup {None}]
      /\ handle' \in [Threads -> Devices \cup {None}]
  BY DEF LookFunctionUp, AskFunction, PythonThrows, LookProgramUp, AskProgram, AskLoad,
         RefuseIfFrozen, Submit, SubmitThrows, Go, Ends, TypeOK, Stages, Cold, Locked, Outcomes
<1>4. /\ pc'[t] \in {"load", "askLoad", "lock", "submit"} => kernels[Key(t)].compiled
      /\ pc'[t] \in {"program", "askProgram", "compile"} => call[t].function \in registry
      /\ pc'[t] # "submit"
  <2>1. CASE LookFunctionUp(t) \/ PythonThrows(t) \/ Submit(t) \/ SubmitThrows(t)
    BY <2>1 DEF LookFunctionUp, PythonThrows, Submit, SubmitThrows, Go, Ends, TypeOK
  <2>2. CASE AskFunction(t) \/ AskProgram(t) \/ AskLoad(t)
    BY <2>2 DEF AskFunction, AskProgram, AskLoad, RefuseIfFrozen, Go, Ends, TypeOK, StagesAgree
  <2>3. CASE LookProgramUp(t)
    BY <2>3 DEF LookProgramUp, Go, Ends, TypeOK, StagesAgree
  <2> QED
    BY <2>1, <2>2, <2>3
<1>5. pc'[t] \in Cold => freezes = 0
  <2>1. CASE LookFunctionUp(t) \/ LookProgramUp(t) \/ PythonThrows(t) \/ Submit(t) \/ SubmitThrows(t)
    BY <2>1 DEF LookFunctionUp, LookProgramUp, PythonThrows, Submit, SubmitThrows, Go, Ends, TypeOK, Cold
  <2>2. CASE AskFunction(t) \/ AskProgram(t) \/ AskLoad(t)
    BY <2>2 DEF AskFunction, AskProgram, AskLoad, RefuseIfFrozen, RefusedLoad, Refused, Ends, Go, TypeOK, Cold
  <2> QED
    BY <2>1, <2>2
<1>6. ASSUME call[t].warm
      PROVE  pc'[t] \notin Cold \cup Asking /\ outcome'[t] # "frozen"
  <2>1. call[t].function \in registry /\ kernels[Key(t)].compiled
    BY <1>6, ThreadKey DEF PreparedIsReady, ReadyIsComplete
  <2>2. pc[t] \notin Cold \cup Asking
    BY <1>6 DEF PreparedIsReady
  <2>3. CASE LookFunctionUp(t) \/ LookProgramUp(t)
    BY <2>1, <2>3, <1>6 DEF LookFunctionUp, LookProgramUp, Go, Ends, TypeOK, Cold, Asking, PreparedIsReady
  <2>4. CASE AskFunction(t) \/ AskProgram(t) \/ AskLoad(t) \/ PythonThrows(t)
    BY <2>2, <2>4 DEF AskFunction, AskProgram, AskLoad, RefuseIfFrozen, PythonThrows, Cold, Asking
  <2>5. CASE Submit(t) \/ SubmitThrows(t)
    BY <2>5 DEF Submit, SubmitThrows, Go, Ends, TypeOK, Cold, Asking
  <2> QED
    BY <2>3, <2>4, <2>5
<1> QED
  BY <1>1, <1>2, <1>3, <1>4, <1>5, <1>6, WalkKeepsInv DEF TypeOK

-----------------------------------------------------------------------------
(* The steps that publish. *)

LEMMA ConstructKeepsInv ==
  ASSUME CacheInv, NEW t \in Threads, ConstructFunction(t)
  PROVE  CacheInv'
<1> USE DEF CacheInv
<1>1. /\ UNCHANGED <<kernels, modules, cacheMu, freezes, capturing, call, handle, outcome, calls,
                     prepared, quiet, loaded>>
      /\ registry' = registry \cup {call[t].function}
      /\ pc[t] = "construct" /\ pc' = [pc EXCEPT ![t] = "program"]
  BY DEF ConstructFunction, EmplaceFunction, Go, policyVars, historyVars
<1>2. TypeOK'
  BY <1>1, ThreadKey DEF TypeOK, Stages
<1>3. MutexesHeld'
  BY <1>1 DEF MutexesHeld, Locked, Key, TypeOK
<1>4. ReadyIsComplete' /\ LoadsCounted'
  BY <1>1 DEF ReadyIsComplete, LoadsCounted
<1>5. StagesAgree'
  BY <1>1 DEF StagesAgree, Locked, Key, TypeOK
<1>6. PreparedIsReady'
  BY <1>1 DEF PreparedIsReady, Key, TypeOK, Cold, Asking
<1>7. QuietIsFrozen'
  BY <1>1 DEF QuietIsFrozen, TypeOK, Cold
<1> QED
  BY <1>2, <1>3, <1>4, <1>5, <1>6, <1>7

LEMMA CompileKeepsInv ==
  ASSUME CacheInv, NEW t \in Threads, Compile(t)
  PROVE  CacheInv'
<1> USE DEF CacheInv
<1> DEFINE key == Key(t)
<1>1. /\ UNCHANGED <<registry, modules, cacheMu, freezes, capturing, call, handle, outcome, calls,
                     prepared, quiet, loaded>>
      /\ pc[t] = "compile" /\ pc' = [pc EXCEPT ![t] = "load"]
      /\ key \in Keys /\ key[1] \in registry
      /\ \A k \in Keys \ {key} : kernels'[k] = kernels[k]
      /\ kernels'[key].compiled
      /\ kernels'[key].ready = kernels[key].ready
      /\ kernels'[key].handle = kernels[key].handle
      /\ kernels'[key].by = kernels[key].by
  <2>1. key \in Keys /\ pc[t] = "compile" /\ key[1] \in registry
    BY ThreadKey DEF Compile, StagesAgree
  <2>2. kernels' = [kernels EXCEPT ![key] = [kernels[key] EXCEPT !.compiled = TRUE]]
    BY DEF Compile, EmplaceProgram
  <2>3. kernels[key] \in Kernel
    BY <2>1 DEF TypeOK
  <2>4. kernels'[key] = [kernels[key] EXCEPT !.compiled = TRUE] /\ \A k \in Keys \ {key} : kernels'[k] = kernels[k]
    BY <2>1, <2>2 DEF TypeOK
  <2>5. /\ kernels'[key].compiled /\ kernels'[key].ready = kernels[key].ready
        /\ kernels'[key].handle = kernels[key].handle /\ kernels'[key].by = kernels[key].by
    BY <2>3, <2>4 DEF Kernel
  <2> QED
    BY <2>1, <2>4, <2>5 DEF Compile, Go, policyVars, historyVars
<1>2. TypeOK'
  <2>1. kernels' \in [Keys -> Kernel]
    <3>1. kernels' = [kernels EXCEPT ![key] = [kernels[key] EXCEPT !.compiled = TRUE]]
      BY DEF Compile, EmplaceProgram
    <3>2. [kernels[key] EXCEPT !.compiled = TRUE] \in Kernel
      <4>1. kernels[key] \in Kernel
        BY <1>1 DEF TypeOK
      <4> QED
        BY <4>1, KernelTypes DEF TypeOK
    <3> QED
      BY <1>1, <3>1, <3>2 DEF TypeOK
  <2> QED
    BY <1>1, <2>1 DEF TypeOK, Stages
<1>3. MutexesHeld'
  BY <1>1 DEF MutexesHeld, Locked, Key, TypeOK
<1>4. ReadyIsComplete' /\ LoadsCounted'
  BY <1>1 DEF ReadyIsComplete, LoadsCounted
<1>5. StagesAgree'
  BY <1>1, ThreadKey DEF StagesAgree, Locked, Key, TypeOK
<1>6. PreparedIsReady'
  BY <1>1 DEF PreparedIsReady, Key, TypeOK, Cold, Asking
<1>7. QuietIsFrozen'
  BY <1>1 DEF QuietIsFrozen, TypeOK, Cold
<1> QED
  BY <1>2, <1>3, <1>4, <1>5, <1>6, <1>7

LEMMA LockKeepsInv ==
  ASSUME CacheInv, NEW t \in Threads, LockKernel(t)
  PROVE  CacheInv'
<1> USE DEF CacheInv
<1> DEFINE key == Key(t)
<1>1. /\ UNCHANGED <<registry, modules, cacheMu, freezes, capturing, call, handle, outcome, calls,
                     prepared, quiet, loaded>>
      /\ pc[t] = "lock" /\ pc' = [pc EXCEPT ![t] = "recheck"]
      /\ key \in Keys /\ kernels[key].by = None
      /\ \A k \in Keys : /\ kernels'[k].compiled = kernels[k].compiled
                         /\ kernels'[k].ready = kernels[k].ready
                         /\ kernels'[k].handle = kernels[k].handle
                         /\ kernels'[k].by = IF k = key THEN t ELSE kernels[k].by
  BY ThreadKey DEF LockKernel, Go, policyVars, historyVars, TypeOK, Kernel
<1>2. TypeOK'
  <2>1. kernels' \in [Keys -> Kernel]
    <3>1. kernels' = [kernels EXCEPT ![key] = [kernels[key] EXCEPT !.by = t]]
      BY DEF LockKernel
    <3> QED
      BY <1>1, <3>1, KernelTypes DEF TypeOK
  <2> QED
    BY <1>1, <2>1 DEF TypeOK, Stages, Cold
<1>3. MutexesHeld'
  BY <1>1, NoneAssumption DEF MutexesHeld, Locked, Key, TypeOK
<1>4. ReadyIsComplete' /\ LoadsCounted'
  BY <1>1 DEF ReadyIsComplete, LoadsCounted
<1>5. StagesAgree'
  BY <1>1, ThreadKey DEF StagesAgree, Locked, Key, TypeOK
<1>6. PreparedIsReady'
  BY <1>1 DEF PreparedIsReady, Key, TypeOK, Cold, Asking
<1>7. QuietIsFrozen'
  BY <1>1 DEF QuietIsFrozen, TypeOK, Cold
<1> QED
  BY <1>2, <1>3, <1>4, <1>5, <1>6, <1>7

\* A prepare() that finds the kernel ready ends; a launch goes on.
LEMMA ReadyEnds ==
  ASSUME TypeOK, NEW t \in Threads, Ready(t)
  PROVE  /\ pc' \in [Threads -> Stages] /\ pc'[t] \in {"submit", "idle"}
         /\ outcome' \in [Threads -> Outcomes \cup {None}] /\ outcome'[t] \in {outcome[t], "done"}
         /\ handle' \in [Threads -> Devices \cup {None}]
         /\ prepared \subseteq prepared' /\ prepared' \subseteq prepared \cup {Key(t)}
  BY DEF Ready, Go, Ends, TypeOK, Stages, Outcomes

LEMMA CheckKeepsInv ==
  ASSUME CacheInv, NEW t \in Threads, CheckLoaded(t)
  PROVE  CacheInv'
<1> USE DEF CacheInv
<1>1. CASE ~kernels[Key(t)].ready
  <2>1. /\ UNCHANGED <<sharedVars, prepared, loaded, outcome, handle>>
        /\ pc[t] = "load" /\ pc' = [pc EXCEPT ![t] = "askLoad"]
    BY <1>1 DEF CheckLoaded, Go
  <2>2. ~call[t].warm
    BY <1>1 DEF PreparedIsReady
  <2>3. CallStep(t)
    BY DEF CallStep
  <2> QED
    BY <2>1, <2>2, <2>3, WalkKeepsInv DEF TypeOK, Stages, Locked, Cold, StagesAgree
<1>2. CASE kernels[Key(t)].ready
  <2>1. /\ UNCHANGED <<sharedVars, loaded, call, calls, freezes, capturing, quiet>>
        /\ pc[t] = "load" /\ Ready(t)
    BY <1>2 DEF CheckLoaded, policyVars
  <2>2. \A u \in Threads \ {t} : pc'[u] = pc[u] /\ handle'[u] = handle[u] /\ outcome'[u] = outcome[u]
    BY OthersStay DEF CallStep
  <2>3. kernels[Key(t)].compiled /\ Key(t) \in Keys
    BY <2>1, ThreadKey DEF StagesAgree
  <2>4. TypeOK'
    BY <2>1, <2>3, ReadyEnds DEF TypeOK, sharedVars
  <2>5. MutexesHeld'
    BY <2>1, <2>2, ReadyEnds DEF MutexesHeld, Locked, Key, sharedVars
  <2>6. ReadyIsComplete' /\ LoadsCounted'
    BY <2>1 DEF ReadyIsComplete, LoadsCounted, sharedVars
  <2>7. StagesAgree'
    BY <1>2, <2>1, <2>2, <2>3, ReadyEnds DEF StagesAgree, Locked, Key, sharedVars
  <2>8. PreparedIsReady'
    <3>1. \A k \in prepared' : k \in prepared \/ k = Key(t)
      BY <2>1, ReadyEnds
    <3>2. \A u \in Threads : outcome'[u] = "frozen" => outcome[u] = "frozen"
      BY <2>1, <2>2, ReadyEnds
    <3>3. \A u \in Threads : pc'[u] \in Cold \cup Asking => pc[u] \in Cold \cup Asking
      BY <2>1, <2>2, ReadyEnds DEF Cold, Asking
    <3>4. prepared \subseteq prepared'
      BY <2>1, ReadyEnds
    <3> QED
      BY <1>2, <2>1, <2>3, <3>1, <3>2, <3>3, <3>4 DEF PreparedIsReady, Key, sharedVars
  <2>9. QuietIsFrozen'
    BY <2>1, <2>2, ReadyEnds DEF QuietIsFrozen, Cold
  <2> QED
    BY <2>4, <2>5, <2>6, <2>7, <2>8, <2>9
<1> QED
  BY <1>1, <1>2

\* Changing one kernel record leaves the others alone.
LEMMA OneKernel ==
  ASSUME TypeOK, NEW k \in Keys, NEW r \in Kernel, kernels' = [kernels EXCEPT ![k] = r]
  PROVE  /\ kernels' \in [Keys -> Kernel]
         /\ kernels'[k] = r
         /\ \A l \in Keys \ {k} : kernels'[l] = kernels[l]
  BY DEF TypeOK

LEMMA RecheckKeepsInv ==
  ASSUME CacheInv, NEW t \in Threads, Recheck(t)
  PROVE  CacheInv'
<1> USE DEF CacheInv
<1> DEFINE key == Key(t)
<1>1. /\ UNCHANGED <<registry, modules, cacheMu, freezes, capturing, call, calls, quiet, loaded>>
      /\ pc[t] = "recheck" /\ key \in Keys /\ kernels[key].compiled /\ kernels[key].by = t
      /\ kernels[key] \in Kernel
  BY ThreadKey DEF Recheck, policyVars, StagesAgree, MutexesHeld, Locked, TypeOK
<1>2. CallStep(t)
  BY DEF CallStep
<1>3. \A u \in Threads \ {t} : pc'[u] = pc[u] /\ handle'[u] = handle[u] /\ outcome'[u] = outcome[u]
  BY <1>2, OthersStay
<1>4. CASE ~kernels[key].ready
  <2>1. UNCHANGED <<kernels, outcome, handle, prepared>> /\ pc' = [pc EXCEPT ![t] = "module"]
    BY <1>4 DEF Recheck, Go
  <2>2. TypeOK'
    BY <1>1, <2>1 DEF TypeOK, Stages, Cold
  <2>3. MutexesHeld' /\ ReadyIsComplete' /\ LoadsCounted'
    BY <1>1, <2>1 DEF MutexesHeld, Locked, Key, TypeOK, ReadyIsComplete, LoadsCounted
  <2>4. StagesAgree'
    BY <1>1, <1>4, <2>1 DEF StagesAgree, Locked, Key, TypeOK
  <2>5. PreparedIsReady' /\ QuietIsFrozen'
    BY <1>1, <2>1 DEF PreparedIsReady, QuietIsFrozen, Key, TypeOK, Cold, Asking
  <2> QED
    BY <2>2, <2>3, <2>4, <2>5
<1>5. CASE kernels[key].ready
  <2>1. kernels' = [kernels EXCEPT ![key] = [kernels[key] EXCEPT !.by = None]] /\ Ready(t)
    BY <1>5 DEF Recheck
  <2>2. /\ kernels' \in [Keys -> Kernel]
        /\ kernels'[key] = [kernels[key] EXCEPT !.by = None]
        /\ \A k \in Keys \ {key} : kernels'[k] = kernels[k]
    BY <1>1, <2>1, KernelTypes, OneKernel
  <2>3. /\ kernels'[key].compiled = kernels[key].compiled /\ kernels'[key].ready = kernels[key].ready
        /\ kernels'[key].handle = kernels[key].handle /\ kernels'[key].by = None
    BY <1>1, <2>2 DEF Kernel
  <2>4. TypeOK'
    BY <1>1, <2>1, <2>2, ReadyEnds DEF TypeOK
  <2>5. MutexesHeld'
    <3>1. \A u \in Threads : pc'[u] \in Locked <=> (pc[u] \in Locked /\ u # t)
      BY <1>3, <2>1, ReadyEnds DEF Locked
    <3>2. \A u \in Threads : (Key(u))' = Key(u)
      BY <1>1 DEF Key
    <3>3. ASSUME NEW u \in Threads, NEW k \in Keys
          PROVE  kernels'[k].by = u <=> pc'[u] \in Locked /\ Key(u) = k
      <4>1. CASE k = key
        BY <1>1, <2>3, <3>1, <4>1, NoneAssumption DEF MutexesHeld
      <4>2. CASE k # key
        BY <1>1, <2>2, <3>1, <4>2 DEF MutexesHeld
      <4> QED
        BY <4>1, <4>2
    <3>4. \A u \in Threads : cacheMu' = u <=> pc'[u] = "driver"
      BY <1>1, <1>3, <2>1, ReadyEnds DEF MutexesHeld
    <3> HIDE DEF key
    <3> QED
      BY <3>2, <3>3, <3>4 DEF MutexesHeld
  <2>6. ReadyIsComplete' /\ LoadsCounted'
    <3>1. \A k \in Keys : /\ kernels'[k].compiled = kernels[k].compiled
                          /\ kernels'[k].ready = kernels[k].ready
                          /\ kernels'[k].handle = kernels[k].handle
      BY <2>2, <2>3
    <3>2. ReadyIsComplete'
      BY <1>1, <3>1 DEF ReadyIsComplete
    <3>3. LoadsCounted'
      BY <1>1 DEF LoadsCounted
    <3> QED
      BY <3>2, <3>3
  <2>7. StagesAgree'
    <3>1. \A k \in Keys : /\ kernels'[k].compiled = kernels[k].compiled
                          /\ kernels'[k].ready = kernels[k].ready
      BY <2>2, <2>3
    <3> QED
      BY <1>1, <1>3, <1>5, <2>1, <3>1, ReadyEnds, ThreadKey DEF StagesAgree, Locked, Key
  <2>8. PreparedIsReady'
    <3>1. \A k \in prepared' : k \in prepared \/ k = Key(t)
      BY <2>1, ReadyEnds
    <3>2. \A u \in Threads : outcome'[u] = "frozen" => outcome[u] = "frozen"
      BY <1>3, <2>1, ReadyEnds
    <3>3. \A u \in Threads : pc'[u] \in Cold \cup Asking => pc[u] \in Cold \cup Asking
      BY <1>3, <2>1, ReadyEnds DEF Cold, Asking
    <3>4. prepared \subseteq prepared' /\ prepared \subseteq Keys
      BY <2>1, ReadyEnds DEF TypeOK
    <3> QED
      BY <1>1, <1>5, <2>2, <2>3, <3>1, <3>2, <3>3, <3>4 DEF PreparedIsReady, Key
  <2>9. QuietIsFrozen'
    BY <1>1, <1>3, <2>1, ReadyEnds DEF QuietIsFrozen, Cold
  <2> QED
    BY <2>4, <2>5, <2>6, <2>7, <2>8, <2>9
<1> QED
  BY <1>4, <1>5

\* A found module is the thread's handle; otherwise the thread takes the cache
\* mutex.
LEMMA FindKeepsInv ==
  ASSUME CacheInv, NEW t \in Threads, FindModule(t)
  PROVE  CacheInv'
<1> USE DEF CacheInv
<1> DEFINE artifact == Artifact(Key(t))
<1>1. /\ UNCHANGED <<registry, kernels, modules, freezes, capturing, call, outcome, calls, prepared, quiet, loaded>>
      /\ pc[t] = "module" /\ cacheMu = None /\ artifact \in Artifacts
      /\ modules[artifact] \in Devices \cup {None}
  BY ThreadKey DEF FindModule, CacheFree, policyVars, historyVars, TypeOK
<1>2. \/ /\ modules[artifact] # None /\ UNCHANGED cacheMu
         /\ handle' = [handle EXCEPT ![t] = modules[artifact]]
         /\ pc' = [pc EXCEPT ![t] = "store"]
      \/ /\ modules[artifact] = None /\ cacheMu' = t /\ UNCHANGED handle
         /\ pc' = [pc EXCEPT ![t] = "driver"]
  BY DEF FindModule, Go
<1>3. TypeOK'
  BY <1>1, <1>2 DEF TypeOK, Stages, Cold
<1>4. MutexesHeld'
  BY <1>1, <1>2, NoneAssumption DEF MutexesHeld, Locked, Key, TypeOK
<1>5. ReadyIsComplete' /\ LoadsCounted'
  BY <1>1 DEF ReadyIsComplete, LoadsCounted
<1>6. StagesAgree'
  BY <1>1, <1>2 DEF StagesAgree, Locked, Key, TypeOK
<1>7. PreparedIsReady' /\ QuietIsFrozen'
  BY <1>1, <1>2 DEF PreparedIsReady, QuietIsFrozen, Key, TypeOK, Cold, Asking
<1> QED
  BY <1>3, <1>4, <1>5, <1>6, <1>7

LEMMA LoadKeepsInv ==
  ASSUME CacheInv, NEW t \in Threads, LoadModule(t)
  PROVE  CacheInv'
<1> USE DEF CacheInv
<1> DEFINE artifact == Artifact(Key(t))
<1>1. /\ UNCHANGED <<registry, kernels, freezes, capturing, call, outcome, calls, prepared, quiet>>
      /\ pc[t] = "driver" /\ pc' = [pc EXCEPT ![t] = "store"]
      /\ artifact \in Artifacts /\ modules[artifact] = None
      /\ cacheMu = t /\ cacheMu' = None
      /\ modules' = [modules EXCEPT ![artifact] = call[t].device]
      /\ loaded' = [loaded EXCEPT ![artifact] = loaded[artifact] + 1]
      /\ handle' = [handle EXCEPT ![t] = call[t].device]
      /\ call[t].device \in Devices /\ call[t].device # None
  BY ThreadKey, NoneAssumption DEF LoadModule, Go, policyVars, StagesAgree, MutexesHeld
<1>2. TypeOK'
  BY <1>1 DEF TypeOK, Stages, Cold
<1>3. MutexesHeld'
  BY <1>1, NoneAssumption DEF MutexesHeld, Locked, Key, TypeOK
<1>4. ReadyIsComplete'
  BY <1>1 DEF ReadyIsComplete, TypeOK
<1>5. LoadsCounted'
  BY <1>1 DEF LoadsCounted, TypeOK
<1>6. StagesAgree'
  BY <1>1 DEF StagesAgree, MutexesHeld, Locked, Key, TypeOK
<1>7. PreparedIsReady' /\ QuietIsFrozen'
  BY <1>1 DEF PreparedIsReady, QuietIsFrozen, Key, TypeOK, Cold, Asking
<1> QED
  BY <1>2, <1>3, <1>4, <1>5, <1>6, <1>7

LEMMA ThrowKeepsInv ==
  ASSUME CacheInv, NEW t \in Threads, DriverThrows(t)
  PROVE  CacheInv'
<1> USE DEF CacheInv
<1> DEFINE key == Key(t)
<1>1. /\ UNCHANGED <<registry, modules, freezes, capturing, call, calls, prepared, quiet, loaded>>
      /\ pc[t] = "driver" /\ pc' = [pc EXCEPT ![t] = "idle"]
      /\ outcome' = [outcome EXCEPT ![t] = "threw"] /\ handle' = [handle EXCEPT ![t] = None]
      /\ cacheMu = t /\ cacheMu' = None
      /\ kernels' = [kernels EXCEPT ![key] = [kernels[key] EXCEPT !.by = None]]
      /\ key \in Keys /\ kernels[key] \in Kernel
  BY ThreadKey DEF DriverThrows, UnlocksKernel, Ends, Go, policyVars, historyVars, MutexesHeld, TypeOK
<1>2. /\ kernels' \in [Keys -> Kernel]
      /\ kernels'[key] = [kernels[key] EXCEPT !.by = None]
      /\ \A k \in Keys \ {key} : kernels'[k] = kernels[k]
  BY <1>1, KernelTypes, OneKernel
<1>3. /\ kernels'[key].compiled = kernels[key].compiled /\ kernels'[key].ready = kernels[key].ready
      /\ kernels'[key].handle = kernels[key].handle /\ kernels'[key].by = None
  BY <1>1, <1>2 DEF Kernel
<1>4. TypeOK'
  BY <1>1, <1>2 DEF TypeOK, Stages, Outcomes
<1>5. MutexesHeld'
  BY <1>1, <1>2, <1>3, NoneAssumption DEF MutexesHeld, Locked, Key, TypeOK
<1>6. ReadyIsComplete' /\ LoadsCounted'
  BY <1>1, <1>2, <1>3 DEF ReadyIsComplete, LoadsCounted
<1>7. StagesAgree'
  BY <1>1, <1>2, <1>3, ThreadKey DEF StagesAgree, Locked, Key, TypeOK
<1>8. PreparedIsReady' /\ QuietIsFrozen'
  BY <1>1, <1>2, <1>3 DEF PreparedIsReady, QuietIsFrozen, Key, TypeOK, Cold, Asking
<1> QED
  BY <1>4, <1>5, <1>6, <1>7, <1>8

LEMMA StoreKeepsInv ==
  ASSUME CacheInv, NEW t \in Threads, StoreHandle(t)
  PROVE  CacheInv'
<1> USE DEF CacheInv
<1> DEFINE key == Key(t)
<1>1. /\ UNCHANGED <<registry, modules, cacheMu, freezes, capturing, call, handle, outcome, calls,
                     prepared, quiet, loaded>>
      /\ pc[t] = "store" /\ pc' = [pc EXCEPT ![t] = "flag"]
      /\ kernels' = [kernels EXCEPT ![key] = [kernels[key] EXCEPT !.handle = handle[t]]]
      /\ key \in Keys /\ kernels[key] \in Kernel /\ ~kernels[key].ready
      /\ handle[t] \in Devices \cup {None}
  BY ThreadKey DEF StoreHandle, WriteHandle, Go, policyVars, historyVars, StagesAgree, TypeOK
<1>2. /\ kernels' \in [Keys -> Kernel]
      /\ kernels'[key] = [kernels[key] EXCEPT !.handle = handle[t]]
      /\ \A k \in Keys \ {key} : kernels'[k] = kernels[k]
  BY <1>1, KernelTypes, OneKernel
<1>3. /\ kernels'[key].compiled = kernels[key].compiled /\ kernels'[key].ready = kernels[key].ready
      /\ kernels'[key].by = kernels[key].by
  BY <1>1, <1>2 DEF Kernel
<1>4. TypeOK'
  BY <1>1, <1>2 DEF TypeOK, Stages, Cold
<1>5. MutexesHeld'
  BY <1>1, <1>2, <1>3 DEF MutexesHeld, Locked, Key, TypeOK
<1>6. ReadyIsComplete' /\ LoadsCounted'
  BY <1>1, <1>2, <1>3 DEF ReadyIsComplete, LoadsCounted
<1>7. StagesAgree'
  BY <1>1, <1>2, <1>3, ThreadKey DEF StagesAgree, Locked, Key, TypeOK
<1>8. PreparedIsReady' /\ QuietIsFrozen'
  BY <1>1, <1>2, <1>3 DEF PreparedIsReady, QuietIsFrozen, Key, TypeOK, Cold, Asking
<1> QED
  BY <1>4, <1>5, <1>6, <1>7, <1>8

LEMMA FlagKeepsInv ==
  ASSUME CacheInv, NEW t \in Threads, StoreLoaded(t)
  PROVE  CacheInv'
<1> USE DEF CacheInv
<1> DEFINE key == Key(t)
           full == [kernels[key] EXCEPT !.handle = handle[t], !.ready = TRUE, !.by = None]
<1>1. /\ UNCHANGED <<registry, modules, cacheMu, freezes, capturing, call, calls, quiet, loaded>>
      /\ pc[t] = "flag" /\ Ready(t)
      /\ kernels' = [kernels EXCEPT ![key] = full]
      /\ key \in Keys /\ kernels[key] \in Kernel /\ kernels[key].by = t
      /\ kernels[key].compiled /\ key[1] \in registry
      /\ handle[t] \in Devices /\ handle[t] # None /\ handle[t] = modules[Artifact(key)]
  BY ThreadKey DEF StoreLoaded, policyVars, StagesAgree, MutexesHeld, ReadyIsComplete, Locked, TypeOK
<1>2. /\ kernels' \in [Keys -> Kernel]
      /\ kernels'[key] = full
      /\ \A k \in Keys \ {key} : kernels'[k] = kernels[k]
  BY <1>1, KernelTypes, OneKernel
<1>3. /\ kernels'[key].compiled = kernels[key].compiled /\ kernels'[key].ready
      /\ kernels'[key].handle = handle[t] /\ kernels'[key].by = None
  BY <1>1, <1>2 DEF Kernel
<1>4. \A u \in Threads \ {t} : pc'[u] = pc[u] /\ handle'[u] = handle[u] /\ outcome'[u] = outcome[u]
  BY OthersStay DEF CallStep
<1> HIDE DEF key, full
<1>5. TypeOK'
  BY <1>1, <1>2, ReadyEnds DEF TypeOK, key
<1>6. MutexesHeld'
  <2>1. \A u \in Threads : pc'[u] \in Locked <=> (pc[u] \in Locked /\ u # t)
    BY <1>1, <1>4, ReadyEnds DEF Locked
  <2>2. ASSUME NEW u \in Threads, NEW k \in Keys
        PROVE  kernels'[k].by = u <=> pc'[u] \in Locked /\ Key(u) = k
    <3>1. CASE k = key
      BY <1>1, <1>3, <2>1, <3>1, NoneAssumption DEF MutexesHeld
    <3>2. CASE k # key
      BY <1>1, <1>2, <2>1, <3>2 DEF MutexesHeld, key
    <3> QED
      BY <3>1, <3>2
  <2>3. \A u \in Threads : cacheMu' = u <=> pc'[u] = "driver"
    BY <1>1, <1>4, ReadyEnds DEF MutexesHeld
  <2>4. \A u \in Threads : (Key(u))' = Key(u)
    BY <1>1 DEF Key
  <2> QED
    BY <2>2, <2>3, <2>4 DEF MutexesHeld
<1>7. ReadyIsComplete' /\ LoadsCounted'
  BY <1>1, <1>2, <1>3 DEF ReadyIsComplete, LoadsCounted
<1>8. StagesAgree'
  <2>1. \A u \in Threads \ {t} : pc[u] \in Locked => Key(u) # key
    BY <1>1 DEF MutexesHeld
  <2>2. \A k \in Keys : /\ kernels[k].compiled => kernels'[k].compiled
                        /\ kernels[k].ready => kernels'[k].ready
    BY <1>2, <1>3
  <2>3. \A u \in Threads : (Key(u))' = Key(u) /\ Key(u) \in Keys
    BY <1>1, ThreadKey DEF Key
  <2>4. ASSUME NEW u \in Threads, u # t
        PROVE  /\ pc[u] \in {"load", "askLoad", "lock", "submit"} \cup Locked => kernels'[Key(u)].compiled
               /\ pc[u] \in {"module", "driver", "store", "flag"} => ~kernels'[Key(u)].ready
               /\ pc[u] = "submit" => kernels'[Key(u)].ready
    <3>1. pc[u] \in Locked => kernels'[Key(u)] = kernels[Key(u)]
      BY <1>2, <2>1, <2>3, <2>4
    <3> QED
      BY <2>2, <2>3, <3>1 DEF StagesAgree, Locked
  <2>5. pc'[t] \in {"submit", "idle"} /\ Key(t) = key
    BY <1>1, ReadyEnds DEF key
  <2>6. ASSUME NEW u \in Threads
        PROVE  /\ pc'[u] \in {"load", "askLoad", "lock", "submit"} \cup Locked => kernels'[Key(u)].compiled
               /\ pc'[u] \in {"program", "askProgram", "compile"} => call[u].function \in registry
               /\ pc'[u] = "driver" => modules[Artifact(Key(u))] = None
               /\ pc'[u] \in {"store", "flag"} => handle'[u] # None /\ handle'[u] = modules[Artifact(Key(u))]
               /\ pc'[u] \in {"module", "driver", "store", "flag"} => ~kernels'[Key(u)].ready
               /\ pc'[u] = "submit" => kernels'[Key(u)].ready
    <3>1. CASE u = t
      BY <1>1, <1>3, <2>5, <3>1 DEF Locked
    <3>2. CASE u # t
      BY <1>4, <2>4, <3>2 DEF StagesAgree
    <3> QED
      BY <3>1, <3>2
  <2> QED
    BY <1>1, <2>3, <2>6 DEF StagesAgree
<1>9. PreparedIsReady'
  <2>1. \A k \in prepared' : k \in prepared \/ k = key
    BY <1>1, ReadyEnds DEF key
  <2>2. \A u \in Threads : outcome'[u] = "frozen" => outcome[u] = "frozen"
    BY <1>1, <1>4, ReadyEnds
  <2>3. \A u \in Threads : pc'[u] \in Cold \cup Asking => pc[u] \in Cold \cup Asking
    BY <1>1, <1>4, ReadyEnds DEF Cold, Asking
  <2>4. prepared \subseteq prepared' /\ prepared \subseteq Keys
    BY <1>1, ReadyEnds DEF TypeOK
  <2> QED
    BY <1>1, <1>2, <1>3, <2>1, <2>2, <2>3, <2>4 DEF PreparedIsReady, Key
<1>10. QuietIsFrozen'
  BY <1>1, <1>4, ReadyEnds DEF QuietIsFrozen, Cold
<1> QED
  BY <1>5, <1>6, <1>7, <1>8, <1>9, <1>10

-----------------------------------------------------------------------------
(* Calls begin, callers ask, guards and captures come and go. *)

LEMMA EnterKeepsInv ==
  ASSUME CacheInv, NEW t \in Threads, Enter(t)
  PROVE  CacheInv'
<1> USE DEF CacheInv
<1>1. PICK c \in Call : c.warm = (KeyOf(c) \in prepared) /\ call' = [call EXCEPT ![t] = c]
  BY DEF Enter
<1>2. /\ UNCHANGED <<registry, kernels, modules, cacheMu, freezes, capturing, handle, prepared, quiet, loaded>>
      /\ pc[t] = "idle" /\ pc' = [pc EXCEPT ![t] = "function"]
      /\ outcome' = [outcome EXCEPT ![t] = None] /\ calls' \in 0 .. MaxCalls
  BY CacheBoundsAssumption DEF Enter, Go, sharedVars, policyVars, historyVars, TypeOK
<1>3. \A u \in Threads \ {t} : call'[u] = call[u] /\ pc'[u] = pc[u] /\ outcome'[u] = outcome[u]
  BY <1>1, <1>2 DEF TypeOK
<1>4. pc'[t] = "function" /\ outcome'[t] = None /\ call'[t] = c
  BY <1>1, <1>2 DEF TypeOK
<1>5. TypeOK'
  BY <1>1, <1>2 DEF TypeOK, Stages
<1>6. MutexesHeld'
  BY <1>2, <1>3, <1>4 DEF MutexesHeld, Locked, Key
<1>7. ReadyIsComplete' /\ LoadsCounted'
  BY <1>2 DEF ReadyIsComplete, LoadsCounted
<1>8. StagesAgree'
  BY <1>2, <1>3, <1>4 DEF StagesAgree, Locked, Key
<1>9. PreparedIsReady'
  <2>1. call'[t].warm => KeyOf(call'[t]) \in prepared
    BY <1>1, <1>4
  <2>2. None # "frozen"
    BY NoneAssumption DEF Outcomes
  <2> QED
    BY <1>2, <1>3, <1>4, <2>1, <2>2 DEF PreparedIsReady, Key, Cold, Asking
<1>10. QuietIsFrozen'
  BY <1>2, <1>3, <1>4 DEF QuietIsFrozen, Cold
<1> QED
  BY <1>5, <1>6, <1>7, <1>8, <1>9, <1>10

LEMMA PolicyKeepsInv ==
  ASSUME CacheInv,
         \/ \E k \in Keys : TellPrepared(k)
         \/ Freeze \/ Thaw
         \/ \E t \in Threads : ToggleCapture(t)
  PROVE  CacheInv'
<1> USE DEF CacheInv
<1>1. /\ UNCHANGED <<registry, kernels, modules, cacheMu, pc, call, handle, outcome, calls, loaded>>
      /\ prepared \subseteq prepared'
  BY DEF TellPrepared, Freeze, Thaw, ToggleCapture, sharedVars, historyVars
<1>2. \A k \in prepared' \ prepared : k \in Keys /\ kernels[k].compiled /\ kernels[k].ready
  BY DEF TellPrepared, IsPrepared, Freeze, Thaw, ToggleCapture, historyVars
<1>3. freezes' \in 0 .. MaxFreezes /\ capturing' \subseteq Threads /\ quiet' \in BOOLEAN
  <2>1. CASE \E k \in Keys : TellPrepared(k)
    BY <2>1 DEF TellPrepared, policyVars, TypeOK
  <2>2. CASE Freeze
    BY <2>2, CacheBoundsAssumption DEF Freeze, TypeOK
  <2>3. CASE Thaw
    BY <2>3, CacheBoundsAssumption DEF Thaw, TypeOK
  <2>4. CASE \E t \in Threads : ToggleCapture(t)
    BY <2>4 DEF ToggleCapture, TypeOK, historyVars
  <2> QED
    BY <2>1, <2>2, <2>3, <2>4
<1>4. TypeOK'
  BY <1>1, <1>2, <1>3 DEF TypeOK
<1>5. MutexesHeld' /\ ReadyIsComplete' /\ LoadsCounted'
  BY <1>1 DEF MutexesHeld, ReadyIsComplete, LoadsCounted, Key
<1>6. StagesAgree'
  BY <1>1 DEF StagesAgree, Key
<1>7. PreparedIsReady'
  BY <1>1, <1>2 DEF PreparedIsReady, Key
<1>8. QuietIsFrozen'
  <2>1. CASE \E k \in Keys : TellPrepared(k)
    BY <2>1 DEF TellPrepared, policyVars, QuietIsFrozen
  <2>2. CASE Freeze
    <3>1. freezes' > 0
      BY <2>2, CacheBoundsAssumption DEF Freeze, TypeOK
    <3>2. quiet' => quiet \/ \A t \in Threads : pc[t] = "idle"
      BY <2>2, Zenon DEF Freeze
    <3>3. pc' = pc
      BY <1>1
    <3> QED
      BY <3>1, <3>2, <3>3 DEF QuietIsFrozen, Cold
  <2>3. CASE Thaw
    <3>1. quiet' => quiet /\ freezes > 1
      BY <2>3, Zenon DEF Thaw
    <3>2. freezes' = freezes - 1 /\ freezes \in Nat
      BY <2>3, CacheBoundsAssumption DEF Thaw, TypeOK
    <3>3. pc' = pc
      BY <1>1
    <3> QED
      BY <3>1, <3>2, <3>3 DEF QuietIsFrozen
  <2>4. CASE \E t \in Threads : ToggleCapture(t)
    BY <2>4 DEF ToggleCapture, QuietIsFrozen, historyVars
  <2> QED
    BY <2>1, <2>2, <2>3, <2>4
<1> QED
  BY <1>4, <1>5, <1>6, <1>7, <1>8

-----------------------------------------------------------------------------
LEMMA InvStep == CacheInv /\ [Next]_vars => CacheInv'
<1> SUFFICES ASSUME CacheInv, [Next]_vars PROVE CacheInv'
  OBVIOUS
<1>1. CASE UNCHANGED vars
  BY <1>1 DEF CacheInv, TypeOK, MutexesHeld, ReadyIsComplete, StagesAgree, PreparedIsReady,
              LoadsCounted, QuietIsFrozen, Key, vars, sharedVars, policyVars, historyVars
<1>2. ASSUME NEW t \in Threads, CallStep(t) PROVE CacheInv'
  BY <1>2, WalksKeepInv, ConstructKeepsInv, CompileKeepsInv, CheckKeepsInv, LockKeepsInv,
     RecheckKeepsInv, FindKeepsInv, LoadKeepsInv, ThrowKeepsInv, StoreKeepsInv, FlagKeepsInv DEF CallStep
<1> QED
  BY <1>1, <1>2, EnterKeepsInv, PolicyKeepsInv DEF Next

\* The caches are consistent in every behaviour: types, mutexes, published
\* handles and what callers were told (get_instance, get_kernel,
\* lazy_init_handle, load_kernel).
THEOREM CacheCorrect == Spec => []CacheInv
  BY InvInit, InvStep, PTL DEF Spec

\* A launch that begins after its program was prepared is never refused by a
\* freeze or a capture (prepare, is_prepared, refuse_if_frozen).
THEOREM PreparedNeverRefused == Spec => []PreparedIsNotRefused
<1>1. CacheInv => PreparedIsNotRefused
  BY DEF CacheInv, PreparedIsReady, PreparedIsNotRefused
<1> QED
  BY <1>1, CacheCorrect, PTL

\* A launch reads a written handle, that of the module of its artifact
\* (lazy_init_handle).
THEOREM LaunchFindsHandle == Spec => []LaunchHasHandle
<1>1. CacheInv => LaunchHasHandle
  BY ThreadKey DEF CacheInv, StagesAgree, ReadyIsComplete, LaunchHasHandle
<1> QED
  BY <1>1, CacheCorrect, PTL

\* An artifact is loaded into the process at most once (load_kernel).
THEOREM LoadedAtMostOnce == Spec => []ModuleLoadedOnce
<1>1. CacheInv => ModuleLoadedOnce
  BY DEF CacheInv, LoadsCounted, ModuleLoadedOnce
<1> QED
  BY <1>1, CacheCorrect, PTL

\* A freeze that began outside every call keeps cold work out
\* (refuse_if_frozen).
THEOREM QuietFreezeHolds == Spec => []FrozenStaysWarm
<1>1. CacheInv => FrozenStaysWarm
  BY DEF CacheInv, QuietIsFrozen, FrozenStaysWarm
<1> QED
  BY <1>1, CacheCorrect, PTL

LEMMA KernelsWarm ==
  ASSUME CacheInv, Next, NEW k \in Keys
  PROVE  /\ kernels[k].compiled => kernels'[k].compiled
         /\ kernels[k].ready => kernels'[k].ready /\ kernels'[k].handle = kernels[k].handle
<1> USE DEF CacheInv
<1>1. CASE UNCHANGED kernels
  BY <1>1
<1>2. ASSUME NEW t \in Threads, NEW r \in Kernel, kernels' = [kernels EXCEPT ![Key(t)] = r],
             kernels[Key(t)].compiled => r.compiled,
             kernels[Key(t)].ready => r.ready /\ r.handle = kernels[Key(t)].handle
      PROVE  /\ kernels[k].compiled => kernels'[k].compiled
             /\ kernels[k].ready => kernels'[k].ready /\ kernels'[k].handle = kernels[k].handle
  <2>1. kernels'[Key(t)] = r /\ \A l \in Keys \ {Key(t)} : kernels'[l] = kernels[l]
    BY <1>2, ThreadKey, OneKernel
  <2> QED
    BY <1>2, <2>1
<1>3. ASSUME NEW t \in Threads PROVE kernels[Key(t)] \in Kernel
  BY ThreadKey DEF TypeOK
<1>4. ASSUME NEW t \in Threads, Compile(t)
      PROVE  /\ kernels[k].compiled => kernels'[k].compiled
             /\ kernels[k].ready => kernels'[k].ready /\ kernels'[k].handle = kernels[k].handle
  <2> DEFINE r == [kernels[Key(t)] EXCEPT !.compiled = TRUE]
  <2>1. kernels' = [kernels EXCEPT ![Key(t)] = r]
    BY <1>4 DEF Compile, EmplaceProgram
  <2>2. r \in Kernel
    BY <1>3, KernelTypes
  <2>3. r.compiled /\ r.ready = kernels[Key(t)].ready /\ r.handle = kernels[Key(t)].handle
    BY <1>3 DEF Kernel
  <2> HIDE DEF r
  <2> QED
    BY <1>2, <2>1, <2>2, <2>3
<1>5. ASSUME NEW t \in Threads, NEW b \in Threads \cup {None},
             kernels' = [kernels EXCEPT ![Key(t)] = [kernels[Key(t)] EXCEPT !.by = b]]
      PROVE  /\ kernels[k].compiled => kernels'[k].compiled
             /\ kernels[k].ready => kernels'[k].ready /\ kernels'[k].handle = kernels[k].handle
  <2> DEFINE r == [kernels[Key(t)] EXCEPT !.by = b]
  <2>1. r \in Kernel
    BY <1>3, KernelTypes
  <2>2. r.compiled = kernels[Key(t)].compiled /\ r.ready = kernels[Key(t)].ready
        /\ r.handle = kernels[Key(t)].handle
    BY <1>3 DEF Kernel
  <2>3. kernels' = [kernels EXCEPT ![Key(t)] = r]
    BY <1>5
  <2> HIDE DEF r
  <2> QED
    BY <1>2, <2>1, <2>2, <2>3
<1>6. ASSUME NEW t \in Threads, LockKernel(t) \/ Recheck(t) \/ DriverThrows(t)
      PROVE  /\ kernels[k].compiled => kernels'[k].compiled
             /\ kernels[k].ready => kernels'[k].ready /\ kernels'[k].handle = kernels[k].handle
  BY <1>1, <1>5, <1>6 DEF LockKernel, Recheck, DriverThrows, UnlocksKernel
<1>7. ASSUME NEW t \in Threads, StoreHandle(t) \/ StoreLoaded(t)
      PROVE  /\ kernels[k].compiled => kernels'[k].compiled
             /\ kernels[k].ready => kernels'[k].ready /\ kernels'[k].handle = kernels[k].handle
  <2> DEFINE r == IF StoreHandle(t)
                  THEN [kernels[Key(t)] EXCEPT !.handle = handle[t]]
                  ELSE [kernels[Key(t)] EXCEPT !.handle = handle[t], !.ready = TRUE, !.by = None]
  <2>1. ~kernels[Key(t)].ready
    BY <1>7 DEF StoreHandle, StoreLoaded, StagesAgree
  <2>2. r \in Kernel
    BY <1>3, KernelTypes DEF TypeOK
  <2>3. r.compiled = kernels[Key(t)].compiled
    BY <1>3 DEF Kernel
  <2>4. kernels' = [kernels EXCEPT ![Key(t)] = r]
    BY <1>7 DEF StoreHandle, StoreLoaded, WriteHandle
  <2> HIDE DEF r
  <2> QED
    BY <1>2, <2>1, <2>2, <2>3, <2>4
<1>8. ASSUME NEW t \in Threads, CallStep(t)
      PROVE  \/ UNCHANGED kernels \/ Compile(t)
             \/ LockKernel(t) \/ Recheck(t) \/ DriverThrows(t) \/ StoreHandle(t) \/ StoreLoaded(t)
  BY <1>8 DEF CallStep, LookFunctionUp, AskFunction, ConstructFunction, EmplaceFunction, PythonThrows,
     LookProgramUp, AskProgram, CheckLoaded, AskLoad, RefuseIfFrozen, FindModule, LoadModule,
     Submit, SubmitThrows, sharedVars
<1>9. Next => UNCHANGED kernels \/ \E t \in Threads : CallStep(t)
  BY DEF Next, Enter, TellPrepared, Freeze, Thaw, ToggleCapture, sharedVars
<1> QED
  BY <1>1, <1>4, <1>6, <1>7, <1>8, <1>9

\* What is published stays published, and a ready kernel keeps its handle
\* (get_instance, get_kernel, lazy_init_handle).
THEOREM OnlyWarmer == Spec => ProgramsOnlyGetWarmer
<1>1. CacheInv /\ [Next]_vars =>
        [\A k \in Keys :
           /\ kernels[k].compiled => kernels'[k].compiled
           /\ kernels[k].ready => kernels'[k].ready /\ kernels'[k].handle = kernels[k].handle]_vars
  BY KernelsWarm
<1> QED
  BY <1>1, CacheCorrect, PTL DEF Spec, ProgramsOnlyGetWarmer
=============================================================================
