------------------------- MODULE PythonBridgeProofs -------------------------
(***************************************************************************)
(* Proofs about PythonBridge, for any number of threads, tokens and trials: *)
(* BridgeInv is inductive, and from it follow the properties of the          *)
(* interpreter lock, of the initialisation and of the tuner's selections.    *)
(***************************************************************************)
EXTENDS PythonBridge, TLAPS

LEMMA InvInit == Init => BridgeInv
<1> SUFFICES ASSUME Init PROVE BridgeInv
  OBVIOUS
<1> USE BridgeAssumption DEF BridgeAssumption, Init, InPython
<1>1. TypeOK
  <2>1. (CHOOSE k \in Tokens : TRUE) \in Tokens
    OBVIOUS
  <2>2. NoArgs \in Args
    BY DEF NoArgs, Args
  <2>3. nargs \in [Threads -> Args] /\ token \in [Threads -> Tokens]
    BY <2>1, <2>2
  <2>4. pc \in [Threads -> {"idle"}] /\ op \in [Threads -> {"ensure"}]
    OBVIOUS
  <2>5. trials \in [Threads -> 0 .. MaxTrials]
    OBVIOUS
  <2> QED
    BY <2>3, <2>4, <2>5 DEF TypeOK
<1>2. OnceIsHeld /\ LockIsHeld
  BY DEF OnceIsHeld, LockIsHeld
<1>3. SelectionsApart /\ TrialsAreCounted
  BY DEF SelectionsApart, TrialsAreCounted
<1> QED
  BY <1>1, <1>2, <1>3 DEF BridgeInv

-----------------------------------------------------------------------------
(* Types *)

LEMMA TypeStep ==
  ASSUME TypeOK, TrialsAreCounted, NEW t \in Threads,
         Begin(t) \/ Progress(t) \/ Suspend(t) \/ Resume(t)
  PROVE  TypeOK'
<1> USE BridgeAssumption DEF BridgeAssumption, TypeOK, Goes, fixedVars, pyVars, callVars, flightVars, tunerVars,
        InPython, Args, NoArgs, HasPython
<1>0. Detached(t) \in Threads \cup {None}
  BY DEF Detached
<1>1. CASE Begin(t)
  BY <1>1 DEF Begin
<1>2. CASE CallOnce(t)
  BY <1>2 DEF CallOnce
<1>3. CASE Boot(t)
  BY <1>3 DEF Boot
<1>4. CASE Attach(t)
  BY <1>4 DEF Attach, Acquires
<1>5. CASE SetEnviron(t)
  <2>1. gil' \in Threads \cup {None} /\ once' \in Threads \cup {None, "done"}
    BY <1>0, <1>5 DEF SetEnviron, FlagAfterThrow
  <2>2. environ' \in BOOLEAN
    BY <1>5 DEF SetEnviron
  <2>3. \E where \in {"vendor", "publish", "idle"} : Goes(t, where)
    BY <1>5 DEF SetEnviron
  <2> QED
    BY <1>5, <2>1, <2>2, <2>3 DEF SetEnviron
<1>6. CASE ImportVendor(t)
  BY <1>0, <1>6 DEF ImportVendor
<1>7. CASE PythonWork(t)
  BY <1>0, <1>7 DEF PythonWork
<1>8. CASE Suspend(t) \/ Resume(t)
  BY <1>8 DEF Suspend, Resume
<1>9. CASE Join(t)
  BY <1>9 DEF Join
<1>10. CASE HookReleases(t) \/ Regain(t)
  BY <1>10 DEF HookReleases, Regain
<1>11. CASE Awake(t)
  BY <1>11 DEF Awake
<1>12. CASE Publish(t)
  BY <1>12 DEF Publish, WaitersOf
<1>13. CASE TakeBenchmarkLock(t)
  BY <1>13 DEF TakeBenchmarkLock, LocalTuner
<1>14. CASE Select(t)
  <2>1. Isolated(t) \in Args
    BY DEF Isolated
  <2>2. nargs' \in [Threads -> Args]
    BY <1>14, <2>1 DEF Select, LocalTuner
  <2>3. told' \subseteq Threads
    BY <1>14 DEF Select
  <2> QED
    BY <1>14, <2>2, <2>3 DEF Select
<1>15. CASE Trial(t)
  <2>1. trials[t] + 1 \in 0 .. MaxTrials
    BY <1>15 DEF Trial, TrialsAreCounted
  <2>2. written' \subseteq Threads
    BY <1>15 DEF Trial, LocalTuner
  <2> QED
    BY <1>15, <2>1, <2>2 DEF Trial
<1>16. CASE Store(t)
  BY <1>16 DEF Store, IsNew
<1>17. CASE Evict(t)
  BY <1>17 DEF Evict
<1>18. CASE Unlock(t)
  BY <1>0, <1>18 DEF Unlock, LocalTuner
<1> QED
  BY <1>1, <1>2, <1>3, <1>4, <1>5, <1>6, <1>7, <1>8, <1>9, <1>10, <1>11, <1>12, <1>13,
     <1>14, <1>15, <1>16, <1>17, <1>18 DEF Progress
-----------------------------------------------------------------------------
\* A step of a thread is its own: the others stay where they are, with their locals.
LEMMA OthersStay ==
  ASSUME TypeOK, NEW t \in Threads, NEW u \in Threads \ {t},
         Begin(t) \/ Progress(t) \/ Suspend(t) \/ Resume(t)
  PROVE  /\ pc'[u] = pc[u] /\ came'[u] = came[u] /\ scope'[u] = scope[u]
         /\ token'[u] = token[u] /\ trials'[u] = trials[u] /\ inserted'[u] = inserted[u]
         /\ nargs'[u] = nargs[u]
<1> USE DEF TypeOK, Goes, fixedVars, pyVars, callVars, flightVars, tunerVars, LocalTuner
<1>1. CASE Begin(t) \/ Suspend(t) \/ Resume(t)
  BY <1>1 DEF Begin, Suspend, Resume
<1>2. CASE CallOnce(t) \/ Boot(t) \/ Attach(t)
  BY <1>2 DEF CallOnce, Boot, Attach
<1>3. CASE SetEnviron(t) \/ ImportVendor(t) \/ PythonWork(t)
  BY <1>3 DEF SetEnviron, ImportVendor, PythonWork
<1>4. CASE Join(t) \/ HookReleases(t) \/ Awake(t) \/ Regain(t) \/ Publish(t)
  BY <1>4 DEF Join, HookReleases, Awake, Regain, Publish
<1>5. CASE TakeBenchmarkLock(t) \/ Select(t) \/ Unlock(t)
  BY <1>5 DEF TakeBenchmarkLock, Select, Unlock
<1>6. CASE Trial(t) \/ Store(t) \/ Evict(t)
  BY <1>6 DEF Trial, Store, Evict
<1> QED
  BY <1>1, <1>2, <1>3, <1>4, <1>5, <1>6 DEF Progress

-----------------------------------------------------------------------------
(* Initialisation and the interpreter lock *)

LEMMA OnceStep ==
  ASSUME BridgeInv, NEW t \in Threads,
         Begin(t) \/ Progress(t) \/ Suspend(t) \/ Resume(t)
  PROVE  OnceIsHeld'
<1> USE BridgeAssumption DEF BridgeAssumption, BridgeInv, TypeOK, OnceIsHeld, Goes, InPython,
        HasPython, fixedVars, pyVars, callVars, flightVars, tunerVars
<1>1. CASE Begin(t)
  BY <1>1 DEF Begin
<1>2. CASE CallOnce(t)
  BY <1>2 DEF CallOnce
<1>3. CASE Boot(t)
  BY <1>3 DEF Boot
<1>4. CASE Attach(t)
  BY <1>4 DEF Attach
<1>5. CASE SetEnviron(t)
  BY <1>5 DEF SetEnviron, FlagAfterThrow
<1>6. CASE ImportVendor(t)
  BY <1>6 DEF ImportVendor
<1>7. CASE PythonWork(t) \/ Suspend(t) \/ Resume(t)
  BY <1>7 DEF PythonWork, Suspend, Resume
<1>8. CASE Join(t) \/ Publish(t)
  BY <1>8 DEF Join, Publish
<1>9. CASE HookReleases(t) \/ Awake(t) \/ Regain(t)
  BY <1>9 DEF HookReleases, Awake, Regain
<1>10. CASE TakeBenchmarkLock(t) \/ Select(t) \/ Unlock(t)
  BY <1>10 DEF TakeBenchmarkLock, Select, Unlock
<1>11. CASE Trial(t) \/ Store(t) \/ Evict(t)
  BY <1>11 DEF Trial, Store, Evict
<1> QED
  BY <1>1, <1>2, <1>3, <1>4, <1>5, <1>6, <1>7, <1>8, <1>9, <1>10, <1>11 DEF Progress

LEMMA FixedStay ==
  ASSUME NEW t \in Threads, Begin(t) \/ Progress(t) \/ Suspend(t) \/ Resume(t)
  PROVE  UNCHANGED <<native, serial, resolver>>
BY DEF Begin, Progress, Suspend, Resume, CallOnce, Boot, Attach, SetEnviron, ImportVendor,
  PythonWork, Join, HookReleases, Awake, Regain, Publish, TakeBenchmarkLock, Select, Trial,
  Store, Evict, Unlock, fixedVars

\* Where the interpreter lock goes in a step of t: it stays, or t takes or frees it.
LEMMA LockMoves ==
  ASSUME BridgeInv, NEW t \in Threads,
         Begin(t) \/ Progress(t) \/ Suspend(t) \/ Resume(t)
  PROVE  /\ gil' = gil \/ (gil \in {None, t} /\ gil' \in {None, t})
         /\ up => up'
         /\ gil' # None => up'
<1> USE DEF BridgeInv, TypeOK, LockIsHeld, HasPython, Detached, fixedVars, pyVars, callVars,
        flightVars, tunerVars
<1>1. CASE Begin(t)
  <2>1. t \notin native => native # Threads
    OBVIOUS
  <2> QED
    BY <1>1, <2>1 DEF Begin
<1>2. CASE CallOnce(t) \/ Boot(t)
  BY <1>2 DEF CallOnce, Boot
<1>3. CASE Attach(t) \/ Resume(t)
  BY <1>3 DEF Attach, Resume, OnceIsHeld, InPython
<1>4. CASE SetEnviron(t) \/ ImportVendor(t) \/ PythonWork(t) \/ Unlock(t) \/ Suspend(t)
  BY <1>4 DEF SetEnviron, ImportVendor, PythonWork, Unlock, Suspend
<1>5. CASE HookReleases(t) \/ Awake(t) \/ Regain(t)
  BY <1>5 DEF HookReleases, Awake, Regain, Releases
<1>6. CASE Join(t) \/ Publish(t) \/ TakeBenchmarkLock(t) \/ Select(t)
  BY <1>6 DEF Join, Publish, TakeBenchmarkLock, Select
<1>7. CASE Trial(t) \/ Store(t) \/ Evict(t)
  BY <1>7 DEF Trial, Store, Evict
<1> QED
  BY <1>1, <1>2, <1>3, <1>4, <1>5, <1>6, <1>7 DEF Progress

\* The interpreter lock and the scope of the thread that steps.
LEMMA OwnLock ==
  ASSUME BridgeInv, NEW t \in Threads,
         Begin(t) \/ Progress(t) \/ Suspend(t) \/ Resume(t)
  PROVE  (/\ pc[t] \in {"hooked", "regain"} => up
          /\ came[t] =>
               /\ pc[t] \notin InPython \cup {"idle", "hooked", "regain"} => gil = t
               /\ pc[t] \in InPython => ~scope[t])'
<1> USE DEF BridgeInv, TypeOK, LockIsHeld, Goes, HasPython, InPython, fixedVars, pyVars,
        callVars, flightVars, tunerVars
<1>1. CASE Begin(t)
  <2>1. pc'[t] \in {"join", "once"} /\ came'[t] = (gil' = t) /\ ~scope'[t]
    BY <1>1 DEF Begin
  <2> QED
    BY <2>1
<1>2. CASE CallOnce(t) \/ Boot(t)
  <2>1. CASE CallOnce(t)
    BY <2>1 DEF CallOnce
  <2>2. CASE Boot(t)
    BY <2>2 DEF Boot
  <2> QED
    BY <1>2, <2>1, <2>2
<1>3. CASE Attach(t)
  <2>1. came[t] => gil = t
    BY <1>3 DEF Attach
  <2>2. scope'[t] = (gil # t) /\ UNCHANGED came
    BY <1>3 DEF Attach, Acquires
  <2>3. pc'[t] \in {"os", "lock", "work"}
    BY <1>3 DEF Attach
  <2> QED
    BY <2>1, <2>2, <2>3
<1>4. CASE SetEnviron(t) \/ ImportVendor(t)
  BY <1>4 DEF SetEnviron, ImportVendor, Detached
<1>5. CASE PythonWork(t) \/ Suspend(t) \/ Resume(t)
  BY <1>5 DEF PythonWork, Suspend, Resume, Switchable
<1>6. CASE Join(t) \/ Publish(t)
  BY <1>6 DEF Join, Publish
<1>7. CASE HookReleases(t) \/ Awake(t) \/ Regain(t)
  BY <1>7 DEF HookReleases, Awake, Regain, Releases
<1>8. CASE TakeBenchmarkLock(t) \/ Select(t)
  BY <1>8 DEF TakeBenchmarkLock, Select
<1>9. CASE Trial(t) \/ Store(t) \/ Evict(t)
  BY <1>9 DEF Trial, Store, Evict
<1>10. CASE Unlock(t)
  BY <1>10 DEF Unlock, Detached
<1> QED
  BY <1>1, <1>2, <1>3, <1>4, <1>5, <1>6, <1>7, <1>8, <1>9, <1>10 DEF Progress

LEMMA LockStep ==
  ASSUME BridgeInv, NEW t \in Threads,
         Begin(t) \/ Progress(t) \/ Suspend(t) \/ Resume(t)
  PROVE  LockIsHeld'
<1>1. TypeOK /\ LockIsHeld /\ None \notin Threads
  BY BridgeAssumption DEF BridgeAssumption, BridgeInv
<1>2. \A u \in Threads \ {t} :
        pc'[u] = pc[u] /\ came'[u] = came[u] /\ scope'[u] = scope[u]
  BY <1>1, OthersStay
<1>3. (gil # None \/ native # Threads => up)'
  BY <1>1, FixedStay, LockMoves DEF LockIsHeld
<1> QED
  BY <1>1, <1>2, <1>3, LockMoves, OwnLock DEF LockIsHeld
-----------------------------------------------------------------------------
(* Selections *)

Selecting == {"select", "trial", "store", "evict", "unlock"}

\* Only a selection's own steps touch the benchmark lock and the caches of the tuner.
LEMMA TunerStays ==
  ASSUME NEW t \in Threads, Begin(t) \/ Progress(t) \/ Suspend(t) \/ Resume(t),
         ~TakeBenchmarkLock(t), ~Unlock(t), ~Store(t), ~Evict(t)
  PROVE  UNCHANGED <<bench, tuned, strange>>
BY DEF Begin, Progress, Suspend, Resume, CallOnce, Boot, Attach, SetEnviron, ImportVendor,
  PythonWork, Join, HookReleases, Awake, Regain, Publish, Select, Trial, tunerVars

\* Into a selection, and on in it, a thread comes by a selection's own steps.
LEMMA SelectionSteps ==
  ASSUME TypeOK, NEW t \in Threads, Begin(t) \/ Progress(t) \/ Suspend(t) \/ Resume(t),
         pc'[t] \in Selecting
  PROVE  \/ UNCHANGED <<pc, token, inserted, trials, nargs, written>>
         \/ TakeBenchmarkLock(t) \/ Select(t) \/ Trial(t) \/ Store(t) \/ Evict(t)
<1> USE DEF TypeOK, Selecting, Goes, callVars, tunerVars
<1>1. CASE Begin(t) \/ Suspend(t) \/ Resume(t)
  BY <1>1 DEF Begin, Suspend, Resume
<1>2. CASE CallOnce(t) \/ Boot(t) \/ Attach(t)
  BY <1>2 DEF CallOnce, Boot, Attach
<1>3. CASE SetEnviron(t) \/ ImportVendor(t) \/ PythonWork(t)
  BY <1>3 DEF SetEnviron, ImportVendor, PythonWork
<1>4. CASE Join(t) \/ HookReleases(t) \/ Awake(t) \/ Regain(t) \/ Publish(t)
  BY <1>4 DEF Join, HookReleases, Awake, Regain, Publish
<1>5. CASE Unlock(t)
  BY <1>5 DEF Unlock
<1> QED
  BY <1>1, <1>2, <1>3, <1>4, <1>5 DEF Progress

LEMMA SelectionStep ==
  ASSUME BridgeInv, NEW t \in Threads,
         Begin(t) \/ Progress(t) \/ Suspend(t) \/ Resume(t)
  PROVE  SelectionsApart'
<1>1. TypeOK /\ SelectionsApart /\ None \notin Threads
  BY BridgeAssumption DEF BridgeAssumption, BridgeInv
<1>2. /\ UNCHANGED serial
      /\ \A u \in Threads \ {t} :
           pc'[u] = pc[u] /\ token'[u] = token[u] /\ inserted'[u] = inserted[u]
  BY <1>1, OthersStay, FixedStay
<1> USE DEF TypeOK, SelectionsApart, Goes, HasPython, callVars, tunerVars
<1>3. CASE TakeBenchmarkLock(t)
  BY <1>1, <1>2, <1>3 DEF TakeBenchmarkLock
<1>4. CASE Unlock(t)
  BY <1>1, <1>2, <1>4 DEF Unlock
<1>5. CASE Store(t)
  BY <1>1, <1>2, <1>5 DEF Store, IsNew
<1>6. CASE Evict(t)
  BY <1>1, <1>2, <1>6 DEF Evict
<1>7. CASE ~TakeBenchmarkLock(t) /\ ~Unlock(t) /\ ~Store(t) /\ ~Evict(t)
  <2>1. UNCHANGED <<bench, tuned, strange>>
    BY <1>7, TunerStays
  <2>2. CASE Select(t)
    BY <1>1, <1>2, <2>1, <2>2 DEF Select
  <2>3. CASE Trial(t)
    BY <1>1, <1>2, <2>1, <2>3 DEF Trial
  <2>4. CASE pc'[t] \notin Selecting
    BY <1>1, <1>2, <2>1, <2>4 DEF Selecting
  <2>5. CASE UNCHANGED <<pc, token, inserted>>
    BY <1>1, <1>2, <2>1, <2>5
  <2> QED
    BY <1>1, <1>7, <2>2, <2>3, <2>4, <2>5, SelectionSteps
<1> QED
  BY <1>3, <1>4, <1>5, <1>6, <1>7

LEMMA TrialStep ==
  ASSUME BridgeInv, NEW t \in Threads,
         Begin(t) \/ Progress(t) \/ Suspend(t) \/ Resume(t)
  PROVE  TrialsAreCounted'
<1>1. TypeOK /\ TrialsAreCounted /\ MaxTrials \in Nat \ {0}
  BY BridgeAssumption DEF BridgeAssumption, BridgeInv
<1>2. \A u \in Threads \ {t} : pc'[u] = pc[u] /\ trials'[u] = trials[u]
  BY <1>1, OthersStay
<1>3. (/\ pc[t] \in {"join", "once", "boot", "attach", "os", "vendor", "enter", "lock", "select"}
            => trials[t] = 0
       /\ pc[t] = "trial" => trials[t] < MaxTrials)'
  <2> USE <1>1 DEF TypeOK, TrialsAreCounted, Goes, HasPython, callVars, tunerVars
  <2>1. CASE Begin(t) \/ Suspend(t) \/ Resume(t)
    BY <2>1 DEF Begin, Suspend, Resume
  <2>2. CASE CallOnce(t) \/ Boot(t) \/ Attach(t)
    BY <2>2 DEF CallOnce, Boot, Attach
  <2>3. CASE SetEnviron(t) \/ ImportVendor(t) \/ PythonWork(t)
    BY <2>3 DEF SetEnviron, ImportVendor, PythonWork
  <2>4. CASE Join(t) \/ HookReleases(t) \/ Awake(t) \/ Regain(t) \/ Publish(t)
    BY <2>4 DEF Join, HookReleases, Awake, Regain, Publish
  <2>5. CASE TakeBenchmarkLock(t) \/ Select(t) \/ Unlock(t)
    BY <2>5 DEF TakeBenchmarkLock, Select, Unlock
  <2>6. CASE Trial(t)
    BY <2>6 DEF Trial, WasLast
  <2>7. CASE Store(t) \/ Evict(t)
    BY <2>7 DEF Store, Evict
  <2> QED
    BY <2>1, <2>2, <2>3, <2>4, <2>5, <2>6, <2>7 DEF Progress
<1> QED
  BY <1>1, <1>2, <1>3 DEF TrialsAreCounted
-----------------------------------------------------------------------------
(* The theorems *)

LEMMA InvStutter ==
  ASSUME BridgeInv, UNCHANGED vars
  PROVE  BridgeInv'
BY DEF BridgeInv, TypeOK, OnceIsHeld, LockIsHeld, SelectionsApart, TrialsAreCounted, vars,
  fixedVars, pyVars, callVars, flightVars, tunerVars

\* BridgeInv: the locks of the bridge are held by who the code says holds them, in
\* every reachable state, whatever raises and wherever the interpreter switches.
THEOREM BridgeIsSound == Spec => []BridgeInv
<1>1. BridgeInv /\ [Next]_vars => BridgeInv'
  <2> SUFFICES ASSUME BridgeInv, [Next]_vars PROVE BridgeInv'
    OBVIOUS
  <2>1. CASE UNCHANGED vars
    BY <2>1, InvStutter
  <2>2. ASSUME NEW t \in Threads, Begin(t) \/ Progress(t) \/ Suspend(t) \/ Resume(t)
        PROVE  BridgeInv'
    BY <2>2, TypeStep, OnceStep, LockStep, SelectionStep, TrialStep DEF BridgeInv
  <2> QED
    BY <2>1, <2>2 DEF Next
<1> QED
  BY <1>1, InvInit, PTL DEF Spec

\* PythonKnowsBackend: no Python code of the library runs in an interpreter that does
\* not know the backend, also after an initialisation that threw.
THEOREM BackendIsKnown == Spec => []PythonKnowsBackend
<1>1. BridgeInv => PythonKnowsBackend
  BY DEF BridgeInv, OnceIsHeld, PythonKnowsBackend, InPython
<1> QED
  BY <1>1, BridgeIsSound, PTL

\* LockIsBalanced: a call returns with the interpreter lock it came with.
THEOREM LockComesBack == Spec => LockIsBalanced
<1>1. ASSUME BridgeInv, [Next]_vars
      PROVE  [\A t \in Threads : came[t] /\ pc[t] # "idle" /\ pc'[t] = "idle" => gil' = t]_vars
  <2> SUFFICES ASSUME NEW t \in Threads, came[t], pc[t] # "idle", pc'[t] = "idle"
               PROVE  gil' = t \/ UNCHANGED vars
    OBVIOUS
  <2>1. ASSUME NEW u \in Threads, u # t, Begin(u) \/ Progress(u) \/ Suspend(u) \/ Resume(u)
        PROVE  FALSE
    BY <1>1, <2>1, OthersStay DEF BridgeInv
  <2>2. ASSUME Begin(t) \/ Progress(t) \/ Suspend(t) \/ Resume(t)
        PROVE  gil' = t
    <3> USE <1>1 DEF BridgeInv, TypeOK, LockIsHeld, Goes, HasPython, InPython, Detached, pyVars,
            fixedVars, callVars, flightVars, tunerVars
    <3>1. CASE CallOnce(t) \/ Boot(t) \/ Attach(t)
      BY <2>2, <3>1 DEF CallOnce, Boot, Attach
    <3>2. CASE SetEnviron(t) \/ ImportVendor(t) \/ PythonWork(t)
      BY <2>2, <3>2 DEF SetEnviron, ImportVendor, PythonWork
    <3>3. CASE Join(t) \/ Publish(t)
      BY <2>2, <3>3 DEF Join, Publish
    <3>4. CASE HookReleases(t) \/ Awake(t) \/ Regain(t)
      BY <2>2, <3>4 DEF HookReleases, Awake, Regain
    <3>5. CASE TakeBenchmarkLock(t) \/ Select(t) \/ Trial(t) \/ Store(t) \/ Evict(t) \/ Unlock(t)
      BY <2>2, <3>5 DEF TakeBenchmarkLock, Select, Trial, Store, Evict, Unlock
    <3>6. CASE Begin(t) \/ Suspend(t) \/ Resume(t)
      BY <2>2, <3>6 DEF Begin, Suspend, Resume
    <3> QED
      BY <2>2, <3>1, <3>2, <3>3, <3>4, <3>5, <3>6 DEF Progress
  <2> QED
    BY <1>1, <2>1, <2>2 DEF Next
<1> QED
  BY <1>1, BridgeIsSound, PTL DEF Spec, LockIsBalanced

\* TrialsUseCopies: trial launches run on the copies of their own call's arguments,
\* and never write a caller's tensor.
THEOREM TrialsAreIsolated == Spec => []TrialsUseCopies
<1>1. Init => TrialsUseCopies
  BY DEF Init, TrialsUseCopies
<1>2. ASSUME BridgeInv, TrialsUseCopies, [Next]_vars
      PROVE  TrialsUseCopies'
  <2>1. CASE UNCHANGED vars
    BY <1>2, <2>1 DEF TrialsUseCopies, LocalTuner, vars, tunerVars
  <2>2. ASSUME NEW t \in Threads, Begin(t) \/ Progress(t) \/ Suspend(t) \/ Resume(t)
        PROVE  TrialsUseCopies'
    <3>1. \A u \in Threads \ {t} : pc'[u] = pc[u] /\ nargs'[u] = nargs[u]
      BY <1>2, <2>2, OthersStay DEF BridgeInv
    <3>2. (pc[t] = "trial" => nargs[t] = [of |-> t, copies |-> TRUE])' /\ written' = {}
      <4> USE <1>2 DEF BridgeInv, TypeOK, TrialsUseCopies, LocalTuner, HasPython, Goes, tunerVars
      <4>1. CASE Trial(t)
        BY <4>1 DEF Trial
      <4>2. CASE Select(t)
        BY <4>2 DEF Select, Isolated
      <4>3. CASE TakeBenchmarkLock(t) \/ Unlock(t) \/ Store(t) \/ Evict(t)
        BY <4>3 DEF TakeBenchmarkLock, Unlock, Store, Evict
      <4>4. CASE ~Trial(t) /\ ~Select(t)
        <5>1. UNCHANGED written
          BY <2>2, <4>4 DEF Begin, Progress, Suspend, Resume, CallOnce, Boot, Attach,
            SetEnviron, ImportVendor, PythonWork, Join, HookReleases, Awake, Regain, Publish,
            TakeBenchmarkLock, Store, Evict, Unlock
        <5> QED
          BY <2>2, <4>3, <4>4, <5>1, SelectionSteps DEF Selecting
      <4> QED
        BY <4>1, <4>2, <4>4
    <3> QED
      BY <1>2, <3>1, <3>2 DEF TrialsUseCopies, LocalTuner
  <2> QED
    BY <1>2, <2>1, <2>2 DEF Next
<1> QED
  BY <1>1, <1>2, BridgeIsSound, PTL DEF Spec

\* StrangeSelectionsLeaveNothing: what an intercepted launch of an unknown kind left
\* in the tuner's cache is gone when the selection lets go of the benchmark lock.
THEOREM StrangeEntriesGo == Spec => []StrangeSelectionsLeaveNothing
<1>1. Init => StrangeSelectionsLeaveNothing
  BY DEF Init, StrangeSelectionsLeaveNothing
<1>2. ASSUME BridgeInv, StrangeSelectionsLeaveNothing, [Next]_vars
      PROVE  StrangeSelectionsLeaveNothing'
  <2> USE <1>2 DEF BridgeInv, TypeOK, StrangeSelectionsLeaveNothing
  <2>1. CASE UNCHANGED vars
    BY <2>1 DEF vars, tunerVars, callVars
  <2>2. ASSUME NEW t \in Threads, Begin(t) \/ Progress(t) \/ Suspend(t) \/ Resume(t)
        PROVE  StrangeSelectionsLeaveNothing'
    <3>1. \A u \in Threads \ {t} : pc'[u] = pc[u] /\ token'[u] = token[u]
      BY <2>2, OthersStay
    <3>2. CASE Store(t)
      BY <3>1, <3>2 DEF Store, HasPython, Goes, callVars
    <3>3. CASE Evict(t)
      BY <3>1, <3>3 DEF Evict, HasPython, SelectionsApart
    <3>4. CASE ~Store(t) /\ ~Evict(t)
      <4>1. UNCHANGED <<tuned, strange>>
        BY <2>2, <3>4, TunerStays DEF TakeBenchmarkLock, Unlock
      <4>2. pc[t] = "evict" => UNCHANGED <<pc, token>>
        BY <2>2, <3>4 DEF Begin, Progress, Suspend, Resume, CallOnce, Boot, Attach,
          SetEnviron, ImportVendor, PythonWork, Join, HookReleases, Awake, Regain, Publish,
          TakeBenchmarkLock, Select, Trial, Unlock, HasPython, callVars
      <4> QED
        BY <3>1, <4>1, <4>2
    <3> QED
      BY <3>2, <3>3, <3>4
  <2> QED
    BY <2>1, <2>2 DEF Next
<1> QED
  BY <1>1, <1>2, BridgeIsSound, PTL DEF Spec
=============================================================================
