-------------------------- MODULE LaunchHooksProofs -------------------------
(***************************************************************************)
(* Proofs about LaunchHooks, for any number of threads, callbacks and       *)
(* addresses: the inductive invariant, and that the setters implement the   *)
(* atomic register of HookRegister although they copy, retry and reuse      *)
(* addresses.                                                               *)
(***************************************************************************)
EXTENDS LaunchHooks, TLAPS

LEMMA EmptyState == NoHooks \in HooksState
  BY DEF NoHooks, HooksState, Callback

LEMMA AppliedType ==
  ASSUME NEW u \in Update, NEW state \in HooksState
  PROVE  Applied(u, state) \in HooksState
  BY DEF Applied, HooksState, Update

LEMMA ValueType ==
  ASSUME TypeOK, NEW p \in Pointers
  PROVE  Value(p) \in HooksState
  BY EmptyState DEF Value, TypeOK, Pointers

\* Owning an address is being one of the four kinds of pointer.
LEMMA OwnedPointers ==
  ASSUME NEW t \in Threads
  PROVE  /\ cell \in Owned
         /\ {hooks[t], current[t], desired[t]} \subseteq Owned
  BY DEF Owned

LEMMA InvInit == Init => HooksInv
<1> SUFFICES ASSUME Init PROVE HooksInv
  OBVIOUS
<1>1. TypeOK
  BY EmptyState DEF Init, TypeOK, Pointers
<1>2. CallsMatch /\ CopyIsPrivate /\ PublishedIsSeen
  BY DEF Init, CallsMatch, CopyIsPrivate, PublishedIsSeen
<1> QED
  BY <1>1, <1>2 DEF HooksInv

-----------------------------------------------------------------------------
(* Types *)

LEMMA SetterTypes ==
  ASSUME TypeOK, CallsMatch, NEW t \in Threads, Set(t) \/ SetterStep(t) \/ Clear(t)
  PROVE  TypeOK'
<1>1. CASE Set(t)
  BY <1>1 DEF Set, TypeOK, cellVars, launchVars
<1>2. CASE Copy(t)
  <2>1. update[t] \in Update
    BY <1>2 DEF Copy, TypeOK, CallsMatch
  <2>2. Applied(update[t], Value(current[t])) \in HooksState
    BY <2>1, AppliedType, ValueType DEF TypeOK
  <2> QED
    BY <1>2, <2>2 DEF Copy, TypeOK, launchVars, Pointers
<1>3. CASE ExchangeSucceeds(t) \/ Clear(t)
  <2>1. cell' \in Pointers /\ memory' = memory
    BY <1>3 DEF ExchangeSucceeds, Clear, TypeOK, Pointers
  <2>2. Value(cell)' \in HooksState
    BY <2>1, EmptyState DEF Value, TypeOK, Pointers
  <2>3. seen' \in [Threads -> SUBSET HooksState]
    BY <1>3, <2>2 DEF ExchangeSucceeds, Clear, Witness, TypeOK
  <2> QED
    BY <1>3, <2>1, <2>3 DEF ExchangeSucceeds, Clear, TypeOK, setterVars, launchVars, Pointers
<1>4. CASE ExchangeFails(t)
  BY <1>4 DEF ExchangeFails, Reloaded, TypeOK, cellVars, launchVars, Pointers
<1> QED
  BY <1>1, <1>2, <1>3, <1>4 DEF SetterStep

LEMMA LaunchTypes ==
  ASSUME TypeOK, NEW t \in Threads, LaunchStep(t)
  PROVE  TypeOK' /\ UNCHANGED <<cellVars, setterVars>>
<1> USE DEF TypeOK, cellVars, setterVars
<1>1. CASE Launch(t)
  <2>1. Value(cell) \in HooksState
    BY ValueType
  <2> QED
    BY <1>1, <2>1, EmptyState DEF Launch
<1>2. CASE PrepareThrows(t) \/ CallbackThrows(t) \/ SubmitThrows(t) \/ ExitReturns(t)
  BY <1>2 DEF PrepareThrows, CallbackThrows, SubmitThrows, ExitReturns, Return, Pointers
<1>3. CASE Snapshot(t)
  <2>1. Value(cell).enter \in Callback
    BY ValueType DEF HooksState
  <2> QED
    BY <1>3, <2>1 DEF Snapshot, HooksState
<1>4. CASE EnterReturns(t)
  BY <1>4 DEF EnterReturns
<1>5. CASE Submit(t)
  <2>1. ExitHook(t) \in Callback
    BY ValueType DEF ExitHook, HooksState
  <2>2. CASE ExitHook(t) = None
    BY <1>5, <2>2 DEF Submit, Return, Pointers
  <2>3. CASE ExitHook(t) # None
    <3>1. [ran EXCEPT ![t].exit = ExitHook(t)] \in [Threads -> HooksState]
      BY <2>1 DEF HooksState
    <3> QED
      BY <1>5, <2>3, <3>1 DEF Submit
  <2> QED
    BY <2>2, <2>3
<1> QED
  BY <1>1, <1>2, <1>3, <1>4, <1>5 DEF LaunchStep

-----------------------------------------------------------------------------
(* The copy of a setter stays its own until it is exchanged. *)

\* A launch only takes the published pointer as its snapshot, or drops it.
LEMMA LaunchKeepsCopies ==
  ASSUME HooksInv, NEW t \in Threads, LaunchStep(t)
  PROVE  CopyIsPrivate'
<1> USE DEF HooksInv
<1>1. UNCHANGED <<cellVars, setterVars>>
  BY LaunchTypes
<1>2. \A u \in Threads : hooks'[u] \in {hooks[u], cell, None}
  BY DEF LaunchStep, Launch, PrepareThrows, Snapshot, EnterReturns, CallbackThrows,
         SubmitThrows, Submit, ExitReturns, Return, TypeOK
<1> QED
  BY <1>1, <1>2 DEF CopyIsPrivate, Value, cellVars, setterVars

LEMMA SetterKeepsCopies ==
  ASSUME HooksInv, NEW t \in Threads, Set(t) \/ SetterStep(t) \/ Clear(t)
  PROVE  CallsMatch' /\ CopyIsPrivate'
<1> USE DEF HooksInv
<1>1. CASE Set(t)
  <2>1. CallsMatch'
    BY <1>1, CallAssumption DEF Set, CallsMatch, TypeOK, Update, Callback
  <2>2. CopyIsPrivate'
    BY <1>1, SMTT(40) DEF Set, CopyIsPrivate, TypeOK, Value, Applied, cellVars, launchVars
  <2> QED
    BY <2>1, <2>2
<1>2. CASE Copy(t)
  <2> DEFINE next == Applied(update[t], Value(current[t]))
  <2>1. CallsMatch'
    BY <1>2 DEF Copy, CallsMatch, TypeOK
  <2>2. UNCHANGED <<cell, update, current, hooks>> /\ stage' = [stage EXCEPT ![t] = "exchange"]
    BY <1>2 DEF Copy, launchVars
  <2>3. CASE next = NoHooks
    <3>1. desired' = [desired EXCEPT ![t] = None] /\ UNCHANGED memory
      BY <1>2, <2>3 DEF Copy
    <3>2. ASSUME NEW u \in Threads, stage'[u] = "exchange", u # t
          PROVE  stage[u] = "exchange" /\ desired'[u] = desired[u]
      BY <2>2, <3>1, <3>2 DEF TypeOK
    <3>3. \A v \in Threads : desired'[v] \in {desired[v], None}
      BY <3>1 DEF TypeOK
    <3>4. desired'[t] = None /\ Applied(update[t], Value(current[t])) = NoHooks
      BY <2>3, <3>1 DEF TypeOK
    <3>5. SUFFICES ASSUME NEW u \in Threads, stage'[u] = "exchange"
                   PROVE  (/\ Value(desired[u]) = Applied(update[u], Value(current[u]))
                           /\ desired[u] # None =>
                                /\ desired[u] \notin {cell, hooks[u], current[u]}
                                /\ \A v \in Threads \ {u} :
                                     desired[u] \notin {desired[v], current[v], hooks[v]})'
      BY <2>1 DEF CopyIsPrivate
    <3>6. CASE u = t
      BY <2>2, <3>1, <3>4, <3>6 DEF Value
    <3>7. CASE u # t
      <4>1. stage[u] = "exchange" /\ desired'[u] = desired[u]
        BY <3>2, <3>5, <3>7
      <4>2. (Value(desired[u]))' = Value(desired[u]) /\ (Value(current[u]))' = Value(current[u])
        BY <2>2, <3>1, <4>1 DEF Value
      <4> QED
        BY <2>2, <3>3, <4>1, <4>2 DEF CopyIsPrivate
    <3> QED
      BY <3>6, <3>7
  <2>4. CASE next # NoHooks
    <3> DEFINE After(p) == IF p = None THEN NoHooks ELSE memory'[p]
    <3>1. PICK a \in Addresses \ Owned :
            /\ memory' = [memory EXCEPT ![a] = next]
            /\ desired' = [desired EXCEPT ![t] = a]
      BY <1>2, <2>4 DEF Copy
    <3>2. a # None /\ a # cell
      BY NullAssumption, OwnedPointers
    <3>3. \A u \in Threads : a # hooks[u] /\ a # current[u] /\ a # desired[u]
      BY OwnedPointers
    <3>4. \A p \in Pointers : p # a => After(p) = Value(p)
      BY <3>1 DEF Value, TypeOK, Pointers
    <3>5. After(a) = next
      BY <3>1, <3>2 DEF TypeOK
    <3>6. \A v \in Threads : desired'[v] = IF v = t THEN a ELSE desired[v]
      BY <3>1 DEF TypeOK
    <3>7. \A v \in Threads : After(current[v]) = Value(current[v])
      BY <3>3, <3>4 DEF TypeOK
    <3> HIDE DEF After, next
    <3>8. ASSUME NEW u \in Threads, stage'[u] = "exchange"
          PROVE  /\ After(desired'[u]) = Applied(update[u], After(current[u]))
                 /\ desired'[u] # None =>
                      /\ desired'[u] \notin {cell, hooks[u], current[u]}
                      /\ \A v \in Threads \ {u} : desired'[u] \notin {desired'[v], current[v], hooks[v]}
      <4>1. CASE u = t
        <5>1. desired'[u] = a
          BY <4>1, <3>6
        <5>2. After(desired'[u]) = Applied(update[u], After(current[u]))
          BY <4>1, <5>1, <3>5, <3>7 DEF next
        <5>3. \A v \in Threads \ {u} : desired'[v] = desired[v]
          BY <4>1, <3>6
        <5> QED
          BY <5>1, <5>2, <5>3, <3>2, <3>3
      <4>2. CASE u # t
        <5>1. stage[u] = "exchange"
          BY <4>2, <2>2, <3>8 DEF TypeOK
        <5>2. desired'[u] = desired[u] /\ desired[u] # a
          BY <4>2, <3>3, <3>6
        <5>3. After(desired'[u]) = Applied(update[u], After(current[u]))
          <6>1. After(desired[u]) = Value(desired[u])
            BY <5>2, <3>4 DEF TypeOK
          <6> QED
            BY <6>1, <5>1, <5>2, <3>7 DEF CopyIsPrivate
        <5>4. desired[u] # None =>
                /\ desired[u] \notin {cell, hooks[u], current[u]}
                /\ \A v \in Threads \ {u} : desired[u] \notin {desired[v], current[v], hooks[v]}
          BY <5>1 DEF CopyIsPrivate
        <5> QED
          BY <5>2, <5>3, <5>4, <3>6
      <4> QED
        BY <4>1, <4>2
    <3>9. SUFFICES ASSUME NEW u \in Threads, stage'[u] = "exchange"
                   PROVE  (/\ Value(desired[u]) = Applied(update[u], Value(current[u]))
                           /\ desired[u] # None =>
                                /\ desired[u] \notin {cell, hooks[u], current[u]}
                                /\ \A v \in Threads \ {u} :
                                     desired[u] \notin {desired[v], current[v], hooks[v]})'
      BY <2>1 DEF CopyIsPrivate
    <3>10. (Value(desired[u]))' = After(desired'[u]) /\ (Value(current[u]))' = After(current'[u])
      BY DEF Value, After
    <3>11. /\ After(desired'[u]) = Applied(update'[u], After(current'[u]))
           /\ desired'[u] # None =>
                /\ desired'[u] \notin {cell', hooks'[u], current'[u]}
                /\ \A v \in Threads \ {u} : desired'[u] \notin {desired'[v], current'[v], hooks'[v]}
      BY <2>2, <3>8, <3>9
    <3> QED
      BY <3>10, <3>11
  <2> QED
    BY <2>1, <2>3, <2>4
<1>3. CASE ExchangeSucceeds(t)
  <2>1. CallsMatch'
    BY <1>3 DEF ExchangeSucceeds, CallsMatch, TypeOK
  <2>2. UNCHANGED <<memory, hooks>>
    BY <1>3 DEF ExchangeSucceeds, launchVars
  <2>3. ASSUME NEW u \in Threads, stage'[u] = "exchange"
        PROVE  /\ u # t /\ stage[u] = "exchange"
               /\ desired'[u] = desired[u] /\ current'[u] = current[u] /\ update'[u] = update[u]
    BY <1>3, <2>3 DEF ExchangeSucceeds, TypeOK
  <2>4. \A u \in Threads : desired'[u] \in {desired[u], None} /\ current'[u] \in {current[u], None}
    BY <1>3 DEF ExchangeSucceeds, TypeOK
  <2>5. cell' = desired[t]
    BY <1>3 DEF ExchangeSucceeds
  <2>6. CopyIsPrivate'
    BY <2>2, <2>3, <2>4, <2>5 DEF CopyIsPrivate, Value
  <2> QED
    BY <2>1, <2>6
<1>4. CASE ExchangeFails(t)
  <2>1. CallsMatch'
    BY <1>4 DEF ExchangeFails, CallsMatch, TypeOK
  <2>2. UNCHANGED <<cell, memory, update, hooks>>
    BY <1>4 DEF ExchangeFails, cellVars, launchVars
  <2>3. ASSUME NEW u \in Threads, stage'[u] = "exchange"
        PROVE  /\ u # t /\ stage[u] = "exchange"
               /\ desired'[u] = desired[u] /\ current'[u] = current[u]
    BY <1>4, <2>3 DEF ExchangeFails, TypeOK
  <2>4. \A u \in Threads : desired'[u] \in {desired[u], None} /\ current'[u] \in {current[u], cell}
    BY <1>4 DEF ExchangeFails, Reloaded, TypeOK
  <2>5. CopyIsPrivate'
    BY <2>2, <2>3, <2>4 DEF CopyIsPrivate, Value
  <2> QED
    BY <2>1, <2>5
<1>5. CASE Clear(t)
  BY <1>5 DEF Clear, CallsMatch, CopyIsPrivate, Value, setterVars, launchVars
<1> QED
  BY <1>1, <1>2, <1>3, <1>4, <1>5 DEF SetterStep

\* A copy is not made where the published state is.
LEMMA CopyKeepsPublished ==
  ASSUME TypeOK, NEW t \in Threads, Copy(t)
  PROVE  cell' = cell /\ (Value(cell))' = Value(cell)
<1>1. \A a \in Addresses \ Owned : a # cell
  BY OwnedPointers
<1>2. cell # None => memory'[cell] = memory[cell]
  BY <1>1 DEF Copy, TypeOK, Pointers
<1> QED
  BY <1>2 DEF Copy, Value

LEMMA PublishedStaysSeen ==
  ASSUME HooksInv, NEW t \in Threads, Set(t) \/ SetterStep(t) \/ Clear(t) \/ LaunchStep(t)
  PROVE  PublishedIsSeen'
<1> USE DEF HooksInv
<1>1. CASE Set(t) \/ ExchangeFails(t)
  BY <1>1 DEF Set, ExchangeFails, PublishedIsSeen, Value, cellVars, launchVars
<1>2. CASE Copy(t)
  BY <1>2, CopyKeepsPublished DEF Copy, PublishedIsSeen, launchVars
<1>3. CASE ExchangeSucceeds(t) \/ Clear(t)
  BY <1>3 DEF ExchangeSucceeds, Clear, Witness, PublishedIsSeen, launchVars
<1>4. CASE LaunchStep(t)
  <2>1. (Value(cell))' = Value(cell)
    BY <1>4, LaunchTypes DEF cellVars, Value
  <2>2. \A u \in Threads : pc'[u] # "idle" => (pc[u] # "idle" /\ seen'[u] = seen[u]) \/ Value(cell) \in seen'[u]
    BY <1>4 DEF LaunchStep, Launch, PrepareThrows, Snapshot, EnterReturns, CallbackThrows,
                SubmitThrows, Submit, ExitReturns, Return, TypeOK
  <2> QED
    BY <2>1, <2>2 DEF PublishedIsSeen
<1> QED
  BY <1>1, <1>2, <1>3, <1>4 DEF SetterStep

LEMMA InvStep == HooksInv /\ [Next]_vars => HooksInv'
<1> SUFFICES ASSUME HooksInv, [Next]_vars PROVE HooksInv'
  OBVIOUS
<1>1. CASE UNCHANGED vars
  BY <1>1 DEF HooksInv, TypeOK, CallsMatch, CopyIsPrivate, PublishedIsSeen, Value, vars, cellVars, setterVars, launchVars
<1>2. ASSUME NEW t \in Threads, Set(t) \/ SetterStep(t) \/ Clear(t)
      PROVE  HooksInv'
  BY <1>2, SetterTypes, SetterKeepsCopies, PublishedStaysSeen DEF HooksInv
<1>3. ASSUME NEW t \in Threads, LaunchStep(t)
      PROVE  HooksInv'
  <2>1. CallsMatch'
    BY <1>3, LaunchTypes DEF HooksInv, CallsMatch, setterVars
  <2> QED
    BY <1>3, <2>1, LaunchTypes, LaunchKeepsCopies, PublishedStaysSeen DEF HooksInv
<1> QED
  BY <1>1, <1>2, <1>3 DEF Next

\* In every behaviour the types hold, and a setter about to exchange has the
\* state it read with its side changed, at an address of its own
\* (update_launch_hooks).
THEOREM HooksCorrect == Spec => []HooksInv
  BY InvInit, InvStep, PTL DEF Spec

-----------------------------------------------------------------------------
(* The setters implement the register. *)

LEMMA RegisterInit == Init => Register!Init
  BY DEF Init, Register!Init, Register!NoHooks, Value, NoHooks

LEMMA RegisterStep == HooksInv /\ [Next]_vars => [Register!Next]_(Register!registerVars)
<1> SUFFICES ASSUME HooksInv, [Next]_vars PROVE [Register!Next]_(Register!registerVars)
  OBVIOUS
<1> USE DEF HooksInv
<1>1. CASE UNCHANGED vars
  BY <1>1 DEF vars, cellVars, setterVars, Value, Register!registerVars
<1>2. ASSUME NEW t \in Threads, Set(t) PROVE Register!Ask(t)
  <2>1. update[t] = None /\ UNCHANGED <<cell, memory>>
    BY <1>2 DEF Set, CallsMatch, cellVars
  <2>2. PICK u \in Update : update' = [update EXCEPT ![t] = u]
    BY <1>2 DEF Set
  <2> QED
    BY <2>1, <2>2 DEF Register!Ask, Register!Calls, Update, Callback, Value
<1>3. ASSUME NEW t \in Threads, Copy(t) PROVE UNCHANGED Register!registerVars
  BY <1>3, CopyKeepsPublished DEF Copy, Register!registerVars
<1>4. ASSUME NEW t \in Threads, ExchangeSucceeds(t) PROVE Register!Serve(t)
  <2>1. update[t] # None /\ update' = [update EXCEPT ![t] = None]
    BY <1>4 DEF ExchangeSucceeds, CallsMatch
  <2>2. Value(cell)' = Value(desired[t])
    BY <1>4 DEF ExchangeSucceeds, Value
  <2>3. Value(desired[t]) = Applied(update[t], Value(cell))
    BY <1>4 DEF ExchangeSucceeds, StillCurrent, CopyIsPrivate
  <2> QED
    BY <2>1, <2>2, <2>3 DEF Register!Serve, Applied
<1>5. ASSUME NEW t \in Threads, ExchangeFails(t) PROVE UNCHANGED Register!registerVars
  BY <1>5 DEF ExchangeFails, cellVars, Value, Register!registerVars
<1>6. ASSUME NEW t \in Threads, Clear(t) PROVE Register!ClearAll
  BY <1>6 DEF Clear, setterVars, Value, NoHooks, Register!ClearAll, Register!NoHooks
<1>7. ASSUME NEW t \in Threads, LaunchStep(t) PROVE UNCHANGED Register!registerVars
  BY <1>7, LaunchTypes DEF cellVars, setterVars, Value, Register!registerVars
<1> QED
  BY <1>1, <1>2, <1>3, <1>4, <1>5, <1>6, <1>7 DEF Next, SetterStep, Register!Next

\* Concurrent setters never lose an update: the published hooks are an atomic
\* register, for any number of threads, retries and reused addresses
\* (update_launch_hooks, clear_launch_hooks).
THEOREM AtomicSetters == Spec => SettersAreAtomic
<1>1. Spec => []HooksInv
  BY HooksCorrect
<1> QED
  BY <1>1, RegisterInit, RegisterStep, PTL DEF Spec, SettersAreAtomic, Register!Spec

-----------------------------------------------------------------------------
(* A launch runs one published state. *)

\* What an action leaves alone of the launches it is not a step of.
LEMMA OtherLaunches ==
  ASSUME HooksInv, LaunchRunsOneState, NEW t \in Threads,
         UNCHANGED launchVars,
         pc[t] \in {"enter", "submit", "exit"},
         seen[t] \subseteq seen'[t],
         hooks[t] # None => memory'[hooks[t]] = memory[hooks[t]]
  PROVE  \E state \in seen'[t] :
           /\ ran'[t].enter = state.enter
           /\ (Value(hooks[t]))' = state
           /\ pc'[t] = "exit" => ran'[t].exit = state.exit
  BY DEF LaunchRunsOneState, Value, launchVars

LEMMA SetterKeepsLaunches ==
  ASSUME HooksInv, LaunchRunsOneState, NEW t \in Threads, Set(t) \/ SetterStep(t) \/ Clear(t)
  PROVE  LaunchRunsOneState'
<1>1. UNCHANGED launchVars
  BY DEF SetterStep, Set, Copy, ExchangeSucceeds, ExchangeFails, Clear
<1>2. \A u \in Threads : pc[u] # "idle" => seen[u] \subseteq seen'[u]
  BY DEF SetterStep, Set, Copy, ExchangeSucceeds, ExchangeFails, Clear, Witness
<1>3. \A u \in Threads : hooks[u] # None => memory'[hooks[u]] = memory[hooks[u]]
  <2>1. CASE Copy(t)
    <3>1. \A u \in Threads, a \in Addresses \ Owned : a # hooks[u]
      BY OwnedPointers
    <3> QED
      BY <2>1, <3>1 DEF Copy, HooksInv, TypeOK, Pointers
  <2>2. CASE ~Copy(t)
    BY <2>2 DEF SetterStep, Set, ExchangeSucceeds, ExchangeFails, Clear, cellVars
  <2> QED
    BY <2>1, <2>2
<1> QED
  BY <1>1, <1>2, <1>3, OtherLaunches DEF LaunchRunsOneState, launchVars

LEMMA LaunchKeepsLaunches ==
  ASSUME HooksInv, LaunchRunsOneState, NEW t \in Threads, LaunchStep(t)
  PROVE  LaunchRunsOneState'
<1> USE DEF HooksInv, TypeOK
<1>1. UNCHANGED <<cell, memory>>
  BY LaunchTypes DEF cellVars
<1>2. ASSUME NEW u \in Threads, pc'[u] \in {"enter", "submit", "exit"}
      PROVE  \E state \in seen'[u] :
               /\ ran'[u].enter = state.enter
               /\ (Value(hooks[u]))' = state
               /\ pc'[u] = "exit" => ran'[u].exit = state.exit
  <2>1. CASE u # t
    <3>1. /\ pc'[u] = pc[u] /\ hooks'[u] = hooks[u] /\ ran'[u] = ran[u] /\ seen'[u] = seen[u]
      BY <2>1 DEF LaunchStep, Launch, PrepareThrows, Snapshot, EnterReturns, CallbackThrows,
                  SubmitThrows, Submit, ExitReturns, Return
    <3> QED
      BY <1>1, <1>2, <3>1 DEF LaunchRunsOneState, Value
  <2>2. CASE u = t /\ (Launch(t) \/ PrepareThrows(t) \/ CallbackThrows(t) \/ SubmitThrows(t) \/ ExitReturns(t))
    BY <1>2, <2>2 DEF Launch, PrepareThrows, CallbackThrows, SubmitThrows, ExitReturns, Return
  <2>3. CASE u = t /\ Snapshot(t)
    <3>1. /\ hooks'[t] = cell /\ ran'[t].enter = Value(cell).enter /\ seen' = seen
          /\ pc'[t] # "exit"
      BY <2>3 DEF Snapshot, HooksState
    <3>2. Value(cell) \in seen[t]
      BY <2>3 DEF Snapshot, PublishedIsSeen
    <3> QED
      BY <1>1, <2>3, <3>1, <3>2 DEF Value
  <2>4. CASE u = t /\ EnterReturns(t)
    BY <1>1, <2>4 DEF EnterReturns, LaunchRunsOneState, Value
  <2>5. CASE u = t /\ Submit(t)
    <3>1. PICK state \in seen[t] : ran[t].enter = state.enter /\ Value(hooks[t]) = state
      BY <2>5 DEF Submit, LaunchRunsOneState
    <3>2. /\ hooks' = hooks /\ seen' = seen
          /\ ran'[t].enter = ran[t].enter /\ ran'[t].exit = Value(hooks[t]).exit
      BY <1>2, <2>5 DEF Submit, Return, ExitHook, HooksState
    <3> QED
      BY <1>1, <2>5, <3>1, <3>2 DEF Value
  <2> QED
    BY <2>1, <2>2, <2>3, <2>4, <2>5 DEF LaunchStep
<1> QED
  BY <1>2 DEF LaunchRunsOneState

\* The enter and the exit hook of a launch come from one state that was
\* published while the launch was under way, for any setters, clears and
\* callbacks around it (launch_with_signature).
THEOREM OneStatePerLaunch == Spec => []LaunchRunsOneState
<1>1. Init => LaunchRunsOneState
  BY DEF Init, LaunchRunsOneState
<1>2. HooksInv /\ LaunchRunsOneState /\ [Next]_vars => LaunchRunsOneState'
  <2> SUFFICES ASSUME HooksInv, LaunchRunsOneState, [Next]_vars PROVE LaunchRunsOneState'
    OBVIOUS
  <2>1. CASE UNCHANGED vars
    BY <2>1 DEF LaunchRunsOneState, Value, vars, cellVars, launchVars
  <2> QED
    BY <2>1, SetterKeepsLaunches, LaunchKeepsLaunches DEF Next
<1> QED
  BY <1>1, <1>2, HooksCorrect, PTL DEF Spec
=============================================================================
