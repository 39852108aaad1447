-------------------------- MODULE TunedTableProofs --------------------------
(***************************************************************************)
(* Safety of the tuned table for any number of threads, slots, keys,        *)
(* schemas and files, and for every bound on the calls: the table itself;   *)
(* then resolve(), whose single-flight protocol has one owner per pending   *)
(* token and no waiter without an owner that is still to fulfil, and the     *)
(* answers owners and waiters are given; the freeze check; and the          *)
(* refinement that shows readers an append-only cache of answers.           *)
(***************************************************************************)
EXTENDS TunedTable, TLAPS

\* What a step reads of one slot of the snapshot.
LEMMA TableType ==
  ASSUME TypeOK, NEW table \in Table, table # NoTable
  PROVE  table.schema \in Schemas /\ table.offline \in Nat /\ table.online \in Nat
  BY DEF Table

\* There is one row nearest the head of a list, as a key has one row in it.
LEMMA NewestIsRow ==
  ASSUME entries \subseteq Entry, OneRowPerKey, NEW table, NEW key, NEW home,
         RowsFor(home, table, key) # {}
  PROVE  Newest(RowsFor(home, table, key)) \in RowsFor(home, table, key)
<1>1. PICK e \in RowsFor(home, table, key) : TRUE
  OBVIOUS
<1>2. \A f \in RowsFor(home, table, key) : f = e
  BY <1>1 DEF RowsFor, OneRowPerKey
<1>3. e.at \in Nat
  BY <1>1 DEF RowsFor, Entry
<1>4. \A f \in RowsFor(home, table, key) : f.at <= e.at
  BY <1>2, <1>3
<1>5. QED
  BY <1>1, <1>4 DEF Newest

\* A search finds a row of the table it reads, or nothing. 
LEMMA LookupFindsRow ==
  ASSUME entries \subseteq Entry, OneRowPerKey, NEW table, NEW key,
         Lookup(table, key) # None
  PROVE  /\ table # NoTable
         /\ Lookup(table, key) \in entries
         /\ Lookup(table, key).home \in {table.online, table.offline}
         /\ Lookup(table, key).key = Norm[table.schema][key]
<1>1. \A home : RowsFor(home, table, key) # {} =>
        Newest(RowsFor(home, table, key)) \in RowsFor(home, table, key)
  BY NewestIsRow
<1>2. QED
  BY <1>1 DEF Lookup, RowsFor

\* A miss means that neither the online list nor the file has the key.
LEMMA MissHasNoRow ==
  ASSUME entries \subseteq Entry, OneRowPerKey,
         NEW table, NEW key, table # NoTable, Lookup(table, key) = None
  PROVE  RowsFor(table.online, table, key) = {} /\ RowsFor(table.offline, table, key) = {}
<1>1. \A home : RowsFor(home, table, key) # {} =>
        Newest(RowsFor(home, table, key)) \in RowsFor(home, table, key)
  BY NewestIsRow
<1>2. \A home : RowsFor(home, table, key) \subseteq Entry
  BY DEF RowsFor
<1>3. None \notin Entry
  BY NoneAssumption
<1>4. QED
  BY <1>1, <1>2, <1>3 DEF Lookup

-----------------------------------------------------------------------------
(* Types.                                                                    *)

\* A step of resolve() that only moves one thread on, with a result in hand.
LEMMA LeaveType ==
  ASSUME TypeOK, NEW t \in Threads, NEW from, NEW to \in {"idle", "load"} \cup Resolving,
         NEW v \in Entry \cup {None, Raised, FrozenMiss}, Leave(t, from, to, v)
  PROVE  /\ pc' \in [Threads -> {"idle", "load"} \cup Resolving]
         /\ out' \in [Threads -> Entry \cup {None, Raised, FrozenMiss}]
         /\ pc[t] = from /\ pc'[t] = to
         /\ \A u \in Threads \ {t} : pc'[u] = pc[u] /\ out'[u] = out[u]
  BY DEF TypeOK, Leave, Goto

LEMMA LookupType ==
  ASSUME TypeOK, OneRowPerKey, NEW table, NEW key
  PROVE  Lookup(table, key) \in Entry \cup {None, Raised, FrozenMiss}
  BY LookupFindsRow DEF TypeOK

LEMMA ResolveType ==
  ASSUME TypeOK, NEW t \in Threads, NEW k \in Kernels, NEW key \in Keys, Resolve(t, k, key)
  PROVE  TypeOK'
<1>1. Identity[resolver][k] \in Cells
  BY IdentityAssumption DEF TypeOK
<1>2. Generation(snap[Identity[resolver][k]]) \in Nat
  BY <1>1 DEF TypeOK, Generation, Table, NoTable
<1>3. QED
  BY <1>1, <1>2, NoneAssumption DEF TypeOK, Resolve, Leave, Goto, Request, store, policy, Owning, Resolving

LEMMA FindType ==
  ASSUME TypeOK, OneRowPerKey, NEW t \in Threads,
         FindKernel(t) \/ Search(t) \/ RefindKernel(t) \/ Research(t)
  PROVE  TypeOK'
<1>1. pc[t] \in Resolving => req[t].cell \in Cells
  BY DEF TypeOK, Request
<1>2. Lookup(tbl[t], req[t].key) \in Entry \cup {None, Raised, FrozenMiss}
  BY LookupType
<1>3. CASE FindKernel(t) \/ RefindKernel(t)
  BY <1>1, <1>3 DEF TypeOK, FindKernel, RefindKernel, Kernel, Goto, store, policy, calls,
     Owning, Resolving
<1>4. CASE Search(t) \/ Research(t)
  BY <1>2, <1>4 DEF TypeOK, Search, Research, Leave, Goto, store, policy, calls,
     Owning, Resolving
<1>5. QED
  BY <1>3, <1>4

LEMMA JoinType ==
  ASSUME TypeOK, NEW t \in Threads,
         (\E capturing \in BOOLEAN : RefuseIfFrozen(t, capturing)) \/ MakeToken(t) \/ JoinFlight(t)
  PROVE  TypeOK'
<1>1. CASE \E capturing \in BOOLEAN : RefuseIfFrozen(t, capturing)
  BY <1>1 DEF TypeOK, RefuseIfFrozen, Leave, Goto, store, policy, calls, Owning, Resolving
<1>2. CASE MakeToken(t)
  <2>1. req[t] \in Request
    BY <1>2 DEF MakeToken, Leave, Goto, TypeOK, Resolving
  <2>2. FlightKey(snap[req[t].cell], req[t].key) \in Norms \cup {BadWidth}
    BY <2>1, KeysAssumption, NormAssumption DEF FlightKey, TypeOK, Table, Request
  <2> DEFINE token == <<req[t].cell, FlightKey(snap[req[t].cell], req[t].key)>>
  <2>3. token[2] # BadWidth => token \in Tokens /\ token # None
    BY <2>1, <2>2, NoneAssumption DEF Tokens, Request
  <2>4. \/ tok' = tok /\ pc' = [pc EXCEPT ![t] = "idle"] /\ out' = [out EXCEPT ![t] = Raised]
        \/ /\ tok' = [tok EXCEPT ![t] = token] /\ pc' = [pc EXCEPT ![t] = "join"]
           /\ out' = out /\ token[2] # BadWidth
    BY <1>2 DEF MakeToken, Leave, Goto
  <2> HIDE DEF token
  <2>5. QED
    BY <1>2, <2>3, <2>4 DEF TypeOK, MakeToken, store, policy, calls, Owning, Resolving
<1>3. CASE JoinFlight(t)
  <2>1. tok[t] \in Tokens
    BY <1>3 DEF JoinFlight, Goto, TypeOK
  <2>2. QED
    BY <1>3, <2>1 DEF TypeOK, JoinFlight, PendingOwner, Goto, store, policy, calls, Owning,
       Resolving
<1>4. QED
  BY <1>1, <1>2, <1>3

LEMMA CallType ==
  ASSUME TypeOK, NEW t \in Threads, CallResolver(t)
  PROVE  TypeOK'
  BY NoneAssumption DEF TypeOK, CallResolver, ResolverDeclines, ResolverThrows,
     ResolverAnswers, Answer, Leave, Goto, store, policy, calls, Owning, Resolving

\* The storage a node goes to, and the table that is built around it.
LEMMA NodeType ==
  ASSUME TypeOK, NEW t \in Threads, AppendNode(t)
  PROVE  LET current == snap[req[t].cell]
         IN /\ req[t].cell \in Cells
            /\ ans[t].schema \in Schemas
            /\ current \in Table
            /\ RowKey(t) \in Norms
            /\ OnlineHome(current) \in Nat
            /\ OfflineHome(current) \in Nat
            /\ [home |-> OnlineHome(current), schema |-> ans[t].schema,
                 key |-> RowKey(t), at |-> allocs + 1] \in Entry
<1>1. pc[t] = "insert"
  BY DEF AppendNode, Leave, Goto
<1>2. req[t] \in Request /\ ans[t] \in Answer
  BY <1>1 DEF TypeOK, Owning, Resolving
<1>3. snap[req[t].cell] \in Table
  BY <1>2 DEF TypeOK, Request
<1>4. OnlineHome(snap[req[t].cell]) \in Nat /\ OfflineHome(snap[req[t].cell]) \in Nat
  BY <1>3 DEF OnlineHome, OfflineHome, Table, NoTable, TypeOK
<1>5. RowKey(t) \in Norms
  BY <1>2, KeysAssumption, NormAssumption
     DEF AppendNode, BadAnswer, RowKey, Request, Answer
<1>6. QED
  BY <1>2, <1>3, <1>4, <1>5 DEF Request, Answer, Entry, TypeOK

LEMMA InsertType ==
  ASSUME TypeOK, OneRowPerKey, NEW t \in Threads, InsertResolved(t)
  PROVE  TypeOK'
<1>1. CASE RejectAnswer(t)
  BY <1>1 DEF TypeOK, RejectAnswer, Leave, Goto, store, policy, calls, Owning, Resolving
<1>2. CASE KeepPublished(t)
  <2>1. Published(t) \in Entry \cup {None, Raised, FrozenMiss}
    BY LookupType DEF Published
  <2>2. QED
    BY <1>2, <2>1 DEF TypeOK, KeepPublished, Leave, Goto, store, policy, calls, Owning,
       Resolving
<1>3. CASE AppendNode(t)
  <2> DEFINE current == snap[req[t].cell]
             node == [home |-> OnlineHome(current), schema |-> ans[t].schema,
                      key |-> RowKey(t), at |-> allocs + 1]
             table == [schema |-> ans[t].schema, offline |-> OfflineHome(current),
                       online |-> OnlineHome(current)]
  <2>1. node \in Entry /\ table \in Table
    BY <1>3, NodeType DEF Table
  <2>2. /\ entries' = entries \cup {node} /\ tbl' = [tbl EXCEPT ![t] = table]
        /\ out' = [out EXCEPT ![t] = node] /\ pc[t] = "insert"
        /\ pc' = [pc EXCEPT ![t] = "publish"] /\ loadMu' = t /\ allocs' = allocs + 1
    BY <1>3 DEF AppendNode, Leave, Goto
  <2> HIDE DEF node, table
  <2>3. entries' \subseteq Entry /\ tbl' \in [Threads -> Table]
    BY <2>1, <2>2 DEF TypeOK
  <2>4. QED
    BY <1>3, <2>1, <2>2, <2>3 DEF TypeOK, AppendNode, policy, calls, Owning, Resolving
<1>4. QED
  BY <1>1, <1>2, <1>3 DEF InsertResolved

LEMMA FinishType ==
  ASSUME TypeOK, NEW t \in Threads, PublishResolved(t) \/ EraseFlight(t) \/ Fulfil(t)
  PROVE  TypeOK'
<1>1. CASE PublishResolved(t)
  BY <1>1 DEF TypeOK, PublishResolved, Goto, policy, calls, Owning, Resolving
<1>2. CASE EraseFlight(t)
  BY <1>2 DEF TypeOK, EraseFlight, Goto, store, policy, calls, Owning, Resolving
<1>3. CASE Fulfil(t)
  BY <1>3 DEF TypeOK, Fulfil, store, policy, calls, Owning, Resolving
<1>4. QED
  BY <1>1, <1>2, <1>3

\* The rows of a file, and the table that is published with them.
LEMMA LoadedType ==
  ASSUME TypeOK, NEW t \in Threads, NEW kernel \in todo[t], PublishLoaded(t, kernel)
  PROVE  TypeOK'
<1> DEFINE home == allocs + 1
           rows == {[home |-> home, schema |-> kernel.schema, key |-> k, at |-> home] :
                      k \in kernel.keys}
<1>1. kernel \in FileKernel
  BY DEF TypeOK
<1>2. home \in Nat /\ rows \subseteq Entry
  BY <1>1 DEF TypeOK, FileKernel, Entry
<1>3. LoadedTable(kernel, home) \in Table
  BY <1>1, <1>2 DEF LoadedTable, Table, FileKernel
<1>4. /\ entries' = entries \cup rows /\ allocs' = home
      /\ snap' = [snap EXCEPT ![kernel.cell] = LoadedTable(kernel, home)]
      /\ todo' = [todo EXCEPT ![t] = @ \ {kernel}]
  BY DEF PublishLoaded
<1> HIDE DEF home, rows
<1>5. QED
  BY <1>1, <1>2, <1>3, <1>4 DEF TypeOK, PublishLoaded, policy, calls, FileKernel

LEMMA EnvironmentType ==
  ASSUME TypeOK, Environment
  PROVE  TypeOK'
<1>1. CASE \E t \in Threads, k \in Kernels, key \in Keys : Resolve(t, k, key)
  BY <1>1, ResolveType
<1>2. CASE \E t \in Threads, f \in Files : LoadFile(t, f)
  BY <1>2, FilesAssumption DEF TypeOK, LoadFile, Goto, store, policy, Owning, Resolving
<1>3. CASE \E r \in Resolvers \cup {None} : SetResolver(r)
  BY <1>3 DEF TypeOK, SetResolver, store, calls
<1>4. CASE Freeze \/ Thaw
  BY <1>4 DEF TypeOK, Freeze, Thaw, store, calls
<1>5. CASE Clear
  BY <1>5 DEF TypeOK, Clear, Table, policy, calls
<1>6. QED
  BY <1>1, <1>2, <1>3, <1>4, <1>5 DEF Environment

LEMMA ThreadType ==
  ASSUME TypeOK, OneRowPerKey, NEW t \in Threads, ResolveStep(t) \/ LoadStep(t)
  PROVE  TypeOK'
<1>1. CASE ResolveStep(t)
  BY <1>1, FindType, JoinType, CallType, InsertType, FinishType DEF ResolveStep
<1>2. CASE LoadReturns(t)
  BY <1>2 DEF TypeOK, LoadReturns, Goto, store, policy, calls, Owning, Resolving
<1>3. CASE \E kernel \in todo[t] : PublishLoaded(t, kernel)
  BY <1>3, LoadedType
<1>4. QED
  BY <1>1, <1>2, <1>3 DEF LoadStep

-----------------------------------------------------------------------------
(* One row per key.                                                          *)

\* Steps that leave the published data and the mutex alone, and no thread enters
\* or leaves the critical section by them.
LEMMA OutsideMutex ==
  ASSUME TableInv, UNCHANGED <<store, loadMu>>,
         \A t \in Threads : pc[t] = "publish" <=> pc'[t] = "publish",
         \A t \in Threads : pc[t] = "publish" => tbl'[t] = tbl[t] /\ req'[t] = req[t]
  PROVE  (RowsAreUnique /\ MutexHeld /\ HomesApart /\ PendingExtends)'
<1>1. entries' = entries /\ allocs' = allocs /\ snap' = snap /\ loadMu' = loadMu
  BY DEF store
<1>2. RowsAreUnique' /\ HomesApart'
  BY <1>1 DEF TableInv, RowsAreUnique, OneRowPerKey, NoRowShadowed, HomesApart
<1>3. MutexHeld'
  BY <1>1 DEF TableInv, MutexHeld
<1>4. PendingExtends'
  BY <1>1 DEF TableInv, PendingExtends
<1>5. QED
  BY <1>2, <1>3, <1>4

\* The steps of resolve() that are not in the critical section.
LEMMA ResolveOutside ==
  ASSUME TableInv, NEW t \in Threads, ResolveStep(t), ~AppendNode(t), ~PublishResolved(t)
  PROVE  (RowsAreUnique /\ MutexHeld /\ HomesApart /\ PendingExtends)'
<1>1. UNCHANGED <<store, loadMu, req>> /\ \A u \in Threads \ {t} : tbl'[u] = tbl[u]
  BY DEF ResolveStep, FindKernel, RefindKernel, Kernel, Search, RefuseIfFrozen, MakeToken,
     JoinFlight, Research, CallResolver, ResolverDeclines, ResolverThrows, ResolverAnswers,
     InsertResolved, RejectAnswer, KeepPublished, EraseFlight, Fulfil, calls, TableInv, TypeOK
<1>2. pc[t] # "publish" /\ pc'[t] # "publish"
  BY DEF ResolveStep, FindKernel, RefindKernel, Kernel, Search, RefuseIfFrozen, MakeToken,
     JoinFlight, Research, CallResolver, ResolverDeclines, ResolverThrows, ResolverAnswers,
     InsertResolved, RejectAnswer, KeepPublished, EraseFlight, Fulfil, Told, Leave, Goto,
     TableInv, TypeOK
<1>3. \A u \in Threads : pc[u] = "publish" <=> pc'[u] = "publish"
  BY <1>2 DEF ResolveStep, FindKernel, RefindKernel, Kernel, Search, RefuseIfFrozen, MakeToken,
     JoinFlight, Research, CallResolver, ResolverDeclines, ResolverThrows, ResolverAnswers,
     InsertResolved, RejectAnswer, KeepPublished, EraseFlight, Fulfil, Told, Leave, Goto,
     TableInv, TypeOK
<1>4. QED
  BY <1>1, <1>2, <1>3, OutsideMutex

\* A node goes to a storage in which nothing has its key, and in front of a file
\* that has not either.
LEMMA AppendRow ==
  ASSUME TableInv, NEW t \in Threads, AppendNode(t)
  PROVE  (RowsAreUnique /\ MutexHeld /\ HomesApart /\ PendingExtends)'
<1> DEFINE cell == req[t].cell
           current == snap[cell]
           home == OnlineHome(current)
           node == [home |-> home, schema |-> ans[t].schema, key |-> RowKey(t), at |-> allocs + 1]
           table == [schema |-> ans[t].schema, offline |-> OfflineHome(current), online |-> home]
<1>1. /\ entries' = entries \cup {node} /\ tbl' = [tbl EXCEPT ![t] = table]
      /\ pc[t] = "insert" /\ pc' = [pc EXCEPT ![t] = "publish"]
      /\ loadMu = None /\ loadMu' = t /\ allocs' = allocs + 1
      /\ UNCHANGED <<snap, req>>
  BY DEF AppendNode, Leave, Goto, calls
<1>2. cell \in Cells /\ home \in Nat /\ node \in Entry /\ current \in Table
  BY NodeType DEF TableInv
<1>3. allocs \in Nat /\ entries \subseteq Entry /\ snap \in [Cells -> Table]
      /\ pc \in [Threads -> {"idle", "load"} \cup Resolving] /\ tbl \in [Threads -> Table]
  BY DEF TableInv, TypeOK
<1>4. \A d \in Cells : snap[d].online \in Nat /\ snap[d].offline \in Nat
  BY <1>3 DEF Table, NoTable
<1>5. /\ home \in 1 .. allocs + 1
      /\ \A d \in Cells : /\ snap[d].offline # home
                          /\ snap[d].online = home => d = cell
  <2>1. CASE current.online # 0
    BY <2>1, <1>2, <1>3, <1>4 DEF OnlineHome, TableInv, HomesApart
  <2>2. CASE current.online = 0
    BY <2>2, <1>2, <1>3, <1>4 DEF OnlineHome, TableInv, HomesApart
  <2>3. QED
    BY <2>1, <2>2
<1>6. \A e \in entries : e.home \in {home, current.offline} => e.key # node.key
  <2>1. CASE current = NoTable
    <3>1. home = allocs + 1 /\ current.offline = 0
      BY <2>1 DEF OnlineHome, NoTable
    <3>2. \A e \in entries : e.home \in Nat /\ 0 < e.home /\ e.home <= allocs
      BY <1>3 DEF TableInv, HomesApart, Entry
    <3>3. QED
      BY <3>1, <3>2, <1>3
  <2>2. CASE current # NoTable
    <3>1. current.schema = ans[t].schema /\ Lookup(current, req[t].key) = None
      BY <2>2 DEF AppendNode, Disagrees, Published
    <3>2. RowsFor(current.online, current, req[t].key) = {}
          /\ RowsFor(current.offline, current, req[t].key) = {}
      BY <2>2, <3>1, <1>3, MissHasNoRow DEF TableInv, RowsAreUnique
    <3>3. node.key = Norm[current.schema][req[t].key]
      BY <3>1 DEF RowKey
    <3>4. \A e \in entries : e.home \in {current.online, current.offline} => e.key # node.key
      BY <3>2, <3>3 DEF RowsFor
    <3>5. home = current.online \/ home = allocs + 1
      BY DEF OnlineHome
    <3>6. \A e \in entries : e.home # allocs + 1
      BY <1>3 DEF TableInv, HomesApart, Entry
    <3>7. QED
      BY <3>4, <3>5, <3>6
  <2>3. QED
    BY <2>1, <2>2
<1>7. /\ node.home = home /\ table # NoTable
      /\ table.online = home /\ table.offline = current.offline
      /\ cell = req[t].cell /\ current = snap[cell]
      /\ home = current.online \/ home = allocs + 1
  BY NodeType, NoneAssumption DEF OfflineHome, OnlineHome, NoTable, TableInv
<1> HIDE DEF node, table, home, current, cell
<1>8. RowsAreUnique'
  <2>1. OneRowPerKey'
    BY <1>1, <1>6, <1>7 DEF OneRowPerKey, TableInv, RowsAreUnique
  <2>2. NoRowShadowed'
    BY <1>1, <1>2, <1>5, <1>6, <1>7 DEF NoRowShadowed, TableInv, RowsAreUnique
  <2>3. QED
    BY <2>1, <2>2 DEF RowsAreUnique
<1>9. MutexHeld'
  BY <1>1, <1>3, NoneAssumption DEF MutexHeld, TableInv
<1>10. HomesApart'
  <2>1. \A e \in entries' : 0 < e.home /\ e.home <= allocs'
    BY <1>1, <1>3, <1>5, <1>7 DEF HomesApart, TableInv, Entry
  <2>2. \A c \in Cells : snap'[c].offline <= allocs' /\ snap'[c].online <= allocs'
    BY <1>1, <1>3, <1>4 DEF HomesApart, TableInv
  <2>3. QED
    BY <1>1, <2>1, <2>2 DEF HomesApart, TableInv
<1>11. PendingExtends'
  <2>1. \A u \in Threads : pc'[u] = "publish" => u = t
    BY <1>1, <1>3, NoneAssumption DEF MutexHeld, TableInv
  <2>2. tbl'[t] = table
    BY <1>1, <1>3
  <2>3. \A e, f \in entries' : e.home = home /\ f.home = current.offline => e.key # f.key
    <3>1. current.offline # home
      BY <1>2, <1>5, <1>7
    <3>2. \A e, f \in entries : e.home = home /\ f.home = current.offline => e.key # f.key
      <4>1. CASE home = current.online
        BY <4>1, <1>2, <1>7 DEF TableInv, RowsAreUnique, NoRowShadowed
      <4>2. CASE home = allocs + 1
        BY <4>2, <1>3 DEF TableInv, HomesApart, Entry
      <4>3. QED
        BY <4>1, <4>2, <1>7
    <3>3. QED
      BY <3>1, <3>2, <1>1, <1>6, <1>7
  <2>4. QED
    BY <2>1, <2>2, <2>3, <1>1, <1>5, <1>7 DEF PendingExtends
<1>12. QED
  BY <1>8, <1>9, <1>10, <1>11


\* The publication of that table changes one slot, to the table that was built.
LEMMA PublishRow ==
  ASSUME TableInv, NEW t \in Threads, PublishResolved(t)
  PROVE  (RowsAreUnique /\ MutexHeld /\ HomesApart /\ PendingExtends)'
<1> DEFINE cell == req[t].cell
<1>1. /\ entries' = entries /\ allocs' = allocs /\ tbl' = tbl /\ req' = req
      /\ pc[t] = "publish" /\ pc' = [pc EXCEPT ![t] = "erase"]
      /\ loadMu' = None /\ snap' = [snap EXCEPT ![cell] = tbl[t]]
  BY DEF PublishResolved, Goto, calls
<1>2. cell \in Cells
  BY <1>1 DEF TableInv, TypeOK, Request, Owning, Resolving
<1>3. /\ allocs \in Nat /\ snap \in [Cells -> Table] /\ tbl[t] \in Table
      /\ pc \in [Threads -> {"idle", "load"} \cup Resolving]
  BY DEF TableInv, TypeOK
<1>4. /\ tbl[t].online \in 1 .. allocs
      /\ tbl[t].offline = snap[cell].offline
      /\ \A d \in Cells : snap[d].offline # tbl[t].online
      /\ \A d \in Cells : snap[d].online = tbl[t].online => d = cell
      /\ \A e, f \in entries :
           e.home = tbl[t].online /\ f.home = tbl[t].offline => e.key # f.key
  BY <1>1 DEF TableInv, PendingExtends
<1>5. /\ snap'[cell] = tbl[t]
      /\ \A d \in Cells \ {cell} : snap'[d] = snap[d]
      /\ \A d \in Cells : snap'[d].offline = snap[d].offline
  BY <1>1, <1>2, <1>3, <1>4
<1> HIDE DEF cell
<1>6. RowsAreUnique'
  <2>1. OneRowPerKey'
    BY <1>1 DEF OneRowPerKey, TableInv, RowsAreUnique
  <2>2. ASSUME NEW c \in Cells, NEW e \in entries, NEW f \in entries,
               e.home = snap'[c].online, f.home = snap'[c].offline
        PROVE  e.key # f.key
    <3>1. CASE c = cell
      BY <2>2, <3>1, <1>4, <1>5
    <3>2. CASE c # cell
      BY <2>2, <3>2, <1>5 DEF TableInv, RowsAreUnique, NoRowShadowed
    <3>3. QED
      BY <3>1, <3>2
  <2>3. QED
    BY <2>1, <2>2, <1>1 DEF RowsAreUnique, NoRowShadowed
<1>7. \A u \in Threads : pc'[u] # "publish"
  BY <1>1, <1>3 DEF TableInv, MutexHeld
<1>8. MutexHeld'
  BY <1>1, <1>7, NoneAssumption DEF MutexHeld
<1>9. HomesApart'
  <2>1. \A c \in Cells : snap'[c].offline <= allocs /\ snap'[c].online <= allocs
    BY <1>2, <1>3, <1>4, <1>5 DEF TableInv, HomesApart
  <2>2. ASSUME NEW c \in Cells, NEW d \in Cells, snap'[c].online # 0
        PROVE  snap'[c].online # snap'[d].offline
               /\ (snap'[c].online = snap'[d].online => c = d)
    <3>1. CASE c = cell
      BY <2>2, <3>1, <1>4, <1>5
    <3>2. CASE c # cell
      BY <2>2, <3>2, <1>4, <1>5 DEF TableInv, HomesApart
    <3>3. QED
      BY <3>1, <3>2
  <2>3. QED
    BY <2>1, <2>2, <1>1 DEF TableInv, HomesApart
<1>10. PendingExtends'
  BY <1>7 DEF PendingExtends
<1>11. QED
  BY <1>6, <1>8, <1>9, <1>10

\* A kernel of a file brings a storage of its own, whose rows have distinct keys,
\* and no online one.
LEMMA PublishFile ==
  ASSUME TableInv, NEW t \in Threads, NEW kernel \in todo[t], PublishLoaded(t, kernel)
  PROVE  (RowsAreUnique /\ MutexHeld /\ HomesApart /\ PendingExtends)'
<1> DEFINE home == allocs + 1
           rows == {[home |-> home, schema |-> kernel.schema, key |-> k, at |-> home] :
                      k \in kernel.keys}
           table == LoadedTable(kernel, home)
<1>1. /\ entries' = entries \cup rows /\ allocs' = home
      /\ snap' = [snap EXCEPT ![kernel.cell] = table]
      /\ loadMu = None /\ UNCHANGED <<loadMu, pc, tbl, req>>
  BY DEF PublishLoaded, calls
<1>2. kernel.cell \in Cells
  BY DEF TableInv, TypeOK, FileKernel
<1>3. allocs \in Nat /\ entries \subseteq Entry /\ snap \in [Cells -> Table]
  BY DEF TableInv, TypeOK
<1>4. /\ table.offline = home /\ table.online = 0
      /\ snap'[kernel.cell] = table
      /\ \A d \in Cells \ {kernel.cell} : snap'[d] = snap[d]
  BY <1>1, <1>2, <1>3 DEF LoadedTable
<1>5. /\ \A e \in entries : e.home \in Nat /\ 0 < e.home /\ e.home <= allocs
      /\ \A d \in Cells : /\ snap[d].offline \in Nat /\ snap[d].offline <= allocs
                          /\ snap[d].online \in Nat /\ snap[d].online <= allocs
  BY <1>3 DEF TableInv, HomesApart, Entry, Table, NoTable
<1>6. /\ \A e \in rows : e.home = home
      /\ \A e, f \in rows : e.key = f.key => e = f
  OBVIOUS
<1>7. home \in Nat /\ home = allocs + 1
  BY <1>3
<1> HIDE DEF home, rows, table
<1>8. RowsAreUnique'
  <2>1. OneRowPerKey'
    BY <1>1, <1>3, <1>5, <1>6, <1>7 DEF OneRowPerKey, TableInv, RowsAreUnique
  <2>2. ASSUME NEW c \in Cells, NEW e \in entries', NEW f \in entries',
               e.home = snap'[c].online, f.home = snap'[c].offline
        PROVE  e.key # f.key
    <3>1. c # kernel.cell
      BY <2>2, <1>1, <1>3, <1>4, <1>5, <1>6, <1>7
    <3>2. snap'[c] = snap[c] /\ e \in entries /\ f \in entries
      BY <2>2, <3>1, <1>1, <1>3, <1>4, <1>5, <1>6, <1>7
    <3>3. QED
      BY <2>2, <3>2 DEF TableInv, RowsAreUnique, NoRowShadowed
  <2>3. QED
    BY <2>1, <2>2 DEF RowsAreUnique, NoRowShadowed
<1>9. \A u \in Threads : pc'[u] # "publish"
  BY <1>1, NoneAssumption DEF TableInv, MutexHeld
<1>10. MutexHeld'
  BY <1>1, <1>9, NoneAssumption DEF MutexHeld
<1>11. HomesApart'
  <2>1. \A e \in entries' : 0 < e.home /\ e.home <= allocs'
    BY <1>1, <1>3, <1>5, <1>6, <1>7
  <2>2. \A c \in Cells : snap'[c].offline <= allocs' /\ snap'[c].online <= allocs'
    BY <1>1, <1>3, <1>4, <1>5, <1>7
  <2>3. ASSUME NEW c \in Cells, NEW d \in Cells, snap'[c].online # 0
        PROVE  snap'[c].online # snap'[d].offline
               /\ (snap'[c].online = snap'[d].online => c = d)
    <3>1. c # kernel.cell /\ snap'[c] = snap[c]
      BY <2>3, <1>4
    <3>2. CASE d = kernel.cell
      BY <2>3, <3>1, <3>2, <1>3, <1>4, <1>5, <1>7
    <3>3. CASE d # kernel.cell
      BY <2>3, <3>1, <3>3, <1>4 DEF TableInv, HomesApart
    <3>4. QED
      BY <3>2, <3>3
  <2>4. QED
    BY <2>1, <2>2, <2>3 DEF HomesApart
<1>12. PendingExtends'
  BY <1>9 DEF PendingExtends
<1>13. QED
  BY <1>8, <1>10, <1>11, <1>12

\* The calls of other threads: only clear() touches the tables, and it leaves none.
LEMMA EnvironmentRows ==
  ASSUME TableInv, Environment
  PROVE  (RowsAreUnique /\ MutexHeld /\ HomesApart /\ PendingExtends)'
<1>1. CASE Clear
  <2>1. /\ entries' = {} /\ \A c \in Cells : snap'[c] = NoTable
        /\ \A u \in Threads : pc'[u] # "publish"
        /\ loadMu' = loadMu /\ pc' = pc /\ allocs' = allocs
    BY <1>1 DEF Clear
  <2>2. allocs \in Nat
    BY DEF TableInv, TypeOK
  <2>3. RowsAreUnique'
    BY <2>1 DEF RowsAreUnique, OneRowPerKey, NoRowShadowed
  <2>4. MutexHeld'
    BY <2>1 DEF TableInv, MutexHeld
  <2>5. HomesApart'
    BY <2>1, <2>2 DEF HomesApart, NoTable
  <2>6. PendingExtends'
    BY <2>1 DEF PendingExtends
  <2>7. QED
    BY <2>3, <2>4, <2>5, <2>6
<1>2. CASE \E t \in Threads, k \in Kernels, key \in Keys : Resolve(t, k, key)
  <2>1. PICK t \in Threads : \E k \in Kernels, key \in Keys : Resolve(t, k, key)
    BY <1>2
  <2>2. /\ UNCHANGED <<store, loadMu, tbl>> /\ pc[t] = "idle" /\ pc'[t] = "find"
        /\ \A u \in Threads \ {t} : pc'[u] = pc[u] /\ req'[u] = req[u]
    BY <2>1 DEF Resolve, Leave, Goto, TableInv, TypeOK
  <2>3. QED
    BY <2>2, OutsideMutex
<1>3. CASE \E t \in Threads, f \in Files : LoadFile(t, f)
  <2>1. PICK t \in Threads : \E f \in Files : LoadFile(t, f)
    BY <1>3
  <2>2. /\ UNCHANGED <<store, loadMu, tbl, req>> /\ pc[t] = "idle" /\ pc'[t] = "load"
        /\ \A u \in Threads \ {t} : pc'[u] = pc[u]
    BY <2>1 DEF LoadFile, Goto, TableInv, TypeOK
  <2>3. QED
    BY <2>2, OutsideMutex
<1>4. CASE (\E r \in Resolvers \cup {None} : SetResolver(r)) \/ Freeze \/ Thaw
  <2>1. UNCHANGED <<store, loadMu, tbl, req, pc>>
    BY <1>4 DEF SetResolver, Freeze, Thaw, calls
  <2>2. QED
    BY <2>1, OutsideMutex
<1>5. QED
  BY <1>1, <1>2, <1>3, <1>4 DEF Environment

LEMMA TableInvInit == Init => TableInv
<1> SUFFICES ASSUME Init PROVE TableInv
  OBVIOUS
<1>1. TypeOK
  BY DEF Init, TypeOK, Table, Tokens, Owning, Resolving
<1>2. RowsAreUnique /\ HomesApart
  BY DEF Init, RowsAreUnique, OneRowPerKey, NoRowShadowed, HomesApart, NoTable
<1>3. MutexHeld /\ PendingExtends
  BY NoneAssumption DEF Init, MutexHeld, PendingExtends
<1>4. QED
  BY <1>1, <1>2, <1>3 DEF TableInv

LEMMA TableInvNext == TableInv /\ [Next]_vars => TableInv'
<1> SUFFICES ASSUME TableInv, [Next]_vars PROVE TableInv'
  OBVIOUS
<1>1. CASE Environment
  BY <1>1, EnvironmentType, EnvironmentRows DEF TableInv
<1>2. ASSUME NEW t \in Threads, ResolveStep(t)
      PROVE  TableInv'
  <2>1. TypeOK'
    BY <1>2, ThreadType DEF TableInv, RowsAreUnique
  <2>2. (RowsAreUnique /\ MutexHeld /\ HomesApart /\ PendingExtends)'
    BY <1>2, AppendRow, PublishRow, ResolveOutside
  <2>3. QED
    BY <2>1, <2>2 DEF TableInv
<1>3. ASSUME NEW t \in Threads, LoadStep(t)
      PROVE  TableInv'
  <2>1. TypeOK'
    BY <1>3, ThreadType DEF TableInv, RowsAreUnique
  <2>2. CASE LoadReturns(t)
    <3>1. /\ UNCHANGED <<store, loadMu, tbl, req>> /\ pc[t] = "load" /\ pc'[t] = "idle"
          /\ \A u \in Threads \ {t} : pc'[u] = pc[u]
      BY <2>2 DEF LoadReturns, Goto, calls, TableInv, TypeOK
    <3>2. QED
      BY <2>1, <3>1, OutsideMutex DEF TableInv
  <2>3. CASE \E kernel \in todo[t] : PublishLoaded(t, kernel)
    BY <2>1, <2>3, PublishFile DEF TableInv
  <2>4. QED
    BY <1>3, <2>2, <2>3 DEF LoadStep
<1>4. CASE UNCHANGED vars
  <2>1. TypeOK'
    BY <1>4 DEF TableInv, TypeOK, vars
  <2>2. UNCHANGED <<store, loadMu, tbl, req, pc>>
    BY <1>4 DEF vars, store
  <2>3. QED
    BY <2>1, <2>2, OutsideMutex DEF TableInv
<1>5. QED
  BY <1>1, <1>2, <1>3, <1>4 DEF Next

\* In every behaviour the tuned table keeps one row per normalised key of a
\* generation, online rows shadow none of their file's, and every variable has
\* its type.  The snapshot is only replaced under load_mu_ by a table that
\* extends it (tuned_config.cpp, insert_resolved and publish_locked).
THEOREM TableCorrect == Spec => []TableInv
  BY TableInvInit, TableInvNext, PTL DEF Spec

\* The types alone.
THEOREM TypeCorrect == Spec => []TypeOK
<1>1. TableInv => TypeOK
  BY DEF TableInv
<1>2. QED
  BY <1>1, TableCorrect, PTL

\* insert_resolved() never makes a second row for a key of a generation.
THEOREM RowsUnique == Spec => []RowsAreUnique
<1>1. TableInv => RowsAreUnique
  BY DEF TableInv
<1>2. QED
  BY <1>1, TableCorrect, PTL

-----------------------------------------------------------------------------
(* Flights.                                                                  *)

FlightInv == OneFlightPerToken /\ WaitersHaveOwner

\* Steps that leave inflight_ alone, by which no thread becomes or stops being
\* an owner or a waiter.
LEMMA FlightsKept ==
  ASSUME TypeOK, FlightInv, inflight' = inflight,
         \A u \in Threads :
           /\ pc[u] \in Owning => pc'[u] \in Owning /\ tok'[u] = tok[u]
           /\ pc'[u] \in Owning \ {"fulfil"} <=> pc[u] \in Owning \ {"fulfil"}
           /\ pc'[u] = "wait" => /\ pc[u] = "wait"
                                 /\ lead'[u] = lead[u] /\ tok'[u] = tok[u]
  PROVE  FlightInv'
<1>1. OneFlightPerToken'
  BY DEF FlightInv, OneFlightPerToken, Holds
<1>2. WaitersHaveOwner'
  BY DEF FlightInv, WaitersHaveOwner, TypeOK
<1>3. QED
  BY <1>1, <1>2 DEF FlightInv

\* An owner's steps between joining and erasing, and a caller's before joining.
LEMMA FlightOutside ==
  ASSUME TypeOK, FlightInv, NEW t \in Threads, ResolveStep(t),
         ~JoinFlight(t), ~EraseFlight(t), ~Fulfil(t)
  PROVE  FlightInv'
<1>1. \A u \in Threads \ {t} : pc'[u] = pc[u] /\ tok'[u] = tok[u] /\ lead'[u] = lead[u]
  BY DEF ResolveStep, FindKernel, RefindKernel, Kernel, Search, RefuseIfFrozen, MakeToken,
     Research, CallResolver, ResolverDeclines, ResolverThrows, ResolverAnswers,
     InsertResolved, RejectAnswer, KeepPublished, AppendNode, PublishResolved, Leave, Goto,
     TypeOK
<1>2. inflight' = inflight
  BY DEF ResolveStep, FindKernel, RefindKernel, Kernel, Search, RefuseIfFrozen, MakeToken,
     Research, CallResolver, ResolverDeclines, ResolverThrows, ResolverAnswers,
     InsertResolved, RejectAnswer, KeepPublished, AppendNode, PublishResolved
<1>3. \/ /\ pc[t] \in Owning \ {"fulfil"} /\ pc'[t] \in Owning \ {"fulfil"}
         /\ tok'[t] = tok[t]
      \/ pc[t] \notin Owning /\ pc'[t] \notin Owning \cup {"wait"}
  BY DEF ResolveStep, FindKernel, RefindKernel, Kernel, Search, RefuseIfFrozen, MakeToken,
     Research, CallResolver, ResolverDeclines, ResolverThrows, ResolverAnswers,
     InsertResolved, RejectAnswer, KeepPublished, AppendNode, PublishResolved, Leave, Goto,
     TypeOK, Owning
<1>4. "wait" \notin Owning
  BY DEF Owning
<1>5. QED
  BY <1>1, <1>2, <1>3, <1>4, FlightsKept

LEMMA FlightJoin ==
  ASSUME TypeOK, FlightInv, NEW t \in Threads, JoinFlight(t)
  PROVE  FlightInv'
<1>1. /\ pc[t] = "join" /\ tok[t] \in Tokens /\ tok' = tok
      /\ \A u \in Threads \ {t} : pc'[u] = pc[u] /\ lead'[u] = lead[u]
  BY DEF JoinFlight, Goto, TypeOK
<1>2. CASE inflight[tok[t]] # None
  <2>1. /\ pc'[t] = "wait" /\ lead'[t] = inflight[tok[t]] /\ inflight' = inflight
    BY <1>1, <1>2 DEF JoinFlight, PendingOwner, Goto, TypeOK
  <2>2. OneFlightPerToken'
    BY <1>1, <2>1 DEF FlightInv, OneFlightPerToken, Holds, Owning
  <2>3. lead'[t] \in Threads /\ Holds(lead'[t], tok[t])
    BY <1>1, <1>2, <2>1 DEF FlightInv, OneFlightPerToken, TypeOK
  <2>4. WaitersHaveOwner'
    BY <1>1, <2>1, <2>3, NoneAssumption DEF FlightInv, WaitersHaveOwner, Holds, Owning, TypeOK
  <2>5. QED
    BY <2>2, <2>4 DEF FlightInv
<1>3. CASE inflight[tok[t]] = None
  <2>1. /\ pc'[t] = "refind" /\ inflight' = [inflight EXCEPT ![tok[t]] = t] /\ lead' = lead
    BY <1>1, <1>3 DEF JoinFlight, PendingOwner, Goto, TypeOK
  <2>2. \A u \in Threads : ~Holds(u, tok[t])
    BY <1>1, <1>3, NoneAssumption DEF FlightInv, OneFlightPerToken
  <2>3. \A token \in Tokens, u \in Threads : inflight'[token] = u <=> Holds(u, token)'
    <3>1. SUFFICES ASSUME NEW token \in Tokens, NEW u \in Threads
                   PROVE  inflight'[token] = u <=> Holds(u, token)'
      OBVIOUS
    <3>2. CASE u = t
      BY <3>2, <1>1, <2>1, <2>2 DEF FlightInv, OneFlightPerToken, Holds, Owning, TypeOK
    <3>3. CASE u # t
      BY <3>3, <1>1, <2>1, <2>2 DEF FlightInv, OneFlightPerToken, Holds, TypeOK
    <3>4. QED
      BY <3>2, <3>3
  <2>4. WaitersHaveOwner'
    BY <1>1, <2>1 DEF FlightInv, WaitersHaveOwner, Owning, TypeOK
  <2>5. QED
    BY <2>3, <2>4 DEF FlightInv, OneFlightPerToken
<1>4. QED
  BY <1>2, <1>3

LEMMA FlightErase ==
  ASSUME TypeOK, FlightInv, NEW t \in Threads, EraseFlight(t)
  PROVE  FlightInv'
<1>1. /\ pc[t] = "erase" /\ pc' = [pc EXCEPT ![t] = "fulfil"]
      /\ inflight' = [inflight EXCEPT ![tok[t]] = None]
      /\ tok' = tok /\ lead' = lead
  BY DEF EraseFlight, Goto
<1>2. tok[t] \in Tokens /\ Holds(t, tok[t])
  BY <1>1 DEF TypeOK, Holds, Owning
<1>3. inflight[tok[t]] = t
  BY <1>2 DEF FlightInv, OneFlightPerToken
<1>4. \A u \in Threads \ {t} : ~Holds(u, tok[t])
  BY <1>2, <1>3 DEF FlightInv, OneFlightPerToken
<1>5. \A token \in Tokens, u \in Threads : inflight'[token] = u <=> Holds(u, token)'
  <2>1. SUFFICES ASSUME NEW token \in Tokens, NEW u \in Threads
                 PROVE  inflight'[token] = u <=> Holds(u, token)'
    OBVIOUS
  <2>2. CASE u = t
    BY <2>2, <1>1, <1>2, <1>3, NoneAssumption DEF FlightInv, OneFlightPerToken, Holds, TypeOK
  <2>3. CASE u # t
    BY <2>3, <1>1, <1>2, <1>4, NoneAssumption DEF FlightInv, OneFlightPerToken, Holds, TypeOK
  <2>4. QED
    BY <2>2, <2>3
<1>6. WaitersHaveOwner'
  BY <1>1 DEF FlightInv, WaitersHaveOwner, Owning, TypeOK
<1>7. QED
  BY <1>5, <1>6 DEF FlightInv, OneFlightPerToken

\* An owner takes its waiters with it when it leaves.
LEMMA FlightFulfil ==
  ASSUME TypeOK, FlightInv, NEW t \in Threads, Fulfil(t)
  PROVE  FlightInv'
<1>1. /\ pc[t] = "fulfil" /\ inflight' = inflight /\ tok' = tok /\ lead' = lead
      /\ \A u \in Threads : \/ pc'[u] = "idle" /\ (u = t \/ pc[u] = "wait")
                            \/ pc'[u] = pc[u] /\ u # t /\ (pc[u] = "wait" => lead[u] # t)
  BY DEF Fulfil, Told, TypeOK
<1>2. OneFlightPerToken'
  BY <1>1 DEF FlightInv, OneFlightPerToken, Holds, Owning
<1>3. WaitersHaveOwner'
  BY <1>1, NoneAssumption DEF FlightInv, WaitersHaveOwner, Owning, TypeOK
<1>4. QED
  BY <1>2, <1>3 DEF FlightInv

LEMMA FlightInit == Init => FlightInv
  BY NoneAssumption DEF Init, FlightInv, OneFlightPerToken, WaitersHaveOwner, Holds, Owning

LEMMA FlightNext == TypeOK /\ FlightInv /\ [Next]_vars => FlightInv'
<1> SUFFICES ASSUME TypeOK, FlightInv, [Next]_vars PROVE FlightInv'
  OBVIOUS
<1>1. CASE Environment
  <2>1. /\ inflight' = inflight /\ lead' = lead /\ tok' = tok
        /\ \A u \in Threads : \/ pc'[u] = pc[u]
                              \/ pc[u] = "idle" /\ pc'[u] \in {"find", "load"}
    BY <1>1 DEF Environment, Resolve, LoadFile, SetResolver, Freeze, Thaw, Clear, Leave, Goto,
       TypeOK
  <2>2. QED
    BY <2>1, FlightsKept DEF Owning
<1>2. ASSUME NEW t \in Threads, ResolveStep(t)
      PROVE  FlightInv'
  BY <1>2, FlightOutside, FlightJoin, FlightErase, FlightFulfil
<1>3. ASSUME NEW t \in Threads, LoadStep(t)
      PROVE  FlightInv'
  <2>1. /\ inflight' = inflight /\ lead' = lead /\ tok' = tok
        /\ \A u \in Threads : pc'[u] = pc[u] \/ (pc[u] = "load" /\ pc'[u] = "idle")
    BY <1>3 DEF LoadStep, PublishLoaded, LoadReturns, Goto, TypeOK
  <2>2. QED
    BY <2>1, FlightsKept DEF Owning
<1>4. CASE UNCHANGED vars
  <2>1. inflight' = inflight /\ lead' = lead /\ tok' = tok /\ pc' = pc
    BY <1>4 DEF vars
  <2>2. QED
    BY <2>1, FlightsKept
<1>5. QED
  BY <1>1, <1>2, <1>3, <1>4 DEF Next

\* resolve() has one owner for a pending token, and erases it on every exit: by
\* induction over the two critical sections of resolve_mu_.
THEOREM OneFlight == Spec => []OneFlightPerToken
<1>1. FlightInv => OneFlightPerToken
  BY DEF FlightInv
<1>2. QED
  BY <1>1, FlightInit, FlightNext, TypeCorrect, PTL DEF Spec

\* Nobody waits on a promise that has been dropped or already been kept.
THEOREM NoOrphans == Spec => []WaitersHaveOwner
<1>1. FlightInv => WaitersHaveOwner
  BY DEF FlightInv
<1>2. QED
  BY <1>1, FlightInit, FlightNext, TypeCorrect, PTL DEF Spec

-----------------------------------------------------------------------------
(* Answers.                                                                  *)

LEMMA GenerationType ==
  ASSUME NEW table \in Table
  PROVE  /\ table.offline \in Nat /\ table.online \in Nat
         /\ Generation(table) \in Nat
         /\ Generation(table) \in {table.offline, table.online}
  BY DEF Table, NoTable, Generation

LEMMA InHandType ==
  ASSUME TypeOK
  PROVE  InHand \subseteq Table
  BY DEF TypeOK, InHand

\* Where a call is, its request names a slot that exists.
LEMMA RequestType ==
  ASSUME TypeOK, NEW t \in Threads, pc[t] \in Resolving
  PROVE  /\ req[t].cell \in Cells /\ req[t].key \in Keys /\ req[t].since \in Nat
         /\ snap[req[t].cell] \in Table /\ snap[req[t].cell] \in InHand
         /\ tbl[t] \in Table /\ tbl[t] \in InHand
<1>1. req[t] \in Request
  BY DEF TypeOK
<1>2. QED
  BY <1>1 DEF Request, TypeOK, InHand

\* A row that a search finds is of the table's generation and schema, and of the
\* key that was searched for.
LEMMA AnswerOfTable ==
  ASSUME TableInv, CallsInv, NEW table \in InHand, NEW key, Lookup(table, key) # None
  PROVE  /\ Lookup(table, key) \in entries
         /\ Lookup(table, key).home \in Homes(table)
         /\ Lookup(table, key).home >= Generation(table)
         /\ Lookup(table, key).schema = table.schema
         /\ Lookup(table, key).key = Norm[table.schema][key]
<1> DEFINE e == Lookup(table, key)
<1>1. /\ e \in entries /\ e.home \in {table.online, table.offline}
      /\ e.key = Norm[table.schema][key]
  BY LookupFindsRow DEF TableInv, TypeOK, RowsAreUnique
<1>2. 0 < e.home /\ e.home \in Nat
  BY <1>1 DEF TableInv, HomesApart, TypeOK, Entry
<1>3. table \in Table
  BY InHandType DEF TableInv
<1> HIDE DEF e
<1>4. e.home \in Homes(table)
  BY <1>1, <1>2 DEF Homes
<1>5. e.schema = table.schema
  BY <1>1, <1>4 DEF CallsInv, HomesHaveSchemas
<1>6. e.home >= Generation(table)
  BY <1>1, <1>2, <1>3, GenerationType DEF CallsInv, OnlineIsLater, Generation
<1>7. QED
  BY <1>1, <1>4, <1>5, <1>6 DEF e

\* The absent values are no rows.
LEMMA AbsentIsNoRow ==
  ASSUME TypeOK
  PROVE  \A v \in {None, Raised, FrozenMiss} : v \notin entries
<1>1. entries \subseteq Entry
  BY DEF TypeOK
<1>2. QED
  BY <1>1, NoneAssumption

\* Steps that take no row away and bring no table keep what is known of tables.
LEMMA HandKept ==
  ASSUME CallsInv, entries' = entries, allocs' = allocs, InHand' \subseteq InHand
  PROVE  HomesHaveSchemas' /\ OnlineIsLater'
<1>1. HomesHaveSchemas'
  BY DEF CallsInv, HomesHaveSchemas, Homes
<1>2. OnlineIsLater'
  BY DEF CallsInv, OnlineIsLater
<1>3. QED
  BY <1>1, <1>2

\* A call is not disturbed by a step that leaves its locals alone, takes no row
\* away, does not turn its slot back, and respects the mutex.
LEMMA CallKept ==
  ASSUME TypeOK, TypeOK', NEW t \in Threads, CallInv(t),
         pc'[t] = pc[t], req'[t] = req[t], tbl'[t] = tbl[t], tok'[t] = tok[t], out'[t] = out[t],
         entries \subseteq entries',
         pc[t] \in Resolving =>
           Generation(snap[req[t].cell]) <= (Generation(snap[req[t].cell]))',
         pc[t] = "publish" => UNCHANGED store
  PROVE  CallInv(t)'
<1>1. GenerationGrows(t)'
  <2>1. CASE pc[t] \in Resolving
    <3>1. req'[t].cell \in Cells /\ snap'[req'[t].cell] \in Table
      BY <2>1, RequestType DEF TypeOK
    <3>2. /\ (Generation(snap[req[t].cell]))' = Generation(snap'[req'[t].cell])
          /\ (Generation(tbl[t]))' = Generation(tbl'[t])
      BY DEF Generation
    <3> QED
      BY <2>1, <3>1, <3>2, RequestType, GenerationType DEF CallInv, GenerationGrows
  <2>2. CASE pc[t] \notin Resolving
    BY <2>2 DEF GenerationGrows, Resolving, Owning
  <2> QED
    BY <2>1, <2>2
<1>2. TokenSpells(t)'
  BY DEF CallInv, TokenSpells, Spells
<1>3. OutIsRow(t)'
  BY DEF CallInv, OutIsRow
<1>4. Live(t)' = Live(t)
  BY NoneAssumption DEF CallInv, OutIsRow, Live, TypeOK
<1>5. OwnAnswer(t)'
  BY <1>4 DEF CallInv, OwnAnswer
<1>6. PendingRow(t)'
  <2>1. CASE pc[t] = "publish"
    <3>1. entries' = entries /\ snap' = snap
      BY <2>1 DEF store
    <3>2. /\ snap'[req'[t].cell] = snap[req[t].cell]
          /\ Lookup(snap[req[t].cell], req[t].key)' = Lookup(snap[req[t].cell], req[t].key)
      BY <3>1 DEF Lookup, RowsFor
    <3> QED
      BY <2>1, <3>1, <3>2 DEF CallInv, PendingRow
  <2>2. CASE pc[t] # "publish"
    BY <2>2 DEF PendingRow
  <2> QED
    BY <2>1, <2>2
<1>7. QED
  BY <1>1, <1>2, <1>3, <1>5, <1>6 DEF CallInv

\* A step of one thread that leaves the published data alone.
LEMMA OneCallSteps ==
  ASSUME TableInv, TypeOK', CallsInv, NEW t \in Threads, UNCHANGED store,
         \A u \in Threads \ {t} :
           /\ pc'[u] = pc[u] /\ req'[u] = req[u] /\ tbl'[u] = tbl[u]
           /\ tok'[u] = tok[u] /\ out'[u] = out[u],
         tbl'[t] \in InHand,
         CallInv(t)'
  PROVE  CallsInv'
<1>1. entries' = entries /\ allocs' = allocs /\ snap' = snap
  BY DEF store
<1>2. InHand' \subseteq InHand
  BY <1>1 DEF InHand
<1>3. HomesHaveSchemas' /\ OnlineIsLater'
  BY <1>1, <1>2, HandKept
<1>4. ASSUME NEW u \in Threads \ {t} PROVE CallInv(u)'
  <2>1. pc[u] \in Resolving =>
          Generation(snap[req[u].cell]) <= (Generation(snap[req[u].cell]))'
    BY <1>1, <1>4, RequestType, GenerationType DEF Generation, TableInv
  <2>2. QED
    BY <2>1, <1>1, CallKept DEF CallsInv, TableInv
<1>5. QED
  BY <1>3, <1>4 DEF CallsInv

\* Entering resolve(): the generation of the call is the one the slot is in.
LEMMA ResolveCalls ==
  ASSUME TableInv, TypeOK', CallsInv, NEW t \in Threads,
         NEW k \in Kernels, NEW key \in Keys, Resolve(t, k, key)
  PROVE  CallsInv'
<1> DEFINE cell == Identity[resolver][k]
<1>1. /\ pc[t] = "idle" /\ pc' = [pc EXCEPT ![t] = "find"] /\ out' = [out EXCEPT ![t] = None]
      /\ req' = [req EXCEPT ![t] = [cell |-> cell, key |-> key, resolver |-> resolver,
                                    since |-> Generation(snap[cell])]]
      /\ tbl' = tbl /\ tok' = tok /\ entries' = entries /\ snap' = snap /\ allocs' = allocs
  BY DEF Resolve, Leave, Goto, store
<1>2. /\ pc \in [Threads -> {"idle", "load"} \cup Resolving] /\ req \in [Threads -> Request \cup {None}]
      /\ out \in [Threads -> Entry \cup {None, Raised, FrozenMiss}]
      /\ snap \in [Cells -> Table]
  BY DEF TableInv, TypeOK
<1>3. cell \in Cells
  BY IdentityAssumption DEF TableInv, TypeOK
<1>4. snap[cell] \in Table
  BY <1>2, <1>3
<1> HIDE DEF cell
<1>5. /\ pc'[t] = "find" /\ out'[t] = None
      /\ req'[t].cell = cell /\ req'[t].since = Generation(snap[cell])
  BY <1>1, <1>2
<1>6. (Generation(snap[req[t].cell]))' = Generation(snap[cell])
  BY <1>1, <1>5 DEF Generation
<1>7. CallInv(t)'
  <2>1. GenerationGrows(t)'
    BY <1>4, <1>5, <1>6, GenerationType DEF GenerationGrows
  <2>2. TokenSpells(t)' /\ OwnAnswer(t)' /\ PendingRow(t)'
    BY <1>5 DEF TokenSpells, OwnAnswer, PendingRow, Owning
  <2>3. OutIsRow(t)'
    BY <1>5 DEF OutIsRow
  <2>4. QED
    BY <2>1, <2>2, <2>3 DEF CallInv
<1>8. UNCHANGED store /\ tbl'[t] \in InHand
  BY <1>1 DEF store, InHand
<1>9. \A u \in Threads \ {t} :
        /\ pc'[u] = pc[u] /\ req'[u] = req[u] /\ tbl'[u] = tbl[u]
        /\ tok'[u] = tok[u] /\ out'[u] = out[u]
  BY <1>1, <1>2
<1>10. QED
  BY <1>7, <1>8, <1>9, OneCallSteps

\* The snapshot a call takes is of its own time.
LEMMA KernelCalls ==
  ASSUME TableInv, TypeOK', CallsInv, NEW t \in Threads, FindKernel(t) \/ RefindKernel(t)
  PROVE  CallsInv'
<1>1. /\ \/ pc[t] = "find" /\ pc' = [pc EXCEPT ![t] = "search"]
         \/ pc[t] = "refind" /\ pc' = [pc EXCEPT ![t] = "research"]
      /\ tbl' = [tbl EXCEPT ![t] = snap[req[t].cell]]
      /\ req' = req /\ out' = out /\ tok' = tok
      /\ entries' = entries /\ snap' = snap /\ allocs' = allocs
  BY DEF FindKernel, RefindKernel, Kernel, Goto, store, calls
<1>2. pc \in [Threads -> {"idle", "load"} \cup Resolving] /\ tbl \in [Threads -> Table]
  BY DEF TableInv, TypeOK
<1>3. pc[t] \in Resolving
  BY <1>1 DEF Resolving, Owning
<1>4. /\ tbl'[t] = snap[req[t].cell]
      /\ \/ pc[t] = "find" /\ pc'[t] = "search"
         \/ pc[t] = "refind" /\ pc'[t] = "research"
  BY <1>1, <1>2
<1>5. /\ (Generation(snap[req[t].cell]))' = Generation(snap[req[t].cell])
      /\ (Generation(tbl[t]))' = Generation(snap[req[t].cell])
  BY <1>1, <1>4 DEF Generation
<1>6. CallInv(t)'
  <2> USE DEF CallsInv
  <2>1. GenerationGrows(t)'
    BY <1>1, <1>3, <1>4, <1>5 DEF CallInv, GenerationGrows
  <2>2. TokenSpells(t)' /\ OwnAnswer(t)' /\ PendingRow(t)'
    BY <1>1, <1>4 DEF CallInv, TokenSpells, Spells, OwnAnswer, PendingRow, Live, Owning
  <2>3. OutIsRow(t)'
    BY <1>1, <1>4 DEF CallInv, OutIsRow, Owning, Resolving
  <2>4. QED
    BY <2>1, <2>2, <2>3 DEF CallInv
<1>7. UNCHANGED store /\ tbl'[t] \in InHand
  BY <1>1, <1>3, <1>4, RequestType DEF store, TableInv
<1>8. \A u \in Threads \ {t} :
        /\ pc'[u] = pc[u] /\ req'[u] = req[u] /\ tbl'[u] = tbl[u]
        /\ tok'[u] = tok[u] /\ out'[u] = out[u]
  BY <1>1, <1>2
<1>9. QED
  BY <1>6, <1>7, <1>8, OneCallSteps

\* A search that hits, and one that does not.
LEMMA SearchCalls ==
  ASSUME TableInv, TypeOK', CallsInv, NEW t \in Threads, Search(t) \/ Research(t)
  PROVE  CallsInv'
<1> DEFINE found == Lookup(tbl[t], req[t].key)
<1>1. /\ \/ pc[t] = "search" /\ pc' = [pc EXCEPT ![t] = "idle"]
            /\ out' = [out EXCEPT ![t] = found]
         \/ pc[t] = "search" /\ pc' = [pc EXCEPT ![t] = "check"] /\ out' = out
         \/ pc[t] = "research" /\ pc' = [pc EXCEPT ![t] = "erase"]
            /\ out' = [out EXCEPT ![t] = found] /\ found # None
         \/ pc[t] = "research" /\ pc' = [pc EXCEPT ![t] = "call"] /\ out' = out
      /\ tbl' = tbl /\ req' = req /\ tok' = tok
      /\ entries' = entries /\ snap' = snap /\ allocs' = allocs
  BY DEF Search, Research, Leave, Goto, store, calls
<1>2. /\ pc \in [Threads -> {"idle", "load"} \cup Resolving]
      /\ out \in [Threads -> Entry \cup {None, Raised, FrozenMiss}]
  BY DEF TableInv, TypeOK
<1>3. pc[t] \in Resolving
  BY <1>1 DEF Resolving, Owning
<1>4. tbl[t] \in InHand
  BY DEF InHand
<1>5. found # None => /\ found \in entries
                      /\ found.home >= Generation(tbl[t])
                      /\ found.key = Norm[found.schema][req[t].key]
  BY <1>4, AnswerOfTable
<1> HIDE DEF found
<1>6. CallInv(t)'
  <2> USE DEF CallsInv
  <2>1. GenerationGrows(t)'
    <3>1. (Generation(snap[req[t].cell]))' = Generation(snap[req[t].cell])
      BY <1>1 DEF Generation
    <3>2. QED
      BY <1>1, <1>2, <1>3, <3>1 DEF CallInv, GenerationGrows
  <2>2. TokenSpells(t)' /\ PendingRow(t)'
    BY <1>1, <1>2 DEF CallInv, TokenSpells, Spells, PendingRow, Owning
  <2>3. OutIsRow(t)'
    BY <1>1, <1>2, <1>5 DEF CallInv, OutIsRow, Owning, Resolving
  <2>4. OwnAnswer(t)'
    <3>1. CASE pc'[t] = "erase"
      <4>1. /\ Live(t)' = {found} /\ found.home >= Generation(tbl[t])
            /\ req[t].since <= Generation(tbl[t]) /\ found \in entries
            /\ found.key = Norm[found.schema][req[t].key]
        BY <3>1, <1>1, <1>2, <1>5 DEF Live, CallInv, GenerationGrows
      <4>2. /\ Generation(tbl[t]) \in Nat /\ req[t].since \in Nat /\ found.home \in Nat
        BY <4>1, <1>3, RequestType, GenerationType DEF TableInv, TypeOK, Entry
      <4>3. QED
        BY <4>1, <4>2, <1>1 DEF OwnAnswer
    <3>2. CASE pc'[t] # "erase" /\ pc[t] = "research"
      BY <3>2, <1>1, <1>2 DEF CallInv, OwnAnswer, Live, Owning
    <3>3. CASE pc'[t] # "erase" /\ pc[t] # "research"
      BY <3>3, <1>1, <1>2 DEF OwnAnswer, Owning
    <3>4. QED
      BY <3>1, <3>2, <3>3
  <2>5. QED
    BY <2>1, <2>2, <2>3, <2>4 DEF CallInv
<1>7. UNCHANGED store /\ tbl'[t] \in InHand
  BY <1>1, <1>4 DEF store
<1>8. \A u \in Threads \ {t} :
        /\ pc'[u] = pc[u] /\ req'[u] = req[u] /\ tbl'[u] = tbl[u]
        /\ tok'[u] = tok[u] /\ out'[u] = out[u]
  BY <1>1, <1>2
<1>9. QED
  BY <1>6, <1>7, <1>8, OneCallSteps

\* The steps up to waiting or owning, and what the callback answers: the result, if
\* there is one, is no row yet.
LEMMA CallResolverCalls ==
  ASSUME TableInv, TypeOK', CallsInv, NEW t \in Threads,
         \/ \E capturing \in BOOLEAN : RefuseIfFrozen(t, capturing)
         \/ JoinFlight(t)
         \/ CallResolver(t)
         \/ RejectAnswer(t)
  PROVE  CallsInv'
<1>1. /\ tbl' = tbl /\ req' = req /\ tok' = tok
      /\ entries' = entries /\ snap' = snap /\ allocs' = allocs
  BY DEF RefuseIfFrozen, JoinFlight, CallResolver, ResolverDeclines, ResolverThrows,
     ResolverAnswers, RejectAnswer, store, calls
<1>2. /\ pc \in [Threads -> {"idle", "load"} \cup Resolving]
      /\ out \in [Threads -> Entry \cup {None, Raised, FrozenMiss}]
  BY DEF TableInv, TypeOK
<1>3. /\ \A u \in Threads \ {t} : pc'[u] = pc[u] /\ out'[u] = out[u]
      /\ \/ pc[t] = "check" /\ pc'[t] = "idle" /\ out'[t] = FrozenMiss
         \/ pc[t] = "check" /\ pc'[t] = "token" /\ out'[t] = out[t]
         \/ pc[t] = "join" /\ pc'[t] \in {"wait", "refind"} /\ out'[t] = out[t]
         \/ pc[t] = "call" /\ pc'[t] = "insert" /\ out'[t] = out[t]
         \/ pc[t] \in {"call", "insert"} /\ pc'[t] = "erase" /\ out'[t] \in {None, Raised}
  BY <1>2 DEF RefuseIfFrozen, JoinFlight, CallResolver, ResolverDeclines, ResolverThrows,
     ResolverAnswers, RejectAnswer, Leave, Goto
<1>4. pc[t] \in Resolving /\ pc'[t] \in Resolving \cup {"idle"}
  BY <1>3 DEF Resolving, Owning
<1>5. CallInv(t)'
  <2> USE DEF CallsInv
  <2>1. GenerationGrows(t)'
    <3>1. (Generation(snap[req[t].cell]))' = Generation(snap[req[t].cell])
      BY <1>1 DEF Generation
    <3>2. QED
      BY <1>1, <1>3, <1>4, <3>1 DEF CallInv, GenerationGrows
  <2>2. TokenSpells(t)' /\ PendingRow(t)'
    BY <1>1, <1>3 DEF CallInv, TokenSpells, Spells, PendingRow, Owning
  <2>3. OutIsRow(t)'
    BY <1>1, <1>3 DEF CallInv, OutIsRow, Owning, Resolving
  <2>4. OwnAnswer(t)'
    <3>1. out'[t] \in {None, Raised, FrozenMiss}
      BY <1>3 DEF CallInv, OutIsRow, Owning, Resolving
    <3>2. Live(t)' = {}
      BY <3>1, <1>1, AbsentIsNoRow DEF Live, TableInv
    <3>3. QED
      BY <3>2 DEF OwnAnswer
  <2>5. QED
    BY <2>1, <2>2, <2>3, <2>4 DEF CallInv
<1>6. UNCHANGED store /\ tbl'[t] \in InHand
  BY <1>1 DEF store, InHand
<1>7. QED
  BY <1>1, <1>3, <1>5, <1>6, OneCallSteps

\* The token spells the key: under the schema of the table that is published by
\* then, or as it was asked for.
LEMMA TokenCalls ==
  ASSUME TableInv, TypeOK', CallsInv, NEW t \in Threads, MakeToken(t)
  PROVE  CallsInv'
<1> DEFINE key == FlightKey(snap[req[t].cell], req[t].key)
<1>1. /\ tbl' = tbl /\ req' = req /\ pc[t] = "token"
      /\ entries' = entries /\ snap' = snap /\ allocs' = allocs
  BY DEF MakeToken, store, calls
<1>2. /\ pc \in [Threads -> {"idle", "load"} \cup Resolving]
      /\ out \in [Threads -> Entry \cup {None, Raised, FrozenMiss}]
      /\ tok \in [Threads -> Tokens \cup {None}]
  BY DEF TableInv, TypeOK
<1>3. /\ \A u \in Threads \ {t} : pc'[u] = pc[u] /\ out'[u] = out[u] /\ tok'[u] = tok[u]
      /\ \/ pc'[t] = "idle" /\ out'[t] = Raised
         \/ pc'[t] = "join" /\ out'[t] = out[t] /\ tok'[t] = <<req[t].cell, key>>
  BY <1>2 DEF MakeToken, Leave, Goto
<1>4. pc[t] \in Resolving
  BY <1>1 DEF Resolving
<1>5. Spells(key, req[t].key)
  <2>1. snap[req[t].cell] \in Table
    BY <1>4, RequestType DEF TableInv
  <2>2. QED
    BY <2>1, TableType DEF Spells, FlightKey, TableInv
<1> HIDE DEF key
<1>6. CallInv(t)'
  <2> USE DEF CallsInv
  <2>1. GenerationGrows(t)'
    <3>1. (Generation(snap[req[t].cell]))' = Generation(snap[req[t].cell])
      BY <1>1 DEF Generation
    <3>2. QED
      BY <1>1, <1>3, <1>4, <3>1 DEF CallInv, GenerationGrows
  <2>2. TokenSpells(t)'
    <3>1. pc'[t] = "join" => tok'[t][2] = key
      BY <1>3
    <3>2. QED
      BY <3>1, <1>1, <1>3, <1>5 DEF TokenSpells, Spells, Owning
  <2>3. PendingRow(t)' /\ OwnAnswer(t)'
    BY <1>3 DEF PendingRow, OwnAnswer, Owning
  <2>4. OutIsRow(t)'
    BY <1>1, <1>3 DEF CallInv, OutIsRow, Owning, Resolving
  <2>5. QED
    BY <2>1, <2>2, <2>3, <2>4 DEF CallInv
<1>7. UNCHANGED store /\ tbl'[t] \in InHand
  BY <1>1 DEF store, InHand
<1>8. QED
  BY <1>1, <1>3, <1>6, <1>7, OneCallSteps

\* The row that another flight has published for the key.
LEMMA KeepCalls ==
  ASSUME TableInv, TypeOK', CallsInv, NEW t \in Threads, KeepPublished(t)
  PROVE  CallsInv'
<1> DEFINE found == Lookup(snap[req[t].cell], req[t].key)
<1>1. /\ pc[t] = "insert" /\ pc' = [pc EXCEPT ![t] = "erase"]
      /\ out' = [out EXCEPT ![t] = found] /\ found # None
      /\ tbl' = tbl /\ req' = req /\ tok' = tok
      /\ entries' = entries /\ snap' = snap /\ allocs' = allocs
  BY DEF KeepPublished, Published, Leave, Goto, store, calls
<1>2. /\ pc \in [Threads -> {"idle", "load"} \cup Resolving]
      /\ out \in [Threads -> Entry \cup {None, Raised, FrozenMiss}]
  BY DEF TableInv, TypeOK
<1>3. pc[t] \in Resolving
  BY <1>1 DEF Resolving, Owning
<1>4. /\ found \in entries
      /\ found.home >= Generation(snap[req[t].cell])
      /\ found.key = Norm[found.schema][req[t].key]
  BY <1>1, <1>3, AnswerOfTable, RequestType DEF TableInv
<1> HIDE DEF found
<1>5. pc'[t] = "erase" /\ out'[t] = found
  BY <1>1, <1>2
<1>6. CallInv(t)'
  <2> USE DEF CallsInv
  <2>1. GenerationGrows(t)'
    <3>1. (Generation(snap[req[t].cell]))' = Generation(snap[req[t].cell])
      BY <1>1 DEF Generation
    <3>2. QED
      BY <1>1, <1>3, <1>5, <3>1 DEF CallInv, GenerationGrows
  <2>2. TokenSpells(t)' /\ PendingRow(t)'
    BY <1>1, <1>5 DEF CallInv, TokenSpells, Spells, PendingRow, Owning
  <2>3. OutIsRow(t)'
    BY <1>1, <1>4, <1>5 DEF CallInv, OutIsRow
  <2>4. OwnAnswer(t)'
    <3>1. /\ Live(t)' = {found} /\ req[t].since <= Generation(snap[req[t].cell])
      BY <1>1, <1>3, <1>4, <1>5 DEF Live, CallInv, GenerationGrows
    <3>2. /\ Generation(snap[req[t].cell]) \in Nat /\ req[t].since \in Nat /\ found.home \in Nat
      BY <1>3, <1>4, RequestType, GenerationType DEF TableInv, TypeOK, Entry
    <3>3. QED
      BY <3>1, <3>2, <1>1, <1>4 DEF OwnAnswer
  <2>5. QED
    BY <2>1, <2>2, <2>3, <2>4 DEF CallInv
<1>7. UNCHANGED store /\ tbl'[t] \in InHand
  BY <1>1 DEF store, InHand
<1>8. \A u \in Threads \ {t} :
        /\ pc'[u] = pc[u] /\ req'[u] = req[u] /\ tbl'[u] = tbl[u]
        /\ tok'[u] = tok[u] /\ out'[u] = out[u]
  BY <1>1, <1>2
<1>9. QED
  BY <1>6, <1>7, <1>8, OneCallSteps

\* Releasing the token, and loading a file up to its first publication.
LEMMA PassiveCalls ==
  ASSUME TableInv, TypeOK', CallsInv, NEW t \in Threads,
         EraseFlight(t) \/ LoadReturns(t) \/ \E f \in Files : LoadFile(t, f)
  PROVE  CallsInv'
<1>1. /\ tbl' = tbl /\ req' = req /\ tok' = tok /\ out' = out
      /\ entries' = entries /\ snap' = snap /\ allocs' = allocs
  BY DEF EraseFlight, LoadReturns, LoadFile, store, calls
<1>2. pc \in [Threads -> {"idle", "load"} \cup Resolving]
  BY DEF TableInv, TypeOK
<1>3. /\ \A u \in Threads \ {t} : pc'[u] = pc[u]
      /\ \/ pc[t] = "erase" /\ pc'[t] = "fulfil"
         \/ pc'[t] \in {"idle", "load"}
  BY <1>2 DEF EraseFlight, LoadReturns, LoadFile, Goto
<1>4. CallInv(t)'
  <2> USE DEF CallsInv
  <2>1. GenerationGrows(t)'
    <3>1. (Generation(snap[req[t].cell]))' = Generation(snap[req[t].cell])
      BY <1>1 DEF Generation
    <3>2. QED
      BY <1>1, <1>3, <3>1 DEF CallInv, GenerationGrows, Resolving, Owning
  <2>2. TokenSpells(t)' /\ PendingRow(t)'
    BY <1>1, <1>3 DEF CallInv, TokenSpells, Spells, PendingRow, Owning
  <2>3. OutIsRow(t)'
    BY <1>1, <1>3 DEF CallInv, OutIsRow, Owning, Resolving
  <2>4. OwnAnswer(t)'
    BY <1>1, <1>3 DEF CallInv, OwnAnswer, Owning, Live
  <2>5. QED
    BY <2>1, <2>2, <2>3, <2>4 DEF CallInv
<1>5. UNCHANGED store /\ tbl'[t] \in InHand
  BY <1>1 DEF store, InHand
<1>6. QED
  BY <1>1, <1>3, <1>4, <1>5, OneCallSteps

\* The owner and its waiters return with the owner's result.
LEMMA FulfilCalls ==
  ASSUME TableInv, TypeOK', CallsInv, NEW t \in Threads, Fulfil(t)
  PROVE  CallsInv'
<1>1. /\ tbl' = tbl /\ req' = req /\ tok' = tok
      /\ entries' = entries /\ snap' = snap /\ allocs' = allocs
      /\ \A u \in Threads : \/ pc'[u] = pc[u] /\ out'[u] = out[u]
                            \/ pc'[u] = "idle" /\ out'[u] = out[t]
  BY DEF Fulfil, store, calls
<1>2. HomesHaveSchemas' /\ OnlineIsLater'
  <2>1. InHand' \subseteq InHand
    BY <1>1 DEF InHand
  <2>2. QED
    BY <2>1, <1>1, HandKept
<1>3. ASSUME NEW u \in Threads PROVE CallInv(u)'
  <2>1. CASE pc'[u] = pc[u] /\ out'[u] = out[u]
    <3>1. UNCHANGED store /\ (Generation(snap[req[u].cell]))' = Generation(snap[req[u].cell])
      BY <1>1 DEF store, Generation
    <3>2. pc[u] \in Resolving =>
            Generation(snap[req[u].cell]) <= (Generation(snap[req[u].cell]))'
      BY <3>1, RequestType, GenerationType DEF TableInv
    <3>3. QED
      BY <2>1, <1>1, <3>1, <3>2, CallKept DEF CallsInv, TableInv
  <2>2. CASE pc'[u] = "idle" /\ out'[u] = out[t]
    BY <2>2, <1>1 DEF CallsInv, CallInv, OutIsRow, GenerationGrows, TokenSpells, OwnAnswer,
       PendingRow, Resolving, Owning
  <2>3. QED
    BY <2>1, <2>2, <1>1
<1>4. QED
  BY <1>2, <1>3 DEF CallsInv

\* A node goes to a storage of the request's schema: the one that is published, or
\* one that nobody has.
LEMMA AppendCalls ==
  ASSUME TableInv, TypeOK', CallsInv, NEW t \in Threads, AppendNode(t)
  PROVE  CallsInv'
<1> DEFINE cell == req[t].cell
           current == snap[cell]
           home == OnlineHome(current)
           node == [home |-> home, schema |-> ans[t].schema, key |-> RowKey(t), at |-> allocs + 1]
           table == [schema |-> ans[t].schema, offline |-> current.offline, online |-> home]
<1>1. /\ entries' = entries \cup {node} /\ tbl' = [tbl EXCEPT ![t] = table]
      /\ pc[t] = "insert" /\ pc' = [pc EXCEPT ![t] = "publish"]
      /\ out' = [out EXCEPT ![t] = node]
      /\ loadMu = None /\ allocs' = allocs + 1
      /\ snap' = snap /\ req' = req /\ tok' = tok
  BY DEF AppendNode, OfflineHome, Leave, Goto, calls
<1>2. /\ cell \in Cells /\ home \in Nat /\ node \in Entry /\ current \in Table
      /\ current \in InHand /\ req[t].since \in Nat /\ pc[t] \in Resolving
  BY <1>1, NodeType, RequestType DEF TableInv, Resolving, Owning
<1>3. /\ allocs \in Nat /\ entries \subseteq Entry /\ snap \in [Cells -> Table]
      /\ pc \in [Threads -> {"idle", "load"} \cup Resolving] /\ tbl \in [Threads -> Table]
      /\ out \in [Threads -> Entry \cup {None, Raised, FrozenMiss}]
  BY DEF TableInv, TypeOK
<1>4. /\ current # NoTable => current.schema = ans[t].schema
      /\ Lookup(current, req[t].key) = None
      /\ node.key = Norm[ans[t].schema][req[t].key]
  BY DEF AppendNode, Disagrees, Published, RowKey
<1>5. /\ current.online # 0 => home = current.online
      /\ current.online = 0 => home = allocs + 1
      /\ home # 0
  BY <1>3 DEF OnlineHome
<1>6. /\ pc'[t] = "publish" /\ out'[t] = node /\ tbl'[t] = table
      /\ \A u \in Threads \ {t} : pc'[u] = pc[u] /\ out'[u] = out[u] /\ tbl'[u] = tbl[u]
      /\ \A u \in Threads : pc[u] # "publish"
  BY <1>1, <1>3, NoneAssumption DEF TableInv, MutexHeld
<1>7. /\ node.home = home /\ node.schema = ans[t].schema
      /\ table.schema = ans[t].schema /\ table.online = home /\ table.offline = current.offline
      /\ current = snap[req[t].cell]
  OBVIOUS
<1>8. InHand' \subseteq InHand \cup {table}
  BY <1>1, <1>6 DEF InHand
<1>9. \A a \in InHand : /\ a.online \in Nat /\ a.offline \in Nat
                        /\ a.online <= allocs /\ a.offline <= allocs
  BY InHandType, GenerationType DEF CallsInv, HomesHaveSchemas, TableInv
<1>10. \A e \in entries : e.home \in Nat /\ e.home <= allocs
  BY <1>3 DEF TableInv, HomesApart, Entry
<1>11. current = NoTable => current.offline = 0 /\ current.online = 0
  BY DEF NoTable
<1> HIDE DEF node, table, home, current, cell
<1>12. Homes(table) \subseteq Homes(current) \cup {allocs + 1}
  BY <1>5, <1>7 DEF Homes
<1>13. current # NoTable => current.schema = table.schema
  BY <1>4, <1>7
<1>14. \A a \in InHand : Homes(a) \cap Homes(table) # {} => a.schema = table.schema
  <2>1. \A a \in InHand : allocs + 1 \notin Homes(a)
    BY <1>3, <1>9 DEF Homes
  <2>2. current = NoTable => Homes(current) = {}
    BY <1>11 DEF Homes
  <2>3. QED
    BY <2>1, <2>2, <1>2, <1>12, <1>13 DEF CallsInv, HomesHaveSchemas
<1>15. HomesHaveSchemas'
  <2>1. \A a \in InHand' : a.online <= allocs' /\ a.offline <= allocs'
    BY <1>1, <1>2, <1>3, <1>5, <1>7, <1>8, <1>9
  <2>2. \A a, b \in InHand' : Homes(a) \cap Homes(b) # {} => a.schema = b.schema
    BY <1>8, <1>14 DEF CallsInv, HomesHaveSchemas
  <2>3. ASSUME NEW a \in InHand \cup {table}, NEW e \in entries \cup {node}, e.home \in Homes(a)
        PROVE  e.schema = a.schema
    <3>1. CASE e = node
      <4>1. home \in Homes(table)
        BY <1>5, <1>7 DEF Homes
      <4>2. QED
        BY <2>3, <3>1, <4>1, <1>7, <1>14
    <3>2. CASE e \in entries /\ a \in InHand
      BY <2>3, <3>2 DEF CallsInv, HomesHaveSchemas
    <3>3. CASE e \in entries /\ a = table
      <4>1. e.home \in Homes(current)
        BY <2>3, <3>3, <1>3, <1>10, <1>12
      <4>2. current # NoTable
        BY <4>1, <1>11 DEF Homes
      <4>3. QED
        BY <3>3, <4>1, <4>2, <1>2, <1>13 DEF CallsInv, HomesHaveSchemas
    <3>4. QED
      BY <2>3, <3>1, <3>2, <3>3
  <2>4. (\A a \in InHand, e \in entries : e.home \in Homes(a) => e.schema = a.schema)'
    BY <2>3, <1>1, <1>8
  <2>5. QED
    BY <2>1, <2>2, <2>4 DEF HomesHaveSchemas, Homes
<1>16. OnlineIsLater'
  <2>1. table.offline # 0 /\ table.online # 0 => table.offline <= table.online
    BY <1>2, <1>3, <1>5, <1>7, <1>9 DEF CallsInv, OnlineIsLater
  <2>2. QED
    BY <2>1, <1>8 DEF CallsInv, OnlineIsLater
<1>17. CallInv(t)'
  <2>1. GenerationGrows(t)'
    <3>1. (Generation(snap[req[t].cell]))' = Generation(current)
      BY <1>1, <1>7 DEF Generation
    <3>2. QED
      BY <1>1, <1>2, <1>6, <1>7, <3>1 DEF CallsInv, CallInv, GenerationGrows
  <2>2. TokenSpells(t)'
    BY <1>1, <1>6 DEF CallsInv, CallInv, TokenSpells, Spells, Owning
  <2>3. OutIsRow(t)'
    BY <1>1, <1>6 DEF OutIsRow
  <2>4. OwnAnswer(t)'
    <3>1. home >= Generation(current)
      BY <1>2, <1>3, <1>5, <1>9 DEF CallsInv, OnlineIsLater, Generation
    <3>2. req[t].since <= Generation(current) /\ Generation(current) \in Nat
      BY <1>2, <1>7, GenerationType DEF CallsInv, CallInv, GenerationGrows
    <3>3. Live(t)' = {node}
      BY <1>1, <1>6 DEF Live
    <3>4. QED
      BY <3>1, <3>2, <3>3, <1>1, <1>2, <1>4, <1>7 DEF OwnAnswer
  <2>5. PendingRow(t)'
    <3>1. current.online # 0 => table = current
      <4>1. ASSUME current.online # 0 PROVE table = current
        <5>1. home = current.online /\ current # NoTable
          BY <4>1, <1>5, <1>11
        <5>2. current \in [schema : Schemas, offline : Nat, online : Nat]
          BY <5>1, <1>2 DEF Table
        <5>3. QED
          BY <5>1, <5>2, <1>4 DEF table
      <4>2. QED
        BY <4>1
    <3>2. current.online = 0 => \A e \in entries' : e.home = home => e = node
      BY <1>1, <1>3, <1>5, <1>10
    <3>3. current.online = 0 => (Lookup(snap[req[t].cell], req[t].key))' = None
      <4>1. ASSUME current.online = 0 PROVE (Lookup(current, req[t].key))' = None
        <5>1. CASE current = NoTable
          BY <5>1, <1>1 DEF Lookup, current, cell
        <5>2. CASE current # NoTable
          <6>1. /\ RowsFor(current.online, current, req[t].key) = {}
                /\ RowsFor(current.offline, current, req[t].key) = {}
            BY <5>2, <1>3, <1>4, MissHasNoRow DEF TableInv, RowsAreUnique
          <6>2. node.home = allocs + 1 /\ current.offline # allocs + 1 /\ current.online # allocs + 1
            BY <4>1, <1>2, <1>3, <1>5, <1>7, <1>9
          <6>3. /\ (RowsFor(current.online, current, req[t].key))' = {}
                /\ (RowsFor(current.offline, current, req[t].key))' = {}
            BY <6>1, <6>2, <1>1, <1>7 DEF RowsFor, current, cell
          <6>4. QED
            BY <6>3, <1>1 DEF Lookup, current, cell
        <5>3. QED
          BY <5>1, <5>2
      <4>2. QED
        BY <4>1 DEF current, cell
    <3>4. QED
      BY <3>1, <3>2, <3>3, <1>1, <1>6, <1>7, <1>13 DEF PendingRow
  <2>6. QED
    BY <2>1, <2>2, <2>3, <2>4, <2>5 DEF CallInv
<1>18. ASSUME NEW u \in Threads \ {t} PROVE CallInv(u)'
  <2>1. (Generation(snap[req[u].cell]))' = Generation(snap[req[u].cell])
    BY <1>1 DEF Generation
  <2>2. pc[u] \in Resolving =>
          Generation(snap[req[u].cell]) <= (Generation(snap[req[u].cell]))'
    BY <2>1, RequestType, GenerationType DEF TableInv
  <2>3. QED
    BY <2>2, <1>1, <1>6, CallKept DEF CallsInv, TableInv
<1>19. QED
  BY <1>15, <1>16, <1>17, <1>18 DEF CallsInv

\* The publication of a node: the new table extends the one it replaces.
LEMMA PublishCalls ==
  ASSUME TableInv, TypeOK', CallsInv, NEW t \in Threads, PublishResolved(t)
  PROVE  CallsInv'
<1> DEFINE cell == req[t].cell
<1>1. /\ pc[t] = "publish" /\ pc' = [pc EXCEPT ![t] = "erase"]
      /\ snap' = [snap EXCEPT ![cell] = tbl[t]]
      /\ tbl' = tbl /\ req' = req /\ tok' = tok /\ out' = out
      /\ entries' = entries /\ allocs' = allocs
  BY DEF PublishResolved, Goto, calls
<1>2. /\ pc \in [Threads -> {"idle", "load"} \cup Resolving]
      /\ snap \in [Cells -> Table] /\ tbl \in [Threads -> Table]
  BY DEF TableInv, TypeOK
<1>3. /\ cell \in Cells /\ snap[cell] \in Table /\ tbl[t] \in Table /\ req[t].since \in Nat
  BY <1>1, RequestType DEF TableInv, Resolving, Owning
<1>4. \A c \in Cells : snap'[c] = IF c = cell THEN tbl[t] ELSE snap[c]
  BY <1>1, <1>2, <1>3
<1>5. Generation(snap[cell]) <= Generation(tbl[t])
  <2>1. /\ tbl[t].offline = snap[cell].offline
        /\ snap[cell].online # 0 => tbl[t] = snap[cell]
    BY <1>1 DEF TableInv, PendingExtends, CallsInv, CallInv, PendingRow
  <2>2. QED
    BY <2>1, <1>3, GenerationType DEF Generation
<1>6. pc'[t] = "erase" /\ \A u \in Threads \ {t} : pc'[u] = pc[u] /\ pc[u] # "publish"
  BY <1>1, <1>2 DEF TableInv, MutexHeld
<1> HIDE DEF cell
<1>7. HomesHaveSchemas' /\ OnlineIsLater'
  <2>1. InHand' \subseteq InHand
    BY <1>1, <1>4 DEF InHand
  <2>2. QED
    BY <2>1, <1>1, HandKept
<1>8. ASSUME NEW u \in Threads, pc[u] \in Resolving
      PROVE  Generation(snap[req[u].cell]) <= (Generation(snap[req[u].cell]))'
  <2>1. req[u].cell \in Cells /\ Generation(snap[req[u].cell]) \in Nat
    BY <1>8, RequestType, GenerationType DEF TableInv
  <2>2. (Generation(snap[req[u].cell]))' = Generation(snap'[req[u].cell])
    BY <1>1 DEF Generation
  <2>3. QED
    BY <2>1, <2>2, <1>4, <1>5
<1>9. CallInv(t)'
  <2>1. GenerationGrows(t)'
    <3>1. /\ req[t].since <= Generation(snap[req[t].cell])
          /\ Generation(snap[req[t].cell]) <= (Generation(snap[req[t].cell]))'
          /\ Generation(snap[req[t].cell]) \in Nat
      BY <1>1, <1>3, <1>8, GenerationType
         DEF CallsInv, CallInv, GenerationGrows, Resolving, Owning, cell
    <3>2. (Generation(snap[req[t].cell]))' \in Nat
      BY <1>1, <1>3, <1>4, GenerationType DEF Generation, cell
    <3>3. QED
      BY <3>1, <3>2, <1>1, <1>3, <1>6 DEF GenerationGrows
  <2>2. TokenSpells(t)' /\ PendingRow(t)'
    BY <1>1, <1>6 DEF CallsInv, CallInv, TokenSpells, Spells, PendingRow, Owning
  <2>3. OutIsRow(t)'
    BY <1>1, <1>6 DEF CallsInv, CallInv, OutIsRow
  <2>4. OwnAnswer(t)'
    BY <1>1 DEF CallsInv, CallInv, OwnAnswer, Owning, Live
  <2>5. QED
    BY <2>1, <2>2, <2>3, <2>4 DEF CallInv
<1>10. ASSUME NEW u \in Threads \ {t} PROVE CallInv(u)'
  BY <1>1, <1>6, <1>8, CallKept DEF CallsInv, TableInv
<1>11. QED
  BY <1>7, <1>9, <1>10 DEF CallsInv

\* A kernel of a file starts a generation later than all there were.
LEMMA LoadedCalls ==
  ASSUME TableInv, TypeOK', CallsInv, NEW t \in Threads, NEW kernel \in todo[t],
         PublishLoaded(t, kernel)
  PROVE  CallsInv'
<1> DEFINE home == allocs + 1
           rows == {[home |-> home, schema |-> kernel.schema, key |-> k, at |-> home] :
                      k \in kernel.keys}
           table == LoadedTable(kernel, home)
<1>1. /\ entries' = entries \cup rows /\ allocs' = home /\ loadMu = None
      /\ snap' = [snap EXCEPT ![kernel.cell] = table]
      /\ pc' = pc /\ tbl' = tbl /\ req' = req /\ tok' = tok /\ out' = out
  BY DEF PublishLoaded, calls
<1>2. /\ allocs \in Nat /\ entries \subseteq Entry /\ snap \in [Cells -> Table]
      /\ kernel \in FileKernel
  BY DEF TableInv, TypeOK
<1>3. /\ kernel.cell \in Cells
      /\ \A c \in Cells : snap'[c] = IF c = kernel.cell THEN table ELSE snap[c]
  BY <1>1, <1>2 DEF FileKernel
<1>4. /\ table.schema = kernel.schema /\ table.offline = home /\ table.online = 0
      /\ home \in Nat /\ home = allocs + 1 /\ home # 0
      /\ \A e \in rows : e.home = home /\ e.schema = kernel.schema
  BY <1>2 DEF LoadedTable
<1>5. \A u \in Threads : pc[u] # "publish"
  BY <1>1, NoneAssumption DEF TableInv, MutexHeld
<1>6. \A a \in InHand : /\ a.online \in Nat /\ a.offline \in Nat
                        /\ a.online <= allocs /\ a.offline <= allocs
  BY InHandType, GenerationType DEF CallsInv, HomesHaveSchemas, TableInv
<1>7. \A e \in entries : e.home \in Nat /\ e.home <= allocs
  BY <1>2 DEF TableInv, HomesApart, Entry
<1> HIDE DEF home, rows, table
<1>8. InHand' \subseteq InHand \cup {table}
  BY <1>1, <1>3 DEF InHand
<1>9. Homes(table) = {home} /\ \A a \in InHand : home \notin Homes(a)
  BY <1>2, <1>4, <1>6 DEF Homes
<1>10. HomesHaveSchemas'
  <2>1. \A a \in InHand' : a.online <= allocs' /\ a.offline <= allocs'
    BY <1>1, <1>2, <1>4, <1>6, <1>8
  <2>2. \A a, b \in InHand' : Homes(a) \cap Homes(b) # {} => a.schema = b.schema
    BY <1>8, <1>9 DEF CallsInv, HomesHaveSchemas
  <2>3. \A a \in InHand', e \in entries' : e.home \in Homes(a) => e.schema = a.schema
    <3>1. ASSUME NEW a \in InHand \cup {table}, NEW e \in entries \cup rows, e.home \in Homes(a)
          PROVE  e.schema = a.schema
      <4>1. CASE e \in rows
        <5>1. a = table
          BY <3>1, <4>1, <1>4, <1>9
        <5>2. QED
          BY <4>1, <5>1, <1>4
      <4>2. CASE e \in entries
        <5>1. a \in InHand
          BY <3>1, <4>2, <1>2, <1>4, <1>7, <1>9
        <5>2. QED
          BY <3>1, <4>2, <5>1 DEF CallsInv, HomesHaveSchemas
      <4>3. QED
        BY <4>1, <4>2
    <3>2. QED
      BY <3>1, <1>1, <1>8
  <2>4. QED
    BY <2>1, <2>2, <2>3 DEF HomesHaveSchemas, Homes
<1>11. OnlineIsLater'
  BY <1>4, <1>8 DEF CallsInv, OnlineIsLater
<1>12. ASSUME NEW u \in Threads, pc[u] \in Resolving
       PROVE  Generation(snap[req[u].cell]) <= (Generation(snap[req[u].cell]))'
  <2>1. req[u].cell \in Cells /\ snap[req[u].cell] \in InHand /\ snap[req[u].cell] \in Table
    BY <1>12, RequestType DEF TableInv
  <2>2. Generation(snap[req[u].cell]) \in Nat /\ Generation(snap[req[u].cell]) <= allocs
    BY <2>1, <1>6, GenerationType
  <2>3. (Generation(snap[req[u].cell]))' = Generation(snap'[req[u].cell])
    BY <1>1 DEF Generation
  <2>4. Generation(table) = home
    BY <1>4 DEF Generation
  <2>5. QED
    BY <2>1, <2>2, <2>3, <2>4, <1>2, <1>3, <1>4
<1>13. ASSUME NEW u \in Threads PROVE CallInv(u)'
  BY <1>1, <1>5, <1>12, CallKept DEF CallsInv, TableInv
<1>14. QED
  BY <1>10, <1>11, <1>13 DEF CallsInv

\* clear() leaves no table, no row and no result, and no call is under way.
LEMMA ClearCalls ==
  ASSUME TableInv, CallsInv, Clear
  PROVE  CallsInv'
<1>1. /\ entries' = {} /\ \A c \in Cells : snap'[c] = NoTable
      /\ \A t \in Threads : tbl'[t] = NoTable /\ out'[t] = None /\ pc'[t] = "idle"
      /\ allocs' \in Nat
  BY DEF Clear, TableInv, TypeOK
<1>2. InHand' \subseteq {NoTable}
  BY <1>1 DEF InHand
<1>3. HomesHaveSchemas' /\ OnlineIsLater'
  BY <1>1, <1>2 DEF HomesHaveSchemas, OnlineIsLater, NoTable
<1>4. \A t \in Threads : CallInv(t)'
  BY <1>1 DEF CallInv, GenerationGrows, TokenSpells, OutIsRow, OwnAnswer, PendingRow,
     Resolving, Owning
<1>5. QED
  BY <1>3, <1>4 DEF CallsInv

\* Steps that leave the tables and every call alone.
LEMMA StutterCalls ==
  ASSUME TableInv, TypeOK', CallsInv, UNCHANGED <<store, pc, req, tbl, tok, out>>
  PROVE  CallsInv'
<1>1. entries' = entries /\ snap' = snap /\ allocs' = allocs /\ InHand' = InHand
  BY DEF store, InHand
<1>2. HomesHaveSchemas' /\ OnlineIsLater'
  BY <1>1, HandKept
<1>3. ASSUME NEW u \in Threads PROVE CallInv(u)'
  <2>1. (Generation(snap[req[u].cell]))' = Generation(snap[req[u].cell])
    BY <1>1 DEF Generation
  <2>2. pc[u] \in Resolving =>
          Generation(snap[req[u].cell]) <= (Generation(snap[req[u].cell]))'
    BY <2>1, RequestType, GenerationType DEF TableInv
  <2>3. QED
    BY <2>2, <1>1, CallKept DEF CallsInv, TableInv
<1>4. QED
  BY <1>2, <1>3 DEF CallsInv

LEMMA CallsInvInit == Init => CallsInv
<1> SUFFICES ASSUME Init PROVE CallsInv
  OBVIOUS
<1>1. InHand \subseteq {NoTable}
  BY DEF Init, InHand
<1>2. HomesHaveSchemas /\ OnlineIsLater
  BY <1>1 DEF Init, HomesHaveSchemas, OnlineIsLater, NoTable
<1>3. \A t \in Threads : CallInv(t)
  BY DEF Init, CallInv, GenerationGrows, TokenSpells, OutIsRow, OwnAnswer, PendingRow,
     Resolving, Owning
<1>4. QED
  BY <1>2, <1>3 DEF CallsInv

LEMMA CallsInvNext == TableInv /\ TableInv' /\ CallsInv /\ [Next]_vars => CallsInv'
<1> SUFFICES ASSUME TableInv, TypeOK', CallsInv, [Next]_vars PROVE CallsInv'
  BY DEF TableInv
<1>1. CASE Environment
  <2>1. CASE \E r \in Resolvers \cup {None} : SetResolver(r)
    BY <2>1, StutterCalls DEF SetResolver, calls
  <2>2. CASE Freeze \/ Thaw
    BY <2>2, StutterCalls DEF Freeze, Thaw, calls
  <2>3. QED
    BY <1>1, <2>1, <2>2, ResolveCalls, PassiveCalls, ClearCalls DEF Environment
<1>2. ASSUME NEW t \in Threads, ResolveStep(t)
      PROVE  CallsInv'
  BY <1>2, KernelCalls, SearchCalls, CallResolverCalls, TokenCalls, KeepCalls, AppendCalls,
     PublishCalls, PassiveCalls, FulfilCalls DEF ResolveStep, InsertResolved
<1>3. ASSUME NEW t \in Threads, LoadStep(t)
      PROVE  CallsInv'
  BY <1>3, LoadedCalls, PassiveCalls DEF LoadStep
<1>4. CASE UNCHANGED vars
  BY <1>4, StutterCalls DEF vars, store
<1>5. QED
  BY <1>1, <1>2, <1>3, <1>4 DEF Next

\* Along every call the generation of its slot only grows, its token spells its
\* key, and what its owner has in hand is a row of the key and of the slot's
\* schema: by induction over the steps of resolve(), load() and clear().
THEOREM CallsCorrect == Spec => []CallsInv
  BY CallsInvInit, CallsInvNext, TableCorrect, PTL DEF Spec

\* An owner never returns a row of a generation that load() had replaced before
\* it was called, although it reads the table once without a lock before its
\* flight and again in it.
THEOREM OwnersAreCurrent == Spec => []OwnersAnswerIsCurrent
<1>1. CallsInv => OwnersAnswerIsCurrent
  BY DEF CallsInv, CallInv, OwnAnswer, OwnersAnswerIsCurrent
<1>2. QED
  BY <1>1, CallsCorrect, PTL

\* A key and what stands for it in a token are in one bucket of every schema.
LEMMA SpelledAlike ==
  ASSUME StableBuckets, NEW key \in Norms, NEW asked \in Keys, Spells(key, asked),
         NEW s \in Schemas
  PROVE  Norm[s][key] = Norm[s][asked]
  BY KeysAssumption DEF StableBuckets, Spells

\* A waiter's key is in the bucket of the row its owner has.
LEMMA WaiterFits ==
  ASSUME StableBuckets, TypeOK, CallsInv, WaitersHaveOwner,
         NEW t \in Threads, NEW u \in Threads, pc[u] = "wait", lead[u] = t,
         NEW e \in Live(t)
  PROVE  e.key = Norm[e.schema][req[u].key]
<1>1. pc[t] \in Owning /\ tok[t] = tok[u]
  BY DEF WaitersHaveOwner
<1>2. /\ req[t].key \in Keys /\ req[u].key \in Keys
  BY <1>1, RequestType DEF Resolving
<1>3. tok[u] \in Tokens
  BY DEF TypeOK
<1>4. tok[u][2] \in Norms
  BY <1>3 DEF Tokens
<1>5. Spells(tok[u][2], req[t].key) /\ Spells(tok[u][2], req[u].key)
  BY <1>1 DEF CallsInv, CallInv, TokenSpells
<1>6. e \in Entry
  BY DEF Live, TypeOK
<1>7. e.schema \in Schemas
  BY <1>6 DEF Entry
<1>8. e.key = Norm[e.schema][req[t].key]
  BY <1>1 DEF CallsInv, CallInv, OwnAnswer
<1>9. QED
  BY <1>2, <1>4, <1>5, <1>7, <1>8, SpelledAlike

\* What a step may make of the row that a call has in hand.
LEMMA FitKept ==
  ASSUME TypeOK, TypeOK', CallsInv, CallsInv', AnswerFitsKey, NEW t \in Threads,
         \/ out'[t] = out[t] /\ req'[t] = req[t] /\ entries \subseteq entries'
         \/ out'[t] \in {None, Raised, FrozenMiss}
         \/ pc'[t] \in Owning
  PROVE  req'[t] # None => \A e \in Live(t)' : e.key = Norm[e.schema][req'[t].key]
<1>1. CASE out'[t] = out[t] /\ req'[t] = req[t] /\ entries \subseteq entries'
  <2>1. Live(t)' = Live(t)
    BY <1>1, NoneAssumption DEF CallsInv, CallInv, OutIsRow, Live, TypeOK
  <2>2. QED
    BY <1>1, <2>1 DEF AnswerFitsKey
<1>2. CASE out'[t] \in {None, Raised, FrozenMiss}
  <2>1. entries' \subseteq Entry
    BY DEF TypeOK
  <2>2. Live(t)' = {}
    BY <1>2, <2>1, NoneAssumption DEF Live
  <2>3. QED
    BY <2>2
<1>3. CASE pc'[t] \in Owning
  BY <1>3 DEF CallsInv, CallInv, OwnAnswer
<1>4. QED
  BY <1>1, <1>2, <1>3

LEMMA FitNext ==
  StableBuckets /\ TableInv /\ TableInv' /\ CallsInv /\ CallsInv' /\ FlightInv /\ AnswerFitsKey
    /\ [Next]_vars => AnswerFitsKey'
<1> SUFFICES ASSUME StableBuckets, TableInv, TypeOK', CallsInv, CallsInv', FlightInv,
                    AnswerFitsKey, [Next]_vars, NEW u \in Threads
             PROVE  req'[u] # None => \A e \in Live(u)' : e.key = Norm[e.schema][req'[u].key]
  BY DEF AnswerFitsKey, TableInv
<1> USE DEF TableInv
<1>1. CASE Environment
  <2>1. \/ out'[u] = out[u] /\ req'[u] = req[u] /\ entries' = entries
        \/ out'[u] = None
    BY <1>1 DEF Environment, Resolve, LoadFile, SetResolver, Freeze, Thaw, Clear, Leave, Goto,
       TypeOK, store, calls
  <2>2. QED
    BY <2>1, FitKept
<1>2. ASSUME NEW t \in Threads, ResolveStep(t)
      PROVE  req'[u] # None => \A e \in Live(u)' : e.key = Norm[e.schema][req'[u].key]
  <2>1. CASE Search(t)
    <3> DEFINE found == Lookup(tbl[t], req[t].key)
    <3>1. /\ req' = req /\ entries' = entries
          /\ out' = out \/ out' = [out EXCEPT ![t] = found]
      BY <2>1 DEF Search, Leave, store, calls
    <3>2. tbl[t] \in InHand /\ out \in [Threads -> Entry \cup {None, Raised, FrozenMiss}]
      BY DEF InHand, TypeOK
    <3>3. found # None => found.key = Norm[found.schema][req[t].key]
      BY <3>2, AnswerOfTable
    <3> HIDE DEF found
    <3>4. CASE out'[u] = out[u] \/ found = None
      BY <3>1, <3>2, <3>4, FitKept
    <3>5. CASE out'[u] # out[u] /\ found # None
      <4>1. u = t /\ out'[u] = found
        BY <3>1, <3>2, <3>5
      <4>2. QED
        BY <3>1, <3>3, <3>5, <4>1 DEF Live
    <3>6. QED
      BY <3>4, <3>5
  <2>2. CASE Fulfil(t)
    <3>1. /\ req' = req /\ entries' = entries /\ pc[t] = "fulfil"
          /\ \/ out'[u] = out[u]
             \/ pc[u] = "wait" /\ lead[u] = t /\ out'[u] = out[t]
      BY <2>2 DEF Fulfil, Told, store, calls
    <3>2. CASE out'[u] = out[u]
      BY <3>1, <3>2, FitKept
    <3>3. CASE pc[u] = "wait" /\ lead[u] = t /\ out'[u] = out[t]
      <4>1. Live(u)' = Live(t)
        BY <3>1, <3>3 DEF Live
      <4>2. QED
        BY <3>1, <3>3, <4>1, WaiterFits DEF FlightInv
    <3>4. QED
      BY <3>1, <3>2, <3>3
  <2>3. CASE ~Search(t) /\ ~Fulfil(t)
    <3>1. req' = req /\ entries \subseteq entries' /\ out \in [Threads -> Entry \cup {None, Raised, FrozenMiss}]
          /\ pc \in [Threads -> {"idle", "load"} \cup Resolving]
      BY <1>2, <2>3 DEF ResolveStep, FindKernel, RefindKernel, Kernel, RefuseIfFrozen, MakeToken,
         JoinFlight, Research, CallResolver, ResolverDeclines, ResolverThrows, ResolverAnswers,
         InsertResolved, RejectAnswer, KeepPublished, AppendNode, PublishResolved, EraseFlight,
         store, calls, TypeOK
    <3>2. \/ out'[u] = out[u]
          \/ out'[u] \in {None, Raised, FrozenMiss}
          \/ u = t /\ pc'[t] \in Owning
      BY <1>2, <2>3, <3>1 DEF ResolveStep, FindKernel, RefindKernel, Kernel, RefuseIfFrozen,
         MakeToken, JoinFlight, Research, CallResolver, ResolverDeclines, ResolverThrows,
         ResolverAnswers, InsertResolved, RejectAnswer, KeepPublished, AppendNode,
         PublishResolved, EraseFlight, Leave, Goto, Owning
    <3>3. QED
      BY <3>1, <3>2, FitKept
  <2>4. QED
    BY <2>1, <2>2, <2>3
<1>3. ASSUME NEW t \in Threads, LoadStep(t)
      PROVE  req'[u] # None => \A e \in Live(u)' : e.key = Norm[e.schema][req'[u].key]
  <2>1. out' = out /\ req' = req /\ entries \subseteq entries'
    BY <1>3 DEF LoadStep, PublishLoaded, LoadReturns, store, calls
  <2>2. QED
    BY <2>1, FitKept
<1>4. CASE UNCHANGED vars
  <2>1. out' = out /\ req' = req /\ entries \subseteq entries'
    BY <1>4 DEF vars
  <2>2. QED
    BY <2>1, FitKept
<1>5. QED
  BY <1>1, <1>2, <1>3, <1>4 DEF Next

\* If the files never change the buckets of a kernel, every caller of resolve() is
\* given the row of its own key, waiters too, who have it from an owner that was
\* asked for another key with the same token.  Without the hypothesis owners still
\* are (OwnAnswer in CallsCorrect); waiters are not (SharedAnswerFitsKey).
THEOREM AnswersFit == StableBuckets /\ Spec => []AnswerFitsKey
<1> SUFFICES ASSUME StableBuckets PROVE Spec => []AnswerFitsKey
  OBVIOUS
<1>1. Init => AnswerFitsKey
  BY DEF Init, AnswerFitsKey, Live
<1>2. Spec => []TableInv /\ []CallsInv
  BY TableCorrect, CallsCorrect, PTL
<1>3. Spec => []FlightInv
  BY FlightInit, FlightNext, TypeCorrect, PTL DEF Spec
<1>4. TableInv /\ TableInv' /\ CallsInv /\ CallsInv' /\ FlightInv /\ AnswerFitsKey /\ [Next]_vars
        => AnswerFitsKey'
  BY FitNext
<1>5. QED
  BY <1>1, <1>2, <1>3, <1>4, PTL DEF Spec

-----------------------------------------------------------------------------
(* Waiters.                                                                  *)

\* A waiter is woken by the owner it joined and by nobody else, with the owner's
\* answer: nothing older than the owner's call is handed out through a flight,
\* however many files were loaded while it was pending.
THEOREM WaitersAreRecent == Spec => WaitersAnswerIsRecent
<1>1. TypeOK /\ CallsInv /\ [Next]_vars =>
        [\A t \in Threads : pc[t] = "wait" /\ pc'[t] # "wait" =>
           \A e \in entries \cap {out'[t]} : e.home >= req[lead[t]].since]_vars
  <2> SUFFICES ASSUME TypeOK, CallsInv, Next, NEW u \in Threads, pc[u] = "wait", pc'[u] # "wait",
                      NEW e \in entries \cap {out'[u]}
               PROVE  e.home >= req[lead[u]].since
    OBVIOUS
  <2>1. pc \in [Threads -> {"idle", "load"} \cup Resolving]
    BY DEF TypeOK
  <2>2. ~Environment
    BY <2>1 DEF Environment, Resolve, LoadFile, SetResolver, Freeze, Thaw, Clear, Leave, Goto
  <2>3. PICK t \in Threads : ResolveStep(t) \/ LoadStep(t)
    BY <2>2 DEF Next
  <2>4. Fulfil(t)
    BY <2>1, <2>3 DEF ResolveStep, LoadStep, PublishLoaded, LoadReturns, FindKernel, RefindKernel,
       Kernel, Search, RefuseIfFrozen, MakeToken, JoinFlight, Research, CallResolver,
       ResolverDeclines, ResolverThrows, ResolverAnswers, InsertResolved, RejectAnswer,
       KeepPublished, AppendNode, PublishResolved, EraseFlight, Leave, Goto
  <2>5. u \in Told(t) /\ out'[u] = out[t] /\ pc[t] = "fulfil"
    BY <2>1, <2>4 DEF Fulfil
  <2>6. lead[u] = t
    BY <2>5 DEF Told
  <2>7. OwnAnswer(t) /\ e \in Live(t)
    BY <2>5 DEF CallsInv, CallInv, Live
  <2>8. QED
    BY <2>5, <2>6, <2>7 DEF OwnAnswer, Owning
<1>2. QED
  BY <1>1, TypeCorrect, CallsCorrect, PTL DEF Spec, WaitersAnswerIsRecent

-----------------------------------------------------------------------------
(* Readers see an append-only cache of answers.                              *)

LEMMA CacheInit == Init => Cache!Init
  BY DEF Init, Cache!Init, Cache!Empty, Generation, Lookup, NoTable

\* A slot whose table is kept, and whose storages get no row, answers as before.
LEMMA AnswerKept ==
  ASSUME NEW c \in Cells, NEW key, snap'[c] = snap[c], entries \subseteq entries',
         \A e \in entries' \ entries : e.home \notin {snap[c].online, snap[c].offline}
  PROVE  /\ Lookup(snap[c], key)' = Lookup(snap[c], key)
         /\ Generation(snap[c])' = Generation(snap[c])
<1>1. /\ RowsFor(snap[c].online, snap[c], key)' = RowsFor(snap[c].online, snap[c], key)
      /\ RowsFor(snap[c].offline, snap[c], key)' = RowsFor(snap[c].offline, snap[c], key)
  BY DEF RowsFor
<1>2. QED
  BY <1>1 DEF Lookup, Generation

\* What makes a step of the table a step of the cache.
LEMMA CacheStutters ==
  ASSUME \A c \in Cells : /\ Generation(snap[c])' = Generation(snap[c])
                          /\ \A k \in Keys : Lookup(snap[c], k)' = Lookup(snap[c], k)
  PROVE  UNCHANGED Cache!cacheVars
  BY DEF Cache!cacheVars

LEMMA CacheLearns ==
  ASSUME NEW c \in Cells, NEW bucket \in SUBSET Keys, NEW key \in bucket, NEW row, row # None,
         \A d \in Cells : Generation(snap[d])' = Generation(snap[d]),
         \A d \in Cells \ {c} : \A k \in Keys : Lookup(snap[d], k)' = Lookup(snap[d], k),
         \A k \in bucket : Lookup(snap[c], k) = None /\ Lookup(snap[c], k)' = row,
         \A k \in Keys \ bucket : /\ Lookup(snap[c], k)' = Lookup(snap[c], k)
                                  /\ Lookup(snap[c], k) # row
  PROVE  Cache!Learn(c)
<1> DEFINE before == [d \in Cells |-> [k \in Keys |-> Lookup(snap[d], k)]]
           after == [d \in Cells |-> [k \in Keys |-> Lookup(snap[d], k)']]
<1>1. bucket = {k \in Keys : after[c][k] = row}
  OBVIOUS
<1>2. key \in Keys \ Cache!Answered(c) /\ bucket \cap Cache!Answered(c) = {}
  BY DEF Cache!Answered
<1>3. after = [before EXCEPT ![c] =
                 [k \in Keys |-> IF k \in bucket THEN row ELSE before[c][k]]]
  <2>1. ASSUME NEW d \in Cells
        PROVE  after[d] = IF d = c THEN [k \in Keys |-> IF k \in bucket THEN row ELSE before[c][k]]
                                   ELSE before[d]
    OBVIOUS
  <2>2. QED
    BY <2>1
<1>4. after[c][key] = row
  OBVIOUS
<1>5. [d \in Cells |-> Generation(snap[d])]' = [d \in Cells |-> Generation(snap[d])]
  OBVIOUS
<1>6. [d \in Cells |-> [k \in Keys |-> Lookup(snap[d], k)]]' = after
  OBVIOUS
<1>7. /\ key \in Keys \ Cache!Answered(c)
      /\ after[c][key] # None
      /\ {k \in Keys : after[c][k] = after[c][key]} \cap Cache!Answered(c) = {}
      /\ after = [before EXCEPT ![c] =
                    [k \in Keys |-> IF k \in {b \in Keys : after[c][b] = after[c][key]}
                                   THEN after[c][key] ELSE before[c][k]]]
  BY <1>1, <1>2, <1>3, <1>4
<1> HIDE DEF after
<1>8. QED
  BY ONLY <1>5, <1>6, <1>7 DEF Cache!Learn, before

LEMMA CacheBinds ==
  ASSUME NEW c \in Cells,
         Generation(snap[c])' > Generation(snap[c]),
         \A d \in Cells \ {c} : /\ Generation(snap[d])' = Generation(snap[d])
                                /\ \A k \in Keys : Lookup(snap[d], k)' = Lookup(snap[d], k)
  PROVE  Cache!Bind(c)
  BY DEF Cache!Bind

LEMMA StoreKept ==
  ASSUME UNCHANGED store
  PROVE  UNCHANGED Cache!cacheVars
<1>1. entries' = entries /\ snap' = snap
  BY DEF store
<1>2. QED
  BY <1>1, AnswerKept, CacheStutters

\* Storages are older than the next one, and rows are rows.
LEMMA HomesInUse ==
  ASSUME TableInv, NEW c \in Cells
  PROVE  /\ snap[c] \in Table
         /\ snap[c].online \in 0 .. allocs /\ snap[c].offline \in 0 .. allocs
         /\ allocs \in Nat
         /\ Generation(snap[c]) \in 0 .. allocs
<1>1. snap[c] \in Table /\ allocs \in Nat
  BY DEF TableInv, TypeOK
<1>2. QED
  BY <1>1, GenerationType DEF TableInv, HomesApart

\* Searches for keys in one bucket give one answer.
LEMMA SameBucket ==
  ASSUME NEW table, NEW a, NEW b, Norm[table.schema][a] = Norm[table.schema][b]
  PROVE  Lookup(table, a) = Lookup(table, b)
<1>1. \A home : RowsFor(home, table, a) = RowsFor(home, table, b)
  BY DEF RowsFor
<1>2. QED
  BY <1>1 DEF Lookup

LEMMA OnlyRow == ASSUME NEW e, e.at \in Nat PROVE Newest({e}) = e
  BY DEF Newest

\* A node pushed on the storage of the published table is the answer to the keys of
\* its bucket, which had none.
LEMMA AppendLearns ==
  ASSUME TableInv, TableInv', CallsInv, NEW t \in Threads, AppendNode(t),
         NEW cell \in Cells, NEW key \in Keys, req[t].cell = cell, req[t].key = key,
         snap[cell].online # 0
  PROVE  Cache!Learn(cell)
<1> DEFINE current == snap[cell]
           node == [home |-> OnlineHome(current), schema |-> ans[t].schema,
                    key |-> RowKey(t), at |-> allocs + 1]
           bucket == {k \in Keys : Norm[current.schema][k] = node.key}
<1>1. /\ pc[t] = "insert" /\ Lookup(current, key) = None
      /\ entries' = entries \cup {node} /\ snap' = snap
      /\ ~Disagrees(t)
  BY DEF AppendNode, Published, Leave, Goto
<1>2. current \in Table /\ current' = current
  BY <1>1 DEF TableInv, TypeOK
<1>3. current.online # 0 /\ current # NoTable
  BY DEF NoTable
<1>4. node.home = current.online /\ node.schema = current.schema
      /\ node.key = Norm[current.schema][key] /\ node.at = allocs + 1
  BY <1>1, <1>3 DEF OnlineHome, RowKey, Disagrees
<1>5. key \in bucket /\ node \in entries'
  BY <1>1, <1>2, <1>4
<1>6. node # None /\ node.at \in Nat
  BY <1>5, <1>4, HomesInUse, AbsentIsNoRow, NoneAssumption DEF TableInv, TypeOK
<1> HIDE DEF node
<1>7. ASSUME NEW d \in Cells \ {cell}, NEW k \in Keys
      PROVE  Lookup(snap[d], k)' = Lookup(snap[d], k)
  <2>1. snap[d].online # node.home /\ snap[d].offline # node.home
    BY <1>2, <1>3, <1>4 DEF TableInv, HomesApart
  <2>2. QED
    BY <2>1, <1>1, AnswerKept
<1>8. /\ current.offline # node.home
      /\ \A k : RowsFor(current.offline, current, k)' = RowsFor(current.offline, current, k)
  <2>1. current.offline # node.home
    BY <1>2, <1>3, <1>4 DEF TableInv, HomesApart
  <2>2. QED
    BY <2>1, <1>1, <1>2 DEF RowsFor
<1>9. ASSUME NEW k \in bucket
      PROVE  Lookup(snap[cell], k) = None /\ Lookup(snap[cell], k)' = node
  <2>1. Lookup(current, k) = None
    BY <1>1, <1>4, SameBucket
  <2>2. RowsFor(current.online, current, k) = {}
    BY <2>1, <1>3, MissHasNoRow DEF TableInv, TypeOK, RowsAreUnique
  <2>3. RowsFor(current.online, current, k)' = {node}
    BY <2>2, <1>1, <1>2, <1>4 DEF RowsFor
  <2>4. Lookup(snap[cell], k)' = Newest({node})
    BY <2>3, <1>1, <1>2, <1>3 DEF Lookup
  <2>5. QED
    BY <2>1, <2>4, <1>6, OnlyRow
<1>10. node \notin entries
  <2>1. RowsFor(current.online, current, key) = {}
    BY <1>1, <1>3, MissHasNoRow DEF TableInv, TypeOK, RowsAreUnique
  <2>2. QED
    BY <2>1, <1>4 DEF RowsFor
<1>11. ASSUME NEW k \in Keys \ bucket
       PROVE  Lookup(snap[cell], k)' = Lookup(snap[cell], k) /\ Lookup(snap[cell], k) # node
  <2>1. RowsFor(current.online, current, k)' = RowsFor(current.online, current, k)
    BY <1>1, <1>2 DEF RowsFor
  <2>2. Lookup(snap[cell], k)' = Lookup(snap[cell], k)
    BY <2>1, <1>1, <1>2, <1>8 DEF Lookup
  <2>3. Lookup(current, k) # None => Lookup(current, k) \in entries
    BY LookupFindsRow DEF TableInv, TypeOK, RowsAreUnique
  <2>4. QED
    BY <2>2, <2>3, <1>6, <1>10
<1>12. \A d \in Cells : Generation(snap[d])' = Generation(snap[d])
  BY <1>1 DEF Generation
<1>13. bucket \in SUBSET Keys
  OBVIOUS
<1> HIDE DEF bucket
<1>14. QED
  BY <1>2, <1>5, <1>6, <1>7, <1>9, <1>11, <1>12, <1>13, CacheLearns

\* Otherwise the node is in a storage that nobody can see yet.
LEMMA AppendHides ==
  ASSUME TableInv, NEW t \in Threads, AppendNode(t), req[t].cell \in Cells,
         snap[req[t].cell].online = 0
  PROVE  UNCHANGED Cache!cacheVars
<1>1. /\ snap' = snap /\ entries \subseteq entries'
      /\ \A e \in entries' \ entries : e.home = allocs + 1
  BY DEF AppendNode, OnlineHome
<1>2. ASSUME NEW c \in Cells, NEW k \in Keys
      PROVE  Lookup(snap[c], k)' = Lookup(snap[c], k) /\ Generation(snap[c])' = Generation(snap[c])
  <2>1. allocs + 1 \notin {snap[c].online, snap[c].offline}
    BY HomesInUse
  <2>2. QED
    BY <1>1, <2>1, AnswerKept
<1>3. \A c \in Cells : Generation(snap[c])' = Generation(snap[c])
  BY <1>1 DEF Generation
<1>4. QED
  BY <1>2, <1>3, CacheStutters

\* Publishing a table that is not in its slot yet: its one online row is the answer
\* to the keys of its bucket, or, if there was no file, the first of a generation.
LEMMA PublishShows ==
  ASSUME TableInv, TableInv', CallsInv, NEW t \in Threads, PublishResolved(t),
         NEW cell \in Cells, NEW key \in Keys, req[t].cell = cell, req[t].key = key
  PROVE  [Cache!Next]_(Cache!cacheVars)
<1> DEFINE current == snap[cell]
           row == out[t]
           bucket == {k \in Keys : Norm[current.schema][k] = row.key}
<1>1. /\ pc[t] = "publish" /\ snap' = [snap EXCEPT ![cell] = tbl[t]]
      /\ entries' = entries
  BY DEF PublishResolved, Goto
<1>2. /\ snap'[cell] = tbl[t] /\ \A d \in Cells \ {cell} : snap'[d] = snap[d]
      /\ current \in Table /\ tbl[t] \in Table
  BY <1>1 DEF TableInv, TypeOK
<1>3. /\ row \in entries /\ row.home = tbl[t].online
      /\ current.online # 0 => tbl[t] = current
      /\ current.online = 0 =>
           /\ \A e \in entries : e.home = tbl[t].online => e = row
           /\ current # NoTable => current.schema = tbl[t].schema
           /\ Lookup(current, key) = None
  BY <1>1 DEF CallsInv, CallInv, PendingRow
<1>4. /\ tbl[t] # NoTable /\ tbl[t].online \in 1 .. allocs
      /\ tbl[t].offline = current.offline
      /\ current.offline # tbl[t].online
  BY <1>1 DEF TableInv, PendingExtends
<1>5. \A d \in Cells \ {cell} : /\ Generation(snap[d])' = Generation(snap[d])
                                /\ \A k \in Keys : Lookup(snap[d], k)' = Lookup(snap[d], k)
  BY <1>1, <1>2, AnswerKept
<1>6. CASE current.online # 0
  <2>1. snap'[cell] = snap[cell]
    BY <1>2, <1>3, <1>6
  <2>2. QED
    BY <1>1, <1>5, <2>1, AnswerKept, CacheStutters
<1>7. CASE current.online = 0 /\ current.offline = 0
  <2>1. Generation(snap[cell]) = 0 /\ Generation(snap[cell])' = tbl[t].online
    BY <1>2, <1>4, <1>7 DEF Generation
  <2>2. Cache!Bind(cell)
    BY <1>4, <1>5, <2>1, CacheBinds
  <2>3. QED
    BY <2>2 DEF Cache!Next
<1>8. CASE current.online = 0 /\ current.offline # 0
  <2>1. current # NoTable /\ tbl[t].schema = current.schema
    BY <1>3, <1>8 DEF NoTable
  <2>2. row.schema = current.schema /\ row.key = Norm[current.schema][key]
    <3>1. row.schema = tbl[t].schema
      BY <1>3, <1>4 DEF CallsInv, HomesHaveSchemas, InHand, Homes
    <3>2. row.key = Norm[row.schema][req[t].key]
      BY <1>1, <1>3 DEF CallsInv, CallInv, OwnAnswer, Owning, Live
    <3>3. QED
      BY <2>1, <3>1, <3>2
  <2>3. row \in Entry /\ row # None /\ row.at \in Nat
    BY <1>3, AbsentIsNoRow DEF TableInv, TypeOK, Entry
  <2>4. ASSUME NEW k \in Keys
        PROVE  /\ RowsFor(current.online, current, k) = {}
               /\ RowsFor(snap[cell].offline, snap[cell], k)' = RowsFor(current.offline, current, k)
               /\ RowsFor(snap[cell].online, snap[cell], k)' = IF k \in bucket THEN {row} ELSE {}
    <3>1. \A e \in entries : e.home # 0
      BY DEF TableInv, HomesApart
    <3>2. QED
      BY <1>1, <1>2, <1>3, <1>4, <1>8, <2>1, <3>1 DEF RowsFor
  <2>5. ASSUME NEW k \in bucket
        PROVE  Lookup(snap[cell], k) = None /\ Lookup(snap[cell], k)' = row
    <3>1. Lookup(snap[cell], k) = None
      BY <1>3, <1>8, <2>2, SameBucket
    <3>2. Lookup(snap[cell], k)' = Newest({row})
      BY <1>2, <1>4, <2>4 DEF Lookup
    <3>3. QED
      BY <3>1, <3>2, <2>3, OnlyRow
  <2>6. ASSUME NEW k \in Keys \ bucket
        PROVE  Lookup(snap[cell], k)' = Lookup(snap[cell], k) /\ Lookup(snap[cell], k) # row
    <3>1. Lookup(snap[cell], k)' = Lookup(snap[cell], k)
      BY <1>2, <1>4, <2>1, <2>4 DEF Lookup
    <3>2. Lookup(current, k) # None => Lookup(current, k).home # row.home
      BY <1>3, <1>4, <1>8, LookupFindsRow DEF TableInv, TypeOK, RowsAreUnique
    <3>3. QED
      BY <3>1, <3>2, <2>3
  <2>7. \A d \in Cells : Generation(snap[d])' = Generation(snap[d])
    BY <1>2, <1>4, <1>5, <1>8 DEF Generation
  <2>8. key \in bucket /\ bucket \in SUBSET Keys
    BY <2>2
  <2> HIDE DEF bucket, row
  <2>9. /\ \A d \in Cells \ {cell} : \A k \in Keys : Lookup(snap[d], k)' = Lookup(snap[d], k)
        /\ \A k \in bucket : Lookup(snap[cell], k) = None /\ Lookup(snap[cell], k)' = row
        /\ \A k \in Keys \ bucket : /\ Lookup(snap[cell], k)' = Lookup(snap[cell], k)
                                    /\ Lookup(snap[cell], k) # row
    BY <1>5, <2>5, <2>6
  <2>10. Cache!Learn(cell)
    BY ONLY <2>3, <2>7, <2>8, <2>9, CacheLearns, cell \in Cells
  <2>11. QED
    BY <2>10 DEF Cache!Next
<1>9. QED
  BY <1>6, <1>7, <1>8

\* A table of a file starts a later generation of its slot.
LEMMA LoadBinds ==
  ASSUME TableInv, NEW t \in Threads, NEW kernel \in todo[t], PublishLoaded(t, kernel)
  PROVE  Cache!Bind(kernel.cell)
<1>1. kernel.cell \in Cells
  BY DEF TableInv, TypeOK, FileKernel
<1> SUFFICES ASSUME NEW cell \in Cells, kernel.cell = cell
             PROVE  Cache!Bind(cell)
  BY <1>1
<1>2. /\ snap' = [snap EXCEPT ![cell] = LoadedTable(kernel, allocs + 1)]
      /\ entries \subseteq entries' /\ \A e \in entries' \ entries : e.home = allocs + 1
  BY DEF PublishLoaded
<1>3. Generation(snap[cell])' > Generation(snap[cell])
  <2>1. snap'[cell] = LoadedTable(kernel, allocs + 1)
    BY <1>2 DEF TableInv, TypeOK
  <2>2. Generation(snap[cell])' = allocs + 1
    BY <2>1, HomesInUse DEF Generation, LoadedTable
  <2>3. QED
    BY <2>2, HomesInUse
<1>4. ASSUME NEW d \in Cells \ {cell}
      PROVE  /\ Generation(snap[d])' = Generation(snap[d])
             /\ \A k \in Keys : Lookup(snap[d], k)' = Lookup(snap[d], k)
  <2>1. allocs + 1 \notin {snap[d].online, snap[d].offline}
    BY HomesInUse
  <2>2. snap'[d] = snap[d]
    BY <1>2 DEF TableInv, TypeOK
  <2>3. QED
    BY <1>2, <2>1, <2>2, AnswerKept
<1>5. QED
  BY <1>3, <1>4, CacheBinds

LEMMA ClearForgets == ASSUME Clear PROVE Cache!Forget
<1>1. \A c \in Cells : Generation(snap[c])' = 0 /\ \A k : Lookup(snap[c], k)' = None
  BY DEF Clear, Generation, Lookup, NoTable
<1>2. QED
  BY <1>1 DEF Cache!Forget, Cache!Empty

LEMMA CacheStep ==
  TableInv /\ TableInv' /\ CallsInv /\ [Next]_vars => [Cache!Next]_(Cache!cacheVars)
<1> SUFFICES ASSUME TableInv, TableInv', CallsInv, [Next]_vars
             PROVE  [Cache!Next]_(Cache!cacheVars)
  OBVIOUS
<1>1. CASE UNCHANGED store
  BY <1>1, StoreKept
<1>2. CASE Clear
  BY <1>2, ClearForgets DEF Cache!Next
<1>3. ASSUME NEW t \in Threads, NEW kernel \in todo[t], PublishLoaded(t, kernel)
      PROVE  [Cache!Next]_(Cache!cacheVars)
  BY <1>3, LoadBinds DEF Cache!Next, TableInv, TypeOK, FileKernel
<1>4. ASSUME NEW t \in Threads, AppendNode(t) \/ PublishResolved(t)
      PROVE  [Cache!Next]_(Cache!cacheVars)
  <2>1. req[t].cell \in Cells /\ req[t].key \in Keys
    BY <1>4, RequestType DEF AppendNode, PublishResolved, Leave, Goto, Resolving, Owning, TableInv
  <2>2. QED
    BY <1>4, <2>1, AppendLearns, AppendHides, PublishShows DEF Cache!Next
<1>5. CASE Environment
  BY <1>1, <1>2, <1>5 DEF Environment, Resolve, LoadFile, SetResolver, Freeze, Thaw, store
<1>6. ASSUME NEW t \in Threads, ResolveStep(t) \/ LoadStep(t)
      PROVE  [Cache!Next]_(Cache!cacheVars)
  <2>1. \/ UNCHANGED store
        \/ AppendNode(t) \/ PublishResolved(t)
        \/ \E kernel \in todo[t] : PublishLoaded(t, kernel)
    BY <1>6 DEF ResolveStep, LoadStep, LoadReturns, FindKernel, RefindKernel, Kernel, Search,
       RefuseIfFrozen, MakeToken, JoinFlight, Research, CallResolver, ResolverDeclines,
       ResolverThrows, ResolverAnswers, InsertResolved, RejectAnswer, KeepPublished,
       EraseFlight, Fulfil, store
  <2>2. QED
    BY <1>1, <1>3, <1>4, <2>1
<1>7. CASE UNCHANGED vars
  BY <1>1, <1>7 DEF vars, store
<1>8. QED
  BY <1>5, <1>6, <1>7 DEF Next

\* The lock-free snapshots, the online lists shared between them and the two mutexes
\* implement the append-only cache of AnswerCache: within a generation no reader
\* sees an answer change or go, whatever inserts race with it and with load().
THEOREM CacheRefined == Spec => ReadersSeeCache
  BY CacheInit, CacheStep, TableCorrect, CallsCorrect, PTL DEF Spec, ReadersSeeCache, Cache!Spec
=============================================================================
