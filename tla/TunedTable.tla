----------------------------- MODULE TunedTable -----------------------------
(***************************************************************************)
(* The tuned-configuration table of the runtime (src/src/tuned_config.cpp) *)
(* as seen by the threads that use it: lock-free readers, the single-flight *)
(* resolve() path in front of an online resolver, load() publishing files   *)
(* one kernel at a time, and ScopedFreeze guards of other threads.          *)
(*                                                                         *)
(* One step of this module is one access to shared state: a load of the     *)
(* published snapshot, a search of the table a thread has in hand, a        *)
(* critical section of resolve_mu_, the stores made under load_mu_.  What a *)
(* thread does with its own stack between two of those is part of the step. *)
(***************************************************************************)
EXTENDS Naturals

CONSTANTS
  Threads,      (* Threads that call resolve() and load().                  *)
  Kernels,      (* A kernel_id on a device, as a caller of resolve() has it. *)
  Cells,        (* A storage id on a device: one slot of a Snapshot.         *)
  Keys,         (* Raw keys (dims and dtypes) that callers ask for.          *)
  Norms,        (* Every key, raw or normalised, that can name a row.        *)
  Schemas,      (* The key_columns (names and strategies) a table can have.  *)
  Norm,         (* Norm[s][k]: the key k under schema s, or BadWidth.        *)
  BadWidth,     (* k has not as many columns as s.                           *)
  Resolvers,    (* The resolvers set_resolver() may install.                 *)
  Identity,     (* Identity[r][k]: the slot of kernel k under resolver r.    *)
  Files,        (* The files load() may be given: sets of FileKernel.        *)
  MaxResolves,  (* Bound: calls of resolve() in a behaviour.                 *)
  MaxLoads,     (* Bound: calls of load() in a behaviour.                    *)
  MaxFreezes,   (* Bound: ScopedFreeze guards alive at once.                 *)
  None,         (* nullptr / std::nullopt / no holder.                       *)
  Raised,       (* An exception other than FrozenMissError.                  *)
  FrozenMiss    (* FrozenMissError.                                          *)

\* One entry of a file's "kernels" array, after validation.
FileKernel == [cell : Cells, schema : Schemas, keys : SUBSET Norms]

ASSUME KeysAssumption == Keys \subseteq Norms /\ BadWidth \notin Norms
ASSUME NormAssumption == Norm \in [Schemas -> [Norms -> Norms \cup {BadWidth}]]
ASSUME IdentityAssumption ==
  /\ None \notin Resolvers
  /\ Identity \in [Resolvers \cup {None} -> [Kernels -> Cells]]
\* load() refuses a file that names a kernel identity twice, and rows that a
\* table's own normalisation would not find again.
ASSUME FilesAssumption ==
  \A f \in Files :
    /\ f \subseteq FileKernel
    /\ \A a, b \in f : a.cell = b.cell => a = b
    /\ \A a \in f : \A k \in a.keys : Norm[a.schema][k] = k
ASSUME BoundsAssumption ==
  /\ MaxResolves \in Nat
  /\ MaxLoads \in Nat
  /\ MaxFreezes \in Nat
VARIABLES
  entries,      (* Every Entry ever built: rows of files and online nodes.   *)
  allocs,       (* Number of allocations: the last address handed out.       *)
  snap,         (* The published Snapshot: the table in each slot.           *)
  loadMu,       (* Holder of load_mu_ across several steps, or None.         *)
  inflight,     (* inflight_: the owner of each pending token, or None.      *)
  resolver,     (* resolver_: the installed resolver, or None.               *)
  freezes,      (* freeze_depth: ScopedFreeze guards alive.                  *)
  pc,           (* Where each thread is.                                     *)
  req,          (* The arguments and captured resolver of its resolve().     *)
  tbl,          (* The table it has in hand.                                 *)
  tok,          (* The token of its flight.                                  *)
  lead,         (* The owner whose future it waits on.                       *)
  ans,          (* What the resolver answered it.                            *)
  out,          (* The result it is about to return, or returned last.       *)
  todo,         (* The kernels its load() has still to publish.              *)
  resolves,     (* Calls of resolve() so far (bounds the model).             *)
  loads         (* Calls of load() so far (bounds the model).                *)

vars == <<entries, allocs, snap, loadMu, inflight, resolver, freezes, pc, req,
          tbl, tok, lead, ans, out, todo, resolves, loads>>

-----------------------------------------------------------------------------
(* Data.                                                                     *)

\* A row.  Its address `at` stands for the TunedConfig* a caller is given;
\* `home` names the vector of rows (of a file) or the online storage it is in.
Entry == [home : Nat, schema : Schemas, key : Norms, at : Nat]

\* A TunedKernelTable: the file rows and the online storage it reads, 0 if none.
NoTable == [schema |-> None, offline |-> 0, online |-> 0]
Table == {NoTable} \cup [schema : Schemas, offline : Nat, online : Nat]

Tokens == Cells \X Norms
Request == [cell : Cells, key : Keys, resolver : Resolvers \cup {None}, since : Nat]
Answer == [schema : Schemas, scope : Cells \cup {None}]

\* The absent and the exceptional values are none of those they stand beside.
ASSUME NoneAssumption ==
  /\ None \notin Schemas \cup Threads \cup Cells
  /\ {None, Raised, FrozenMiss} \cap Entry = {}
  /\ None \notin Tokens \cup Request \cup Answer
  /\ None # Raised /\ None # FrozenMiss

\* The generation of a table: load() starts one, online inserts stay in it.
Generation(table) == IF table.offline # 0 THEN table.offline ELSE table.online

\* The node nearest the head of its bucket's list.
Newest(nodes) == CHOOSE e \in nodes : \A f \in nodes : f.at <= e.at

RowsFor(home, table, key) ==
  {e \in entries : e.home = home /\ e.key = Norm[table.schema][key]}

\* TunedKernelTable::find: the online list first, then the file's rows.
Lookup(table, key) ==
  IF table = NoTable THEN None
  ELSE IF RowsFor(table.online, table, key) # {}
       THEN Newest(RowsFor(table.online, table, key))
  ELSE IF RowsFor(table.offline, table, key) # {}
       THEN Newest(RowsFor(table.offline, table, key))
  ELSE None

-----------------------------------------------------------------------------
(* Where a thread is.  An owner is at "refind" .. "fulfil".                  *)

Owning == {"refind", "research", "call", "insert", "publish", "erase", "fulfil"}
Resolving == {"find", "search", "check", "token", "join", "wait"} \cup Owning

Init ==
  /\ entries = {}
  /\ allocs = 0
  /\ snap = [c \in Cells |-> NoTable]
  /\ loadMu = None
  /\ inflight = [token \in Tokens |-> None]
  /\ resolver = None
  /\ freezes = 0
  /\ pc = [t \in Threads |-> "idle"]
  /\ req = [t \in Threads |-> None]
  /\ tbl = [t \in Threads |-> NoTable]
  /\ tok = [t \in Threads |-> None]
  /\ lead = [t \in Threads |-> None]
  /\ ans = [t \in Threads |-> None]
  /\ out = [t \in Threads |-> None]
  /\ todo = [t \in Threads |-> {}]
  /\ resolves = 0
  /\ loads = 0

Goto(t, from, to) ==
  /\ pc[t] = from
  /\ pc' = [pc EXCEPT ![t] = to]

\* Thread t leaves `from` for `to` with the result v in hand.
Leave(t, from, to, v) ==
  /\ Goto(t, from, to)
  /\ out' = [out EXCEPT ![t] = v]

\* The variables that only the first steps of a call set.
calls == <<req, resolves, loads>>
\* The published data, and what set_resolver() and ScopedFreeze set.
store == <<entries, allocs, snap>>
policy == <<resolver, freezes>>

-----------------------------------------------------------------------------
(* resolve(), up to joining a flight.                                        *)

\* Enter resolve(): the resolver is captured once and gives the storage id.
\* `since` is a history variable: the generation published at the call.
Resolve(t, k, key) ==
  LET cell == Identity[resolver][k]
  IN /\ resolves < MaxResolves
     /\ Leave(t, "idle", "find", None)
     /\ req' = [req EXCEPT ![t] = [cell |-> cell, key |-> key, resolver |-> resolver,
                                   since |-> Generation(snap[cell])]]
     /\ resolves' = resolves + 1
     /\ UNCHANGED <<store, policy, loadMu, inflight, tbl, tok, lead, ans, todo, loads>>

\* kernel(): one acquire load of the snapshot.
Kernel(t, from, to) ==
  /\ Goto(t, from, to)
  /\ tbl' = [tbl EXCEPT ![t] = snap[req[t].cell]]
  /\ UNCHANGED <<store, policy, calls, loadMu, inflight, tok, lead, ans, out, todo>>

\* The second half of the first find(), in the table the snapshot had: a hit,
\* or a miss without a resolver, ends the call.
Search(t) ==
  LET found == Lookup(tbl[t], req[t].key)
  IN /\ pc[t] = "search"
     /\ IF found # None \/ req[t].resolver = None
        THEN Leave(t, "search", "idle", found)
        ELSE Goto(t, "search", "check") /\ UNCHANGED out
     /\ UNCHANGED <<store, policy, calls, loadMu, inflight, tbl, tok, lead, ans, todo>>

\* is_frozen().
IsFrozen == freezes > 0

\* refuse_if_frozen(): the depth is read once; `capturing` is the driver's
\* answer for the caller's stream, which this module does not keep.
RefuseIfFrozen(t, capturing) ==
  /\ IF IsFrozen \/ capturing
     THEN Leave(t, "check", "idle", FrozenMiss)
     ELSE Goto(t, "check", "token") /\ UNCHANGED out
  /\ UNCHANGED <<store, policy, calls, loadMu, inflight, tbl, tok, lead, ans, todo>>

\* The key that names the flight: normalised only if a table is bound by now.
FlightKey(table, key) == IF table = NoTable THEN key ELSE Norm[table.schema][key]

MakeToken(t) ==
  LET cell == req[t].cell
      key == FlightKey(snap[cell], req[t].key)
  IN /\ pc[t] = "token"
     /\ IF key = BadWidth
        THEN Leave(t, "token", "idle", Raised) /\ UNCHANGED tok
        ELSE /\ Goto(t, "token", "join")
             /\ tok' = [tok EXCEPT ![t] = <<cell, key>>]
             /\ UNCHANGED out
     /\ UNCHANGED <<store, policy, calls, loadMu, inflight, tbl, lead, ans, todo>>

\* The owner a token is pending with.  Mutant: the lookup is left out.
NoOwner(token) == None
PendingOwner(token) == inflight[token]

\* The first critical section of resolve_mu_.
JoinFlight(t) ==
  /\ pc[t] = "join"
  /\ IF PendingOwner(tok[t]) # None
     THEN /\ Goto(t, "join", "wait")
          /\ lead' = [lead EXCEPT ![t] = PendingOwner(tok[t])]
          /\ UNCHANGED inflight
     ELSE /\ Goto(t, "join", "refind")
          /\ inflight' = [inflight EXCEPT ![tok[t]] = t]
          /\ UNCHANGED lead
  /\ UNCHANGED <<store, policy, calls, loadMu, tbl, tok, ans, out, todo>>

-----------------------------------------------------------------------------
(* resolve(), the owner of a flight.                                         *)

\* The owner's own find(): an earlier owner may have published meanwhile.
Research(t) ==
  LET found == Lookup(tbl[t], req[t].key)
  IN /\ pc[t] = "research"
     /\ IF found # None
        THEN Leave(t, "research", "erase", found)
        ELSE Goto(t, "research", "call") /\ UNCHANGED out
     /\ UNCHANGED <<store, policy, calls, loadMu, inflight, tbl, tok, lead, ans, todo>>

\* The callback returns std::nullopt, throws, or returns an entry whose schema
\* and namespace it chooses.  It ran outside every lock.
ResolverDeclines(t) ==
  /\ Leave(t, "call", "erase", None)
  /\ UNCHANGED <<store, policy, calls, loadMu, inflight, tbl, tok, lead, ans, todo>>

ResolverThrows(t) ==
  /\ Leave(t, "call", "erase", Raised)
  /\ UNCHANGED <<store, policy, calls, loadMu, inflight, tbl, tok, lead, ans, todo>>

ResolverAnswers(t, answer) ==
  /\ Goto(t, "call", "insert")
  /\ ans' = [ans EXCEPT ![t] = answer]
  /\ UNCHANGED <<store, policy, calls, loadMu, inflight, tbl, tok, lead, out, todo>>

\* insert_resolved(): what is refused before load_mu_ is taken, and what only
\* the table found under it can refuse.
BadAnswer(t) ==
  \/ Norm[ans[t].schema][req[t].key] = BadWidth
  \/ ans[t].scope \notin {None, req[t].cell}

Disagrees(t) ==
  /\ snap[req[t].cell] # NoTable
  /\ snap[req[t].cell].schema # ans[t].schema

RejectAnswer(t) ==
  /\ Leave(t, "insert", "erase", Raised)
  /\ BadAnswer(t) \/ (loadMu = None /\ Disagrees(t))
  /\ UNCHANGED <<store, policy, calls, loadMu, inflight, tbl, tok, lead, ans, todo>>

\* Under load_mu_: what the published table answers.
Published(t) == Lookup(snap[req[t].cell], req[t].key)

\* Another flight has published a row for the same normalised key: keep it.
KeepPublished(t) ==
  /\ Leave(t, "insert", "erase", Published(t))
  /\ loadMu = None
  /\ ~BadAnswer(t)
  /\ ~Disagrees(t)
  /\ Published(t) # None
  /\ UNCHANGED <<store, policy, calls, loadMu, inflight, tbl, tok, lead, ans, todo>>

\* The online storage of the new table: the current one, or a fresh one.
\* Mutant: always a fresh one.
FreshHome(current) == allocs + 1
OnlineHome(current) == IF current.online # 0 THEN current.online ELSE allocs + 1

\* The file's rows of the new table.  Mutant: they are not carried over.
NoRows(current) == 0
OfflineHome(current) == current.offline

\* The key of the new row.  Mutant: as the caller spelt it.
RawKey(t) == req[t].key
RowKey(t) == Norm[ans[t].schema][req[t].key]

\* Push a node on the online list, which makes it visible at once to readers of
\* a table with that storage, and build the table that is published next.
AppendNode(t) ==
  LET current == snap[req[t].cell]
      node == [home |-> OnlineHome(current), schema |-> ans[t].schema,
               key |-> RowKey(t), at |-> allocs + 1]
  IN /\ Leave(t, "insert", "publish", node)
     /\ loadMu = None
     /\ ~BadAnswer(t)
     /\ ~Disagrees(t)
     /\ Published(t) = None
     /\ loadMu' = t
     /\ allocs' = allocs + 1
     /\ entries' = entries \cup {node}
     /\ tbl' = [tbl EXCEPT ![t] = [schema |-> ans[t].schema,
                                   offline |-> OfflineHome(current),
                                   online |-> OnlineHome(current)]]
     /\ UNCHANGED <<policy, calls, snap, inflight, tok, lead, ans, todo>>

\* publish_locked(), and the release of load_mu_.
PublishResolved(t) ==
  /\ Goto(t, "publish", "erase")
  /\ snap' = [snap EXCEPT ![req[t].cell] = tbl[t]]
  /\ loadMu' = None
  /\ UNCHANGED <<policy, calls, entries, allocs, inflight, tbl, tok, lead, ans, out, todo>>

\* The second critical section of resolve_mu_, on both exits of the try.
EraseFlight(t) ==
  /\ Goto(t, "erase", "fulfil")
  /\ inflight' = [inflight EXCEPT ![tok[t]] = None]
  /\ UNCHANGED <<store, policy, calls, loadMu, tbl, tok, lead, ans, out, todo>>

\* Who has the result of t's flight.  Mutant: the promise is left unset.
OwnerOnly(t) == {t}
Told(t) == {t} \cup {u \in Threads : pc[u] = "wait" /\ lead[u] = t}

\* set_value() / set_exception(): the owner and every waiter on its future have
\* the result; returning it touches nothing that is shared.
Fulfil(t) ==
  /\ pc[t] = "fulfil"
  /\ pc' = [u \in Threads |-> IF u \in Told(t) THEN "idle" ELSE pc[u]]
  /\ out' = [u \in Threads |-> IF u \in Told(t) THEN out[t] ELSE out[u]]
  /\ UNCHANGED <<store, policy, calls, loadMu, inflight, tbl, tok, lead, ans, todo>>

-----------------------------------------------------------------------------
(* load(), and the operations of other threads.                              *)

\* A file that parses: its tables are built, none is published yet.  A file
\* that does not throws here and changes nothing.
LoadFile(t, f) ==
  /\ loads < MaxLoads
  /\ Goto(t, "idle", "load")
  /\ todo' = [todo EXCEPT ![t] = f]
  /\ loads' = loads + 1
  /\ UNCHANGED <<store, policy, loadMu, inflight, req, tbl, tok, lead, ans, out, resolves>>

\* Mutant: the loaded table keeps the online storage of the one it replaces.
LoadedOver(kernel, home) ==
  [schema |-> kernel.schema, offline |-> home, online |-> snap[kernel.cell].online]
LoadedTable(kernel, home) == [schema |-> kernel.schema, offline |-> home, online |-> 0]

\* publish(): load_mu_ is taken and released for each kernel of the file.
PublishLoaded(t, kernel) ==
  LET home == allocs + 1
      rows == {[home |-> home, schema |-> kernel.schema, key |-> k, at |-> home] :
                 k \in kernel.keys}
  IN /\ loadMu = None
     /\ pc[t] = "load"
     /\ allocs' = allocs + 1
     /\ entries' = entries \cup rows
     /\ snap' = [snap EXCEPT ![kernel.cell] = LoadedTable(kernel, home)]
     /\ todo' = [todo EXCEPT ![t] = @ \ {kernel}]
     /\ UNCHANGED <<policy, calls, pc, loadMu, inflight, tbl, tok, lead, ans, out>>

LoadReturns(t) ==
  /\ todo[t] = {}
  /\ Goto(t, "load", "idle")
  /\ UNCHANGED <<store, policy, calls, loadMu, inflight, tbl, tok, lead, ans, out, todo>>

SetResolver(r) ==
  /\ resolver' = r
  /\ UNCHANGED <<store, freezes, calls, loadMu, inflight, pc, tbl, tok, lead, ans, out, todo>>

\* Guards may be constructed and destroyed by any thread at any time.
Freeze ==
  /\ freezes < MaxFreezes
  /\ freezes' = freezes + 1
  /\ UNCHANGED <<store, resolver, calls, loadMu, inflight, pc, tbl, tok, lead, ans, out, todo>>

Thaw ==
  /\ freezes > 0
  /\ freezes' = freezes - 1
  /\ UNCHANGED <<store, resolver, calls, loadMu, inflight, pc, tbl, tok, lead, ans, out, todo>>

\* clear(), which its contract keeps from racing with find() and resolve().
\* The history is dropped with the snapshot, and with it every row.
Clear ==
  /\ \A t \in Threads : pc[t] = "idle"
  /\ \E c \in Cells : snap[c] # NoTable
  /\ snap' = [c \in Cells |-> NoTable]
  /\ entries' = {}
  /\ tbl' = [t \in Threads |-> NoTable]
  /\ out' = [t \in Threads |-> None]
  /\ UNCHANGED <<allocs, policy, calls, loadMu, inflight, pc, tok, lead, ans, todo>>

-----------------------------------------------------------------------------
FindKernel(t) == Kernel(t, "find", "search")
RefindKernel(t) == Kernel(t, "refind", "research")

CallResolver(t) ==
  \/ ResolverDeclines(t)
  \/ ResolverThrows(t)
  \/ \E answer \in Answer : ResolverAnswers(t, answer)

InsertResolved(t) == RejectAnswer(t) \/ KeepPublished(t) \/ AppendNode(t)

\* The steps of a call of resolve() once it has been entered.
ResolveStep(t) ==
  \/ FindKernel(t)
  \/ Search(t)
  \/ \E capturing \in BOOLEAN : RefuseIfFrozen(t, capturing)
  \/ MakeToken(t)
  \/ JoinFlight(t)
  \/ RefindKernel(t)
  \/ Research(t)
  \/ CallResolver(t)
  \/ InsertResolved(t)
  \/ PublishResolved(t)
  \/ EraseFlight(t)
  \/ Fulfil(t)

LoadStep(t) ==
  \/ \E kernel \in todo[t] : PublishLoaded(t, kernel)
  \/ LoadReturns(t)

\* What the callers of the runtime do.
Environment ==
  \/ \E t \in Threads, k \in Kernels, key \in Keys : Resolve(t, k, key)
  \/ \E t \in Threads, f \in Files : LoadFile(t, f)
  \/ \E r \in Resolvers \cup {None} : SetResolver(r)
  \/ Freeze
  \/ Thaw
  \/ Clear

Next ==
  \/ Environment
  \/ \E t \in Threads : ResolveStep(t) \/ LoadStep(t)

Spec == Init /\ [][Next]_vars

\* Threads inside resolve() and load() are scheduled, the mutexes are fair
\* enough to be obtained, and a callback returns.  Nobody has to call.
Fairness == \A t \in Threads : WF_vars(ResolveStep(t)) /\ WF_vars(LoadStep(t))
FairSpec == Spec /\ Fairness

-----------------------------------------------------------------------------
(* Properties.                                                               *)

\* Every variable has its type; a thread that is past a point of resolve() has
\* the locals that point assigned.
TypeOK ==
  /\ entries \subseteq Entry
  /\ allocs \in Nat
  /\ snap \in [Cells -> Table]
  /\ loadMu \in Threads \cup {None}
  /\ inflight \in [Tokens -> Threads \cup {None}]
  /\ resolver \in Resolvers \cup {None}
  /\ freezes \in Nat
  /\ pc \in [Threads -> {"idle", "load"} \cup Resolving]
  /\ req \in [Threads -> Request \cup {None}]
  /\ tbl \in [Threads -> Table]
  /\ tok \in [Threads -> Tokens \cup {None}]
  /\ lead \in [Threads -> Threads \cup {None}]
  /\ ans \in [Threads -> Answer \cup {None}]
  /\ out \in [Threads -> Entry \cup {None, Raised, FrozenMiss}]
  /\ todo \in [Threads -> SUBSET FileKernel]
  /\ resolves \in Nat
  /\ loads \in Nat
  /\ \A t \in Threads : pc[t] \in Resolving => req[t] # None
  /\ \A t \in Threads : pc[t] \in Owning \cup {"join", "wait"} => tok[t] # None
  /\ \A t \in Threads : pc[t] \in {"insert", "publish"} => ans[t] # None

\* One flight per token.  A token is pending exactly while one thread owns it:
\* no second owner runs the callback for it, and none is left behind pending
\* (a hit, nullopt and an exception all release it).
Holds(t, token) == pc[t] \in Owning \ {"fulfil"} /\ tok[t] = token
OneFlightPerToken ==
  \A token \in Tokens, t \in Threads : inflight[token] = t <=> Holds(t, token)

\* A caller that joined a flight waits on a thread that is still going to
\* fulfil it, for the same token: no promise is dropped with waiters on it.
WaitersHaveOwner ==
  \A t \in Threads :
    pc[t] = "wait" => /\ lead[t] # None
                      /\ pc[lead[t]] \in Owning
                      /\ tok[lead[t]] = tok[t]

\* One row per normalised key in a generation: insert_resolved() never appends
\* a node for a key that the file or the online list answers already, although
\* flights with different tokens may tune the same key at the same time.
OneRowPerKey ==
  \A e, f \in entries : e.home = f.home /\ e.key = f.key => e = f
NoRowShadowed ==
  \A c \in Cells : \A e, f \in entries :
    e.home = snap[c].online /\ f.home = snap[c].offline => e.key # f.key
RowsAreUnique == OneRowPerKey /\ NoRowShadowed

\* What an owner returns to its caller was published no earlier than the call:
\* it is not a row that a load() had replaced by then.
Live(t) == entries \cap {out[t]}
OwnersAnswerIsCurrent ==
  \A t \in Threads : pc[t] \in Owning => \A e \in Live(t) : e.home >= req[t].since

\* What a waiter is given was published no earlier than the call of its flight's
\* owner.  The waiter itself may have called later, after a load() that replaced
\* the row: the pending flight is then joined across the load(), and nothing older
\* than the flight is handed out through it.
WaitersAnswerIsRecent ==
  [][\A t \in Threads : pc[t] = "wait" /\ pc'[t] # "wait" =>
       \A e \in entries \cap {out'[t]} : e.home >= req[lead[t]].since]_vars

\* A configuration that a call has in hand is the row of the requested key,
\* normalised as the table it is in normalises: also for a waiter, which has
\* the row of another caller's key with the same token.
AnswerFitsKey ==
  \A t \in Threads : req[t] # None =>
    \A e \in Live(t) : e.key = Norm[e.schema][req[t].key]

\* Readers see an append-only cache of answers in every generation: no insert is
\* lost to a concurrent one, and no answer moves while its generation is bound.
Cache == INSTANCE AnswerCache WITH
  generation <- [c \in Cells |-> Generation(snap[c])],
  answers <- [c \in Cells |-> [k \in Keys |-> Lookup(snap[c], k)]]
ReadersSeeCache == Cache!Spec

\* Every call of resolve() returns, whatever its owner meets: a hit, nullopt,
\* an exception of the callback or of the insertion.
ResolveReturns == \A t \in Threads : pc[t] \in Resolving ~> pc[t] = "idle"

\* What a run of the model relies on about the storages and the mutex, so that
\* one row per key is kept: only the holder of load_mu_ builds a table; no two
\* slots, and no file, share an online storage; the table about to be published
\* extends the published one, and its nodes shadow none of its file's rows.
MutexHeld == \A t \in Threads : pc[t] = "publish" <=> loadMu = t
HomesApart ==
  /\ \A e \in entries : 0 < e.home /\ e.home <= allocs
  /\ \A c \in Cells : snap[c].offline <= allocs /\ snap[c].online <= allocs
  /\ \A c, d \in Cells : snap[c].online # 0 =>
        /\ snap[c].online # snap[d].offline
        /\ snap[c].online = snap[d].online => c = d
PendingExtends ==
  \A t \in Threads : pc[t] = "publish" =>
    /\ tbl[t] # NoTable
    /\ tbl[t].online \in 1 .. allocs
    /\ tbl[t].offline = snap[req[t].cell].offline
    /\ \A d \in Cells :
         /\ snap[d].offline # tbl[t].online
         /\ snap[d].online = tbl[t].online => d = req[t].cell
    /\ \A e, f \in entries :
         e.home = tbl[t].online /\ f.home = tbl[t].offline => e.key # f.key

\* The inductive invariant of the table: its types, one row per key, and what
\* keeps it so.
TableInv ==
  /\ TypeOK
  /\ RowsAreUnique
  /\ MutexHeld
  /\ HomesApart
  /\ PendingExtends

\* What threads have in hand while the published tables change under them.  A
\* storage keeps its schema in every table that has it, and the online storage of
\* a table is later than its file.
Homes(table) == {table.online, table.offline} \ {0}
InHand == {snap[c] : c \in Cells} \cup {tbl[t] : t \in Threads}
HomesHaveSchemas ==
  /\ \A a \in InHand : a.online <= allocs /\ a.offline <= allocs
  /\ \A a, b \in InHand : Homes(a) \cap Homes(b) # {} => a.schema = b.schema
  /\ \A a \in InHand, e \in entries : e.home \in Homes(a) => e.schema = a.schema
OnlineIsLater ==
  \A a \in InHand : a.offline # 0 /\ a.online # 0 => a.offline <= a.online

\* The generation of a slot never goes back while a call is under way.
GenerationGrows(t) ==
  /\ pc[t] \in Resolving => req[t].since <= Generation(snap[req[t].cell])
  /\ pc[t] = "research" => req[t].since <= Generation(tbl[t])

\* A token spells the key it stands for, as asked for or under some schema.
Spells(key, asked) == key = asked \/ \E s \in Schemas : key = Norm[s][asked]
TokenSpells(t) ==
  pc[t] \in Owning \cup {"join", "wait"} => Spells(tok[t][2], req[t].key)

\* A result is a row that exists.  An owner's own is of its key, and none of a
\* generation that was over when it was called.
OutIsRow(t) ==
  /\ out[t] \in entries \cup {None, Raised, FrozenMiss}
  /\ pc[t] \in Resolving \ {"publish", "erase", "fulfil"} => out[t] = None
OwnAnswer(t) ==
  pc[t] \in Owning => \A e \in Live(t) : /\ e.home >= req[t].since
                                        /\ e.key = Norm[e.schema][req[t].key]

\* The row about to be published: the first of its storage, or visible already.
PendingRow(t) ==
  pc[t] = "publish" =>
    LET current == snap[req[t].cell]
    IN /\ out[t] \in entries
       /\ out[t].home = tbl[t].online
       /\ current.online # 0 => tbl[t] = current
       /\ current.online = 0 =>
            /\ \A e \in entries : e.home = tbl[t].online => e = out[t]
            /\ current # NoTable => current.schema = tbl[t].schema
            /\ Lookup(current, req[t].key) = None

\* The inductive invariant of the calls, on top of TableInv.
CallInv(t) ==
  /\ GenerationGrows(t)
  /\ TokenSpells(t)
  /\ OutIsRow(t)
  /\ OwnAnswer(t)
  /\ PendingRow(t)
CallsInv ==
  /\ HomesHaveSchemas
  /\ OnlineIsLater
  /\ \A t \in Threads : CallInv(t)

\* The buckets of the schemas agree: what one makes of a key, another puts in the
\* bucket of the key itself.  The code does not enforce it on files that rebind a
\* kernel; see SharedAnswerFitsKey.
StableBuckets ==
  \A s, r \in Schemas, k \in Keys :
    Norm[s][k] # BadWidth => Norm[r][Norm[s][k]] = Norm[r][k]

\* docs/autotune.md: "Once the schema is bound, keys are normalized before
\* sharing": a caller is not given the row of another key of the bound schema.
SharedAnswerFitsKey ==
  [][\A t \in Threads : pc[t] = "wait" /\ pc'[t] = "idle" =>
       \A e \in entries \cap {out'[t]} :
         e.schema = snap[req[t].cell].schema => e.key = Norm[e.schema][req[t].key]]_vars

\* tuned_config.h on Resolver: "Called on a resolve() miss, outside every runtime
\* lock and never while frozen".  The depth is read before the flight is joined,
\* and a guard constructed after that does not keep the owner from the callback.
NotCalledWhileFrozen ==
  [][\A t \in Threads : pc[t] = "research" /\ pc'[t] = "call" => freezes = 0]_vars
=============================================================================
