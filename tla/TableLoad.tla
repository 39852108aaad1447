------------------------------ MODULE TableLoad ------------------------------
(***************************************************************************)
(* Files of tuned configurations (src/src/tuned_config.cpp): what load()    *)
(* accepts, the index it builds of the rows of a kernel, how find() uses    *)
(* the index, and load_from_env(), which threads may call at the same time  *)
(* with the files of TRITON_JIT_TUNED_TABLE.  A file names kernels, each    *)
(* with the strategies of its key columns and one row per tuned key.        *)
(* TunedTable has the snapshots as resolve() sees them; here a file is what *)
(* a document says, right or wrong.                                         *)
(***************************************************************************)
EXTENDS KeyNormalize, FiniteSets, SequencesExt

CONSTANTS
  Threads,     (* Threads that call load_from_env().                            *)
  DeviceNames, (* DeviceNames[n]: the driver's name of device n - 1, or None.    *)
  Backend,     (* The backend of the build, or None if it has no name.           *)
  EnvLists,    (* Values of the environment variable: sequences of documents.    *)
  MaxColumns,  (* kMaxColumns of find(): 32 in the code.                         *)
  MinBuckets,  (* Smallest index: 16 in the code.                                *)
  HashRange,   (* hash_key() is below this: 2^64 in the code.                    *)
  DTypeHash,   (* What a data type adds to a hash: the data types -> numbers.    *)
  None

Devices == DOMAIN DeviceNames
DTypes == DOMAIN DTypeHash

ASSUME TableLoadAssumption ==
  /\ MaxColumns \in Nat /\ MinBuckets \in Nat \ {0} /\ HashRange \in Nat \ {0}
  /\ DeviceNames \in Seq(STRING \cup {None})
  /\ None \notin STRING \cup Nat
  /\ DTypeHash \in [DTypes -> Nat]

VARIABLES
  env,      \* The documents TRITON_JIT_TUNED_TABLE lists.
  ignore,   \* TRITON_JIT_TUNED_IGNORE_DEVICE is set.
  snapshot, \* One map per device known so far: storage id -> TunedKernelTable.
  pc,       \* "idle" or "loading", per thread.
  device,   \* The device the thread loads for.
  left,     \* Documents the thread has still to load.
  todo,     \* Tables of the current document still to publish.
  count,    \* Documents it has loaded.
  called    \* Devices some thread has called load_from_env() for.
vars == <<env, ignore, snapshot, pc, device, left, todo, count, called>>

-----------------------------------------------------------------------------
(* A table: rows and their index. *)

\* hash_key: dimensions and data types are mixed in one after the other.
HashKey(key) == FoldLeft(LAMBDA hash, part : (hash * 3 + part) % HashRange, 1,
                         key.dims \o [n \in DOMAIN key.dtypes |-> DTypeHash[key.dtypes[n]]])

\* Mutant: the index does not grow with the rows.
Fixed(rows) == MinBuckets
BucketCount(rows) ==
  CHOOSE n \in {MinBuckets * 2 ^ e : e \in 0 .. rows} :
    /\ n >= rows * 2
    /\ \A m \in {MinBuckets * 2 ^ e : e \in 0 .. rows} : m >= rows * 2 => n <= m

\* build_index: a bucket leads to its latest row, a row to the one before it.
BuildIndex(rows) ==
  LET n == BucketCount(Len(rows))
      Chain(index, i) ==
        LET bucket == HashKey(rows[i].key) % n
        IN  [heads |-> [index.heads EXCEPT ![bucket] = i],
             next  |-> Append(index.next, index.heads[bucket])]
  IN  FoldLeft(Chain, [heads |-> [b \in 0 .. n - 1 |-> 0], next |-> <<>>], [i \in DOMAIN rows |-> i])

Normalized(table, dims) == [i \in DOMAIN dims |-> NormalizeDim(table.strategies[i], dims[i])]

\* TunedKernelTable::find in the rows of a file; a row is matched by its whole key.
Find(table, key) ==
  LET wanted == [dims |-> Normalized(table, key.dims), dtypes |-> key.dtypes]
      walk[i \in 0 .. Len(table.rows)] ==
        IF i = 0 \/ table.rows[i].key = wanted THEN i ELSE walk[table.index.next[i]]
      first == table.index.heads[HashKey(wanted) % Cardinality(DOMAIN table.index.heads)]
  IN  IF \/ Len(key.dims) # Len(table.strategies) \/ Len(key.dtypes) # table.ndtypes
         \/ Len(key.dims) > MaxColumns \/ table.rows = <<>>
      THEN 0 ELSE walk[first]

-----------------------------------------------------------------------------
(* load(): the checks in the order of the code.  A document that fails one is  *)
(* refused as a whole.                                                         *)

\* parse_key_strategy; an absent strategy is the default one.
Parsed(strategy) == IF strategy \in {None, "None"} THEN "default" ELSE strategy

StorageId(kernel) == <<kernel.namespace, kernel.id>>

\* What a file says, once read: one row, one kernel, one document.  Dimensions that
\* overflow in a column of theirs are outside the inputs of this model.
FileRow == [dims : Seq(Int64), dtypes : Seq(DTypes), sound : BOOLEAN]
FileKernel ==
  {k \in [id : STRING, namespace : STRING \cup {None}, strategies : Seq(STRING \cup {None}),
          ndtypes : Nat, unsupported : BOOLEAN, rows : Seq(FileRow)] :
     \A n \in DOMAIN k.rows : \A i \in DOMAIN k.strategies \cap DOMAIN k.rows[n].dims :
       ~Overflows(Parsed(k.strategies[i]), k.rows[n].dims[i])}
Document ==
  [parses : BOOLEAN, version : Nat, backend : STRING \cup {None}, device : STRING \cup {None},
   kernels : Seq(FileKernel)]
ASSUME DocumentsAssumption == \A list \in EnvLists : list \in Seq(Document)

\* A row as load() keeps it: its dimensions normalised.
Row(kernel, row) ==
  [key |-> [dims   |-> [i \in DOMAIN row.dims |-> NormalizeDim(Parsed(kernel.strategies[i]), row.dims[i])],
            dtypes |-> row.dtypes],
   of  |-> row]

TableOf(kernel) ==
  LET rows == [n \in DOMAIN kernel.rows |-> Row(kernel, kernel.rows[n])]
  IN  [strategies |-> [i \in DOMAIN kernel.strategies |-> Parsed(kernel.strategies[i])],
       ndtypes |-> kernel.ndtypes, rows |-> rows, index |-> BuildIndex(rows)]

\* check_fingerprint against detect_backend_fingerprint(device): what either side
\* does not know is not compared.
FingerprintFits(doc, d) ==
  /\ doc.backend # None
  /\ Backend = None \/ doc.backend = Backend
  /\ \/ doc.device = None \/ DeviceNames[d] = None
     \/ doc.device = DeviceNames[d] \/ ignore

\* Mutant: namespaces are taken in either version of the format.
AnyNamespace(doc, kernel) == TRUE
NamespaceFits(doc, kernel) == (doc.version = 2) = (kernel.namespace # None)

KernelParses(kernel) ==
  /\ \A i \in DOMAIN kernel.strategies : Parsed(kernel.strategies[i]) \in Strategies
  /\ kernel.unsupported => kernel.rows = <<>>
  /\ \A n \in DOMAIN kernel.rows :
       LET row == kernel.rows[n]
       IN  /\ Len(row.dims) = Len(kernel.strategies) /\ Len(row.dtypes) = kernel.ndtypes
           /\ row.sound

\* Every row must be what find() answers for its own key, which it normalises again.
RowsAreFound(kernel) ==
  LET table == TableOf(kernel)
  IN  \A n \in DOMAIN table.rows : Find(table, table.rows[n].key) = n

Accepts(doc, d) ==
  /\ doc.parses
  /\ doc.version \in {1, 2}
  /\ FingerprintFits(doc, d)
  /\ \A n \in DOMAIN doc.kernels :
       /\ NamespaceFits(doc, doc.kernels[n])
       /\ \A m \in 1 .. n - 1 : StorageId(doc.kernels[m]) # StorageId(doc.kernels[n])
       /\ KernelParses(doc.kernels[n])
       /\ RowsAreFound(doc.kernels[n])

Tables(doc) ==
  [n \in DOMAIN doc.kernels |-> [id |-> StorageId(doc.kernels[n]), table |-> TableOf(doc.kernels[n])]]

-----------------------------------------------------------------------------
Init ==
  /\ env \in EnvLists /\ ignore \in BOOLEAN
  /\ snapshot = <<>> /\ called = {}
  /\ pc = [t \in Threads |-> "idle"]
  /\ device = [t \in Threads |-> None]
  /\ left = [t \in Threads |-> <<>>]
  /\ todo = [t \in Threads |-> <<>>]
  /\ count = [t \in Threads |-> 0]

Constant == UNCHANGED <<env, ignore>>

\* load_from_env(d), once per thread.
LoadFromEnv(t, d) ==
  /\ pc[t] = "idle" /\ device[t] = None
  /\ pc' = [pc EXCEPT ![t] = "loading"]
  /\ device' = [device EXCEPT ![t] = d]
  /\ left' = [left EXCEPT ![t] = env]
  /\ called' = called \cup {d}
  /\ Constant /\ UNCHANGED <<snapshot, todo, count>>

\* The next document is read and checked; if it is refused the loop goes on.
LoadDocument(t) ==
  /\ pc[t] = "loading" /\ todo[t] = <<>> /\ left[t] # <<>>
  /\ IF Accepts(Head(left[t]), device[t])
     THEN todo' = [todo EXCEPT ![t] = Tables(Head(left[t]))] /\ count' = [count EXCEPT ![t] = @ + 1]
     ELSE UNCHANGED <<todo, count>>
  /\ left' = [left EXCEPT ![t] = Tail(@)]
  /\ Constant /\ UNCHANGED <<snapshot, pc, device, called>>

\* The map of device n, empty as long as nothing is bound there.
MapOf(maps, n) == IF n <= Len(maps) THEN maps[n] ELSE <<>>

\* Mutant: a kernel that is bound already stays as it is.
FirstWins(maps, d, id, table) ==
  LET old == MapOf(maps, d)
  IN  [n \in 1 .. IF Len(maps) < d THEN d ELSE Len(maps) |->
         IF n # d THEN MapOf(maps, n)
         ELSE [i \in DOMAIN old \cup {id} |-> IF i \in DOMAIN old THEN old[i] ELSE table]]
\* publish_locked: a copy of the snapshot, made large enough for the device, in
\* which the table takes the place of the one that had its storage id.
Published(maps, d, id, table) ==
  LET old == MapOf(maps, d)
  IN  [n \in 1 .. IF Len(maps) < d THEN d ELSE Len(maps) |->
         IF n # d THEN MapOf(maps, n)
         ELSE [i \in DOMAIN old \cup {id} |-> IF i = id THEN table ELSE old[i]]]

\* publish() of the next table: load_mu_ is held for one table at a time.
PublishTable(t) ==
  /\ pc[t] = "loading" /\ todo[t] # <<>>
  /\ snapshot' = Published(snapshot, device[t], Head(todo[t]).id, Head(todo[t]).table)
  /\ todo' = [todo EXCEPT ![t] = Tail(@)]
  /\ Constant /\ UNCHANGED <<pc, device, left, count, called>>

\* The end of the list: the number of documents loaded is returned.
Return(t) ==
  /\ pc[t] = "loading" /\ todo[t] = <<>> /\ left[t] = <<>>
  /\ pc' = [pc EXCEPT ![t] = "idle"]
  /\ Constant /\ UNCHANGED <<snapshot, device, left, todo, count, called>>

Next == \E t \in Threads : (\E d \in Devices : LoadFromEnv(t, d)) \/ LoadDocument(t) \/ PublishTable(t) \/ Return(t)

Spec == Init /\ [][Next]_vars

-----------------------------------------------------------------------------
(* Reference: what a document means. *)

\* TunedTable::kernel(): a device without a map, or a map without the id, has none.
Kernel(maps, d, id) ==
  IF d <= Len(maps) THEN IF id \in DOMAIN maps[d] THEN maps[d][id] ELSE None ELSE None

\* The keys a row answers: those in the same bucket in every column.
SameKey(strategies, row, key) ==
  /\ Len(key.dims) = Len(strategies) /\ key.dtypes = row.dtypes
  /\ \A i \in DOMAIN strategies : Bucket(strategies[i], key.dims[i]) = Bucket(strategies[i], row.dims[i])

\* A document the library may use on device d.
RowsApart(kernel) ==
  \A m, n \in DOMAIN kernel.rows :
    SameKey([i \in DOMAIN kernel.strategies |-> Parsed(kernel.strategies[i])], kernel.rows[m], kernel.rows[n]) => m = n
Sound(doc, d) ==
  /\ doc.parses /\ doc.version \in {1, 2} /\ FingerprintFits(doc, d)
  /\ \A n, m \in DOMAIN doc.kernels : StorageId(doc.kernels[n]) = StorageId(doc.kernels[m]) => n = m
  /\ \A kernel \in ToSet(doc.kernels) :
       /\ doc.version = 1 <=> kernel.namespace = None
       /\ KernelParses(kernel)
       /\ kernel.rows # <<>> => Len(kernel.strategies) <= MaxColumns
       /\ RowsApart(kernel)

\* The last sound document of the list that names a kernel.
Naming(id, d) ==
  {n \in DOMAIN env : Sound(env[n], d) /\ \E k \in DOMAIN env[n].kernels : StorageId(env[n].kernels[k]) = id}
Greatest(S) == CHOOSE n \in S : \A m \in S : m <= n
Ids == UNION {{StorageId(k) : k \in ToSet(env[n].kernels)} : n \in DOMAIN env}

Bound == UNION {{snapshot[d][id] : id \in DOMAIN snapshot[d]} : d \in DOMAIN snapshot}

-----------------------------------------------------------------------------
(* Properties. *)

\* Types; an index has room for twice its rows, so that chains stay short.
TypeOK ==
  /\ env \in EnvLists /\ ignore \in BOOLEAN /\ called \subseteq Devices
  /\ Len(snapshot) \in 0 .. Len(DeviceNames)
  /\ \A t \in Threads :
       /\ pc[t] \in {"idle", "loading"} /\ device[t] \in Devices \cup {None}
       /\ count[t] + Len(left[t]) \in 0 .. Len(env)
  /\ \A table \in Bound : Cardinality(DOMAIN table.index.heads) >= 2 * Len(table.rows)

\* A row has the least bucket that is not below the dimension the file has, the one
\* Python computes; and find() gives the row of the key's bucket, whatever rows share
\* its chain, and nothing if there is no such row.
KeyIsLeastBucket ==
  \A table \in Bound : \A row \in ToSet(table.rows) : \A i \in DOMAIN table.strategies :
    row.key.dims[i] = Bucket(table.strategies[i], row.of.dims[i])

Asked(table) ==
  {[dims |-> [row.of.dims EXCEPT ![c] = @ + n], dtypes |-> row.of.dtypes] :
     row \in ToSet(table.rows), c \in DOMAIN table.strategies, n \in -1 .. 1}
InRange(table, key) ==
  \A c \in DOMAIN key.dims : key.dims[c] \in Int64 /\ ~Overflows(table.strategies[c], key.dims[c])
FindIsLookup ==
  /\ KeyIsLeastBucket
  /\ \A table \in Bound : \A key \in Asked(table) :
       InRange(table, key) =>
         LET rows == {n \in DOMAIN table.rows : SameKey(table.strategies, table.rows[n].of, key)}
         IN  IF rows = {} THEN Find(table, key) = 0 ELSE Find(table, key) \in rows

\* A file is accepted exactly if it is sound: no two rows of one bucket, no two
\* kernels of one identity, namespaces as its version says.  Rows that are sound are
\* not refused although load() normalises their keys a second time to look them up.
\* (The files do not change: it is enough to judge them before the first call.)
FilesAreJudged ==
  called = {} => \A n \in DOMAIN env : \A d \in Devices : Accepts(env[n], d) = Sound(env[n], d)

\* Once load_from_env() has returned to everyone, each kernel has the table of the
\* last sound file that names it and nothing else is bound, however the threads took
\* turns and whichever files were refused; and each call returned the number of files
\* it published.
QuietTableIsEnvTable ==
  (\A t \in Threads : pc[t] = "idle") =>
    /\ \A d \in Devices, id \in Ids :
         Kernel(snapshot, d, id) =
           IF d \notin called \/ Naming(id, d) = {} THEN None
           ELSE LET doc == env[Greatest(Naming(id, d))]
                IN  TableOf(CHOOSE k \in ToSet(doc.kernels) : StorageId(k) = id)
    /\ \A t \in Threads : device[t] # None =>
         count[t] = Cardinality({n \in DOMAIN env : Sound(env[n], device[t])})
==============================================================================
