# A TLA+ verification of libtriton_jit

libtriton_jit launches Triton kernels from C++. A process embeds Python only to
do *cold work* (read a function's signature, compile a program, tune a
configuration); everything that has been done once is answered from C++ caches
that many threads use at the same time, mostly without locks. This directory
models those caches, checks them with TLC on small instances and proves their
safety properties and refinements with TLAPS for every value of the constants.

## 1. Inventory

| Component | Source | State | Operations | Hard behaviour | Correct means |
|---|---|---|---|---|---|
| Tuned configuration table | `src/src/tuned_config.cpp`, `include/triton_jit/tuned_config.h` | `snap_`, `history_`, the tables and their online nodes, `load_mu_` | `find`, `kernel`, `load`, `insert_resolved`, `publish_locked`, `clear` | readers take no lock; `load()` and inserts race; a table handle outlives its generation | one row per key and generation, no lost insert, a row answers the key it was asked for |
| Single-flight resolution | same | `inflight_`, `resolve_mu_`, `resolver_`, the promises | `resolve`, `set_resolver` | owner and waiters, exceptions, `nullopt`, a `load()` in the middle | one owner per token, nobody is left waiting, the answer is current and of the right key |
| Key normalisation | same | none (pure) | `normalize_dim`, `pow2_ceil`, `ceil_div_32` | applied repeatedly, boundaries of the strategies and of the type | the least bucket; repeating changes nothing |
| Freeze policy | `src/src/freeze.cpp`, `freeze.h` | `freeze_depth`, the capture state of a stream | `ScopedFreeze`, `is_frozen`, `stream_is_capturing`, `refuse_if_frozen` | the depth is read once, before the work | prepared work is never refused; nothing cold starts once the system was quiet and frozen |
| Function registry and overloads | `triton_jit_function.h`, `src/src/triton_jit_function.cpp` | `functions_`, `overloads_` | `get_instance`, `get_kernel`, `is_prepared`, `prepare`, `operator()`, `launch_with_raw_args` | compilation holds no lock, so concurrent misses compile twice | references that are out stay valid; a program only gets warmer |
| Kernel load state | `triton_kernel.h` | `LoadState` (flag, mutex, handle) | `lazy_init_handle`, `is_loaded`, `prepare` | double-checked flag, exceptions under the mutex | a launch reads the handle that was written |
| CUDA module cache | `backends/cuda_backend.h` | `module_cache_`, `cache_mutex_` | `load_kernel`, `get_shared_memory`, `launch_kernel` | kernels of several devices share one cache | one module per artifact; the handle fits the device |
| Launch hooks | `src/src/launch_hooks.cpp`, `triton_kernel.h` | the atomic `launch_hooks`, the snapshot of a launch | the two setters, `clear_launch_hooks`, `launch_with_signature` | lock-free copy and exchange, addresses used again, callbacks that change the hooks | setters are atomic; one launch runs the hooks of one state |
| Python bridge | `triton_jit_function.cpp`, `torch_tuned_resolver.cpp` | the `call_once` flag, the interpreter lock | `ensure_initialized`, `gil_scoped_acquire`, the wait hook of a resolver | locks taken in different orders, exceptions inside `call_once`, nested scopes | calls return; a caller keeps its lock; Python knows the backend |
| Python tuned resolver | `scripts/tuned_resolver.py` | tuners and their caches, the benchmark locks | `_local_tuner`, `_argument_cloner`, trials, eviction | selections of one tuner at the same time, trials that raise | trials see copies of their own call's arguments; nothing strange stays cached |
| Table loading | `tuned_config.cpp:461`, `:536`, `:761` | a document, the index of a table, the fingerprint | `load`, `build_index`, `find`, `load_from_env` | refused files among good ones, two threads loading, chains of the index | a file is accepted exactly if it is sound; the last sound file wins; `find()` is a lookup by bucket |
| Arguments and signatures | `triton_jit_function.h`, `jit_utils.h`, `standalone_compile.py`, `npu_arg_buffer.h` | the tokens and `ParameterBuffer` of a call, the overloads | `ArgHandle::handle_*`, `make_kernel_cache_key`, the compiler's reading, `parse_signature` | runtime, compiler and NPU launch read one signature on their own; kernels are used again | every parameter gets the value that was passed; specialisations hold |
| Backends | `backends/*.h`, `kernel_metadata.cpp` | module caches, contexts, metadata; on the NPU stubs and workspaces | `ensure_context`, `load_kernel`, `get_shared_memory`, `prepare_launch`, `launch_kernel` | each driver call may fail; the artifacts are files others may change; asynchronous kernels | handles lead to their artifact, launches use the compiled size, workspaces outlive kernels and are freed |
| Compiler driver, exporter | `scripts/*.py` | options, SQLite rows | `compile_a_kernel`, `export_*` | merging of rows | the reading of signatures is in `Arguments`; the rest is not modelled |

How they interact. A consumer asks `TunedTable::resolve` for a configuration
(which may call the installed resolver, which enters Python), turns it into
compile options, and calls a `TritonJITFunction`: `get_instance` finds or makes
the function, `get_kernel` finds or compiles the program, `lazy_init_handle`
loads its module through the backend's cache, and `launch_with_signature` takes
a snapshot of the hooks, runs *enter*, submits, and runs *exit*. `refuse_if_frozen`
stands in front of each of the four kinds of cold work (configuration,
function, program, module). Those parts share no lock; what they share is the
freeze depth, so the modules below model them separately, each with its own
callers, and both that ask about freezing keep the depth as a variable. Where
parts do share locks - initialisation, the interpreter, the flights and the
benchmark lock - one module, `PythonBridge`, has them all. `Arguments` composes
the launch with the compiler and the NPU's argument block, because what can go
wrong is that the three read one signature differently. `Backends` models one
launch through each of the eight headers; `ProgramCache` models the
interleavings of the CUDA one.

## 2. Modules

| Module | Models | State and code |
|---|---|---|
| `TunedTable` | the table, the flights and the guards | `snap` is the published snapshot (a table per slot: schema, the home of its file rows, the home of its online nodes); `entries` are the rows with their addresses; `inflight` is `inflight_` with the owner of each token; `pc`, `req`, `tbl`, `tok`, `lead`, `ans`, `out`, `todo` are the locals of the threads. One step is one access to shared state. |
| `AnswerCache` | what the table promises readers: an append-only cache per generation | abstract specification |
| `ProgramCache` | registry, overloads, load state, CUDA module cache, freeze and capture | `kernels[k]` is the overload with its `LoadState` (`by` holds its mutex), `modules[a]` says in which device's context the module cache has the artifact; `pc` walks through `get_instance`, `get_kernel`, `lazy_init_handle`, `load_kernel`, `launch_kernel` |
| `LaunchHooks` | setters, clear and launches | `cell` is the atomic pointer, `memory` the states by address, `current`/`desired` the locals of `update_launch_hooks`, `hooks` the snapshot of a launch; an address is given out again once nobody owns it |
| `HookRegister` | what the setters promise: one atomic register of two hooks | abstract specification |
| `KeyNormalize` | the key strategies on integers of `Width` bits, and the bucket of a dimension | pure operators, used by `TableLoad` |
| `TableLoad` | what `load()` accepts, `build_index`, `find()` through the index, `load_from_env()` by several threads | `env` is the environment variable as a list of documents, `snapshot` the tables per device, `left` and `todo` where a thread's loop is; a table has rows, heads and chains |
| `Backends` | the eight backend headers and the metadata readers | each header is a definition (`CudaLoad`, `CudaHost`, ...: the steps of its load, its launch) that the actions interpret; `live` and `registered` are the driver, `json` the files, `memory`, `running` and `cleanup` the workspaces of an NPU |
| `Arguments` | arguments, tokens, buffer, the compiler's reading, the NPU's block | `tokens` and `buffer` grow argument by argument; `Signature` is what the joined tokens are split into again, where a text is read as what it spells (`Spelling`); memory is a sequence of bytes that remember their value; `overloads` are the compiled kernels, of which a later call finds one by its key |
| `PythonBridge` | initialisation, the interpreter lock, waiting for flights, the selection of a tuner | `once` is `init_flag`, `gil` the interpreter lock, `scope` a caller's `gil_scoped_acquire`, `flight` the owners of tokens, `bench` the benchmark lock, `nargs` whose arguments a tuner object has |
| `TunedTableProofs`, `TableLoadProofs`, `ProgramCacheProofs`, `LaunchHooksProofs`, `PythonBridgeProofs`, `BackendsProofs`, `ArgumentsProofs` | the proofs | |
| `DataLemmas` | what `TableLoadProofs` and `ArgumentsProofs` know about data | least members of sets of numbers, powers of two, folds, sequences of sequences |
| `MCTunedTable`, `MCProgramCache`, `MCLaunchHooks`, `MCTableLoad`, `MCBackends`, `MCArguments`, `MCPythonBridge` | the instances for TLC | |

`KeyNormalize` is the one module of pure operators; its reference definition,
`Bucket`, is checked against it on the rows of `TableLoad`'s files.

Abstractions. A kernel, program, key, schema, hook or artifact is a model value
or a small number; a `TunedConfig*` is the row it points to. A resolver returns
any answer, declines or throws; a compilation returns or throws; the driver
loads, throws, or refuses a function of another context. Texts of errors, logs and the contents
of configurations are left out. `kernel_id` and device together are one
element of `Kernels`, a storage id and device one of `Cells`; the identity hook
of a resolver is the constant `Identity`. History variables (`since` in a
request, `seen`, `ran`, `prepared`, `quiet`, `loaded`) are marked as such and no
guard reads them, except that `prepared` keeps `TellPrepared` from repeating itself.

## 3. Runs

Sizes are chosen so that each race has all its actors at once: an owner, a
waiter and a third thread that loads, publishes or freezes.

| Run | Instance | Shows |
|---|---|---|
| `tuned_flights` | 3 threads, 3 calls, keys 5 (whose bucket is 8) and 16 under "log", a load of a file with or without a row, changes of the resolver | `OneFlightPerToken`, `WaitersHaveOwner`, `OwnersAnswerIsCurrent`, `WaitersAnswerIsRecent`; `ReadersSeeCache`: the published tables implement `AnswerCache` |
| `tuned_policy` | 2 fair threads, a resolver with an identity hook or none, two slots, two calls for keys of one bucket, a load, a schema of another width, a guard | the inductive `TableInv`, `AnswerFitsKey`, `ResolveReturns` |
| `program_cache` | 2 fair threads, one program on two devices of one architecture, 3 calls, one guard, captures | `CacheInv`, `PreparedIsNotRefused`, `LaunchHasHandle`, `ModuleLoadedOnce`, `FrozenStaysWarm`, `ProgramsOnlyGetWarmer`, `CallsReturn` |
| `launch_hooks` | 2 fair threads that set and clear, one of which launches, 1 hook, 4 addresses (as many as they own at once) | `SettersAreAtomic`, `LaunchRunsOneState`, `HooksInv`, `QuietSettersReturn` |
| `table_load` | 2 threads, 2 devices (one whose name the driver does not tell), lists of 17 files that are right or wrong in one way each; a file with a column of every strategy for each integer of 8 bits | `TypeOK`, `FindIsLookup`, `FilesAreJudged`, `QuietTableIsEnvTable` |
| `backends` | all eight builds, 2 threads with kernel objects of their own, 2 directories, one change of the files, 2 modules, 2 workspaces, unsigned integers of 16 values | the inductive `BackendsInv`, `HandlesLeadHome`, `LaunchUsesCompiledSize`, `FailedLoadsLeaveNothing`, `WorkspacesAreSafe`, `ClassDividesGrid` |
| `arguments` | four builds (CUDA for those that differ in nothing here, HCU, GCU, NPU), literals pooled or not, three kernels, 1 or 2 calls, every form of argument at the boundaries of its handling, texts that are read as text, as a type with and without a hint, as `nullopt`, as a number, as two tokens or not at all, bytes of 2 bits | `TypeOK`, `ArgumentsArrive`, `KernelSuitsCall`, `RefusalsAreDeserved` |
| `python_bridge` | 2 threads, none, one or both of them the program's and the others Python's, 2 tokens, three kinds of resolvers, the Torch one with and without a benchmark lock, 2 trials | the inductive `BridgeInv`, `PythonKnowsBackend`, `TrialsUseCopies`, `StrangeSelectionsLeaveNothing`, `LockIsBalanced`, `CallsReturn` |

Why the bounds are enough. A race over one flight needs an owner, a waiter and
one disturber, and the second round that follows it needs one more call: three
threads and three calls have all of them. Two devices are the least that share
an artifact. One load replaces a generation that inserts started. Eight bits hold every power of two of the small range, multiples
of 32 on both sides of zero and both ends of the type. An index of two buckets
makes rows share chains. Three files in a list are a file that is replaced, a
file that replaces it and a refused one in any place. Two modules are one for
each directory, or a second attempt after a failed one; when the driver has no
more, loading fails, which it may do at any time anyway. Bytes of two bits put
the boundaries of an `i32` within reach while offsets keep the sizes of the
code. In `python_bridge` a thread holds at most one lock the other needs, so
two threads have every pair of locks in both orders. Every bound is a constant
(`MaxResolves`, `MaxLoads`, `MaxFreezes`, `MaxCalls`, `MaxModules`, `MaxTouches`, `MaxWork`,
`MaxTrials`, `Width`, `Unsigned`, the calls of a kernel); the theorems do not depend on
their values. Symmetry is used for threads, in runs of safety properties
only. A `VIEW` drops locals that are dead where their thread is, calls that
returned with nothing a property reads, the contents of addresses that nobody
owns, and what a launch that has returned ran.

Four runs end in a violation; each quotes what the code promises and shows how
the code differs (`findings` in `PROJECT.json`):

* `other_key_answer`: after a load changed the schema, a caller joins another key's flight by its token and gets that key's row.
* `call_while_frozen`: the freeze depth is read before the flight is joined and not again, so the owner calls the resolver although a guard has been constructed meanwhile; the header says "never while frozen".
* `program_context`: the module cache has no device in its key (on the other builds neither, as at `hcu_backend.h:122` and `maca_backend.h:117`), so a program prepared on the second of two devices of one architecture is given a function of the first one's context, although `is_prepared()` says yes.
* `string_constexpr`: the text of a string argument reaches the compiler, which turns what is neither a number nor a truth value into `None`; the kernel is compiled for `None` whatever the string was.

Differences without a run of their own, because a property states what does hold:

* `load()` publishes kernel by kernel, although the header says that the new
  kernels are published atomically: `ReadersSeeCache` holds for each slot.
* A `resolve()` that is entered after `load()` returned may join a flight that
  has its answer already, a row of the replaced table: `OwnersAnswerIsCurrent`
  holds for the owners of flights, and `WaitersAnswerIsRecent` bounds what waiters
  are given by the call of the owner they joined.
* The header says that the resolver is asked once per key; `docs/autotune.md:201`
  concedes that the first requests, before the schema is bound, may tune separately.
  `RowsAreUnique`, a part of `TableInv`, shows that the second answer adds no row.
* Four ways an argument gets lost, each named in `ArgumentsArrive`: text
  (`TextLost`, above; on an NPU such a launch is refused, because the layout
  counts text as an argument); a plain `double` on GCU, which the compiler
  declares as a float (`DoubleLost`; a `c10::Scalar` is narrowed); a boolean on an
  NPU, whose block takes eight bytes for it where one was pushed (`BoolLost`); and
  an argument of 1 where a build does not make one literal of two equal ones,
  because the code compares their addresses (`OneNotFolded`).
* A comment at `triton_jit_function.h:231` says that a string can only ever be a constexpr
  parameter, but neither `ArgHandle` nor the compiler looks: the text goes into the
  signature as it is, and the compiler takes what it spells. For a runtime parameter a text
  such as `i32` is taken for the type, and `nullopt` for no value, so the kernel is compiled and
  launched with nothing pushed for the parameter (`TextTaken`); a text with a comma stands for two
  arguments (`TextSplits`); one that cannot be split is refused for a constexpr too
  (`TextBreaks`). `RefusalsAreDeserved` names the three and shows that there is no fourth;
  `KernelSuitsCall` holds the options and device of every call, and hints and ranges unless a
  text was read as something else (`TextMisread`). The run of `arguments` reaches each of them.
* Four standstills, each named in `CallsReturn`: the thread that started the
  interpreter keeps its lock while it does something else (`LockIsKept`); a
  caller waits in `call_once` with the lock the initialising thread needs
  (`OnceHoldsLock`), although `jit_utils.h:252` calls `ensure_initialized` safe to call
  before touching Python; a caller waits for a flight with the lock its owner needs
  and its resolver has no wait hook (`WaiterHoldsLock`, which
  `docs/autotune.md:207` asks resolvers to prevent); and a callback resolves the key it is
  asked for (`WaitsForItself`). The run shows that there is no fifth.
* MUSA and MACA launch with a shared memory of zero when the metadata cannot be
  read, and GCU reads them at every launch; `LaunchUsesCompiledSize` holds for CUDA, IX,
  HCU and MLU, which refuse to load without an architecture. Failed attempts to load leave a
  module in the driver on every build but GCU (`FailedLoadsLeaveNothing`). A grid of
  2^31 or more passes the limit of an MLU, since `check_grid` reads an `int`
  (`ClassDividesGrid`).

Liveness assumes that a thread inside a call of the library is scheduled (weak
fairness of its steps), which covers: mutexes are granted, callbacks,
compilations and the driver return or throw. Nothing is assumed of programs
that call the library. This is what the code relies on, which uses no timeout
and never retries. In `PythonBridge` a lock is a guard that is false while another
thread has it, so the fairness of a thread's steps is strong: who wants the
interpreter lock, or a lock of Python, gets it if it is free again and again.
`Suspend` is the interpreter's switch interval: threads that run Python give the
lock up from time to time (nothing is assumed of which), and `Resume` is taking it
again. A thread that waits for a benchmark lock waits without the interpreter lock.
A `std::mutex` needs no such assumption in the other modules, whose runs show
their liveness under weak fairness alone.

## 4. Proofs

All are safety results, by induction over the steps, for any sets of threads,
kernels, keys, schemas, hooks, files and addresses and any bounds. Every
invariant, action property and refinement that a passing run checks is stated by
a theorem; the four liveness properties are not.

* **The table** (`TunedTableProofs`). `TableCorrect` proves `TableInv`. `RowsAreUnique`
  alone is not inductive: between the append and the publication the new table
  exists only in the locals of the thread that holds `load_mu_`. `MutexHeld` says that
  it is alone, `HomesApart` that no two slots share a storage, and `PendingExtends`
  that its table extends the published one and its nodes shadow no row of the
  file. `TypeCorrect` and `RowsUnique` follow.
* **The flights.** `OneFlight` and `NoOrphans` prove the two invariants of the flights
  together: a waiter's owner is found through the token that is pending.
* **The answers.** `CallsCorrect` proves `CallsInv` on top of `TableInv`: the generation of
  a slot only grows, the token of a call spells its key, and what an owner has in
  hand is a row of the key under the schema of the table it read, or is about to become
  one. `OwnersAreCurrent` follows for every instance. `AnswersFit` needs the hypothesis
  `StableBuckets`: files that rebind a kernel may change the columns, but not the bucket of a key.
  The proof shows where: the token of a waiter may be spelled with another schema than the owner's,
  so without the hypothesis a waiter can be given the row of another key, which is the
  run `other_key_answer`. Owners need no hypothesis.
* **Waiters.** `WaitersAreRecent` proves `WaitersAnswerIsRecent`: only the owner a waiter joined wakes it,
  with the row in its hand, of which `OwnAnswer` in `CallsInv` says that no load had replaced it
  when the owner was called.
* **The refinement.** `CacheRefined` proves `ReadersSeeCache` step by step. An append to the storage of the published
  table is the moment at which readers learn the answer (`AppendLearns`), and the publication that follows
  repeats it; an append to a storage of its own is a stutter (`AppendHides`), and its publication
  shows the answer or starts a generation (`PublishShows`); a load starts the next generation
  (`LoadBinds`). No other step changes what a reader sees.
* **Key normalisation** (`TableLoadProofs`). `NormalizeIsBucket`: for every width above 6, strategy and
  dimension that does not overflow, `normalize_dim` is the least value of the bucket's kind that
  is not below the dimension (a "log" dimension above the largest power of two stays as it is). `NormalizeSettles`: a normalised dimension is its own bucket, which is
  what lets `load()` normalise the rows and `find()` the key.
* **The index.** `FindIsLookupOf`: whatever rows a sound file has, and however the hash spreads them over the
  buckets, the walk along a chain of `build_index` ends at the last row of the key, or at none.
* **Loading.** `LoadCorrect` proves `LoadInv`: how far each thread is in the list of documents (`Progress`), and
  that a device and kernel that some thread has passed hold what the last sound document for them says
  (`Settled`, `NothingElse`). Two threads may load the same list at the same time because each ends at the
  same table. `BoundTables` adds that every table was made of a kernel of a sound document; `LoadTypes`, `LoadJudges`,
  `LookupsAreRight` and `EnvTableWins` follow.
* **Programs.** `ProgramCacheProofs!CacheCorrect` proves `CacheInv`: who holds which mutex,
  what each stage of a call may rely on (`StagesAgree`), that a ready kernel has the handle of
  its artifact's module, and that a caller who was told "prepared" never reaches
  a stage that asks about freezing. `PreparedNeverRefused`, `LaunchFindsHandle`,
  `LoadedAtMostOnce`, `QuietFreezeHolds` and the action property `OnlyWarmer`
  follow from it.
* **Hooks.** `LaunchHooksProofs!HooksCorrect` proves `HooksInv`; its core is `CopyIsPrivate`:
  the state a setter is about to publish is what it read with its side changed,
  at an address no one else owns, so that an equal address at the exchange
  means an equal state. `AtomicSetters` is the refinement: every step maps to a
  step of `HookRegister` or a stutter. `OneStatePerLaunch` follows.
* **The bridge.** `PythonBridgeProofs!BridgeIsSound` proves `BridgeInv`: `init_flag` names the thread that
  runs the body, a call that came with the interpreter lock has it wherever the
  interpreter or the wait hook has not taken it away, and under a benchmark lock a
  key is not cached until its own selection stores it. `LockComesBack` (an action
  property), `BackendIsKnown`, `TrialsAreIsolated` and `StrangeEntriesGo` follow.
* **Backends.** `BackendsProofs!BackendsAreSound` proves `BackendsInv`, for every backend at once. The
  proof first reads off each header at which place of its load which step is
  (`AllPlaces`); after that it speaks of places and needs no further split by build.
  `LoadIsPrivate` is the heart: what a load has done so far is nobody else's, so
  that publication adds an entry and replaces none. With `HandlesLeadHome` it is inductive;
  on the NPU a stub's number is below the counter and in no entry yet.
  `CompiledSizeIsUsed`, `NothingIsLeftBehind` and `WorkspacesLast` follow.
  For workspaces the argument is arithmetic: the size is the product of the grid modulo
  `Unsigned` times the size per program, and what is launched is never more.
  `ClassesDivide` proves `ClassDividesGrid` under `WarpsDivide`: the compiled numbers of warps divide
  `Unsigned`, as all powers of two do. With three warps and a grid whose product wraps
  around, the class does not divide what is launched; the compilers write powers of two.
* **Arguments** (`ArgumentsProofs`). `ArgumentsKept` proves `ArgumentsInv`, which says where everything
  comes from: `Frame` fixes the call, `Answered` has one token for each argument, the one `HandleArg` gives it;
  `Buffered` says that the bytes hold what was pushed, in order, followed by the two scratch
  pointers where a backend adds them; `Overloaded` and `Keyed` that a compiled kernel is what the compiler
  made of its key and that the call's key is made of the call's signature; `Blocked` that an NPU's block is packed
  from the call's layout; `Thrown` that a refusal had its reason. A signature that is split again has one token
  for each argument unless a text spells several (`SignatureAt`), and without misread text it is what
  was composed (`ReadAsWritten`), so that the other lemmas speak of `tokens`. `KernelSuitsCall` is not
  inductive because a kernel is used again by calls with other arguments: its hints are true of the
  earlier arguments, and only the equality of tokens (`Keyed`) carries them over.
  `ArgumentsTypes`, `SpecialisationsSuit` and `RefusalsDeserved` follow.
* **The two readings.** `ArgumentsAlwaysArrive` proves `ArgumentsArrive`, the property the module exists for. The answers
  of `HandleArg` are sorted into seven kinds (`Made`); for each of them what was pushed and what the compiler
  declares for its token correspond value by value, so that the whole buffer and the whole list of
  parameters do (`WholesMatch`), and a value read at its offset with its width is the one that was written
  (`ReadBack`; integers that do not fit wrap around on both sides). For an NPU the block is traced
  step by step (`PackTrace`): each step puts its value where the layout says (`StepPlaces`), that place is the
  offset the compiler computes (`StepsAreOffsets`), and the grid follows (`ThreeGrids`).

What the attempts at these proofs corrected in the models, each compared with the code again: `HandleArg`
and `SizeOf` in `Arguments` had arms of a `CASE` that overlapped (an argument beyond the kernel's parameters; a
pointer whose element type has the name of an integer); an empty tensor's extent of 0 is tagged
as small on HCU, and only the 0 of a `device_ptr` means that it is unknown; a tuple has no booleans
among its elements (`Elements`).

Induction over data. The prover cannot use the library's theorems of induction, which take an operator.
Where a proof needs one (the powers of two, the chain of an index, the steps that pack a block) it takes the least
member of the set of counterexamples (`LeastOf` in `DataLemmas`, from the well-foundedness of `<`) and
shows that it is none. Recursive functions and folds are shown to exist and to satisfy their
equations the same way.

Assumptions on constants are named `...Assumption` in the modules: the absent
values differ from the present ones, a file names a kernel once and has rows in
normal form, documents, kernels and arguments have the shape the parsers and types give them, bounds are
natural numbers, a word has more than 6 bits. `StableBuckets` and `WarpsDivide` are hypotheses of one theorem
each and no assumption of the others; the instances of the runs that check these
properties satisfy them.

Only model-checked: the liveness properties `ResolveReturns`, both `CallsReturn` and
`QuietSettersReturn`, since liveness under fairness and `ENABLED` are out of the prover's
reach. The four runs that end in a violation are counterexamples and need no proof.

Each property of a passing run has a mutant in `PROJECT.json`: a variant of one
definition, kept beside it in the module and introduced by the word "Mutant",
that a bug of that kind would give, and under which TLC finds the property violated.

## 5. Not modelled, and the plan

Not modelled: the memory model below acquire and release (a step is atomic);
allocation failures; the buckets of online rows (a lookup in them is a lookup in a set of
rows; those of a file's rows are in `TableLoad`); the hash function beyond its use as an index;
narrowing conversions of the JSON library; the destruction of the static caches at exit;
in `Backends` the contexts (which one `ensure_context` finds, retains or creates: per device on
HCU and MACA, per thread where the code creates one), because no cache in the headers knows them either;
`ProgramCache` has the context of a module on CUDA and `program_context` what follows;
`find_for_context` and `torch_dtype_name`, which change nothing; `launch_with_raw_args` with a
signature of the caller's own, argument by argument; texts whose parentheses another text closes, empty
ones, ones that name types no argument has, and ones that the NPU's layout counts otherwise than the compiler
(digits or `i32` in front, `True`); the text and fingerprint of a JIT
function token; negative device indices; how a tuner's answer is parsed, how tuners are
found and pruned, and which layouts of tensors are copied; Triton and its
versions, the drivers, the NPU compiler worker. Operators, examples, tests and packaging are
clients of the library. `export_tuned_table.py` is an offline script with no state that
survives it.

Next, in this order:

1. `OnlineIndex`: the online buckets, implementing the set of rows of
   `TunedTable`, with a lock-free reader during an append.
2. `ExportMerge`: the exporter's merge of rows, against the rows `FilesAreJudged` takes.
3. Contexts in `Backends`: loads and launches on several devices for the builds that retain
   one per device, and with several threads for the builds that create one per thread.
