------------------------------- MODULE Backends -------------------------------
(***************************************************************************)
(* One build of the library talks to one driver through a backend header    *)
(* (src/include/triton_jit/backends/): module cache, metadata of   *)
(* the compiled kernel, launch.  The eight headers follow one protocol with *)
(* differences that matter when a step fails; each header is a definition   *)
(* here, and the actions interpret it.  `build` is chosen once.             *)
(*                                                                          *)
(* Threads launch a kernel that was compiled into several directories (one  *)
(* per signature), each through a kernel object of its own, as the threads  *)
(* of two devices of one architecture do.  The artifacts are files that     *)
(* another process may remove, cut short or write again at any time.        *)
(***************************************************************************)
EXTENDS Integers, Sequences, FiniteSets

CONSTANTS
  Threads,
  Dirs,       (* Artifact directories; all hold a kernel of the same name.        *)
  Builds,     (* The backends to consider.                                        *)
  Compiled,   (* What the compiler wrote into the metadata of a directory.        *)
  Grids,      (* Grid sizes <<x, y>> of the callers.                              *)
  Unsigned,   (* Number of values of an unsigned int: 2^32 in the code.            *)
  Cores,      (* Physical cores of an NPU, cores of a cluster of an MLU.          *)
  Clusters,   (* Clusters of an MLU.                                              *)
  MaxGrid,    (* Largest x of a grid an MLU takes.                                *)
  MaxModules, (* Bound: modules the driver can load.                              *)
  MaxTouches, (* Bound: changes of the artifacts.                                 *)
  MaxWork,    (* Bound: workspaces that exist at once.                            *)
  None

AllBuilds == {"cuda", "ix", "hcu", "mlu", "musa", "maca", "gcu", "npu"}
Ids == 1 .. MaxModules
Workspaces == 1 .. MaxWork

ASSUME BackendsAssumption ==
  /\ Builds \subseteq AllBuilds
  /\ None \notin Threads \cup Dirs /\ None \notin Nat /\ None \notin BOOLEAN
  /\ Dirs # {}
  /\ Unsigned \in Nat \ {0} /\ Cores \in Nat \ {0} /\ Clusters \in Nat \ {0}
  /\ MaxGrid \in Nat /\ MaxModules \in Nat /\ MaxTouches \in Nat /\ MaxWork \in Nat
  /\ Grids \subseteq Nat \X Nat
  /\ Compiled \in [Dirs -> [shared : Nat \ {0}, workspace : Nat, blockify : BOOLEAN,
                            warps : Nat \ {0}, promote : BOOLEAN]]

-----------------------------------------------------------------------------
(* The headers: the steps of load_kernel after the cache was searched, where  *)
(* get_shared_memory looks, and which preparations a launch makes.            *)

\* Mutant: metadata that could not be read are taken for what the compiler wrote.
CudaTrusts == [shared |-> "cache",
  steps |-> <<"gpu metadata", "device arch", "load", "function", "shared limit", "publish">>]
CudaLoad == [shared |-> "cache",
  steps |-> <<"gpu metadata", "need arch", "device arch", "load", "function", "shared limit", "publish">>]
CudaHost == [prepare |-> "nothing", launch |-> "plain"]

IxLoad == [shared |-> "cache",
  steps |-> <<"gpu metadata", "need arch", "load", "function", "shared limit", "publish">>]
IxHost == [prepare |-> "nothing", launch |-> "plain"]

HcuLoad == [shared |-> "cache",
  steps |-> <<"hcu metadata", "need arch", "device arch", "load", "function", "shared limit", "publish">>]
HcuHost == [prepare |-> "nothing", launch |-> "plain"]

MluLoad == [shared |-> "cache",
  steps |-> <<"mlu metadata", "need arch", "device arch", "load", "function", "publish">>]
MluHost == [prepare |-> "metadata", launch |-> "mlu"]

MusaLoad == [shared |-> "cache",
  steps |-> <<"gpu metadata", "find binary", "load", "function", "publish">>]
MusaHost == [prepare |-> "nothing", launch |-> "plain"]

MacaLoad == [shared |-> "cache",
  steps |-> <<"gpu metadata", "find binary", "load", "function", "publish">>]
MacaHost == [prepare |-> "nothing", launch |-> "not empty"]

\* Mutant: a module whose function was not found stays loaded.
GcuKeeps == [shared |-> "file", steps |-> <<"load", "function", "publish">>]
GcuLoad == [shared |-> "file", steps |-> <<"load", "function or unload", "publish">>]
GcuHost == [prepare |-> "nothing", launch |-> "plain"]

NpuLoad == [shared |-> "cache",
  steps |-> <<"npu metadata", "find binary", "set device", "load", "stub", "register", "publish">>]
NpuHost == [prepare |-> "blockify", launch |-> "npu"]

Loads == [cuda |-> CudaLoad, ix |-> IxLoad, hcu |-> HcuLoad, mlu |-> MluLoad,
          musa |-> MusaLoad, maca |-> MacaLoad, gcu |-> GcuLoad, npu |-> NpuLoad]
Hosts == [cuda |-> CudaHost, ix |-> IxHost, hcu |-> HcuHost, mlu |-> MluHost,
          musa |-> MusaHost, maca |-> MacaHost, gcu |-> GcuHost, npu |-> NpuHost]

-----------------------------------------------------------------------------
VARIABLES
  build,      (* The backend of this process.                                     *)
  json,       (* The metadata file of a directory.                                *)
  touches,
  live,       (* The driver: the directory a loaded module is of, or None.        *)
  registered, (* NPU driver: the module a function stub stands for, or None.      *)
  names,      (* registered_names_ of the kernel's name.                          *)
  cache,      (* module_cache_: handle and metadata, or None.                     *)
  mutex,      (* cache_mutex_.                                                    *)
  handles,    (* LoadState::handle of a thread's kernel objects.                  *)
  pc,
  dir,        (* The directory a call is about.                                   *)
  step,       (* Where load_kernel is.                                            *)
  meta,       (* Its metadata.                                                    *)
  module,     (* Its module.                                                      *)
  stub,       (* Its function stub.                                               *)
  shared,     (* shared_memory of a launch.                                       *)
  grid,       (* Its grid.                                                        *)
  work,       (* workspace_addr of a launch.                                      *)
  submitted,  (* What the latest call of a thread handed to the driver, or None.  *)
  memory,     (* NPU driver: size of an allocated workspace, or None.             *)
  running,    (* NPU driver: bytes a kernel that has not completed uses, or None. *)
  cleanup,    (* Workspaces a stream callback will free.                          *)
  leaked      (* Workspaces the code gave up with a warning.                      *)

fileVars == <<build, json, touches>>
driverVars == <<live, registered>>
cacheVars == <<names, cache, mutex, handles>>
loadVars == <<step, meta, module, stub>>
launchVars == <<shared, grid, work, submitted>>
workVars == <<memory, running, cleanup, leaked>>
vars == <<fileVars, driverVars, cacheVars, pc, dir, loadVars, launchVars, workVars>>

Files == {"valid", "legacy", "absent", "torn"}
Nums == Nat \cup {None}
Metadata == [shared : Nat, arch : BOOLEAN, workspace : Nat, blockify : BOOLEAN \cup {None},
             warps : Nat, promote : BOOLEAN]
Entry == [handle : Nat, meta : Metadata]
ASSUME EntryAssumption == None \notin Entry
Submission == [module : Ids \cup {None}, shared : Nat, x : Nat, class : Nat]

TypeOK ==
  /\ build \in Builds
  /\ json \in [Dirs -> Files]
  /\ touches \in 0 .. MaxTouches
  /\ live \in [Ids -> Dirs \cup {None}]
  /\ registered \in [0 .. MaxModules -> Ids \cup {None}]
  /\ names \in 0 .. MaxModules
  /\ cache \in [Dirs -> Entry \cup {None}]
  /\ mutex \in Threads \cup {None}
  /\ handles \in [Threads -> [Dirs -> Nums]]
  /\ pc \in [Threads -> {"idle", "load", "loading", "shared", "prepare", "submit",
                         "launch", "callback"}]
  /\ dir \in [Threads -> Dirs]
  /\ step \in [Threads -> 1 .. 7]
  /\ meta \in [Threads -> Metadata]
  /\ module \in [Threads -> Ids \cup {None}]
  /\ stub \in [Threads -> Nat]
  /\ shared \in [Threads -> Nat]
  /\ grid \in [Threads -> Nat \X Nat]
  /\ work \in [Threads -> Workspaces \cup {None}]
  /\ submitted \in [Threads -> Submission \cup {None}]
  /\ memory \in [Workspaces -> Nums]
  /\ running \in [Workspaces -> Nums]
  /\ cleanup \in SUBSET Workspaces
  /\ leaked \in SUBSET Workspaces

Defaults == [shared |-> 0, arch |-> FALSE, workspace |-> 0, blockify |-> None,
             warps |-> 1, promote |-> FALSE]

Init ==
  /\ build \in Builds
  /\ json = [d \in Dirs |-> "valid"]
  /\ touches = 0
  /\ live = [i \in Ids |-> None]
  /\ registered = [i \in 0 .. MaxModules |-> None]
  /\ names = 0
  /\ cache = [d \in Dirs |-> None]
  /\ mutex = None
  /\ handles = [t \in Threads |-> [d \in Dirs |-> None]]
  /\ pc = [t \in Threads |-> "idle"]
  /\ dir = [t \in Threads |-> CHOOSE d \in Dirs : TRUE]
  /\ step = [t \in Threads |-> 1]
  /\ meta = [t \in Threads |-> Defaults]
  /\ module = [t \in Threads |-> None]
  /\ stub = [t \in Threads |-> 0]
  /\ shared = [t \in Threads |-> 0]
  /\ grid = [t \in Threads |-> <<1, 1>>]
  /\ work = [t \in Threads |-> None]
  /\ submitted = [t \in Threads |-> None]
  /\ memory = [w \in Workspaces |-> None]
  /\ running = [w \in Workspaces |-> None]
  /\ cleanup = {} /\ leaked = {}

-----------------------------------------------------------------------------
(* The artifacts (kernel_metadata.cpp).  "legacy" metadata was written by a   *)
(* compiler that did not resolve enable_auto_blockify.                        *)

Readable(d) == json[d] \in {"valid", "legacy"}

GpuMetadata(d) ==
  IF Readable(d) THEN [Defaults EXCEPT !.shared = Compiled[d].shared, !.arch = TRUE]
  ELSE Defaults

HcuMetadata(d) ==
  IF Readable(d) THEN [Defaults EXCEPT !.shared = Compiled[d].shared, !.arch = TRUE]
  ELSE Defaults

MluMetadata(d) ==
  IF Readable(d)
  THEN [Defaults EXCEPT !.shared = Compiled[d].shared, !.arch = TRUE,
                        !.warps = Compiled[d].warps, !.promote = Compiled[d].promote]
  ELSE Defaults

NpuMetadata(d) ==
  IF Readable(d)
  THEN [Defaults EXCEPT !.shared = Compiled[d].shared, !.workspace = Compiled[d].workspace,
                        !.blockify = IF json[d] = "valid" THEN Compiled[d].blockify ELSE None]
  ELSE Defaults

LoadSharedMemory(d) == IF Readable(d) THEN Compiled[d].shared ELSE 0

\* The cache is removed, written again, or a write is cut short; a torn file
\* differs from an absent one only where the exception is not caught.
FileStates ==
  {"valid", "absent"} \cup (IF build = "npu" THEN {"legacy"} ELSE {})
                      \cup (IF build = "mlu" THEN {"torn"} ELSE {})
TouchArtifacts(d) ==
  /\ touches < MaxTouches
  /\ \E f \in FileStates : f # json[d] /\ json' = [json EXCEPT ![d] = f]
  /\ touches' = touches + 1
  /\ UNCHANGED <<build, driverVars, cacheVars, pc, dir, loadVars, launchVars,
                 workVars>>

-----------------------------------------------------------------------------
(* A call: handle, shared memory, options, launch *)

\* The call raises and leaves the scope of every lock it holds.
Throws(t) == pc' = [pc EXCEPT ![t] = "idle"]
Goes(t, where) == pc' = [pc EXCEPT ![t] = where]

\* A call starts with ensure_context and get_device_index; each driver call of
\* theirs may fail.  Which context is current, and which one a module belongs to, is
\* not kept here: the cache does not know it either, and ProgramCache shows what
\* follows.
Begin(t) ==
  /\ pc[t] = "idle"
  /\ \E d \in Dirs :
       /\ dir' = [dir EXCEPT ![t] = d]
       /\ \/ Goes(t, IF handles[t][d] = None THEN "load" ELSE "shared")
          \/ UNCHANGED pc
  /\ submitted' = [submitted EXCEPT ![t] = None]
  /\ shared' = [shared EXCEPT ![t] = 0]
  /\ grid' = [grid EXCEPT ![t] = <<1, 1>>]
  /\ UNCHANGED <<fileVars, driverVars, cacheVars, loadVars, work, workVars>>

\* load_kernel takes the mutex; what is in the cache is the answer.  Mutant: the
\* cache is not searched.
NeverCached(d) == FALSE
Cached(d) == cache[d] # None

FindModule(t) ==
  /\ pc[t] = "load"
  /\ mutex = None
  /\ IF Cached(dir[t])
     THEN /\ handles' = [handles EXCEPT ![t][dir[t]] = cache[dir[t]].handle]
          /\ Goes(t, "shared")
          /\ UNCHANGED <<mutex, loadVars>>
     ELSE /\ mutex' = t
          /\ step' = [step EXCEPT ![t] = 1]
          /\ meta' = [meta EXCEPT ![t] = Defaults]
          /\ module' = [module EXCEPT ![t] = None]
          /\ stub' = [stub EXCEPT ![t] = 0]
          /\ Goes(t, "loading")
          /\ UNCHANGED handles
  /\ UNCHANGED <<fileVars, driverVars, names, cache, dir, launchVars, workVars>>

At(t, what) == pc[t] = "loading" /\ Loads[build].steps[step[t]] = what
Advance(t) == step' = [step EXCEPT ![t] = @ + 1] /\ UNCHANGED pc
InLoad == UNCHANGED <<fileVars, cache, handles, dir, launchVars, workVars>>

ReadMetadata(t) ==
  /\ \/ At(t, "gpu metadata") /\ meta' = [meta EXCEPT ![t] = GpuMetadata(dir[t])]
     \/ At(t, "hcu metadata") /\ meta' = [meta EXCEPT ![t] = HcuMetadata(dir[t])]
     \/ /\ At(t, "mlu metadata") /\ json[dir[t]] # "torn"
        /\ meta' = [meta EXCEPT ![t] = MluMetadata(dir[t])]
     \/ At(t, "npu metadata") /\ meta' = [meta EXCEPT ![t] = NpuMetadata(dir[t])]
  /\ Advance(t)
  /\ InLoad /\ UNCHANGED <<driverVars, names, mutex, module, stub>>

\* Steps that only ask, and may refuse.
Questions == {"device arch", "find binary", "set device", "function", "function or unload",
              "shared limit"}
Ask(t) ==
  /\ \/ At(t, "need arch") /\ meta[t].arch
     \/ \E q \in Questions : At(t, q)
  /\ Advance(t)
  /\ InLoad /\ UNCHANGED <<driverVars, names, mutex, meta, module, stub>>

LoadModule(t) ==
  /\ At(t, "load")
  /\ \E i \in Ids :
       /\ live[i] = None /\ \A j \in Ids : live[j] = None => i <= j
       /\ live' = [live EXCEPT ![i] = dir[t]]
       /\ module' = [module EXCEPT ![t] = i]
  /\ Advance(t)
  /\ InLoad /\ UNCHANGED <<registered, names, mutex, meta, stub>>

\* registered_names_[kernel_name]++: the name, and so the address of the stub in
\* func_stubs_, is new.  Mutant: the counter stays.
SameName == names
NextName == names + 1
MakeStub(t) ==
  /\ At(t, "stub")
  /\ stub' = [stub EXCEPT ![t] = names]
  /\ names' = NextName
  /\ Advance(t)
  /\ InLoad /\ UNCHANGED <<driverVars, mutex, meta, module>>

RegisterFunction(t) ==
  /\ At(t, "register")
  /\ registered' = [registered EXCEPT ![stub[t]] = module[t]]
  /\ Advance(t)
  /\ InLoad /\ UNCHANGED <<live, names, mutex, meta, module, stub>>

Handle(t) == IF build = "npu" THEN stub[t] ELSE module[t]

PublishModule(t) ==
  /\ At(t, "publish")
  /\ cache' = [cache EXCEPT ![dir[t]] = [handle |-> Handle(t), meta |-> meta[t]]]
  /\ handles' = [handles EXCEPT ![t][dir[t]] = Handle(t)]
  /\ mutex' = None
  /\ Goes(t, "shared")
  /\ UNCHANGED <<fileVars, driverVars, names, dir, loadVars, launchVars, workVars>>

\* A step fails.  Only the GCU's load undoes what it has done.
LoadThrows(t) ==
  /\ \/ \E q \in Questions \cup {"load", "register"} : At(t, q)
     \/ At(t, "need arch") /\ ~meta[t].arch
     \/ At(t, "mlu metadata") /\ json[dir[t]] = "torn"
  /\ live' = IF At(t, "function or unload") THEN [live EXCEPT ![module[t]] = None] ELSE live
  /\ mutex' = None
  /\ Throws(t)
  /\ UNCHANGED <<fileVars, registered, names, cache, handles, dir, loadVars,
                 launchVars, workVars>>

-----------------------------------------------------------------------------
(* get_shared_memory, prepare_launch, launch_kernel *)

GetSharedMemory(t) ==
  /\ pc[t] = "shared"
  /\ Loads[build].shared = "cache" => mutex = None
  /\ shared' = [shared EXCEPT ![t] =
                  IF Loads[build].shared = "cache" /\ cache[dir[t]] # None
                  THEN cache[dir[t]].meta.shared ELSE LoadSharedMemory(dir[t])]
  /\ Goes(t, "prepare")
  /\ UNCHANGED <<fileVars, driverVars, cacheVars, dir, loadVars, grid, work,
                 submitted, workVars>>

\* The metadata the launch options are made of; they stay readable through a
\* pointer into the cache after the mutex is released.
Options(t) == cache[dir[t]].meta

Prepared(t) ==
  CASE Hosts[build].prepare = "nothing" -> TRUE
    [] Hosts[build].prepare = "metadata" -> mutex = None /\ cache[dir[t]] # None
    [] Hosts[build].prepare = "blockify" ->
         mutex = None /\ cache[dir[t]] # None /\ Options(t).blockify # None

\* The grid is the caller's.  Where it goes to the driver as it is, one stands for
\* all.
LaunchGrids == IF Hosts[build].launch = "plain" THEN {<<1, 1>>} ELSE Grids

PrepareLaunch(t) ==
  /\ pc[t] = "prepare"
  /\ Prepared(t)
  /\ \E g \in LaunchGrids : grid' = [grid EXCEPT ![t] = g]
  /\ Goes(t, "submit")
  /\ UNCHANGED <<fileVars, driverVars, cacheVars, dir, loadVars, shared, work,
                 submitted, workVars>>

PrepareThrows(t) ==
  /\ pc[t] = "prepare"
  /\ Hosts[build].prepare # "nothing" => mutex = None
  /\ ~Prepared(t)
  /\ Throws(t)
  /\ UNCHANGED <<fileVars, driverVars, cacheVars, dir, loadVars, launchVars,
                 workVars>>

\* unsigned arithmetic, and the int that check_grid reads.
AsUnsigned(n) == n % Unsigned
AsInt(n) == IF n < Unsigned \div 2 THEN n ELSE n - Unsigned

GridX(t) == grid[t][1]
GridY(t) == grid[t][2]
GridProduct(x, y) == AsUnsigned(x * y)

\* The module behind the handle of this launch.
Launched(t) ==
  LET h == handles[t][dir[t]] IN IF build = "npu" THEN registered[h] ELSE h

\* KernelClass: the cores of a cluster together, or one warp after the other.
\* Mutant: without asking whether the grid divides.
AnyClass(x, y, m) ==
  IF m.warps = 1 /\ (m.promote \/ GridProduct(x, y) <= Clusters * Cores) THEN Cores ELSE m.warps
KernelClass(x, y, m) ==
  IF m.warps = 1 /\ x % Cores = 0 /\ (m.promote \/ GridProduct(x, y) <= Clusters * Cores)
  THEN Cores ELSE m.warps

SubmitMlu(t) ==
  LET m == Options(t)
      x == AsUnsigned(GridX(t) * m.warps) IN
  /\ Hosts[build].launch = "mlu"
  /\ AsInt(x) <= MaxGrid
  /\ submitted' = [submitted EXCEPT ![t] =
       [module |-> Launched(t), shared |-> shared[t], x |-> x,
        class |-> KernelClass(x, GridY(t), m)]]

SubmitPlain(t) ==
  /\ \/ Hosts[build].launch = "plain"
     \/ Hosts[build].launch = "not empty" /\ GridProduct(GridX(t), GridY(t)) # 0
  /\ submitted' = [submitted EXCEPT ![t] =
       [module |-> Launched(t), shared |-> shared[t], x |-> GridX(t),
        class |-> 1]]

\* An empty grid is not submitted to MACA.  A launch that throws submits nothing.
Submit(t) ==
  /\ pc[t] = "submit"
  /\ Hosts[build].launch # "npu"
  /\ SubmitMlu(t) \/ SubmitPlain(t) \/ UNCHANGED submitted
  /\ Goes(t, "idle")
  /\ UNCHANGED <<fileVars, driverVars, cacheVars, dir, loadVars, shared, grid,
                 work, workVars>>

\* Blocks of an NPU launch: with auto-blockify no more than there are cores.
LaunchBlocks(t) ==
  LET b == GridProduct(GridX(t), GridY(t))
  IN IF Options(t).blockify /\ b > Cores THEN Cores ELSE b

\* Mutant: a workspace for the blocks that are launched.
LaunchedBytes(t) == Options(t).workspace * LaunchBlocks(t)
WorkspaceBytes(t) == Options(t).workspace * GridProduct(GridX(t), GridY(t))

\* The core count, the control address, the layout and the allocation may fail.
AllocateWorkspace(t) ==
  /\ pc[t] = "submit"
  /\ Hosts[build].launch = "npu"
  /\ \/ Throws(t) /\ UNCHANGED <<work, memory>>
     \/ /\ Options(t).workspace = 0
        /\ work' = [work EXCEPT ![t] = None]
        /\ Goes(t, "launch")
        /\ UNCHANGED memory
     \/ /\ Options(t).workspace > 0
        /\ \E w \in Workspaces :
             /\ memory[w] = None /\ \A v \in Workspaces : memory[v] = None => w <= v
             /\ work' = [work EXCEPT ![t] = w]
             /\ memory' = [memory EXCEPT ![w] = WorkspaceBytes(t)]
        /\ Goes(t, "launch")
  /\ UNCHANGED <<fileVars, driverVars, cacheVars, dir, loadVars, shared, grid,
                 submitted, running, cleanup, leaked>>

\* What the programs of the logical grid use, if their number fits the type.
UsedBytes(t) ==
  Options(t).workspace * (IF GridX(t) * GridY(t) < Unsigned THEN GridX(t) * GridY(t)
                          ELSE LaunchBlocks(t))

\* rtFree when the launch fails.
Freed(w) == [memory EXCEPT ![w] = None]

LaunchNpu(t) ==
  /\ pc[t] = "launch"
  /\ \/ /\ submitted' = [submitted EXCEPT ![t] =
             [module |-> Launched(t), shared |-> shared[t], x |-> GridX(t),
              class |-> 1]]
        /\ running' = IF work[t] = None THEN running
                      ELSE [running EXCEPT ![work[t]] = UsedBytes(t)]
        /\ Goes(t, IF work[t] = None THEN "idle" ELSE "callback")
        /\ UNCHANGED <<memory, work>>
     \/ /\ memory' = IF work[t] = None THEN memory ELSE Freed(work[t])
        /\ work' = [work EXCEPT ![t] = None]
        /\ Throws(t)
        /\ UNCHANGED <<submitted, running>>
  /\ UNCHANGED <<fileVars, driverVars, cacheVars, dir, loadVars, shared, grid,
                 cleanup, leaked>>

\* aclrtLaunchCallback: the stream frees the workspace, or nobody does.
HandOver(t) ==
  /\ \/ cleanup' = cleanup \cup {work[t]} /\ UNCHANGED leaked
     \/ leaked' = leaked \cup {work[t]} /\ UNCHANGED cleanup
  /\ UNCHANGED memory

RegisterCleanup(t) ==
  /\ pc[t] = "callback"
  /\ HandOver(t)
  /\ work' = [work EXCEPT ![t] = None]
  /\ Goes(t, "idle")
  /\ UNCHANGED <<fileVars, driverVars, cacheVars, dir, loadVars, shared, grid,
                 submitted, running>>

\* The device finishes a kernel; the stream reaches the callback after it.
KernelCompletes(w) ==
  /\ running[w] # None
  /\ running' = [running EXCEPT ![w] = None]
  /\ UNCHANGED <<fileVars, driverVars, cacheVars, pc, dir, loadVars, launchVars,
                 memory, cleanup, leaked>>

StreamFrees(w) ==
  /\ w \in cleanup /\ running[w] = None
  /\ memory' = [memory EXCEPT ![w] = None]
  /\ cleanup' = cleanup \ {w}
  /\ UNCHANGED <<fileVars, driverVars, cacheVars, pc, dir, loadVars, launchVars,
                 running, leaked>>

LaunchStep(t) ==
  \/ Begin(t) \/ FindModule(t)
  \/ ReadMetadata(t) \/ Ask(t) \/ LoadModule(t) \/ MakeStub(t) \/ RegisterFunction(t)
  \/ PublishModule(t) \/ LoadThrows(t)
  \/ GetSharedMemory(t) \/ PrepareLaunch(t) \/ PrepareThrows(t) \/ Submit(t)
  \/ AllocateWorkspace(t) \/ LaunchNpu(t) \/ RegisterCleanup(t)

Next ==
  \/ \E t \in Threads : LaunchStep(t)
  \/ \E d \in Dirs : TouchArtifacts(d)
  \/ \E w \in Workspaces : KernelCompletes(w) \/ StreamFrees(w)

Spec == Init /\ [][Next]_vars

-----------------------------------------------------------------------------
(* Properties *)

InMutex(t) == pc[t] = "loading"
Loading == {module[t] : t \in {u \in Threads : InMutex(u)}}
CachedModule(d) ==
  LET h == cache[d].handle IN IF build = "npu" THEN registered[h] ELSE h

\* A handle leads to the artifact it was loaded for: every kernel object has the
\* handle of the cache, so that no entry in use is ever replaced, and behind it is
\* a loaded module of its own directory - on the NPU through a function stub that
\* no other registration, of another signature or of a failed attempt, has taken
\* over.
HandlesLeadHome ==
  /\ \A d \in Dirs : cache[d] # None => CachedModule(d) # None /\ live[CachedModule(d)] = d
  /\ \A t \in Threads, d \in Dirs :
       handles[t][d] # None => cache[d] # None /\ cache[d].handle = handles[t][d]

\* Builds whose load insists on an architecture launch with the shared memory the
\* compiler asked for, whatever happens to the files before, between and after
\* the load and the launches.
Insisting == {"cuda", "ix", "hcu", "mlu"}
LaunchUsesCompiledSize ==
  \A t \in Threads :
    build \in Insisting /\ submitted[t] # None =>
      submitted[t].shared = Compiled[dir[t]].shared

\* A GCU process has loaded no more than it remembers or is about to: failed
\* loads leave nothing behind in the driver.
FailedLoadsLeaveNothing ==
  build = "gcu" =>
    \A i \in Ids : live[i] # None =>
      \/ i \in Loading
      \/ cache[live[i]] # None /\ CachedModule(live[i]) = i

\* A kernel that has not completed owns a workspace that is still allocated and
\* large enough for every program of its grid; and every allocated workspace is in
\* the hands of a launch, of the stream, or was given up with a warning: no failure
\* between allocation and launch loses one.
RunningHasWorkspace ==
  \A w \in Workspaces : running[w] # None => memory[w] # None /\ running[w] <= memory[w]
WorkspacesHaveOwner ==
  \A w \in Workspaces :
    memory[w] # None => w \in cleanup \cup leaked \/ \E t \in Threads : work[t] = w
WorkspacesAreSafe == RunningHasWorkspace /\ WorkspacesHaveOwner

\* What reaches an MLU divides into its kernel class and respects the limit of
\* the device, unless it is so large that the check reads a negative number.
ClassDividesGrid ==
  build = "mlu" => \A t \in Threads : submitted[t] # None =>
    /\ submitted[t].x % submitted[t].class = 0
    /\ submitted[t].x <= MaxGrid \/ submitted[t].x >= Unsigned \div 2

-----------------------------------------------------------------------------
(* The inductive invariant *)

\* load_kernel runs under the mutex.
MutexHeld ==
  /\ \A t \in Threads : InMutex(t) => mutex = t
  /\ mutex # None => InMutex(mutex)

\* What load_kernel has done so far for a directory that is not in the cache: its
\* metadata are the directory's, its module is loaded for the directory, its stub has
\* a number of its own, and none of them is anybody else's.
Done(t, what) == \E j \in 1 .. step[t] - 1 : Loads[build].steps[j] = what
LoadIsPrivate ==
  \A t \in Threads : InMutex(t) =>
    /\ step[t] \in 1 .. Len(Loads[build].steps)
    /\ cache[dir[t]] = None
    /\ meta[t].arch => meta[t].shared = Compiled[dir[t]].shared
    /\ Done(t, "need arch") => meta[t].arch
    /\ ~Done(t, "load") => module[t] = None
    /\ Done(t, "load") =>
         /\ module[t] # None /\ live[module[t]] = dir[t]
         /\ \A d \in Dirs : cache[d] # None => CachedModule(d) # module[t]
    /\ Done(t, "load") /\ build = "npu" => \A i \in 1 .. module[t] : live[i] # None
    /\ Done(t, "load") /\ build = "npu" /\ ~Done(t, "stub") => names < module[t]
    /\ Done(t, "stub") =>
         stub[t] < names /\ \A d \in Dirs : cache[d] # None => cache[d].handle # stub[t]
    /\ Done(t, "register") => registered[stub[t]] = module[t]

\* Handles are modules, on the NPU the stubs that were handed out: as many as names
\* says, and no more than there are modules.
HandlesAreCounted ==
  /\ \A d \in Dirs : cache[d] # None =>
       IF build = "npu" THEN cache[d].handle < names ELSE cache[d].handle \in Ids
  /\ build = "npu" => \A i \in 1 .. names : live[i] # None

\* The metadata in the cache, and the size a launch has read from them.
MetadataAreCompiled ==
  build \in Insisting =>
    /\ \A d \in Dirs : cache[d] # None => cache[d].meta.shared = Compiled[d].shared
    /\ \A t \in Threads : pc[t] \in {"prepare", "submit"} => shared[t] = Compiled[dir[t]].shared

\* Behind load_kernel a thread has the handle of its directory.
LaunchersHaveHandles ==
  \A t \in Threads : pc[t] \in {"shared", "prepare", "submit", "launch", "callback"}
    => handles[t][dir[t]] # None

\* Who a workspace belongs to, one at a time: the launch that allocated it until its
\* kernel was submitted and the callback registered, then the stream or nobody.
WorkspacesApart ==
  /\ \A t \in Threads : work[t] # None =>
       /\ pc[t] \in {"launch", "callback"}
       /\ memory[work[t]] # None /\ work[t] \notin cleanup \cup leaked
       /\ \A u \in Threads \ {t} : work[u] # work[t]
       /\ pc[t] = "launch" => running[work[t]] = None /\ memory[work[t]] = WorkspaceBytes(t)
  /\ \A t \in Threads : pc[t] = "callback" => work[t] # None
  /\ \A t \in Threads : build # "npu" => work[t] = None /\ pc[t] # "launch"
  /\ \A w \in cleanup \cup leaked : memory[w] # None
  /\ cleanup \cap leaked = {}

BackendsInv ==
  /\ TypeOK
  /\ MutexHeld
  /\ LoadIsPrivate
  /\ HandlesAreCounted
  /\ MetadataAreCompiled
  /\ LaunchersHaveHandles
  /\ WorkspacesApart
=============================================================================
