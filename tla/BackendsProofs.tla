---------------------------- MODULE BackendsProofs ----------------------------
(***************************************************************************)
(* Proofs about Backends, for any number of threads, directories, modules,  *)
(* workspaces and changes of the files, and any metadata and grids: the      *)
(* inductive invariant, and what follows from it for every build.            *)
(***************************************************************************)
EXTENDS Backends, TLAPS

-----------------------------------------------------------------------------
(* The headers: where load_kernel takes which step; 8 stands for never, and 0 *)
(* for no reading of metadata.                                                *)

Steps(b) == Loads[b].steps
MetadataSteps == {"gpu metadata", "hcu metadata", "mlu metadata", "npu metadata"}

Places == [
  cuda |-> [meta |-> 1, arch |-> 2, load |-> 4, stub |-> 8, register |-> 8, unload |-> 8, publish |-> 7],
  ix |-> [meta |-> 1, arch |-> 2, load |-> 3, stub |-> 8, register |-> 8, unload |-> 8, publish |-> 6],
  hcu |-> [meta |-> 1, arch |-> 2, load |-> 4, stub |-> 8, register |-> 8, unload |-> 8, publish |-> 7],
  mlu |-> [meta |-> 1, arch |-> 2, load |-> 4, stub |-> 8, register |-> 8, unload |-> 8, publish |-> 6],
  musa |-> [meta |-> 1, arch |-> 8, load |-> 3, stub |-> 8, register |-> 8, unload |-> 8, publish |-> 5],
  maca |-> [meta |-> 1, arch |-> 8, load |-> 3, stub |-> 8, register |-> 8, unload |-> 8, publish |-> 5],
  gcu |-> [meta |-> 0, arch |-> 8, load |-> 1, stub |-> 8, register |-> 8, unload |-> 2, publish |-> 3],
  npu |-> [meta |-> 1, arch |-> 8, load |-> 4, stub |-> 5, register |-> 6, unload |-> 8, publish |-> 7]]

TakenAt(b, p) ==
  /\ Len(Steps(b)) = p.publish
  /\ \A i \in 1 .. p.publish :
       /\ Steps(b)[i] \in MetadataSteps <=> i = p.meta
       /\ Steps(b)[i] = "need arch" <=> i = p.arch
       /\ Steps(b)[i] = "load" <=> i = p.load
       /\ Steps(b)[i] = "stub" <=> i = p.stub
       /\ Steps(b)[i] = "register" <=> i = p.register
       /\ Steps(b)[i] = "function or unload" <=> i = p.unload
       /\ Steps(b)[i] = "publish" <=> i = p.publish

\* Metadata are read first, the module is loaded once, and publication is last.
WellOrdered(p) ==
  /\ p.meta \in 0 .. 1 /\ p.arch \in {2, 8} /\ p.load \in 1 .. 4 /\ p.publish \in 3 .. 7
  /\ p.stub \in {5, 8} /\ p.register \in {6, 8} /\ p.unload \in {2, 8}
  /\ p.load < p.stub /\ p.load < p.register /\ p.load < p.unload /\ p.load < p.publish

\* Insisting builds check the metadata before they load; only the NPU has stubs; only
\* the GCU unloads, and nothing else of its load fails behind "load".
Differs(b, p) ==
  /\ b \in Insisting => p.arch = 2 /\ p.arch < p.load /\ Loads[b].shared = "cache"
  /\ b = "npu" => p.stub = 5 /\ p.register = 6 /\ p.publish = 7
  /\ b # "npu" => p.stub = 8 /\ p.register = 8
  /\ b = "gcu" => p.load = 1 /\ p.unload = 2 /\ p.publish = 3
  /\ b # "gcu" => p.unload = 8

LEMMA CudaPlaces == TakenAt("cuda", Places.cuda) /\ WellOrdered(Places.cuda) /\ Differs("cuda", Places.cuda)
<1> DEFINE S == Steps("cuda")
<1> DEFINE P == Places.cuda
<1>1. Len(S) = 7 /\ Loads["cuda"].shared = "cache"
  BY DEF Steps, Loads, CudaLoad
<1>2. S[1] = "gpu metadata" /\ S[2] = "need arch" /\ S[3] = "device arch" /\ S[4] = "load"
      /\ S[5] = "function" /\ S[6] = "shared limit" /\ S[7] = "publish"
  BY DEF Steps, Loads, CudaLoad
<1>3. P.meta = 1 /\ P.arch = 2 /\ P.load = 4 /\ P.stub = 8 /\ P.register = 8 /\ P.unload = 8
      /\ P.publish = 7
  BY DEF Places
<1> HIDE DEF S, P
<1>4. \A i \in 1 .. 7 : i \in {1, 2, 3, 4, 5, 6, 7}
  OBVIOUS
<1>5. \A i \in 1 .. 7 : S[i] \in MetadataSteps <=> i = 1
  BY <1>2, <1>4 DEF MetadataSteps
<1>6. \A i \in 1 .. 7 : S[i] = "need arch" <=> i = 2
  BY <1>2, <1>4
<1>7. \A i \in 1 .. 7 : S[i] = "load" <=> i = 4
  BY <1>2, <1>4
<1>8. \A i \in 1 .. 7 : S[i] # "stub"
  BY <1>2, <1>4
<1>9. \A i \in 1 .. 7 : S[i] # "register"
  BY <1>2, <1>4
<1>10. \A i \in 1 .. 7 : S[i] # "function or unload"
  BY <1>2, <1>4
<1>11. \A i \in 1 .. 7 : S[i] = "publish" <=> i = 7
  BY <1>2, <1>4
<1>12. TakenAt("cuda", P)
  <2>1. ASSUME NEW i \in 1 .. P.publish
        PROVE  /\ S[i] \in MetadataSteps <=> i = P.meta
               /\ S[i] = "need arch" <=> i = P.arch
               /\ S[i] = "load" <=> i = P.load
               /\ S[i] = "stub" <=> i = P.stub
               /\ S[i] = "register" <=> i = P.register
               /\ S[i] = "function or unload" <=> i = P.unload
               /\ S[i] = "publish" <=> i = P.publish
    <3>1. i \in 1 .. 7 /\ i # 0 /\ i # 8
      BY <1>3
    <3>2. (S[i] \in MetadataSteps <=> i = P.meta) /\ (S[i] = "need arch" <=> i = P.arch) /\ (S[i] = "load" <=> i = P.load)
      BY <1>3, <1>5, <1>6, <1>7, <3>1
    <3>3. (S[i] = "stub" <=> i = P.stub) /\ (S[i] = "register" <=> i = P.register)
      BY <1>3, <1>8, <1>9, <3>1
    <3>4. (S[i] = "function or unload" <=> i = P.unload) /\ (S[i] = "publish" <=> i = P.publish)
      BY <1>3, <1>10, <1>11, <3>1
    <3> QED
      BY <3>2, <3>3, <3>4
  <2> QED
    BY <1>1, <1>3, <2>1 DEF TakenAt, S
<1>13. WellOrdered(P) /\ Differs("cuda", P)
  BY <1>1, <1>3 DEF WellOrdered, Differs, Insisting
<1> QED
  BY <1>12, <1>13 DEF P

LEMMA IxPlaces == TakenAt("ix", Places.ix) /\ WellOrdered(Places.ix) /\ Differs("ix", Places.ix)
<1> DEFINE S == Steps("ix")
<1> DEFINE P == Places.ix
<1>1. Len(S) = 6 /\ Loads["ix"].shared = "cache"
  BY DEF Steps, Loads, IxLoad
<1>2. S[1] = "gpu metadata" /\ S[2] = "need arch" /\ S[3] = "load" /\ S[4] = "function"
      /\ S[5] = "shared limit" /\ S[6] = "publish"
  BY DEF Steps, Loads, IxLoad
<1>3. P.meta = 1 /\ P.arch = 2 /\ P.load = 3 /\ P.stub = 8 /\ P.register = 8 /\ P.unload = 8
      /\ P.publish = 6
  BY DEF Places
<1> HIDE DEF S, P
<1>4. \A i \in 1 .. 6 : i \in {1, 2, 3, 4, 5, 6}
  OBVIOUS
<1>5. \A i \in 1 .. 6 : S[i] \in MetadataSteps <=> i = 1
  BY <1>2, <1>4 DEF MetadataSteps
<1>6. \A i \in 1 .. 6 : S[i] = "need arch" <=> i = 2
  BY <1>2, <1>4
<1>7. \A i \in 1 .. 6 : S[i] = "load" <=> i = 3
  BY <1>2, <1>4
<1>8. \A i \in 1 .. 6 : S[i] # "stub"
  BY <1>2, <1>4
<1>9. \A i \in 1 .. 6 : S[i] # "register"
  BY <1>2, <1>4
<1>10. \A i \in 1 .. 6 : S[i] # "function or unload"
  BY <1>2, <1>4
<1>11. \A i \in 1 .. 6 : S[i] = "publish" <=> i = 6
  BY <1>2, <1>4
<1>12. TakenAt("ix", P)
  <2>1. ASSUME NEW i \in 1 .. P.publish
        PROVE  /\ S[i] \in MetadataSteps <=> i = P.meta
               /\ S[i] = "need arch" <=> i = P.arch
               /\ S[i] = "load" <=> i = P.load
               /\ S[i] = "stub" <=> i = P.stub
               /\ S[i] = "register" <=> i = P.register
               /\ S[i] = "function or unload" <=> i = P.unload
               /\ S[i] = "publish" <=> i = P.publish
    <3>1. i \in 1 .. 6 /\ i # 0 /\ i # 8
      BY <1>3
    <3>2. (S[i] \in MetadataSteps <=> i = P.meta) /\ (S[i] = "need arch" <=> i = P.arch) /\ (S[i] = "load" <=> i = P.load)
      BY <1>3, <1>5, <1>6, <1>7, <3>1
    <3>3. (S[i] = "stub" <=> i = P.stub) /\ (S[i] = "register" <=> i = P.register)
      BY <1>3, <1>8, <1>9, <3>1
    <3>4. (S[i] = "function or unload" <=> i = P.unload) /\ (S[i] = "publish" <=> i = P.publish)
      BY <1>3, <1>10, <1>11, <3>1
    <3> QED
      BY <3>2, <3>3, <3>4
  <2> QED
    BY <1>1, <1>3, <2>1 DEF TakenAt, S
<1>13. WellOrdered(P) /\ Differs("ix", P)
  BY <1>1, <1>3 DEF WellOrdered, Differs, Insisting
<1> QED
  BY <1>12, <1>13 DEF P

LEMMA HcuPlaces == TakenAt("hcu", Places.hcu) /\ WellOrdered(Places.hcu) /\ Differs("hcu", Places.hcu)
<1> DEFINE S == Steps("hcu")
<1> DEFINE P == Places.hcu
<1>1. Len(S) = 7 /\ Loads["hcu"].shared = "cache"
  BY DEF Steps, Loads, HcuLoad
<1>2. S[1] = "hcu metadata" /\ S[2] = "need arch" /\ S[3] = "device arch" /\ S[4] = "load"
      /\ S[5] = "function" /\ S[6] = "shared limit" /\ S[7] = "publish"
  BY DEF Steps, Loads, HcuLoad
<1>3. P.meta = 1 /\ P.arch = 2 /\ P.load = 4 /\ P.stub = 8 /\ P.register = 8 /\ P.unload = 8
      /\ P.publish = 7
  BY DEF Places
<1> HIDE DEF S, P
<1>4. \A i \in 1 .. 7 : i \in {1, 2, 3, 4, 5, 6, 7}
  OBVIOUS
<1>5. \A i \in 1 .. 7 : S[i] \in MetadataSteps <=> i = 1
  BY <1>2, <1>4 DEF MetadataSteps
<1>6. \A i \in 1 .. 7 : S[i] = "need arch" <=> i = 2
  BY <1>2, <1>4
<1>7. \A i \in 1 .. 7 : S[i] = "load" <=> i = 4
  BY <1>2, <1>4
<1>8. \A i \in 1 .. 7 : S[i] # "stub"
  BY <1>2, <1>4
<1>9. \A i \in 1 .. 7 : S[i] # "register"
  BY <1>2, <1>4
<1>10. \A i \in 1 .. 7 : S[i] # "function or unload"
  BY <1>2, <1>4
<1>11. \A i \in 1 .. 7 : S[i] = "publish" <=> i = 7
  BY <1>2, <1>4
<1>12. TakenAt("hcu", P)
  <2>1. ASSUME NEW i \in 1 .. P.publish
        PROVE  /\ S[i] \in MetadataSteps <=> i = P.meta
               /\ S[i] = "need arch" <=> i = P.arch
               /\ S[i] = "load" <=> i = P.load
               /\ S[i] = "stub" <=> i = P.stub
               /\ S[i] = "register" <=> i = P.register
               /\ S[i] = "function or unload" <=> i = P.unload
               /\ S[i] = "publish" <=> i = P.publish
    <3>1. i \in 1 .. 7 /\ i # 0 /\ i # 8
      BY <1>3
    <3>2. (S[i] \in MetadataSteps <=> i = P.meta) /\ (S[i] = "need arch" <=> i = P.arch) /\ (S[i] = "load" <=> i = P.load)
      BY <1>3, <1>5, <1>6, <1>7, <3>1
    <3>3. (S[i] = "stub" <=> i = P.stub) /\ (S[i] = "register" <=> i = P.register)
      BY <1>3, <1>8, <1>9, <3>1
    <3>4. (S[i] = "function or unload" <=> i = P.unload) /\ (S[i] = "publish" <=> i = P.publish)
      BY <1>3, <1>10, <1>11, <3>1
    <3> QED
      BY <3>2, <3>3, <3>4
  <2> QED
    BY <1>1, <1>3, <2>1 DEF TakenAt, S
<1>13. WellOrdered(P) /\ Differs("hcu", P)
  BY <1>1, <1>3 DEF WellOrdered, Differs, Insisting
<1> QED
  BY <1>12, <1>13 DEF P

LEMMA MluPlaces == TakenAt("mlu", Places.mlu) /\ WellOrdered(Places.mlu) /\ Differs("mlu", Places.mlu)
<1> DEFINE S == Steps("mlu")
<1> DEFINE P == Places.mlu
<1>1. Len(S) = 6 /\ Loads["mlu"].shared = "cache"
  BY DEF Steps, Loads, MluLoad
<1>2. S[1] = "mlu metadata" /\ S[2] = "need arch" /\ S[3] = "device arch" /\ S[4] = "load"
      /\ S[5] = "function" /\ S[6] = "publish"
  BY DEF Steps, Loads, MluLoad
<1>3. P.meta = 1 /\ P.arch = 2 /\ P.load = 4 /\ P.stub = 8 /\ P.register = 8 /\ P.unload = 8
      /\ P.publish = 6
  BY DEF Places
<1> HIDE DEF S, P
<1>4. \A i \in 1 .. 6 : i \in {1, 2, 3, 4, 5, 6}
  OBVIOUS
<1>5. \A i \in 1 .. 6 : S[i] \in MetadataSteps <=> i = 1
  BY <1>2, <1>4 DEF MetadataSteps
<1>6. \A i \in 1 .. 6 : S[i] = "need arch" <=> i = 2
  BY <1>2, <1>4
<1>7. \A i \in 1 .. 6 : S[i] = "load" <=> i = 4
  BY <1>2, <1>4
<1>8. \A i \in 1 .. 6 : S[i] # "stub"
  BY <1>2, <1>4
<1>9. \A i \in 1 .. 6 : S[i] # "register"
  BY <1>2, <1>4
<1>10. \A i \in 1 .. 6 : S[i] # "function or unload"
  BY <1>2, <1>4
<1>11. \A i \in 1 .. 6 : S[i] = "publish" <=> i = 6
  BY <1>2, <1>4
<1>12. TakenAt("mlu", P)
  <2>1. ASSUME NEW i \in 1 .. P.publish
        PROVE  /\ S[i] \in MetadataSteps <=> i = P.meta
               /\ S[i] = "need arch" <=> i = P.arch
               /\ S[i] = "load" <=> i = P.load
               /\ S[i] = "stub" <=> i = P.stub
               /\ S[i] = "register" <=> i = P.register
               /\ S[i] = "function or unload" <=> i = P.unload
               /\ S[i] = "publish" <=> i = P.publish
    <3>1. i \in 1 .. 6 /\ i # 0 /\ i # 8
      BY <1>3
    <3>2. (S[i] \in MetadataSteps <=> i = P.meta) /\ (S[i] = "need arch" <=> i = P.arch) /\ (S[i] = "load" <=> i = P.load)
      BY <1>3, <1>5, <1>6, <1>7, <3>1
    <3>3. (S[i] = "stub" <=> i = P.stub) /\ (S[i] = "register" <=> i = P.register)
      BY <1>3, <1>8, <1>9, <3>1
    <3>4. (S[i] = "function or unload" <=> i = P.unload) /\ (S[i] = "publish" <=> i = P.publish)
      BY <1>3, <1>10, <1>11, <3>1
    <3> QED
      BY <3>2, <3>3, <3>4
  <2> QED
    BY <1>1, <1>3, <2>1 DEF TakenAt, S
<1>13. WellOrdered(P) /\ Differs("mlu", P)
  BY <1>1, <1>3 DEF WellOrdered, Differs, Insisting
<1> QED
  BY <1>12, <1>13 DEF P

LEMMA MusaPlaces == TakenAt("musa", Places.musa) /\ WellOrdered(Places.musa) /\ Differs("musa", Places.musa)
<1> DEFINE S == Steps("musa")
<1> DEFINE P == Places.musa
<1>1. Len(S) = 5
  BY DEF Steps, Loads, MusaLoad
<1>2. S[1] = "gpu metadata" /\ S[2] = "find binary" /\ S[3] = "load" /\ S[4] = "function"
      /\ S[5] = "publish"
  BY DEF Steps, Loads, MusaLoad
<1>3. P.meta = 1 /\ P.arch = 8 /\ P.load = 3 /\ P.stub = 8 /\ P.register = 8 /\ P.unload = 8
      /\ P.publish = 5
  BY DEF Places
<1> HIDE DEF S, P
<1>4. \A i \in 1 .. 5 : i \in {1, 2, 3, 4, 5}
  OBVIOUS
<1>5. \A i \in 1 .. 5 : S[i] \in MetadataSteps <=> i = 1
  BY <1>2, <1>4 DEF MetadataSteps
<1>6. \A i \in 1 .. 5 : S[i] # "need arch"
  BY <1>2, <1>4
<1>7. \A i \in 1 .. 5 : S[i] = "load" <=> i = 3
  BY <1>2, <1>4
<1>8. \A i \in 1 .. 5 : S[i] # "stub"
  BY <1>2, <1>4
<1>9. \A i \in 1 .. 5 : S[i] # "register"
  BY <1>2, <1>4
<1>10. \A i \in 1 .. 5 : S[i] # "function or unload"
  BY <1>2, <1>4
<1>11. \A i \in 1 .. 5 : S[i] = "publish" <=> i = 5
  BY <1>2, <1>4
<1>12. TakenAt("musa", P)
  <2>1. ASSUME NEW i \in 1 .. P.publish
        PROVE  /\ S[i] \in MetadataSteps <=> i = P.meta
               /\ S[i] = "need arch" <=> i = P.arch
               /\ S[i] = "load" <=> i = P.load
               /\ S[i] = "stub" <=> i = P.stub
               /\ S[i] = "register" <=> i = P.register
               /\ S[i] = "function or unload" <=> i = P.unload
               /\ S[i] = "publish" <=> i = P.publish
    <3>1. i \in 1 .. 5 /\ i # 0 /\ i # 8
      BY <1>3
    <3>2. (S[i] \in MetadataSteps <=> i = P.meta) /\ (S[i] = "need arch" <=> i = P.arch) /\ (S[i] = "load" <=> i = P.load)
      BY <1>3, <1>5, <1>6, <1>7, <3>1
    <3>3. (S[i] = "stub" <=> i = P.stub) /\ (S[i] = "register" <=> i = P.register)
      BY <1>3, <1>8, <1>9, <3>1
    <3>4. (S[i] = "function or unload" <=> i = P.unload) /\ (S[i] = "publish" <=> i = P.publish)
      BY <1>3, <1>10, <1>11, <3>1
    <3> QED
      BY <3>2, <3>3, <3>4
  <2> QED
    BY <1>1, <1>3, <2>1 DEF TakenAt, S
<1>13. WellOrdered(P) /\ Differs("musa", P)
  BY <1>1, <1>3 DEF WellOrdered, Differs, Insisting
<1> QED
  BY <1>12, <1>13 DEF P

LEMMA MacaPlaces == TakenAt("maca", Places.maca) /\ WellOrdered(Places.maca) /\ Differs("maca", Places.maca)
<1> DEFINE S == Steps("maca")
<1> DEFINE P == Places.maca
<1>1. Len(S) = 5
  BY DEF Steps, Loads, MacaLoad
<1>2. S[1] = "gpu metadata" /\ S[2] = "find binary" /\ S[3] = "load" /\ S[4] = "function"
      /\ S[5] = "publish"
  BY DEF Steps, Loads, MacaLoad
<1>3. P.meta = 1 /\ P.arch = 8 /\ P.load = 3 /\ P.stub = 8 /\ P.register = 8 /\ P.unload = 8
      /\ P.publish = 5
  BY DEF Places
<1> HIDE DEF S, P
<1>4. \A i \in 1 .. 5 : i \in {1, 2, 3, 4, 5}
  OBVIOUS
<1>5. \A i \in 1 .. 5 : S[i] \in MetadataSteps <=> i = 1
  BY <1>2, <1>4 DEF MetadataSteps
<1>6. \A i \in 1 .. 5 : S[i] # "need arch"
  BY <1>2, <1>4
<1>7. \A i \in 1 .. 5 : S[i] = "load" <=> i = 3
  BY <1>2, <1>4
<1>8. \A i \in 1 .. 5 : S[i] # "stub"
  BY <1>2, <1>4
<1>9. \A i \in 1 .. 5 : S[i] # "register"
  BY <1>2, <1>4
<1>10. \A i \in 1 .. 5 : S[i] # "function or unload"
  BY <1>2, <1>4
<1>11. \A i \in 1 .. 5 : S[i] = "publish" <=> i = 5
  BY <1>2, <1>4
<1>12. TakenAt("maca", P)
  <2>1. ASSUME NEW i \in 1 .. P.publish
        PROVE  /\ S[i] \in MetadataSteps <=> i = P.meta
               /\ S[i] = "need arch" <=> i = P.arch
               /\ S[i] = "load" <=> i = P.load
               /\ S[i] = "stub" <=> i = P.stub
               /\ S[i] = "register" <=> i = P.register
               /\ S[i] = "function or unload" <=> i = P.unload
               /\ S[i] = "publish" <=> i = P.publish
    <3>1. i \in 1 .. 5 /\ i # 0 /\ i # 8
      BY <1>3
    <3>2. (S[i] \in MetadataSteps <=> i = P.meta) /\ (S[i] = "need arch" <=> i = P.arch) /\ (S[i] = "load" <=> i = P.load)
      BY <1>3, <1>5, <1>6, <1>7, <3>1
    <3>3. (S[i] = "stub" <=> i = P.stub) /\ (S[i] = "register" <=> i = P.register)
      BY <1>3, <1>8, <1>9, <3>1
    <3>4. (S[i] = "function or unload" <=> i = P.unload) /\ (S[i] = "publish" <=> i = P.publish)
      BY <1>3, <1>10, <1>11, <3>1
    <3> QED
      BY <3>2, <3>3, <3>4
  <2> QED
    BY <1>1, <1>3, <2>1 DEF TakenAt, S
<1>13. WellOrdered(P) /\ Differs("maca", P)
  BY <1>1, <1>3 DEF WellOrdered, Differs, Insisting
<1> QED
  BY <1>12, <1>13 DEF P

LEMMA GcuPlaces == TakenAt("gcu", Places.gcu) /\ WellOrdered(Places.gcu) /\ Differs("gcu", Places.gcu)
<1> DEFINE S == Steps("gcu")
<1> DEFINE P == Places.gcu
<1>1. Len(S) = 3
  BY DEF Steps, Loads, GcuLoad
<1>2. S[1] = "load" /\ S[2] = "function or unload" /\ S[3] = "publish"
  BY DEF Steps, Loads, GcuLoad
<1>3. P.meta = 0 /\ P.arch = 8 /\ P.load = 1 /\ P.stub = 8 /\ P.register = 8 /\ P.unload = 2
      /\ P.publish = 3
  BY DEF Places
<1> HIDE DEF S, P
<1>4. \A i \in 1 .. 3 : i \in {1, 2, 3}
  OBVIOUS
<1>5. \A i \in 1 .. 3 : S[i] \notin MetadataSteps
  BY <1>2, <1>4 DEF MetadataSteps
<1>6. \A i \in 1 .. 3 : S[i] # "need arch"
  BY <1>2, <1>4
<1>7. \A i \in 1 .. 3 : S[i] = "load" <=> i = 1
  BY <1>2, <1>4
<1>8. \A i \in 1 .. 3 : S[i] # "stub"
  BY <1>2, <1>4
<1>9. \A i \in 1 .. 3 : S[i] # "register"
  BY <1>2, <1>4
<1>10. \A i \in 1 .. 3 : S[i] = "function or unload" <=> i = 2
  BY <1>2, <1>4
<1>11. \A i \in 1 .. 3 : S[i] = "publish" <=> i = 3
  BY <1>2, <1>4
<1>12. TakenAt("gcu", P)
  <2>1. ASSUME NEW i \in 1 .. P.publish
        PROVE  /\ S[i] \in MetadataSteps <=> i = P.meta
               /\ S[i] = "need arch" <=> i = P.arch
               /\ S[i] = "load" <=> i = P.load
               /\ S[i] = "stub" <=> i = P.stub
               /\ S[i] = "register" <=> i = P.register
               /\ S[i] = "function or unload" <=> i = P.unload
               /\ S[i] = "publish" <=> i = P.publish
    <3>1. i \in 1 .. 3 /\ i # 0 /\ i # 8
      BY <1>3
    <3>2. (S[i] \in MetadataSteps <=> i = P.meta) /\ (S[i] = "need arch" <=> i = P.arch) /\ (S[i] = "load" <=> i = P.load)
      BY <1>3, <1>5, <1>6, <1>7, <3>1
    <3>3. (S[i] = "stub" <=> i = P.stub) /\ (S[i] = "register" <=> i = P.register)
      BY <1>3, <1>8, <1>9, <3>1
    <3>4. (S[i] = "function or unload" <=> i = P.unload) /\ (S[i] = "publish" <=> i = P.publish)
      BY <1>3, <1>10, <1>11, <3>1, ZenonT(40)
    <3> QED
      BY <3>2, <3>3, <3>4
  <2> QED
    BY <1>1, <1>3, <2>1 DEF TakenAt, S
<1>13. WellOrdered(P) /\ Differs("gcu", P)
  BY <1>1, <1>3 DEF WellOrdered, Differs, Insisting
<1> QED
  BY <1>12, <1>13 DEF P

LEMMA NpuPlaces == TakenAt("npu", Places.npu) /\ WellOrdered(Places.npu) /\ Differs("npu", Places.npu)
<1> DEFINE S == Steps("npu")
<1> DEFINE P == Places.npu
<1>1. Len(S) = 7
  BY DEF Steps, Loads, NpuLoad
<1>2. S[1] = "npu metadata" /\ S[2] = "find binary" /\ S[3] = "set device" /\ S[4] = "load"
      /\ S[5] = "stub" /\ S[6] = "register" /\ S[7] = "publish"
  BY DEF Steps, Loads, NpuLoad
<1>3. P.meta = 1 /\ P.arch = 8 /\ P.load = 4 /\ P.stub = 5 /\ P.register = 6 /\ P.unload = 8
      /\ P.publish = 7
  BY DEF Places
<1> HIDE DEF S, P
<1>4. \A i \in 1 .. 7 : i \in {1, 2, 3, 4, 5, 6, 7}
  OBVIOUS
<1>5. \A i \in 1 .. 7 : S[i] \in MetadataSteps <=> i = 1
  BY <1>2, <1>4 DEF MetadataSteps
<1>6. \A i \in 1 .. 7 : S[i] # "need arch"
  BY <1>2, <1>4
<1>7. \A i \in 1 .. 7 : S[i] = "load" <=> i = 4
  BY <1>2, <1>4
<1>8. \A i \in 1 .. 7 : S[i] = "stub" <=> i = 5
  BY <1>2, <1>4
<1>9. \A i \in 1 .. 7 : S[i] = "register" <=> i = 6
  BY <1>2, <1>4
<1>10. \A i \in 1 .. 7 : S[i] # "function or unload"
  BY <1>2, <1>4
<1>11. \A i \in 1 .. 7 : S[i] = "publish" <=> i = 7
  BY <1>2, <1>4
<1>12. TakenAt("npu", P)
  <2>1. ASSUME NEW i \in 1 .. P.publish
        PROVE  /\ S[i] \in MetadataSteps <=> i = P.meta
               /\ S[i] = "need arch" <=> i = P.arch
               /\ S[i] = "load" <=> i = P.load
               /\ S[i] = "stub" <=> i = P.stub
               /\ S[i] = "register" <=> i = P.register
               /\ S[i] = "function or unload" <=> i = P.unload
               /\ S[i] = "publish" <=> i = P.publish
    <3>1. i \in 1 .. 7 /\ i # 0 /\ i # 8
      BY <1>3
    <3>2. (S[i] \in MetadataSteps <=> i = P.meta) /\ (S[i] = "need arch" <=> i = P.arch) /\ (S[i] = "load" <=> i = P.load)
      BY <1>3, <1>5, <1>6, <1>7, <3>1
    <3>3. (S[i] = "stub" <=> i = P.stub) /\ (S[i] = "register" <=> i = P.register)
      BY <1>3, <1>8, <1>9, <3>1
    <3>4. (S[i] = "function or unload" <=> i = P.unload) /\ (S[i] = "publish" <=> i = P.publish)
      BY <1>3, <1>10, <1>11, <3>1
    <3> QED
      BY <3>2, <3>3, <3>4
  <2> QED
    BY <1>1, <1>3, <2>1 DEF TakenAt, S
<1>13. WellOrdered(P) /\ Differs("npu", P)
  BY <1>1, <1>3 DEF WellOrdered, Differs, Insisting
<1> QED
  BY <1>12, <1>13 DEF P

LEMMA AllPlaces ==
  ASSUME NEW b \in AllBuilds
  PROVE  TakenAt(b, Places[b]) /\ WellOrdered(Places[b]) /\ Differs(b, Places[b])
BY CudaPlaces, IxPlaces, HcuPlaces, MluPlaces, MusaPlaces, MacaPlaces, GcuPlaces, NpuPlaces
   DEF AllBuilds

-----------------------------------------------------------------------------
(* load_kernel: what is done when *)

LEMMA DonePlace ==
  ASSUME NEW b \in AllBuilds, NEW n \in 1 .. Places[b].publish
  PROVE  /\ (\E j \in 1 .. n - 1 : Loads[b].steps[j] = "need arch") <=> Places[b].arch < n
         /\ (\E j \in 1 .. n - 1 : Loads[b].steps[j] = "load") <=> Places[b].load < n
         /\ (\E j \in 1 .. n - 1 : Loads[b].steps[j] = "stub") <=> Places[b].stub < n
         /\ (\E j \in 1 .. n - 1 : Loads[b].steps[j] = "register") <=> Places[b].register < n
<1> DEFINE p == Places[b]
<1>1. TakenAt(b, p) /\ WellOrdered(p)
  BY AllPlaces
<1> HIDE DEF p
<1>2. p.publish \in 3 .. 7 /\ n \in 1 .. p.publish
  BY <1>1 DEF WellOrdered, p
<1>3. \A j \in 1 .. n - 1 : j \in 1 .. p.publish
  BY <1>2
<1>4. ASSUME NEW what, NEW place \in 1 .. 8,
             \A i \in 1 .. p.publish : Steps(b)[i] = what <=> i = place
      PROVE  (\E j \in 1 .. n - 1 : Loads[b].steps[j] = what) <=> place < n
  <2>1. place < n => place \in 1 .. n - 1
    BY <1>2
  <2>2. \A j \in 1 .. n - 1 : Loads[b].steps[j] = what <=> j = place
    BY <1>3, <1>4 DEF Steps
  <2>3. \A j \in 1 .. n - 1 : j < n
    BY <1>2
  <2> QED
    BY <2>1, <2>2, <2>3
<1>5. p.arch \in 1 .. 8 /\ p.load \in 1 .. 8 /\ p.stub \in 1 .. 8 /\ p.register \in 1 .. 8
  BY <1>1 DEF WellOrdered
<1>6. /\ \A i \in 1 .. p.publish : Steps(b)[i] = "need arch" <=> i = p.arch
      /\ \A i \in 1 .. p.publish : Steps(b)[i] = "load" <=> i = p.load
      /\ \A i \in 1 .. p.publish : Steps(b)[i] = "stub" <=> i = p.stub
      /\ \A i \in 1 .. p.publish : Steps(b)[i] = "register" <=> i = p.register
  BY <1>1 DEF TakenAt
<1>7. /\ (\E j \in 1 .. n - 1 : Loads[b].steps[j] = "need arch") <=> p.arch < n
      /\ (\E j \in 1 .. n - 1 : Loads[b].steps[j] = "load") <=> p.load < n
      /\ (\E j \in 1 .. n - 1 : Loads[b].steps[j] = "stub") <=> p.stub < n
      /\ (\E j \in 1 .. n - 1 : Loads[b].steps[j] = "register") <=> p.register < n
  BY <1>4, <1>5, <1>6
<1> QED
  BY <1>7 DEF p

\* LoadIsPrivate, with places instead of names of steps.
Private(t, p) ==
  /\ step[t] \in 1 .. p.publish
  /\ cache[dir[t]] = None
  /\ meta[t].arch => meta[t].shared = Compiled[dir[t]].shared
  /\ p.arch < step[t] => meta[t].arch
  /\ step[t] <= p.load => module[t] = None
  /\ p.load < step[t] =>
       /\ module[t] # None /\ live[module[t]] = dir[t]
       /\ \A d \in Dirs : cache[d] # None => CachedModule(d) # module[t]
  /\ p.load < step[t] /\ build = "npu" => \A i \in 1 .. module[t] : live[i] # None
  /\ p.load < step[t] /\ build = "npu" /\ step[t] <= p.stub => names < module[t]
  /\ p.stub < step[t] =>
       stub[t] < names /\ \A d \in Dirs : cache[d] # None => cache[d].handle # stub[t]
  /\ p.register < step[t] => registered[stub[t]] = module[t]

LEMMA PlacesAreNumbers ==
  ASSUME NEW b \in AllBuilds
  PROVE  /\ Places[b].publish \in 3 .. 7 /\ Places[b].load \in 1 .. 4
         /\ Places[b].arch \in Int /\ Places[b].stub \in Int /\ Places[b].register \in Int
         /\ Len(Loads[b].steps) = Places[b].publish
<1> DEFINE p == Places[b]
<1>1. TakenAt(b, p) /\ WellOrdered(p)
  BY AllPlaces
<1> HIDE DEF p
<1>2. /\ p.publish \in 3 .. 7 /\ p.load \in 1 .. 4
      /\ p.arch \in Int /\ p.stub \in Int /\ p.register \in Int
  BY <1>1 DEF WellOrdered
<1>3. Len(Loads[b].steps) = p.publish
  BY <1>1 DEF TakenAt, Steps
<1> QED
  BY <1>2, <1>3 DEF p

LEMMA PrivateNow ==
  ASSUME build \in AllBuilds, LoadIsPrivate, NEW t \in Threads, InMutex(t)
  PROVE  Private(t, Places[build])
<1> DEFINE p == Places[build]
<1>1. Len(Loads[build].steps) = p.publish /\ p.publish \in 3 .. 7 /\ p.load \in Int /\ p.stub \in Int
  BY PlacesAreNumbers
<1>2. step[t] \in 1 .. p.publish
  BY <1>1 DEF LoadIsPrivate
<1>3. /\ Done(t, "need arch") <=> p.arch < step[t]
      /\ Done(t, "load") <=> p.load < step[t]
      /\ Done(t, "stub") <=> p.stub < step[t]
      /\ Done(t, "register") <=> p.register < step[t]
  BY <1>2, DonePlace DEF Done
<1>4. (step[t] <= p.load <=> ~(p.load < step[t])) /\ (step[t] <= p.stub <=> ~(p.stub < step[t]))
  BY <1>1, <1>2
<1> HIDE DEF p
<1>5. Private(t, p)
  BY <1>2, <1>3, <1>4 DEF LoadIsPrivate, Private
<1> QED
  BY <1>5 DEF p

LEMMA PrivateNext ==
  ASSUME build' \in AllBuilds,
         \A t \in Threads : InMutex(t)' => Private(t, Places[build])'
  PROVE  LoadIsPrivate'
<1> DEFINE p == Places[build']
<1> SUFFICES ASSUME NEW t \in Threads, InMutex(t)'
             PROVE  (/\ step[t] \in 1 .. Len(Loads[build].steps)
                     /\ cache[dir[t]] = None
                     /\ meta[t].arch => meta[t].shared = Compiled[dir[t]].shared
                     /\ Done(t, "need arch") => meta[t].arch
                     /\ ~Done(t, "load") => module[t] = None
                     /\ Done(t, "load") =>
                          /\ module[t] # None /\ live[module[t]] = dir[t]
                          /\ \A d \in Dirs : cache[d] # None => CachedModule(d) # module[t]
                     /\ Done(t, "load") /\ build = "npu" =>
                          \A i \in 1 .. module[t] : live[i] # None
                     /\ Done(t, "load") /\ build = "npu" /\ ~Done(t, "stub") => names < module[t]
                     /\ Done(t, "stub") =>
                          /\ stub[t] < names
                          /\ \A d \in Dirs : cache[d] # None => cache[d].handle # stub[t]
                     /\ Done(t, "register") => registered[stub[t]] = module[t])'
  BY DEF LoadIsPrivate
<1>1. Len(Loads[build'].steps) = p.publish /\ p.publish \in 3 .. 7 /\ p.load \in Int /\ p.stub \in Int
  BY PlacesAreNumbers
<1>2. Private(t, Places[build])'
  OBVIOUS
<1>3. step'[t] \in 1 .. p.publish
  BY <1>2 DEF Private
<1>4. /\ Done(t, "need arch")' <=> p.arch < step'[t]
      /\ Done(t, "load")' <=> p.load < step'[t]
      /\ Done(t, "stub")' <=> p.stub < step'[t]
      /\ Done(t, "register")' <=> p.register < step'[t]
  BY <1>3, DonePlace DEF Done
<1>5. (step'[t] <= p.load <=> ~(p.load < step'[t])) /\ (step'[t] <= p.stub <=> ~(p.stub < step'[t]))
  BY <1>1, <1>3
<1> QED
  BY <1>1, <1>2, <1>3, <1>4, <1>5 DEF Private

-----------------------------------------------------------------------------
(* Steps of one thread, and numbers *)

\* A step of a thread is its own: the others stay where they are, with their locals.
LEMMA OthersStay ==
  ASSUME TypeOK, NEW t \in Threads, NEW u \in Threads \ {t}, LaunchStep(t)
  PROVE  /\ pc'[u] = pc[u] /\ dir'[u] = dir[u]
         /\ step'[u] = step[u] /\ meta'[u] = meta[u] /\ module'[u] = module[u]
         /\ stub'[u] = stub[u] /\ shared'[u] = shared[u] /\ grid'[u] = grid[u]
         /\ work'[u] = work[u] /\ submitted'[u] = submitted[u] /\ handles'[u] = handles[u]
<1> USE DEF TypeOK, Goes, Throws, Advance, InLoad, fileVars, driverVars, cacheVars, loadVars,
        launchVars, workVars
<1>1. CASE Begin(t)
  BY <1>1 DEF Begin
<1>2. CASE FindModule(t)
  BY <1>2 DEF FindModule
<1>3. CASE ReadMetadata(t) \/ Ask(t) \/ LoadModule(t)
  BY <1>3 DEF ReadMetadata, Ask, LoadModule
<1>4. CASE MakeStub(t) \/ RegisterFunction(t) \/ PublishModule(t) \/ LoadThrows(t)
  BY <1>4 DEF MakeStub, RegisterFunction, PublishModule, LoadThrows
<1>5. CASE GetSharedMemory(t) \/ PrepareLaunch(t) \/ PrepareThrows(t)
  BY <1>5 DEF GetSharedMemory, PrepareLaunch, PrepareThrows
<1>6. CASE Submit(t)
  BY <1>6 DEF Submit, SubmitMlu, SubmitPlain
<1>7. CASE AllocateWorkspace(t)
  BY <1>7 DEF AllocateWorkspace
<1>8. CASE LaunchNpu(t) \/ RegisterCleanup(t)
  BY <1>8 DEF LaunchNpu, RegisterCleanup
<1> QED
  BY <1>1, <1>2, <1>3, <1>4, <1>5, <1>6, <1>7, <1>8 DEF LaunchStep

LEMMA UnsignedNat == ASSUME NEW n \in Nat PROVE AsUnsigned(n) \in Nat
BY BackendsAssumption DEF BackendsAssumption, AsUnsigned

LEMMA ProductNat == ASSUME NEW x \in Nat, NEW y \in Nat PROVE x * y \in Nat
OBVIOUS

LEMMA ProductGrows ==
  ASSUME NEW w \in Nat, NEW x \in Nat, NEW y \in Nat, x <= y
  PROVE  w * x <= w * y
OBVIOUS

\* What the metadata readers return.
LEMMA MetadataType ==
  ASSUME NEW d \in Dirs
  PROVE  /\ Defaults \in Metadata
         /\ GpuMetadata(d) \in Metadata /\ HcuMetadata(d) \in Metadata
         /\ MluMetadata(d) \in Metadata /\ NpuMetadata(d) \in Metadata
         /\ LoadSharedMemory(d) \in Nat
<1>1. /\ Compiled[d].shared \in Nat /\ Compiled[d].workspace \in Nat
      /\ Compiled[d].blockify \in BOOLEAN /\ Compiled[d].warps \in Nat
      /\ Compiled[d].promote \in BOOLEAN
  BY BackendsAssumption DEF BackendsAssumption
<1>2. Defaults \in Metadata
  BY DEF Defaults, Metadata
<1> QED
  BY <1>1, <1>2 DEF Defaults, Metadata, GpuMetadata, HcuMetadata, MluMetadata, NpuMetadata,
    LoadSharedMemory

\* What the steps of load_kernel need of each other and keep.
Core ==
  /\ TypeOK
  /\ MutexHeld
  /\ LoadIsPrivate
  /\ HandlesAreCounted
  /\ LaunchersHaveHandles
  /\ HandlesLeadHome

LEMMA KnownBuild == TypeOK => build \in AllBuilds
BY BackendsAssumption DEF BackendsAssumption, TypeOK

\* A step of load_kernel that is not the last has a next one.
LEMMA NextStep ==
  ASSUME Core, NEW t \in Threads, NEW what, At(t, what), what # "publish"
  PROVE  step[t] + 1 \in 1 .. Places[build].publish /\ step[t] + 1 \in 1 .. 7
<1> DEFINE p == Places[build]
<1>1. TakenAt(build, p) /\ p.publish \in 3 .. 7
  BY KnownBuild, AllPlaces, PlacesAreNumbers DEF Core
<1>2. step[t] \in 1 .. p.publish
  BY KnownBuild, PrivateNow DEF Core, At, InMutex, Private
<1> HIDE DEF p
<1>3. step[t] # p.publish
  BY <1>1, <1>2 DEF TakenAt, At, Steps
<1>4. step[t] + 1 \in 1 .. p.publish /\ step[t] + 1 \in 1 .. 7
  BY <1>1, <1>2, <1>3
<1> QED
  BY <1>4 DEF p

\* What is behind an entry of the cache.
LEMMA CachedIsLoaded ==
  ASSUME Core, NEW d \in Dirs, cache[d] # None
  PROVE  /\ CachedModule(d) \in Ids /\ live[CachedModule(d)] = d
         /\ cache[d] \in Entry
         /\ build = "npu" => cache[d].handle \in 0 .. MaxModules
<1>0. TypeOK /\ cache[d] \in Entry
  BY DEF Core, TypeOK
<1>1. CachedModule(d) # None /\ live[CachedModule(d)] = d
  BY DEF Core, HandlesLeadHome
<1>2. build = "npu" => cache[d].handle \in 0 .. MaxModules
  <2>1. cache[d].handle \in Nat /\ names \in 0 .. MaxModules /\ MaxModules \in Nat
    BY <1>0, BackendsAssumption DEF Entry, TypeOK, BackendsAssumption
  <2>2. build = "npu" => cache[d].handle < names
    BY DEF Core, HandlesAreCounted
  <2> QED
    BY <2>1, <2>2
<1>3. CASE build = "npu"
  <2>1. registered[cache[d].handle] \in Ids \cup {None}
    BY <1>0, <1>2, <1>3 DEF TypeOK
  <2> QED
    BY <1>0, <1>1, <1>2, <1>3, <2>1 DEF CachedModule
<1>4. CASE build # "npu"
  BY <1>0, <1>1, <1>4 DEF Core, HandlesAreCounted, CachedModule
<1> QED
  BY <1>3, <1>4

\* What a launch reads of the cache.
LEMMA LaunchReads ==
  ASSUME Core, NEW t \in Threads, pc[t] \in {"shared", "prepare", "submit", "launch", "callback"}
  PROVE  /\ cache[dir[t]] # None /\ cache[dir[t]] \in Entry
         /\ Options(t) \in Metadata
         /\ handles[t][dir[t]] = cache[dir[t]].handle
         /\ Launched(t) \in Ids /\ live[Launched(t)] = dir[t]
<1>1. dir[t] \in Dirs /\ handles[t][dir[t]] # None
  BY DEF Core, TypeOK, LaunchersHaveHandles
<1>2. cache[dir[t]] # None /\ cache[dir[t]].handle = handles[t][dir[t]]
  BY <1>1 DEF Core, HandlesLeadHome
<1>3. cache[dir[t]] \in Entry
  BY <1>1, <1>2 DEF Core, TypeOK
<1>4. Launched(t) = CachedModule(dir[t])
  BY <1>2 DEF Launched, CachedModule
<1>5. Launched(t) # None /\ live[Launched(t)] = dir[t]
  BY <1>1, <1>2, <1>4 DEF Core, HandlesLeadHome
<1>6. Launched(t) \in Ids
  BY <1>1, <1>2, <1>4, CachedIsLoaded
<1> QED
  BY <1>2, <1>3, <1>5, <1>6 DEF Options, Entry

-----------------------------------------------------------------------------
(* Types *)

LEMMA LoadTypes ==
  ASSUME Core, NEW t \in Threads,
         \/ FindModule(t) \/ ReadMetadata(t) \/ Ask(t) \/ LoadModule(t) \/ MakeStub(t)
         \/ RegisterFunction(t) \/ PublishModule(t) \/ LoadThrows(t)
  PROVE  TypeOK'
<1>0. TypeOK /\ dir[t] \in Dirs /\ MaxModules \in Nat
  BY BackendsAssumption DEF Core, TypeOK, BackendsAssumption
<1>a. ASSUME Advance(t), NEW what, At(t, what), what # "publish"
      PROVE  step' \in [Threads -> 1 .. 7] /\ pc' = pc
  BY <1>0, <1>a, NextStep DEF TypeOK, Advance
<1> USE <1>0 DEF TypeOK, InLoad, fileVars, driverVars, cacheVars, loadVars, launchVars, workVars
<1>1. CASE FindModule(t)
  <2>1. CASE Cached(dir[t])
    <3>1. cache[dir[t]].handle \in Nums
      BY <2>1 DEF Cached, Entry, Nums
    <3>2. handles' \in [Threads -> [Dirs -> Nums]]
      <4>1. [handles[t] EXCEPT ![dir[t]] = cache[dir[t]].handle] \in [Dirs -> Nums]
        BY <3>1
      <4>2. handles' = [handles EXCEPT ![t] = [handles[t] EXCEPT ![dir[t]] = cache[dir[t]].handle]]
        BY <1>1, <2>1 DEF FindModule
      <4> QED
        BY <4>1, <4>2
    <3>3. pc' = [pc EXCEPT ![t] = "shared"] /\ UNCHANGED <<mutex, loadVars>>
      BY <1>1, <2>1 DEF FindModule, Goes
    <3> QED
      BY <1>1, <3>2, <3>3 DEF FindModule
  <2>2. CASE ~Cached(dir[t])
    <3>1. /\ mutex' = t /\ pc' = [pc EXCEPT ![t] = "loading"] /\ handles' = handles
          /\ step' = [step EXCEPT ![t] = 1] /\ meta' = [meta EXCEPT ![t] = Defaults]
          /\ module' = [module EXCEPT ![t] = None] /\ stub' = [stub EXCEPT ![t] = 0]
      BY <1>1, <2>2 DEF FindModule, Goes
    <3>2. meta' \in [Threads -> Metadata]
      BY <3>1, MetadataType
    <3>3. step' \in [Threads -> 1 .. 7] /\ module' \in [Threads -> Ids \cup {None}]
          /\ stub' \in [Threads -> Nat]
      BY <3>1
    <3> QED
      BY <1>1, <3>1, <3>2, <3>3 DEF FindModule
  <2> QED
    BY <2>1, <2>2
<1>2. CASE ReadMetadata(t)
  <2>1. meta' \in [Threads -> Metadata]
    BY <1>2, MetadataType DEF ReadMetadata
  <2>2. \E what \in MetadataSteps : At(t, what)
    BY <1>2 DEF ReadMetadata, MetadataSteps
  <2>3. step' \in [Threads -> 1 .. 7] /\ pc' = pc
    BY <1>2, <1>a, <2>2 DEF ReadMetadata, MetadataSteps
  <2> QED
    BY <1>2, <2>1, <2>3 DEF ReadMetadata
<1>3. CASE Ask(t)
  <2>1. \E what \in Questions \cup {"need arch"} : At(t, what)
    BY <1>3 DEF Ask
  <2>2. step' \in [Threads -> 1 .. 7] /\ pc' = pc
    BY <1>3, <1>a, <2>1 DEF Ask, Questions
  <2> QED
    BY <1>3, <2>2 DEF Ask
<1>4. CASE LoadModule(t)
  <2>1. step' \in [Threads -> 1 .. 7] /\ pc' = pc
    BY <1>4, <1>a DEF LoadModule
  <2>2. /\ live' \in [Ids -> Dirs \cup {None}]
        /\ module' \in [Threads -> Ids \cup {None}]
    BY <1>4 DEF LoadModule
  <2> QED
    BY <1>4, <2>1, <2>2 DEF LoadModule
<1>5. CASE MakeStub(t)
  <2>1. step' \in [Threads -> 1 .. 7] /\ pc' = pc
    BY <1>5, <1>a DEF MakeStub
  <2>2. names + 1 \in 0 .. MaxModules
    <3> DEFINE p == Places[build]
    <3>1. Private(t, p) /\ TakenAt(build, p) /\ WellOrdered(p) /\ Differs(build, p)
      BY <1>5, KnownBuild, PrivateNow, AllPlaces DEF Core, MakeStub, At, InMutex
    <3> HIDE DEF p
    <3>a. step[t] \in 1 .. p.publish /\ Steps(build)[step[t]] = "stub"
      BY <1>5, <3>1 DEF MakeStub, At, Private, Steps
    <3>b. step[t] = p.stub
      BY <3>1, <3>a DEF TakenAt
    <3>2. step[t] = p.stub /\ build = "npu" /\ p.load < p.stub
      BY <3>1, <3>a, <3>b DEF WellOrdered, Differs
    <3>3. names < module[t] /\ module[t] \in Ids
      BY <3>1, <3>2 DEF Private, WellOrdered
    <3> QED
      BY <3>3 DEF Ids
  <2>3. names' \in 0 .. MaxModules /\ stub' \in [Threads -> Nat]
    BY <1>5, <2>2 DEF MakeStub, NextName
  <2> QED
    BY <1>5, <2>1, <2>3 DEF MakeStub
<1>6. CASE RegisterFunction(t)
  <2>1. step' \in [Threads -> 1 .. 7] /\ pc' = pc
    BY <1>6, <1>a DEF RegisterFunction
  <2> QED
    BY <1>6, <2>1 DEF RegisterFunction
<1>7. CASE PublishModule(t)
  <2>1. Handle(t) \in Nat
    <3> DEFINE p == Places[build]
    <3>1. Private(t, p) /\ TakenAt(build, p) /\ WellOrdered(p)
      BY <1>7, KnownBuild, PrivateNow, AllPlaces DEF Core, PublishModule, At, InMutex
    <3> HIDE DEF p
    <3>2. step[t] = p.publish /\ p.load < p.publish
      BY <1>7, <3>1 DEF PublishModule, At, Private, TakenAt, WellOrdered, Steps
    <3>3. module[t] # None
      BY <3>1, <3>2 DEF Private
    <3> QED
      BY <3>3 DEF Handle, Ids
  <2>2. [handle |-> Handle(t), meta |-> meta[t]] \in Entry
    BY <2>1 DEF Entry
  <2> QED
    BY <1>7, <2>1, <2>2 DEF PublishModule, Goes, Nums
<1>8. CASE LoadThrows(t)
  <2>1. live' \in [Ids -> Dirs \cup {None}]
    BY <1>8 DEF LoadThrows
  <2> QED
    BY <1>8, <2>1 DEF LoadThrows, Throws
<1> QED
  BY <1>1, <1>2, <1>3, <1>4, <1>5, <1>6, <1>7, <1>8

LEMMA CallTypes ==
  ASSUME Core, WorkspacesApart, NEW t \in Threads,
         \/ Begin(t) \/ GetSharedMemory(t) \/ PrepareLaunch(t) \/ PrepareThrows(t) \/ Submit(t)
         \/ AllocateWorkspace(t) \/ LaunchNpu(t) \/ RegisterCleanup(t)
  PROVE  TypeOK'
<1>0. TypeOK /\ dir[t] \in Dirs /\ MaxModules \in Nat
  BY BackendsAssumption DEF Core, TypeOK, BackendsAssumption
<1> USE <1>0 DEF TypeOK, Goes, Throws, fileVars, driverVars, cacheVars, loadVars, launchVars,
        workVars
<1>1. CASE Begin(t)
  <2>1. pc' \in [Threads -> {"idle", "load", "loading", "shared", "prepare", "submit", "launch",
                             "callback"}]
    BY <1>1, ZenonT(40) DEF Begin
  <2>2. dir' \in [Threads -> Dirs] /\ shared' \in [Threads -> Nat]
    BY <1>1 DEF Begin
  <2>3. grid' \in [Threads -> Nat \X Nat] /\ submitted' \in [Threads -> Submission \cup {None}]
    BY <1>1 DEF Begin
  <2> QED
    BY <1>1, <2>1, <2>2, <2>3 DEF Begin
<1>2. CASE GetSharedMemory(t)
  <2>1. cache[dir[t]] # None => cache[dir[t]].meta.shared \in Nat
    BY DEF Entry, Metadata
  <2>2. shared' \in [Threads -> Nat]
    BY <1>2, <2>1, MetadataType DEF GetSharedMemory
  <2> QED
    BY <1>2, <2>2 DEF GetSharedMemory
<1>3. CASE PrepareLaunch(t)
  <2>1. LaunchGrids \subseteq Nat \X Nat
    <3>1. <<1, 1>> \in Nat \X Nat /\ Grids \subseteq Nat \X Nat
      BY BackendsAssumption DEF BackendsAssumption
    <3> QED
      BY <3>1 DEF LaunchGrids
  <2> QED
    BY <1>3, <2>1, SMTT(30) DEF PrepareLaunch
<1>4. CASE PrepareThrows(t)
  BY <1>4 DEF PrepareThrows
<1>5. CASE Submit(t)
  <2>1. Launched(t) \in Ids /\ Options(t).warps \in Nat /\ GridX(t) \in Nat /\ shared[t] \in Nat
    BY <1>5, LaunchReads DEF Submit, Metadata, GridX
  <2>2. AsUnsigned(GridX(t) * Options(t).warps) \in Nat
    BY <2>1, ProductNat, UnsignedNat
  <2>3. KernelClass(AsUnsigned(GridX(t) * Options(t).warps), GridY(t), Options(t)) \in Nat
    BY <2>1, BackendsAssumption DEF KernelClass, BackendsAssumption
  <2>4. submitted' \in [Threads -> Submission \cup {None}]
    <3>1. CASE SubmitMlu(t)
      BY <2>1, <2>2, <2>3, <3>1 DEF SubmitMlu, Submission
    <3>2. CASE SubmitPlain(t)
      BY <2>1, <3>2 DEF SubmitPlain, Submission
    <3> QED
      BY <1>5, <3>1, <3>2 DEF Submit
  <2> QED
    BY <1>5, <2>4 DEF Submit
<1>6. CASE AllocateWorkspace(t)
  <2>1. Options(t).workspace \in Nat /\ GridX(t) \in Nat /\ GridY(t) \in Nat
    BY <1>6, LaunchReads DEF AllocateWorkspace, Metadata, GridX, GridY
  <2>2. WorkspaceBytes(t) \in Nat
    BY <2>1, ProductNat, UnsignedNat DEF WorkspaceBytes, GridProduct
  <2>3. memory' \in [Workspaces -> Nums]
    BY <1>6, <2>2 DEF AllocateWorkspace, Nums
  <2>4. work' \in [Threads -> Workspaces \cup {None}]
    BY <1>6 DEF AllocateWorkspace
  <2>5. pc' \in [Threads -> {"idle", "load", "loading", "shared", "prepare", "submit", "launch",
                             "callback"}]
    BY <1>6, ZenonT(40) DEF AllocateWorkspace
  <2> QED
    BY <1>6, <2>3, <2>4, <2>5 DEF AllocateWorkspace
<1>7. CASE LaunchNpu(t)
  <2>1. /\ Launched(t) \in Ids /\ Options(t).workspace \in Nat
        /\ GridX(t) \in Nat /\ GridY(t) \in Nat /\ shared[t] \in Nat
    BY <1>7, LaunchReads DEF LaunchNpu, Metadata, GridX, GridY
  <2>2. GridX(t) * GridY(t) \in Nat /\ GridProduct(GridX(t), GridY(t)) \in Nat
    BY <2>1, ProductNat, UnsignedNat DEF GridProduct
  <2>3. LaunchBlocks(t) \in Nat
    BY <2>2, BackendsAssumption DEF LaunchBlocks, BackendsAssumption
  <2>4. UsedBytes(t) \in Nat
    BY <2>1, <2>2, <2>3, ProductNat DEF UsedBytes
  <2>5. submitted' \in [Threads -> Submission \cup {None}]
    <3>1. [module |-> Launched(t), shared |-> shared[t], x |-> GridX(t), class |-> 1] \in Submission
      BY <2>1 DEF Submission
    <3> QED
      BY <1>7, <3>1, ZenonT(40) DEF LaunchNpu
  <2>6. running' \in [Workspaces -> Nums]
    BY <1>7, <2>4, ZenonT(40) DEF LaunchNpu, Nums
  <2>7. memory' \in [Workspaces -> Nums] /\ work' \in [Threads -> Workspaces \cup {None}]
    BY <1>7 DEF LaunchNpu, Freed, Nums
  <2>8. pc' \in [Threads -> {"idle", "load", "loading", "shared", "prepare", "submit", "launch",
                             "callback"}]
    BY <1>7, ZenonT(40) DEF LaunchNpu
  <2> QED
    BY <1>7, <2>5, <2>6, <2>7, <2>8 DEF LaunchNpu
<1>8. CASE RegisterCleanup(t)
  <2>1. cleanup' \subseteq Workspaces /\ leaked' \subseteq Workspaces
    <3>1. cleanup' \subseteq cleanup \cup {work[t]} /\ leaked' \subseteq leaked \cup {work[t]}
      BY <1>8 DEF RegisterCleanup, HandOver
    <3> QED
      BY <1>8, <3>1 DEF RegisterCleanup, WorkspacesApart
  <2> QED
    BY <1>8, <2>1 DEF RegisterCleanup, HandOver
<1> QED
  BY <1>1, <1>2, <1>3, <1>4, <1>5, <1>6, <1>7, <1>8

LEMMA DeviceTypes ==
  ASSUME TypeOK,
         \/ \E d \in Dirs : TouchArtifacts(d)
         \/ \E w \in Workspaces : KernelCompletes(w) \/ StreamFrees(w)
  PROVE  TypeOK'
<1> USE DEF TypeOK, driverVars, cacheVars, loadVars, launchVars, workVars, fileVars
<1>1. CASE \E d \in Dirs : TouchArtifacts(d)
  <2>1. json' \in [Dirs -> Files]
    BY <1>1 DEF TouchArtifacts, FileStates, Files
  <2>2. touches' \in 0 .. MaxTouches
    BY <1>1, BackendsAssumption DEF TouchArtifacts, BackendsAssumption
  <2> QED
    BY <1>1, <2>1, <2>2 DEF TouchArtifacts
<1>2. CASE \E w \in Workspaces : KernelCompletes(w) \/ StreamFrees(w)
  <2>1. /\ running' \in [Workspaces -> Nums] /\ memory' \in [Workspaces -> Nums]
        /\ cleanup' \subseteq Workspaces
    BY <1>2 DEF KernelCompletes, StreamFrees, Nums
  <2> QED
    BY <1>2, <2>1 DEF KernelCompletes, StreamFrees
<1> QED
  BY <1>1, <1>2

-----------------------------------------------------------------------------
(* Mutex, modules, cache and handles *)

LEMMA QuietCore ==
  ASSUME Core, TypeOK', LaunchersHaveHandles',
         UNCHANGED <<build, live, registered, names, cache, mutex, handles, loadVars>>,
         \A u \in Threads : (InMutex(u)' <=> InMutex(u)) /\ (InMutex(u) => dir'[u] = dir[u])
  PROVE  Core'
<1>1. MutexHeld'
  <2>1. mutex \in Threads \cup {None} /\ mutex' = mutex
    BY DEF Core, TypeOK
  <2>2. \A u \in Threads : InMutex(u)' => mutex' = u
    BY <2>1 DEF Core, MutexHeld
  <2>3. mutex # None => mutex \in Threads /\ InMutex(mutex)
    BY <2>1 DEF Core, MutexHeld
  <2>4. mutex # None => pc'[mutex] = "loading"
    BY <2>3 DEF InMutex
  <2> QED
    BY <2>1, <2>2, <2>4 DEF MutexHeld, InMutex
<1>2. LoadIsPrivate'
  <2>1. ASSUME NEW u \in Threads, InMutex(u)'
        PROVE  Private(u, Places[build])'
    <3>1. Private(u, Places[build]) /\ dir'[u] = dir[u]
      BY <2>1, KnownBuild, PrivateNow DEF Core
    <3> QED
      BY <3>1 DEF Private, CachedModule, loadVars
  <2> QED
    BY <2>1, KnownBuild, PrivateNext DEF Core
<1>3. HandlesAreCounted' /\ HandlesLeadHome'
  BY DEF Core, HandlesAreCounted, HandlesLeadHome, CachedModule
<1> QED
  BY <1>1, <1>2, <1>3 DEF Core

\* The calls outside load_kernel, the device and the files change none of it.
LEMMA CallCore ==
  ASSUME Core, WorkspacesApart, NEW t \in Threads,
         \/ Begin(t) \/ GetSharedMemory(t) \/ PrepareLaunch(t) \/ PrepareThrows(t) \/ Submit(t)
         \/ AllocateWorkspace(t) \/ LaunchNpu(t) \/ RegisterCleanup(t)
  PROVE  Core'
<1>0. TypeOK
  BY DEF Core
<1>1. UNCHANGED <<build, live, registered, names, cache, mutex, handles, loadVars>>
  BY DEF Begin, GetSharedMemory, PrepareLaunch, PrepareThrows, Submit, AllocateWorkspace,
    LaunchNpu, RegisterCleanup, fileVars, driverVars, cacheVars
<1>2. pc[t] # "loading" /\ pc'[t] # "loading"
  BY <1>0 DEF TypeOK, Begin, GetSharedMemory, PrepareLaunch, PrepareThrows, Submit,
    AllocateWorkspace, LaunchNpu, RegisterCleanup, Goes, Throws
<1>3. \A u \in Threads \ {t} : pc'[u] = pc[u] /\ dir'[u] = dir[u]
  BY <1>0, OthersStay DEF LaunchStep
<1>4. pc'[t] \in {"shared", "prepare", "submit", "launch", "callback"} => handles[t][dir'[t]] # None
  <2>1. CASE Begin(t)
    BY <1>0, <2>1 DEF TypeOK, Begin, Goes
  <2>2. CASE ~Begin(t)
    <3>1. pc[t] \in {"shared", "prepare", "submit", "launch", "callback"} /\ dir' = dir
      BY <2>2 DEF GetSharedMemory, PrepareLaunch, PrepareThrows, Submit, AllocateWorkspace,
        LaunchNpu, RegisterCleanup
    <3> QED
      BY <3>1 DEF Core, LaunchersHaveHandles
  <2> QED
    BY <2>1, <2>2
<1>5. LaunchersHaveHandles'
  BY <1>1, <1>3, <1>4 DEF Core, LaunchersHaveHandles
<1> QED
  BY <1>1, <1>2, <1>3, <1>5, CallTypes, QuietCore DEF InMutex

LEMMA DeviceCore ==
  ASSUME Core,
         \/ \E d \in Dirs : TouchArtifacts(d)
         \/ \E w \in Workspaces : KernelCompletes(w) \/ StreamFrees(w)
  PROVE  Core'
<1>1. UNCHANGED <<build, live, registered, names, cache, mutex, handles, loadVars, pc, dir>>
  BY DEF TouchArtifacts, KernelCompletes, StreamFrees, fileVars, driverVars, cacheVars
<1>2. LaunchersHaveHandles'
  BY <1>1 DEF Core, LaunchersHaveHandles
<1> QED
  BY <1>1, <1>2, DeviceTypes, QuietCore DEF InMutex, Core

LEMMA FindCore ==
  ASSUME Core, NEW t \in Threads, FindModule(t)
  PROVE  Core'
<1>0. TypeOK /\ TypeOK' /\ dir[t] \in Dirs
  BY LoadTypes DEF Core, TypeOK
<1>1. UNCHANGED <<build, live, registered, names, cache, dir>> /\ mutex = None
  BY DEF FindModule, fileVars, driverVars
<1>2. \A u \in Threads : ~InMutex(u)
  BY <1>1, BackendsAssumption DEF Core, MutexHeld, BackendsAssumption
<1>3. \A u \in Threads \ {t} : pc'[u] = pc[u] /\ handles'[u] = handles[u]
  BY <1>0, OthersStay DEF LaunchStep
<1>4. CASE Cached(dir[t])
  <2>1. handles' = [handles EXCEPT ![t][dir[t]] = cache[dir[t]].handle] /\ UNCHANGED mutex
    BY <1>4 DEF FindModule
  <2>2. pc'[t] = "shared"
    BY <1>0, <1>4 DEF FindModule, Goes, TypeOK
  <2>3. handles'[t][dir[t]] = cache[dir[t]].handle /\ cache[dir[t]] # None
        /\ \A d \in Dirs \ {dir[t]} : handles'[t][d] = handles[t][d]
    BY <1>0, <1>4, <2>1 DEF TypeOK, Cached
  <2>4. cache[dir[t]].handle # None
    <3>1. cache[dir[t]] \in Entry
      BY <1>0, <2>3, CachedIsLoaded
    <3>2. cache[dir[t]].handle \in Nat
      BY <3>1 DEF Entry
    <3> QED
      BY <3>2, BackendsAssumption DEF BackendsAssumption
  <2>5. MutexHeld' /\ LoadIsPrivate'
    <3>1. \A u \in Threads : ~InMutex(u)'
      BY <1>2, <1>3, <2>2 DEF InMutex
    <3> QED
      BY <1>1, <2>1, <3>1 DEF MutexHeld, LoadIsPrivate
  <2>6. HandlesLeadHome'
    BY <1>0, <1>1, <1>3, <2>3 DEF Core, HandlesLeadHome, CachedModule
  <2>7. HandlesAreCounted' /\ LaunchersHaveHandles'
    BY <1>0, <1>1, <1>3, <2>3, <2>4 DEF Core, HandlesAreCounted, LaunchersHaveHandles
  <2> QED
    BY <1>0, <2>5, <2>6, <2>7 DEF Core
<1>5. CASE ~Cached(dir[t])
  <2>1. /\ UNCHANGED handles /\ mutex' = t /\ pc' = [pc EXCEPT ![t] = "loading"]
        /\ step' = [step EXCEPT ![t] = 1] /\ meta' = [meta EXCEPT ![t] = Defaults]
        /\ module' = [module EXCEPT ![t] = None]
    BY <1>5 DEF FindModule, Goes
  <2>2. MutexHeld'
    BY <1>0, <1>2, <1>3, <2>1 DEF TypeOK, MutexHeld, InMutex
  <2>3. Private(t, Places[build])'
    <3>1. step'[t] = 1 /\ ~meta'[t].arch /\ module'[t] = None /\ cache'[dir'[t]] = None
      BY <1>0, <1>1, <1>5, <2>1 DEF TypeOK, Defaults, Cached
    <3> DEFINE p == Places[build]
    <3>2. WellOrdered(p)
      BY <1>0, KnownBuild, AllPlaces
    <3> HIDE DEF p
    <3>3. ~(p.arch < 1) /\ ~(p.load < 1) /\ ~(p.stub < 1) /\ ~(p.register < 1)
          /\ 1 \in 1 .. p.publish
      BY <3>2 DEF WellOrdered
    <3>4. p = Places[build']
      BY <1>1 DEF p
    <3> QED
      BY <3>1, <3>3, <3>4 DEF Private
  <2>4. \A u \in Threads : InMutex(u)' => u = t
    BY <1>2, <1>3 DEF InMutex
  <2>5. LoadIsPrivate'
    BY <1>0, <1>1, <2>3, <2>4, KnownBuild, PrivateNext
  <2>6. HandlesAreCounted' /\ HandlesLeadHome'
    BY <1>0, <1>1, <2>1 DEF Core, HandlesAreCounted, HandlesLeadHome, CachedModule
  <2>7. LaunchersHaveHandles'
    <3>1. pc'[t] = "loading"
      BY <1>0, <2>1 DEF TypeOK
    <3> QED
      BY <1>1, <1>3, <2>1, <3>1 DEF Core, LaunchersHaveHandles
  <2> QED
    BY <1>0, <2>2, <2>5, <2>6, <2>7 DEF Core
<1> QED
  BY <1>4, <1>5

\* Where a thread in load_kernel is.
LEMMA StepPlace ==
  ASSUME Core, NEW t \in Threads, NEW what, At(t, what)
  PROVE  LET p == Places[build] IN
         /\ Private(t, p) /\ WellOrdered(p) /\ Differs(build, p)
         /\ step[t] \in 1 .. p.publish
         /\ what \in MetadataSteps <=> step[t] = p.meta
         /\ what = "need arch" <=> step[t] = p.arch
         /\ what = "load" <=> step[t] = p.load
         /\ what = "stub" <=> step[t] = p.stub
         /\ what = "register" <=> step[t] = p.register
         /\ what = "function or unload" <=> step[t] = p.unload
         /\ what = "publish" <=> step[t] = p.publish
<1> DEFINE p == Places[build]
<1>1. Private(t, p) /\ TakenAt(build, p) /\ WellOrdered(p) /\ Differs(build, p)
  BY KnownBuild, PrivateNow, AllPlaces DEF Core, At, InMutex
<1> HIDE DEF p
<1>2. step[t] \in 1 .. p.publish /\ Steps(build)[step[t]] = what
  BY <1>1 DEF At, Private, Steps
<1>3. /\ what \in MetadataSteps <=> step[t] = p.meta
      /\ what = "need arch" <=> step[t] = p.arch
      /\ what = "load" <=> step[t] = p.load
      /\ what = "stub" <=> step[t] = p.stub
      /\ what = "register" <=> step[t] = p.register
      /\ what = "function or unload" <=> step[t] = p.unload
      /\ what = "publish" <=> step[t] = p.publish
  BY <1>1, <1>2 DEF TakenAt
<1> QED
  BY <1>1, <1>2, <1>3 DEF p

\* Nobody else is in load_kernel.
LEMMA Alone ==
  ASSUME Core, NEW t \in Threads, InMutex(t)
  PROVE  mutex = t /\ \A u \in Threads : InMutex(u) => u = t
BY DEF Core, MutexHeld

\* A step inside load_kernel: what it leaves to show.
LEMMA AdvanceCore ==
  ASSUME Core, TypeOK', NEW t \in Threads, InMutex(t), Advance(t),
         UNCHANGED <<build, mutex, handles, dir>>,
         Private(t, Places[build])', HandlesAreCounted', HandlesLeadHome'
  PROVE  Core'
<1>1. UNCHANGED pc
  BY DEF Advance
<1>2. \A u \in Threads : InMutex(u)' => u = t
  BY <1>1, Alone DEF InMutex
<1>3. LoadIsPrivate'
  BY <1>2, KnownBuild, PrivateNext DEF Core
<1>4. MutexHeld'
  BY <1>1, <1>2, Alone DEF MutexHeld, InMutex
<1>5. LaunchersHaveHandles'
  BY <1>1 DEF Core, LaunchersHaveHandles
<1> QED
  BY <1>3, <1>4, <1>5 DEF Core

LEMMA Behind ==
  ASSUME NEW n \in 1 .. 7, NEW place \in 0 .. 8, place # n
  PROVE  (place < n + 1 <=> place < n) /\ (n + 1 <= place <=> n <= place)
OBVIOUS

LEMMA Inside ==
  ASSUME NEW last \in 3 .. 7, NEW n \in 1 .. last, n # last
  PROVE  n + 1 \in 1 .. last
OBVIOUS

\* Which steps are behind the next one.
LEMMA PlacesAfter ==
  ASSUME Core, TypeOK', NEW t \in Threads, NEW what, At(t, what), Advance(t),
         what # "publish"
  PROVE  LET p == Places[build] IN
         /\ step'[t] \in 1 .. p.publish
         /\ what # "load" => /\ p.load < step'[t] <=> p.load < step[t]
                             /\ step'[t] <= p.load <=> step[t] <= p.load
         /\ what # "stub" => /\ p.stub < step'[t] <=> p.stub < step[t]
                             /\ step'[t] <= p.stub <=> step[t] <= p.stub
         /\ what # "register" => (p.register < step'[t] <=> p.register < step[t])
         /\ what # "need arch" => (p.arch < step'[t] <=> p.arch < step[t])
         /\ what \in MetadataSteps => ~(p.arch < step'[t])
<1> DEFINE p == Places[build]
<1>1. /\ WellOrdered(p) /\ step[t] \in 1 .. p.publish
      /\ what \in MetadataSteps <=> step[t] = p.meta
      /\ what = "need arch" <=> step[t] = p.arch
      /\ what = "load" <=> step[t] = p.load
      /\ what = "stub" <=> step[t] = p.stub
      /\ what = "register" <=> step[t] = p.register
      /\ step[t] # p.publish
  BY StepPlace
<1> HIDE DEF p
<1>0. step \in [Threads -> 1 .. 7] /\ step' \in [Threads -> 1 .. 7]
  BY DEF Core, TypeOK
<1>2. step'[t] = step[t] + 1 /\ step[t] \in 1 .. 7
  BY <1>0 DEF Advance
<1>w. WellOrdered(p)
  BY <1>1
<1>3. p.publish \in 3 .. 7 /\ p.load \in 0 .. 8 /\ p.stub \in 0 .. 8 /\ p.register \in 0 .. 8
  BY <1>w DEF WellOrdered
<1>a. p.arch \in 0 .. 8
  BY <1>w DEF WellOrdered
<1>4. step'[t] \in 1 .. p.publish
  BY <1>1, <1>2, <1>3, Inside
<1>5. what # "load" => /\ p.load < step'[t] <=> p.load < step[t]
                       /\ step'[t] <= p.load <=> step[t] <= p.load
  <2>1. what # "load" => step[t] # p.load
    BY <1>1
  <2> QED
    BY <1>2, <1>3, <2>1, Behind
<1>6. what # "stub" => /\ p.stub < step'[t] <=> p.stub < step[t]
                       /\ step'[t] <= p.stub <=> step[t] <= p.stub
  <2>1. what # "stub" => step[t] # p.stub
    BY <1>1
  <2> QED
    BY <1>2, <1>3, <2>1, Behind
<1>7. what # "register" => (p.register < step'[t] <=> p.register < step[t])
  <2>1. what # "register" => step[t] # p.register
    BY <1>1
  <2> QED
    BY <1>2, <1>3, <2>1, Behind
<1>8. ASSUME what # "need arch"
      PROVE  p.arch < step'[t] <=> p.arch < step[t]
  <2>1. step[t] # p.arch
    BY <1>1, <1>8
  <2>2. p.arch < step[t] + 1 <=> p.arch < step[t]
    BY <1>2, <1>a, <2>1, Behind
  <2> QED
    BY <1>2, <2>2
<1>9. ASSUME what \in MetadataSteps
      PROVE  ~(p.arch < step'[t])
  <2>1. step[t] = p.meta
    BY <1>1, <1>9
  <2>2. step'[t] = p.meta + 1
    BY <1>2, <2>1
  <2>3. ~(p.arch < p.meta + 1)
    BY <1>w DEF WellOrdered
  <2> QED
    BY <2>2, <2>3
<1> QED
  BY <1>4, <1>5, <1>6, <1>7, <1>8, <1>9 DEF p

\* Nothing is registered before there is a module.
LEMMA NotRegistered ==
  ASSUME Core, NEW t \in Threads, At(t, "load") \/ At(t, "stub")
  PROVE  ~(Places[build].register < step[t])
<1> DEFINE p == Places[build]
<1>1. WellOrdered(p) /\ Differs(build, p) /\ (step[t] = p.load \/ step[t] = p.stub)
  BY StepPlace
<1> HIDE DEF p
<1>2. p.load < p.register /\ p.stub \in {5, 8} /\ p.register \in {6, 8} /\ p.load \in 1 .. 4
      /\ (p.stub = 8 => p.register = 8)
  BY <1>1 DEF WellOrdered, Differs
<1>3. ~(p.register < p.load) /\ ~(p.register < p.stub)
  BY <1>2
<1>4. ~(p.register < step[t])
  BY <1>1, <1>3
<1> QED
  BY <1>4 DEF p

\* A step that changes nothing but metadata.
LEMMA QuietAdvance ==
  ASSUME Core, TypeOK', NEW t \in Threads, NEW what, At(t, what), Advance(t),
         what \notin {"load", "stub", "register", "publish"},
         what = "need arch" => meta[t].arch,
         meta'[t] = meta[t] \/ what \in MetadataSteps,
         meta'[t].arch => meta'[t].shared = Compiled[dir[t]].shared,
         UNCHANGED <<build, live, registered, names, cache, mutex, handles, dir, module, stub>>
  PROVE  Core'
<1> DEFINE p == Places[build]
<1>1. Private(t, p)
  BY StepPlace
<1>2. /\ step'[t] \in 1 .. p.publish
      /\ p.load < step'[t] <=> p.load < step[t]
      /\ step'[t] <= p.load <=> step[t] <= p.load
      /\ p.stub < step'[t] <=> p.stub < step[t]
      /\ step'[t] <= p.stub <=> step[t] <= p.stub
      /\ p.register < step'[t] <=> p.register < step[t]
      /\ what # "need arch" => (p.arch < step'[t] <=> p.arch < step[t])
      /\ what \in MetadataSteps => ~(p.arch < step'[t])
  BY PlacesAfter
<1> HIDE DEF p
<1>3. p.arch < step'[t] => meta'[t].arch
  <2>1. CASE what \in MetadataSteps
    BY <1>2, <2>1
  <2>2. CASE what = "need arch"
    BY <2>2 DEF MetadataSteps
  <2>3. CASE what # "need arch" /\ what \notin MetadataSteps
    BY <1>1, <1>2, <2>3 DEF Private
  <2> QED
    BY <2>1, <2>2, <2>3
<1>4. Private(t, p)'
  BY <1>1, <1>2, <1>3 DEF Private, CachedModule, p
<1>5. HandlesAreCounted' /\ HandlesLeadHome'
  BY DEF Core, HandlesAreCounted, HandlesLeadHome, CachedModule
<1> QED
  BY <1>4, <1>5, AdvanceCore DEF At, InMutex, p

\* Metadata with an architecture are the compiler's.
LEMMA MetadataFacts ==
  ASSUME NEW d \in Dirs,
         NEW v \in {GpuMetadata(d), HcuMetadata(d), MluMetadata(d), NpuMetadata(d)}
  PROVE  v.arch => v.shared = Compiled[d].shared
<1>1. GpuMetadata(d).arch => GpuMetadata(d).shared = Compiled[d].shared
  BY DEF GpuMetadata, Defaults
<1>2. HcuMetadata(d).arch => HcuMetadata(d).shared = Compiled[d].shared
  BY DEF HcuMetadata, Defaults
<1>3. MluMetadata(d).arch => MluMetadata(d).shared = Compiled[d].shared
  BY DEF MluMetadata, Defaults
<1>4. NpuMetadata(d).arch => NpuMetadata(d).shared = Compiled[d].shared
  BY DEF NpuMetadata, Defaults
<1> QED
  BY <1>1, <1>2, <1>3, <1>4

LEMMA ReadCore ==
  ASSUME Core, NEW t \in Threads, ReadMetadata(t)
  PROVE  Core'
<1>1. TypeOK' /\ Advance(t) /\ meta \in [Threads -> Metadata] /\ dir[t] \in Dirs
  BY LoadTypes DEF ReadMetadata, Core, TypeOK
<1>2. PICK what \in MetadataSteps : At(t, what)
  BY DEF ReadMetadata, MetadataSteps
<1>a. PICK v \in {GpuMetadata(dir[t]), HcuMetadata(dir[t]), MluMetadata(dir[t]),
                  NpuMetadata(dir[t])} :
        meta' = [meta EXCEPT ![t] = v]
  <2>1. \/ meta' = [meta EXCEPT ![t] = GpuMetadata(dir[t])]
        \/ meta' = [meta EXCEPT ![t] = HcuMetadata(dir[t])]
        \/ meta' = [meta EXCEPT ![t] = MluMetadata(dir[t])]
        \/ meta' = [meta EXCEPT ![t] = NpuMetadata(dir[t])]
    BY DEF ReadMetadata
  <2> QED
    BY <2>1, Zenon
<1>3. meta'[t] = v
  <2>1. meta \in [Threads -> Metadata] /\ meta' = [meta EXCEPT ![t] = v]
    BY <1>1, <1>a
  <2> HIDE DEF Core
  <2> QED
    BY ONLY <2>1, t \in Threads
<1>4. meta'[t].arch => meta'[t].shared = Compiled[dir[t]].shared
  BY <1>1, <1>3, <1>a, MetadataFacts
<1>5. what \notin {"load", "stub", "register", "publish"} /\ what # "need arch"
  BY <1>2 DEF MetadataSteps
<1>6. UNCHANGED <<build, live, registered, names, cache, mutex, handles, dir, module, stub>>
  BY DEF ReadMetadata, InLoad, fileVars, driverVars
<1> QED
  BY <1>1, <1>2, <1>4, <1>5, <1>6, QuietAdvance

LEMMA AskCore ==
  ASSUME Core, NEW t \in Threads, Ask(t)
  PROVE  Core'
<1>1. TypeOK' /\ Advance(t)
  BY LoadTypes DEF Ask
<1>2. UNCHANGED <<build, live, registered, names, cache, mutex, handles, dir, module, stub, meta>>
  BY DEF Ask, InLoad, fileVars, driverVars
<1>3. PICK what \in Questions \cup {"need arch"} :
        At(t, what) /\ (what = "need arch" => meta[t].arch)
  BY DEF Ask, Questions
<1>4. what \notin {"load", "stub", "register", "publish"}
  BY <1>3 DEF Questions
<1>5. meta'[t].arch => meta'[t].shared = Compiled[dir[t]].shared
  BY <1>2, <1>3, KnownBuild, PrivateNow DEF Core, At, InMutex, Private
<1> QED
  BY <1>1, <1>2, <1>3, <1>4, <1>5, QuietAdvance

LEMMA LoadCore ==
  ASSUME Core, NEW t \in Threads, LoadModule(t)
  PROVE  Core'
<1> DEFINE p == Places[build]
<1>0. TypeOK /\ TypeOK' /\ Advance(t) /\ dir[t] \in Dirs /\ At(t, "load") /\ InMutex(t)
  BY LoadTypes DEF LoadModule, Core, TypeOK, At, InMutex
<1>1. UNCHANGED <<build, registered, names, mutex, meta, stub, cache, handles, dir>>
  BY DEF LoadModule, InLoad, fileVars
<1>2. PICK i \in Ids :
        /\ live[i] = None /\ \A j \in Ids : live[j] = None => i <= j
        /\ live' = [live EXCEPT ![i] = dir[t]]
        /\ module' = [module EXCEPT ![t] = i]
  BY DEF LoadModule
<1>3. module'[t] = i /\ live'[i] = dir[t] /\ \A j \in Ids \ {i} : live'[j] = live[j]
  BY <1>0, <1>2 DEF TypeOK
<1>4. dir[t] # None
  BY <1>0, BackendsAssumption DEF BackendsAssumption
<1>5. \A d \in Dirs : cache[d] # None =>
        CachedModule(d) # i /\ CachedModule(d) \in Ids /\ live'[CachedModule(d)] = d
  <2>1. ASSUME NEW d \in Dirs, cache[d] # None
        PROVE  CachedModule(d) # i /\ CachedModule(d) \in Ids
    <3>1. CachedModule(d) \in Ids /\ live[CachedModule(d)] = d /\ d # None
      BY <2>1, CachedIsLoaded, BackendsAssumption DEF BackendsAssumption
    <3> QED
      BY <1>2, <3>1
  <2> QED
    BY <1>3, <2>1 DEF Core, HandlesLeadHome
<1>6. \A j \in 1 .. i : live'[j] # None
  <2>1. ASSUME NEW j \in 1 .. i, j # i
        PROVE  live'[j] # None
    <3>1. j \in Ids /\ ~(i <= j)
      BY <2>1, BackendsAssumption DEF Ids, BackendsAssumption
    <3> QED
      BY <1>2, <1>3, <2>1, <3>1
  <2> QED
    BY <1>3, <1>4, <2>1
<1>7. build = "npu" => names < i
  <2>1. build = "npu" => i \notin 1 .. names
    BY <1>2 DEF Core, HandlesAreCounted
  <2>2. names \in Nat /\ i \in Nat \ {0}
    BY <1>0 DEF TypeOK, Ids
  <2> QED
    BY <2>1, <2>2
<1>8. Private(t, p)'
  <2>1. /\ Private(t, p)
        /\ step'[t] \in 1 .. p.publish
        /\ p.stub < step'[t] <=> p.stub < step[t]
        /\ p.register < step'[t] <=> p.register < step[t]
        /\ p.arch < step'[t] <=> p.arch < step[t]
    BY <1>0, StepPlace, PlacesAfter
  <2>2. ~(step'[t] <= p.load)
    <3>1. step[t] = p.load /\ p.load \in 1 .. 4
      BY <1>0, StepPlace, PlacesAreNumbers, KnownBuild
    <3>2. step'[t] = step[t] + 1
      BY <1>0 DEF TypeOK, Advance
    <3> HIDE DEF p
    <3> QED
      BY <3>1, <3>2
  <2>3. i # None
    BY BackendsAssumption DEF BackendsAssumption, Ids
  <2>4. p' = p
    BY <1>1
  <2> HIDE DEF p
  <2>5. /\ cache'[dir'[t]] = None
        /\ meta'[t].arch => meta'[t].shared = Compiled[dir'[t]].shared
        /\ p.arch < step'[t] => meta'[t].arch
    BY <1>1, <2>1 DEF Private
  <2>6. /\ module'[t] # None /\ live'[module'[t]] = dir'[t]
        /\ \A d \in Dirs : cache'[d] # None => CachedModule(d)' # module'[t]
    BY <1>1, <1>3, <1>5, <2>3 DEF CachedModule
  <2>7. /\ build' = "npu" => \A j \in 1 .. module'[t] : live'[j] # None
        /\ build' = "npu" => names' < module'[t]
    BY <1>1, <1>3, <1>6, <1>7
  <2>8. /\ p.stub < step'[t] => stub'[t] < names'
                /\ \A d \in Dirs : cache'[d] # None => cache'[d].handle # stub'[t]
    BY <1>1, <2>1 DEF Private
  <2>9. p.register < step'[t] => registered'[stub'[t]] = module'[t]
    <3>1. ~(p.register < step[t])
      BY <1>0, StepPlace, NotRegistered DEF p
    <3> QED
      BY <2>1, <3>1
  <2> QED
    BY <2>1, <2>2, <2>4, <2>5, <2>6, <2>7, <2>8, <2>9 DEF Private
<1>9. HandlesAreCounted'
  <2>1. \A d \in Dirs : cache'[d] # None =>
          IF build' = "npu" THEN cache'[d].handle < names' ELSE cache'[d].handle \in Ids
    BY <1>1 DEF Core, HandlesAreCounted
  <2>2. ASSUME build = "npu", NEW j \in 1 .. names
        PROVE  live'[j] # None
    <3>1. live[j] # None
      BY <2>2 DEF Core, HandlesAreCounted
    <3>2. names \in 0 .. MaxModules /\ MaxModules \in Nat
      BY <1>0, BackendsAssumption DEF TypeOK, BackendsAssumption
    <3>3. j \in Ids
      BY <2>2, <3>2 DEF Ids
    <3> QED
      BY <1>3, <1>4, <3>1, <3>3
  <2> QED
    BY <1>1, <2>1, <2>2 DEF HandlesAreCounted
<1>10. HandlesLeadHome'
  BY <1>1, <1>5, BackendsAssumption DEF Core, HandlesLeadHome, CachedModule
<1> HIDE DEF p
<1> QED
  BY <1>0, <1>1, <1>8, <1>9, <1>10, AdvanceCore DEF p


LEMMA StubCore ==
  ASSUME Core, NEW t \in Threads, MakeStub(t)
  PROVE  Core'
<1> DEFINE p == Places[build]
<1>0. TypeOK /\ TypeOK' /\ Advance(t) /\ dir[t] \in Dirs /\ At(t, "stub") /\ InMutex(t)
  BY LoadTypes DEF MakeStub, Core, TypeOK, At, InMutex
<1>1. UNCHANGED <<build, registered, live, mutex, meta, module, cache, handles, dir>>
  BY DEF MakeStub, InLoad, fileVars, driverVars
<1>2. stub'[t] = names /\ names' = names + 1 /\ names \in Nat
  BY <1>0 DEF TypeOK, MakeStub, NextName
<1>3. build = "npu" /\ p.load < step[t] /\ step[t] = p.stub /\ p.stub < p.register
  <2>1. WellOrdered(p) /\ Differs(build, p) /\ step[t] \in 1 .. p.publish /\ step[t] = p.stub
    BY <1>0, StepPlace
  <2> HIDE DEF p
  <2>2. p.publish \in 3 .. 7 /\ p.load < p.stub /\ p.stub = step[t]
    BY <2>1 DEF WellOrdered
  <2>3. build = "npu"
    BY <2>1, <2>2 DEF Differs
  <2>4. p.stub < p.register
    BY <2>1, <2>3 DEF Differs
  <2> QED
    BY <2>2, <2>3, <2>4
<1>4. /\ Private(t, p)
      /\ step'[t] \in 1 .. p.publish
      /\ p.load < step'[t] <=> p.load < step[t]
      /\ step'[t] <= p.load <=> step[t] <= p.load
      /\ p.register < step'[t] <=> p.register < step[t]
      /\ p.arch < step'[t] <=> p.arch < step[t]
  BY <1>0, StepPlace, PlacesAfter
<1>5. ~(step'[t] <= p.stub)
  <2>1. step'[t] = step[t] + 1 /\ step[t] \in 1 .. 7
    BY <1>0 DEF TypeOK, Advance
  <2> HIDE DEF p
  <2>2. ~(step[t] + 1 <= step[t])
    BY <2>1
  <2> QED
    BY <1>3, <2>1, <2>2
<1>6. names < module[t] /\ module[t] \in Ids /\ \A j \in 1 .. module[t] : live[j] # None
  <2>0. step[t] \in 1 .. 7
    BY <1>0 DEF TypeOK
  <2>a. step[t] <= step[t]
    BY <2>0
  <2>1. step[t] <= p.stub
    BY <1>3, <2>a
  <2>2. names < module[t] /\ module[t] # None /\ \A j \in 1 .. module[t] : live[j] # None
    BY <1>3, <1>4, <2>1 DEF Private
  <2> QED
    BY <1>0, <2>2 DEF TypeOK
<1>7. \A d \in Dirs : cache[d] # None => cache[d].handle \in Nat /\ cache[d].handle < names
  BY <1>3, CachedIsLoaded DEF Core, HandlesAreCounted, Entry
<1>8. Private(t, p)'
  <2>1. /\ cache'[dir'[t]] = None
        /\ meta'[t].arch => meta'[t].shared = Compiled[dir'[t]].shared
        /\ p.arch < step'[t] => meta'[t].arch
        /\ step'[t] <= p.load => module'[t] = None
    BY <1>1, <1>4 DEF Private
  <2>2. /\ module'[t] # None /\ live'[module'[t]] = dir'[t]
        /\ \A d \in Dirs : cache'[d] # None => CachedModule(d)' # module'[t]
        /\ \A i \in 1 .. module'[t] : live'[i] # None
    BY <1>1, <1>3, <1>4 DEF Private, CachedModule
  <2>3. stub'[t] < names'
    BY <1>2
  <2>4. \A d \in Dirs : cache'[d] # None => cache'[d].handle # stub'[t]
    BY <1>1, <1>2, <1>7
  <2>5. ~(p.register < step[t])
    BY <1>0, NotRegistered
  <2> HIDE DEF p
  <2>6. p' = p
    BY <1>1 DEF p
  <2> QED
    BY <1>4, <1>5, <2>1, <2>2, <2>3, <2>4, <2>5, <2>6 DEF Private
<1>9. HandlesAreCounted'
  <2>1. ASSUME NEW d \in Dirs, cache[d] # None
        PROVE  cache[d].handle < names + 1
    BY <1>2, <1>7, <2>1
  <2>2. \A j \in 1 .. names + 1 : j \in 1 .. module[t]
    BY <1>2, <1>6 DEF Ids
  <2> QED
    BY <1>1, <1>2, <1>3, <1>6, <2>1, <2>2 DEF HandlesAreCounted
<1>10. HandlesLeadHome'
  BY <1>1 DEF Core, HandlesLeadHome, CachedModule
<1> HIDE DEF p
<1> QED
  BY <1>0, <1>1, <1>8, <1>9, <1>10, AdvanceCore DEF p

LEMMA RegisterCore ==
  ASSUME Core, NEW t \in Threads, RegisterFunction(t)
  PROVE  Core'
<1> DEFINE p == Places[build]
<1>0. TypeOK /\ TypeOK' /\ Advance(t) /\ dir[t] \in Dirs /\ At(t, "register") /\ InMutex(t)
  BY LoadTypes DEF RegisterFunction, Core, TypeOK, At, InMutex
<1>1. UNCHANGED <<build, live, mutex, meta, module, stub, names, cache, handles, dir>>
  BY DEF RegisterFunction, InLoad, fileVars
<1>2. p.load < step[t] /\ p.stub < step[t] /\ build = "npu"
  <2>1. WellOrdered(p) /\ Differs(build, p) /\ step[t] \in 1 .. p.publish /\ step[t] = p.register
    BY <1>0, StepPlace
  <2> HIDE DEF p
  <2>2. p.publish \in 3 .. 7 /\ p.load < p.register
    BY <2>1 DEF WellOrdered
  <2>3. build = "npu"
    BY <2>1, <2>2 DEF Differs
  <2>4. p.stub < p.register
    BY <2>1, <2>3 DEF Differs
  <2> QED
    BY <2>1, <2>2, <2>3, <2>4
<1>3. /\ Private(t, p)
      /\ step'[t] \in 1 .. p.publish
      /\ p.load < step'[t] <=> p.load < step[t]
      /\ step'[t] <= p.load <=> step[t] <= p.load
      /\ p.stub < step'[t] <=> p.stub < step[t]
      /\ step'[t] <= p.stub <=> step[t] <= p.stub
      /\ p.arch < step'[t] <=> p.arch < step[t]
  BY <1>0, StepPlace, PlacesAfter
<1>4. stub[t] < names /\ \A d \in Dirs : cache[d] # None => cache[d].handle # stub[t]
  BY <1>2, <1>3 DEF Private
<1>5. stub[t] \in 0 .. MaxModules
  <2>1. stub[t] \in Nat /\ names \in 0 .. MaxModules /\ MaxModules \in Nat
    BY <1>0, BackendsAssumption DEF TypeOK, BackendsAssumption
  <2> QED
    BY <1>4, <2>1
<1>6. /\ registered'[stub[t]] = module[t]
      /\ \A h \in 0 .. MaxModules : h # stub[t] => registered'[h] = registered[h]
  BY <1>0, <1>5 DEF TypeOK, RegisterFunction
<1>7. \A d \in Dirs : cache[d] # None => CachedModule(d)' = CachedModule(d)
  <2>1. ASSUME NEW d \in Dirs, cache[d] # None
        PROVE  CachedModule(d)' = CachedModule(d)
    <3>1. cache[d].handle \in 0 .. MaxModules /\ cache[d].handle # stub[t]
      BY <1>2, <1>4, <2>1, CachedIsLoaded
    <3>2. registered'[cache[d].handle] = registered[cache[d].handle]
      BY <1>6, <3>1
    <3> QED
      BY <1>1, <3>2 DEF CachedModule
  <2> QED
    BY <2>1
<1>8. Private(t, p)'
  <2>1. /\ cache'[dir'[t]] = None
        /\ meta'[t].arch => meta'[t].shared = Compiled[dir'[t]].shared
        /\ p.arch < step'[t] => meta'[t].arch
        /\ step'[t] <= p.load => module'[t] = None
    BY <1>1, <1>3 DEF Private
  <2>2. /\ module'[t] # None /\ live'[module'[t]] = dir'[t]
        /\ \A d \in Dirs : cache'[d] # None => CachedModule(d)' # module'[t]
        /\ build' = "npu" => \A i \in 1 .. module'[t] : live'[i] # None
    BY <1>1, <1>2, <1>3, <1>7 DEF Private
  <2>3. build' = "npu" /\ step'[t] <= p.stub => names' < module'[t]
    BY <1>1, <1>2, <1>3 DEF Private
  <2>4. stub'[t] < names' /\ \A d \in Dirs : cache'[d] # None => cache'[d].handle # stub'[t]
    BY <1>1, <1>4
  <2>5. registered'[stub'[t]] = module'[t]
    BY <1>1, <1>6
  <2> HIDE DEF p
  <2>6. p' = p
    BY <1>1 DEF p
  <2> QED
    BY <1>3, <2>1, <2>2, <2>3, <2>4, <2>5, <2>6 DEF Private
<1>9. HandlesAreCounted'
  BY <1>1 DEF Core, HandlesAreCounted
<1>10. HandlesLeadHome'
  BY <1>1, <1>7 DEF Core, HandlesLeadHome
<1> HIDE DEF p
<1> QED
  BY <1>0, <1>1, <1>8, <1>9, <1>10, AdvanceCore DEF p

\* What is complete when load_kernel publishes.
LEMMA Complete ==
  ASSUME Core, NEW t \in Threads, At(t, "publish")
  PROVE  /\ cache[dir[t]] = None
         /\ module[t] \in Ids /\ live[module[t]] = dir[t]
         /\ build = "npu" => stub[t] < names /\ registered[stub[t]] = module[t]
         /\ build \in Insisting => meta[t].shared = Compiled[dir[t]].shared
<1> DEFINE p == Places[build]
<1>1. Private(t, p) /\ WellOrdered(p) /\ Differs(build, p) /\ step[t] = p.publish
  BY StepPlace
<1> HIDE DEF p
<1>2. p.load < p.publish
  BY <1>1 DEF WellOrdered
<1>3. module[t] # None /\ live[module[t]] = dir[t] /\ cache[dir[t]] = None
  BY <1>1, <1>2 DEF Private
<1>4. module[t] \in Ids
  BY <1>3 DEF Core, TypeOK
<1>5. build = "npu" => p.stub < p.publish /\ p.register < p.publish
  BY <1>1 DEF Differs
<1>6. build = "npu" => stub[t] < names /\ registered[stub[t]] = module[t]
  BY <1>1, <1>5 DEF Private
<1>7. build \in Insisting => p.arch < p.publish
  <2>1. build \in Insisting => p.arch = 2
    BY <1>1 DEF Differs
  <2>2. p.publish \in 3 .. 7
    BY <1>1 DEF WellOrdered
  <2>3. 2 < p.publish
    BY <2>2
  <2> QED
    BY <2>1, <2>3
<1>8. build \in Insisting => meta[t].shared = Compiled[dir[t]].shared
  BY <1>1, <1>7 DEF Private
<1> QED
  BY <1>3, <1>4, <1>6, <1>8

LEMMA PublishCore ==
  ASSUME Core, NEW t \in Threads, PublishModule(t)
  PROVE  Core'
<1>0. TypeOK /\ TypeOK' /\ dir[t] \in Dirs /\ At(t, "publish") /\ InMutex(t)
  BY LoadTypes DEF PublishModule, Core, TypeOK, At, InMutex
<1>1. UNCHANGED <<build, live, registered, names, dir>> /\ mutex' = None
  BY DEF PublishModule, fileVars, driverVars
<1>2. pc'[t] = "shared" /\ \A u \in Threads \ {t} : pc'[u] = pc[u] /\ handles'[u] = handles[u]
  BY <1>0, OthersStay DEF PublishModule, LaunchStep, Goes, TypeOK
<1>3. \A u \in Threads : ~InMutex(u)'
  BY <1>0, <1>2, Alone DEF InMutex
<1>4. /\ cache'[dir[t]] = [handle |-> Handle(t), meta |-> meta[t]]
      /\ \A d \in Dirs \ {dir[t]} : cache'[d] = cache[d]
  BY <1>0 DEF PublishModule, TypeOK
<1>5. handles'[t][dir[t]] = Handle(t) /\ \A d \in Dirs \ {dir[t]} : handles'[t][d] = handles[t][d]
  BY <1>0 DEF PublishModule, TypeOK
<1>6. /\ cache[dir[t]] = None /\ module[t] \in Ids /\ live[module[t]] = dir[t]
      /\ build = "npu" => stub[t] < names /\ registered[stub[t]] = module[t]
  BY <1>0, Complete
<1>7. Handle(t) # None /\ cache'[dir[t]] # None /\ cache'[dir[t]].handle = Handle(t)
  <2>1. Handle(t) \in Nat
    BY <1>0, <1>6 DEF Handle, TypeOK, Ids
  <2>2. [handle |-> Handle(t), meta |-> meta[t]] \in Entry
    BY <1>0, <2>1 DEF Entry, TypeOK
  <2> QED
    BY <1>4, <2>1, <2>2, EntryAssumption, BackendsAssumption DEF EntryAssumption,
      BackendsAssumption
<1>8. MutexHeld' /\ LoadIsPrivate'
  BY <1>1, <1>3 DEF MutexHeld, LoadIsPrivate
<1>9. HandlesAreCounted'
  <2>1. ASSUME NEW d \in Dirs, cache'[d] # None
        PROVE  IF build' = "npu" THEN cache'[d].handle < names' ELSE cache'[d].handle \in Ids
    <3>1. CASE d = dir[t]
      BY <1>1, <1>6, <1>7, <3>1 DEF Handle
    <3>2. CASE d # dir[t]
      BY <1>1, <1>4, <2>1, <3>2 DEF Core, HandlesAreCounted
    <3> QED
      BY <3>1, <3>2
  <2> QED
    BY <1>1, <2>1 DEF Core, HandlesAreCounted
<1>10. HandlesLeadHome'
  <2>1. ASSUME NEW d \in Dirs, cache'[d] # None
        PROVE  CachedModule(d)' # None /\ live'[CachedModule(d)'] = d
    <3>1. CASE d = dir[t]
      <4>1. CachedModule(d)' = module[t]
        BY <1>1, <1>6, <1>7, <3>1 DEF Handle, CachedModule
      <4>2. module[t] # None
        BY <1>6, BackendsAssumption DEF BackendsAssumption, Ids
      <4> QED
        BY <1>1, <1>6, <3>1, <4>1, <4>2
    <3>2. CASE d # dir[t]
      BY <1>1, <1>4, <2>1, <3>2 DEF Core, HandlesLeadHome, CachedModule
    <3> QED
      BY <3>1, <3>2
  <2>2. ASSUME NEW u \in Threads, NEW d \in Dirs, handles'[u][d] # None
        PROVE  cache'[d] # None /\ cache'[d].handle = handles'[u][d]
    <3>1. CASE d = dir[t] /\ u = t
      BY <1>5, <1>7, <3>1
    <3>2. CASE d = dir[t] /\ u # t
      BY <1>2, <1>6, <2>2, <3>2 DEF Core, HandlesLeadHome
    <3>3. CASE d # dir[t]
      <4>1. handles'[u][d] = handles[u][d]
        BY <1>2, <1>5, <3>3
      <4> QED
        BY <1>4, <2>2, <3>3, <4>1 DEF Core, HandlesLeadHome
    <3> QED
      BY <3>1, <3>2, <3>3
  <2> QED
    BY <2>1, <2>2 DEF HandlesLeadHome
<1>11. LaunchersHaveHandles'
  BY <1>1, <1>2, <1>5, <1>7 DEF Core, LaunchersHaveHandles
<1> QED
  BY <1>0, <1>8, <1>9, <1>10, <1>11 DEF Core

\* What a failing step takes back is no module of the cache.
LEMMA ThrowsLive ==
  ASSUME Core, NEW t \in Threads, LoadThrows(t)
  PROVE  /\ At(t, "function or unload") => build = "gcu" /\ module[t] \in Ids
              /\ \A d \in Dirs : cache[d] # None => CachedModule(d) # module[t]
         /\ InMutex(t)
         /\ build # "gcu" => UNCHANGED live
<1> DEFINE p == Places[build]
<1>1. ASSUME At(t, "function or unload")
      PROVE  build = "gcu" /\ module[t] # None
             /\ \A d \in Dirs : cache[d] # None => CachedModule(d) # module[t]
  <2>1. Private(t, p) /\ WellOrdered(p) /\ Differs(build, p) /\ step[t] \in 1 .. p.publish
        /\ step[t] = p.unload
    BY <1>1, StepPlace
  <2> HIDE DEF p
  <2>2. p.publish \in 3 .. 7 /\ p.load < step[t]
    BY <2>1 DEF WellOrdered
  <2>3. build = "gcu"
    BY <2>1, <2>2 DEF Differs
  <2> QED
    BY <2>1, <2>2, <2>3 DEF Private
<1>2. module[t] # None => module[t] \in Ids
  BY DEF Core, TypeOK
<1>3. InMutex(t)
  BY DEF LoadThrows, At, InMutex
<1>4. build # "gcu" => UNCHANGED live
  BY <1>1 DEF LoadThrows
<1> QED
  BY <1>1, <1>2, <1>3, <1>4

LEMMA ThrowsCore ==
  ASSUME Core, NEW t \in Threads, LoadThrows(t)
  PROVE  Core'
<1>0. TypeOK /\ TypeOK' /\ dir[t] \in Dirs /\ InMutex(t)
  BY LoadTypes, ThrowsLive DEF Core, TypeOK
<1>1. UNCHANGED <<build, registered, names, cache, handles, dir>> /\ mutex' = None
  BY DEF LoadThrows, fileVars
<1>2. pc'[t] = "idle" /\ \A u \in Threads \ {t} : pc'[u] = pc[u]
  BY <1>0, OthersStay DEF LoadThrows, LaunchStep, Throws, TypeOK
<1>3. \A u \in Threads : ~InMutex(u)'
  BY <1>0, <1>2, Alone DEF InMutex
<1>4. MutexHeld' /\ LoadIsPrivate'
  BY <1>1, <1>3 DEF MutexHeld, LoadIsPrivate
<1>5. HandlesAreCounted'
  BY <1>1, ThrowsLive DEF Core, HandlesAreCounted
<1>6. HandlesLeadHome'
  <2>1. ASSUME NEW d \in Dirs, cache[d] # None
        PROVE  live'[CachedModule(d)] = d
    <3>1. CachedModule(d) \in Ids /\ live[CachedModule(d)] = d
      BY <2>1, CachedIsLoaded
    <3>2. CASE At(t, "function or unload")
      BY <1>0, <2>1, <3>1, <3>2, ThrowsLive DEF LoadThrows, TypeOK
    <3>3. CASE ~At(t, "function or unload")
      BY <3>1, <3>3 DEF LoadThrows
    <3> QED
      BY <3>2, <3>3
  <2> QED
    BY <1>1, <2>1 DEF Core, HandlesLeadHome, CachedModule
<1>7. LaunchersHaveHandles'
  BY <1>1, <1>2 DEF Core, LaunchersHaveHandles
<1> QED
  BY <1>0, <1>4, <1>5, <1>6, <1>7 DEF Core

LEMMA StutterCore ==
  ASSUME Core, UNCHANGED vars
  PROVE  Core'
<1>1. UNCHANGED <<build, live, registered, names, cache, mutex, handles, loadVars, pc, dir>>
  BY DEF vars, fileVars, driverVars, cacheVars
<1>2. TypeOK'
  BY DEF Core, TypeOK, vars, fileVars, driverVars, cacheVars, loadVars, launchVars, workVars
<1>3. LaunchersHaveHandles'
  BY <1>1 DEF Core, LaunchersHaveHandles
<1> QED
  BY <1>1, <1>2, <1>3, QuietCore DEF InMutex

LEMMA CoreNext ==
  ASSUME Core, WorkspacesApart, [Next]_vars
  PROVE  Core'
<1>1. ASSUME NEW t \in Threads, LaunchStep(t)
      PROVE  Core'
  <2>1. CASE \/ Begin(t) \/ GetSharedMemory(t) \/ PrepareLaunch(t) \/ PrepareThrows(t)
             \/ Submit(t) \/ AllocateWorkspace(t) \/ LaunchNpu(t) \/ RegisterCleanup(t)
    BY <2>1, CallCore
  <2>2. CASE FindModule(t) \/ ReadMetadata(t) \/ Ask(t) \/ LoadModule(t)
    BY <2>2, FindCore, ReadCore, AskCore, LoadCore
  <2>3. CASE MakeStub(t) \/ RegisterFunction(t) \/ PublishModule(t) \/ LoadThrows(t)
    BY <2>3, StubCore, RegisterCore, PublishCore, ThrowsCore
  <2> QED
    BY <1>1, <2>1, <2>2, <2>3 DEF LaunchStep
<1> QED
  BY <1>1, DeviceCore, StutterCore DEF Next

\* Steps that are not a thread's, and the cache.
LEMMA DeviceStays ==
  ASSUME \/ \E d \in Dirs : TouchArtifacts(d)
         \/ \E w \in Workspaces : KernelCompletes(w) \/ StreamFrees(w)
         \/ UNCHANGED vars
  PROVE  UNCHANGED <<build, driverVars, cacheVars, pc, dir, loadVars, launchVars>>
<1> USE DEF fileVars, driverVars, cacheVars, loadVars, launchVars
<1>1. CASE \E d \in Dirs : TouchArtifacts(d)
  BY <1>1 DEF TouchArtifacts
<1>2. CASE \E w \in Workspaces : KernelCompletes(w) \/ StreamFrees(w)
  BY <1>2 DEF KernelCompletes, StreamFrees
<1>3. CASE UNCHANGED vars
  BY <1>3 DEF vars
<1> QED
  BY <1>1, <1>2, <1>3

LEMMA CacheStays ==
  ASSUME NEW t \in Threads, LaunchStep(t), ~PublishModule(t)
  PROVE  UNCHANGED <<build, cache>>
BY DEF LaunchStep, Begin, FindModule, ReadMetadata, Ask, LoadModule, MakeStub, RegisterFunction,
  LoadThrows, GetSharedMemory, PrepareLaunch, PrepareThrows, Submit, AllocateWorkspace, LaunchNpu,
  RegisterCleanup, InLoad, fileVars, cacheVars

LEMMA BuildStays ==
  ASSUME [Next]_vars
  PROVE  build' = build
<1>1. ASSUME NEW t \in Threads, LaunchStep(t)
      PROVE  build' = build
  BY <1>1, CacheStays DEF PublishModule, fileVars
<1> QED
  BY <1>1, DeviceStays DEF Next

\* No entry of the cache is ever replaced.
LEMMA EntriesStay ==
  ASSUME Core, [Next]_vars, NEW d \in Dirs, cache[d] # None
  PROVE  cache'[d] = cache[d]
<1>1. ASSUME NEW t \in Threads, LaunchStep(t)
      PROVE  cache'[d] = cache[d]
  <2>1. CASE PublishModule(t)
    <3>1. cache[dir[t]] = None
      BY <2>1, Complete DEF PublishModule
    <3> QED
      BY <2>1, <3>1 DEF Core, TypeOK, PublishModule
  <2> QED
    BY <1>1, <2>1, CacheStays
<1> QED
  BY <1>1, DeviceStays DEF Next, cacheVars

-----------------------------------------------------------------------------
(* The size of shared memory *)

LEMMA CompiledNext ==
  ASSUME Core, WorkspacesApart, MetadataAreCompiled, LaunchUsesCompiledSize, [Next]_vars
  PROVE  MetadataAreCompiled' /\ LaunchUsesCompiledSize'
<1> SUFFICES ASSUME build \in Insisting
             PROVE  /\ \A d \in Dirs : cache'[d] # None => cache'[d].meta.shared = Compiled[d].shared
                    /\ \A u \in Threads : pc'[u] \in {"prepare", "submit"} =>
                         shared'[u] = Compiled[dir'[u]].shared
                    /\ \A u \in Threads : submitted'[u] # None =>
                         submitted'[u].shared = Compiled[dir'[u]].shared
  BY BuildStays DEF MetadataAreCompiled, LaunchUsesCompiledSize
<1>0. TypeOK
  BY DEF Core
<1>1. /\ \A d \in Dirs : cache[d] # None => cache[d].meta.shared = Compiled[d].shared
      /\ \A u \in Threads : pc[u] \in {"prepare", "submit"} => shared[u] = Compiled[dir[u]].shared
      /\ \A u \in Threads : submitted[u] # None => submitted[u].shared = Compiled[dir[u]].shared
  BY DEF MetadataAreCompiled, LaunchUsesCompiledSize
<1>2. ASSUME NEW t \in Threads, LaunchStep(t)
      PROVE  /\ \A d \in Dirs : cache'[d] # None => cache'[d].meta.shared = Compiled[d].shared
             /\ \A u \in Threads : pc'[u] \in {"prepare", "submit"} =>
                  shared'[u] = Compiled[dir'[u]].shared
             /\ \A u \in Threads : submitted'[u] # None =>
                  submitted'[u].shared = Compiled[dir'[u]].shared
  <2>1. ASSUME NEW d \in Dirs, cache'[d] # None
        PROVE  cache'[d].meta.shared = Compiled[d].shared
    <3>1. CASE cache[d] # None
      BY <1>1, <1>2, <3>1, EntriesStay DEF Next
    <3>2. CASE cache[d] = None
      <4>1. PublishModule(t)
        BY <1>2, <2>1, <3>2, CacheStays
      <4>2. d = dir[t] /\ cache'[d].meta = meta[t]
        BY <1>0, <2>1, <3>2, <4>1 DEF TypeOK, PublishModule
      <4> QED
        BY <4>1, <4>2, Complete DEF PublishModule
    <3> QED
      BY <3>1, <3>2
  <2>2. \A u \in Threads \ {t} : /\ pc'[u] = pc[u] /\ shared'[u] = shared[u]
                                 /\ dir'[u] = dir[u] /\ submitted'[u] = submitted[u]
    BY <1>0, <1>2, OthersStay
  <2>3. /\ pc'[t] \in {"prepare", "submit"} => shared'[t] = Compiled[dir'[t]].shared
        /\ submitted'[t] # None => submitted'[t].shared = Compiled[dir'[t]].shared
    <3>1. CASE Begin(t)
      BY <1>0, <3>1 DEF TypeOK, Begin, Goes
    <3>2. CASE \/ FindModule(t) \/ ReadMetadata(t) \/ Ask(t) \/ LoadModule(t) \/ MakeStub(t)
               \/ RegisterFunction(t) \/ PublishModule(t) \/ LoadThrows(t)
      <4>1. pc'[t] \notin {"prepare", "submit"}
        BY <1>0, <3>2 DEF TypeOK, FindModule, ReadMetadata, Ask, LoadModule, MakeStub,
          RegisterFunction, PublishModule, LoadThrows, Goes, Throws, Advance, At
      <4>2. UNCHANGED <<dir, submitted>>
        BY <3>2 DEF FindModule, ReadMetadata, Ask, LoadModule, MakeStub, RegisterFunction,
          PublishModule, LoadThrows, InLoad, launchVars
      <4> QED
        BY <1>1, <4>1, <4>2
    <3>3. CASE GetSharedMemory(t)
      <4>1. Loads[build].shared = "cache"
        BY <1>0, KnownBuild, AllPlaces DEF Differs
      <4>2. cache[dir[t]] # None /\ dir[t] \in Dirs
        BY <1>0, <3>3, LaunchReads DEF GetSharedMemory, TypeOK
      <4>3. shared'[t] = cache[dir[t]].meta.shared
        BY <1>0, <3>3, <4>1, <4>2 DEF TypeOK, GetSharedMemory
      <4> QED
        BY <1>1, <3>3, <4>2, <4>3 DEF GetSharedMemory
    <3>4. CASE PrepareLaunch(t)
      BY <1>1, <3>4 DEF PrepareLaunch
    <3>5. CASE PrepareThrows(t)
      BY <1>0, <1>1, <3>5 DEF TypeOK, PrepareThrows, Throws, launchVars
    <3>6. CASE Submit(t)
      <4>1. pc'[t] = "idle" /\ UNCHANGED dir /\ pc[t] = "submit"
        BY <1>0, <3>6 DEF TypeOK, Submit, Goes
      <4>2. submitted'[t] = submitted[t] \/ submitted'[t].shared = shared[t]
        <5>1. CASE SubmitMlu(t)
          BY <1>0, <5>1 DEF TypeOK, SubmitMlu
        <5>2. CASE SubmitPlain(t)
          BY <1>0, <5>2 DEF TypeOK, SubmitPlain
        <5> QED
          BY <3>6, <5>1, <5>2 DEF Submit
      <4> QED
        BY <1>1, <4>1, <4>2
    <3>7. CASE AllocateWorkspace(t) \/ RegisterCleanup(t)
      BY <1>0, <1>1, <3>7 DEF TypeOK, AllocateWorkspace, RegisterCleanup, Goes, Throws
    <3>8. CASE LaunchNpu(t)
      <4>1. build = "npu"
        BY <3>8 DEF WorkspacesApart, LaunchNpu
      <4> QED
        BY <4>1 DEF Insisting
    <3> QED
      BY <1>2, <3>1, <3>2, <3>3, <3>4, <3>5, <3>6, <3>7, <3>8 DEF LaunchStep
  <2> QED
    BY <1>1, <2>1, <2>2, <2>3
<1> QED
  BY <1>1, <1>2, DeviceStays DEF Next, cacheVars, launchVars

-----------------------------------------------------------------------------
(* Workspaces *)

LEMMA OnlyNpu ==
  ASSUME NEW b \in AllBuilds
  PROVE  Hosts[b].launch = "npu" <=> b = "npu"
<1>1. /\ Hosts["cuda"].launch = "plain" /\ Hosts["ix"].launch = "plain"
      /\ Hosts["hcu"].launch = "plain" /\ Hosts["mlu"].launch = "mlu"
  BY DEF Hosts, CudaHost, IxHost, HcuHost, MluHost
<1>2. /\ Hosts["musa"].launch = "plain" /\ Hosts["maca"].launch = "not empty"
      /\ Hosts["gcu"].launch = "plain" /\ Hosts["npu"].launch = "npu"
  BY DEF Hosts, MusaHost, MacaHost, GcuHost, NpuHost
<1> QED
  BY <1>1, <1>2 DEF AllBuilds

\* A workspace is never too small for what is launched.
LEMMA UsedFits ==
  ASSUME Core, NEW t \in Threads, pc[t] \in {"submit", "launch"}
  PROVE  UsedBytes(t) <= WorkspaceBytes(t) /\ UsedBytes(t) \in Nat /\ WorkspaceBytes(t) \in Nat
<1>1. Options(t) \in Metadata
  BY LaunchReads
<1> DEFINE w == Options(t).workspace
<1> DEFINE n == GridX(t) * GridY(t)
<1> DEFINE g == GridProduct(GridX(t), GridY(t))
<1>2. w \in Nat /\ GridX(t) \in Nat /\ GridY(t) \in Nat
  BY <1>1 DEF Metadata, GridX, GridY, Core, TypeOK
<1>3. n \in Nat
  BY <1>2, ProductNat
<1>4. g = n % Unsigned /\ g \in Nat
  BY <1>3, UnsignedNat DEF GridProduct, AsUnsigned
<1>5. LaunchBlocks(t) \in Nat /\ LaunchBlocks(t) <= g
  <2>1. Cores \in Nat
    BY BackendsAssumption DEF BackendsAssumption
  <2>2. LaunchBlocks(t) = g \/ (LaunchBlocks(t) = Cores /\ g > Cores)
    BY DEF LaunchBlocks
  <2> HIDE DEF g
  <2> QED
    BY <1>4, <2>1, <2>2
<1>6. n < Unsigned => g = n
  <2>1. Unsigned \in Nat \ {0}
    BY BackendsAssumption DEF BackendsAssumption
  <2> HIDE DEF n, g
  <2> QED
    BY <1>3, <1>4, <2>1
<1>7. UsedBytes(t) = w * (IF n < Unsigned THEN n ELSE LaunchBlocks(t)) /\ WorkspaceBytes(t) = w * g
  BY DEF UsedBytes, WorkspaceBytes
<1>8. CASE n < Unsigned
  <2>1. UsedBytes(t) = w * n /\ WorkspaceBytes(t) = w * n
    BY <1>6, <1>7, <1>8
  <2> HIDE DEF n, w
  <2>2. w * n \in Nat
    BY <1>2, <1>3, ProductNat
  <2> QED
    BY <2>1, <2>2
<1>9. CASE ~(n < Unsigned)
  <2>1. UsedBytes(t) = w * LaunchBlocks(t)
    BY <1>7, <1>9
  <2> HIDE DEF n, w, g
  <2>2. w * LaunchBlocks(t) <= w * g /\ w * LaunchBlocks(t) \in Nat /\ w * g \in Nat
    BY <1>2, <1>4, <1>5, ProductGrows, ProductNat
  <2> QED
    BY <1>7, <2>1, <2>2
<1> QED
  BY <1>8, <1>9

\* What is known of workspaces.
Work == WorkspacesApart /\ RunningHasWorkspace /\ WorkspacesHaveOwner

\* What a workspace was allocated for does not change before its launch.
LEMMA BytesStay ==
  ASSUME Core, [Next]_vars, NEW t \in Threads, pc[t] \in {"submit", "launch"},
         dir'[t] = dir[t], grid'[t] = grid[t]
  PROVE  WorkspaceBytes(t)' = WorkspaceBytes(t)
<1>1. cache[dir[t]] # None /\ dir[t] \in Dirs
  BY LaunchReads DEF Core, TypeOK
<1>2. cache'[dir'[t]] = cache[dir[t]]
  BY <1>1, EntriesStay
<1> QED
  BY <1>2 DEF WorkspaceBytes, Options, GridProduct, AsUnsigned, GridX, GridY

\* Steps that leave the workspaces alone.
LEMMA QuietWork ==
  ASSUME Core, Work, [Next]_vars, UNCHANGED <<work, workVars>>,
         \A t \in Threads : pc[t] \in {"launch", "callback"} =>
           pc'[t] = pc[t] /\ dir'[t] = dir[t] /\ grid'[t] = grid[t],
         \A t \in Threads : pc'[t] \in {"launch", "callback"} => pc'[t] = pc[t]
  PROVE  Work'
<1>1. build' = build
  BY BuildStays
<1>2. ASSUME NEW t \in Threads, work[t] # None
      PROVE  /\ pc'[t] = pc[t] /\ pc[t] \in {"launch", "callback"}
             /\ memory[work[t]] # None /\ work[t] \notin cleanup \cup leaked
             /\ \A u \in Threads \ {t} : work[u] # work[t]
             /\ pc[t] = "launch" => running[work[t]] = None /\ memory[work[t]] = WorkspaceBytes(t)'
  <2>1. pc[t] = "launch" => WorkspaceBytes(t)' = WorkspaceBytes(t)
    BY BytesStay
  <2> QED
    BY <1>2, <2>1 DEF Work, WorkspacesApart
<1>3. WorkspacesApart'
  BY <1>1, <1>2 DEF Work, WorkspacesApart, workVars
<1>4. RunningHasWorkspace' /\ WorkspacesHaveOwner'
  BY DEF Work, RunningHasWorkspace, WorkspacesHaveOwner, workVars
<1> QED
  BY <1>3, <1>4 DEF Work

LEMMA AllocateWork ==
  ASSUME Core, Work, NEW t \in Threads, AllocateWorkspace(t)
  PROVE  Work'
<1>0. TypeOK /\ [Next]_vars /\ build \in AllBuilds
  BY KnownBuild DEF Core, Next, LaunchStep
<1>1. UNCHANGED <<build, dir, grid, cache, running, cleanup, leaked>> /\ pc[t] = "submit"
  BY DEF AllocateWorkspace, fileVars, cacheVars
<1>2. \A u \in Threads \ {t} : pc'[u] = pc[u] /\ work'[u] = work[u]
  BY <1>0, OthersStay DEF LaunchStep
<1>3. work[t] = None
  BY <1>1 DEF Work, WorkspacesApart
<1>4. build = "npu"
  BY <1>0, OnlyNpu DEF AllocateWorkspace
<1>5. ASSUME NEW u \in Threads, pc[u] \in {"submit", "launch"}
      PROVE  WorkspaceBytes(u)' = WorkspaceBytes(u)
  BY <1>0, <1>1, <1>5, BytesStay
<1>6. CASE memory' = memory /\ work' = [work EXCEPT ![t] = None] /\ pc'[t] # "callback"
  <2>1. work'[t] = None
    BY <1>0, <1>6 DEF TypeOK
  <2>2. \A u \in Threads : work'[u] = work[u]
    BY <1>2, <1>3, <2>1
  <2>3. WorkspacesApart'
    BY <1>1, <1>2, <1>4, <1>5, <1>6, <2>1, <2>2 DEF Work, WorkspacesApart
  <2>4. RunningHasWorkspace' /\ WorkspacesHaveOwner'
    BY <1>1, <1>6, <2>2 DEF Work, RunningHasWorkspace, WorkspacesHaveOwner
  <2> QED
    BY <2>3, <2>4 DEF Work
<1>7. CASE \E w \in Workspaces : /\ memory[w] = None
                                /\ work' = [work EXCEPT ![t] = w]
                                /\ memory' = [memory EXCEPT ![w] = WorkspaceBytes(t)]
                                /\ Goes(t, "launch")
  <2>1. PICK w \in Workspaces : /\ memory[w] = None
                                /\ work' = [work EXCEPT ![t] = w]
                                /\ memory' = [memory EXCEPT ![w] = WorkspaceBytes(t)]
                                /\ Goes(t, "launch")
    BY <1>7
  <2>2. pc'[t] = "launch" /\ work'[t] = w /\ memory'[w] = WorkspaceBytes(t)
    BY <1>0, <2>1 DEF TypeOK, Goes
  <2>3. \A v \in Workspaces \ {w} : memory'[v] = memory[v]
    BY <1>0, <2>1 DEF TypeOK
  <2>4. w # None /\ memory'[w] # None
    <3>1. WorkspaceBytes(t) \in Nat
      BY <1>1, UsedFits
    <3> QED
      BY <2>2, <3>1, BackendsAssumption DEF BackendsAssumption, Workspaces
  <2>5. running[w] = None /\ w \notin cleanup \cup leaked /\ \A u \in Threads : work[u] # w
    <3>1. running[w] = None
      BY <2>1 DEF Work, RunningHasWorkspace
    <3>2. w \notin cleanup \cup leaked /\ \A u \in Threads : work[u] # w
      BY <2>1, <2>4 DEF Work, WorkspacesApart
    <3> QED
      BY <3>1, <3>2
  <2>6. ASSUME NEW u \in Threads, work'[u] # None
        PROVE  /\ pc'[u] \in {"launch", "callback"}
               /\ memory'[work'[u]] # None /\ work'[u] \notin cleanup' \cup leaked'
               /\ \A v \in Threads \ {u} : work'[v] # work'[u]
               /\ pc'[u] = "launch" =>
                    running'[work'[u]] = None /\ memory'[work'[u]] = WorkspaceBytes(u)'
    <3>1. CASE u = t
      <4>1. WorkspaceBytes(t)' = WorkspaceBytes(t)
        BY <1>1, <1>5
      <4> QED
        BY <1>1, <1>2, <2>2, <2>4, <2>5, <3>1, <4>1
    <3>2. CASE u # t
      <4>1. work'[u] = work[u] /\ pc'[u] = pc[u] /\ work[u] # None /\ work[u] # w
        BY <1>2, <2>5, <2>6, <3>2
      <4>2. /\ pc[u] \in {"launch", "callback"}
            /\ memory[work[u]] # None /\ work[u] \notin cleanup \cup leaked
            /\ \A v \in Threads \ {u} : work[v] # work[u]
            /\ pc[u] = "launch" => running[work[u]] = None /\ memory[work[u]] = WorkspaceBytes(u)
        BY <4>1 DEF Work, WorkspacesApart
      <4>3. memory'[work[u]] = memory[work[u]]
        BY <1>0, <2>3, <4>1 DEF TypeOK
      <4>4. pc[u] = "launch" => WorkspaceBytes(u)' = WorkspaceBytes(u)
        BY <1>5
      <4>5. \A v \in Threads \ {u} : work'[v] # work'[u]
        BY <1>2, <2>2, <4>1, <4>2
      <4> QED
        BY <1>1, <4>1, <4>2, <4>3, <4>4, <4>5
    <3> QED
      BY <3>1, <3>2
  <2>7. \A u \in Threads : pc'[u] = "callback" => work'[u] # None
    BY <1>2, <2>2 DEF Work, WorkspacesApart
  <2>8. \A v \in cleanup' \cup leaked' : memory'[v] # None
    BY <1>0, <1>1, <2>3, <2>5 DEF TypeOK, Work, WorkspacesApart
  <2>9. WorkspacesApart'
    BY <1>1, <1>4, <2>6, <2>7, <2>8 DEF Work, WorkspacesApart
  <2>10. RunningHasWorkspace'
    BY <1>1, <2>3, <2>5 DEF Work, RunningHasWorkspace
  <2>11. WorkspacesHaveOwner'
    <3>1. ASSUME NEW v \in Workspaces, memory'[v] # None
          PROVE  v \in cleanup' \cup leaked' \/ \E u \in Threads : work'[u] = v
      <4>1. CASE v = w
        BY <2>2, <4>1
      <4>2. CASE v # w
        <5>1. memory[v] # None
          BY <2>3, <3>1, <4>2
        <5>2. v \in cleanup \cup leaked \/ \E u \in Threads : work[u] = v
          BY <5>1 DEF Work, WorkspacesHaveOwner
        <5>3. \A u \in Threads : work[u] = v => work'[u] = v
          BY <1>2, <1>3, <5>1, BackendsAssumption DEF BackendsAssumption, Workspaces
        <5> QED
          BY <1>1, <5>2, <5>3
      <4> QED
        BY <4>1, <4>2
    <3> QED
      BY <3>1 DEF WorkspacesHaveOwner
  <2> QED
    BY <2>9, <2>10, <2>11 DEF Work
<1>8. CASE Throws(t) /\ UNCHANGED <<work, memory>>
  <2>1. pc'[t] = "idle"
    BY <1>0, <1>8 DEF TypeOK, Throws
  <2> QED
    BY <1>0, <1>1, <1>2, <1>8, <2>1, QuietWork DEF workVars
<1>9. CASE work' = [work EXCEPT ![t] = None] /\ Goes(t, "launch") /\ UNCHANGED memory
  <2>1. pc'[t] = "launch"
    BY <1>0, <1>9 DEF TypeOK, Goes
  <2> QED
    BY <1>6, <1>9, <2>1
<1> QED
  BY <1>7, <1>8, <1>9 DEF AllocateWorkspace

LEMMA LaunchWork ==
  ASSUME Core, Work, NEW t \in Threads, LaunchNpu(t)
  PROVE  Work'
<1>0. TypeOK /\ [Next]_vars
  BY DEF Core, Next, LaunchStep
<1>1. UNCHANGED <<build, dir, grid, cache, cleanup, leaked>> /\ pc[t] = "launch"
  BY DEF LaunchNpu, fileVars, cacheVars
<1>2. \A u \in Threads \ {t} : pc'[u] = pc[u] /\ work'[u] = work[u]
  BY <1>0, OthersStay DEF LaunchStep
<1>3. build = "npu"
  BY <1>1 DEF Work, WorkspacesApart
<1>4. ASSUME NEW u \in Threads, pc[u] \in {"submit", "launch"}
      PROVE  WorkspaceBytes(u)' = WorkspaceBytes(u)
  BY <1>0, <1>1, <1>4, BytesStay
<1>5. CASE work[t] = None
  <2>1. UNCHANGED <<memory, running>> /\ pc'[t] = "idle"
    BY <1>0, <1>5 DEF TypeOK, LaunchNpu, Goes, Throws
  <2>2. work'[t] = work[t]
    BY <1>0, <1>5 DEF TypeOK, LaunchNpu
  <2>3. \A u \in Threads : work'[u] = work[u]
    BY <1>2, <2>2
  <2>4. WorkspacesApart'
    BY <1>1, <1>2, <1>3, <1>4, <1>5, <2>1, <2>3 DEF Work, WorkspacesApart
  <2>5. RunningHasWorkspace' /\ WorkspacesHaveOwner'
    BY <1>1, <2>1, <2>3 DEF Work, RunningHasWorkspace, WorkspacesHaveOwner
  <2> QED
    BY <2>4, <2>5 DEF Work
<1>6. CASE work[t] # None
  <2> DEFINE w == work[t]
  <2>0. /\ w \in Workspaces /\ memory[w] = WorkspaceBytes(t) /\ memory[w] # None
        /\ running[w] = None /\ w \notin cleanup \cup leaked /\ \A u \in Threads \ {t} : work[u] # w
    BY <1>0, <1>1, <1>6 DEF TypeOK, Work, WorkspacesApart
  <2>1. ASSUME NEW u \in Threads, u # t, work[u] # None
        PROVE  /\ work'[u] = work[u] /\ work[u] # w /\ work[u] \in Workspaces
               /\ pc'[u] \in {"launch", "callback"}
               /\ memory[work[u]] # None /\ work[u] \notin cleanup \cup leaked
               /\ \A v \in Threads \ {u} : work[v] # work[u]
               /\ pc'[u] = "launch" =>
                    running[work[u]] = None /\ memory[work[u]] = WorkspaceBytes(u)'
    <3>1. work'[u] = work[u] /\ pc'[u] = pc[u] /\ work[u] # w /\ work[u] \in Workspaces
      BY <1>0, <1>2, <2>0, <2>1 DEF TypeOK
    <3>2. /\ pc[u] \in {"launch", "callback"}
          /\ memory[work[u]] # None /\ work[u] \notin cleanup \cup leaked
          /\ \A v \in Threads \ {u} : work[v] # work[u]
          /\ pc[u] = "launch" => running[work[u]] = None /\ memory[work[u]] = WorkspaceBytes(u)
      BY <2>1 DEF Work, WorkspacesApart
    <3>3. pc[u] = "launch" => WorkspaceBytes(u)' = WorkspaceBytes(u)
      BY <1>4
    <3> QED
      BY <3>1, <3>2, <3>3
  <2> HIDE DEF w
  <2>2. CASE /\ running' = [running EXCEPT ![w] = UsedBytes(t)]
             /\ pc'[t] = "callback" /\ UNCHANGED <<memory, work>>
    <3>1. running'[w] = UsedBytes(t) /\ \A v \in Workspaces \ {w} : running'[v] = running[v]
      BY <1>0, <2>0, <2>2 DEF TypeOK
    <3>2. ASSUME NEW u \in Threads, work'[u] # None
          PROVE  /\ pc'[u] \in {"launch", "callback"}
                 /\ memory'[work'[u]] # None /\ work'[u] \notin cleanup' \cup leaked'
                 /\ \A v \in Threads \ {u} : work'[v] # work'[u]
                 /\ pc'[u] = "launch" =>
                      running'[work'[u]] = None /\ memory'[work'[u]] = WorkspaceBytes(u)'
      <4>1. CASE u = t
        BY <1>1, <2>0, <2>2, <4>1 DEF w
      <4>2. CASE u # t
        BY <1>1, <2>1, <2>2, <3>1, <3>2, <4>2
      <4> QED
        BY <4>1, <4>2
    <3>3. \A u \in Threads : pc'[u] = "callback" => work'[u] # None
      BY <1>2, <1>6, <2>2 DEF Work, WorkspacesApart, w
    <3>4. WorkspacesApart'
      BY <1>1, <1>3, <2>2, <3>2, <3>3 DEF Work, WorkspacesApart
    <3>5. RunningHasWorkspace'
      <4>1. UsedBytes(t) <= memory[w]
        BY <1>1, <2>0, UsedFits
      <4>2. ASSUME NEW v \in Workspaces, running'[v] # None
            PROVE  memory'[v] # None /\ running'[v] <= memory'[v]
        <5>1. CASE v = w
          BY <2>0, <2>2, <3>1, <4>1, <5>1
        <5>2. CASE v # w
          BY <2>2, <3>1, <4>2, <5>2 DEF Work, RunningHasWorkspace
        <5> QED
          BY <5>1, <5>2
      <4> QED
        BY <4>2 DEF RunningHasWorkspace
    <3>6. WorkspacesHaveOwner'
      BY <1>1, <2>2 DEF Work, WorkspacesHaveOwner
    <3> QED
      BY <3>4, <3>5, <3>6 DEF Work
  <2>3. CASE /\ memory' = Freed(w) /\ work' = [work EXCEPT ![t] = None]
             /\ pc'[t] = "idle" /\ UNCHANGED running
    <3>1. /\ memory'[w] = None /\ \A v \in Workspaces \ {w} : memory'[v] = memory[v]
          /\ work'[t] = None
      BY <1>0, <2>0, <2>3 DEF TypeOK, Freed
    <3>2. ASSUME NEW u \in Threads, work'[u] # None
          PROVE  /\ pc'[u] \in {"launch", "callback"}
                 /\ memory'[work'[u]] # None /\ work'[u] \notin cleanup' \cup leaked'
                 /\ \A v \in Threads \ {u} : work'[v] # work'[u]
                 /\ pc'[u] = "launch" =>
                      running'[work'[u]] = None /\ memory'[work'[u]] = WorkspaceBytes(u)'
      <4>1. u # t /\ work[u] # None
        BY <1>2, <3>1, <3>2
      <4>2. \A v \in Threads \ {u} : work'[v] # work'[u]
        <5>1. ASSUME NEW v \in Threads \ {u}
              PROVE  work'[v] # work'[u]
          <6>1. CASE v = t
            BY <3>1, <3>2, <6>1
          <6>2. CASE v # t
            BY <1>2, <2>1, <4>1, <6>2
          <6> QED
            BY <6>1, <6>2
        <5> QED
          BY <5>1
      <4> QED
        BY <1>1, <2>1, <2>3, <3>1, <4>1, <4>2
    <3>3. \A u \in Threads : pc'[u] = "callback" => work'[u] # None
      BY <1>2, <2>3 DEF Work, WorkspacesApart
    <3>4. \A v \in cleanup' \cup leaked' : memory'[v] # None
      BY <1>0, <1>1, <2>0, <3>1 DEF TypeOK, Work, WorkspacesApart
    <3>5. WorkspacesApart'
      BY <1>1, <1>3, <3>2, <3>3, <3>4 DEF Work, WorkspacesApart
    <3>6. RunningHasWorkspace'
      BY <2>0, <2>3, <3>1 DEF Work, RunningHasWorkspace
    <3>7. WorkspacesHaveOwner'
      <4>1. ASSUME NEW v \in Workspaces, memory'[v] # None
            PROVE  v \in cleanup' \cup leaked' \/ \E u \in Threads : work'[u] = v
        <5>1. v # w /\ memory[v] # None
          BY <3>1, <4>1
        <5>2. v \in cleanup \cup leaked \/ \E u \in Threads : work[u] = v
          BY <5>1 DEF Work, WorkspacesHaveOwner
        <5>3. \A u \in Threads : work[u] = v => work'[u] = v
          BY <1>2, <5>1 DEF w
        <5> QED
          BY <1>1, <5>2, <5>3
      <4> QED
        BY <4>1 DEF WorkspacesHaveOwner
    <3> QED
      BY <3>5, <3>6, <3>7 DEF Work
  <2> QED
    <3>1. pc' = [pc EXCEPT ![t] = "callback"] => pc'[t] = "callback"
      BY <1>0 DEF TypeOK
    <3>2. pc' = [pc EXCEPT ![t] = "idle"] => pc'[t] = "idle"
      BY <1>0 DEF TypeOK
    <3> QED
      BY <1>6, <2>2, <2>3, <3>1, <3>2 DEF LaunchNpu, Goes, Throws, w
<1> QED
  BY <1>5, <1>6

LEMMA HandOverWork ==
  ASSUME Core, Work, NEW t \in Threads, RegisterCleanup(t)
  PROVE  Work'
<1>0. TypeOK /\ [Next]_vars
  BY DEF Core, Next, LaunchStep
<1>1. UNCHANGED <<build, dir, grid, cache, memory, running>> /\ pc[t] = "callback"
  BY DEF RegisterCleanup, HandOver, fileVars, cacheVars
<1>2. \A u \in Threads \ {t} : pc'[u] = pc[u] /\ work'[u] = work[u]
  BY <1>0, OthersStay DEF LaunchStep
<1>3. pc'[t] = "idle" /\ work'[t] = None
  BY <1>0 DEF TypeOK, RegisterCleanup, Goes
<1>4. ASSUME NEW u \in Threads, pc[u] \in {"submit", "launch"}
      PROVE  WorkspaceBytes(u)' = WorkspaceBytes(u)
  BY <1>0, <1>1, <1>4, BytesStay
<1> DEFINE w == work[t]
<1>5. /\ w # None /\ w \in Workspaces /\ memory[w] # None /\ w \notin cleanup \cup leaked
      /\ \A u \in Threads \ {t} : work[u] # w
  BY <1>0, <1>1 DEF TypeOK, Work, WorkspacesApart
<1> HIDE DEF w
<1>6. \/ cleanup' = cleanup \cup {w} /\ leaked' = leaked
      \/ leaked' = leaked \cup {w} /\ cleanup' = cleanup
  BY DEF RegisterCleanup, HandOver, w
<1>7. ASSUME NEW u \in Threads, work'[u] # None
      PROVE  /\ pc'[u] \in {"launch", "callback"}
             /\ memory'[work'[u]] # None /\ work'[u] \notin cleanup' \cup leaked'
             /\ \A v \in Threads \ {u} : work'[v] # work'[u]
             /\ pc'[u] = "launch" =>
                  running'[work'[u]] = None /\ memory'[work'[u]] = WorkspaceBytes(u)'
  <2>1. u # t /\ work'[u] = work[u] /\ work[u] # None /\ pc'[u] = pc[u] /\ work[u] # w
    BY <1>2, <1>3, <1>5, <1>7
  <2>2. /\ pc[u] \in {"launch", "callback"}
        /\ memory[work[u]] # None /\ work[u] \notin cleanup \cup leaked
        /\ \A v \in Threads \ {u} : work[v] # work[u]
        /\ pc[u] = "launch" => running[work[u]] = None /\ memory[work[u]] = WorkspaceBytes(u)
    BY <2>1 DEF Work, WorkspacesApart
  <2>3. work[u] \notin cleanup' \cup leaked'
    BY <1>6, <2>1, <2>2
  <2>4. ASSUME NEW v \in Threads \ {u}
        PROVE  work'[v] # work'[u]
    <3>1. CASE v = t
      BY <1>3, <1>7, <3>1
    <3>2. CASE v # t
      BY <1>2, <2>1, <2>2, <3>2
    <3> QED
      BY <3>1, <3>2
  <2>5. pc[u] = "launch" => WorkspaceBytes(u)' = WorkspaceBytes(u)
    BY <1>4
  <2> QED
    BY <1>1, <2>1, <2>2, <2>3, <2>4, <2>5
<1>8. \A u \in Threads : pc'[u] = "callback" => work'[u] # None
  BY <1>2, <1>3 DEF Work, WorkspacesApart
<1>9. \A u \in Threads : build # "npu" => work'[u] = None /\ pc'[u] # "launch"
  BY <1>2, <1>3 DEF Work, WorkspacesApart
<1>10. \A v \in cleanup' \cup leaked' : memory'[v] # None
  BY <1>1, <1>5, <1>6 DEF Work, WorkspacesApart
<1>11. cleanup' \cap leaked' = {}
  BY <1>5, <1>6 DEF Work, WorkspacesApart
<1>12. WorkspacesApart'
  BY <1>1, <1>7, <1>8, <1>9, <1>10, <1>11 DEF WorkspacesApart
<1>13. RunningHasWorkspace'
  BY <1>1 DEF Work, RunningHasWorkspace
<1>14. WorkspacesHaveOwner'
  <2>1. ASSUME NEW v \in Workspaces, memory'[v] # None
        PROVE  v \in cleanup' \cup leaked' \/ \E u \in Threads : work'[u] = v
    <3>1. v \in cleanup \cup leaked \/ \E u \in Threads : work[u] = v
      BY <1>1, <2>1 DEF Work, WorkspacesHaveOwner
    <3>2. \A u \in Threads : work[u] = v => work'[u] = v \/ v = w
      BY <1>2 DEF w
    <3> QED
      BY <1>6, <3>1, <3>2
  <2> QED
    BY <2>1 DEF WorkspacesHaveOwner
<1> QED
  BY <1>12, <1>13, <1>14 DEF Work

LEMMA DeviceWork ==
  ASSUME Core, Work, NEW w \in Workspaces, KernelCompletes(w) \/ StreamFrees(w)
  PROVE  Work'
<1>0. TypeOK /\ [Next]_vars
  BY DEF Core, Next
<1>1. UNCHANGED <<build, dir, grid, cache, pc, work, leaked>>
  BY DEF KernelCompletes, StreamFrees, fileVars, cacheVars, launchVars
<1>4. ASSUME NEW u \in Threads, pc[u] \in {"submit", "launch"}
      PROVE  WorkspaceBytes(u)' = WorkspaceBytes(u)
  BY <1>0, <1>1, <1>4, BytesStay
<1>5. \A v \in Workspaces : running'[v] # None => running'[v] = running[v]
  BY <1>0 DEF TypeOK, KernelCompletes, StreamFrees
<1>6. \A v \in Workspaces : running[v] = None => running'[v] = None
  BY <1>0 DEF TypeOK, KernelCompletes, StreamFrees
<1>7. CASE KernelCompletes(w)
  <2>1. UNCHANGED <<memory, cleanup>>
    BY <1>7 DEF KernelCompletes
  <2>2. WorkspacesApart'
    <3>1. ASSUME NEW u \in Threads, work[u] # None
          PROVE  /\ pc[u] \in {"launch", "callback"}
                 /\ memory[work[u]] # None /\ work[u] \notin cleanup \cup leaked
                 /\ \A v \in Threads \ {u} : work[v] # work[u]
                 /\ pc[u] = "launch" =>
                      running'[work[u]] = None /\ memory[work[u]] = WorkspaceBytes(u)'
      <4>1. work[u] \in Workspaces
        BY <1>0, <3>1 DEF TypeOK
      <4>2. pc[u] = "launch" => WorkspaceBytes(u)' = WorkspaceBytes(u)
        BY <1>4
      <4> QED
        BY <1>6, <3>1, <4>1, <4>2 DEF Work, WorkspacesApart
    <3> QED
      BY <1>1, <2>1, <3>1 DEF Work, WorkspacesApart
  <2>3. RunningHasWorkspace' /\ WorkspacesHaveOwner'
    BY <1>1, <1>5, <2>1 DEF Work, RunningHasWorkspace, WorkspacesHaveOwner
  <2> QED
    BY <2>2, <2>3 DEF Work
<1>8. CASE StreamFrees(w)
  <2>1. /\ memory'[w] = None /\ \A v \in Workspaces \ {w} : memory'[v] = memory[v]
        /\ w \in cleanup /\ running[w] = None /\ UNCHANGED running
        /\ cleanup' = cleanup \ {w}
    BY <1>0, <1>8 DEF TypeOK, StreamFrees
  <2>2. w \notin leaked
    BY <2>1 DEF Work, WorkspacesApart
  <2>3. ASSUME NEW u \in Threads, work[u] # None
        PROVE  /\ pc[u] \in {"launch", "callback"}
               /\ memory'[work[u]] # None /\ work[u] \notin cleanup' \cup leaked
               /\ \A v \in Threads \ {u} : work[v] # work[u]
               /\ pc[u] = "launch" =>
                    running'[work[u]] = None /\ memory'[work[u]] = WorkspaceBytes(u)'
    <3>1. work[u] \in Workspaces /\ work[u] \notin cleanup
      BY <1>0, <2>3 DEF TypeOK, Work, WorkspacesApart
    <3>2. memory'[work[u]] = memory[work[u]]
      BY <2>1, <3>1
    <3>3. pc[u] = "launch" => WorkspaceBytes(u)' = WorkspaceBytes(u)
      BY <1>4
    <3> QED
      BY <2>1, <2>3, <3>1, <3>2, <3>3 DEF Work, WorkspacesApart
  <2>4. \A v \in cleanup' \cup leaked : memory'[v] # None
    BY <1>0, <2>1, <2>2 DEF TypeOK, Work, WorkspacesApart
  <2>5. cleanup' \cap leaked = {}
    BY <2>1 DEF Work, WorkspacesApart
  <2>6. WorkspacesApart'
    BY <1>1, <2>3, <2>4, <2>5 DEF Work, WorkspacesApart
  <2>7. RunningHasWorkspace'
    BY <2>1 DEF Work, RunningHasWorkspace
  <2>8. WorkspacesHaveOwner'
    BY <1>1, <2>1 DEF Work, WorkspacesHaveOwner
  <2> QED
    BY <2>6, <2>7, <2>8 DEF Work
<1> QED
  BY <1>7, <1>8

LEMMA WorkNext ==
  ASSUME Core, Work, [Next]_vars
  PROVE  Work'
<1>0. TypeOK
  BY DEF Core
<1>1. ASSUME NEW t \in Threads, LaunchStep(t)
      PROVE  Work'
  <2>1. CASE AllocateWorkspace(t) \/ LaunchNpu(t) \/ RegisterCleanup(t)
    BY <2>1, AllocateWork, LaunchWork, HandOverWork
  <2>2. CASE ~(AllocateWorkspace(t) \/ LaunchNpu(t) \/ RegisterCleanup(t))
    <3>1. UNCHANGED <<work, workVars>>
      BY <1>1, <2>2 DEF LaunchStep, Begin, FindModule, ReadMetadata, Ask, LoadModule, MakeStub,
        RegisterFunction, PublishModule, LoadThrows, GetSharedMemory, PrepareLaunch,
        PrepareThrows, Submit, InLoad, launchVars
    <3>2. pc[t] \notin {"launch", "callback"} /\ pc'[t] \notin {"launch", "callback"}
      <4>1. CASE Begin(t) \/ FindModule(t) \/ PublishModule(t) \/ LoadThrows(t)
        <5>0. pc \in [Threads -> {"idle", "load", "loading", "shared", "prepare", "submit",
                                  "launch", "callback"}]
          BY <1>0 DEF TypeOK
        <5>1. CASE Begin(t)
          BY <5>0, <5>1 DEF Begin, Goes
        <5>2. CASE FindModule(t)
          BY <5>0, <5>2 DEF FindModule, Goes
        <5>3. CASE PublishModule(t)
          BY <5>0, <5>3 DEF PublishModule, At, Goes
        <5>4. CASE LoadThrows(t)
          BY <5>0, <5>4 DEF LoadThrows, At, Throws
        <5> QED
          BY <4>1, <5>1, <5>2, <5>3, <5>4
      <4>2. CASE \/ ReadMetadata(t) \/ Ask(t) \/ LoadModule(t) \/ MakeStub(t)
                 \/ RegisterFunction(t)
        BY <4>2 DEF ReadMetadata, Ask, LoadModule, MakeStub, RegisterFunction, At, Advance
      <4>3. CASE GetSharedMemory(t) \/ PrepareLaunch(t) \/ PrepareThrows(t) \/ Submit(t)
        BY <1>0, <4>3 DEF TypeOK, GetSharedMemory, PrepareLaunch, PrepareThrows, Submit, Goes,
          Throws
      <4> QED
        BY <1>1, <2>2, <4>1, <4>2, <4>3 DEF LaunchStep
    <3>3. \A u \in Threads \ {t} : pc'[u] = pc[u] /\ dir'[u] = dir[u] /\ grid'[u] = grid[u]
      BY <1>0, <1>1, OthersStay
    <3>4. [Next]_vars
      OBVIOUS
    <3> QED
      BY <3>1, <3>2, <3>3, <3>4, QuietWork
  <2> QED
    BY <2>1, <2>2
<1>2. CASE \E d \in Dirs : TouchArtifacts(d)
  BY <1>2, DeviceStays, QuietWork DEF TouchArtifacts, launchVars
<1>3. CASE UNCHANGED vars
  BY <1>3, DeviceStays, QuietWork DEF vars, launchVars
<1> QED
  BY <1>1, <1>2, <1>3, DeviceWork DEF Next

-----------------------------------------------------------------------------
(* Failed loads of a GCU *)

\* Where a GCU's load can fail.
LEMMA GcuPlace ==
  ASSUME Core, build = "gcu", NEW t \in Threads, NEW q, At(t, q), q # "publish"
  PROVE  q = "function or unload" \/ (q = "load" /\ module[t] = None)
<1> DEFINE p == Places[build]
<1>1. /\ Private(t, p) /\ Differs(build, p) /\ step[t] \in 1 .. p.publish
      /\ q = "load" <=> step[t] = p.load
      /\ q = "function or unload" <=> step[t] = p.unload
      /\ step[t] # p.publish
  BY StepPlace
<1> HIDE DEF p
<1>2. p.load = 1 /\ p.unload = 2 /\ p.publish = 3
  BY <1>1 DEF Differs
<1>3. step[t] \in 1 .. 3 /\ step[t] # 3
  BY <1>1, <1>2
<1>4. step[t] = 1 \/ step[t] = 2
  BY <1>3
<1>5. CASE step[t] = 1
  <2>1. step[t] <= p.load
    BY <1>2, <1>5
  <2>2. module[t] = None
    BY <1>1, <2>1 DEF Private
  <2> QED
    BY <1>1, <1>2, <1>5, <2>2
<1>6. CASE step[t] = 2
  BY <1>1, <1>2, <1>6
<1> QED
  BY <1>4, <1>5, <1>6

LEMMA GcuThrows ==
  ASSUME Core, build = "gcu", NEW t \in Threads, LoadThrows(t)
  PROVE  At(t, "function or unload") \/ module[t] = None
<1>1. PICK q \in Questions \cup {"load", "register", "need arch", "mlu metadata"} : At(t, q)
  BY DEF LoadThrows
<1>2. q # "publish"
  BY <1>1 DEF Questions
<1> QED
  BY <1>1, <1>2, GcuPlace

LEMMA LoadedNext ==
  ASSUME Core, FailedLoadsLeaveNothing, [Next]_vars
  PROVE  FailedLoadsLeaveNothing'
<1> SUFFICES ASSUME build = "gcu", NEW i \in Ids, live'[i] # None
             PROVE  \/ \E u \in Threads : InMutex(u)' /\ module'[u] = i
                    \/ cache'[live'[i]] # None /\ CachedModule(live[i])' = i
  <2>1. \A i : (\E u \in Threads : InMutex(u)' /\ module'[u] = i) => i \in Loading'
    BY DEF Loading
  <2> QED
    BY <2>1, BuildStays DEF FailedLoadsLeaveNothing
<1>0. TypeOK /\ build' = "gcu" /\ i # None
  BY BuildStays, BackendsAssumption DEF Core, BackendsAssumption, Ids
<1>1. live[i] # None =>
        \/ \E u \in Threads : InMutex(u) /\ module[u] = i
        \/ cache[live[i]] # None /\ CachedModule(live[i]) = i
  BY DEF FailedLoadsLeaveNothing, Loading
<1>2. ASSUME live[i] # None, live'[i] = live[i], cache[live[i]] # None, CachedModule(live[i]) = i
      PROVE  cache'[live'[i]] # None /\ CachedModule(live[i])' = i
  <2>1. live[i] \in Dirs
    BY <1>0, <1>2 DEF TypeOK
  <2>2. cache'[live[i]] = cache[live[i]]
    BY <1>2, <2>1, EntriesStay
  <2> QED
    BY <1>0, <1>2, <2>2 DEF CachedModule
<1>3. ASSUME NEW t \in Threads, LaunchStep(t)
      PROVE  \/ \E u \in Threads : InMutex(u)' /\ module'[u] = i
             \/ cache'[live'[i]] # None /\ CachedModule(live[i])' = i
  <2>1. \A u \in Threads \ {t} : pc'[u] = pc[u] /\ module'[u] = module[u]
    BY <1>0, <1>3, OthersStay
  <2>2. CASE LoadModule(t)
    <3>1. InMutex(t) /\ InMutex(t)' /\ \A u \in Threads : InMutex(u) => u = t
      BY <2>2, Alone DEF LoadModule, At, InMutex, Advance
    <3>2. module[t] = None
      <4>1. step[t] = Places[build].load /\ Private(t, Places[build])
        BY <2>2, StepPlace DEF LoadModule
      <4>2. step[t] <= Places[build].load
        <5>1. step[t] \in 1 .. 7
          BY <1>0 DEF TypeOK
        <5>2. step[t] <= step[t]
          BY <5>1
        <5> QED
          BY <4>1, <5>2
      <4> QED
        BY <4>1, <4>2 DEF Private
    <3>3. CASE live'[i] = live[i]
      BY <1>0, <1>1, <1>2, <3>1, <3>2, <3>3
    <3>4. CASE live'[i] # live[i]
      <4>1. module'[t] = i
        BY <1>0, <2>2, <3>4 DEF TypeOK, LoadModule
      <4> QED
        BY <3>1, <4>1
    <3> QED
      BY <3>3, <3>4
  <2>3. CASE LoadThrows(t)
    <3>1. /\ \A u \in Threads : InMutex(u) => u = t
          /\ At(t, "function or unload") \/ module[t] = None
      BY <2>3, ThrowsLive, Alone, GcuThrows
    <3>2. CASE At(t, "function or unload")
      <4>1. i # module[t] /\ live'[i] = live[i]
        BY <1>0, <2>3, <3>2 DEF TypeOK, LoadThrows
      <4> QED
        BY <1>1, <1>2, <3>1, <4>1
    <3>3. CASE module[t] = None /\ ~At(t, "function or unload")
      <4>1. live' = live
        BY <2>3, <3>3 DEF LoadThrows
      <4> QED
        BY <1>0, <1>1, <1>2, <3>1, <3>3, <4>1
    <3> QED
      BY <3>1, <3>2, <3>3
  <2>4. CASE PublishModule(t)
    <3>1. At(t, "publish") /\ live' = live /\ \A u \in Threads : InMutex(u) => u = t
      BY <2>4, Alone DEF PublishModule, At, InMutex, driverVars
    <3>2. live[module[t]] = dir[t] /\ cache[dir[t]] = None
      BY <3>1, Complete
    <3>3. CASE module[t] = i
      <4>1. cache'[dir[t]] = [handle |-> module[t], meta |-> meta[t]]
        BY <1>0, <2>4 DEF TypeOK, PublishModule, Handle
      <4>2. [handle |-> module[t], meta |-> meta[t]] \in Entry
        BY <1>0, <3>3 DEF TypeOK, Entry, Ids
      <4>3. cache'[dir[t]] # None
        BY <4>1, <4>2, EntryAssumption DEF EntryAssumption
      <4> QED
        BY <1>0, <3>1, <3>2, <3>3, <4>1, <4>3 DEF CachedModule
    <3>4. CASE module[t] # i
      BY <1>1, <1>2, <3>1, <3>4
    <3> QED
      BY <3>3, <3>4
  <2>5. CASE FindModule(t)
    <3>1. \A u \in Threads : ~InMutex(u)
      BY <2>5, BackendsAssumption DEF FindModule, Core, MutexHeld, BackendsAssumption
    <3>2. live' = live
      BY <2>5 DEF FindModule, driverVars
    <3> QED
      BY <1>1, <1>2, <3>1, <3>2
  <2>6. CASE ReadMetadata(t) \/ Ask(t) \/ MakeStub(t) \/ RegisterFunction(t)
    <3>1. UNCHANGED <<live, module, pc>>
      BY <2>6 DEF ReadMetadata, Ask, MakeStub, RegisterFunction, Advance, driverVars
    <3> QED
      BY <1>1, <1>2, <3>1 DEF InMutex
  <2>7. CASE \/ Begin(t) \/ GetSharedMemory(t) \/ PrepareLaunch(t) \/ PrepareThrows(t)
             \/ Submit(t) \/ AllocateWorkspace(t) \/ LaunchNpu(t) \/ RegisterCleanup(t)
    <3>1. UNCHANGED <<live, module>>
      BY <2>7 DEF Begin, GetSharedMemory, PrepareLaunch, PrepareThrows, Submit,
        AllocateWorkspace, LaunchNpu, RegisterCleanup, driverVars, loadVars
    <3>2. pc[t] # "loading"
      BY <2>7 DEF Begin, GetSharedMemory, PrepareLaunch, PrepareThrows, Submit,
        AllocateWorkspace, LaunchNpu, RegisterCleanup
    <3>3. \A u \in Threads : InMutex(u) => InMutex(u)'
      BY <2>1, <3>2 DEF InMutex
    <3> QED
      BY <1>1, <1>2, <3>1, <3>3
  <2> QED
    BY <1>3, <2>2, <2>3, <2>4, <2>5, <2>6, <2>7 DEF LaunchStep
<1>4. CASE UNCHANGED <<build, driverVars, cacheVars, pc, dir, loadVars, launchVars>>
  BY <1>1, <1>2, <1>4 DEF driverVars, loadVars, InMutex
<1> QED
  BY <1>3, <1>4, DeviceStays DEF Next

-----------------------------------------------------------------------------
(* The kernel class of an MLU *)

\* The numbers of warps a compiler writes are powers of two, and divide the number of
\* values of an unsigned: the product of a grid and its warps still divides into
\* warps when it wraps around.
WarpsDivide == \A d \in Dirs : Unsigned % Compiled[d].warps = 0

Divides(w) == w \in Nat \ {0} /\ Unsigned % w = 0

\* What the readers of an MLU have read, and what its cache holds.
WarpsAreCompiled ==
  build = "mlu" => /\ \A t \in Threads : Divides(meta[t].warps)
                   /\ \A d \in Dirs : cache[d] # None => Divides(cache[d].meta.warps)

\* n % w = 0 is divisibility.
LEMMA Quotient ==
  ASSUME NEW n \in Nat, NEW w \in Nat \ {0}
  PROVE  n \div w \in Nat /\ n % w \in Nat /\ n = w * (n \div w) + (n % w) /\ n % w < w
<1>1. n \div w \in Int
  OBVIOUS
<1>2. n % w \in Nat
  OBVIOUS
<1>3. n % w < w
  OBVIOUS
<1>4. n = w * (n \div w) + (n % w)
  OBVIOUS
<1>5. n \div w >= 0
  OBVIOUS
<1> QED
  BY <1>1, <1>2, <1>3, <1>4, <1>5

LEMMA MultipleDivides ==
  ASSUME NEW n \in Nat, NEW w \in Nat \ {0}, NEW k \in Int, n = w * k
  PROVE  n % w = 0
<1> DEFINE q == n \div w
           r == n % w
<1>1. q \in Nat /\ r \in Nat /\ n = w * q + r /\ r < w
  BY Quotient
<1> HIDE DEF q, r
<1>2. r = w * (k - q)
  BY <1>1
<1>3. CASE k - q <= 0
  <2>1. w * (k - q) <= 0
    BY <1>1, <1>3
  <2> QED
    BY <1>1, <1>2, <2>1 DEF r
<1>4. CASE k - q >= 1
  <2>1. w * (k - q) >= w
    BY <1>1, <1>4
  <2> QED
    BY <1>1, <1>2, <2>1
<1> QED
  BY <1>1, <1>3, <1>4

\* Multiplying by the warps in unsigned arithmetic keeps a multiple of them.
LEMMA ProductDivides ==
  ASSUME NEW g \in Nat, NEW w, Divides(w)
  PROVE  AsUnsigned(g * w) \in Nat /\ AsUnsigned(g * w) % w = 0
<1>1. w \in Nat \ {0} /\ Unsigned % w = 0 /\ Unsigned \in Nat \ {0}
  BY BackendsAssumption DEF BackendsAssumption, Divides
<1>2. PICK u \in Nat : Unsigned = w * u
  BY <1>1, Quotient
<1> DEFINE n == g * w
           q == n \div Unsigned
           r == n % Unsigned
<1>3. n \in Nat
  BY <1>1
<1>4. q \in Nat /\ r \in Nat /\ n = Unsigned * q + r
  BY <1>1, <1>3, Quotient
<1>5. r = g * w - (w * u) * q
  BY <1>2, <1>4
<1> HIDE DEF q, r
<1>6. g * w - (w * u) * q = w * (g - u * q)
  BY <1>1, <1>2, <1>4
<1>7. r % w = 0
  BY <1>1, <1>2, <1>4, <1>5, <1>6, MultipleDivides
<1> QED
  BY <1>4, <1>7 DEF r, AsUnsigned

\* What is submitted to an MLU divides into its class.
LEMMA SubmittedDivides ==
  ASSUME Core, WarpsAreCompiled, build = "mlu", NEW t \in Threads, pc[t] = "submit", SubmitMlu(t)
  PROVE  /\ submitted'[t].x % submitted'[t].class = 0
         /\ submitted'[t].x <= MaxGrid \/ submitted'[t].x >= Unsigned \div 2
<1> DEFINE m == Options(t)
           x == AsUnsigned(GridX(t) * m.warps)
<1>1. Divides(m.warps)
  BY LaunchReads DEF WarpsAreCompiled, Options, Core, TypeOK
<1>2. GridX(t) \in Nat
  BY DEF GridX, Core, TypeOK
<1>3. x \in Nat /\ x % m.warps = 0
  BY <1>1, <1>2, ProductDivides
<1>4. /\ AsInt(x) <= MaxGrid
      /\ submitted'[t].x = x /\ submitted'[t].class = KernelClass(x, GridY(t), m)
  BY DEF SubmitMlu, Core, TypeOK
<1> HIDE DEF x, m
<1>5. x % KernelClass(x, GridY(t), m) = 0
  BY <1>3 DEF KernelClass
<1>6. Unsigned \div 2 \in Nat /\ MaxGrid \in Nat /\ Unsigned \in Nat
  BY BackendsAssumption DEF BackendsAssumption
<1>7. x <= MaxGrid \/ x >= Unsigned \div 2
  BY <1>3, <1>4, <1>6 DEF AsInt
<1> QED
  BY <1>4, <1>5, <1>7

LEMMA ReadDivides ==
  ASSUME WarpsDivide, NEW d \in Dirs
  PROVE  Divides(MluMetadata(d).warps) /\ Divides(Defaults.warps)
<1>1. Compiled[d].warps \in Nat \ {0} /\ Unsigned \in Nat
  BY BackendsAssumption DEF BackendsAssumption
<1>2. Divides(Compiled[d].warps)
  BY <1>1 DEF Divides, WarpsDivide
<1>3. Divides(1) /\ Defaults.warps = 1
  BY <1>1 DEF Divides, Defaults
<1> QED
  BY <1>2, <1>3 DEF MluMetadata, Defaults

LEMMA MluLaunch == Hosts["mlu"].launch = "mlu"
BY DEF Hosts, MluHost

\* An MLU reads the metadata of its own compiler only.
LEMMA MluReads ==
  ASSUME Core, build = "mlu", NEW t \in Threads, ReadMetadata(t)
  PROVE  meta' = [meta EXCEPT ![t] = MluMetadata(dir[t])]
<1>1. /\ Loads["mlu"].steps[1] = "mlu metadata" /\ Loads["mlu"].steps[2] = "need arch"
      /\ Loads["mlu"].steps[3] = "device arch" /\ Loads["mlu"].steps[4] = "load"
      /\ Loads["mlu"].steps[5] = "function" /\ Loads["mlu"].steps[6] = "publish"
  BY DEF Loads, MluLoad
<1>2. Len(Loads["mlu"].steps) = 6
  BY DEF Loads, MluLoad
<1>3. \A j \in 1 .. 6 : Loads["mlu"].steps[j] \notin {"gpu metadata", "hcu metadata", "npu metadata"}
  <2>1. \A j \in 1 .. 6 : j \in {1, 2, 3, 4, 5, 6}
    OBVIOUS
  <2> QED
    BY <1>1, <2>1
<1>4. pc[t] = "loading"
  BY DEF ReadMetadata, At
<1>5. step[t] \in 1 .. 6
  BY <1>2, <1>4 DEF Core, LoadIsPrivate, InMutex
<1>6. ~At(t, "gpu metadata") /\ ~At(t, "hcu metadata") /\ ~At(t, "npu metadata")
  BY <1>3, <1>5 DEF At
<1> QED
  BY <1>6 DEF ReadMetadata

LEMMA MetaStays ==
  ASSUME NEW t \in Threads, LaunchStep(t), ~ReadMetadata(t), ~FindModule(t)
  PROVE  UNCHANGED meta
BY DEF LaunchStep, Begin, Ask, LoadModule, MakeStub, RegisterFunction, PublishModule,
  LoadThrows, GetSharedMemory, PrepareLaunch, PrepareThrows, Submit, AllocateWorkspace, LaunchNpu,
  RegisterCleanup, InLoad, loadVars

LEMMA WarpsNext ==
  ASSUME WarpsDivide, Core, WarpsAreCompiled, [Next]_vars
  PROVE  WarpsAreCompiled'
<1> SUFFICES ASSUME build = "mlu"
             PROVE  /\ \A u \in Threads : Divides(meta'[u].warps)
                    /\ \A d \in Dirs : cache'[d] # None => Divides(cache'[d].meta.warps)
  BY BuildStays DEF WarpsAreCompiled, Divides
<1>1. /\ \A u \in Threads : Divides(meta[u].warps)
      /\ \A d \in Dirs : cache[d] # None => Divides(cache[d].meta.warps)
  BY DEF WarpsAreCompiled
<1>2. TypeOK
  BY DEF Core
<1>3. ASSUME NEW t \in Threads, LaunchStep(t)
      PROVE  /\ \A u \in Threads : Divides(meta'[u].warps)
             /\ \A d \in Dirs : cache'[d] # None => Divides(cache'[d].meta.warps)
  <2>1. \A u \in Threads : Divides(meta'[u].warps)
    <3>1. CASE ReadMetadata(t)
      <4>1. meta' = [meta EXCEPT ![t] = MluMetadata(dir[t])]
        BY <3>1, MluReads
      <4>2. Divides(MluMetadata(dir[t]).warps)
        BY <1>2, ReadDivides DEF TypeOK
      <4> QED
        BY <1>1, <1>2, <4>1, <4>2 DEF TypeOK
    <3>2. CASE FindModule(t)
      <4>1. meta' = meta \/ meta' = [meta EXCEPT ![t] = Defaults]
        BY <3>2 DEF FindModule, loadVars
      <4>2. Divides(Defaults.warps)
        BY <1>2, ReadDivides DEF TypeOK
      <4> QED
        BY <1>1, <1>2, <4>1, <4>2 DEF TypeOK
    <3>3. CASE ~ReadMetadata(t) /\ ~FindModule(t)
      BY <1>1, <1>3, <3>3, MetaStays
    <3> QED
      BY <3>1, <3>2, <3>3
  <2>2. ASSUME NEW d \in Dirs, cache'[d] # None
        PROVE  Divides(cache'[d].meta.warps)
    <3>1. CASE PublishModule(t)
      <4>1. CASE d = dir[t]
        <5>1. cache'[d].meta = meta[t]
          BY <1>2, <3>1, <4>1 DEF TypeOK, PublishModule
        <5> QED
          BY <1>1, <5>1
      <4>2. CASE d # dir[t]
        <5>1. cache'[d] = cache[d]
          BY <1>2, <3>1, <4>2 DEF TypeOK, PublishModule
        <5> QED
          BY <1>1, <2>2, <5>1
      <4> QED
        BY <4>1, <4>2
    <3>2. CASE ~PublishModule(t)
      BY <1>1, <1>3, <2>2, <3>2, CacheStays
    <3> QED
      BY <3>1, <3>2
  <2> QED
    BY <2>1, <2>2
<1> QED
  BY <1>1, <1>3, DeviceStays DEF Next, cacheVars, loadVars

LEMMA ClassNext ==
  ASSUME Core, Work, WarpsAreCompiled, ClassDividesGrid, [Next]_vars
  PROVE  ClassDividesGrid'
<1> DEFINE Fits(s) == /\ s.x % s.class = 0
                      /\ s.x <= MaxGrid \/ s.x >= Unsigned \div 2
<1> SUFFICES ASSUME build = "mlu"
             PROVE  \A u \in Threads : submitted'[u] # None => Fits(submitted'[u])
  BY BuildStays DEF ClassDividesGrid
<1>1. \A u \in Threads : submitted[u] # None => Fits(submitted[u])
  BY DEF ClassDividesGrid
<1>2. TypeOK
  BY DEF Core
<1>3. ASSUME NEW t \in Threads, LaunchStep(t)
      PROVE  \A u \in Threads : submitted'[u] # None => Fits(submitted'[u])
  <2>1. \A u \in Threads \ {t} : submitted'[u] = submitted[u]
    BY <1>2, <1>3, OthersStay
  <2>2. submitted'[t] # None => Fits(submitted'[t])
    <3>1. CASE Begin(t)
      BY <1>2, <3>1 DEF TypeOK, Begin
    <3>2. CASE Submit(t)
      <4>1. CASE SubmitMlu(t)
        <5>1. pc[t] = "submit"
          BY <3>2 DEF Submit
        <5> QED
          BY <4>1, <5>1, SubmittedDivides
      <4>2. CASE ~SubmitMlu(t)
        <5>1. UNCHANGED submitted
          BY <3>2, <4>2, MluLaunch DEF Submit, SubmitPlain
        <5> QED
          BY <1>1, <5>1
      <4> QED
        BY <4>1, <4>2
    <3>3. CASE LaunchNpu(t)
      <4>1. pc[t] = "launch" /\ build # "npu"
        BY <3>3 DEF LaunchNpu
      <4> QED
        BY <4>1 DEF Work, WorkspacesApart
    <3>4. CASE ~Begin(t) /\ ~Submit(t) /\ ~LaunchNpu(t)
      <4>1. UNCHANGED submitted
        BY <1>3, <3>4 DEF LaunchStep, FindModule, ReadMetadata, Ask, LoadModule, MakeStub,
          RegisterFunction, PublishModule, LoadThrows, GetSharedMemory, PrepareLaunch,
          PrepareThrows, AllocateWorkspace, RegisterCleanup, InLoad, launchVars
      <4> QED
        BY <1>1, <4>1
    <3> QED
      BY <3>1, <3>2, <3>3, <3>4
  <2> HIDE DEF Fits
  <2> QED
    BY <1>1, <2>1, <2>2
<1> QED
  BY <1>1, <1>3, DeviceStays DEF Next, launchVars

-----------------------------------------------------------------------------
(* The specification *)

Inv ==
  /\ Core
  /\ Work
  /\ MetadataAreCompiled /\ LaunchUsesCompiledSize
  /\ FailedLoadsLeaveNothing

LEMMA InvInit == Init => Inv
<1> SUFFICES ASSUME Init
             PROVE  Inv
  OBVIOUS
<1> USE DEF Init
<1>1. /\ MaxModules \in Nat /\ MaxTouches \in Nat /\ MaxWork \in Nat
      /\ None \notin Threads /\ Dirs # {} /\ None \notin Nat
  BY BackendsAssumption DEF BackendsAssumption
<1>2. TypeOK
  <2>1. /\ build \in Builds /\ json \in [Dirs -> Files] /\ touches \in 0 .. MaxTouches
        /\ live \in [Ids -> Dirs \cup {None}]
        /\ registered \in [0 .. MaxModules -> Ids \cup {None}] /\ names \in 0 .. MaxModules
    BY <1>1 DEF Files
  <2>2. /\ cache \in [Dirs -> Entry \cup {None}] /\ mutex \in Threads \cup {None}
        /\ handles \in [Threads -> [Dirs -> Nums]]
    BY DEF Nums
  <2>3. /\ pc \in [Threads -> {"idle", "load", "loading", "shared", "prepare", "submit",
                               "launch", "callback"}]
        /\ step \in [Threads -> 1 .. 7] /\ module \in [Threads -> Ids \cup {None}]
        /\ stub \in [Threads -> Nat] /\ shared \in [Threads -> Nat]
        /\ grid \in [Threads -> Nat \X Nat] /\ work \in [Threads -> Workspaces \cup {None}]
    OBVIOUS
  <2>4. dir \in [Threads -> Dirs]
    BY <1>1
  <2>5. meta \in [Threads -> Metadata]
    BY <1>1, MetadataType
  <2>6. /\ submitted \in [Threads -> Submission \cup {None}]
        /\ memory \in [Workspaces -> Nums] /\ running \in [Workspaces -> Nums]
        /\ cleanup \in SUBSET Workspaces /\ leaked \in SUBSET Workspaces
    BY DEF Nums
  <2> QED
    BY <2>1, <2>2, <2>3, <2>4, <2>5, <2>6 DEF TypeOK
<1>3. MutexHeld /\ LoadIsPrivate /\ LaunchersHaveHandles
  BY DEF MutexHeld, LoadIsPrivate, LaunchersHaveHandles, InMutex
<1>4. HandlesAreCounted /\ HandlesLeadHome
  <2>1. \A i : i \notin 1 .. 0
    OBVIOUS
  <2> QED
    BY <2>1 DEF HandlesAreCounted, HandlesLeadHome
<1>5. Work
  BY DEF Work, WorkspacesApart, RunningHasWorkspace, WorkspacesHaveOwner
<1>6. MetadataAreCompiled /\ LaunchUsesCompiledSize
  BY DEF MetadataAreCompiled, LaunchUsesCompiledSize
<1>7. FailedLoadsLeaveNothing
  BY DEF FailedLoadsLeaveNothing
<1> QED
  BY <1>2, <1>3, <1>4, <1>5, <1>6, <1>7 DEF Inv, Core

LEMMA InvNext == Inv /\ [Next]_vars => Inv'
BY CoreNext, WorkNext, CompiledNext, LoadedNext DEF Inv, Work

LEMMA InvAlways == Spec => []Inv
BY InvInit, InvNext, PTL DEF Spec

\* Every reachable state satisfies the invariant of the module, for every backend:
\* types, and who owns what while a kernel is loaded and launched.
THEOREM BackendsAreSound == Spec => []BackendsInv
<1>1. Inv => BackendsInv
  BY DEF Inv, Core, Work, BackendsInv
<1> QED
  BY <1>1, InvAlways, PTL

\* A handle leads to the artifact it was loaded for, on the NPU through a stub that
\* no other registration takes over, and no entry in use is replaced.
THEOREM HandlesLeadHomeAlways == Spec => []HandlesLeadHome
<1>1. Inv => HandlesLeadHome
  BY DEF Inv, Core
<1> QED
  BY <1>1, InvAlways, PTL

\* CUDA, Ix, HCU and MLU launch with the shared memory the compiler asked for,
\* whatever happens to the files of the artifact at any time.
THEOREM CompiledSizeIsUsed == Spec => []LaunchUsesCompiledSize
<1>1. Inv => LaunchUsesCompiledSize
  BY DEF Inv
<1> QED
  BY <1>1, InvAlways, PTL

\* A load that fails on a GCU leaves no module in the driver.
THEOREM NothingIsLeftBehind == Spec => []FailedLoadsLeaveNothing
<1>1. Inv => FailedLoadsLeaveNothing
  BY DEF Inv
<1> QED
  BY <1>1, InvAlways, PTL

\* A kernel that runs on an NPU owns allocated memory for every program of its grid,
\* and no failure between allocation and launch loses a workspace: however large the
\* grid is, though the number of its programs wraps around.
THEOREM WorkspacesLast == Spec => []WorkspacesAreSafe
<1>1. Inv => WorkspacesAreSafe
  BY DEF Inv, Work, WorkspacesAreSafe
<1> QED
  BY <1>1, InvAlways, PTL

\* Whatever the grid of an MLU launch is, also where its product with the warps wraps
\* around, it reaches the device in a kernel class that divides it and within the
\* limit that check_grid() reads, as long as compilers write numbers of warps that
\* divide the range of an unsigned, as powers of two do.
THEOREM ClassesDivide == WarpsDivide /\ Spec => []ClassDividesGrid
<1> SUFFICES ASSUME WarpsDivide
             PROVE  Spec => []ClassDividesGrid
  OBVIOUS
<1>1. Init => WarpsAreCompiled /\ ClassDividesGrid
  <2> SUFFICES ASSUME Init
               PROVE  WarpsAreCompiled /\ ClassDividesGrid
    OBVIOUS
  <2>1. Dirs # {}
    BY BackendsAssumption DEF BackendsAssumption
  <2>2. Divides(Defaults.warps)
    BY <2>1, ReadDivides
  <2>3. WarpsAreCompiled
    BY <2>2 DEF Init, WarpsAreCompiled
  <2> QED
    BY <2>3 DEF Init, ClassDividesGrid
<1>2. Inv /\ WarpsAreCompiled /\ ClassDividesGrid /\ [Next]_vars
        => (WarpsAreCompiled /\ ClassDividesGrid)'
  BY WarpsNext, ClassNext DEF Inv
<1> QED
  BY <1>1, <1>2, InvAlways, PTL DEF Spec
=============================================================================
