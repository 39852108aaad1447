SPECIFICATION Spec
CONSTANTS
  t1 = t1
  t2 = t2
  t3 = t3
  gemm = gemm
  gemmAtSource = gemmAtSource
  wide = wide
  torch = torch
  None = None
  Raised = Raised
  FrozenMiss = FrozenMiss
  BadWidth = BadWidth
  Threads = {t1, t2, t3}
  Kernels = {gemm}
  Cells = {gemm}
  Keys = {5, 16}
  Norms <- AllKeys
  Schemas <- OneSchema
  Norm <- MCNorm
  Resolvers = {torch}
  Identity <- MCIdentity
  Files <- KernelFiles
  MaxResolves = 3
  MaxLoads = 1
  MaxFreezes = 0
SYMMETRY Symmetry
VIEW FlightState
INVARIANTS OneFlightPerToken WaitersHaveOwner OwnersAnswerIsCurrent
PROPERTIES WaitersAnswerIsRecent ReadersSeeCache
