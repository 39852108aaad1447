SPECIFICATION Spec
CONSTANTS
  t1 = t1
  t2 = t2
  t3 = t3
  gemm = gemm
  gemmAtSource = gemmAtSource
  wide = wide
  torch = torch
  None = None
  Raised = Raised
  FrozenMiss = FrozenMiss
  BadWidth = BadWidth
  Threads = {t1, t2}
  Kernels = {gemm}
  Cells = {gemm}
  Keys = {5}
  Norms <- BucketKeys
  Schemas <- OneSchema
  Norm <- MCNorm
  Resolvers = {torch}
  Identity <- MCIdentity
  Files = {}
  MaxResolves = 2
  MaxLoads = 0
  MaxFreezes = 1
SYMMETRY Symmetry
VIEW FlightState
PROPERTY NotCalledWhileFrozen
