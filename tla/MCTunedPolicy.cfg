SPECIFICATION FairSpec
CONSTANTS
  t1 = t1
  t2 = t2
  t3 = t3
  gemm = gemm
  gemmAtSource = gemmAtSource
  wide = wide
  torch = torch
  None = None
  Raised = Raised
  FrozenMiss = FrozenMiss
  BadWidth = BadWidth
  Threads = {t1, t2}
  Kernels = {gemm}
  Cells = {gemm, gemmAtSource}
  Keys = {5, 8}
  Norms <- BucketKeys
  Schemas <- WideSchemas
  Norm <- MCNorm
  Resolvers = {torch}
  Identity <- ScopedIdentity
  Files <- PolicyFiles
  MaxResolves = 2
  MaxLoads = 1
  MaxFreezes = 1
VIEW AnswerState
INVARIANTS TableInv AnswerFitsKey
PROPERTIES ResolveReturns
