SPECIFICATION Spec
CONSTANTS
  t1 = t1
  t2 = t2
  d1 = d1
  d2 = d2
  None = None
  Threads = {t1, t2}
  Dirs = {d1, d2}
  Builds = {"cuda", "ix", "hcu", "mlu", "musa", "maca", "gcu", "npu"}
  Compiled <- MCCompiled
  Grids <- MCGrids
  Unsigned = 16
  Cores = 2
  Clusters = 3
  MaxGrid = 5
  MaxModules = 2
  MaxTouches = 1
  MaxWork = 2
SYMMETRY Symmetry
VIEW LiveState
INVARIANTS BackendsInv HandlesLeadHome LaunchUsesCompiledSize FailedLoadsLeaveNothing WorkspacesAreSafe ClassDividesGrid
