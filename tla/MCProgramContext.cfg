SPECIFICATION Spec
CONSTANTS
  t1 = t1
  t2 = t2
  t3 = t3
  add = add
  sum = sum
  d0 = d0
  d1 = d1
  sm80 = sm80
  None = None
  Threads = {t1, t2}
  Functions = {add}
  Programs = {sum}
  Devices = {d0, d1}
  Arch <- SameArch
  MaxCalls = 3
  MaxFreezes = 1
SYMMETRY Symmetry
INVARIANTS PreparedRunsOnItsDevice
