SPECIFICATION Spec
CONSTANTS
  t1 = t1
  t2 = t2
  None = None
  Threads = {t1, t2}
  Width = 8
  DeviceNames <- MCDeviceNames
  Backend = "CUDA"
  EnvLists <- MCEnvLists
  MaxColumns = 4
  MinBuckets = 2
  HashRange = 6
  DTypeHash <- MCDTypeHash
SYMMETRY Symmetry
INVARIANTS TypeOK FindIsLookup FilesAreJudged QuietTableIsEnvTable
CHECK_DEADLOCK FALSE
