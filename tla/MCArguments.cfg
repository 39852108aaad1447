SPECIFICATION Spec
CONSTANTS
  float32 = float32
  float16 = float16
  callee = callee
  i32 = i32
  aligned = aligned
  nullopt = nullopt
  pair = pair
  number = number
  open = open
  Words = {float32, float16, callee, i32, aligned, nullopt, pair, number, open}
  Spelling <- MCSpelling
  Garbage = Garbage
  None = None
  Builds = {"cuda", "hcu", "gcu", "npu"}
  Literals = {TRUE, FALSE}
  Kernels <- MCKernels
  ByteBits = 2
  Reserved = {"num_warps", "num_stages"}
INVARIANTS TypeOK ArgumentsArrive KernelSuitsCall RefusalsAreDeserved
CHECK_DEADLOCK FALSE
