SPECIFICATION Spec
CONSTANTS
  t1 = t1
  t2 = t2
  k1 = k1
  k2 = k2
  None = None
  Threads = {t1, t2}
  Natives <- MCNatives
  Tokens = {k1, k2}
  Resolvers = {"torch", "plain", "reentrant"}
  MaxTrials = 2
VIEW LiveState
CHECK_DEADLOCK FALSE
INVARIANTS BridgeInv PythonKnowsBackend TrialsUseCopies StrangeSelectionsLeaveNothing
PROPERTIES LockIsBalanced CallsReturn
