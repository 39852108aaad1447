SPECIFICATION FairSpec
CONSTANTS
  t1 = t1
  t2 = t2
  t3 = t3
  h2 = h2
  a5 = a5
  h1 = h1
  a1 = a1
  a2 = a2
  a3 = a3
  a4 = a4
  None = None
  Threads = {t1, t2}
  Launchers = {t1}
  Hooks = {h1}
  Addresses = {a1, a2, a3, a4}
VIEW LiveState
INVARIANTS LaunchRunsOneState HooksInv
PROPERTIES SettersAreAtomic QuietSettersReturn
