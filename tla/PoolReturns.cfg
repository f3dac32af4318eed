CONSTANTS
  Threads = {t1, t2}
  Workspaces = {w1, w2}
  Insts = {1, 2, 3, 4}
  Gates = {1, 2}
  Budget = 0
  Calls = {"get", "pass"}
  t1 = t1
  t2 = t2
  w1 = w1
  w2 = w2
SPECIFICATION FairSpec
PROPERTIES
  OpensServed
  CallsReturn
