CONSTANTS
  Threads = {t1, t2}
  Workspaces = {w1, w2}
  Insts = {1, 2, 3, 4}
  Gates = {1, 2}
  Budget = 1
  Calls = {"get", "read", "pass", "evict", "close", "walk", "stats"}
  t1 = t1
  t2 = t2
  w1 = w1
  w2 = w2
SPECIFICATION Spec
SYMMETRY Symmetry
INVARIANTS
  TypeOK
  PoolSafe
  OneUsableShard
  HeldIsMapped
