CONSTANTS
  Threads = {t1, t2}
  t1 = t1
  t2 = t2
  Docs = {1, 2}
  Calls = {"insert", "demote", "fsync"}
  Refusing = FALSE
  MaxSeq = 3
  MaxCrashes = 0
SPECIFICATION Spec
INVARIANT MappedIsThisLog
