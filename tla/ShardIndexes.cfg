CONSTANTS
  Threads = {t1, t2}
  t1 = t1
  t2 = t2
  Docs = {1, 2}
  Calls = {"insert", "delete", "snapshot", "demote", "compact", "fsync"}
  Refusing = TRUE
  MaxSeq = 3
  MaxCrashes = 2
SPECIFICATION Spec
SYMMETRY Symmetry
INVARIANTS
  TypeOK
  IndexesAgree
  SavedSound
PROPERTY OpenRepairsUnsaved
