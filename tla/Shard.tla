-------------------------------- MODULE Shard --------------------------------
(***************************************************************************)
(* One workspace's shard: the record store and the two vector indexes over *)
(* it, behind one read-write lock (embedding-store: shard.rs, and the file *)
(* side of vector_index.rs).  The question is whether a search sees the    *)
(* documents the log holds: while writes, snapshots, demotions and         *)
(* compactions of several threads interleave, and across crashes, after    *)
(* which open has to tell index files it may trust from those it may not.  *)
(*                                                                         *)
(* The store is taken as what module Store shows it to be: an operation is *)
(* there or not after a crash, and a power loss takes back operations done *)
(* since the last sync.  A write takes one sequence number, which also     *)
(* names the version of the document it leaves.  An index maps a document  *)
(* to the version of the vectors it has for it, 0 for none; all splits of  *)
(* a document are one entry of the split index, its summaries one of the   *)
(* summary index.                                                          *)
(*                                                                         *)
(* A thread that is inside a section under the write lock is the holder;   *)
(* within one the steps are those that change a file, so that a crash can  *)
(* fall between any two.                                                   *)
(***************************************************************************)
EXTENDS Integers, FiniteSets

CONSTANTS Threads, Docs,
          Calls,       \* which operations the callers use
          Refusing,    \* whether an index may refuse an update
          MaxSeq,      \* bound: sequence numbers handed out
          MaxCrashes   \* bound: crashes and power losses together

Nobody == "nobody"

(* A thread is not the mark of a free lock, and there is something to store. *)
ASSUME ShardAssumption ==
  /\ Nobody \notin Threads /\ Docs # {}
  /\ MaxSeq \in Nat /\ MaxCrashes \in Nat
  /\ Refusing \in BOOLEAN
  /\ Calls \subseteq {"insert", "delete", "snapshot", "demote", "compact", "fsync"}

VARIABLES
  docs,     \* Store.maps: document -> version, 0 when absent
  nextSeq,  \* Manifest.next_seq
  snapSeq,  \* Manifest.snapshot_seq
  dead,     \* the log holds records compaction would drop
  since,    \* what the log may be after a power loss: since the last sync
  idx,      \* kind -> the index as searches see it
  view,     \* kind -> VectorIndex.viewed
  file,     \* kind -> the saved index, or NoFile
  state,    \* indexes.state: the sequence it names, or NoState
  boot,     \* "up", "down", or the next thing an open removes
  hold,     \* who has the write lock
  at,       \* thread -> what it is doing
  crashes,  \* bound counter
  failed    \* history: the indexes are the log's; one refused an update or an older
            \* file was mapped over it; or a save began after that

store == <<docs, nextSeq, snapSeq, dead, since>>
indexes == <<idx, view>>
saved == <<file, state>>
vars == <<docs, nextSeq, snapSeq, dead, since, idx, view, file, state, boot, hold, at,
          crashes, failed>>

Kinds == {"splits", "summaries"}
Empty == [d \in Docs |-> 0]
NoFile == [d \in Docs |-> -1]
NoState == -1
Idle == [step |-> "idle"]

Log == [docs |-> docs, next |-> nextSeq]

Init ==
  /\ docs = Empty /\ nextSeq = 1 /\ snapSeq = 0 /\ dead = FALSE
  /\ since = {Log}
  /\ idx = [k \in Kinds |-> Empty]
  /\ view = [k \in Kinds |-> FALSE]
  /\ file = [k \in Kinds |-> NoFile]
  /\ state = NoState
  /\ boot = "up"
  /\ hold = Nobody
  /\ at = [t \in Threads |-> Idle]
  /\ crashes = 0
  /\ failed = "none"

-----------------------------------------------------------------------------
(* The lock *)

(* The thread, at the given step, enters a section under the write lock. *)
Enters(t, step) == boot = "up" /\ hold = Nobody /\ at[t].step = step
Inside(t, step) == boot = "up" /\ hold = t /\ at[t].step = step

Goto(t, there) == at' = [at EXCEPT ![t] = there]
Keep(t, there) == hold' = t /\ Goto(t, there)
Release(t, there) == hold' = Nobody /\ Goto(t, there)

-----------------------------------------------------------------------------
(* Writing *)

(* ShardInner::promote reads a mapped index back from its file. *)
Promoted == [k \in Kinds |-> IF view[k] THEN file[k] ELSE idx[k]]

(* The write that ends in promote: a document that does not validate, an   *)
(* append that fails and is rewound, a load of the second index that fails.*)
PromoteOnly(t) ==
  /\ Enters(t, "idle")
  /\ \E k \in Kinds : view[k]
  /\ \E back \in {{"splits"}, Kinds} :
       /\ idx' = [k \in Kinds |-> IF k \in back THEN Promoted[k] ELSE idx[k]]
       /\ view' = [k \in Kinds |-> view[k] /\ k \notin back]
  /\ UNCHANGED <<store, saved, boot, hold, at, crashes, failed>>

(* insert and delete up to the store's answer. *)
StoreWrite(t, d, version) ==
  /\ Enters(t, "idle")
  /\ nextSeq <= MaxSeq
  /\ idx' = Promoted
  /\ view' = [k \in Kinds |-> FALSE]
  /\ docs' = [docs EXCEPT ![d] = version]
  /\ nextSeq' = nextSeq + 1
  /\ dead' = (dead \/ docs[d] # 0)
  /\ since' = since \cup {[docs |-> docs', next |-> nextSeq']}
  /\ Keep(t, [step |-> "splits", doc |-> d])
  /\ UNCHANGED <<snapSeq, saved, boot, crashes, failed>>

Insert(t, d) == StoreWrite(t, d, nextSeq)

(* A document that is not there is left alone. *)
Delete(t, d) == docs[d] # 0 /\ StoreWrite(t, d, 0)

(* The rest of insert and delete: one index, then the other. *)
IndexSplits(t) ==
  /\ Inside(t, "splits")
  /\ idx' = [idx EXCEPT !["splits"][at[t].doc] = docs[at[t].doc]]
  /\ Keep(t, [step |-> "summaries", doc |-> at[t].doc])
  /\ UNCHANGED <<store, view, saved, boot, crashes, failed>>

MutIndexSummaries(t) ==
  /\ Inside(t, "summaries")
  /\ IF docs[at[t].doc] = 0 THEN idx' = idx
     ELSE idx' = [idx EXCEPT !["summaries"][at[t].doc] = docs[at[t].doc]]
  /\ Release(t, Idle)
  /\ UNCHANGED <<store, view, saved, boot, crashes, failed>>
IndexSummaries(t) ==
  /\ Inside(t, "summaries")
  /\ idx' = [idx EXCEPT !["summaries"][at[t].doc] = docs[at[t].doc]]
  /\ Release(t, Idle)
  /\ UNCHANGED <<store, view, saved, boot, crashes, failed>>

(* An index refuses a remove, a reserve or an add: insert and delete return *)
(* the error and the process goes on.  insert takes the old vectors out of  *)
(* both indexes before it adds to either; a delete reaches the summaries    *)
(* last.  One update fails in a behaviour.                                  *)
IndexFails(t) ==
  /\ Refusing /\ failed = "none"
  /\ \E gone \in {{}, {"splits"}, {"summaries"}, Kinds} :
       /\ \/ Inside(t, "splits") /\ ("summaries" \in gone => "splits" \in gone)
          \/ /\ Inside(t, "summaries")
             /\ "splits" \notin gone
             /\ docs[at[t].doc] # 0 => "summaries" \in gone
       /\ idx' = [k \in Kinds |->
                   IF k \in gone THEN [idx[k] EXCEPT ![at[t].doc] = 0] ELSE idx[k]]
  /\ Release(t, Idle)
  /\ failed' = "failed"
  /\ UNCHANGED <<store, view, saved, boot, crashes>>

-----------------------------------------------------------------------------
(* Snapshot and demote *)

(* Where the thread goes when snapshot returns: demote has a second section.*)
AfterSnapshot(t, why) ==
  Release(t, IF why = "demote" THEN [step |-> "map"] ELSE Idle)

(* The two files and the state file are left alone when the manifest       *)
(* already names this sequence and there is some state file.               *)
NothingNew == nextSeq - 1 = snapSeq /\ state # NoState

(* Shard::snapshot, and demote as far as its snapshot: sync, then the      *)
(* early return or the first file.                                         *)
Snapshot(t, why) ==
  /\ Enters(t, IF why = "compact" THEN "resnapshot" ELSE "idle")
  /\ since' = {Log}
  /\ IF NothingNew THEN AfterSnapshot(t, why)
     ELSE Keep(t, [step |-> "saveSplits", why |-> why])
  /\ UNCHANGED <<docs, nextSeq, snapSeq, dead, indexes, saved, boot, crashes, failed>>

SaveSplits(t) ==
  /\ Inside(t, "saveSplits")
  /\ file' = [file EXCEPT !["splits"] = idx["splits"]]
  /\ Keep(t, [step |-> "saveSummaries", why |-> at[t].why])
  /\ failed' = IF failed = "failed" THEN "saved" ELSE failed
  /\ UNCHANGED <<store, indexes, state, boot, crashes>>

SaveSummaries(t) ==
  /\ Inside(t, "saveSummaries")
  /\ file' = [file EXCEPT !["summaries"] = idx["summaries"]]
  /\ Keep(t, [step |-> "saveState", why |-> at[t].why])
  /\ UNCHANGED <<store, indexes, state, boot, crashes, failed>>

SaveState(t) ==
  /\ Inside(t, "saveState")
  /\ state' = nextSeq - 1
  /\ Keep(t, [step |-> "saveMeta", why |-> at[t].why])
  /\ UNCHANGED <<store, indexes, file, boot, crashes, failed>>

(* Store::snapshot_meta. *)
MutSaveMeta(t) ==
  /\ Inside(t, "saveMeta")
  /\ snapSeq' = nextSeq
  /\ AfterSnapshot(t, at[t].why)
  /\ UNCHANGED <<docs, nextSeq, dead, since, indexes, saved, boot, crashes, failed>>
SaveMeta(t) ==
  /\ Inside(t, "saveMeta")
  /\ snapSeq' = nextSeq - 1
  /\ AfterSnapshot(t, at[t].why)
  /\ UNCHANGED <<docs, nextSeq, dead, since, indexes, saved, boot, crashes, failed>>

(* One of the saves fails: the error is returned, demote does not go on.   *)
SaveFails(t) ==
  /\ \E s \in {"saveSplits", "saveSummaries", "saveState", "saveMeta"} : Inside(t, s)
  /\ Release(t, Idle)
  /\ UNCHANGED <<store, indexes, saved, boot, crashes, failed>>

(* demote's second section maps the files that are there by then; the      *)
(* second view may fail.  Files older than the log leave the indexes as an *)
(* update that failed would.                                               *)
DemoteMap(t) ==
  /\ Enters(t, "map")
  /\ IF \A k \in Kinds : view[k] THEN UNCHANGED indexes
     ELSE \E mapped \in {{"splits"}, Kinds} :
            /\ \A k \in mapped : file[k] # NoFile
            /\ idx' = [k \in Kinds |-> IF k \in mapped THEN file[k] ELSE idx[k]]
            /\ view' = [k \in Kinds |-> view[k] \/ k \in mapped]
  /\ Goto(t, Idle)
  /\ failed' = IF failed = "none" /\ idx' # idx THEN "failed" ELSE failed
  /\ UNCHANGED <<store, saved, boot, hold, crashes>>

(* There is no file to map. *)
DemoteFails(t) ==
  /\ Enters(t, "map")
  /\ Goto(t, Idle)
  /\ UNCHANGED <<store, indexes, saved, boot, hold, crashes, failed>>

Fsync(t) ==
  /\ Enters(t, "idle")
  /\ since' = {Log}
  /\ UNCHANGED <<docs, nextSeq, snapSeq, dead, indexes, saved, boot, hold, at, crashes, failed>>

-----------------------------------------------------------------------------
(* compact_if_needed: the store's compaction unpublishes its snapshot,     *)
(* rewrites the sealed segments, and publishes a new snapshot, all in one  *)
(* section; Shard::snapshot follows in another.                            *)

Compact(t) ==
  /\ Enters(t, "idle")
  /\ dead
  /\ idx' = Promoted
  /\ view' = [k \in Kinds |-> FALSE]
  /\ snapSeq' = 0
  /\ dead' = FALSE
  /\ Keep(t, [step |-> "compacted"])
  /\ UNCHANGED <<docs, nextSeq, since, saved, boot, crashes, failed>>

CompactMeta(t) ==
  /\ Inside(t, "compacted")
  /\ since' = {Log}
  /\ snapSeq' = nextSeq - 1
  /\ Release(t, [step |-> "resnapshot"])
  /\ UNCHANGED <<docs, nextSeq, dead, indexes, saved, boot, crashes, failed>>

-----------------------------------------------------------------------------
(* Crashing and opening *)

(* The process dies.  An insert may be cut short in the middle of its      *)
(* records: sequence numbers are used up, and a document that was being    *)
(* replaced may be gone.  A crash between the store's meta.snap and its    *)
(* manifest makes the next open discard the snapshot.                      *)
Crash ==
  /\ boot # "down"
  /\ crashes < MaxCrashes
  /\ \/ UNCHANGED <<docs, nextSeq, since>>
     \/ /\ boot = "up" /\ hold = Nobody /\ "insert" \in Calls /\ nextSeq <= MaxSeq
        /\ nextSeq' = nextSeq + 1
        /\ \/ UNCHANGED docs
           \/ \E d \in Docs : docs[d] # 0 /\ docs' = [docs EXCEPT ![d] = 0]
        /\ since' = since \cup {[docs |-> docs', next |-> nextSeq']}
  /\ \/ UNCHANGED snapSeq
     \/ /\ \E t \in Threads : Inside(t, "saveMeta") \/ Inside(t, "compacted")
        /\ snapSeq' = 0
  /\ boot' = "down"
  /\ hold' = Nobody
  /\ at' = [t \in Threads |-> Idle]
  /\ idx' = [k \in Kinds |-> Empty]
  /\ view' = [k \in Kinds |-> FALSE]
  /\ crashes' = crashes + 1
  /\ UNCHANGED <<dead, saved, failed>>

PowerLoss ==
  /\ boot = "down"
  /\ crashes < MaxCrashes
  /\ \E log \in since :
       /\ docs' = log.docs
       /\ nextSeq' = log.next
       /\ since' = {log}
  /\ crashes' = crashes + 1
  /\ UNCHANGED <<snapSeq, dead, indexes, saved, boot, hold, at, failed>>

(* snapshot_is_usable. *)
MutUsable ==
  /\ \A k \in Kinds : file[k] # NoFile
  /\ state # NoState
  /\ snapSeq + 1 = nextSeq
MutUsableTail ==
  /\ \A k \in Kinds : file[k] # NoFile
  /\ state # NoState
  /\ state = snapSeq
Usable ==
  /\ \A k \in Kinds : file[k] # NoFile
  /\ state # NoState
  /\ state = snapSeq
  /\ snapSeq + 1 = nextSeq

Size(f) == Cardinality({d \in Docs : f[d] > 0})

(* open_with reads the saved indexes back, mapped or not ... *)
OpenSaved ==
  /\ boot = "down"
  /\ Usable
  /\ \A k \in Kinds : Size(file[k]) >= Size(docs)
  /\ \E mapped \in BOOLEAN : view' = [k \in Kinds |-> mapped]
  /\ idx' = file
  /\ boot' = "up"
  /\ UNCHANGED <<store, saved, hold, at, crashes, failed>>

(* ... or finds them unusable, unreadable or too small, and removes them,   *)
(* one file after the other.  What it read before it gave up stays in       *)
(* memory.                                                                  *)
OpenDiscard ==
  /\ boot = "down"
  /\ \E read \in SUBSET Kinds :
       /\ read # {} => Usable
       /\ idx' = [k \in Kinds |-> IF k \in read THEN file[k] ELSE Empty]
  /\ file' = [file EXCEPT !["splits"] = NoFile]
  /\ boot' = "summaries"
  /\ UNCHANGED <<store, view, state, hold, at, crashes, failed>>

OpenRemove ==
  /\ \/ /\ boot = "summaries"
        /\ file' = [file EXCEPT !["summaries"] = NoFile]
        /\ boot' = "state"
        /\ UNCHANGED state
     \/ /\ boot = "state"
        /\ state' = NoState
        /\ boot' = "rebuild"
        /\ UNCHANGED file
  /\ UNCHANGED <<store, indexes, hold, at, crashes, failed>>

(* rebuild adds the live records' vectors to both. *)
OpenRebuild ==
  /\ boot = "rebuild"
  /\ idx' = [k \in Kinds |-> [d \in Docs |-> IF docs[d] # 0 THEN docs[d] ELSE idx[k][d]]]
  /\ boot' = "up"
  /\ UNCHANGED <<store, view, saved, hold, at, crashes, failed>>

(* A removal fails, or the index refuses a vector, as it may one it has: *)
(* the open returns an error and a later one starts over.                *)
OpenFails ==
  /\ boot \in {"summaries", "state", "rebuild"}
  /\ idx' = [k \in Kinds |-> Empty]
  /\ boot' = "down"
  /\ UNCHANGED <<store, view, saved, hold, at, crashes, failed>>

-----------------------------------------------------------------------------
Call(t) ==
  \/ PromoteOnly(t)
  \/ "insert" \in Calls /\ \E d \in Docs : Insert(t, d)
  \/ "delete" \in Calls /\ \E d \in Docs : Delete(t, d)
  \/ "snapshot" \in Calls /\ Snapshot(t, "snapshot")
  \/ "demote" \in Calls /\ Snapshot(t, "demote")
  \/ "compact" \in Calls /\ Compact(t)
  \/ "fsync" \in Calls /\ Fsync(t)

Step(t) ==
  \/ IndexSplits(t) \/ IndexSummaries(t) \/ IndexFails(t)
  \/ SaveSplits(t) \/ SaveSummaries(t) \/ SaveState(t) \/ SaveMeta(t) \/ SaveFails(t)
  \/ DemoteMap(t) \/ DemoteFails(t)
  \/ CompactMeta(t) \/ Snapshot(t, "compact")

Restart ==
  \/ Crash \/ PowerLoss
  \/ OpenSaved \/ OpenDiscard \/ OpenRemove \/ OpenRebuild \/ OpenFails

Next == Restart \/ \E t \in Threads : Call(t) \/ Step(t)

Spec == Init /\ [][Next]_vars

-----------------------------------------------------------------------------
(* Properties *)

Versions == [Docs -> 0 .. MaxSeq]

(* Every variable keeps its type, and the lock's holder is inside a section.*)
TypeOK ==
  /\ docs \in Versions
  /\ nextSeq \in 1 .. MaxSeq + 1 /\ snapSeq \in 0 .. MaxSeq /\ state \in -1 .. MaxSeq
  /\ dead \in BOOLEAN
  /\ since \subseteq [docs : Versions, next : 1 .. MaxSeq + 1]
  /\ idx \in [Kinds -> Versions]
  /\ view \in [Kinds -> BOOLEAN]
  /\ file \in [Kinds -> Versions \cup {NoFile}]
  /\ boot \in {"up", "down", "summaries", "state", "rebuild"}
  /\ hold \in Threads \cup {Nobody}
  /\ \A t \in Threads :
       at[t].step \in {"splits", "summaries", "saveSplits", "saveSummaries",
                       "saveState", "saveMeta", "compacted"} <=> hold = t
  /\ crashes \in 0 .. MaxCrashes
  /\ failed \in {"none", "failed", "saved"}

(* Whenever nobody is writing, both indexes have exactly the documents and *)
(* versions the log has: a search finds what was stored and nothing that   *)
(* was deleted or replaced, after any restart, until an index refuses an   *)
(* update or a demotion maps an older file (shard.rs:3-9).                 *)
IndexesAgree ==
  failed = "none" /\ boot = "up" /\ hold = Nobody => \A k \in Kinds : idx[k] = docs

(* At every point of a snapshot, a compaction, a demotion, a crash and an  *)
(* open, index files that open would trust are those of this log           *)
(* (shard.rs:539-543).                                                     *)
SavedSound ==
  failed # "saved" /\ Usable => \A k \in Kinds : file[k] = docs

(* An index that differs from the log, because an update failed or an      *)
(* older file was mapped, is repaired by every later open, as long as no   *)
(* save of the indexes was begun after it: the files left from before are  *)
(* not trusted (snapshot_is_usable, rebuild).                              *)
OpenRepairsUnsaved ==
  [][boot # "up" /\ boot' = "up" /\ failed # "saved" =>
       \A k \in Kinds : idx'[k] = docs']_vars

-----------------------------------------------------------------------------
(* What the repository says and the code does not do *)

(* A demoted shard's mapped files "describe this exact log"                *)
(* (shard.rs:274-275).                                                     *)
MappedIsThisLog ==
  boot = "up" /\ hold = Nobody => \A k \in Kinds : view[k] => idx[k] = docs

=============================================================================
