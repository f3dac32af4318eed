----------------------------- MODULE ShardProofs ------------------------------
(***************************************************************************)
(* Theorems about module Shard, for any threads, documents, sequence       *)
(* numbers and crashes: the indexes a search uses are the log's, and index *)
(* files that an open would trust are those of the log it opens.           *)
(*                                                                         *)
(* The argument.  A save syncs the log first, so the sequence number it    *)
(* writes down is below that of every log a power loss can leave           *)
(* (NumbersBehind); a log that still has the number in the state file is   *)
(* the one the files were written from (FilesSound).  The indexes are the  *)
(* log's except at the document that the holder of the lock is writing     *)
(* (WriterAhead), and a mapped index is its file (MappedIsFile).           *)
(***************************************************************************)
EXTENDS Shard, TLAPS

SaveSteps == {"saveSplits", "saveSummaries", "saveState", "saveMeta"}
WriteSteps == {"splits", "summaries"}
Whys == {"snapshot", "demote", "compact"}
Jobs == [step : {"idle", "map", "resnapshot", "compacted"}]
          \cup [step : WriteSteps, doc : Docs]
          \cup [step : SaveSteps, why : Whys]
LockedSteps == WriteSteps \cup SaveSteps \cup {"compacted"}

LogTypes ==
  /\ docs \in Versions
  /\ nextSeq \in 1 .. MaxSeq + 1 /\ snapSeq \in 0 .. MaxSeq
  /\ dead \in BOOLEAN
  /\ since \subseteq [docs : Versions, next : 1 .. MaxSeq + 1]

IndexTypes ==
  /\ idx \in [Kinds -> Versions]
  /\ view \in [Kinds -> BOOLEAN]
  /\ file \in [Kinds -> Versions \cup {NoFile}]
  /\ state \in -1 .. MaxSeq

ProcessTypes ==
  /\ boot \in {"up", "down", "summaries", "state", "rebuild"}
  /\ hold \in Threads \cup {Nobody}
  /\ at \in [Threads -> Jobs]
  /\ \A t \in Threads : at[t].step \in LockedSteps <=> hold = t
  /\ boot # "up" => \A t \in Threads : at[t].step = "idle"
  /\ crashes \in 0 .. MaxCrashes
  /\ failed \in {"none", "failed", "saved"}

(* The log that is there is one a power loss may leave, the newest of them, *)
(* and each has a number above those the state file and the manifest name.  *)
NumbersBehind ==
  /\ Log \in since
  /\ \A l \in since :
       /\ l.next <= nextSeq /\ (l.next = nextSeq => l.docs = docs)
       /\ state < l.next /\ snapSeq < l.next

(* Saved indexes are those of any log that has the number they were saved  *)
(* under.                                                                  *)
FilesSound ==
  failed # "saved" /\ state # NoState /\ (\A k \in Kinds : file[k] # NoFile) =>
    \A l \in since : l.next = state + 1 => \A k \in Kinds : file[k] = l.docs

(* Once an open is over there is a state file only beside both indexes.    *)
StateLast ==
  boot = "up" /\ (\E k \in Kinds : file[k] = NoFile) => state = NoState

(* A mapped index is its file, and is not written to. *)
MappedIsFile ==
  \A k \in Kinds :
    view[k] => /\ idx[k] = file[k] /\ boot = "up"
               /\ \A t \in Threads : at[t].step \notin WriteSteps

(* How far a save has come. *)
SaveProgress ==
  \A t \in Threads :
    /\ at[t].step \in SaveSteps => since = {Log}
    /\ at[t].step \in SaveSteps \ {"saveSplits"} => file["splits"] = idx["splits"]
    /\ at[t].step \in {"saveState", "saveMeta"} => file["summaries"] = idx["summaries"]
    /\ at[t].step = "saveMeta" => state = nextSeq - 1
    /\ at[t].step \in SaveSteps \ {"saveSplits"} => failed # "failed"

(* Index k may differ from the log at document d: it is being written. *)
InFlight(k, d) ==
  \E t \in Threads :
    /\ at[t].step = "splits" \/ (at[t].step = "summaries" /\ k = "summaries")
    /\ at[t].doc = d

WriterAhead ==
  failed = "none" /\ boot = "up" =>
    \A k \in Kinds, d \in Docs : idx[k][d] = docs[d] \/ InFlight(k, d)

(* What an open has in memory before it rebuilds is the log's. *)
OpenReads ==
  boot \in {"summaries", "state", "rebuild"} =>
    /\ file["splits"] = NoFile
    /\ boot # "summaries" => file["summaries"] = NoFile
    /\ boot = "rebuild" => state = NoState
    /\ failed # "saved" => \A k \in Kinds : idx[k] = Empty \/ idx[k] = docs

IInv == /\ LogTypes /\ IndexTypes /\ ProcessTypes
        /\ NumbersBehind /\ FilesSound /\ StateLast /\ MappedIsFile
        /\ SaveProgress /\ WriterAhead /\ OpenReads

-----------------------------------------------------------------------------
(* The lock and the threads *)

(* What the fields of a job are. *)
LEMMA JobFacts ==
  ASSUME NEW j \in Jobs
  PROVE  /\ j.step \in LockedSteps \cup {"idle", "map", "resnapshot"}
         /\ j.step \in WriteSteps => j.doc \in Docs
         /\ j.step \in SaveSteps => j.why \in Whys
  BY DEF Jobs, LockedSteps, WriteSteps, SaveSteps, Whys

(* A section under the lock has one thread in it. *)
LEMMA LockFacts ==
  ASSUME ProcessTypes, NEW t \in Threads
  PROVE  /\ t # Nobody
         /\ hold = t => \A u \in Threads \ {t} : at[u].step \notin LockedSteps
         /\ hold = Nobody => \A u \in Threads : at[u].step \notin LockedSteps
  BY ShardAssumption DEF ProcessTypes

(* A thread that has the lock, or takes it, goes on to job j and has it    *)
(* afterwards exactly when the job needs it.                               *)
LEMMA MoveFacts ==
  ASSUME ProcessTypes, boot = "up", UNCHANGED <<boot, crashes>>,
         NEW t \in Threads, NEW j \in Jobs, hold \in {t, Nobody}, Goto(t, j),
         hold' = IF j.step \in LockedSteps THEN t ELSE Nobody,
         failed' \in {"none", "failed", "saved"}
  PROVE  /\ ProcessTypes'
         /\ at'[t] = j
         /\ \A u \in Threads \ {t} : at'[u] = at[u] /\ at[u].step \notin LockedSteps
  <1>1. at'[t] = j /\ at' \in [Threads -> Jobs]
    BY DEF Goto, ProcessTypes
  <1>2. \A u \in Threads \ {t} : at'[u] = at[u] /\ at[u].step \notin LockedSteps
    BY LockFacts DEF Goto, ProcessTypes
  <1>3. \A u \in Threads : at'[u].step \in LockedSteps <=> hold' = u
    BY <1>1, <1>2, LockFacts, ShardAssumption
  <1> QED
    BY <1>1, <1>2, <1>3 DEF ProcessTypes

(* The jobs the actions move to. *)
LEMMA JobsThere ==
  ASSUME NEW d \in Docs, NEW why \in Whys
  PROVE  /\ Idle \in Jobs /\ Idle.step \notin LockedSteps
         /\ [step |-> "map"] \in Jobs /\ "map" \notin LockedSteps
         /\ [step |-> "resnapshot"] \in Jobs /\ "resnapshot" \notin LockedSteps
         /\ [step |-> "compacted"] \in Jobs /\ "compacted" \in LockedSteps
         /\ \A s \in WriteSteps : [step |-> s, doc |-> d] \in Jobs /\ s \in LockedSteps
         /\ \A s \in SaveSteps : [step |-> s, why |-> why] \in Jobs /\ s \in LockedSteps
  BY DEF Jobs, Idle, LockedSteps, WriteSteps, SaveSteps

(* A version map is not the mark of an absent file. *)
LEMMA VersionsAreNoMark ==
  ASSUME NEW f \in Versions PROVE f # NoFile
  BY ShardAssumption DEF Versions, NoFile

-----------------------------------------------------------------------------
(* The initial state satisfies the invariant. *)
LEMMA InitSafe == Init => IInv
  <1> SUFFICES ASSUME Init PROVE IInv
    OBVIOUS
  <1>1. LogTypes
    <2>1. docs \in Versions /\ nextSeq \in 1 .. MaxSeq + 1 /\ snapSeq \in 0 .. MaxSeq
      BY ShardAssumption DEF Init, Versions, Empty
    <2>2. dead \in BOOLEAN
      BY DEF Init
    <2> QED
      BY <2>1, <2>2 DEF Init, LogTypes, Log
  <1>2. IndexTypes
    BY ShardAssumption DEF Init, IndexTypes, Versions, Empty, NoState
  <1>3. ProcessTypes
    BY ShardAssumption
    DEF Init, ProcessTypes, Jobs, Idle, LockedSteps, WriteSteps, SaveSteps
  <1>4. NumbersBehind /\ FilesSound /\ StateLast
    BY DEF Init, NumbersBehind, FilesSound, StateLast, Log, NoState
  <1>5. MappedIsFile /\ SaveProgress
    BY DEF Init, MappedIsFile, SaveProgress, Idle, SaveSteps
  <1>6. WriterAhead /\ OpenReads
    BY DEF Init, WriterAhead, OpenReads, Empty
  <1> QED
    BY <1>1, <1>2, <1>3, <1>4, <1>5, <1>6 DEF IInv

-----------------------------------------------------------------------------
(* Writing *)

(* Reading mapped indexes back from their files changes no index. *)
LEMMA PromotedIsIdx ==
  ASSUME IndexTypes, MappedIsFile
  PROVE  Promoted = idx
  BY DEF Promoted, IndexTypes, MappedIsFile

(* A write that ends in promote. *)
LEMMA PromoteOnlySafe ==
  ASSUME IInv, NEW t \in Threads, PromoteOnly(t)
  PROVE  IInv'
  <1> USE DEF IInv
  <1>1. PICK back \in {{"splits"}, Kinds} :
          /\ idx' = [k \in Kinds |-> IF k \in back THEN Promoted[k] ELSE idx[k]]
          /\ view' = [k \in Kinds |-> view[k] /\ k \notin back]
    BY DEF PromoteOnly
  <1>2. idx' = idx
    BY <1>1, PromotedIsIdx DEF IndexTypes
  <1>3. view' \in [Kinds -> BOOLEAN] /\ \A k \in Kinds : view'[k] => view[k]
    BY <1>1
  <1>4. UNCHANGED <<docs, nextSeq, snapSeq, dead, since, file, state, boot, hold, at,
                    crashes, failed>>
    BY DEF PromoteOnly, store, saved
  <1>5. LogTypes' /\ ProcessTypes' /\ NumbersBehind' /\ FilesSound' /\ StateLast'
    BY <1>4 DEF LogTypes, ProcessTypes, NumbersBehind, FilesSound, StateLast, Log
  <1>6. IndexTypes' /\ MappedIsFile'
    BY <1>2, <1>3, <1>4 DEF IndexTypes, MappedIsFile
  <1>7. SaveProgress' /\ WriterAhead' /\ OpenReads'
    BY <1>2, <1>4 DEF SaveProgress, WriterAhead, OpenReads, InFlight, Log
  <1> QED
    BY <1>5, <1>6, <1>7

(* The store's part of a write: the new log has a number no file has, and  *)
(* the indexes differ from it at the document written only.                *)
LEMMA StoreWriteSafe ==
  ASSUME IInv, NEW t \in Threads, NEW d \in Docs, NEW v \in 0 .. MaxSeq,
         StoreWrite(t, d, v)
  PROVE  IInv'
  <1> USE DEF IInv
  <1> DEFINE j == [step |-> "splits", doc |-> d]
             new == [docs |-> docs', next |-> nextSeq']
  <1>1. /\ boot = "up" /\ hold = Nobody /\ nextSeq <= MaxSeq
        /\ idx' = idx /\ view' = [k \in Kinds |-> FALSE]
        /\ docs' = [docs EXCEPT ![d] = v] /\ nextSeq' = nextSeq + 1
        /\ since' = since \cup {new}
        /\ hold' = t /\ Goto(t, j)
        /\ UNCHANGED <<snapSeq, file, state, boot, crashes, failed>>
    BY PromotedIsIdx DEF StoreWrite, Enters, Keep, saved
  <1>2. dead' \in BOOLEAN
    BY DEF StoreWrite
  <1>3. docs' \in Versions /\ nextSeq' \in 1 .. MaxSeq + 1
    BY <1>1, ShardAssumption DEF LogTypes, Versions
  <1>4. LogTypes'
    <2>1. new \in [docs : Versions, next : 1 .. MaxSeq + 1]
      BY <1>3
    <2>2. since' \subseteq [docs : Versions, next : 1 .. MaxSeq + 1]
      BY <1>1, <2>1 DEF LogTypes
    <2>3. snapSeq' \in 0 .. MaxSeq
      BY <1>1 DEF LogTypes
    <2> QED
      BY <1>2, <1>3, <2>2, <2>3, Zenon DEF LogTypes
  <1>5. IndexTypes'
    BY <1>1 DEF IndexTypes
  <1>6. j \in Jobs /\ j.step \in LockedSteps /\ j.doc = d /\ j.step = "splits"
    BY JobsThere DEF WriteSteps, Whys
  <1>7. /\ ProcessTypes' /\ at'[t] = j
        /\ \A u \in Threads \ {t} : at'[u] = at[u] /\ at[u].step \notin LockedSteps
    BY <1>1, <1>6, MoveFacts DEF ProcessTypes
  <1> HIDE DEF j
  <1>8. NumbersBehind'
    <2>1. /\ new.docs = docs' /\ new.next = nextSeq + 1
          /\ nextSeq \in Nat /\ state \in Int /\ snapSeq \in Int
          /\ \A l \in since : l.next \in Nat
      BY <1>1 DEF LogTypes, IndexTypes
    <2>2. Log' = new /\ Log'.next = nextSeq' /\ state < nextSeq /\ snapSeq < nextSeq
      BY DEF Log, NumbersBehind
    <2>3. ASSUME NEW l \in since'
          PROVE  /\ l.next <= nextSeq' /\ (l.next = nextSeq' => l.docs = docs')
                 /\ state < l.next /\ snapSeq < l.next
      <3> HIDE DEF new
      <3>1. CASE l \in since
        BY <1>1, <2>1, <3>1 DEF NumbersBehind
      <3>2. CASE l = new
        BY <1>1, <2>1, <2>2, <3>2
      <3> QED
        BY <1>1, <3>1, <3>2
    <2> QED
      BY <1>1, <2>2, <2>3 DEF NumbersBehind
  <1>9. FilesSound'
    <2>1. state + 1 # new.next
      BY <1>1 DEF NumbersBehind, Log, LogTypes, IndexTypes
    <2> QED
      BY <1>1, <2>1 DEF FilesSound
  <1>10. StateLast' /\ MappedIsFile' /\ OpenReads'
    BY <1>1 DEF StateLast, MappedIsFile, OpenReads
  <1>11. SaveProgress'
    BY <1>6, <1>7 DEF SaveProgress, LockedSteps, SaveSteps
  <1>12. WriterAhead'
    <2>1. \A k \in Kinds : InFlight(k, d)'
      BY <1>6, <1>7 DEF InFlight
    <2>2. \A k \in Kinds, e \in Docs : ~InFlight(k, e)
      BY <1>1, LockFacts DEF InFlight, LockedSteps, WriteSteps
    <2>3. \A e \in Docs \ {d} : docs'[e] = docs[e]
      BY <1>1 DEF LogTypes, Versions
    <2> QED
      BY <1>1, <2>1, <2>2, <2>3 DEF WriterAhead
  <1> QED
    BY <1>4, <1>5, <1>7, <1>8, <1>9, <1>10, <1>11, <1>12

(* Nothing but an index and the writing thread moves. *)
IndexStep(t, j) ==
  /\ boot = "up" /\ hold = t
  /\ hold' = IF j.step \in LockedSteps THEN t ELSE Nobody
  /\ Goto(t, j)
  /\ UNCHANGED <<docs, nextSeq, snapSeq, dead, since, view, file, state, boot, crashes>>

(* What every step of the index updates keeps, whatever it does to the     *)
(* index.                                                                  *)
LEMMA IndexStepSafe ==
  ASSUME IInv, NEW t \in Threads, NEW j \in Jobs, IndexStep(t, j),
         at[t].step \in WriteSteps, j.step \notin SaveSteps,
         idx' \in [Kinds -> Versions],
         failed' = failed \/ (failed = "none" /\ failed' = "failed")
  PROVE  /\ LogTypes' /\ IndexTypes' /\ ProcessTypes'
         /\ NumbersBehind' /\ FilesSound' /\ StateLast' /\ MappedIsFile'
         /\ SaveProgress' /\ OpenReads'
         /\ at'[t] = j
         /\ \A u \in Threads \ {t} : at'[u] = at[u] /\ at[u].step \notin LockedSteps
  <1> USE DEF IInv
  <1>1. LogTypes' /\ NumbersBehind' /\ StateLast' /\ OpenReads'
    BY DEF IndexStep, LogTypes, NumbersBehind, StateLast, OpenReads, Log
  <1>2. IndexTypes'
    BY DEF IndexStep, IndexTypes
  <1>3. /\ ProcessTypes' /\ at'[t] = j
        /\ \A u \in Threads \ {t} : at'[u] = at[u] /\ at[u].step \notin LockedSteps
    BY MoveFacts DEF IndexStep, ProcessTypes
  <1>4. FilesSound'
    BY DEF IndexStep, FilesSound
  <1>5. MappedIsFile'
    BY DEF IndexStep, MappedIsFile
  <1>6. SaveProgress'
    BY <1>3 DEF SaveProgress, LockedSteps, SaveSteps
  <1> QED
    BY <1>1, <1>2, <1>3, <1>4, <1>5, <1>6

(* The document of a write, and what the indexes agree on meanwhile. *)
LEMMA WriterFacts ==
  ASSUME IInv, NEW t \in Threads, hold = t, boot = "up", at[t].step \in WriteSteps
  PROVE  /\ at[t].doc \in Docs
         /\ failed = "none" =>
              \A k \in Kinds, d \in Docs :
                idx[k][d] = docs[d]
                \/ (d = at[t].doc /\ (at[t].step = "splits" \/ k = "summaries"))
  <1>1. at[t].doc \in Docs
    BY JobFacts DEF IInv, ProcessTypes
  <1>2. ASSUME NEW k \in Kinds, NEW d \in Docs, InFlight(k, d)
        PROVE  d = at[t].doc /\ (at[t].step = "splits" \/ k = "summaries")
    BY <1>2, LockFacts DEF InFlight, IInv, LockedSteps, WriteSteps
  <1> QED
    BY <1>1, <1>2 DEF IInv, WriterAhead

(* The split index gets the log's version. *)
LEMMA IndexSplitsSafe ==
  ASSUME IInv, NEW t \in Threads, IndexSplits(t)
  PROVE  IInv'
  <1> DEFINE d == at[t].doc
             j == [step |-> "summaries", doc |-> d]
  <1>1. at[t].step = "splits" /\ at[t].step \in WriteSteps /\ hold = t /\ boot = "up"
    BY DEF IndexSplits, Inside, WriteSteps
  <1>2. d \in Docs
    BY <1>1, WriterFacts
  <1>3. j \in Jobs /\ j.step \in LockedSteps /\ j.step = "summaries" /\ j.doc = d
    BY <1>2, JobsThere DEF WriteSteps, Whys
  <1>4. IndexStep(t, j) /\ failed' = failed
    BY <1>1, <1>3 DEF IndexSplits, IndexStep, Keep, store, saved
  <1>5. idx' = [idx EXCEPT !["splits"] = [idx["splits"] EXCEPT ![d] = docs[d]]]
    BY DEF IndexSplits
  <1>6. /\ idx' \in [Kinds -> Versions]
        /\ idx'["summaries"] = idx["summaries"] /\ idx'["splits"][d] = docs[d]
        /\ \A e \in Docs \ {d} : idx'["splits"][e] = idx["splits"][e]
    BY <1>2, <1>5 DEF IInv, IndexTypes, LogTypes, Versions, Kinds
  <1>7. j.step \notin SaveSteps
    BY <1>3 DEF SaveSteps
  <1> HIDE DEF j
  <1>8. /\ LogTypes' /\ IndexTypes' /\ ProcessTypes'
        /\ NumbersBehind' /\ FilesSound' /\ StateLast' /\ MappedIsFile'
        /\ SaveProgress' /\ OpenReads'
        /\ at'[t] = j
    BY <1>1, <1>3, <1>4, <1>6, <1>7, IndexStepSafe
  <1>9. WriterAhead'
    <2> SUFFICES ASSUME failed' = "none", NEW k \in Kinds, NEW e \in Docs
                 PROVE  idx'[k][e] = docs'[e] \/ InFlight(k, e)'
      BY DEF WriterAhead
    <2>1. failed = "none" /\ docs' = docs
      BY <1>4 DEF IndexStep
    <2>2. idx'[k][e] = docs[e] \/ (e = d /\ k = "summaries")
      BY <1>1, <1>6, <2>1, WriterFacts DEF Kinds
    <2>3. at'[t].step = "summaries" /\ at'[t].doc = d
      BY <1>3, <1>8
    <2> QED
      BY <2>1, <2>2, <2>3 DEF InFlight
  <1> QED
    BY <1>8, <1>9 DEF IInv

(* The summary index gets it too, and the write is over. *)
LEMMA IndexSummariesSafe ==
  ASSUME IInv, NEW t \in Threads, IndexSummaries(t)
  PROVE  IInv'
  <1> DEFINE d == at[t].doc
  <1>1. at[t].step = "summaries" /\ at[t].step \in WriteSteps /\ hold = t /\ boot = "up"
    BY DEF IndexSummaries, Inside, WriteSteps
  <1>2. d \in Docs
    BY <1>1, WriterFacts
  <1>3. Idle \in Jobs /\ Idle.step \notin LockedSteps /\ Idle.step \notin SaveSteps
    BY <1>2, JobsThere DEF SaveSteps, LockedSteps, Whys
  <1>4. IndexStep(t, Idle) /\ failed' = failed
    BY <1>1, <1>3 DEF IndexSummaries, IndexStep, Release, store, saved
  <1>5. idx' = [idx EXCEPT !["summaries"] = [idx["summaries"] EXCEPT ![d] = docs[d]]]
    BY DEF IndexSummaries
  <1>6. /\ idx' \in [Kinds -> Versions]
        /\ idx'["splits"] = idx["splits"] /\ idx'["summaries"][d] = docs[d]
        /\ \A e \in Docs \ {d} : idx'["summaries"][e] = idx["summaries"][e]
    BY <1>2, <1>5 DEF IInv, IndexTypes, LogTypes, Versions, Kinds
  <1>7. /\ LogTypes' /\ IndexTypes' /\ ProcessTypes'
        /\ NumbersBehind' /\ FilesSound' /\ StateLast' /\ MappedIsFile'
        /\ SaveProgress' /\ OpenReads'
    BY <1>1, <1>3, <1>4, <1>6, IndexStepSafe
  <1>8. WriterAhead'
    BY <1>1, <1>4, <1>6, WriterFacts DEF IndexStep, WriterAhead, Kinds
  <1> QED
    BY <1>7, <1>8 DEF IInv

(* An index refuses: from then on the indexes are not claimed to be the    *)
(* log's, and the files are those from before.                             *)
LEMMA IndexFailsSafe ==
  ASSUME IInv, NEW t \in Threads, IndexFails(t)
  PROVE  IInv'
  <1>1. /\ at[t].step \in WriteSteps /\ hold = t /\ boot = "up"
        /\ failed = "none" /\ failed' = "failed"
    BY DEF IndexFails, Inside, WriteSteps
  <1>2. at[t].doc \in Docs
    BY <1>1, WriterFacts
  <1>3. Idle \in Jobs /\ Idle.step \notin LockedSteps /\ Idle.step \notin SaveSteps
    BY <1>2, JobsThere DEF SaveSteps, LockedSteps, Whys
  <1>4. IndexStep(t, Idle)
    BY <1>1, <1>3 DEF IndexFails, IndexStep, Release, store, saved
  <1>5. PICK gone \in {{}, {"splits"}, {"summaries"}, Kinds} :
          idx' = [k \in Kinds |->
                   IF k \in gone THEN [idx[k] EXCEPT ![at[t].doc] = 0] ELSE idx[k]]
    BY DEF IndexFails
  <1>6. idx' \in [Kinds -> Versions]
    BY <1>2, <1>5, ShardAssumption DEF IInv, IndexTypes, Versions
  <1>7. /\ LogTypes' /\ IndexTypes' /\ ProcessTypes'
        /\ NumbersBehind' /\ FilesSound' /\ StateLast' /\ MappedIsFile'
        /\ SaveProgress' /\ OpenReads'
    BY <1>1, <1>3, <1>4, <1>6, IndexStepSafe
  <1>8. WriterAhead'
    BY <1>1 DEF WriterAhead
  <1> QED
    BY <1>7, <1>8 DEF IInv

-----------------------------------------------------------------------------
(* Snapshot and demote *)

(* Nothing but the thread moves, and perhaps the log is synced. *)
ThreadStep(t, j) ==
  /\ boot = "up" /\ hold \in {t, Nobody}
  /\ hold' = IF j.step \in LockedSteps THEN t ELSE Nobody
  /\ Goto(t, j)
  /\ since' \in {since, {Log}}
  /\ UNCHANGED <<docs, nextSeq, dead, idx, view, boot, crashes>>

(* What such a step keeps when it touches neither files nor manifest. *)
LEMMA ThreadStepSafe ==
  ASSUME IInv, NEW t \in Threads, NEW j \in Jobs, ThreadStep(t, j),
         at[t].step \notin WriteSteps, j.step \notin WriteSteps,
         snapSeq' \in 0 .. MaxSeq, \A l \in since' : snapSeq' < l.next,
         failed' \in {"none", "failed", "saved"}, failed' = "none" => failed = "none"
  PROVE  /\ LogTypes' /\ ProcessTypes' /\ WriterAhead' /\ OpenReads'
         /\ state' = state => NumbersBehind'
         /\ UNCHANGED <<file, state>> /\ failed' = failed =>
              IndexTypes' /\ FilesSound' /\ StateLast' /\ MappedIsFile'
         /\ at'[t] = j
         /\ \A u \in Threads \ {t} : at'[u] = at[u] /\ at[u].step \notin LockedSteps
  <1> USE DEF IInv
  <1>1. Log \in since /\ since' \subseteq since /\ Log' \in since' /\ Log' = Log
    BY DEF ThreadStep, NumbersBehind, Log
  <1>2. LogTypes'
    <2>1. since' \subseteq [docs : Versions, next : 1 .. MaxSeq + 1]
      BY <1>1 DEF LogTypes
    <2> QED
      BY <2>1 DEF LogTypes, ThreadStep
  <1>3. /\ ProcessTypes' /\ at'[t] = j
        /\ \A u \in Threads \ {t} : at'[u] = at[u] /\ at[u].step \notin LockedSteps
    BY MoveFacts DEF ThreadStep
  <1>4. WriterAhead'
    <2>1. \A k \in Kinds, d \in Docs : ~InFlight(k, d)
      BY <1>3 DEF InFlight, WriteSteps, LockedSteps
    <2> QED
      BY <2>1 DEF WriterAhead, ThreadStep
  <1>5. OpenReads'
    BY DEF OpenReads, ThreadStep
  <1>6. ASSUME state' = state PROVE NumbersBehind'
    BY <1>1, <1>6 DEF NumbersBehind, ThreadStep
  <1>7. ASSUME UNCHANGED <<file, state>>, failed' = failed
        PROVE  IndexTypes' /\ FilesSound' /\ StateLast' /\ MappedIsFile'
    <2>1. IndexTypes' /\ StateLast'
      BY <1>7 DEF IndexTypes, StateLast, ThreadStep
    <2>2. FilesSound'
      BY <1>1, <1>7 DEF FilesSound
    <2>3. MappedIsFile'
      BY <1>3, <1>7 DEF MappedIsFile, ThreadStep, WriteSteps, LockedSteps
    <2> QED
      BY <2>1, <2>2, <2>3
  <1> QED
    BY <1>2, <1>3, <1>4, <1>5, <1>6, <1>7

(* Any number written down so far is below those of the logs in since. *)
LEMMA NumbersFacts ==
  ASSUME IInv
  PROVE  /\ nextSeq \in Nat /\ nextSeq >= 1 /\ nextSeq - 1 \in 0 .. MaxSeq
         /\ snapSeq \in 0 .. MaxSeq
         /\ Log \in since /\ Log.next = nextSeq /\ Log.docs = docs
         /\ \A l \in since : snapSeq < l.next
  BY ShardAssumption DEF IInv, LogTypes, NumbersBehind, Log

(* Where a snapshot leaves its thread. *)
LEMMA AfterSnapshotMoves ==
  ASSUME IInv, NEW t \in Threads, NEW why \in Whys, AfterSnapshot(t, why)
  PROVE  \E j \in Jobs : /\ j.step \in {"map", "idle"}
                         /\ hold' = IF j.step \in LockedSteps THEN t ELSE Nobody
                         /\ Goto(t, j)
  <1> DEFINE j == IF why = "demote" THEN [step |-> "map"] ELSE Idle
  <1>1. j \in Jobs /\ j.step \in {"map", "idle"} /\ j.step \notin LockedSteps
    BY DEF Jobs, Idle, LockedSteps, WriteSteps, SaveSteps
  <1>2. hold' = Nobody /\ Goto(t, j)
    BY DEF AfterSnapshot, Release
  <1> QED
    BY <1>1, <1>2

(* The sync that begins a snapshot, with the early return. *)
LEMMA SnapshotSafe ==
  ASSUME IInv, NEW t \in Threads, NEW why \in Whys, Snapshot(t, why)
  PROVE  IInv'
  <1>1. /\ boot = "up" /\ hold = Nobody /\ since' = {Log}
        /\ UNCHANGED <<docs, nextSeq, snapSeq, dead, idx, view, file, state, boot,
                       crashes, failed>>
    BY DEF Snapshot, Enters, indexes, saved
  <1>2. at[t].step \notin WriteSteps
    BY <1>1, LockFacts DEF IInv, LockedSteps
  <1>3. PICK j \in Jobs : /\ j.step \in {"map", "idle", "saveSplits"}
                          /\ hold' = IF j.step \in LockedSteps THEN t ELSE Nobody
                          /\ Goto(t, j)
    <2>1. CASE NothingNew
      BY <2>1, AfterSnapshotMoves DEF Snapshot
    <2>2. CASE ~NothingNew
      <3> DEFINE i == [step |-> "saveSplits", why |-> why]
      <3>1. i \in Jobs /\ i.step \in LockedSteps /\ i.step = "saveSplits"
        BY DEF Jobs, LockedSteps, SaveSteps
      <3>2. hold' = t /\ Goto(t, i)
        BY <2>2 DEF Snapshot, Keep
      <3> QED
        BY <3>1, <3>2
    <2> QED
      BY <2>1, <2>2
  <1>4. ThreadStep(t, j) /\ j.step \notin WriteSteps
    BY <1>1, <1>3 DEF ThreadStep, WriteSteps
  <1>5. /\ LogTypes' /\ ProcessTypes' /\ WriterAhead' /\ OpenReads'
        /\ NumbersBehind' /\ IndexTypes' /\ FilesSound' /\ StateLast' /\ MappedIsFile'
        /\ at'[t] = j
        /\ \A u \in Threads \ {t} : at'[u] = at[u] /\ at[u].step \notin LockedSteps
    <2>1. snapSeq' \in 0 .. MaxSeq /\ \A l \in since' : snapSeq' < l.next
      BY <1>1, NumbersFacts
    <2>2. failed' = failed /\ failed \in {"none", "failed", "saved"}
      BY <1>1 DEF IInv, ProcessTypes
    <2> QED
      BY <1>1, <1>2, <1>4, <2>1, <2>2, ThreadStepSafe
  <1>6. SaveProgress'
    BY <1>1, <1>3, <1>5 DEF SaveProgress, LockedSteps, SaveSteps, Log
  <1> QED
    BY <1>5, <1>6 DEF IInv

(* A step of a save: the holder moves on to the next one. *)
LEMMA SaveStepMoves ==
  ASSUME IInv, NEW t \in Threads, boot = "up", hold = t, at[t].step \in SaveSteps,
         NEW s \in SaveSteps, Keep(t, [step |-> s, why |-> at[t].why]),
         UNCHANGED <<store, indexes, boot, crashes>>,
         failed' = failed \/ (failed = "failed" /\ failed' = "saved")
  PROVE  /\ LogTypes' /\ ProcessTypes' /\ WriterAhead' /\ OpenReads'
         /\ state' = state => NumbersBehind'
         /\ at'[t].step = s
         /\ \A u \in Threads \ {t} : at'[u] = at[u] /\ at[u].step \notin LockedSteps
         /\ UNCHANGED <<docs, nextSeq, snapSeq, dead, since, idx, view, boot>>
         /\ since = {Log} /\ Log' = Log /\ Log.next = nextSeq /\ Log.docs = docs
         /\ failed = "none" => \A k \in Kinds : idx[k] = docs
  <1> DEFINE j == [step |-> s, why |-> at[t].why]
  <1>1. at[t].why \in Whys
    BY JobFacts DEF IInv, ProcessTypes
  <1>2. j \in Jobs /\ j.step \in LockedSteps /\ j.step = s /\ s \notin WriteSteps
    BY <1>1 DEF Jobs, LockedSteps, SaveSteps, WriteSteps
  <1>3. UNCHANGED <<docs, nextSeq, snapSeq, dead, since, idx, view, boot, crashes>>
    BY DEF store, indexes
  <1>4. ThreadStep(t, j) /\ at[t].step \notin WriteSteps
    BY <1>2, <1>3 DEF ThreadStep, Keep, SaveSteps, WriteSteps
  <1>5. since = {Log} /\ Log' = Log /\ Log.next = nextSeq /\ Log.docs = docs
    BY <1>3 DEF IInv, SaveProgress, Log
  <1>6. failed' \in {"none", "failed", "saved"} /\ (failed' = "none" => failed = "none")
    BY DEF IInv, ProcessTypes
  <1>7. snapSeq' \in 0 .. MaxSeq /\ \A l \in since' : snapSeq' < l.next
    BY <1>3, NumbersFacts
  <1> HIDE DEF j
  <1>8. /\ LogTypes' /\ ProcessTypes' /\ WriterAhead' /\ OpenReads'
        /\ state' = state => NumbersBehind'
        /\ at'[t] = j
        /\ \A u \in Threads \ {t} : at'[u] = at[u] /\ at[u].step \notin LockedSteps
    BY <1>2, <1>4, <1>6, <1>7, ThreadStepSafe
  <1>9. ASSUME failed = "none", NEW k \in Kinds PROVE idx[k] = docs
    <2>1. \A d \in Docs : ~InFlight(k, d)
      BY <1>4, <1>8 DEF InFlight, WriteSteps, LockedSteps
    <2>2. \A d \in Docs : idx[k][d] = docs[d]
      BY <1>9, <2>1 DEF IInv, WriterAhead
    <2> QED
      BY <2>2 DEF IInv, IndexTypes, LogTypes, Versions
  <1> QED
    BY <1>2, <1>3, <1>5, <1>8, <1>9

(* The first file.  A save that begins after an index differed from the    *)
(* log is marked; otherwise the file is the log's.                         *)
LEMMA SaveSplitsSafe ==
  ASSUME IInv, NEW t \in Threads, SaveSplits(t)
  PROVE  IInv'
  <1>1. /\ boot = "up" /\ hold = t /\ at[t].step = "saveSplits"
        /\ file' = [file EXCEPT !["splits"] = idx["splits"]] /\ state' = state
        /\ failed' = IF failed = "failed" THEN "saved" ELSE failed
    BY DEF SaveSplits, Inside
  <1>2. /\ LogTypes' /\ ProcessTypes' /\ WriterAhead' /\ OpenReads'
        /\ NumbersBehind'
        /\ at'[t].step = "saveSummaries"
        /\ \A u \in Threads \ {t} : at'[u] = at[u] /\ at[u].step \notin LockedSteps
        /\ UNCHANGED <<docs, nextSeq, snapSeq, dead, since, idx, view, boot>>
        /\ since = {Log} /\ Log' = Log /\ Log.next = nextSeq /\ Log.docs = docs
        /\ failed = "none" => \A k \in Kinds : idx[k] = docs
    BY <1>1, SaveStepMoves DEF SaveSplits, SaveSteps
  <1>3. /\ file' \in [Kinds -> Versions \cup {NoFile}]
        /\ file'["splits"] = idx["splits"] /\ file'["summaries"] = file["summaries"]
        /\ idx["splits"] # NoFile
    BY <1>1, VersionsAreNoMark DEF IInv, IndexTypes, Kinds
  <1>4. IndexTypes'
    BY <1>1, <1>2, <1>3 DEF IInv, IndexTypes
  <1>5. FilesSound'
    <2> SUFFICES ASSUME failed' # "saved", state # NoState, nextSeq = state + 1
                 PROVE  \A k \in Kinds : file'[k] = docs
      BY <1>1, <1>2 DEF FilesSound
    <2>1. failed = "none"
      BY <1>1 DEF IInv, ProcessTypes
    <2>2. \A k \in Kinds : file[k] # NoFile
      BY <1>1 DEF IInv, StateLast
    <2>3. \A k \in Kinds : file[k] = docs
      BY <1>2, <2>1, <2>2 DEF IInv, FilesSound
    <2> QED
      BY <1>2, <1>3, <2>1, <2>3 DEF Kinds
  <1>6. StateLast'
    BY <1>1, <1>2, <1>3 DEF IInv, StateLast, Kinds
  <1>7. MappedIsFile'
    BY <1>1, <1>2, <1>3 DEF IInv, MappedIsFile, Kinds, WriteSteps, LockedSteps
  <1>8. SaveProgress'
    BY <1>1, <1>2, <1>3 DEF SaveProgress, SaveSteps, LockedSteps, Log
  <1> QED
    BY <1>2, <1>4, <1>5, <1>6, <1>7, <1>8 DEF IInv

(* The second file. *)
LEMMA SaveSummariesSafe ==
  ASSUME IInv, NEW t \in Threads, SaveSummaries(t)
  PROVE  IInv'
  <1>1. /\ boot = "up" /\ hold = t /\ at[t].step = "saveSummaries"
        /\ file' = [file EXCEPT !["summaries"] = idx["summaries"]]
        /\ state' = state /\ failed' = failed
    BY DEF SaveSummaries, Inside
  <1>2. /\ LogTypes' /\ ProcessTypes' /\ WriterAhead' /\ OpenReads'
        /\ NumbersBehind'
        /\ at'[t].step = "saveState"
        /\ \A u \in Threads \ {t} : at'[u] = at[u] /\ at[u].step \notin LockedSteps
        /\ UNCHANGED <<docs, nextSeq, snapSeq, dead, since, idx, view, boot>>
        /\ since = {Log} /\ Log' = Log /\ Log.next = nextSeq /\ Log.docs = docs
        /\ failed = "none" => \A k \in Kinds : idx[k] = docs
    BY <1>1, SaveStepMoves DEF SaveSummaries, SaveSteps
  <1>3. /\ file' \in [Kinds -> Versions \cup {NoFile}]
        /\ file'["summaries"] = idx["summaries"] /\ file'["splits"] = file["splits"]
        /\ file["splits"] = idx["splits"] /\ failed # "failed"
    BY <1>1 DEF IInv, IndexTypes, SaveProgress, Kinds, SaveSteps
  <1>4. IndexTypes'
    BY <1>1, <1>2, <1>3 DEF IInv, IndexTypes
  <1>5. FilesSound'
    BY <1>1, <1>2, <1>3 DEF IInv, ProcessTypes, FilesSound, Kinds
  <1>6. StateLast'
    BY <1>1, <1>2, <1>3, VersionsAreNoMark DEF IInv, IndexTypes, StateLast, Kinds
  <1>7. MappedIsFile'
    BY <1>1, <1>2, <1>3 DEF IInv, MappedIsFile, Kinds, WriteSteps, LockedSteps
  <1>8. SaveProgress'
    BY <1>1, <1>2, <1>3 DEF SaveProgress, SaveSteps, LockedSteps, Log
  <1> QED
    BY <1>2, <1>4, <1>5, <1>6, <1>7, <1>8 DEF IInv

(* The state file vouches for the two. *)
LEMMA SaveStateSafe ==
  ASSUME IInv, NEW t \in Threads, SaveState(t)
  PROVE  IInv'
  <1>1. /\ boot = "up" /\ hold = t /\ at[t].step = "saveState"
        /\ state' = nextSeq - 1 /\ file' = file /\ failed' = failed
    BY DEF SaveState, Inside
  <1>2. /\ LogTypes' /\ ProcessTypes' /\ WriterAhead' /\ OpenReads'
        /\ at'[t].step = "saveMeta"
        /\ \A u \in Threads \ {t} : at'[u] = at[u] /\ at[u].step \notin LockedSteps
        /\ UNCHANGED <<docs, nextSeq, snapSeq, dead, since, idx, view, boot>>
        /\ since = {Log} /\ Log' = Log /\ Log.next = nextSeq /\ Log.docs = docs
        /\ failed = "none" => \A k \in Kinds : idx[k] = docs
    BY <1>1, SaveStepMoves DEF SaveState, SaveSteps
  <1>3. \A k \in Kinds : file[k] = idx[k] /\ file[k] # NoFile
    BY <1>1, VersionsAreNoMark DEF IInv, IndexTypes, SaveProgress, Kinds, SaveSteps
  <1>4. state' \in -1 .. MaxSeq /\ state' < nextSeq
    BY <1>1, NumbersFacts
  <1>5. IndexTypes' /\ NumbersBehind'
    BY <1>1, <1>2, <1>4 DEF IInv, IndexTypes, NumbersBehind
  <1>6. failed # "failed"
    BY <1>1 DEF IInv, SaveProgress, SaveSteps
  <1>7. FilesSound'
    BY <1>1, <1>2, <1>3, <1>6 DEF IInv, ProcessTypes, FilesSound
  <1>8. StateLast'
    BY <1>1, <1>3 DEF StateLast
  <1>9. MappedIsFile'
    BY <1>1, <1>2 DEF IInv, MappedIsFile, WriteSteps, LockedSteps
  <1>10. SaveProgress'
    BY <1>1, <1>2, <1>3, <1>6 DEF SaveProgress, SaveSteps, LockedSteps, Log, Kinds
  <1> QED
    BY <1>2, <1>5, <1>7, <1>8, <1>9, <1>10 DEF IInv

(* The last step of a save, or one that fails: the lock is released. *)
LEMMA SaveEnds ==
  ASSUME IInv, NEW t \in Threads, boot = "up", hold = t, at[t].step \in SaveSteps,
         NEW j \in Jobs, j.step \in {"map", "idle"},
         hold' = IF j.step \in LockedSteps THEN t ELSE Nobody, Goto(t, j),
         snapSeq' \in {snapSeq, nextSeq - 1},
         UNCHANGED <<docs, nextSeq, dead, since, idx, view, file, state, boot, crashes,
                     failed>>
  PROVE  IInv'
  <1>1. ThreadStep(t, j) /\ at[t].step \notin WriteSteps /\ j.step \notin WriteSteps
    BY DEF ThreadStep, SaveSteps, WriteSteps
  <1>2. since = {Log}
    BY DEF IInv, SaveProgress
  <1>3. snapSeq' \in 0 .. MaxSeq /\ \A l \in since' : snapSeq' < l.next
    BY <1>2, NumbersFacts
  <1>4. failed' = failed /\ failed \in {"none", "failed", "saved"}
    BY DEF IInv, ProcessTypes
  <1>5. /\ LogTypes' /\ ProcessTypes' /\ WriterAhead' /\ OpenReads'
        /\ NumbersBehind' /\ IndexTypes' /\ FilesSound' /\ StateLast' /\ MappedIsFile'
        /\ at'[t] = j
        /\ \A u \in Threads \ {t} : at'[u] = at[u] /\ at[u].step \notin LockedSteps
    BY <1>1, <1>3, <1>4, ThreadStepSafe
  <1>6. SaveProgress'
    BY <1>5 DEF SaveProgress, SaveSteps, LockedSteps
  <1> QED
    BY <1>5, <1>6 DEF IInv

(* The manifest names the sequence last. *)
LEMMA SaveMetaSafe ==
  ASSUME IInv, NEW t \in Threads, SaveMeta(t)
  PROVE  IInv'
  <1>1. /\ boot = "up" /\ hold = t /\ at[t].step \in SaveSteps
        /\ snapSeq' = nextSeq - 1 /\ AfterSnapshot(t, at[t].why)
        /\ UNCHANGED <<docs, nextSeq, dead, since, idx, view, file, state, boot, crashes,
                       failed>>
    BY DEF SaveMeta, Inside, SaveSteps, indexes, saved
  <1>2. at[t].why \in Whys
    BY <1>1, JobFacts DEF IInv, ProcessTypes
  <1> QED
    BY <1>1, <1>2, AfterSnapshotMoves, SaveEnds

(* A save fails. *)
LEMMA SaveFailsSafe ==
  ASSUME IInv, NEW t \in Threads, SaveFails(t)
  PROVE  IInv'
  <1>1. /\ boot = "up" /\ hold = t /\ at[t].step \in SaveSteps
        /\ hold' = Nobody /\ Goto(t, Idle)
        /\ UNCHANGED <<docs, nextSeq, snapSeq, dead, since, idx, view, file, state, boot,
                       crashes, failed>>
    BY DEF SaveFails, Release, Inside, SaveSteps, store, indexes, saved
  <1>2. Idle \in Jobs /\ Idle.step = "idle" /\ Idle.step \notin LockedSteps
    BY DEF Idle, Jobs, LockedSteps, WriteSteps, SaveSteps
  <1> QED
    BY <1>1, <1>2, SaveEnds

(* A thread outside the lock gives up or syncs. *)
LEMMA QuietSafe ==
  ASSUME IInv, NEW t \in Threads, boot = "up", hold = Nobody,
         NEW j \in Jobs, j.step \in {"idle", "resnapshot"}, Goto(t, j),
         since' \in {since, {Log}},
         UNCHANGED <<docs, nextSeq, snapSeq, dead, idx, view, file, state, boot, hold,
                     crashes, failed>>
  PROVE  IInv'
  <1>1. j.step \notin LockedSteps /\ j.step \notin WriteSteps
    BY DEF LockedSteps, SaveSteps, WriteSteps
  <1>2. ThreadStep(t, j)
    BY <1>1 DEF ThreadStep
  <1>3. \A u \in Threads : at[u].step \notin LockedSteps
    BY LockFacts DEF IInv
  <1>4. at[t].step \notin WriteSteps
    BY <1>3 DEF LockedSteps
  <1>5. snapSeq' \in 0 .. MaxSeq /\ \A l \in since' : snapSeq' < l.next
    BY NumbersFacts
  <1>6. failed' = failed /\ failed \in {"none", "failed", "saved"}
    BY DEF IInv, ProcessTypes
  <1>7. /\ LogTypes' /\ ProcessTypes' /\ WriterAhead' /\ OpenReads'
        /\ NumbersBehind' /\ IndexTypes' /\ FilesSound' /\ StateLast' /\ MappedIsFile'
        /\ at'[t] = j
        /\ \A u \in Threads \ {t} : at'[u] = at[u] /\ at[u].step \notin LockedSteps
    BY <1>1, <1>2, <1>4, <1>5, <1>6, ThreadStepSafe
  <1>8. SaveProgress'
    BY <1>1, <1>7 DEF SaveProgress, SaveSteps, LockedSteps
  <1> QED
    BY <1>7, <1>8 DEF IInv

(* There is nothing to map. *)
LEMMA DemoteFailsSafe ==
  ASSUME IInv, NEW t \in Threads, DemoteFails(t)
  PROVE  IInv'
  <1>1. Idle \in Jobs /\ Idle.step = "idle"
    BY DEF Idle, Jobs
  <1> QED
    BY <1>1, QuietSafe DEF DemoteFails, Enters, store, indexes, saved

(* A sync. *)
LEMMA FsyncSafe ==
  ASSUME IInv, NEW t \in Threads, Fsync(t)
  PROVE  IInv'
  <1>1. at[t] \in Jobs /\ at[t].step = "idle" /\ Goto(t, at[t])
    BY DEF Fsync, Enters, Goto, IInv, ProcessTypes
  <1> QED
    BY <1>1, QuietSafe DEF Fsync, Enters, indexes, saved

(* The files that are there by now are mapped; one that is older than the  *)
(* index it replaces is noted.                                             *)
LEMMA DemoteMapSafe ==
  ASSUME IInv, NEW t \in Threads, DemoteMap(t)
  PROVE  IInv'
  <1>1. /\ boot = "up" /\ hold = Nobody /\ hold' = Nobody /\ Goto(t, Idle)
        /\ failed' = IF failed = "none" /\ idx' # idx THEN "failed" ELSE failed
        /\ UNCHANGED <<docs, nextSeq, snapSeq, dead, since, file, state, boot, crashes>>
    BY DEF DemoteMap, Enters, store, saved
  <1>2. Idle \in Jobs /\ Idle.step = "idle" /\ Idle.step \notin LockedSteps
    BY DEF Idle, Jobs, LockedSteps, WriteSteps, SaveSteps
  <1>3. failed' \in {"none", "failed", "saved"}
    BY <1>1 DEF IInv, ProcessTypes
  <1>4. /\ ProcessTypes' /\ at'[t] = Idle
        /\ \A u \in Threads \ {t} : at'[u] = at[u] /\ at[u].step \notin LockedSteps
    BY <1>1, <1>2, <1>3, MoveFacts DEF IInv
  <1>5. /\ idx' \in [Kinds -> Versions] /\ view' \in [Kinds -> BOOLEAN]
        /\ \A k \in Kinds : view'[k] => idx'[k] = file[k]
    <2>1. CASE \A k \in Kinds : view[k]
      BY <2>1 DEF DemoteMap, indexes, IInv, IndexTypes, MappedIsFile
    <2>2. CASE ~\A k \in Kinds : view[k]
      <3>1. PICK mapped \in {{"splits"}, Kinds} :
              /\ \A k \in mapped : file[k] # NoFile
              /\ idx' = [k \in Kinds |-> IF k \in mapped THEN file[k] ELSE idx[k]]
              /\ view' = [k \in Kinds |-> view[k] \/ k \in mapped]
        BY <2>2 DEF DemoteMap
      <3>2. mapped \subseteq Kinds
        BY DEF Kinds
      <3>3. idx' \in [Kinds -> Versions] /\ view' \in [Kinds -> BOOLEAN]
        BY <3>1, <3>2 DEF IInv, IndexTypes
      <3> QED
        BY <3>1, <3>3 DEF IInv, MappedIsFile
    <2> QED
      BY <2>1, <2>2
  <1>6. LogTypes' /\ NumbersBehind' /\ StateLast' /\ OpenReads'
    BY <1>1 DEF IInv, LogTypes, NumbersBehind, StateLast, OpenReads, Log
  <1>7. FilesSound'
    BY <1>1 DEF IInv, FilesSound
  <1>8. IndexTypes' /\ MappedIsFile'
    BY <1>1, <1>2, <1>4, <1>5 DEF IInv, IndexTypes, MappedIsFile, LockedSteps, WriteSteps
  <1>9. SaveProgress'
    BY <1>2, <1>4 DEF SaveProgress, SaveSteps, LockedSteps
  <1>10. WriterAhead'
    <2> SUFFICES ASSUME failed' = "none" PROVE WriterAhead'
      BY DEF WriterAhead
    <2>1. idx' = idx /\ failed = "none"
      BY <1>1
    <2>2. \A k \in Kinds, d \in Docs : ~InFlight(k, d)
      BY <1>1, LockFacts DEF IInv, InFlight, LockedSteps, WriteSteps
    <2> QED
      BY <1>1, <2>1, <2>2 DEF IInv, WriterAhead
  <1> QED
    BY <1>4, <1>6, <1>7, <1>8, <1>9, <1>10 DEF IInv

-----------------------------------------------------------------------------
(* Compaction *)

(* The store's snapshot is unpublished. *)
LEMMA CompactSafe ==
  ASSUME IInv, NEW t \in Threads, Compact(t)
  PROVE  IInv'
  <1> DEFINE j == [step |-> "compacted"]
  <1>1. /\ boot = "up" /\ hold = Nobody /\ hold' = t /\ Goto(t, j)
        /\ idx' = idx /\ view' = [k \in Kinds |-> FALSE] /\ snapSeq' = 0 /\ dead' = FALSE
        /\ UNCHANGED <<docs, nextSeq, since, file, state, boot, crashes, failed>>
    BY PromotedIsIdx DEF Compact, Enters, Keep, saved, IInv
  <1>2. j \in Jobs /\ j.step \in LockedSteps /\ j.step = "compacted"
    BY DEF Jobs, LockedSteps
  <1>3. /\ ProcessTypes' /\ at'[t] = j
        /\ \A u \in Threads \ {t} : at'[u] = at[u] /\ at[u].step \notin LockedSteps
    BY <1>1, <1>2, MoveFacts DEF IInv, ProcessTypes
  <1>4. LogTypes'
    <2>1. snapSeq' \in 0 .. MaxSeq
      BY <1>1, ShardAssumption
    <2>2. dead' \in BOOLEAN
      BY <1>1
    <2> QED
      BY <1>1, <2>1, <2>2 DEF IInv, LogTypes
  <1>5. NumbersBehind'
    <2>1. \A l \in since : l.next \in Nat /\ l.next >= 1
      BY DEF IInv, LogTypes
    <2> QED
      BY <1>1, <2>1 DEF IInv, NumbersBehind, Log
  <1>6. IndexTypes' /\ MappedIsFile'
    BY <1>1 DEF IInv, IndexTypes, MappedIsFile
  <1>7. FilesSound' /\ StateLast' /\ OpenReads'
    BY <1>1 DEF IInv, FilesSound, StateLast, OpenReads
  <1>8. SaveProgress'
    BY <1>2, <1>3 DEF SaveProgress, SaveSteps, LockedSteps
  <1>9. WriterAhead'
    <2>1. \A k \in Kinds, d \in Docs : ~InFlight(k, d)
      BY <1>1, LockFacts DEF IInv, InFlight, LockedSteps, WriteSteps
    <2> QED
      BY <1>1, <2>1 DEF IInv, WriterAhead
  <1> QED
    BY <1>3, <1>4, <1>5, <1>6, <1>7, <1>8, <1>9 DEF IInv

(* It is published again, and the lock is released before the snapshot of  *)
(* the indexes.                                                            *)
LEMMA CompactMetaSafe ==
  ASSUME IInv, NEW t \in Threads, CompactMeta(t)
  PROVE  IInv'
  <1> DEFINE j == [step |-> "resnapshot"]
  <1>1. /\ boot = "up" /\ hold = t /\ at[t].step = "compacted"
        /\ hold' = Nobody /\ Goto(t, j) /\ since' = {Log} /\ snapSeq' = nextSeq - 1
        /\ UNCHANGED <<docs, nextSeq, dead, idx, view, file, state, boot, crashes, failed>>
    BY DEF CompactMeta, Inside, Release, indexes, saved
  <1>2. j \in Jobs /\ j.step = "resnapshot" /\ j.step \notin LockedSteps
        /\ j.step \notin WriteSteps
    BY DEF Jobs, LockedSteps, WriteSteps, SaveSteps
  <1>3. ThreadStep(t, j) /\ at[t].step \notin WriteSteps
    BY <1>1, <1>2 DEF ThreadStep, WriteSteps
  <1>4. snapSeq' \in 0 .. MaxSeq /\ \A l \in since' : snapSeq' < l.next
    BY <1>1, NumbersFacts
  <1>5. failed' = failed /\ failed \in {"none", "failed", "saved"}
    BY <1>1 DEF IInv, ProcessTypes
  <1> HIDE DEF j
  <1>6. /\ LogTypes' /\ ProcessTypes' /\ WriterAhead' /\ OpenReads'
        /\ NumbersBehind' /\ IndexTypes' /\ FilesSound' /\ StateLast' /\ MappedIsFile'
        /\ at'[t] = j
        /\ \A u \in Threads \ {t} : at'[u] = at[u] /\ at[u].step \notin LockedSteps
    BY <1>1, <1>2, <1>3, <1>4, <1>5, ThreadStepSafe
  <1>7. SaveProgress'
    BY <1>2, <1>6 DEF SaveProgress, SaveSteps, LockedSteps
  <1> QED
    BY <1>6, <1>7 DEF IInv

-----------------------------------------------------------------------------
(* Crashing and opening *)

(* With every thread idle and the lock free there is nothing in progress. *)
LEMMA NoThreads ==
  ASSUME ProcessTypes, boot # "up"
  PROVE  /\ hold = Nobody
         /\ \A t \in Threads : at[t].step = "idle"
  BY DEF ProcessTypes, LockedSteps, WriteSteps, SaveSteps

(* A crash: a write that was cut short leaves a log with a new number. *)
LEMMA CrashSafe ==
  ASSUME IInv, Crash
  PROVE  IInv'
  <1> DEFINE new == [docs |-> docs', next |-> nextSeq']
  <1>1. /\ boot' = "down" /\ hold' = Nobody /\ at' = [t \in Threads |-> Idle]
        /\ idx' = [k \in Kinds |-> Empty] /\ view' = [k \in Kinds |-> FALSE]
        /\ crashes < MaxCrashes /\ crashes' = crashes + 1
        /\ UNCHANGED <<dead, file, state, failed>>
        /\ snapSeq' \in {snapSeq, 0}
    BY DEF Crash, saved
  <1>2. \/ UNCHANGED <<docs, nextSeq, since>>
        \/ /\ docs' \in Versions /\ nextSeq <= MaxSeq /\ nextSeq' = nextSeq + 1
           /\ since' = since \cup {new}
    <2>1. docs' = docs \/ (\E d \in Docs : docs' = [docs EXCEPT ![d] = 0])
      BY DEF Crash
    <2>2. docs' \in Versions
      BY <2>1, ShardAssumption DEF IInv, LogTypes, Versions
    <2> QED
      BY <2>2 DEF Crash
  <1>3. LogTypes'
    <2>1. snapSeq' \in 0 .. MaxSeq
      BY <1>1, ShardAssumption DEF IInv, LogTypes
    <2>2. docs' \in Versions /\ nextSeq' \in 1 .. MaxSeq + 1
      BY <1>2, ShardAssumption DEF IInv, LogTypes
    <2>3. new \in [docs : Versions, next : 1 .. MaxSeq + 1]
      BY <2>2
    <2>4. since' \subseteq [docs : Versions, next : 1 .. MaxSeq + 1]
      BY <1>2, <2>3 DEF IInv, LogTypes
    <2>5. dead' \in BOOLEAN
      BY <1>1 DEF IInv, LogTypes
    <2> QED
      BY <2>1, <2>2, <2>4, <2>5, Zenon DEF LogTypes
  <1>4. IndexTypes'
    <2>1. Empty \in Versions
      BY ShardAssumption DEF Empty, Versions
    <2> QED
      BY <1>1, <2>1 DEF IInv, IndexTypes
  <1>5. ProcessTypes'
    <2>1. Idle \in Jobs /\ Idle.step = "idle" /\ Idle.step \notin LockedSteps
      BY DEF Idle, Jobs, LockedSteps, WriteSteps, SaveSteps
    <2> QED
      BY <1>1, <2>1, ShardAssumption DEF IInv, ProcessTypes
  <1>6. /\ nextSeq \in Nat /\ state \in Int /\ snapSeq \in Int
        /\ \A l \in since : l.next \in Nat /\ l.next >= 1
        /\ Log \in since /\ state < nextSeq /\ snapSeq < nextSeq
    BY DEF IInv, LogTypes, IndexTypes, NumbersBehind, Log
  <1>7. NumbersBehind'
    <2>1. CASE UNCHANGED <<docs, nextSeq, since>>
      BY <1>1, <1>6, <2>1 DEF IInv, NumbersBehind, Log
    <2>2. CASE nextSeq' = nextSeq + 1 /\ since' = since \cup {new}
      <3>1. Log' = new /\ new.next = nextSeq' /\ new.docs = docs'
        BY DEF Log
      <3> HIDE DEF new
      <3>2. ASSUME NEW l \in since'
            PROVE  /\ l.next <= nextSeq' /\ (l.next = nextSeq' => l.docs = docs')
                   /\ state' < l.next /\ snapSeq' < l.next
        <4>1. CASE l \in since
          BY <1>1, <1>6, <2>2, <4>1 DEF IInv, NumbersBehind
        <4>2. CASE l = new
          BY <1>1, <1>6, <2>2, <3>1, <4>2
        <4> QED
          BY <2>2, <4>1, <4>2
      <3> QED
        BY <2>2, <3>1, <3>2 DEF NumbersBehind
    <2> QED
      BY <1>2, <2>1, <2>2
  <1>8. FilesSound'
    <2>1. \A l \in since' : l \in since \/ l.next # state + 1
      BY <1>2, <1>6
    <2> QED
      BY <1>1, <2>1 DEF IInv, FilesSound
  <1>9. StateLast' /\ WriterAhead' /\ OpenReads'
    BY <1>1 DEF StateLast, WriterAhead, OpenReads
  <1>10. MappedIsFile' /\ SaveProgress'
    BY <1>1 DEF MappedIsFile, SaveProgress, Idle, SaveSteps
  <1> QED
    BY <1>3, <1>4, <1>5, <1>7, <1>8, <1>9, <1>10 DEF IInv

(* A power loss leaves one of the logs in since. *)
LEMMA PowerLossSafe ==
  ASSUME IInv, PowerLoss
  PROVE  IInv'
  <1>1. PICK l \in since : docs' = l.docs /\ nextSeq' = l.next /\ since' = {l}
    BY DEF PowerLoss
  <1>2. /\ boot = "down" /\ crashes < MaxCrashes /\ crashes' = crashes + 1
        /\ UNCHANGED <<snapSeq, dead, idx, view, file, state, boot, hold, at, failed>>
    BY DEF PowerLoss, indexes, saved
  <1>3. l \in [docs : Versions, next : 1 .. MaxSeq + 1]
    BY DEF IInv, LogTypes
  <1>4. l.docs \in Versions /\ l.next \in 1 .. MaxSeq + 1 /\ Log' = l
    BY <1>1, <1>3 DEF Log
  <1>5. LogTypes'
    BY <1>1, <1>2, <1>3, <1>4 DEF IInv, LogTypes
  <1>6. IndexTypes' /\ StateLast' /\ MappedIsFile' /\ OpenReads' /\ WriterAhead'
    BY <1>2 DEF IInv, IndexTypes, StateLast, MappedIsFile, OpenReads, WriterAhead
  <1>7. ProcessTypes'
    BY <1>2, ShardAssumption DEF IInv, ProcessTypes
  <1>8. NumbersBehind'
    BY <1>1, <1>2, <1>4 DEF IInv, NumbersBehind
  <1>9. FilesSound'
    BY <1>1, <1>2 DEF IInv, FilesSound
  <1>10. SaveProgress'
    BY <1>2, NoThreads DEF IInv, SaveProgress, SaveSteps
  <1> QED
    BY <1>5, <1>6, <1>7, <1>8, <1>9, <1>10 DEF IInv

(* Files an open would trust are those of the log. *)
LEMMA TrustedFiles ==
  ASSUME IInv
  PROVE  SavedSound
  BY NumbersFacts DEF IInv, SavedSound, Usable, FilesSound

(* A step of an open: the log stays, no thread is at work. *)
LEMMA OpenStepSafe ==
  ASSUME IInv, boot # "up", UNCHANGED <<store, hold, at, crashes, failed>>,
         boot' \in {"up", "down", "summaries", "state", "rebuild"}, IndexTypes',
         state' \in {state, NoState}
  PROVE  LogTypes' /\ ProcessTypes' /\ NumbersBehind' /\ SaveProgress'
  <1>1. UNCHANGED <<docs, nextSeq, snapSeq, dead, since>>
    BY DEF store
  <1>2. hold = Nobody /\ \A t \in Threads : at[t].step = "idle"
    BY NoThreads DEF IInv
  <1>3. LogTypes'
    BY <1>1 DEF IInv, LogTypes
  <1>4. ProcessTypes'
    BY <1>2 DEF IInv, ProcessTypes
  <1>5. NumbersBehind'
    <2>1. \A l \in since : l.next \in Nat /\ state < l.next
      BY DEF IInv, LogTypes, NumbersBehind
    <2>2. \A l \in since : state' < l.next
      BY <2>1 DEF NoState
    <2> QED
      BY <1>1, <2>2 DEF IInv, NumbersBehind, Log
  <1>6. SaveProgress'
    BY <1>2 DEF SaveProgress, SaveSteps
  <1> QED
    BY <1>3, <1>4, <1>5, <1>6

(* An open that trusts the files. *)
LEMMA OpenSavedSafe ==
  ASSUME IInv, OpenSaved
  PROVE  IInv' /\ (failed # "saved" => \A k \in Kinds : idx'[k] = docs')
  <1>1. /\ boot = "down" /\ Usable /\ idx' = file /\ boot' = "up"
        /\ view' \in [Kinds -> BOOLEAN]
        /\ UNCHANGED <<store, file, state, hold, at, crashes, failed>>
    BY DEF OpenSaved, saved
  <1>2. UNCHANGED <<docs, nextSeq, snapSeq, dead, since>>
    BY <1>1 DEF store
  <1>3. IndexTypes'
    BY <1>1 DEF IInv, IndexTypes, Usable
  <1>4. LogTypes' /\ ProcessTypes' /\ NumbersBehind' /\ SaveProgress'
    BY <1>1, <1>3, OpenStepSafe
  <1>5. failed # "saved" => \A k \in Kinds : idx'[k] = docs'
    BY <1>1, <1>2, TrustedFiles DEF SavedSound
  <1>6. FilesSound' /\ StateLast' /\ OpenReads'
    BY <1>1, <1>2 DEF IInv, FilesSound, StateLast, OpenReads, Usable
  <1>7. MappedIsFile'
    BY <1>1, NoThreads DEF IInv, MappedIsFile, WriteSteps
  <1>8. WriterAhead'
    BY <1>1, <1>5 DEF WriterAhead
  <1> QED
    BY <1>3, <1>4, <1>5, <1>6, <1>7, <1>8 DEF IInv

(* An open that does not, and removes them. *)
LEMMA OpenDiscardSafe ==
  ASSUME IInv, OpenDiscard
  PROVE  IInv'
  <1>1. /\ boot = "down" /\ boot' = "summaries"
        /\ file' = [file EXCEPT !["splits"] = NoFile]
        /\ UNCHANGED <<store, view, state, hold, at, crashes, failed>>
    BY DEF OpenDiscard
  <1>2. PICK read \in SUBSET Kinds :
          /\ read # {} => Usable
          /\ idx' = [k \in Kinds |-> IF k \in read THEN file[k] ELSE Empty]
    BY DEF OpenDiscard
  <1>3. UNCHANGED <<docs, nextSeq, snapSeq, dead, since>>
    BY <1>1 DEF store
  <1>4. \A k \in read : file[k] \in Versions /\ (failed # "saved" => file[k] = docs)
    BY <1>2, TrustedFiles DEF IInv, IndexTypes, Usable, SavedSound
  <1>5. file'["splits"] = NoFile /\ file' \in [Kinds -> Versions \cup {NoFile}]
    BY <1>1 DEF IInv, IndexTypes, Kinds
  <1>6. IndexTypes'
    <2>1. Empty \in Versions
      BY ShardAssumption DEF Empty, Versions
    <2> QED
      BY <1>1, <1>2, <1>4, <1>5, <2>1 DEF IInv, IndexTypes
  <1>7. LogTypes' /\ ProcessTypes' /\ NumbersBehind' /\ SaveProgress'
    BY <1>1, <1>6, OpenStepSafe
  <1>8. FilesSound' /\ StateLast' /\ WriterAhead'
    BY <1>1, <1>5 DEF FilesSound, StateLast, WriterAhead, Kinds
  <1>9. MappedIsFile'
    BY <1>1 DEF IInv, MappedIsFile
  <1>10. OpenReads'
    BY <1>1, <1>2, <1>3, <1>4, <1>5 DEF OpenReads
  <1> QED
    BY <1>6, <1>7, <1>8, <1>9, <1>10 DEF IInv

(* The removals that follow. *)
LEMMA OpenRemoveSafe ==
  ASSUME IInv, OpenRemove
  PROVE  IInv'
  <1>1. /\ boot \in {"summaries", "state"} /\ boot' \in {"state", "rebuild"}
        /\ UNCHANGED <<docs, nextSeq, snapSeq, dead, since, idx, view, hold, at, crashes,
                       failed>>
    BY DEF OpenRemove, store, indexes
  <1>2. \/ /\ boot = "summaries" /\ boot' = "state" /\ state' = state
           /\ file' = [file EXCEPT !["summaries"] = NoFile]
        \/ boot = "state" /\ boot' = "rebuild" /\ state' = NoState /\ file' = file
    BY DEF OpenRemove
  <1>3. file["splits"] = NoFile /\ (boot = "state" => file["summaries"] = NoFile)
    BY <1>1 DEF IInv, OpenReads
  <1>4. \A k \in Kinds : file'[k] = NoFile
    BY <1>2, <1>3 DEF IInv, IndexTypes, Kinds
  <1>5. IndexTypes'
    BY <1>1, <1>2, ShardAssumption DEF IInv, IndexTypes, Kinds, NoState
  <1>6. LogTypes' /\ ProcessTypes' /\ NumbersBehind' /\ SaveProgress'
    BY <1>1, <1>2, <1>5, OpenStepSafe DEF store
  <1>7. FilesSound' /\ StateLast' /\ WriterAhead'
    BY <1>1, <1>4 DEF FilesSound, StateLast, WriterAhead, Kinds
  <1>8. MappedIsFile'
    BY <1>1 DEF IInv, MappedIsFile
  <1>9. OpenReads'
    BY <1>1, <1>2, <1>4 DEF IInv, OpenReads, Kinds
  <1> QED
    BY <1>5, <1>6, <1>7, <1>8, <1>9 DEF IInv

(* The rebuild that ends such an open. *)
LEMMA OpenRebuildSafe ==
  ASSUME IInv, OpenRebuild
  PROVE  IInv' /\ (failed # "saved" => \A k \in Kinds : idx'[k] = docs')
  <1>1. /\ boot = "rebuild" /\ boot' = "up"
        /\ idx' = [k \in Kinds |-> [d \in Docs |-> IF docs[d] # 0 THEN docs[d] ELSE idx[k][d]]]
        /\ UNCHANGED <<docs, nextSeq, snapSeq, dead, since, view, file, state, hold, at,
                       crashes, failed>>
    BY DEF OpenRebuild, store, saved
  <1>2. state = NoState
    BY <1>1 DEF IInv, OpenReads
  <1>3. IndexTypes'
    BY <1>1 DEF IInv, IndexTypes, LogTypes, Versions
  <1>4. LogTypes' /\ ProcessTypes' /\ NumbersBehind' /\ SaveProgress'
    BY <1>1, <1>3, OpenStepSafe DEF store
  <1>5. ASSUME failed # "saved", NEW k \in Kinds PROVE idx'[k] = docs'
    <2>1. idx[k] = Empty \/ idx[k] = docs
      BY <1>1, <1>5 DEF IInv, OpenReads
    <2>2. \A d \in Docs : idx'[k][d] = docs[d]
      BY <1>1, <2>1 DEF Empty
    <2>3. idx'[k] \in Versions
      BY <1>3 DEF IndexTypes
    <2> QED
      BY <1>1, <2>2, <2>3 DEF IInv, LogTypes, Versions
  <1>6. FilesSound' /\ StateLast' /\ OpenReads'
    BY <1>1, <1>2 DEF FilesSound, StateLast, OpenReads
  <1>7. MappedIsFile'
    BY <1>1 DEF IInv, MappedIsFile
  <1>8. WriterAhead'
    BY <1>1, <1>5 DEF WriterAhead
  <1> QED
    BY <1>3, <1>4, <1>5, <1>6, <1>7, <1>8 DEF IInv

(* An open that fails. *)
LEMMA OpenFailsSafe ==
  ASSUME IInv, OpenFails
  PROVE  IInv'
  <1>1. /\ boot # "up" /\ boot' = "down" /\ idx' = [k \in Kinds |-> Empty]
        /\ UNCHANGED <<docs, nextSeq, snapSeq, dead, since, view, file, state, hold, at,
                       crashes, failed>>
    BY DEF OpenFails, store, saved
  <1>2. IndexTypes'
    <2>1. Empty \in Versions
      BY ShardAssumption DEF Empty, Versions
    <2> QED
      BY <1>1, <2>1 DEF IInv, IndexTypes
  <1>3. LogTypes' /\ ProcessTypes' /\ NumbersBehind' /\ SaveProgress'
    BY <1>1, <1>2, OpenStepSafe DEF store
  <1>4. FilesSound' /\ StateLast' /\ WriterAhead' /\ OpenReads'
    BY <1>1 DEF IInv, FilesSound, StateLast, WriterAhead, OpenReads
  <1>5. MappedIsFile'
    BY <1>1 DEF IInv, MappedIsFile
  <1> QED
    BY <1>2, <1>3, <1>4, <1>5 DEF IInv

-----------------------------------------------------------------------------
(* Every step preserves the invariant. *)
LEMMA NextSafe == IInv /\ [Next]_vars => IInv'
  <1> SUFFICES ASSUME IInv, [Next]_vars PROVE IInv'
    OBVIOUS
  <1>1. CASE UNCHANGED vars
    BY <1>1 DEF vars, IInv, LogTypes, IndexTypes, ProcessTypes, NumbersBehind, FilesSound,
                StateLast, MappedIsFile, SaveProgress, WriterAhead, OpenReads, InFlight, Log
  <1>2. CASE Restart
    BY <1>2, CrashSafe, PowerLossSafe, OpenSavedSafe, OpenDiscardSafe, OpenRemoveSafe,
       OpenRebuildSafe, OpenFailsSafe DEF Restart
  <1>3. ASSUME NEW t \in Threads, Call(t) PROVE IInv'
    <2>1. ASSUME NEW d \in Docs, Insert(t, d) PROVE IInv'
      <3>1. nextSeq \in 0 .. MaxSeq
        BY <2>1 DEF Insert, StoreWrite, IInv, LogTypes
      <3> QED
        BY <2>1, <3>1, StoreWriteSafe DEF Insert
    <2>2. ASSUME NEW d \in Docs, Delete(t, d) PROVE IInv'
      BY <2>2, StoreWriteSafe, ShardAssumption DEF Delete
    <2>3. CASE Snapshot(t, "snapshot") \/ Snapshot(t, "demote")
      BY <2>3, SnapshotSafe DEF Whys
    <2> QED
      BY <1>3, <2>1, <2>2, <2>3, PromoteOnlySafe, CompactSafe, FsyncSafe DEF Call
  <1>4. ASSUME NEW t \in Threads, Step(t) PROVE IInv'
    <2>1. CASE Snapshot(t, "compact")
      BY <2>1, SnapshotSafe DEF Whys
    <2> QED
      BY <1>4, <2>1, IndexSplitsSafe, IndexSummariesSafe, IndexFailsSafe, SaveSplitsSafe,
         SaveSummariesSafe, SaveStateSafe, SaveMetaSafe, SaveFailsSafe, DemoteMapSafe,
         DemoteFailsSafe, CompactMetaSafe DEF Step
  <1> QED
    BY <1>1, <1>2, <1>3, <1>4 DEF Next

(* The invariant holds in every reachable state. *)
LEMMA ShardInvariant == Spec => []IInv
  BY InitSafe, NextSafe, PTL DEF Spec

(* Every variable keeps its type and the lock's holder is inside a section *)
(* (Shard's RwLock, shard.rs).                                             *)
THEOREM ShardTypes == Spec => []TypeOK
  <1>1. IInv => TypeOK
    BY DEF IInv, TypeOK, LogTypes, IndexTypes, ProcessTypes, LockedSteps, WriteSteps, SaveSteps
  <1> QED
    BY <1>1, ShardInvariant, PTL

(* Index files that an open would trust are those of the log it opens,     *)
(* whatever was interrupted and whatever a power loss took back            *)
(* (snapshot_is_usable, write_snapshot).                                   *)
THEOREM TrustedFilesAreTheLogs == Spec => []SavedSound
  BY TrustedFiles, ShardInvariant, PTL

(* While nobody writes, a search sees exactly the documents and versions   *)
(* the log has, until an index refuses an update or a demotion maps an     *)
(* older file (insert, delete, open_with).                                 *)
THEOREM SearchesSeeTheLog == Spec => []IndexesAgree
  <1>1. ASSUME IInv PROVE IndexesAgree
    <2> SUFFICES ASSUME failed = "none", boot = "up", hold = Nobody, NEW k \in Kinds
                 PROVE  idx[k] = docs
      BY DEF IndexesAgree
    <2>1. \A d \in Docs : ~InFlight(k, d)
      BY <1>1, LockFacts DEF IInv, InFlight, LockedSteps, WriteSteps
    <2>2. \A d \in Docs : idx[k][d] = docs[d]
      BY <1>1, <2>1 DEF IInv, WriterAhead
    <2> QED
      BY <1>1, <2>2 DEF IInv, IndexTypes, LogTypes, Versions
  <1> QED
    BY <1>1, ShardInvariant, PTL

(* Every open repairs an index that differed from the log, unless a save   *)
(* was begun in between (open_with, rebuild).                              *)
THEOREM OpensRepair == Spec => OpenRepairsUnsaved
  <1> DEFINE Repairs == boot # "up" /\ boot' = "up" /\ failed # "saved" =>
                          \A k \in Kinds : idx'[k] = docs'
  <1>1. ASSUME IInv, [Next]_vars PROVE [Repairs]_vars
    <2> SUFFICES ASSUME Next, boot # "up", boot' = "up", failed # "saved"
                 PROVE  \A k \in Kinds : idx'[k] = docs'
      BY <1>1
    <2>1. ASSUME NEW t \in Threads, Call(t) \/ Step(t) PROVE boot' = boot
      BY <2>1 DEF Call, Step, PromoteOnly, Insert, Delete, StoreWrite, IndexSplits,
         IndexSummaries, IndexFails, Snapshot, SaveSplits, SaveSummaries, SaveState,
         SaveMeta, SaveFails, DemoteMap, DemoteFails, Fsync, Compact, CompactMeta
    <2>2. Restart
      BY <2>1 DEF Next
    <2>3. OpenSaved \/ OpenRebuild
      BY <2>2 DEF Restart, Crash, PowerLoss, OpenDiscard, OpenRemove, OpenFails
    <2> QED
      BY <1>1, <2>3, OpenSavedSafe, OpenRebuildSafe
  <1> QED
    BY <1>1, ShardInvariant, PTL DEF Spec, OpenRepairsUnsaved
=============================================================================
