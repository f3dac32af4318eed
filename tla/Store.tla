-------------------------------- MODULE Store --------------------------------
(***************************************************************************)
(* One workspace's record store: an append-only log cut into segments, the *)
(* manifest naming them, the meta snapshot that lets an open skip replay,  *)
(* and the maps the process serves reads from (embedding-store: store.rs,  *)
(* segment.rs, manifest.rs, meta_snapshot.rs, compact.rs).                 *)
(*                                                                         *)
(* The caller holds the shard's write lock for a whole operation, so what  *)
(* can fall between two steps of one is a crash.  An operation is therefore *)
(* cut exactly where the disk changes: each action below ends in at most   *)
(* one durable effect, and Crash is enabled after every one of them.       *)
(* PowerLoss additionally takes the part of the active segment that was    *)
(* never synced.                                                           *)
(*                                                                         *)
(* This is the store whose disk operations succeed, but for an append that *)
(* fails and is rewound, and a compaction that fails before it has changed *)
(* anything.  A rewind, a flush, a seal or a compaction that fails and     *)
(* leaves the process running with what it had half done is in             *)
(* StoreFaults, and what Spec promises does not hold after all of those.   *)
(***************************************************************************)
EXTENDS RecordLog

CONSTANTS SegmentMax,     \* opts.segment_max_bytes, in records
          CompactPercent, \* the compaction ratio, in percent
          MaxSeq,         \* bound: sequence numbers handed out
          MaxSegments,    \* bound: segment ids handed out
          MaxCrashes      \* bound: crashes and power losses together

ASSUME StoreAssumption ==
  /\ SegmentMax \in Nat \ {0}
  /\ CompactPercent \in Nat
  /\ MaxSeq \in Nat /\ MaxSegments \in Nat /\ MaxCrashes \in Nat

VARIABLES
  files,    \* segment id -> [recs, synced]: the file, and how much is on the device
  man,      \* the manifest on disk
  snap,     \* meta.snap on disk
  m,        \* Store.manifest
  active,   \* Store.active.id
  lastSeq,  \* Store.active.last_seq
  buf,      \* records appended but still in the active segment's BufWriter
  maps,     \* Store.maps
  pend,     \* Store.pending_tombstone_bytes
  op,       \* the operation in progress and how far it got
  since,    \* history: what a power loss may leave, since the last sync
  expect,   \* history: while closed, what an open may recover
  crashes   \* bound counter

disk == <<files, man, snap>>
memory == <<m, active, lastSeq, buf, maps, pend>>
promise == <<since, expect>>
vars == <<files, man, snap, m, active, lastSeq, buf, maps, pend, op, since, expect, crashes>>

-----------------------------------------------------------------------------
(* Helpers *)

NoSnapshot == [exists |-> FALSE]
At(step) == [step |-> step]
Up == op.step \notin {"down", "reject", "replay", "broken"}

Max2(a, b) == IF a > b THEN a ELSE b

SealedIds(man_) == {man_.sealed[i].id : i \in DOMAIN man_.sealed}

(* Manifest::sealed_bytes. *)
SealedBytes(man_) ==
  LET sum[i \in 0 .. Len(man_.sealed)] ==
        IF i = 0 THEN 0 ELSE sum[i - 1] + man_.sealed[i].bytes
  IN  sum[Len(man_.sealed)]

(* ActiveSegment::len. *)
ActiveLen == Len(files[active].recs) + Len(buf)

RecordAt(loc) == files[loc.seg].recs[loc.off]

EmptySegment == [recs |-> <<>>, synced |-> 0]
Synced(f) == [recs |-> f.recs, synced |-> Len(f.recs)]

(* A state the documents were in between two operations. *)
Whole(versions) == [docs |-> versions, lost |-> "nothing"]
(* The same after a replacement whose DeleteDoc landed and whose Doc did not. *)
TornOff(versions) == [docs |-> versions, lost |-> "torn"]

-----------------------------------------------------------------------------
(* Init: Store::open on an empty directory, Manifest::new.  *)

NewManifest ==
  [sealed |-> <<>>, active |-> 0, nextSegmentId |-> 1, nextSeq |-> 1,
   snapshotSeq |-> 0, tombstones |-> 0]

Init ==
  /\ files = [id \in {0} |-> EmptySegment]
  /\ man = NewManifest
  /\ snap = NoSnapshot
  /\ m = NewManifest
  /\ active = 0
  /\ lastSeq = 0
  /\ buf = <<>>
  /\ maps = EmptyMaps
  /\ pend = 0
  /\ op = At("idle")
  /\ since = {Whole([d \in Docs |-> 0])}
  /\ expect = {}
  /\ crashes = 0

-----------------------------------------------------------------------------
(* Writing *)

(* append_document's records, in order: the DeleteDoc of a replacement,    *)
(* summaries, splits, and the Doc record last.                             *)
DocumentRecords(d, c, seq) ==
  LET replaces == d \in DOMAIN maps.docs
      base == IF replaces THEN seq + 1 ELSE seq
      n == c.splits
  IN  (IF replaces THEN <<DeleteRecord(seq, d)>> ELSE <<>>)
      \o [i \in 1 .. n |-> SummaryRecord(base + i - 1, d, i)]
      \o [i \in 1 .. n |-> SplitRecord(base + n + i - 1, d, i)]
      \o <<DocRecord(base + 2 * n, d, c)>>

(* Store::insert up to the end of append_document.  The records sit in the *)
(* BufWriter, which writes through whenever it fills: how much of it       *)
(* reaches the file before a crash is Crash's choice.                      *)
AppendDocument(d, c) ==
  LET recs == DocumentRecords(d, c, m.nextSeq)
  IN  /\ op.step = "idle"
      /\ m.nextSeq + Len(recs) <= MaxSeq + 1
      /\ m.nextSegmentId <= MaxSegments
      /\ buf' = recs
      /\ m' = [m EXCEPT !.nextSeq = @ + Len(recs)]
      /\ lastSeq' = m.nextSeq + Len(recs) - 1
      /\ op' = [step |-> "insert", doc |-> d, content |-> c, rewindSeq |-> m.nextSeq]
      /\ UNCHANGED <<disk, active, maps, pend, promise, crashes>>

(* An append failed and the rewind succeeded: insert puts the segment and  *)
(* next_seq back.  last_seq stays at whatever record was the last one      *)
(* appended.  The rewind that fails in its turn (store.rs:285-290) is      *)
(* StoreFaults!RewindFails.                                                *)
InsertRewind ==
  /\ op.step = "insert"
  /\ \E i \in DOMAIN buf : lastSeq' = buf[i].seq
  /\ buf' = <<>>
  /\ m' = [m EXCEPT !.nextSeq = op.rewindSeq]
  /\ op' = At("idle")
  /\ UNCHANGED <<disk, active, maps, pend, promise, crashes>>

(* What a crash during the operation in progress may turn the documents    *)
(* into, beside leaving them as they are.                                  *)
InFlight ==
  LET now == Versions(maps)
  IN  CASE op.step = "insert" ->
             {Whole([now EXCEPT ![op.doc] = buf[Len(buf)].seq])}
             \cup (IF op.doc \in DOMAIN maps.docs
                   THEN {TornOff([now EXCEPT ![op.doc] = 0])} ELSE {})
        [] op.step = "delete" -> {Whole([now EXCEPT ![op.doc] = 0])}
        [] OTHER -> {}

(* The dead records a removal leaves, counted by where they lie. *)
MutFreedSign(d, inActive) ==
  0 - Cardinality({l \in FreedLocs(maps, d) : (l.seg = active) = inActive})
MutFreedTwice(d, inActive) == Cardinality(FreedLocs(maps, d))
FreedIn(d, inActive) ==
  Cardinality({l \in FreedLocs(maps, d) : (l.seg = active) = inActive})

(* ActiveSegment::flush of everything buffered. *)
Flushed == [files EXCEPT ![active].recs = @ \o buf]

(* seal_if_needed: what follows a write at an insert boundary. *)
AfterWrite ==
  IF ActiveLen >= SegmentMax THEN At("seal") ELSE At("idle")

(* Store::insert after append_document: the maps, the accounting, flush.   *)
(* A flush that fails by then (store.rs:337, for a delete 467) is          *)
(* StoreFaults!FlushFails.                                                 *)
InsertCommit ==
  LET d == op.doc
      c == op.content
      n == c.splits
      base == ActiveLen - 2 * n - 1
      at(i) == [seg |-> active, off |-> i]
      entry == [splits |-> 1 .. n,
                list |-> IF c.listed THEN 1 .. n ELSE {},
                extra |-> IF c.listed THEN {} ELSE 1 .. n,
                seq |-> buf[Len(buf)].seq, loc |-> at(ActiveLen)]
      summaryLocs == [k \in Keys(d, 1 .. n) |-> at(base + k[2])]
      splitLocs == [k \in Keys(d, 1 .. n) |-> at(base + n + k[2])]
      replaces == d \in DOMAIN maps.docs
  IN  /\ op.step = "insert"
      /\ maps' = PutDoc(RemoveDoc(maps, d), d, entry, splitLocs, summaryLocs)
      /\ m' = IF replaces THEN [m EXCEPT !.tombstones = @ + FreedIn(d, FALSE)] ELSE m
      /\ pend' = IF replaces THEN pend + FreedIn(d, TRUE) ELSE pend
      /\ files' = Flushed
      /\ buf' = <<>>
      /\ since' = since \cup InFlight
      /\ op' = AfterWrite
      /\ UNCHANGED <<man, snap, active, lastSeq, expect, crashes>>

(* Store::delete up to its append; a document that is not there is left alone. *)
AppendDelete(d) ==
  /\ op.step = "idle"
  /\ d \in DOMAIN maps.docs
  /\ m.nextSeq <= MaxSeq
  /\ m.nextSegmentId <= MaxSegments
  /\ buf' = <<DeleteRecord(m.nextSeq, d)>>
  /\ m' = [m EXCEPT !.nextSeq = @ + 1]
  /\ lastSeq' = m.nextSeq
  /\ op' = [step |-> "delete", doc |-> d]
  /\ UNCHANGED <<disk, active, maps, pend, promise, crashes>>

(* Store::delete after its append, when the flush succeeds. *)
DeleteCommit ==
  /\ op.step = "delete"
  /\ maps' = RemoveDoc(maps, op.doc)
  /\ m' = [m EXCEPT !.tombstones = @ + FreedIn(op.doc, FALSE)]
  /\ pend' = pend + FreedIn(op.doc, TRUE)
  /\ files' = Flushed
  /\ buf' = <<>>
  /\ since' = since \cup InFlight
  /\ op' = AfterWrite
  /\ UNCHANGED <<man, snap, active, lastSeq, expect, crashes>>

-----------------------------------------------------------------------------
(* Sealing *)

(* What old.seal() leaves on disk: the old segment synced, the new one     *)
(* created empty.                                                          *)
MutSwappedFiles == Put(files, m.nextSegmentId, EmptySegment)
SwappedFiles ==
  Put([files EXCEPT ![active] = Synced(@)], m.nextSegmentId, EmptySegment)

(* seal_active up to its manifest.store: claim an id, swap the new segment *)
(* in, sync the old one, update the manifest in memory.  Entered from      *)
(* seal_if_needed and, at any boundary, from Store::seal_active itself.    *)
MutSealActive ==
  LET new == m.nextSegmentId
      info == [id |-> active, bytes |-> ActiveLen, last |-> lastSeq]
  IN  /\ op.step = "seal" \/ (op.step = "idle" /\ new <= MaxSegments)
      /\ ActiveLen # 0
      /\ files' = SwappedFiles
      /\ m' = [m EXCEPT !.nextSegmentId = @ + 1, !.sealed = Append(@, info),
                        !.active = new, !.tombstones = @ + pend]
      /\ pend' = 0
      /\ since' = {Whole(Versions(maps))}
      /\ op' = At("sealPublish")
      /\ UNCHANGED <<man, snap, active, lastSeq, buf, maps, expect, crashes>>
SealActive ==
  LET new == m.nextSegmentId
      info == [id |-> active, bytes |-> ActiveLen, last |-> lastSeq]
  IN  /\ \/ op.step = "seal"
         \/ op.step = "idle" /\ new <= MaxSegments
      /\ ActiveLen # 0
      /\ files' = SwappedFiles
      /\ active' = new
      /\ lastSeq' = 0
      /\ m' = [m EXCEPT !.nextSegmentId = @ + 1,
                        !.sealed = Append(@, info),
                        !.active = new,
                        !.tombstones = @ + pend]
      /\ pend' = 0
      /\ since' = {Whole(Versions(maps))}
      /\ op' = At("sealPublish")
      /\ UNCHANGED <<man, snap, buf, maps, expect, crashes>>

(* manifest.store. *)
SealPublish ==
  /\ op.step = "sealPublish"
  /\ man' = m
  /\ op' = At("idle")
  /\ UNCHANGED <<files, snap, memory, promise, crashes>>

-----------------------------------------------------------------------------
(* Durability *)

(* Store::fsync. *)
Fsync ==
  /\ op.step = "idle"
  /\ files' = [files EXCEPT ![active] = Synced(@)]
  /\ since' = {Whole(Versions(maps))}
  /\ UNCHANGED <<man, snap, memory, op, expect, crashes>>

(* The sequence a snapshot taken now is caught up to. *)
MutSnapshotSeq == m.nextSeq
SnapshotSeq == m.nextSeq - 1

(* snapshot_meta: sync the log, then write meta.snap ...  Also the last    *)
(* act of a compaction.                                                    *)
SnapshotWrite ==
  /\ op.step \in {"idle", "snapshot"}
  /\ files' = [files EXCEPT ![active] = Synced(@)]
  /\ snap' = [exists |-> TRUE, seq |-> SnapshotSeq, maps |-> maps]
  /\ since' = {Whole(Versions(maps))}
  /\ op' = At("snapshotPublish")
  /\ UNCHANGED <<man, memory, expect, crashes>>

(* ... and only then the manifest that vouches for it. *)
SnapshotPublish ==
  /\ op.step = "snapshotPublish"
  /\ m' = [m EXCEPT !.snapshotSeq = SnapshotSeq]
  /\ man' = m'
  /\ op' = At("idle")
  /\ UNCHANGED <<files, snap, active, lastSeq, buf, maps, pend, promise, crashes>>

-----------------------------------------------------------------------------
(* Compaction *)

(* Store::needs_compaction. *)
NeedsCompaction ==
  /\ SealedBytes(m) > 0
  /\ m.tombstones * 100 > CompactPercent * SealedBytes(m)

Ascending(S) ==
  CHOOSE s \in [1 .. Cardinality(S) -> S] : \A i, j \in DOMAIN s : i < j => s[i] < s[j]

(* The locations compact_into copies, in order: per document in id order,  *)
(* its summaries, its splits, its Doc record.                              *)
CopyOrder ==
  LET inSealed == {d \in DOMAIN maps.docs : maps.docs[d].loc.seg \in SealedIds(m)}
      order == Ascending(inSealed)
      locs(f, d, parts) ==
        LET here == Ascending({i \in parts : <<d, i>> \in DOMAIN f})
        IN  [j \in DOMAIN here |-> f[<<d, here[j]>>]]
      group(d) ==
        LET e == maps.docs[d]
        IN  locs(maps.summaries, d, OwnedSummaries(e))
              \o locs(maps.splits, d, e.splits) \o <<e.loc>>
      all[i \in 0 .. Len(order)] ==
        IF i = 0 THEN <<>> ELSE all[i - 1] \o group(order[i])
  IN  all[Len(order)]

(* What copy_record insists on: the location reads, and decodes. *)
Decodes(loc) ==
  /\ loc.seg \in (SealedIds(m) \cup {active}) \cap DOMAIN files
  /\ loc.off \in DOMAIN files[loc.seg].recs
  /\ ~ IsTorn(RecordAt(loc))

(* compact up to writer.seal(): claim an id, copy the live records of the  *)
(* sealed segments verbatim into the new one and sync it.  When nothing is *)
(* live there is no new segment (drop_sealed).                             *)
MutCompactWrite ==
  LET new == m.nextSegmentId
      order == CopyOrder
      recs == [i \in DOMAIN order |-> RecordAt(order[i])]
  IN  /\ op.step = "idle" /\ new <= MaxSegments /\ NeedsCompaction
      /\ \A i \in DOMAIN order : Decodes(order[i])
      /\ files' = IF order = <<>> THEN files
                  ELSE Put(files, new, [recs |-> recs, synced |-> Len(recs)])
      /\ op' = [step |-> "compactUnsnap", seg |-> new, order |-> order]
      /\ UNCHANGED <<man, snap, memory, promise, crashes>>
CompactWrite ==
  LET new == m.nextSegmentId
      order == CopyOrder
      recs == [i \in DOMAIN order |-> RecordAt(order[i])]
  IN  /\ op.step = "idle"
      /\ new <= MaxSegments
      /\ NeedsCompaction
      /\ \A i \in DOMAIN order : Decodes(order[i])
      /\ files' = IF order = <<>> THEN files
                  ELSE Put(files, new, [recs |-> recs, synced |-> Len(recs)])
      /\ m' = [m EXCEPT !.nextSegmentId = @ + 1]
      /\ op' = [step |-> "compactUnsnap", seg |-> new, order |-> order]
      /\ UNCHANGED <<man, snap, active, lastSeq, buf, maps, pend, promise, crashes>>

(* An error on the way there: what was written goes, the id stays claimed. *)
CompactFails ==
  /\ op.step = "idle"
  /\ m.nextSegmentId <= MaxSegments
  /\ NeedsCompaction
  /\ m' = [m EXCEPT !.nextSegmentId = @ + 1]
  /\ UNCHANGED <<disk, active, lastSeq, buf, maps, pend, op, promise, crashes>>

(* The snapshot names the old locations: it goes before the manifest moves. *)
CompactUnsnap ==
  LET order == op.order
      seqs == {RecordAt(order[i]).seq : i \in DOMAIN order}
      info == [id |-> op.seg, bytes |-> Len(order),
               last |-> CHOOSE s \in seqs : \A t \in seqs : t <= s]
  IN  /\ op.step = "compactUnsnap"
      /\ snap' = NoSnapshot
      /\ m' = [m EXCEPT !.snapshotSeq = 0,
                        !.sealed = IF order = <<>> THEN <<>> ELSE <<info>>,
                        !.tombstones = 0]
      /\ op' = [step |-> "compactPublish", seg |-> op.seg, order |-> order]
      /\ UNCHANGED <<files, man, active, lastSeq, buf, maps, pend, promise, crashes>>

(* Where compaction moved a record; records it did not copy keep their      *)
(* location.                                                                *)
Relocate(loc) ==
  LET at == {i \in DOMAIN op.order : op.order[i] = loc}
  IN  IF at = {} THEN loc ELSE [seg |-> op.seg, off |-> CHOOSE i \in at : TRUE]

(* Until the active segment is synced, its tail holds deletes whose targets *)
(* the new manifest no longer reaches: a power loss that takes such a       *)
(* delete, or the replacement it belongs to, does not give the old version  *)
(* back.                                                                    *)
AfterDropping(s) ==
  LET here == {RecordAt([seg |-> active, off |-> i]).seq : i \in DOMAIN files[active].recs}
      kept(d) == s.docs[d] \in here \cup {Versions(maps)[d]}
      docs == [d \in Docs |-> IF kept(d) THEN s.docs[d] ELSE 0]
  IN  IF docs = s.docs THEN s ELSE [docs |-> docs, lost |-> "dropped"]

(* manifest.store, then the maps learn the new locations. *)
MutCompactPublish ==
  /\ op.step = "compactPublish"
  /\ since' = {AfterDropping(s) : s \in since}
  /\ man' = m
  /\ maps' = [maps EXCEPT !.docs = [d \in DOMAIN @ |-> [@[d] EXCEPT !.loc = Relocate(@)]],
                          !.splits = [k \in DOMAIN @ |-> Relocate(@[k])]]
  /\ op' = At("compactRemove")
  /\ UNCHANGED <<files, snap, m, active, lastSeq, buf, pend, expect, crashes>>
CompactPublish ==
  /\ op.step = "compactPublish"
  /\ since' = {AfterDropping(s) : s \in since}
  /\ man' = m
  /\ maps' = [docs |-> [d \in DOMAIN maps.docs |->
                          [maps.docs[d] EXCEPT !.loc = Relocate(@)]],
              splits |-> [k \in DOMAIN maps.splits |-> Relocate(maps.splits[k])],
              summaries |-> [k \in DOMAIN maps.summaries |-> Relocate(maps.summaries[k])]]
  /\ op' = At("compactRemove")
  /\ UNCHANGED <<files, snap, m, active, lastSeq, buf, pend, expect, crashes>>

(* The old segments are deleted; a fresh snapshot follows. *)
CompactRemove ==
  /\ op.step = "compactRemove"
  /\ files' = [id \in DOMAIN files \cap (SealedIds(m) \cup {active}) |-> files[id]]
  /\ op' = At("snapshot")
  /\ UNCHANGED <<man, snap, memory, promise, crashes>>

-----------------------------------------------------------------------------
(* Crashing and opening *)

(* What the process forgets. *)
Forget ==
  /\ m' = man
  /\ active' = man.active
  /\ lastSeq' = 0
  /\ buf' = <<>>
  /\ maps' = EmptyMaps
  /\ pend' = 0

(* The process dies.  Any prefix of the buffered records has been written  *)
(* through, possibly followed by a part of the next one.                   *)
Crash ==
  /\ op.step \notin {"down", "broken"}
  /\ crashes < MaxCrashes
  /\ \E k \in 0 .. Len(buf) : \E torn \in {<<>>, <<Torn>>} :
       /\ torn # <<>> => k < Len(buf)
       /\ files' = [files EXCEPT ![active].recs = @ \o SubSeq(buf, 1, k) \o torn]
  /\ Forget
  /\ since' = since \cup InFlight
  /\ expect' = IF Up THEN {Whole(Versions(maps))} \cup InFlight ELSE expect
  /\ op' = At("down")
  /\ crashes' = crashes + 1
  /\ UNCHANGED <<man, snap>>

(* The machine dies: the active segment keeps what was synced and any      *)
(* amount of what was not, possibly ending inside a record.                *)
PowerLoss ==
  /\ op.step = "down"
  /\ crashes < MaxCrashes
  /\ man.active \in DOMAIN files
  /\ LET f == files[man.active]
     IN  \E k \in f.synced .. Len(f.recs) - 1 : \E torn \in {<<>>, <<Torn>>} :
           LET left == SubSeq(f.recs, 1, k) \o torn
           IN  files' = [files EXCEPT ![man.active] =
                           [recs |-> left, synced |-> Len(left)]]
  /\ expect' = since
  /\ crashes' = crashes + 1
  /\ UNCHANGED <<man, snap, memory, op, since>>

(* locations_fit, against the segments of the manifest on disk. *)
Fits(fs, loc) ==
  /\ loc.seg \in SealedIds(man) \cup {man.active}
  /\ loc.seg \in DOMAIN fs
  /\ loc.off <= Len(Decodable(fs[loc.seg].recs))

LocationsFit(fs, mp) ==
  /\ \A d \in DOMAIN mp.docs : Fits(fs, mp.docs[d].loc)
  /\ \A k \in DOMAIN mp.splits : Fits(fs, mp.splits[k])
  /\ \A k \in DOMAIN mp.summaries : Fits(fs, mp.summaries[k])

SnapshotAccepted(fs) ==
  snap.exists /\ snap.seq = man.snapshotSeq /\ LocationsFit(fs, snap.maps)

(* open, first part: remove_orphan_segments, open the sealed segments,     *)
(* create or open the active one, and judge the snapshot.  A rejected      *)
(* snapshot is deleted before the manifest stops naming it.                *)
OpenBegin ==
  LET known == SealedIds(man) \cup {man.active}
      kept == [id \in DOMAIN files \cap known |-> files[id]]
      opened == IF man.active \in DOMAIN kept THEN kept
                ELSE Put(kept, man.active, EmptySegment)
      rejected == snap.exists /\ ~ SnapshotAccepted(opened)
  IN  /\ op.step = "down"
      /\ IF SealedIds(man) \subseteq DOMAIN files
         THEN /\ files' = opened
              /\ snap' = IF rejected THEN NoSnapshot ELSE snap
              /\ op' = At(IF rejected THEN "reject" ELSE "replay")
         ELSE /\ files' = kept
              /\ op' = At("broken")
              /\ UNCHANGED snap
      /\ UNCHANGED <<man, memory, promise, crashes>>

(* The manifest stops naming the rejected snapshot. *)
OpenReject ==
  /\ op.step = "reject"
  /\ man' = [man EXCEPT !.snapshotSeq = 0]
  /\ m' = man'
  /\ op' = At("replay")
  /\ UNCHANGED <<files, snap, active, lastSeq, buf, maps, pend, promise, crashes>>

(* The maps an open starts from and the sequence they cover. *)
SnapshotBase ==
  IF SnapshotAccepted(files) THEN [maps |-> snap.maps, seq |-> snap.seq]
  ELSE [maps |-> EmptyMaps, seq |-> 0]

(* The sealed segments in manifest order, skipping those the snapshot       *)
(* covers, then the active one.                                             *)
ReplayFrom(base) ==
  LET sealed[i \in 0 .. Len(man.sealed)] ==
        IF i = 0 THEN base.maps
        ELSE LET info == man.sealed[i]
             IN  IF info.last <= base.seq THEN sealed[i - 1]
                 ELSE ScanSegment(sealed[i - 1], info.id, files[info.id].recs, base.seq)
  IN  ScanSegment(sealed[Len(man.sealed)], man.active, files[man.active].recs, base.seq)

Recovered == ReplayFrom(SnapshotBase)

(* next_seq after an open. *)
MutRecoveredNextSeq == man.nextSeq
RecoveredNextSeq ==
  LET base == SnapshotBase
      seqs == {base.seq, LastSeq(files[man.active].recs)}
              \cup {LastSeq(files[man.sealed[i].id].recs) :
                      i \in {j \in DOMAIN man.sealed : man.sealed[j].last > base.seq}}
  IN  Max2(man.nextSeq, 1 + CHOOSE s \in seqs : \A t \in seqs : t <= s)

(* A bad record anywhere but at the tail of the active segment fails the open. *)
Undamaged ==
  /\ \A i \in DOMAIN man.sealed :
       LET recs == files[man.sealed[i].id].recs
       IN  Len(Decodable(recs)) = Len(recs)
  /\ TornTailOnly(files[man.active].recs)

(* ActiveSegment::truncate_to the first bad record. *)
MutTruncated(f) == f
Truncated(f) ==
  LET good == Decodable(f.recs)
  IN  [recs |-> good,
       synced |-> IF f.synced > Len(good) THEN Len(good) ELSE f.synced]

(* open, second part: replay, cut a torn tail off, serve. *)
OpenReplay ==
  LET f == files[man.active]
  IN  /\ op.step = "replay"
      /\ IF Undamaged
         THEN /\ maps' = Recovered
              /\ m' = [man EXCEPT !.nextSeq = RecoveredNextSeq]
              /\ active' = man.active
              /\ lastSeq' = LastSeq(f.recs)
              /\ files' = [files EXCEPT ![man.active] = Truncated(f)]
              /\ expect' = {}
              /\ op' = At("idle")
         ELSE /\ op' = At("broken")
              /\ UNCHANGED <<files, maps, m, active, lastSeq, expect>>
      /\ UNCHANGED <<man, snap, buf, pend, since, crashes>>

-----------------------------------------------------------------------------
Next ==
  \/ \E d \in Docs, c \in Contents : AppendDocument(d, c)
  \/ InsertRewind
  \/ InsertCommit
  \/ \E d \in Docs : AppendDelete(d)
  \/ DeleteCommit
  \/ SealActive
  \/ SealPublish
  \/ Fsync
  \/ SnapshotWrite
  \/ SnapshotPublish
  \/ CompactWrite
  \/ CompactFails
  \/ CompactUnsnap
  \/ CompactPublish
  \/ CompactRemove
  \/ Crash
  \/ PowerLoss
  \/ OpenBegin
  \/ OpenReject
  \/ OpenReplay

Spec == Init /\ [][Next]_vars

-----------------------------------------------------------------------------
(* Properties *)

Records == [kind : {"Split", "Summary", "DeleteDoc", "Doc"}, seq : Nat]

(* The shape of the state: files hold records in sequence, the synced part *)
(* is a part of the file, both manifests are manifests, the operation in   *)
(* progress is one of Store's.                                             *)
TypeOK ==
  /\ \A id \in DOMAIN files :
       /\ id \in Nat
       /\ files[id].synced \in 0 .. Len(files[id].recs)
       /\ \A i \in DOMAIN files[id].recs :
            LET r == files[id].recs[i]
            IN  IsTorn(r) \/ [kind |-> r.kind, seq |-> r.seq] \in Records
  /\ \A mm \in {man, m} :
       /\ {mm.active, mm.nextSegmentId, mm.nextSeq, mm.snapshotSeq, mm.tombstones} \subseteq Nat
       /\ \A i \in DOMAIN mm.sealed : mm.sealed[i].id \in Nat
  /\ active \in Nat /\ lastSeq \in Nat /\ pend \in Nat
  /\ op.step \in {"idle", "insert", "delete", "seal", "sealPublish", "snapshot",
                  "snapshotPublish", "compactUnsnap", "compactPublish", "compactRemove",
                  "down", "reject", "replay", "broken"}
  /\ crashes \in 0 .. MaxCrashes

FullReplay == ReplayFrom([maps |-> EmptyMaps, seq |-> 0])

(* At every boundary, reading the log back gives the documents the maps    *)
(* hold, at the same locations, whether replay starts from the published   *)
(* snapshot or from nothing (store.rs:272-274: the maps never hold what a  *)
(* replay would not reproduce; compact.rs:5: a compacted segment replays   *)
(* like the log it replaces).  Inserts that fail and are rewound are among *)
(* the histories; a rewind, a flush or a seal that fails is not, and       *)
(* StoreFaults shows how the agreement is then lost.  Splits that a torn   *)
(* insert left in the maps and no document lists are not compared.         *)
ReplayAgrees ==
  op.step = "idle" => /\ DocView(FullReplay) = DocView(maps)
                      /\ DocView(Recovered) = DocView(maps)

(* A document's entry and everything it owns point at records of that      *)
(* document, of the right kind, all written by the one insert its Doc      *)
(* record ended: never at a slot a truncated or compacted log reused       *)
(* (store.rs:139-143).                                                     *)
OwnedResolve ==
  op.step = "idle" =>
    \A d \in DOMAIN maps.docs :
      LET e == maps.docs[d]
          n == Cardinality(e.splits)
          there(loc) == loc.seg \in DOMAIN files /\ loc.off \in DOMAIN files[loc.seg].recs
          is(loc, kind) == there(loc) /\ RecordAt(loc).kind = kind /\ RecordAt(loc).doc = d
          part(f, kind, i) ==
            LET loc == Lookup(f, <<d, i>>)
            IN  /\ is(loc, kind)
                /\ RecordAt(loc).part = i
                /\ e.seq - RecordAt(loc).seq \in 1 .. 2 * n
      IN  /\ is(e.loc, "Doc") /\ RecordAt(e.loc).seq = e.seq
          /\ \A i \in e.splits : part(maps.splits, "Split", i)
          /\ \A i \in e.splits \cap OwnedSummaries(e) : part(maps.summaries, "Summary", i)

(* Sequence numbers are never handed out twice: every record of the open   *)
(* log is below next_seq and no two share one, through rewinds, torn       *)
(* tails, power loss and compaction, which keeps old numbers (store.rs:218, *)
(* compact.rs:6).  Replay and both snapshots rely on it.                   *)
SeqsUnique ==
  Up => LET locs == {<<id, i>> : id \in SealedIds(m) \cup {active}, i \in 1 .. MaxSeq}
            used == {l \in locs : l[2] \in DOMAIN files[l[1]].recs}
            seq(l) == files[l[1]].recs[l[2]].seq
        IN  /\ \A l \in used : seq(l) < m.nextSeq
            /\ \A l1, l2 \in used : seq(l1) = seq(l2) => l1 = l2

(* The compaction trigger never claims more dead records than a rewrite of *)
(* the sealed segments would reclaim, nor the pending count more than the  *)
(* active one holds (store.rs:304, 465, 576; maps.rs:74-76): counts that   *)
(* survive crashes never count a record twice.  What a rewrite keeps is    *)
(* what some document owns; the parts of a torn insert that no document    *)
(* owns may stay in the maps, and are reclaimed all the same.              *)
TombstonesSound ==
  Up => LET kept == UNION {FreedLocs(maps, d) : d \in DOMAIN maps.docs}
            records(ids) == UNION {{[seg |-> id, off |-> i] : i \in DOMAIN files[id].recs}
                                     : id \in ids}
            reclaimable(ids) == Cardinality(records(ids) \ kept)
        IN  /\ m.tombstones <= reclaimable(SealedIds(m))
            /\ pend <= reclaimable({active})

(* All of a manifest's sealed segments are on disk, and on the device to   *)
(* their last record.                                                      *)
Durable(mm) ==
  \A id \in SealedIds(mm) :
    id \in DOMAIN files /\ files[id].synced = Len(files[id].recs)

(* No crash or power loss can take a sealed segment or a part of one: what *)
(* the manifest on disk calls sealed is durable, at every point of a seal, *)
(* a compaction and an open (segment.rs:117-120, compact.rs:119-129).      *)
SealedDurable == Durable(man)

(* A segment stays as it is for as long as the manifest on disk calls it   *)
(* sealed: the readers' mappings and compaction rely on it (compact.rs:8,  *)
(* segment.rs:125-130).                                                    *)
SealedImmutable ==
  [][\A id \in SealedIds(man) \cap SealedIds(man') :
       files'[id].recs = files[id].recs]_vars

(* The shard always opens again: no crash leaves a manifest naming a       *)
(* missing segment or a bad record anywhere but at the tail (lib.rs:11-12). *)
AlwaysOpens == op.step # "broken"

(* What an open recovers after a crash or a power loss, at any point of    *)
(* any operation or of the open itself.  The process dying costs nothing   *)
(* acknowledged: the documents are as the maps held them, or so with the   *)
(* write in progress done.  A power loss takes back whole operations,      *)
(* latest first, and none that a sync had covered (store.rs:587).  Two     *)
(* things are given up: a replacement cut short may leave its document     *)
(* gone, and so may a power loss between a compaction's manifest and its   *)
(* closing sync for a document deleted or replaced since the last sync.    *)
RecoveryKeepsPromise ==
  op.step \in {"down", "reject", "replay"} =>
    \E s \in expect : Versions(Recovered) = s.docs

-----------------------------------------------------------------------------
(* Why sealed segments are safe: the inductive invariant *)

ManifestFields ==
  {"sealed", "active", "nextSegmentId", "nextSeq", "snapshotSeq", "tombstones"}

(* A manifest names distinct segments below the id it will hand out next. *)
WellFormed(mm) ==
  /\ mm = [f \in ManifestFields |-> mm[f]]
  /\ mm.sealed \in Seq({mm.sealed[i] : i \in DOMAIN mm.sealed})
  /\ mm.nextSegmentId \in Nat
  /\ mm.active \in Nat /\ mm.active < mm.nextSegmentId
  /\ \A id \in SealedIds(mm) : id \in Nat /\ id < mm.nextSegmentId
  /\ mm.active \notin SealedIds(mm)

(* The segment being appended to is the manifest's active one, is there    *)
(* while the store is open, and is sealed in neither manifest.             *)
ActiveApart ==
  /\ active = m.active
  /\ active \notin SealedIds(man)
  /\ op.step \notin {"down", "broken"} => active \in DOMAIN files

(* The manifest in memory may run ahead of the one on disk only while open, *)
(* and hands out no id that the one on disk uses.                           *)
ManifestsAgree ==
  /\ \A id \in SealedIds(man) : id < m.nextSegmentId
  /\ op.step \in {"down", "reject", "replay", "broken", "compactRemove"} => m = man

(* A compaction's output is complete and apart before anything names it. *)
OutputReady ==
  op.step = "compactUnsnap" =>
    /\ op.seg \in Nat /\ op.seg < m.nextSegmentId /\ op.seg # active
    /\ op.order # <<>> => /\ op.seg \in DOMAIN files
                          /\ files[op.seg].synced = Len(files[op.seg].recs)

(* Strengthens SealedDurable: the manifest about to be published is durable *)
(* as well, and neither shares a segment with the writer.                   *)
SegmentsSafe ==
  /\ files = [id \in DOMAIN files |-> files[id]]
  /\ WellFormed(man) /\ WellFormed(m)
  /\ Durable(man) /\ Durable(m)
  /\ ActiveApart
  /\ ManifestsAgree
  /\ OutputReady

=============================================================================
