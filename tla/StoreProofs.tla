----------------------------- MODULE StoreProofs -----------------------------
(***************************************************************************)
(* What holds of the store for every number of documents, segments,        *)
(* records and crashes.  First, sealed segments are safe: what the         *)
(* manifest on disk names is on the device, and stays as it is; the maps   *)
(* and the replay are opaque there.  Then they are opened: the store       *)
(* always opens again, because a record that was cut short is only ever at *)
(* the tail of the segment being written, and an open cuts it off before   *)
(* anything is written behind it.  Last, sequence numbers and locations:   *)
(* no number is handed out twice, and the maps point at whole records of   *)
(* what they mean.  What documents own, and the log as one of whole        *)
(* groups, is stated here; StoreDocProofs shows that it holds.             *)
(***************************************************************************)
EXTENDS Store, SequenceTheorems, NatSets, TLAPS

(* A sequence is one over its own elements. *)
LEMMA OwnRange ==
  ASSUME NEW S, NEW s \in Seq(S)
  PROVE  s \in Seq({s[i] : i \in DOMAIN s})
  BY SeqOfRange DEF Range

(* t is s with one element more, each of s in its place. *)
AddsOnly(t, s, x) ==
  /\ t \in Seq({t[i] : i \in DOMAIN t})
  /\ \A i \in DOMAIN t : t[i] = x \/ (i \in DOMAIN s /\ t[i] = s[i])

(* Append adds one element and keeps the others in their places. *)
LEMMA AppendAdds ==
  ASSUME NEW S, NEW s \in Seq(S), NEW x \in S
  PROVE  AddsOnly(Append(s, x), s, x)
  <1>1. PICK t : t = Append(s, x)
    OBVIOUS
  <1>2. /\ t \in Seq(S) /\ Len(t) = Len(s) + 1 /\ t[Len(s) + 1] = x
        /\ \A i \in 1 .. Len(s) : t[i] = s[i]
    BY <1>1, AppendProperties
  <1>3. t \in Seq({t[i] : i \in DOMAIN t})
    <2>1. t \in Seq(S)
      BY <1>2
    <2>2. QED
      BY <2>1, OwnRange
  <1>4. \A i \in DOMAIN t : t[i] = x \/ (i \in DOMAIN s /\ t[i] = s[i])
    BY <1>2
  <1>5. AddsOnly(t, s, x)
    BY <1>3, <1>4 DEF AddsOnly
  <1>6. QED
    BY <1>1, <1>5

(* Appending an entry to a sealed list adds that entry's id and no other. *)
LEMMA AppendIds ==
  ASSUME NEW mm, NEW nn, NEW info,
         mm.sealed \in Seq({mm.sealed[i] : i \in DOMAIN mm.sealed}),
         nn.sealed = Append(mm.sealed, info)
  PROVE  /\ nn.sealed \in Seq({nn.sealed[i] : i \in DOMAIN nn.sealed})
         /\ SealedIds(nn) \subseteq SealedIds(mm) \cup {info.id}
  <1> DEFINE S == {mm.sealed[i] : i \in DOMAIN mm.sealed} \cup {info}
  <1>1. mm.sealed \in Seq(S) /\ info \in S
    OBVIOUS
  <1>2. AddsOnly(nn.sealed, mm.sealed, info)
    <2> HIDE DEF S
    <2> QED
      BY <1>1, AppendAdds
  <1>3. QED
    BY <1>2 DEF AddsOnly, SealedIds

(* A one-entry list names that entry. *)
LEMMA SingleIds ==
  ASSUME NEW mm, NEW info, mm.sealed = <<info>>
  PROVE  /\ mm.sealed \in Seq({mm.sealed[i] : i \in DOMAIN mm.sealed})
         /\ SealedIds(mm) = {info.id}
  BY DEF SealedIds

(* The empty list names nothing. *)
LEMMA EmptyIds ==
  ASSUME NEW mm, mm.sealed = <<>>
  PROVE  /\ mm.sealed \in Seq({mm.sealed[i] : i \in DOMAIN mm.sealed})
         /\ SealedIds(mm) = {}
  BY DEF SealedIds

(* A manifest that differs in its counters only is as well formed, and     *)
(* names the same segments.                                                *)
LEMMA CountersOnly ==
  ASSUME NEW mm, NEW nn, WellFormed(mm),
         nn = [f \in ManifestFields |-> nn[f]],
         nn.sealed = mm.sealed, nn.active = mm.active,
         nn.nextSegmentId = mm.nextSegmentId
  PROVE  WellFormed(nn) /\ SealedIds(nn) = SealedIds(mm)
  BY DEF WellFormed, SealedIds

(* The invariant holds of a fresh directory. *)
LEMMA InitSafe == Init => SegmentsSafe
  <1> SUFFICES ASSUME Init PROVE SegmentsSafe
    OBVIOUS
  <1>1. man = NewManifest /\ m = NewManifest /\ active = 0 /\ op = At("idle")
        /\ files = [id \in {0} |-> EmptySegment]
    BY DEF Init
  <1>2. SealedIds(man) = {} /\ SealedIds(m) = {}
    BY <1>1, EmptyIds DEF NewManifest
  <1>3. WellFormed(NewManifest)
    <2>1. NewManifest = [f \in ManifestFields |-> NewManifest[f]]
      BY DEF NewManifest, ManifestFields
    <2>2. SealedIds(NewManifest) = {}
      BY <1>1, <1>2
    <2>3. NewManifest.sealed \in Seq({NewManifest.sealed[i] : i \in DOMAIN NewManifest.sealed})
      BY EmptyIds DEF NewManifest
    <2>4. QED
      BY <2>1, <2>2, <2>3 DEF WellFormed, NewManifest
  <1>4. op.step = "idle"
    BY <1>1 DEF At
  <1>5. QED
    BY <1>1, <1>2, <1>3, <1>4 DEF SegmentsSafe, Durable, ActiveApart, ManifestsAgree,
       OutputReady, NewManifest

-----------------------------------------------------------------------------
(* Steps that touch the manifest's counters and the active segment only    *)

(* What a step must leave: the invariant, and the records of the segments  *)
(* that were sealed and still are.                                         *)
Unaltered ==
  \A id \in SealedIds(man) \cap SealedIds(man') : files'[id].recs = files[id].recs

StepSafe == SegmentsSafe' /\ Unaltered

(* m' is m with other counters. *)
SameSegments ==
  /\ m' = [f \in ManifestFields |-> m'[f]]
  /\ m'.sealed = m.sealed /\ m'.active = m.active
  /\ m'.nextSegmentId = m.nextSegmentId

(* files' is files, except perhaps for segment id. *)
OnlySegment(id) ==
  /\ files' = [i \in DOMAIN files' |-> files'[i]]
  /\ DOMAIN files' = DOMAIN files
  /\ \A i \in DOMAIN files : i # id => files'[i] = files[i]

(* A writing step, which changes counters and appends to the active        *)
(* segment, keeps the invariant.                                           *)
LEMMA WriterStep ==
  ASSUME SegmentsSafe, SameSegments, OnlySegment(active),
         man' = man, active' = active,
         op.step \notin {"down", "broken"},
         op'.step \notin {"down", "reject", "replay", "broken", "compactRemove",
                         "compactUnsnap"}
  PROVE  StepSafe
  <1>1. WellFormed(m)' /\ SealedIds(m') = SealedIds(m)
    <2>1. WellFormed(m)
      BY DEF SegmentsSafe
    <2>2. WellFormed(m') /\ SealedIds(m') = SealedIds(m)
      BY <2>1, CountersOnly DEF SameSegments
    <2>3. QED
      BY <2>2 DEF WellFormed, SealedIds
  <1>2. WellFormed(man)' /\ SealedIds(man') = SealedIds(man)
    BY DEF SegmentsSafe, WellFormed, SealedIds
  <1>3. active \notin SealedIds(man) /\ active \notin SealedIds(m)
    BY DEF SegmentsSafe, ActiveApart, WellFormed
  <1>4. Durable(man)' /\ Durable(m)'
    BY <1>1, <1>2, <1>3 DEF SegmentsSafe, Durable, OnlySegment
  <1>5. ActiveApart'
    BY <1>2 DEF SegmentsSafe, ActiveApart, SameSegments, OnlySegment
  <1>6. ManifestsAgree'
    BY <1>2 DEF SegmentsSafe, ManifestsAgree, SameSegments
  <1>7. OutputReady'
    BY DEF OutputReady
  <1>8. Unaltered
    BY <1>3 DEF Unaltered, OnlySegment, SegmentsSafe, Durable
  <1>9. QED
    BY <1>1, <1>2, <1>4, <1>5, <1>6, <1>7, <1>8 DEF StepSafe, SegmentsSafe, OnlySegment

(* The manifest in memory unchanged, or with other counters. *)
LEMMA SameUnchanged == ASSUME SegmentsSafe, m' = m PROVE SameSegments
  BY DEF SegmentsSafe, WellFormed, SameSegments

(* No file touched. *)
LEMMA FilesUnchanged ==
  ASSUME SegmentsSafe, files' = files, NEW id PROVE OnlySegment(id)
  BY DEF SegmentsSafe, OnlySegment

(* Store::insert up to the end of append_document keeps the invariant. *)
LEMMA AppendDocumentSafe ==
  ASSUME SegmentsSafe, NEW d \in Docs, NEW c \in Contents, AppendDocument(d, c)
  PROVE  StepSafe
  <1> DEFINE n == Len(DocumentRecords(d, c, m.nextSeq))
  <1>1. m' = [m EXCEPT !.nextSeq = @ + n]
    BY DEF AppendDocument
  <1>2. SameSegments
    <2>1. m = [f \in ManifestFields |-> m[f]]
      BY DEF SegmentsSafe, WellFormed
    <2> HIDE DEF n
    <2>2. QED
      BY <1>1, <2>1, Zenon DEF SameSegments, ManifestFields
  <1>3. op.step = "idle" /\ op'.step = "insert" /\ man' = man /\ active' = active
        /\ files' = files
    BY DEF AppendDocument, disk
  <1>4. QED
    BY <1>2, <1>3, FilesUnchanged, WriterStep

(* Rewinding a failed insert keeps the invariant. *)
LEMMA InsertRewindSafe == ASSUME SegmentsSafe, InsertRewind PROVE StepSafe
  <1>1. SameSegments
    <2>1. m = [f \in ManifestFields |-> m[f]] /\ m' = [m EXCEPT !.nextSeq = op.rewindSeq]
      BY DEF SegmentsSafe, WellFormed, InsertRewind
    <2>2. QED
      BY <2>1, Zenon DEF SameSegments, ManifestFields
  <1>2. op.step = "insert" /\ op'.step = "idle" /\ man' = man /\ active' = active
        /\ files' = files
    BY DEF InsertRewind, disk, At
  <1>3. QED
    BY <1>1, <1>2, FilesUnchanged, WriterStep

(* Where a write ends: at a boundary, or about to seal. *)
LEMMA AfterWriteStep == AfterWrite.step \in {"idle", "seal"}
  BY DEF AfterWrite, At

(* The flush that ends a write appends to the active segment. *)
LEMMA FlushOnly ==
  ASSUME SegmentsSafe, files' = Flushed PROVE OnlySegment(active)
  <1>1. files = [id \in DOMAIN files |-> files[id]]
    BY DEF SegmentsSafe
  <1>2. files' = [files EXCEPT ![active].recs = @ \o buf]
    BY DEF Flushed
  <1>3. QED
    BY <1>1, <1>2, Zenon DEF OnlySegment

(* A sync of the active segment touches no other. *)
LEMMA SyncOnly ==
  ASSUME SegmentsSafe, files' = [files EXCEPT ![active] = Synced(@)]
  PROVE  OnlySegment(active)
  <1>1. files = [id \in DOMAIN files |-> files[id]]
    BY DEF SegmentsSafe
  <1>2. QED
    BY <1>1, Zenon DEF OnlySegment

(* Committing an insert keeps the invariant. *)
LEMMA InsertCommitSafe == ASSUME SegmentsSafe, InsertCommit PROVE StepSafe
  <1> DEFINE freed == FreedIn(op.doc, FALSE)
  <1>1. SameSegments
    <2>1. m = [f \in ManifestFields |-> m[f]]
      BY DEF SegmentsSafe, WellFormed
    <2>2. m' = m \/ m' = [m EXCEPT !.tombstones = @ + freed]
      BY DEF InsertCommit
    <2> HIDE DEF freed
    <2>3. CASE m' = m
      BY <2>3, SameUnchanged
    <2>4. CASE m' = [m EXCEPT !.tombstones = @ + freed]
      BY <2>1, <2>4, Zenon DEF SameSegments, ManifestFields
    <2>5. QED
      BY <2>2, <2>3, <2>4
  <1>2. op.step = "insert" /\ op' = AfterWrite /\ man' = man /\ active' = active
        /\ files' = Flushed
    BY DEF InsertCommit
  <1>3. QED
    BY <1>1, <1>2, AfterWriteStep, FlushOnly, WriterStep

(* Store::delete up to its append keeps the invariant. *)
LEMMA AppendDeleteSafe ==
  ASSUME SegmentsSafe, NEW d \in Docs, AppendDelete(d) PROVE StepSafe
  <1>1. SameSegments
    <2>1. m = [f \in ManifestFields |-> m[f]] /\ m' = [m EXCEPT !.nextSeq = @ + 1]
      BY DEF SegmentsSafe, WellFormed, AppendDelete
    <2>2. QED
      BY <2>1, Zenon DEF SameSegments, ManifestFields
  <1>2. op.step = "idle" /\ op'.step = "delete" /\ man' = man /\ active' = active
        /\ files' = files
    BY DEF AppendDelete, disk
  <1>3. QED
    BY <1>1, <1>2, FilesUnchanged, WriterStep

(* Committing a delete keeps the invariant. *)
LEMMA DeleteCommitSafe == ASSUME SegmentsSafe, DeleteCommit PROVE StepSafe
  <1> DEFINE freed == FreedIn(op.doc, FALSE)
  <1>1. SameSegments
    <2>1. m = [f \in ManifestFields |-> m[f]] /\ m' = [m EXCEPT !.tombstones = @ + freed]
      BY DEF SegmentsSafe, WellFormed, DeleteCommit
    <2> HIDE DEF freed
    <2>2. QED
      BY <2>1, Zenon DEF SameSegments, ManifestFields
  <1>2. op.step = "delete" /\ op' = AfterWrite /\ man' = man /\ active' = active
        /\ files' = Flushed
    BY DEF DeleteCommit
  <1>3. QED
    BY <1>1, <1>2, AfterWriteStep, FlushOnly, WriterStep

(* Store::fsync keeps the invariant. *)
LEMMA FsyncSafe == ASSUME SegmentsSafe, Fsync PROVE StepSafe
  <1>1. op.step = "idle" /\ op' = op /\ man' = man /\ active' = active /\ m' = m
        /\ files' = [files EXCEPT ![active] = Synced(@)]
    BY DEF Fsync, memory
  <1>2. QED
    BY <1>1, SameUnchanged, SyncOnly, WriterStep

(* Writing meta.snap keeps the invariant. *)
LEMMA SnapshotWriteSafe == ASSUME SegmentsSafe, SnapshotWrite PROVE StepSafe
  <1>1. op.step \in {"idle", "snapshot"} /\ op'.step = "snapshotPublish" /\ man' = man
        /\ active' = active /\ m' = m
        /\ files' = [files EXCEPT ![active] = Synced(@)]
    BY DEF SnapshotWrite, memory, At
  <1>2. QED
    BY <1>1, SameUnchanged, SyncOnly, WriterStep

-----------------------------------------------------------------------------
(* Steps that change which segments there are                              *)

(* Sealing swaps a fresh segment in and syncs the one it adds to the list. *)
LEMMA SealActiveSafe == ASSUME SegmentsSafe, SealActive PROVE StepSafe
  <1> DEFINE new == m.nextSegmentId
             info == [id |-> active, bytes |-> ActiveLen, last |-> lastSeq]
             old == [files EXCEPT ![active] = Synced(@)]
  <1>1. /\ op.step \in {"idle", "seal"} /\ op'.step = "sealPublish"
        /\ man' = man /\ active' = new
        /\ files' = Put(old, new, EmptySegment)
    BY DEF SealActive, SwappedFiles, At
  <1>2. /\ m' = [f \in ManifestFields |-> m'[f]]
        /\ m'.sealed = Append(m.sealed, info)
        /\ m'.active = new
        /\ m'.nextSegmentId = new + 1
    <2>1. m = [f \in ManifestFields |-> m[f]]
      BY DEF SegmentsSafe, WellFormed
    <2>2. m' = [m EXCEPT !.nextSegmentId = @ + 1, !.sealed = Append(@, info),
                         !.active = new, !.tombstones = @ + pend]
      BY DEF SealActive
    <2> HIDE DEF info
    <2>3. QED
      BY <2>1, <2>2, Zenon DEF ManifestFields
  <1>3. /\ new \in Nat /\ active \in Nat /\ active < new /\ active \in DOMAIN files
        /\ \A id \in SealedIds(m) \cup SealedIds(man) : id \in Nat /\ id < new
    BY <1>1 DEF SegmentsSafe, ActiveApart, WellFormed, ManifestsAgree
  <1>4. /\ m'.sealed \in Seq({m'.sealed[i] : i \in DOMAIN m'.sealed})
        /\ SealedIds(m') \subseteq SealedIds(m) \cup {active}
    <2>1. m.sealed \in Seq({m.sealed[i] : i \in DOMAIN m.sealed}) /\ info.id = active
      BY DEF SegmentsSafe, WellFormed
    <2> HIDE DEF info
    <2>2. /\ m'.sealed \in Seq({m'.sealed[i] : i \in DOMAIN m'.sealed})
          /\ SealedIds(m') \subseteq SealedIds(m) \cup {info.id}
      BY <1>2, <2>1, AppendIds, Zenon
    <2>3. QED
      BY <2>1, <2>2, Zenon
  <1>5. WellFormed(m)'
    <2>1. \A id \in SealedIds(m') : id \in Nat /\ id < new + 1 /\ id # new
      BY <1>3, <1>4
    <2>2. /\ m'.nextSegmentId \in Nat /\ m'.active \in Nat /\ m'.active < m'.nextSegmentId
          /\ m'.active \notin SealedIds(m')
          /\ \A id \in SealedIds(m') : id \in Nat /\ id < m'.nextSegmentId
      <3> HIDE DEF new, info
      <3>1. QED
        BY <1>2, <1>3, <2>1
    <2>3. WellFormed(m')
      BY <1>2, <1>4, <2>2, Zenon DEF WellFormed
    <2>4. QED
      BY <2>3, Zenon DEF WellFormed, SealedIds
  <1>6. WellFormed(man)' /\ SealedIds(man') = SealedIds(man)
    BY <1>1 DEF SegmentsSafe, WellFormed, SealedIds
  <1>7. /\ files' = [i \in DOMAIN files' |-> files'[i]]
        /\ DOMAIN files' = DOMAIN files \cup {new}
        /\ files'[new] = EmptySegment
        /\ files'[active] = Synced(files[active])
        /\ \A i \in DOMAIN files : i # active /\ i # new => files'[i] = files[i]
    <2>1. /\ DOMAIN old = DOMAIN files /\ old[active] = Synced(files[active])
          /\ \A i \in DOMAIN files : i # active => old[i] = files[i]
      BY <1>3 DEF SegmentsSafe
    <2>2. active # new
      BY <1>3
    <2> HIDE DEF old, new
    <2>3. /\ files' = [i \in DOMAIN files' |-> files'[i]]
          /\ DOMAIN files' = DOMAIN old \cup {new}
          /\ files'[new] = EmptySegment
          /\ \A i \in DOMAIN old : i # new => files'[i] = old[i]
      BY <1>1, SMT DEF Put
    <2>4. QED
      BY <1>3, <2>1, <2>2, <2>3
  <1>8. Durable(man)' /\ Durable(m)'
    <2>1. files'[active].synced = Len(files'[active].recs)
      BY <1>7 DEF Synced
    <2>2. active \notin SealedIds(man) /\ active \notin SealedIds(m)
      BY DEF SegmentsSafe, ActiveApart, WellFormed
    <2>3. \A id \in SealedIds(m) \cup SealedIds(man) : id # new
      BY <1>3
    <2>4. QED
      BY <1>3, <1>4, <1>6, <1>7, <2>1, <2>2, <2>3 DEF SegmentsSafe, Durable
  <1>9. ActiveApart' /\ ManifestsAgree' /\ OutputReady'
    BY <1>1, <1>2, <1>3, <1>6, <1>7 DEF ActiveApart, ManifestsAgree, OutputReady
  <1>10. Unaltered
    BY <1>3, <1>7 DEF Unaltered, SegmentsSafe, Durable, ActiveApart
  <1>11. QED
    BY <1>5, <1>6, <1>7, <1>8, <1>9, <1>10 DEF StepSafe, SegmentsSafe

(* Publishing a manifest that is m up to counters keeps the invariant: that *)
(* m is durable already is what the invariant is for.                       *)
LEMMA PublishStep ==
  ASSUME SegmentsSafe, SameSegments, man' = m', files' = files, active' = active,
         op.step \notin {"down", "broken"},
         op'.step \notin {"down", "broken", "compactUnsnap"}
  PROVE  StepSafe
  <1>1. WellFormed(m') /\ SealedIds(m') = SealedIds(m)
    <2>1. WellFormed(m)
      BY DEF SegmentsSafe
    <2>2. QED
      BY <2>1, CountersOnly DEF SameSegments
  <1>2. WellFormed(m)' /\ WellFormed(man)' /\ SealedIds(man') = SealedIds(m)
    BY <1>1 DEF WellFormed, SealedIds
  <1>3. Durable(m)' /\ Durable(man)'
    BY <1>1, <1>2 DEF SegmentsSafe, Durable
  <1>4. ActiveApart'
    BY <1>2 DEF SegmentsSafe, ActiveApart, WellFormed, SameSegments
  <1>5. ManifestsAgree'
    BY <1>1, <1>2 DEF SegmentsSafe, ManifestsAgree, WellFormed, SameSegments
  <1>6. OutputReady'
    BY DEF OutputReady
  <1>7. Unaltered
    BY DEF Unaltered
  <1>8. QED
    BY <1>2, <1>3, <1>4, <1>5, <1>6, <1>7 DEF StepSafe, SegmentsSafe

(* The three manifest.store calls of an open store keep the invariant. *)
LEMMA SealPublishSafe == ASSUME SegmentsSafe, SealPublish PROVE StepSafe
  <1>1. m' = m /\ man' = m' /\ files' = files /\ active' = active
        /\ op.step = "sealPublish" /\ op'.step = "idle"
    BY DEF SealPublish, memory, At
  <1>2. QED
    BY <1>1, SameUnchanged, PublishStep

(* As above, for snapshot_meta. *)
LEMMA SnapshotPublishSafe == ASSUME SegmentsSafe, SnapshotPublish PROVE StepSafe
  <1>1. man' = m' /\ files' = files /\ active' = active
        /\ op.step = "snapshotPublish" /\ op'.step = "idle"
    BY DEF SnapshotPublish, At
  <1>2. SameSegments
    <2>1. m = [f \in ManifestFields |-> m[f]] /\ m' = [m EXCEPT !.snapshotSeq = SnapshotSeq]
      BY DEF SegmentsSafe, WellFormed, SnapshotPublish
    <2>2. QED
      BY <2>1, Zenon DEF SameSegments, ManifestFields
  <1>3. QED
    BY <1>1, <1>2, PublishStep

(* As above, for compact_into. *)
LEMMA CompactPublishSafe == ASSUME SegmentsSafe, CompactPublish PROVE StepSafe
  <1>1. m' = m /\ man' = m' /\ files' = files /\ active' = active
        /\ op.step = "compactPublish" /\ op'.step = "compactRemove"
    BY DEF CompactPublish, At
  <1>2. QED
    BY <1>1, SameUnchanged, PublishStep

(* Writing a compaction's output adds one complete segment under a fresh id. *)
LEMMA CompactWriteSafe == ASSUME SegmentsSafe, CompactWrite PROVE StepSafe
  <1> DEFINE new == m.nextSegmentId
             order == CopyOrder
             recs == [i \in DOMAIN order |-> RecordAt(order[i])]
             output == [recs |-> recs, synced |-> Len(recs)]
  <1>1. /\ op.step = "idle" /\ man' = man /\ active' = active
        /\ op' = [step |-> "compactUnsnap", seg |-> new, order |-> order]
        /\ files' = IF order = <<>> THEN files ELSE Put(files, new, output)
    BY DEF CompactWrite
  <1>2. output.synced = Len(output.recs)
    OBVIOUS
  <1>3. /\ m' = [f \in ManifestFields |-> m'[f]]
        /\ m'.sealed = m.sealed /\ m'.active = m.active
        /\ m'.nextSegmentId = new + 1
    <2>1. m = [f \in ManifestFields |-> m[f]] /\ m' = [m EXCEPT !.nextSegmentId = @ + 1]
      BY DEF SegmentsSafe, WellFormed, CompactWrite
    <2>2. QED
      BY <2>1, Zenon DEF ManifestFields
  <1> HIDE DEF output, order, recs
  <1>4. /\ new \in Nat /\ active \in Nat /\ active < new /\ active \in DOMAIN files
        /\ \A id \in SealedIds(m) \cup SealedIds(man) : id \in Nat /\ id < new
    BY <1>1 DEF SegmentsSafe, ActiveApart, WellFormed, ManifestsAgree
  <1>5. SealedIds(m') = SealedIds(m) /\ SealedIds(man') = SealedIds(man)
    BY <1>1, <1>3 DEF SealedIds
  <1>6. /\ files' = [i \in DOMAIN files' |-> files'[i]]
        /\ DOMAIN files \subseteq DOMAIN files'
        /\ \A i \in DOMAIN files : i # new => files'[i] = files[i]
        /\ order # <<>> => new \in DOMAIN files' /\ files'[new] = output
    <2>1. files = [i \in DOMAIN files |-> files[i]]
      BY DEF SegmentsSafe
    <2>2. CASE order = <<>>
      BY <1>1, <2>1, <2>2
    <2>3. CASE order # <<>>
      <3>1. files' = Put(files, new, output)
        BY <1>1, <2>3
      <3>2. QED
        BY <3>1, <2>3, SMT DEF Put
    <2>4. QED
      BY <2>2, <2>3
  <1>7. WellFormed(m)' /\ WellFormed(man)'
    <2>1. /\ m'.sealed \in Seq({m'.sealed[i] : i \in DOMAIN m'.sealed})
          /\ m'.active \notin SealedIds(m') /\ m'.active \in Nat /\ m.active < new
      BY <1>3, <1>5 DEF SegmentsSafe, WellFormed
    <2>2. \A id \in SealedIds(m') : id \in Nat /\ id < new + 1
      BY <1>4, <1>5
    <2>3. WellFormed(m')
      BY <1>3, <1>4, <2>1, <2>2 DEF WellFormed
    <2>4. WellFormed(man')
      BY <1>1 DEF SegmentsSafe
    <2>5. QED
      BY <2>3, <2>4 DEF WellFormed, SealedIds
  <1>8. Durable(man)' /\ Durable(m)'
    <2>1. \A id \in SealedIds(m) \cup SealedIds(man) : id # new
      BY <1>4
    <2>2. QED
      BY <1>5, <1>6, <2>1 DEF SegmentsSafe, Durable
  <1>9. ActiveApart'
    BY <1>1, <1>3, <1>4, <1>5, <1>6 DEF SegmentsSafe, ActiveApart
  <1>10. ManifestsAgree'
    BY <1>1, <1>3, <1>4, <1>5 DEF ManifestsAgree
  <1>11. OutputReady'
    BY <1>1, <1>2, <1>3, <1>4, <1>6 DEF OutputReady
  <1>12. Unaltered
    BY <1>4, <1>6 DEF Unaltered, SegmentsSafe, Durable
  <1>13. QED
    BY <1>6, <1>7, <1>8, <1>9, <1>10, <1>11, <1>12 DEF StepSafe, SegmentsSafe

(* A compaction that fails costs an id. *)
LEMMA CompactFailsSafe == ASSUME SegmentsSafe, CompactFails PROVE StepSafe
  <1>1. /\ op.step = "idle" /\ op' = op /\ files' = files /\ man' = man /\ active' = active
        /\ m' = [m EXCEPT !.nextSegmentId = @ + 1]
    BY DEF CompactFails, disk
  <1>2. /\ m' = [f \in ManifestFields |-> m'[f]]
        /\ m'.sealed = m.sealed /\ m'.active = m.active
        /\ m'.nextSegmentId = m.nextSegmentId + 1
    <2>1. m = [f \in ManifestFields |-> m[f]]
      BY DEF SegmentsSafe, WellFormed
    <2>2. QED
      BY <1>1, <2>1, Zenon DEF ManifestFields
  <1>3. SealedIds(man') = SealedIds(man) /\ SealedIds(m') = SealedIds(m)
    BY <1>1, <1>2 DEF SealedIds
  <1>4. WellFormed(m)' /\ WellFormed(man)'
    <2>1. WellFormed(man')
      BY <1>1 DEF SegmentsSafe
    <2>2. WellFormed(m')
      <3>1. /\ m.nextSegmentId \in Nat /\ m.active \in Nat /\ m.active < m.nextSegmentId
            /\ m.active \notin SealedIds(m)
            /\ \A id \in SealedIds(m) : id \in Nat /\ id < m.nextSegmentId
            /\ m.sealed \in Seq({m.sealed[i] : i \in DOMAIN m.sealed})
        BY DEF SegmentsSafe, WellFormed
      <3>2. m'.nextSegmentId \in Nat /\ m'.active < m'.nextSegmentId
        BY <1>2, <3>1
      <3>3. \A id \in SealedIds(m') : id \in Nat /\ id < m'.nextSegmentId
        BY <1>2, <1>3, <3>1
      <3>4. m'.sealed \in Seq({m'.sealed[i] : i \in DOMAIN m'.sealed})
        BY <1>2, <3>1
      <3>5. m'.active \in Nat /\ m'.active \notin SealedIds(m')
        BY <1>2, <1>3, <3>1
      <3> QED
        BY <1>2, <3>2, <3>3, <3>4, <3>5 DEF WellFormed
    <2> QED
      BY <2>1, <2>2 DEF WellFormed, SealedIds
  <1>5. Durable(man)' /\ Durable(m)'
    BY <1>1, <1>3 DEF SegmentsSafe, Durable
  <1>6. ManifestsAgree'
    <2>1. /\ m.nextSegmentId \in Nat
          /\ \A id \in SealedIds(man) : id \in Nat /\ id < m.nextSegmentId
      BY DEF SegmentsSafe, ManifestsAgree, WellFormed
    <2>2. \A id \in SealedIds(man') : id < m'.nextSegmentId
      BY <1>2, <1>3, <2>1
    <2>3. QED
      BY <1>1, <2>2 DEF ManifestsAgree
  <1>7. ActiveApart' /\ OutputReady'
    BY <1>1, <1>2, <1>3 DEF SegmentsSafe, ActiveApart, OutputReady
  <1>8. Unaltered
    BY <1>1 DEF Unaltered
  <1>9. QED
    BY <1>1, <1>4, <1>5, <1>6, <1>7, <1>8 DEF StepSafe, SegmentsSafe

(* Naming the output, in memory only, keeps the invariant. *)
LEMMA CompactUnsnapSafe == ASSUME SegmentsSafe, CompactUnsnap PROVE StepSafe
  <1> DEFINE order == op.order
             seqs == {RecordAt(order[i]).seq : i \in DOMAIN order}
             info == [id |-> op.seg, bytes |-> Len(order),
                      last |-> CHOOSE s \in seqs : \A t \in seqs : t <= s]
  <1>1. /\ op.step = "compactUnsnap" /\ op'.step = "compactPublish"
        /\ man' = man /\ active' = active /\ files' = files
    BY DEF CompactUnsnap
  <1>2. /\ m' = [f \in ManifestFields |-> m'[f]]
        /\ m'.sealed = IF order = <<>> THEN <<>> ELSE <<info>>
        /\ m'.active = m.active /\ m'.nextSegmentId = m.nextSegmentId
    <2>1. m = [f \in ManifestFields |-> m[f]]
      BY DEF SegmentsSafe, WellFormed
    <2>2. m' = [m EXCEPT !.snapshotSeq = 0,
                         !.sealed = IF order = <<>> THEN <<>> ELSE <<info>>,
                         !.tombstones = 0]
      BY DEF CompactUnsnap
    <2> HIDE DEF info, order
    <2>3. QED
      BY <2>1, <2>2, Zenon DEF ManifestFields
  <1>3. /\ m'.sealed \in Seq({m'.sealed[i] : i \in DOMAIN m'.sealed})
        /\ SealedIds(m') \subseteq {op.seg}
        /\ SealedIds(m') # {} => order # <<>>
    <2>1. info.id = op.seg
      OBVIOUS
    <2> HIDE DEF info
    <2>2. CASE order = <<>>
      BY <1>2, <2>2, EmptyIds
    <2>3. CASE order # <<>>
      BY <1>2, <2>1, <2>3, SingleIds
    <2>4. QED
      BY <2>2, <2>3
  <1> HIDE DEF info, seqs
  <1>4. SealedIds(man') = SealedIds(man)
    BY <1>1 DEF SealedIds
  <1>5. WellFormed(m)' /\ WellFormed(man)'
    <2>1. WellFormed(m') /\ WellFormed(man')
      BY <1>1, <1>2, <1>3, <1>4, Zenon DEF SegmentsSafe, WellFormed, OutputReady, ActiveApart
    <2>2. QED
      BY <2>1 DEF WellFormed, SealedIds
  <1>6. Durable(man)' /\ Durable(m)'
    BY <1>1, <1>3, <1>4 DEF SegmentsSafe, Durable, OutputReady
  <1>7. ActiveApart' /\ ManifestsAgree' /\ OutputReady'
    BY <1>1, <1>2, <1>4 DEF SegmentsSafe, ActiveApart, ManifestsAgree, OutputReady
  <1>8. Unaltered
    BY <1>1 DEF Unaltered
  <1>9. QED
    BY <1>1, <1>5, <1>6, <1>7, <1>8 DEF StepSafe, SegmentsSafe

(* Removing the replaced segments keeps what either manifest names: by then *)
(* they are one and the same.                                               *)
LEMMA CompactRemoveSafe == ASSUME SegmentsSafe, CompactRemove PROVE StepSafe
  <1>1. /\ op.step = "compactRemove" /\ op'.step = "snapshot"
        /\ man' = man /\ m' = m /\ active' = active
        /\ files' = [id \in DOMAIN files \cap (SealedIds(m) \cup {active}) |-> files[id]]
    BY DEF CompactRemove, memory, At
  <1>2. m = man
    BY <1>1 DEF SegmentsSafe, ManifestsAgree
  <1>3. SealedIds(man') = SealedIds(man) /\ SealedIds(m') = SealedIds(man)
    BY <1>1, <1>2
  <1>4. WellFormed(m)' /\ WellFormed(man)'
    BY <1>1 DEF SegmentsSafe, WellFormed, SealedIds
  <1>5. Durable(man)' /\ Durable(m)'
    BY <1>1, <1>2, <1>3 DEF SegmentsSafe, Durable
  <1>6. ActiveApart' /\ ManifestsAgree' /\ OutputReady'
    BY <1>1, <1>3 DEF SegmentsSafe, ActiveApart, ManifestsAgree, OutputReady
  <1>7. files' = [i \in DOMAIN files' |-> files'[i]]
    BY <1>1
  <1>8. Unaltered
    BY <1>1, <1>2 DEF Unaltered, SegmentsSafe, Durable
  <1>9. QED
    BY <1>4, <1>5, <1>6, <1>7, <1>8 DEF StepSafe, SegmentsSafe

-----------------------------------------------------------------------------
(* Crashing and opening                                                    *)

(* A dying process leaves the sealed segments alone: what its buffer still *)
(* writes goes to the active one.                                          *)
LEMMA CrashSafe == ASSUME SegmentsSafe, Crash PROVE StepSafe
  <1>1. /\ man' = man /\ m' = man /\ active' = man.active /\ op'.step = "down"
    BY DEF Crash, Forget, At
  <1>2. OnlySegment(active)
    <2>1. PICK k \in 0 .. Len(buf), torn \in {<<>>, <<Torn>>} :
            files' = [files EXCEPT ![active].recs = @ \o SubSeq(buf, 1, k) \o torn]
      BY DEF Crash
    <2>2. files = [id \in DOMAIN files |-> files[id]]
      BY DEF SegmentsSafe
    <2>3. QED
      BY <2>1, <2>2, Zenon DEF OnlySegment
  <1>3. SealedIds(man') = SealedIds(man) /\ SealedIds(m') = SealedIds(man)
    BY <1>1
  <1>4. WellFormed(man)' /\ WellFormed(m)'
    BY <1>1, Zenon DEF SegmentsSafe, WellFormed, SealedIds
  <1>5. Durable(man)' /\ Durable(m)'
    BY <1>2, <1>3 DEF SegmentsSafe, Durable, OnlySegment, ActiveApart
  <1>6. ActiveApart' /\ ManifestsAgree' /\ OutputReady'
    BY <1>1, <1>3 DEF SegmentsSafe, WellFormed, ActiveApart, ManifestsAgree, OutputReady
  <1>7. Unaltered
    BY <1>2 DEF Unaltered, SegmentsSafe, Durable, OnlySegment, ActiveApart
  <1>8. QED
    BY <1>2, <1>4, <1>5, <1>6, <1>7 DEF StepSafe, SegmentsSafe, OnlySegment

(* A step of a closed or opening store that touches the active segment     *)
(* only keeps the invariant.                                               *)
LEMMA ClosedStep ==
  ASSUME SegmentsSafe, OnlySegment(man.active), m = man,
         WellFormed(man'), SealedIds(man') = SealedIds(man),
         man'.active = man.active,
         WellFormed(m'), SealedIds(m') = SealedIds(man), m'.active = man.active,
         m'.nextSegmentId = man.nextSegmentId,
         active' = man.active,
         op'.step \in {"down", "reject", "replay", "broken"} => m' = man',
         op'.step \notin {"compactRemove", "compactUnsnap"},
         op'.step \notin {"down", "broken"} => man.active \in DOMAIN files
  PROVE  StepSafe
  <1>1. WellFormed(man)' /\ WellFormed(m)'
    BY DEF WellFormed, SealedIds
  <1>2. man.active \notin SealedIds(man)
    BY DEF SegmentsSafe, WellFormed
  <1>3. Durable(man)' /\ Durable(m)'
    BY <1>2 DEF SegmentsSafe, Durable, OnlySegment
  <1>4. ActiveApart'
    BY <1>2 DEF ActiveApart, OnlySegment
  <1>5. ManifestsAgree'
    BY DEF SegmentsSafe, WellFormed, ManifestsAgree
  <1>6. OutputReady'
    BY DEF OutputReady
  <1>7. Unaltered
    BY <1>2 DEF Unaltered, SegmentsSafe, Durable, OnlySegment
  <1>8. QED
    BY <1>1, <1>3, <1>4, <1>5, <1>6, <1>7 DEF StepSafe, SegmentsSafe, OnlySegment

(* A power loss takes unsynced records, and only the active segment has any. *)
LEMMA PowerLossSafe == ASSUME SegmentsSafe, PowerLoss PROVE StepSafe
  <1>1. /\ op.step = "down" /\ op' = op /\ man' = man /\ m' = m /\ active' = active
        /\ \E v : files' = [files EXCEPT ![man.active] = v]
    BY DEF PowerLoss, memory
  <1>2. m = man /\ active = man.active /\ WellFormed(man)
    BY <1>1 DEF SegmentsSafe, ManifestsAgree, ActiveApart
  <1>3. OnlySegment(man.active)
    <2>1. PICK v : files' = [files EXCEPT ![man.active] = v]
      BY <1>1
    <2>2. files = [id \in DOMAIN files |-> files[id]]
      BY DEF SegmentsSafe
    <2>3. QED
      BY <2>1, <2>2, Zenon DEF OnlySegment
  <1>4. QED
    BY <1>1, <1>2, <1>3, ClosedStep

(* An open removes no segment the manifest names, finds every sealed one,  *)
(* and creates the active one when it is missing.                          *)
LEMMA OpenBeginSafe == ASSUME SegmentsSafe, OpenBegin PROVE StepSafe
  <1> DEFINE known == SealedIds(man) \cup {man.active}
             kept == [id \in DOMAIN files \cap known |-> files[id]]
             opened == IF man.active \in DOMAIN kept THEN kept
                       ELSE Put(kept, man.active, EmptySegment)
  <1>1. /\ op.step = "down" /\ man' = man /\ m' = m /\ active' = active
    BY DEF OpenBegin, memory
  <1>2. m = man /\ active = man.active /\ WellFormed(man)
    BY <1>1 DEF SegmentsSafe, ManifestsAgree, ActiveApart
  <1>3. SealedIds(man) \subseteq DOMAIN files
    BY DEF SegmentsSafe, Durable
  <1>4. files' = opened /\ op'.step \in {"reject", "replay"}
    BY <1>3 DEF OpenBegin, At
  <1>5. /\ files' = [i \in DOMAIN files' |-> files'[i]]
        /\ SealedIds(man) \cup {man.active} \subseteq DOMAIN files'
        /\ \A id \in SealedIds(man) : files'[id] = files[id]
    <2>1. man.active \notin SealedIds(man)
      BY <1>2 DEF WellFormed
    <2>2. CASE man.active \in DOMAIN files
      BY <1>3, <1>4, <2>2
    <2>3. CASE man.active \notin DOMAIN files
      <3>1. files' = Put(kept, man.active, EmptySegment)
        BY <1>4, <2>3
      <3>2. QED
        BY <1>3, <2>1, <3>1, SMT DEF Put
    <2>4. QED
      BY <2>2, <2>3
  <1>6. WellFormed(man)' /\ WellFormed(m)'
    BY <1>1, <1>2 DEF WellFormed, SealedIds
  <1>7. SealedIds(man') = SealedIds(man) /\ SealedIds(m') = SealedIds(man)
    BY <1>1, <1>2
  <1> HIDE DEF opened, kept
  <1>8. Durable(man)' /\ Durable(m)'
    BY <1>5, <1>7 DEF SegmentsSafe, Durable
  <1>9. ActiveApart' /\ ManifestsAgree' /\ OutputReady'
    BY <1>1, <1>2, <1>4, <1>5, <1>7 DEF SegmentsSafe, WellFormed, ActiveApart,
       ManifestsAgree, OutputReady
  <1>10. Unaltered
    BY <1>5 DEF Unaltered
  <1>11. QED
    BY <1>5, <1>6, <1>8, <1>9, <1>10 DEF StepSafe, SegmentsSafe

(* Forgetting a rejected snapshot keeps the invariant. *)
LEMMA OpenRejectSafe == ASSUME SegmentsSafe, OpenReject PROVE StepSafe
  <1>1. /\ op.step = "reject" /\ op'.step = "replay" /\ m' = man' /\ active' = active
        /\ files' = files
    BY DEF OpenReject, At
  <1>2. m = man /\ active = man.active /\ WellFormed(man) /\ man.active \in DOMAIN files
    BY <1>1 DEF SegmentsSafe, ManifestsAgree, ActiveApart
  <1>3. /\ man' = [f \in ManifestFields |-> man'[f]]
        /\ man'.sealed = man.sealed /\ man'.active = man.active
        /\ man'.nextSegmentId = man.nextSegmentId
    <2>1. man = [f \in ManifestFields |-> man[f]] /\ man' = [man EXCEPT !.snapshotSeq = 0]
      BY <1>2 DEF WellFormed, OpenReject
    <2>2. QED
      BY <2>1, Zenon DEF ManifestFields
  <1>4. WellFormed(man') /\ SealedIds(man') = SealedIds(man)
    BY <1>2, <1>3, CountersOnly
  <1>5. QED
    BY <1>1, <1>2, <1>3, <1>4, FilesUnchanged, ClosedStep

(* Replaying, with the truncation of a torn tail, keeps the invariant. *)
LEMMA OpenReplaySafe == ASSUME SegmentsSafe, OpenReplay PROVE StepSafe
  <1>1. op.step = "replay" /\ man' = man
    BY DEF OpenReplay
  <1>2. m = man /\ active = man.active /\ WellFormed(man) /\ man.active \in DOMAIN files
    BY <1>1 DEF SegmentsSafe, ManifestsAgree, ActiveApart
  <1>3. CASE Undamaged
    <2> DEFINE next == RecoveredNextSeq
    <2>1. /\ m' = [man EXCEPT !.nextSeq = next] /\ active' = man.active /\ op'.step = "idle"
          /\ \E v : files' = [files EXCEPT ![man.active] = v]
      BY <1>3 DEF OpenReplay, At
    <2> HIDE DEF next
    <2>2. /\ m' = [g \in ManifestFields |-> m'[g]]
          /\ m'.sealed = man.sealed /\ m'.active = man.active
          /\ m'.nextSegmentId = man.nextSegmentId
      <3>1. man = [g \in ManifestFields |-> man[g]]
        BY <1>2 DEF WellFormed
      <3>2. QED
        BY <2>1, <3>1, Zenon DEF ManifestFields
    <2>3. WellFormed(m') /\ SealedIds(m') = SealedIds(man)
      BY <1>2, <2>2, CountersOnly
    <2>4. OnlySegment(man.active)
      <3>1. PICK v : files' = [files EXCEPT ![man.active] = v]
        BY <2>1
      <3>2. files = [id \in DOMAIN files |-> files[id]]
        BY DEF SegmentsSafe
      <3>3. QED
        BY <3>1, <3>2, Zenon DEF OnlySegment
    <2>5. WellFormed(man') /\ SealedIds(man') = SealedIds(man)
      BY <1>1, <1>2
    <2>6. QED
      BY <1>1, <1>2, <2>1, <2>2, <2>3, <2>4, <2>5, ClosedStep
  <1>4. CASE ~ Undamaged
    <2>1. files' = files /\ m' = m /\ active' = active /\ op'.step = "broken"
      BY <1>4 DEF OpenReplay, At
    <2>2. QED
      BY <1>1, <1>2, <2>1, FilesUnchanged, ClosedStep
  <1>5. QED
    BY <1>3, <1>4

-----------------------------------------------------------------------------
(* The theorems *)

(* Every step keeps the invariant and the sealed records. *)
LEMMA NextSafe == SegmentsSafe /\ [Next]_vars => StepSafe
  <1> SUFFICES ASSUME SegmentsSafe, [Next]_vars PROVE StepSafe
    OBVIOUS
  <1>1. CASE Next
    BY <1>1, AppendDocumentSafe, InsertRewindSafe, InsertCommitSafe, AppendDeleteSafe,
       DeleteCommitSafe, SealActiveSafe, SealPublishSafe, FsyncSafe, SnapshotWriteSafe,
       SnapshotPublishSafe, CompactWriteSafe, CompactFailsSafe, CompactUnsnapSafe,
       CompactPublishSafe, CompactRemoveSafe, CrashSafe, PowerLossSafe, OpenBeginSafe,
       OpenRejectSafe, OpenReplaySafe DEF Next
  <1>2. CASE UNCHANGED vars
    <2>1. files' = files /\ man' = man /\ m' = m /\ active' = active /\ op' = op
      BY <1>2 DEF vars
    <2>2. SealedIds(man)' = SealedIds(man) /\ SealedIds(m)' = SealedIds(m)
      BY <2>1 DEF SealedIds
    <2>3. WellFormed(man)' /\ WellFormed(m)'
      <3>1. WellFormed(man) /\ WellFormed(m)
        BY DEF SegmentsSafe
      <3>2. WellFormed(man)'
        BY <2>1, <2>2, <3>1 DEF WellFormed
      <3>3. WellFormed(m)'
        BY <2>1, <2>2, <3>1 DEF WellFormed
      <3>4. QED
        BY <3>2, <3>3
    <2>4. Durable(man)' /\ Durable(m)'
      BY <2>1, <2>2 DEF SegmentsSafe, Durable
    <2>5. ActiveApart' /\ ManifestsAgree' /\ OutputReady'
      BY <2>1, <2>2 DEF SegmentsSafe, ActiveApart, ManifestsAgree, OutputReady
    <2>6. QED
      BY <2>1, <2>3, <2>4, <2>5 DEF StepSafe, SegmentsSafe, Unaltered
  <1>3. QED
    BY <1>1, <1>2

(* In every reachable state, at every point of a seal, a compaction or an    *)
(* open, the two manifests are well formed, what they call sealed is durable *)
(* and the file being written is none of it (store.rs: seal_active, compact, *)
(* open_with).                                                               *)
THEOREM SegmentsStaySafe == Spec => []SegmentsSafe
  <1>1. SegmentsSafe /\ [Next]_vars => SegmentsSafe'
    BY NextSafe DEF StepSafe
  <1>2. QED
    BY <1>1, InitSafe, PTL DEF Spec

(* No crash or power loss, at any point of a seal, a compaction or an open, *)
(* can take a segment the manifest calls sealed, or a part of one           *)
(* (segment.rs:117-120, compact.rs:119-129).                                *)
THEOREM SealedSegmentsDurable == Spec => []SealedDurable
  <1>1. SegmentsSafe => SealedDurable
    BY DEF SegmentsSafe, SealedDurable
  <1>2. QED
    BY <1>1, SegmentsStaySafe, PTL

(* No step, of the store, of a crash or of a power loss, changes a record   *)
(* of a segment that the manifest calls sealed before and after it: readers *)
(* may map it and compaction may copy it (compact.rs:8).                    *)
THEOREM SealedSegmentsImmutable == Spec => SealedImmutable
  <1>1. SegmentsSafe /\ [Next]_vars => SegmentsSafe'
    BY NextSafe DEF StepSafe
  <1>2. SegmentsSafe /\ [Next]_vars
          => [\A id \in SealedIds(man) \cap SealedIds(man') :
                files'[id].recs = files[id].recs]_vars
    BY NextSafe DEF StepSafe, Unaltered
  <1>3. QED
    BY <1>1, <1>2, InitSafe, PTL DEF Spec, SealedImmutable

-----------------------------------------------------------------------------
(* What the log holds: the invariant *)

PartRecords == [kind : {"Split", "Summary"}, seq : Nat \ {0}, doc : Docs, part : Parts]
DeleteRecords == [kind : {"DeleteDoc"}, seq : Nat \ {0}, doc : Docs]
DocRecords ==
  [kind : {"Doc"}, seq : Nat \ {0}, doc : Docs, splits : SUBSET Parts, list : SUBSET Parts]
LogRecords == PartRecords \cup DeleteRecords \cup DocRecords

Locs == [seg : Nat, off : Nat]
Entries ==
  [splits : SUBSET Parts, list : SUBSET Parts, extra : SUBSET Parts, seq : Nat, loc : Locs]

(* A process has finitely many documents, of however many there may be. *)
FiniteDocs == {D \in SUBSET Docs : IsFiniteSet(D)}
DocMaps == UNION {[D -> Entries] : D \in FiniteDocs}
PartMaps == UNION {[K -> Locs] : K \in SUBSET (Docs \X Parts)}
AllMaps == [docs : DocMaps, splits : PartMaps, summaries : PartMaps]

Segments == [recs : Seq(LogRecords \cup {Torn}), synced : Nat]

(* Manifest::next_seq starts at one. *)
Counters(mm) ==
  mm.nextSeq \in Nat \ {0} /\ mm.snapshotSeq \in Nat /\ mm.tombstones \in Nat

FilesTyped ==
  \A id \in DOMAIN files :
    id \in Nat /\ files[id] \in Segments /\ files[id].synced <= Len(files[id].recs)

DiskTypes ==
  /\ FilesTyped
  /\ Counters(man)
  /\ snap.exists \in BOOLEAN
  /\ snap.exists => snap.maps \in AllMaps /\ snap.seq \in Nat

MemoryTypes ==
  /\ Counters(m)
  /\ lastSeq \in Nat /\ pend \in Nat
  /\ maps \in AllMaps
  /\ buf \in Seq(LogRecords)
  /\ crashes \in 0 .. MaxCrashes

Steps == {"idle", "insert", "delete", "seal", "sealPublish", "snapshot", "snapshotPublish",
          "compactUnsnap", "compactPublish", "compactRemove", "down", "reject", "replay"}

(* The operation in progress.  Only a write has anything buffered. *)
OpTypes ==
  /\ op.step \in Steps
  /\ op.step = "insert" =>
       /\ op.doc \in Docs /\ op.content \in Contents /\ op.rewindSeq \in Nat \ {0}
       /\ Len(buf) >= 2 * op.content.splits + 1
  /\ op.step = "delete" => op.doc \in DOMAIN maps.docs
  /\ op.step \notin {"insert", "delete"} => buf = <<>>
  /\ op.step \in {"compactUnsnap", "compactPublish"} => op.order \in Seq(Locs) /\ op.seg \in Nat

(* Where a cut record may be: at the tail of the active segment, while the *)
(* store is closed.                                                        *)
TornAtTail ==
  /\ \A id \in SealedIds(man) \cup SealedIds(m) : files[id].recs \in Seq(LogRecords)
  /\ op.step = "compactUnsnap" /\ op.order # <<>> => files[op.seg].recs \in Seq(LogRecords)
  /\ Up => files[active].recs \in Seq(LogRecords)
  /\ \A id \in {active, man.active} \cap DOMAIN files : TornTailOnly(files[id].recs)

LogInv == DiskTypes /\ MemoryTypes /\ OpTypes /\ TornAtTail

-----------------------------------------------------------------------------
(* The maps *)

LEMMA DocMapFacts ==
  ASSUME NEW f
  PROVE  f \in DocMaps <=> DOMAIN f \in FiniteDocs /\ f \in [DOMAIN f -> Entries]
  BY DEF DocMaps

LEMMA PartMapFacts ==
  ASSUME NEW f
  PROVE  f \in PartMaps <=> DOMAIN f \subseteq Docs \X Parts /\ f \in [DOMAIN f -> Locs]
  BY DEF PartMaps

LEMMA EmptyMapsTyped == EmptyMaps \in AllMaps
<1>1. <<>> \in DocMaps
  <2>1. <<>> \in [{} -> Entries] /\ DOMAIN <<>> = {}
    OBVIOUS
  <2>2. {} \in FiniteDocs
    BY FS_EmptySet DEF FiniteDocs
  <2> QED
    BY <2>1, <2>2 DEF DocMaps
<1>2. <<>> \in PartMaps
  BY DEF PartMaps
<1> QED
  BY <1>1, <1>2 DEF EmptyMaps, AllMaps

(* A map with some keys taken out, and with some put in. *)
LEMMA WithoutTyped ==
  ASSUME NEW f \in PartMaps, NEW keys
  PROVE  Without(f, keys) \in PartMaps
<1>1. DOMAIN f \subseteq Docs \X Parts /\ f \in [DOMAIN f -> Locs]
  BY PartMapFacts
<1>2. /\ DOMAIN Without(f, keys) = DOMAIN f \ keys
      /\ Without(f, keys) \in [DOMAIN f \ keys -> Locs]
  BY <1>1 DEF Without
<1> QED
  BY <1>1, <1>2 DEF PartMaps

LEMMA MergeTyped ==
  ASSUME NEW f \in PartMaps, NEW g \in PartMaps
  PROVE  Over(f, g) \in PartMaps
<1>1. /\ DOMAIN f \subseteq Docs \X Parts /\ f \in [DOMAIN f -> Locs]
      /\ DOMAIN g \subseteq Docs \X Parts /\ g \in [DOMAIN g -> Locs]
  BY PartMapFacts
<1>2. Over(f, g) \in [DOMAIN f \cup DOMAIN g -> Locs]
  BY <1>1 DEF Over
<1> QED
  BY <1>1, <1>2 DEF PartMaps

LEMMA RemoveDocTyped ==
  ASSUME NEW mp \in AllMaps, NEW d
  PROVE  RemoveDoc(mp, d) \in AllMaps
<1>1. mp.docs \in DocMaps /\ mp.splits \in PartMaps /\ mp.summaries \in PartMaps
  BY DEF AllMaps
<1>2. Without(mp.docs, {d}) \in DocMaps
  <2>1. DOMAIN mp.docs \in FiniteDocs /\ mp.docs \in [DOMAIN mp.docs -> Entries]
    BY <1>1, DocMapFacts
  <2>2. DOMAIN mp.docs \ {d} \in FiniteDocs
    BY <2>1, FS_Subset DEF FiniteDocs
  <2>3. Without(mp.docs, {d}) \in [DOMAIN mp.docs \ {d} -> Entries]
    BY <2>1 DEF Without
  <2> QED
    BY <2>2, <2>3 DEF DocMaps
<1>3. CASE d \in DOMAIN mp.docs
  <2>1. PICK ks, ls : RemoveDoc(mp, d) =
          [docs |-> Without(mp.docs, {d}), splits |-> Without(mp.splits, ks),
           summaries |-> Without(mp.summaries, ls)]
    BY <1>3 DEF RemoveDoc
  <2>2. Without(mp.splits, ks) \in PartMaps /\ Without(mp.summaries, ls) \in PartMaps
    BY <1>1, WithoutTyped
  <2> QED
    BY <1>2, <2>1, <2>2 DEF AllMaps
<1>4. CASE d \notin DOMAIN mp.docs
  BY <1>4 DEF RemoveDoc
<1> QED
  BY <1>3, <1>4

LEMMA PutDocTyped ==
  ASSUME NEW mp \in AllMaps, NEW d \in Docs, NEW e \in Entries,
         NEW sl \in PartMaps, NEW ml \in PartMaps
  PROVE  PutDoc(mp, d, e, sl, ml) \in AllMaps
<1>1. mp.docs \in DocMaps /\ mp.splits \in PartMaps /\ mp.summaries \in PartMaps
  BY DEF AllMaps
<1>2. Put(mp.docs, d, e) \in DocMaps
  <2>1. DOMAIN mp.docs \in FiniteDocs /\ mp.docs \in [DOMAIN mp.docs -> Entries]
    BY <1>1, DocMapFacts
  <2>2. DOMAIN mp.docs \cup {d} \in FiniteDocs
    BY <2>1, FS_AddElement DEF FiniteDocs
  <2>3. Put(mp.docs, d, e) \in [DOMAIN mp.docs \cup {d} -> Entries]
    BY <2>1 DEF Put
  <2> QED
    BY <2>2, <2>3 DEF DocMaps
<1>3. Over(sl, mp.splits) \in PartMaps /\ Over(ml, mp.summaries) \in PartMaps
  BY <1>1, MergeTyped
<1> QED
  BY <1>2, <1>3 DEF PutDoc, AllMaps

(* What the parts of a document and its entry are, once committed. *)
LEMMA KeysTyped ==
  ASSUME NEW d \in Docs, NEW parts \in SUBSET Parts
  PROVE  /\ Keys(d, parts) \subseteq Docs \X Parts
         /\ \A k \in Keys(d, parts) : k[2] \in parts /\ k = <<d, k[2]>>
  BY DEF Keys

-----------------------------------------------------------------------------
(* Replay *)

Pendings == UNION {[K -> Locs] : K \in SUBSET ({"Split", "Summary"} \X Docs \X Parts)}
Scans == [maps : AllMaps, pending : Pendings]

LEMMA PendingFacts ==
  ASSUME NEW f
  PROVE  f \in Pendings <=> /\ DOMAIN f \subseteq {"Split", "Summary"} \X Docs \X Parts
                            /\ f \in [DOMAIN f -> Locs]
  BY DEF Pendings

(* What stays buffered when a document's records leave. *)
LEMMA PendingLeft ==
  ASSUME NEW pending \in Pendings, NEW d
  PROVE  [k \in {x \in DOMAIN pending : x[2] # d} |-> pending[k]] \in Pendings
<1> DEFINE K == {x \in DOMAIN pending : x[2] # d}
<1>1. /\ DOMAIN pending \subseteq {"Split", "Summary"} \X Docs \X Parts
      /\ pending \in [DOMAIN pending -> Locs]
  BY PendingFacts
<1>2. K \in SUBSET ({"Split", "Summary"} \X Docs \X Parts) /\ K \subseteq DOMAIN pending
  BY <1>1
<1> HIDE DEF K
<1>3. [k \in K |-> pending[k]] \in [K -> Locs]
  BY <1>1, <1>2
<1> QED
  BY <1>2, <1>3 DEF Pendings, K

(* Commit of a document. *)
LEMMA CommitTyped ==
  ASSUME NEW mp \in AllMaps, NEW pending \in Pendings, NEW r \in DocRecords, NEW loc \in Locs
  PROVE  CommitDoc(mp, pending, r, loc) \in Scans
<1> DEFINE d == r.doc
           mine(kind) == {i \in Parts : <<kind, d, i>> \in DOMAIN pending}
           placed(kind) == [k \in Keys(d, mine(kind)) |-> pending[<<kind, d, k[2]>>]]
           entry == [splits |-> r.splits, list |-> r.list,
                     extra |-> mine("Split") \ r.list, seq |-> r.seq, loc |-> loc]
           left == [k \in {x \in DOMAIN pending : x[2] # d} |-> pending[k]]
<1>1. /\ DOMAIN pending \subseteq {"Split", "Summary"} \X Docs \X Parts
      /\ pending \in [DOMAIN pending -> Locs]
  BY PendingFacts
<1>2. d \in Docs /\ r.splits \subseteq Parts /\ r.list \subseteq Parts /\ r.seq \in Nat
  BY DEF DocRecords
<1>3. entry \in Entries
  BY <1>2 DEF Entries
<1>4. ASSUME NEW kind PROVE placed(kind) \in PartMaps
  <2>1. mine(kind) \in SUBSET Parts
    OBVIOUS
  <2>2. ASSUME NEW k \in Keys(d, mine(kind)) PROVE pending[<<kind, d, k[2]>>] \in Locs
    <3>1. k[2] \in mine(kind)
      BY <1>2, <2>1, KeysTyped
    <3> QED
      BY <1>1, <3>1
  <2>3. Keys(d, mine(kind)) \subseteq Docs \X Parts
    BY <1>2, <2>1, KeysTyped
  <2>4. placed(kind) \in [Keys(d, mine(kind)) -> Locs]
    BY <2>2
  <2> HIDE DEF placed, mine
  <2> QED
    BY <2>3, <2>4 DEF PartMaps
<1>5. left \in Pendings
  BY PendingLeft
<1>6. RemoveDoc(mp, d) \in AllMaps
  BY RemoveDocTyped
<1>7. placed("Split") \in PartMaps /\ placed("Summary") \in PartMaps
  BY <1>4
<1>8. CommitDoc(mp, pending, r, loc) =
        [maps |-> PutDoc(RemoveDoc(mp, d), d, entry, placed("Split"), placed("Summary")),
         pending |-> left]
  BY DEF CommitDoc
<1> HIDE DEF placed, entry, left, d
<1>9. PutDoc(RemoveDoc(mp, d), d, entry, placed("Split"), placed("Summary")) \in AllMaps
  BY <1>2, <1>3, <1>6, <1>7, PutDocTyped
<1> QED
  BY <1>5, <1>8, <1>9 DEF Scans

(* A record of one kind is of that kind's shape. *)
LEMMA RecordKinds ==
  ASSUME NEW r \in LogRecords
  PROVE  /\ r.kind \in {"Split", "Summary"} <=> r \in PartRecords
         /\ r.kind = "DeleteDoc" <=> r \in DeleteRecords
         /\ r.kind = "Doc" <=> r \in DocRecords
         /\ r.seq \in Nat /\ r.seq # 0 /\ ~ IsTorn(r)
  BY DEF LogRecords, PartRecords, DeleteRecords, DocRecords, IsTorn

LEMMA ApplyTyped ==
  ASSUME NEW mp \in AllMaps, NEW pending \in Pendings, NEW r \in LogRecords, NEW loc \in Locs
  PROVE  Apply(mp, pending, r, loc) \in Scans
<1>1. /\ DOMAIN pending \subseteq {"Split", "Summary"} \X Docs \X Parts
      /\ pending \in [DOMAIN pending -> Locs]
  BY PendingFacts
<1>2. CASE r \in PartRecords
  <2> DEFINE key == <<r.kind, r.doc, r.part>>
  <2>1. key \in {"Split", "Summary"} \X Docs \X Parts
    BY <1>2 DEF PartRecords
  <2>2. Apply(mp, pending, r, loc) = [maps |-> mp, pending |-> Put(pending, key, loc)]
    BY <1>2, RecordKinds DEF Apply
  <2> HIDE DEF key
  <2>3. Put(pending, key, loc) \in [DOMAIN pending \cup {key} -> Locs]
    BY <1>1 DEF Put
  <2>4. Put(pending, key, loc) \in Pendings
    BY <1>1, <2>1, <2>3 DEF Pendings
  <2> QED
    BY <2>2, <2>4 DEF Scans
<1>3. CASE r \in DeleteRecords
  <2> DEFINE left == [k \in {x \in DOMAIN pending : x[2] # r.doc} |-> pending[k]]
  <2>1. left \in Pendings
    BY PendingLeft
  <2>2. Apply(mp, pending, r, loc) = [maps |-> RemoveDoc(mp, r.doc), pending |-> left]
    BY <1>3, RecordKinds DEF Apply
  <2> HIDE DEF left
  <2> QED
    BY <2>1, <2>2, RemoveDocTyped DEF Scans
<1>4. CASE r \in DocRecords
  <2>1. Apply(mp, pending, r, loc) = CommitDoc(mp, pending, r, loc)
    BY <1>4, RecordKinds DEF Apply
  <2> QED
    BY <1>4, <2>1, CommitTyped
<1> QED
  BY <1>2, <1>3, <1>4 DEF LogRecords

(* The records before the first that was cut short. *)
LEMMA DecodedFacts ==
  ASSUME NEW recs \in Seq(LogRecords \cup {Torn})
  PROVE  /\ Decoded(recs) \in 0 .. Len(recs)
         /\ \A i \in 1 .. Decoded(recs) : ~ IsTorn(recs[i])
         /\ Decoded(recs) < Len(recs) => IsTorn(recs[Decoded(recs) + 1])
<1> DEFINE bad == {i \in 1 .. Len(recs) : IsTorn(recs[i])}
<1>1. \E n \in 0 .. Len(recs) : /\ \A i \in 1 .. n : ~ IsTorn(recs[i])
                                /\ n < Len(recs) => IsTorn(recs[n + 1])
  <2>1. CASE bad = {}
    BY <2>1
  <2>2. CASE bad # {}
    <3>1. PICK b \in bad : \A y \in bad : b <= y
      <4>1. bad \subseteq Nat
        OBVIOUS
      <4> HIDE DEF bad
      <4> QED
        BY <2>2, <4>1, LeastNumber
    <3>2. b - 1 \in 0 .. Len(recs) /\ IsTorn(recs[(b - 1) + 1])
      OBVIOUS
    <3>3. \A i \in 1 .. b - 1 : ~ IsTorn(recs[i])
      BY <3>1
    <3> QED
      BY <3>2, <3>3
  <2> QED
    BY <2>1, <2>2
<1> QED
  BY <1>1 DEF Decoded

LEMMA DecodableTyped ==
  ASSUME NEW recs \in Seq(LogRecords \cup {Torn})
  PROVE  /\ Decodable(recs) \in Seq(LogRecords)
         /\ Len(Decodable(recs)) = Decoded(recs)
         /\ \A i \in 1 .. Decoded(recs) : Decodable(recs)[i] = recs[i]
<1> DEFINE n == Decoded(recs)
<1>1. n \in 0 .. Len(recs) /\ \A i \in 1 .. n : ~ IsTorn(recs[i])
  BY DecodedFacts
<1>2. Decodable(recs) = SubSeq(recs, 1, n)
  BY DEF Decodable
<1>3. ASSUME NEW i \in 1 .. n PROVE recs[i] \in LogRecords
  <2>1. recs[i] \in LogRecords \cup {Torn}
    BY <1>1
  <2>2. ~ IsTorn(recs[i])
    BY <1>1
  <2> QED
    BY <2>1, <2>2 DEF IsTorn, Torn
<1> HIDE DEF n
<1>4. n \in Int /\ 1 \in Int /\ n >= 0
  BY <1>1
<1>5. /\ SubSeq(recs, 1, n) \in Seq(LogRecords)
      /\ Len(SubSeq(recs, 1, n)) = IF 1 <= n THEN n - 1 + 1 ELSE 0
      /\ \A i \in 1 .. n - 1 + 1 : SubSeq(recs, 1, n)[i] = recs[1 + i - 1]
  BY <1>3, <1>4, SubSeqProperties
<1>6. /\ Len(SubSeq(recs, 1, n)) = n
      /\ \A i \in 1 .. n : SubSeq(recs, 1, n)[i] = recs[i]
  BY <1>4, <1>5
<1> QED
  BY <1>2, <1>5, <1>6 DEF n

(* f scans records good of segment seg, one record at a time. *)
ScansFrom(f, mp, seg, good, snapshotSeq) ==
  /\ f[0] = [maps |-> mp, pending |-> <<>>]
  /\ \A i \in 1 .. Len(good) :
       f[i] = IF good[i].seq > snapshotSeq
              THEN Apply(f[i - 1].maps, f[i - 1].pending, good[i], [seg |-> seg, off |-> i])
              ELSE f[i - 1]

(* The recursive function inside ScanSegment satisfies its equation. *)
LEMMA ScanEquation ==
  ASSUME NEW mp \in AllMaps, NEW seg \in Nat, NEW recs \in Seq(LogRecords \cup {Torn}),
         NEW snapshotSeq
  PROVE  \E f \in [0 .. Len(Decodable(recs)) -> Scans] :
           /\ ScansFrom(f, mp, seg, Decodable(recs), snapshotSeq)
           /\ ScanSegment(mp, seg, recs, snapshotSeq) = f[Len(Decodable(recs))].maps
<1> DEFINE good == Decodable(recs)
           N == Len(good)
           scan[i \in 0 .. Len(good)] ==
             IF i = 0 THEN [maps |-> mp, pending |-> <<>>]
             ELSE LET before == scan[i - 1]
                  IN  IF good[i].seq > snapshotSeq
                      THEN Apply(before.maps, before.pending, good[i],
                                 [seg |-> seg, off |-> i])
                      ELSE before
           After(i, s) == IF good[i].seq > snapshotSeq
                          THEN Apply(s.maps, s.pending, good[i], [seg |-> seg, off |-> i])
                          ELSE s
           zero == [maps |-> mp, pending |-> <<>>]
           step == [i \in 1 .. N |-> [s \in Scans |-> After(i, s)]]
<1>1. good \in Seq(LogRecords)
  BY DecodableTyped
<1> HIDE DEF good
<1>2. N \in Nat /\ \A i \in 1 .. N : good[i] \in LogRecords
  BY <1>1, LenProperties, ElementOfSeq
<1>3. zero \in Scans
  <2>1. <<>> \in Pendings
    <3>1. <<>> \in [{} -> Locs]
      OBVIOUS
    <3> QED
      BY <3>1 DEF Pendings
  <2> QED
    BY <2>1 DEF Scans
<1>4. ASSUME NEW i \in 1 .. N, NEW s \in Scans PROVE After(i, s) \in Scans
  <2>1. s.maps \in AllMaps /\ s.pending \in Pendings /\ [seg |-> seg, off |-> i] \in Locs
    BY <1>2 DEF Scans, Locs
  <2>2. Apply(s.maps, s.pending, good[i], [seg |-> seg, off |-> i]) \in Scans
    BY <1>2, <2>1, ApplyTyped
  <2> QED
    BY <2>2
<1>5. step \in [1 .. N -> [Scans -> Scans]]
  <2> HIDE DEF After, N
  <2> QED
    BY <1>4
<1>6. PICK f \in [0 .. N -> Scans] : Follows(f, N, zero, step)
  <2> HIDE DEF step, N, zero
  <2> QED
    BY <1>2, <1>3, <1>5, SetRecursion
<1>7. ASSUME NEW i \in 1 .. N PROVE f[i] = After(i, f[i - 1])
  <2>1. i - 1 \in 0 .. N
    BY <1>2
  <2>2. f[i - 1] \in Scans
    BY <2>1
  <2>3. f[i] = step[i][f[i - 1]]
    BY <1>6 DEF Follows
  <2> HIDE DEF After
  <2> QED
    BY <2>2, <2>3
<1>8. f[0] = zero
  BY <1>6 DEF Follows
<1>9. f = [i \in 0 .. N |-> IF i = 0 THEN zero ELSE After(i, f[i - 1])]
  <2> HIDE DEF step, After, zero, N
  <2>1. \A i \in 0 .. N : i = 0 \/ i \in 1 .. N
    BY <1>2
  <2> QED
    BY <1>7, <1>8, <2>1
<1>10. scan = [i \in 0 .. N |-> IF i = 0 THEN zero ELSE After(i, scan[i - 1])]
  BY <1>9, Zenon
<1>11. ScanSegment(mp, seg, recs, snapshotSeq) = scan[N].maps
  BY DEF ScanSegment, good
<1> HIDE DEF scan
<1>12. scan[0] = zero
  <2> HIDE DEF zero, After
  <2> QED
    BY <1>2, <1>10
<1>13. ASSUME NEW i \in 1 .. N PROVE scan[i] = After(i, scan[i - 1])
  <2>1. i \in 0 .. N /\ i # 0
    BY <1>2
  <2> HIDE DEF zero, After
  <2> QED
    BY <1>10, <2>1
<1>14. \A i \in 0 .. N : scan[i] \in Scans
  <2>1. ASSUME NEW i \in 1 .. N, scan[i - 1] \in Scans PROVE scan[i] \in Scans
    <3> HIDE DEF After
    <3> QED
      BY <1>4, <1>13, <2>1
  <2> HIDE DEF N, zero, After
  <2> QED
    BY <1>2, <1>3, <1>12, <2>1, RecursionIn
<1>15. scan \in [0 .. N -> Scans]
  <2> HIDE DEF After, zero
  <2> QED
    BY <1>10, <1>14
<1>16. ScansFrom(scan, mp, seg, good, snapshotSeq)
  BY <1>12, <1>13 DEF ScansFrom
<1> QED
  BY <1>11, <1>15, <1>16 DEF good

LEMMA ScanTyped ==
  ASSUME NEW mp \in AllMaps, NEW seg \in Nat, NEW recs \in Seq(LogRecords \cup {Torn}),
         NEW snapshotSeq
  PROVE  ScanSegment(mp, seg, recs, snapshotSeq) \in AllMaps
<1> DEFINE n == Len(Decodable(recs))
<1>1. PICK f \in [0 .. n -> Scans] : ScanSegment(mp, seg, recs, snapshotSeq) = f[n].maps
  BY ScanEquation
<1>2. n \in Nat
  BY DecodableTyped, LenProperties
<1>3. f[n] \in Scans
  BY <1>2
<1> QED
  BY <1>1, <1>3 DEF Scans

(* The files a manifest on disk names are there, and typed. *)
LEMMA NamedFiles ==
  ASSUME DiskTypes, SegmentsSafe
  PROVE  /\ \A i \in 1 .. Len(man.sealed) :
              /\ man.sealed[i].id \in SealedIds(man) /\ man.sealed[i].id \in Nat
              /\ files[man.sealed[i].id].recs \in Seq(LogRecords \cup {Torn})
         /\ Len(man.sealed) \in Nat /\ DOMAIN man.sealed = 1 .. Len(man.sealed)
         /\ man.active \in Nat
<1>1. man.sealed \in Seq({man.sealed[i] : i \in DOMAIN man.sealed}) /\ man.active \in Nat
  BY DEF SegmentsSafe, WellFormed
<1>2. Len(man.sealed) \in Nat /\ DOMAIN man.sealed = 1 .. Len(man.sealed)
  BY <1>1, LenProperties
<1>3. ASSUME NEW i \in 1 .. Len(man.sealed)
      PROVE  /\ man.sealed[i].id \in SealedIds(man) /\ man.sealed[i].id \in Nat
             /\ files[man.sealed[i].id].recs \in Seq(LogRecords \cup {Torn})
  <2>1. man.sealed[i].id \in SealedIds(man)
    BY <1>2 DEF SealedIds
  <2>2. man.sealed[i].id \in DOMAIN files
    BY <2>1 DEF SegmentsSafe, Durable
  <2> QED
    BY <2>1, <2>2 DEF DiskTypes, FilesTyped, Segments
<1> QED
  BY <1>1, <1>2, <1>3

(* g holds the maps after each of the sealed segments. *)
ReplaysSealed(g, base) ==
  /\ g[0] = base.maps
  /\ \A i \in 1 .. Len(man.sealed) :
       g[i] = IF man.sealed[i].last <= base.seq THEN g[i - 1]
              ELSE ScanSegment(g[i - 1], man.sealed[i].id, files[man.sealed[i].id].recs, base.seq)

(* The recursive function inside ReplayFrom satisfies its equation. *)
LEMMA ReplayEquation ==
  ASSUME DiskTypes, SegmentsSafe, man.active \in DOMAIN files, NEW base, base.maps \in AllMaps
  PROVE  \E g \in [0 .. Len(man.sealed) -> AllMaps] :
           /\ ReplaysSealed(g, base)
           /\ ReplayFrom(base) =
                ScanSegment(g[Len(man.sealed)], man.active, files[man.active].recs, base.seq)
<1> DEFINE N == Len(man.sealed)
           sealed[i \in 0 .. Len(man.sealed)] ==
             IF i = 0 THEN base.maps
             ELSE LET info == man.sealed[i]
                  IN  IF info.last <= base.seq THEN sealed[i - 1]
                      ELSE ScanSegment(sealed[i - 1], info.id, files[info.id].recs, base.seq)
           After(i, mp) ==
             IF man.sealed[i].last <= base.seq THEN mp
             ELSE ScanSegment(mp, man.sealed[i].id, files[man.sealed[i].id].recs, base.seq)
           step == [i \in 1 .. N |-> [mp \in AllMaps |-> After(i, mp)]]
           zero == base.maps
<1>1. N \in Nat
  BY NamedFiles
<1>2. ASSUME NEW i \in 1 .. N, NEW mp \in AllMaps PROVE After(i, mp) \in AllMaps
  <2>1. /\ man.sealed[i].id \in Nat
        /\ files[man.sealed[i].id].recs \in Seq(LogRecords \cup {Torn})
    BY NamedFiles
  <2>2. ScanSegment(mp, man.sealed[i].id, files[man.sealed[i].id].recs, base.seq) \in AllMaps
    BY <2>1, ScanTyped
  <2> QED
    BY <2>2
<1> HIDE DEF After
<1>3. step \in [1 .. N -> [AllMaps -> AllMaps]]
  <2> HIDE DEF N
  <2> QED
    BY <1>2
<1>4. PICK f \in [0 .. N -> AllMaps] : Follows(f, N, zero, step)
  <2>1. zero \in AllMaps
    OBVIOUS
  <2> HIDE DEF step, N, zero
  <2> QED
    BY <1>1, <1>3, <2>1, SetRecursion
<1>5. f = [i \in 0 .. N |-> IF i = 0 THEN zero ELSE After(i, f[i - 1])]
  <2>1. ASSUME NEW i \in 1 .. N PROVE f[i] = After(i, f[i - 1])
    <3>1. i - 1 \in 0 .. N
      BY <1>1
    <3>2. f[i - 1] \in AllMaps
      BY <3>1
    <3>3. f[i] = step[i][f[i - 1]]
      BY <1>4 DEF Follows
    <3> QED
      BY <3>2, <3>3
  <2>2. f[0] = zero /\ \A i \in 0 .. N : i = 0 \/ i \in 1 .. N
    BY <1>1, <1>4 DEF Follows
  <2> HIDE DEF step, zero
  <2> QED
    BY <2>1, <2>2
<1>6. sealed = [i \in 0 .. N |-> IF i = 0 THEN zero ELSE After(i, sealed[i - 1])]
  BY <1>5, Zenon DEF After
<1>7. ReplayFrom(base) =
        ScanSegment(sealed[N], man.active, files[man.active].recs, base.seq)
  BY DEF ReplayFrom
<1> HIDE DEF sealed
<1>8. sealed[0] \in AllMaps
  BY <1>1, <1>6
<1>9. ASSUME NEW i \in 1 .. N, sealed[i - 1] \in AllMaps PROVE sealed[i] \in AllMaps
  <2>1. i \in 0 .. N /\ i # 0
    BY <1>1
  <2>2. sealed[i] = After(i, sealed[i - 1])
    <3> HIDE DEF zero
    <3> QED
      BY <1>6, <2>1
  <2> QED
    BY <1>2, <1>9, <2>2
<1>10. \A i \in 0 .. N : sealed[i] \in AllMaps
  <2> HIDE DEF N
  <2> QED
    BY <1>1, <1>8, <1>9, RecursionIn
<1>11. sealed \in [0 .. N -> AllMaps]
  <2> HIDE DEF zero
  <2> QED
    BY <1>6, <1>10
<1>12. ReplaysSealed(sealed, base)
  <2>1. sealed[0] = base.maps
    BY <1>1, <1>6
  <2>2. ASSUME NEW i \in 1 .. N PROVE sealed[i] = After(i, sealed[i - 1])
    <3>1. i \in 0 .. N /\ i # 0
      BY <1>1
    <3> HIDE DEF zero
    <3> QED
      BY <1>6, <3>1
  <2> QED
    BY <2>1, <2>2 DEF ReplaysSealed, After
<1> QED
  BY <1>7, <1>11, <1>12

(* What any replay of the log gives. *)
LEMMA ReplayTyped ==
  ASSUME DiskTypes, SegmentsSafe, man.active \in DOMAIN files, NEW base, base.maps \in AllMaps
  PROVE  ReplayFrom(base) \in AllMaps
<1> DEFINE N == Len(man.sealed)
<1>1. PICK g \in [0 .. N -> AllMaps] :
        ReplayFrom(base) = ScanSegment(g[N], man.active, files[man.active].recs, base.seq)
  BY ReplayEquation
<1>2. g[N] \in AllMaps
  BY NamedFiles
<1>3. files[man.active].recs \in Seq(LogRecords \cup {Torn}) /\ man.active \in Nat
  BY NamedFiles DEF DiskTypes, FilesTyped, Segments
<1> QED
  BY <1>1, <1>2, <1>3, ScanTyped

(* The snapshot an open trusts, or nothing. *)
LEMMA BaseTyped ==
  ASSUME DiskTypes
  PROVE  SnapshotBase.maps \in AllMaps /\ SnapshotBase.seq \in Nat
<1>1. CASE SnapshotAccepted(files)
  BY <1>1 DEF SnapshotBase, SnapshotAccepted, DiskTypes
<1>2. CASE ~ SnapshotAccepted(files)
  BY <1>2, EmptyMapsTyped DEF SnapshotBase
<1> QED
  BY <1>1, <1>2

LEMMA LastSeqTyped ==
  ASSUME NEW recs \in Seq(LogRecords \cup {Torn})
  PROVE  LastSeq(recs) \in Nat
<1> DEFINE good == Decodable(recs)
<1>1. good \in Seq(LogRecords)
  BY DecodableTyped
<1>2. LastSeq(recs) = IF good = <<>> THEN 0 ELSE good[Len(good)].seq
  BY DEF LastSeq
<1> HIDE DEF good
<1>3. ASSUME good # <<>> PROVE good[Len(good)].seq \in Nat
  <2>1. good[Len(good)] \in LogRecords
    BY <1>1, <1>3
  <2> QED
    BY <2>1, RecordKinds
<1> QED
  BY <1>2, <1>3

LEMMA NextSeqTyped ==
  ASSUME DiskTypes, SegmentsSafe, man.active \in DOMAIN files
  PROVE  /\ RecoveredNextSeq \in Nat \ {0} /\ man.nextSeq <= RecoveredNextSeq
         /\ SnapshotBase.seq < RecoveredNextSeq
         /\ LastSeq(files[man.active].recs) < RecoveredNextSeq
<1> DEFINE base == SnapshotBase
           J == {j \in DOMAIN man.sealed : man.sealed[j].last > base.seq}
           L == [i \in DOMAIN man.sealed |-> LastSeq(files[man.sealed[i].id].recs)]
           sealed == {LastSeq(files[man.sealed[i].id].recs) : i \in J}
           here == {base.seq, LastSeq(files[man.active].recs)}
           seqs == here \cup sealed
<1>1. ASSUME NEW i \in 1 .. Len(man.sealed)
      PROVE  LastSeq(files[man.sealed[i].id].recs) \in Nat
  BY NamedFiles, LastSeqTyped
<1>2. here \subseteq Nat
  <2>1. files[man.active].recs \in Seq(LogRecords \cup {Torn})
    BY DEF DiskTypes, FilesTyped, Segments
  <2>2. LastSeq(files[man.active].recs) \in Nat
    BY <2>1, LastSeqTyped
  <2> QED
    BY <2>2, BaseTyped
<1>3. DOMAIN man.sealed = 1 .. Len(man.sealed) /\ Len(man.sealed) \in Nat
  BY NamedFiles
<1>4. sealed \subseteq Nat
  BY <1>1, <1>3
<1>5. IsFiniteSet(sealed)
  <2>1. IsFiniteSet(J)
    <3>1. IsFiniteSet(1 .. Len(man.sealed))
      BY <1>3, FS_Interval
    <3>2. J \in SUBSET (1 .. Len(man.sealed))
      BY <1>3
    <3> HIDE DEF J
    <3> QED
      BY <3>1, <3>2, FS_Subset
  <2>2. sealed = {L[i] : i \in J}
    OBVIOUS
  <2> HIDE DEF L, J, sealed
  <2> QED
    BY <2>1, <2>2, FiniteValues
<1>6. IsFiniteSet(here)
  <2>1. PICK x, y : here = {x} \cup {y}
    OBVIOUS
  <2> HIDE DEF here
  <2>2. IsFiniteSet({x})
    BY FS_Singleton
  <2>3. IsFiniteSet({x} \cup {y})
    BY <2>2, FS_AddElement
  <2> QED
    BY <2>1, <2>3
<1>7. RecoveredNextSeq = Max2(man.nextSeq, 1 + CHOOSE s \in seqs : \A t \in seqs : t <= s)
  BY DEF RecoveredNextSeq
<1>8. seqs # {} /\ seqs \subseteq Nat /\ IsFiniteSet(seqs)
  <2>1. here # {}
    OBVIOUS
  <2> HIDE DEF here, sealed
  <2> QED
    BY <1>2, <1>4, <1>5, <1>6, <2>1, FS_Union
<1> HIDE DEF seqs
<1>9. \E s \in seqs : \A t \in seqs : t <= s
  BY <1>8, LargestNumber
<1>10. PICK c : c = CHOOSE s \in seqs : \A t \in seqs : t <= s
  OBVIOUS
<1>11. c \in Nat /\ \A t \in seqs : t <= c
  BY <1>8, <1>9, <1>10
<1>12. base.seq \in seqs /\ LastSeq(files[man.active].recs) \in seqs
  BY DEF seqs
<1>13. PICK x, y : x = base.seq /\ y = LastSeq(files[man.active].recs)
  OBVIOUS
<1>14. x \in Nat /\ y \in Nat /\ x <= c /\ y <= c
  BY <1>8, <1>11, <1>12, <1>13
<1>15. PICK k \in Nat : k = man.nextSeq
  BY DEF DiskTypes, Counters
<1>16. RecoveredNextSeq = IF k > 1 + c THEN k ELSE 1 + c
  BY <1>7, <1>10, <1>15 DEF Max2
<1>17. /\ RecoveredNextSeq \in Nat \ {0} /\ k <= RecoveredNextSeq
       /\ x < RecoveredNextSeq /\ y < RecoveredNextSeq
  BY <1>11, <1>14, <1>16
<1> QED
  BY <1>13, <1>15, <1>17

-----------------------------------------------------------------------------
(* Compaction and the accounting *)

LEMMA AscendingTyped ==
  ASSUME NEW S, S \subseteq Nat, IsFiniteSet(S)
  PROVE  /\ Ascending(S) \in Seq(S) /\ Len(Ascending(S)) \in Nat
         /\ DOMAIN Ascending(S) = 1 .. Len(Ascending(S))
         /\ \A i, j \in 1 .. Len(Ascending(S)) : i < j => Ascending(S)[i] < Ascending(S)[j]
         /\ \A x \in S : \E i \in 1 .. Len(Ascending(S)) : Ascending(S)[i] = x
         /\ \A i \in 1 .. Len(Ascending(S)) : Ascending(S)[i] \in S
<1> DEFINE Sorted(s) == \A i, j \in DOMAIN s : i < j => s[i] < s[j]
<1>1. PICK s \in [1 .. Cardinality(S) -> S] :
        \A i, j \in 1 .. Cardinality(S) : i < j => s[i] < s[j]
  BY SortedListing
<1>2. Sorted(s)
  BY <1>1
<1>3. Ascending(S) = CHOOSE t \in [1 .. Cardinality(S) -> S] : Sorted(t)
  BY DEF Ascending
<1> HIDE DEF Sorted
<1>4. Ascending(S) \in [1 .. Cardinality(S) -> S] /\ Sorted(Ascending(S))
  BY <1>2, <1>3
<1>5. PICK t, n : t = Ascending(S) /\ n = Cardinality(S)
  OBVIOUS
<1>6. n \in Nat
  BY <1>5, FS_CardinalityType
<1>7. t \in [1 .. n -> S] /\ t \in Seq(S) /\ Len(t) = n
  BY <1>4, <1>5, <1>6, FunctionIsSeq
<1>8. \A i, j \in 1 .. n : i < j => t[i] < t[j]
  BY <1>4, <1>5, <1>7 DEF Sorted
<1>9. t \in Injection(1 .. n, S)
  <2>1. ASSUME NEW i \in 1 .. n, NEW j \in 1 .. n, t[i] = t[j] PROVE i = j
    <3>1. t[i] \in Nat /\ t[j] \in Nat
      BY <1>7
    <3>2. ~ (i < j) /\ ~ (j < i)
      BY <1>8, <2>1, <3>1
    <3> QED
      BY <1>6, <3>2
  <2> QED
    BY <1>7, <2>1 DEF Injection, IsInjective
<1>10. t \in Surjection(1 .. n, S)
  <2>1. Cardinality(1 .. n) = n
    BY <1>6, FS_Interval
  <2> QED
    BY <1>5, <1>9, <2>1, FS_Injection
<1>11. \A x \in S : \E i \in 1 .. n : t[i] = x
  BY <1>10 DEF Surjection
<1> QED
  BY <1>5, <1>6, <1>7, <1>8, <1>11

(* The locations of some parts of a document, in order. *)
PartLocs(f, d, parts) ==
  LET here == Ascending({i \in parts : <<d, i>> \in DOMAIN f})
  IN  [j \in DOMAIN here |-> f[<<d, here[j]>>]]

LEMMA PartLocsTyped ==
  ASSUME NEW f \in PartMaps, NEW d, NEW parts \in SUBSET Parts
  PROVE  /\ PartLocs(f, d, parts) \in Seq(Locs) /\ Len(PartLocs(f, d, parts)) \in Nat
         /\ \E h \in Seq(Parts) :
              /\ Len(h) = Len(PartLocs(f, d, parts))
              /\ \A j \in 1 .. Len(h) : /\ h[j] \in parts /\ <<d, h[j]>> \in DOMAIN f
                                        /\ PartLocs(f, d, parts)[j] = f[<<d, h[j]>>]
              /\ \A i, j \in 1 .. Len(h) : i < j => h[i] < h[j]
              /\ \A i \in parts : <<d, i>> \in DOMAIN f => \E j \in 1 .. Len(h) : h[j] = i
<1> DEFINE S == {i \in parts : <<d, i>> \in DOMAIN f}
           here == Ascending(S)
           n == Len(here)
           locs == [j \in DOMAIN here |-> f[<<d, here[j]>>]]
<1>1. S \subseteq Nat /\ IsFiniteSet(S) /\ S \subseteq Parts
  <2>1. IsFiniteSet(1 .. MaxSplits) /\ 1 .. MaxSplits \subseteq Nat
    BY ContentsAssumption, FS_Interval
  <2>2. S \in SUBSET (1 .. MaxSplits)
    BY DEF Parts
  <2> HIDE DEF S
  <2> QED
    BY <2>1, <2>2, FS_Subset DEF Parts
<1>2. /\ here \in Seq(S) /\ n \in Nat /\ DOMAIN here = 1 .. n
      /\ \A i, j \in 1 .. n : i < j => here[i] < here[j]
      /\ \A x \in S : \E i \in 1 .. n : here[i] = x
      /\ \A j \in 1 .. n : here[j] \in S
  <2> HIDE DEF S
  <2> QED
    BY <1>1, AscendingTyped
<1> HIDE DEF here
<1>3. ASSUME NEW j \in 1 .. n
      PROVE  f[<<d, here[j]>>] \in Locs /\ <<d, here[j]>> \in DOMAIN f /\ here[j] \in parts
  <2>1. <<d, here[j]>> \in DOMAIN f /\ here[j] \in parts
    BY <1>2
  <2> QED
    BY <2>1, PartMapFacts
<1>4. locs \in [1 .. n -> Locs] /\ \A j \in 1 .. n : locs[j] = f[<<d, here[j]>>]
  <2> HIDE DEF n
  <2> QED
    BY <1>2, <1>3
<1>5. here \in Seq(Parts)
  <2>1. here \in [1 .. n -> Parts]
    <3>1. here = [j \in 1 .. n |-> here[j]] /\ \A j \in 1 .. n : here[j] \in Parts
      <4> HIDE DEF S
      <4> QED
        BY <1>1, <1>2
    <3> HIDE DEF n
    <3> QED
      BY <3>1, Zenon
  <2> QED
    BY <1>2, <2>1, FunctionIsSeq
<1>6. \A i \in parts : <<d, i>> \in DOMAIN f => \E j \in 1 .. n : here[j] = i
  BY <1>2
<1>7. PartLocs(f, d, parts) = locs
  BY DEF PartLocs, here
<1> HIDE DEF locs, n
<1>8. locs \in Seq(Locs) /\ Len(locs) = n
  BY <1>2, <1>4, FunctionIsSeq
<1>9. Len(here) = n
  BY DEF n
<1> HIDE DEF S
<1>10. \A j \in 1 .. n : /\ here[j] \in parts /\ <<d, here[j]>> \in DOMAIN f
                          /\ locs[j] = f[<<d, here[j]>>]
  BY <1>3, <1>4
<1>11. \E h \in Seq(Parts) :
          /\ Len(h) = n
          /\ \A j \in 1 .. Len(h) : /\ h[j] \in parts /\ <<d, h[j]>> \in DOMAIN f
                                    /\ locs[j] = f[<<d, h[j]>>]
          /\ \A i, j \in 1 .. Len(h) : i < j => h[i] < h[j]
          /\ \A i \in parts : <<d, i>> \in DOMAIN f => \E j \in 1 .. Len(h) : h[j] = i
  <2>1. \A i, j \in 1 .. n : i < j => here[i] < here[j]
    BY <1>2
  <2> QED
    BY <1>5, <1>6, <1>9, <1>10, <2>1, Zenon
<1> QED
  BY <1>2, <1>7, <1>8, <1>11, Zenon

(* The documents compaction copies, and what it copies of one. *)
CopiedDocs == {d \in DOMAIN maps.docs : maps.docs[d].loc.seg \in SealedIds(m)}

CopyGroup(d) ==
  PartLocs(maps.summaries, d, OwnedSummaries(maps.docs[d]))
    \o PartLocs(maps.splits, d, maps.docs[d].splits) \o <<maps.docs[d].loc>>

LEMMA CopyGroupTyped ==
  ASSUME maps \in AllMaps, NEW d \in DOMAIN maps.docs
  PROVE  CopyGroup(d) \in Seq(Locs)
<1> DEFINE e == maps.docs[d]
           a == PartLocs(maps.summaries, d, OwnedSummaries(e))
           b == PartLocs(maps.splits, d, e.splits)
<1>1. /\ maps.docs \in [DOMAIN maps.docs -> Entries]
      /\ maps.splits \in PartMaps /\ maps.summaries \in PartMaps
  BY DocMapFacts DEF AllMaps
<1>2. e.splits \in SUBSET Parts /\ OwnedSummaries(e) \in SUBSET Parts /\ e.loc \in Locs
  BY <1>1 DEF Entries, OwnedSummaries
<1>3. a \in Seq(Locs) /\ b \in Seq(Locs)
  <2> HIDE DEF e
  <2> QED
    BY <1>1, <1>2, PartLocsTyped
<1>4. CopyGroup(d) = a \o b \o <<e.loc>>
  BY DEF CopyGroup
<1> HIDE DEF a, b, e
<1>5. a \o b \in Seq(Locs) /\ <<e.loc>> \in Seq(Locs)
  BY <1>2, <1>3, ConcatProperties
<1> QED
  BY <1>4, <1>5, ConcatProperties

LEMMA CopiedDocsTyped ==
  ASSUME maps \in AllMaps
  PROVE  /\ Ascending(CopiedDocs) \in Seq(CopiedDocs) /\ Len(Ascending(CopiedDocs)) \in Nat
         /\ \A i, j \in 1 .. Len(Ascending(CopiedDocs)) :
              i < j => Ascending(CopiedDocs)[i] < Ascending(CopiedDocs)[j]
         /\ \A x \in CopiedDocs :
              \E i \in 1 .. Len(Ascending(CopiedDocs)) : Ascending(CopiedDocs)[i] = x
         /\ \A i \in 1 .. Len(Ascending(CopiedDocs)) : Ascending(CopiedDocs)[i] \in CopiedDocs
<1>1. IsFiniteSet(DOMAIN maps.docs) /\ DOMAIN maps.docs \subseteq Docs
  BY DocMapFacts DEF AllMaps, FiniteDocs
<1>2. CopiedDocs \in SUBSET DOMAIN maps.docs
  BY DEF CopiedDocs
<1>3. IsFiniteSet(CopiedDocs) /\ CopiedDocs \subseteq Nat
  BY <1>1, <1>2, FS_Subset, DocsAssumption
<1>4. PICK S : S = CopiedDocs
  OBVIOUS
<1> QED
  BY <1>3, <1>4, AscendingTyped

(* all[i] is what is copied of the first i documents. *)
CopiesGroups(all) ==
  /\ all[0] = <<>>
  /\ \A i \in 1 .. Len(Ascending(CopiedDocs)) :
       all[i] = all[i - 1] \o CopyGroup(Ascending(CopiedDocs)[i])

(* The recursive function inside CopyOrder satisfies its equation. *)
LEMMA CopyOrderEquation ==
  ASSUME maps \in AllMaps
  PROVE  \E all \in [0 .. Len(Ascending(CopiedDocs)) -> Seq(Locs)] :
           CopiesGroups(all) /\ CopyOrder = all[Len(Ascending(CopiedDocs))]
<1> DEFINE order == Ascending(CopiedDocs)
           all[i \in 0 .. Len(order)] ==
             IF i = 0 THEN <<>> ELSE all[i - 1] \o CopyGroup(order[i])
           N == Len(order)
           S == Seq(Locs)
           zero == <<>>
           step == [i \in 1 .. N |-> [s \in S |-> s \o CopyGroup(order[i])]]
<1>4. CopyOrder = all[N]
  BY DEF CopyOrder, CopyGroup, PartLocs, CopiedDocs
<1> HIDE DEF order
<1>5. N \in Nat /\ \A i \in 1 .. N : CopyGroup(order[i]) \in Seq(Locs)
  <2>1. N \in Nat /\ \A i \in 1 .. N : order[i] \in CopiedDocs
    BY CopiedDocsTyped DEF order
  <2> QED
    BY <2>1, CopyGroupTyped DEF CopiedDocs
<1>6. ASSUME NEW i \in 1 .. N, NEW s \in S PROVE s \o CopyGroup(order[i]) \in S
  <2>1. PICK g : g = CopyGroup(order[i]) /\ g \in Seq(Locs)
    BY <1>5
  <2>2. s \o g \in Seq(Locs)
    BY <2>1, ConcatProperties
  <2> QED
    BY <2>1, <2>2
<1>7. step \in [1 .. N -> [S -> S]]
  <2> HIDE DEF N, S
  <2> QED
    BY <1>6
<1>8. zero \in S
  OBVIOUS
<1>9. PICK f \in [0 .. N -> S] : Follows(f, N, zero, step)
  <2> HIDE DEF step, S, N, zero
  <2> QED
    BY <1>5, <1>7, <1>8, SetRecursion
<1>10. f = [i \in 0 .. N |-> IF i = 0 THEN <<>> ELSE f[i - 1] \o CopyGroup(order[i])]
  <2>1. ASSUME NEW i \in 1 .. N PROVE f[i] = f[i - 1] \o CopyGroup(order[i])
    <3>1. i - 1 \in 0 .. N
      BY <1>5
    <3>2. f[i - 1] \in S
      BY <3>1
    <3>3. f[i] = step[i][f[i - 1]]
      BY <1>9, Zenon DEF Follows
    <3> HIDE DEF S, N
    <3> QED
      BY <3>2, <3>3
  <2>2. f[0] = <<>> /\ \A i \in 0 .. N : i = 0 \/ i \in 1 .. N
    BY <1>5, <1>9 DEF Follows
  <2> HIDE DEF step, S, N
  <2> QED
    BY <2>1, <2>2
<1>11. all = [i \in 0 .. N |-> IF i = 0 THEN <<>> ELSE all[i - 1] \o CopyGroup(order[i])]
  BY <1>10, Zenon
<1> HIDE DEF all
<1>12. all[0] \in S /\ all[0] = <<>>
  BY <1>5, <1>11
<1>13. ASSUME NEW i \in 1 .. N PROVE all[i] = all[i - 1] \o CopyGroup(order[i])
  <2>1. i \in 0 .. N /\ i # 0
    BY <1>5
  <2> QED
    BY <1>11, <2>1
<1>14. \A i \in 0 .. N : all[i] \in S
  <2>1. ASSUME NEW i \in 1 .. N, all[i - 1] \in S PROVE all[i] \in S
    BY <1>6, <1>13, <2>1
  <2> HIDE DEF S, N
  <2> QED
    BY <1>5, <1>12, <2>1, RecursionIn
<1>15. all \in [0 .. N -> S]
  <2> HIDE DEF S, N
  <2> QED
    BY <1>11, <1>14
<1>16. CopiesGroups(all)
  BY <1>12, <1>13 DEF CopiesGroups, order
<1> QED
  BY <1>4, <1>15, <1>16 DEF order

(* What a compaction copies. *)
LEMMA CopyOrderTyped ==
  ASSUME maps \in AllMaps
  PROVE  CopyOrder \in Seq(Locs)
<1>1. PICK all \in [0 .. Len(Ascending(CopiedDocs)) -> Seq(Locs)] :
        CopyOrder = all[Len(Ascending(CopiedDocs))]
  BY CopyOrderEquation
<1>2. Len(Ascending(CopiedDocs)) \in 0 .. Len(Ascending(CopiedDocs))
  BY CopiedDocsTyped
<1> QED
  BY <1>1, <1>2

(* What a removal frees is counted. *)
LEMMA FreedTyped ==
  ASSUME maps \in AllMaps, NEW d \in DOMAIN maps.docs, NEW inActive
  PROVE  FreedIn(d, inActive) \in Nat
<1> DEFINE e == maps.docs[d]
           gone(f, keys) == {f[k] : k \in keys \cap DOMAIN f}
           a == gone(maps.splits, Keys(d, e.splits))
           b == gone(maps.summaries, Keys(d, OwnedSummaries(e)))
<1>1. e \in Entries /\ d \in Docs
  BY DocMapFacts DEF AllMaps, FiniteDocs
<1>2. e.splits \in SUBSET Parts /\ OwnedSummaries(e) \in SUBSET Parts
  BY <1>1 DEF Entries, OwnedSummaries
<1>3. ASSUME NEW parts \in SUBSET Parts, NEW f PROVE IsFiniteSet(gone(f, Keys(d, parts)))
  <2>1. IsFiniteSet(parts)
    <3>1. IsFiniteSet(1 .. MaxSplits)
      BY ContentsAssumption, FS_Interval
    <3> QED
      BY <3>1, FS_Subset DEF Parts
  <2>2. IsFiniteSet(Keys(d, parts))
    <3> DEFINE g == [i \in parts |-> <<d, i>>]
    <3>1. Keys(d, parts) = {g[i] : i \in parts}
      BY DEF Keys
    <3> HIDE DEF g
    <3> QED
      BY <2>1, <3>1, FiniteValues
  <2>3. IsFiniteSet(Keys(d, parts) \cap DOMAIN f)
    BY <2>2, FS_Subset
  <2> QED
    BY <2>3, FiniteValues
<1>4. IsFiniteSet(a) /\ IsFiniteSet(b)
  <2> HIDE DEF e, gone
  <2> QED
    BY <1>2, <1>3
<1>5. FreedLocs(maps, d) = {e.loc} \cup a \cup b
  BY DEF FreedLocs
<1> HIDE DEF a, b, e
<1>6. IsFiniteSet(FreedLocs(maps, d))
  <2>1. IsFiniteSet({e.loc} \cup a)
    BY <1>4, FS_Singleton, FS_Union
  <2> QED
    BY <1>4, <1>5, <2>1, FS_Union
<1>7. IsFiniteSet({l \in FreedLocs(maps, d) : (l.seg = active) = inActive})
  BY <1>6, FS_Subset
<1> QED
  BY <1>7, FS_CardinalityType DEF FreedIn

-----------------------------------------------------------------------------
(* The steps of an open store *)

(* The active segment of an open store holds whole records. *)
LEMMA ActiveFacts ==
  ASSUME SegmentsSafe, LogInv, Up
  PROVE  /\ active \in DOMAIN files /\ active \in Nat /\ files[active] \in Segments
         /\ files[active].recs \in Seq(LogRecords) /\ Len(files[active].recs) \in Nat
         /\ Len(buf) \in Nat /\ ActiveLen \in Nat
         /\ active \notin SealedIds(man) /\ active \notin SealedIds(m)
<1>1. active \in DOMAIN files /\ active \in Nat
  BY DEF SegmentsSafe, ActiveApart, WellFormed, LogInv, OpTypes, Up
<1>2. files[active] \in Segments /\ files[active].recs \in Seq(LogRecords)
  BY <1>1 DEF LogInv, DiskTypes, FilesTyped, TornAtTail
<1>3. Len(files[active].recs) \in Nat /\ Len(buf) \in Nat
  BY <1>2, LenProperties DEF LogInv, MemoryTypes
<1>4. active \notin SealedIds(man) /\ active \notin SealedIds(m)
  BY DEF SegmentsSafe, ActiveApart, WellFormed
<1> QED
  BY <1>1, <1>2, <1>3, <1>4 DEF ActiveLen

(* Whole records have no cut one among them. *)
LEMMA WholeRecords ==
  ASSUME NEW recs \in Seq(LogRecords)
  PROVE  TornTailOnly(recs) /\ recs \in Seq(LogRecords \cup {Torn})
<1>1. Len(recs) \in Nat /\ \A i \in 1 .. Len(recs) : recs[i] \in LogRecords
  BY LenProperties, ElementOfSeq
<1>2. ASSUME NEW i \in 1 .. Len(recs) - 1 PROVE ~ IsTorn(recs[i])
  <2>1. recs[i] \in LogRecords
    BY <1>1
  <2> QED
    BY <2>1, RecordKinds
<1> QED
  BY <1>2 DEF TornTailOnly

(* A step of an open store that may write to the active segment, and to no *)
(* other.                                                                  *)
LEMMA WriterTyped ==
  ASSUME SegmentsSafe, LogInv, SameSegments, OnlySegment(active), man' = man,
         active' = active, Up,
         files'[active] \in Segments, files'[active].recs \in Seq(LogRecords),
         files'[active].synced <= Len(files'[active].recs),
         op'.step # "compactUnsnap"
  PROVE  FilesTyped' /\ TornAtTail'
<1>1. active \in DOMAIN files /\ active \notin SealedIds(man) /\ active \notin SealedIds(m)
  BY ActiveFacts
<1>2. FilesTyped'
  BY DEF LogInv, DiskTypes, FilesTyped, OnlySegment
<1>3. SealedIds(m') = SealedIds(m) /\ SealedIds(man') = SealedIds(man)
  BY DEF SameSegments, SealedIds
<1>4. ASSUME NEW id \in SealedIds(man') \cup SealedIds(m')
      PROVE  files'[id].recs \in Seq(LogRecords)
  <2>1. id \in SealedIds(man) \cup SealedIds(m) /\ id \in DOMAIN files /\ id # active
    BY <1>1, <1>3, <1>4 DEF SegmentsSafe, Durable
  <2> QED
    BY <2>1 DEF OnlySegment, LogInv, TornAtTail
<1>5. TornTailOnly(files'[active].recs)
  BY WholeRecords
<1>6. ASSUME NEW id \in {active', man.active'} \cap DOMAIN files'
      PROVE  TornTailOnly(files'[id].recs)
  <2>1. CASE id = active
    BY <1>5, <2>1
  <2>2. CASE id # active
    <3>1. id = man.active /\ id \in DOMAIN files /\ files'[id] = files[id]
      BY <1>6, <2>2 DEF OnlySegment
    <3> QED
      BY <3>1 DEF LogInv, TornAtTail
  <2> QED
    BY <2>1, <2>2
<1> QED
  BY <1>2, <1>4, <1>5, <1>6 DEF TornAtTail

(* The same, when no file changes. *)
LEMMA SameFilesTyped ==
  ASSUME SegmentsSafe, LogInv, SameSegments, files' = files, man' = man,
         active' = active, Up, op'.step # "compactUnsnap"
  PROVE  FilesTyped' /\ TornAtTail'
<1>1. OnlySegment(active)
  BY FilesUnchanged
<1>2. /\ files'[active] \in Segments /\ files'[active].recs \in Seq(LogRecords)
      /\ files'[active].synced <= Len(files'[active].recs)
  BY ActiveFacts DEF LogInv, DiskTypes, FilesTyped
<1> QED
  BY <1>1, <1>2, WriterTyped

(* append_document's records. *)
LEMMA DocumentRecordsTyped ==
  ASSUME NEW d \in Docs, NEW c \in Contents, NEW seq \in Nat \ {0}
  PROVE  /\ DocumentRecords(d, c, seq) \in Seq(LogRecords)
         /\ Len(DocumentRecords(d, c, seq)) >= 2 * c.splits + 1
         /\ Len(DocumentRecords(d, c, seq)) \in Nat
<1> DEFINE replaces == d \in DOMAIN maps.docs
           base == IF replaces THEN seq + 1 ELSE seq
           n == c.splits
           w == IF replaces THEN <<DeleteRecord(seq, d)>> ELSE <<>>
           x == [i \in 1 .. n |-> SummaryRecord(base + i - 1, d, i)]
           y == [i \in 1 .. n |-> SplitRecord(base + n + i - 1, d, i)]
           z == <<DocRecord(base + 2 * n, d, c)>>
<1>1. n \in Nat /\ n \in 0 .. MaxSplits /\ c.listed \in BOOLEAN /\ base \in Nat \ {0}
  BY ContentsAssumption
<1>2. w \in Seq(LogRecords)
  <2>1. DeleteRecord(seq, d) \in LogRecords
    BY DEF DeleteRecord, LogRecords, DeleteRecords
  <2> QED
    BY <2>1
<1>3. 1 .. n \subseteq Parts
  BY <1>1, ContentsAssumption DEF Parts
<1> HIDE DEF base, n
<1>4. x \in [1 .. n -> LogRecords] /\ y \in [1 .. n -> LogRecords]
  <2>1. ASSUME NEW i \in 1 .. n
        PROVE  SummaryRecord(base + i - 1, d, i) \in LogRecords
    BY <1>1, <1>3 DEF SummaryRecord, LogRecords, PartRecords
  <2>2. ASSUME NEW i \in 1 .. n
        PROVE  SplitRecord(base + n + i - 1, d, i) \in LogRecords
    BY <1>1, <1>3 DEF SplitRecord, LogRecords, PartRecords
  <2> QED
    BY <2>1, <2>2
<1>5. DocRecord(base + 2 * n, d, c) \in LogRecords
  <2>1. DocRecord(base + 2 * n, d, c) \in DocRecords
    BY <1>1, <1>3 DEF DocRecord, DocRecords, n
  <2> QED
    BY <2>1 DEF LogRecords
<1>6. z \in Seq(LogRecords) /\ Len(z) = 1
  BY <1>5
<1>7. DocumentRecords(d, c, seq) = w \o x \o y \o z
  BY DEF DocumentRecords, base, n
<1> HIDE DEF w, x, y, z
<1>8. x \in Seq(LogRecords) /\ Len(x) = n /\ y \in Seq(LogRecords) /\ Len(y) = n
  BY <1>1, <1>4, FunctionIsSeq
<1>9. w \o x \in Seq(LogRecords) /\ Len(w \o x) = Len(w) + n
  BY <1>2, <1>8, ConcatProperties
<1>10. PICK wx : wx = w \o x /\ wx \in Seq(LogRecords) /\ Len(wx) = Len(w) + n
  BY <1>9
<1>11. wx \o y \in Seq(LogRecords) /\ Len(wx \o y) = Len(wx) + Len(y)
  BY <1>8, <1>10, ConcatProperties, Zenon
<1>12. PICK wxy : wxy = wx \o y /\ wxy \in Seq(LogRecords) /\ Len(wxy) = Len(wx) + Len(y)
  BY <1>11
<1>13. wxy \o z \in Seq(LogRecords) /\ Len(wxy \o z) = Len(wxy) + Len(z)
  BY <1>6, <1>12, ConcatProperties, Zenon
<1>14. DocumentRecords(d, c, seq) = wxy \o z
  BY <1>7, <1>10, <1>12
<1>15. Len(w) \in Nat
  BY <1>2, LenProperties
<1>16. Len(wxy \o z) = Len(w) + n + n + 1
  BY <1>6, <1>8, <1>10, <1>12, <1>13
<1> QED
  BY <1>1, <1>13, <1>14, <1>15, <1>16 DEF n

(* What of the disk a step leaves alone stays typed. *)
LEMMA DiskFrame ==
  ASSUME LogInv, FilesTyped', man' = man, snap' = snap
  PROVE  DiskTypes'
  BY DEF LogInv, DiskTypes, Counters, AllMaps, DocMaps, PartMaps, FiniteDocs, Entries, Locs

(* The parts of the invariant that a step of an open store is about. *)
LEMMA Combined ==
  ASSUME FilesTyped', TornAtTail', DiskTypes', MemoryTypes', OpTypes'
  PROVE  LogInv'
  BY DEF LogInv

LEMMA AppendDocumentTyped ==
  ASSUME SegmentsSafe, LogInv, NEW d \in Docs, NEW c \in Contents, AppendDocument(d, c)
  PROVE  LogInv'
<1> DEFINE recs == DocumentRecords(d, c, m.nextSeq)
           n == Len(recs)
<1>1. /\ op.step = "idle" /\ files' = files /\ man' = man /\ snap' = snap /\ active' = active
      /\ maps' = maps /\ pend' = pend /\ crashes' = crashes
      /\ buf' = recs /\ lastSeq' = m.nextSeq + n - 1
      /\ m' = [m EXCEPT !.nextSeq = @ + n]
      /\ op' = [step |-> "insert", doc |-> d, content |-> c, rewindSeq |-> m.nextSeq]
  BY DEF AppendDocument, disk
<1>2. /\ m.nextSeq \in Nat \ {0} /\ m.snapshotSeq \in Nat /\ m.tombstones \in Nat
      /\ m = [f \in ManifestFields |-> m[f]]
  BY DEF LogInv, MemoryTypes, Counters, SegmentsSafe, WellFormed
<1>3. recs \in Seq(LogRecords) /\ n >= 2 * c.splits + 1 /\ n \in Nat
  BY <1>2, DocumentRecordsTyped
<1> HIDE DEF recs, n
<1>4. /\ SameSegments /\ m'.nextSeq = m.nextSeq + n
      /\ m'.snapshotSeq = m.snapshotSeq /\ m'.tombstones = m.tombstones
  BY <1>1, <1>2, Zenon DEF SameSegments, ManifestFields
<1>5. FilesTyped' /\ TornAtTail'
  BY <1>1, <1>4, SameFilesTyped DEF Up
<1>6. DiskTypes'
  BY <1>1, <1>5, DiskFrame
<1>7. MemoryTypes'
  <2>1. MemoryTypes
    BY DEF LogInv
  <2>2. PICK s, k \in Nat : s = m.nextSeq /\ k = n /\ s # 0 /\ k >= 1
    <3>1. c.splits \in Nat
      BY ContentsAssumption
    <3> QED
      BY <1>2, <1>3, <3>1
  <2>3. s + k \in Nat \ {0} /\ s + k - 1 \in Nat
    BY <2>2
  <2>4. Counters(m') /\ lastSeq' \in Nat
    BY <1>1, <1>2, <1>4, <2>2, <2>3 DEF Counters
  <2> QED
    BY <1>1, <1>3, <2>1, <2>4 DEF MemoryTypes, Counters
<1>8. OpTypes'
  <2>1. c.splits = op'.content.splits /\ Len(buf') = n
    BY <1>1 DEF n
  <2> QED
    BY <1>1, <1>2, <1>3, <2>1 DEF OpTypes, Steps
<1> QED
  BY <1>5, <1>6, <1>7, <1>8, Combined

LEMMA InsertRewindTyped ==
  ASSUME SegmentsSafe, LogInv, InsertRewind
  PROVE  LogInv'
<1>1. /\ op.step = "insert" /\ files' = files /\ man' = man /\ snap' = snap
      /\ active' = active /\ maps' = maps /\ pend' = pend /\ crashes' = crashes
      /\ buf' = <<>> /\ op' = At("idle") /\ m' = [m EXCEPT !.nextSeq = op.rewindSeq]
  BY DEF InsertRewind, disk
<1>2. /\ m = [f \in ManifestFields |-> m[f]] /\ op.rewindSeq \in Nat \ {0}
  BY <1>1 DEF LogInv, OpTypes, SegmentsSafe, WellFormed
<1>3. lastSeq' \in Nat
  <2>1. PICK i \in DOMAIN buf : lastSeq' = buf[i].seq
    BY DEF InsertRewind
  <2>2. buf[i] \in LogRecords
    BY DEF LogInv, MemoryTypes
  <2> QED
    BY <2>1, <2>2, RecordKinds
<1>4. /\ SameSegments /\ m'.nextSeq = op.rewindSeq
      /\ m'.snapshotSeq = m.snapshotSeq /\ m'.tombstones = m.tombstones
  BY <1>1, <1>2, Zenon DEF SameSegments, ManifestFields
<1>5. FilesTyped' /\ TornAtTail'
  BY <1>1, <1>4, SameFilesTyped DEF Up, At
<1>6. DiskTypes'
  BY <1>1, <1>5, DiskFrame
<1>7. MemoryTypes'
  BY <1>1, <1>2, <1>3, <1>4 DEF LogInv, MemoryTypes, Counters
<1>8. OpTypes'
  BY <1>1 DEF OpTypes, Steps, At
<1> QED
  BY <1>5, <1>6, <1>7, <1>8, Combined

(* The flush that ends a write. *)
LEMMA FlushTyped ==
  ASSUME SegmentsSafe, LogInv, Up, files' = Flushed
  PROVE  /\ OnlySegment(active)
         /\ files'[active] \in Segments /\ files'[active].recs \in Seq(LogRecords)
         /\ files'[active].synced <= Len(files'[active].recs)
<1> DEFINE f == files[active]
           recs == f.recs \o buf
<1>1. /\ active \in DOMAIN files /\ f \in Segments /\ f.recs \in Seq(LogRecords)
      /\ Len(f.recs) \in Nat /\ Len(buf) \in Nat
  BY ActiveFacts
<1>2. f.synced <= Len(f.recs) /\ f.synced \in Nat /\ buf \in Seq(LogRecords)
  BY <1>1 DEF LogInv, DiskTypes, FilesTyped, MemoryTypes, Segments
<1>3. recs \in Seq(LogRecords) /\ Len(recs) = Len(f.recs) + Len(buf)
  BY <1>1, <1>2, ConcatProperties
<1>4. files'[active] = [f EXCEPT !.recs = recs]
  BY <1>1 DEF Flushed, SegmentsSafe
<1>5. OnlySegment(active)
  BY FlushOnly
<1> HIDE DEF recs
<1>6. files'[active] = [recs |-> recs, synced |-> f.synced]
  BY <1>1, <1>4 DEF Segments
<1>7. recs \in Seq(LogRecords \cup {Torn})
  BY <1>3, WholeRecords
<1> QED
  BY <1>1, <1>2, <1>3, <1>5, <1>6, <1>7 DEF Segments

LEMMA AfterWriteTyped == AfterWrite \in {At("idle"), At("seal")}
  BY DEF AfterWrite

LEMMA InsertCommitTyped ==
  ASSUME SegmentsSafe, LogInv, InsertCommit
  PROVE  LogInv'
<1> DEFINE d == op.doc
           c == op.content
           n == c.splits
           base == ActiveLen - 2 * n - 1
           at(i) == [seg |-> active, off |-> i]
           entry == [splits |-> 1 .. n,
                     list |-> IF c.listed THEN 1 .. n ELSE {},
                     extra |-> IF c.listed THEN {} ELSE 1 .. n,
                     seq |-> buf[Len(buf)].seq, loc |-> at(ActiveLen)]
           summaryLocs == [k \in Keys(d, 1 .. n) |-> at(base + k[2])]
           splitLocs == [k \in Keys(d, 1 .. n) |-> at(base + n + k[2])]
           freed == FreedIn(d, FALSE)
           freedHere == FreedIn(d, TRUE)
<1>1. /\ op.step = "insert" /\ man' = man /\ snap' = snap /\ active' = active
      /\ lastSeq' = lastSeq /\ crashes' = crashes
      /\ files' = Flushed /\ buf' = <<>> /\ op' = AfterWrite
      /\ maps' = PutDoc(RemoveDoc(maps, d), d, entry, splitLocs, summaryLocs)
      /\ m' = IF d \in DOMAIN maps.docs THEN [m EXCEPT !.tombstones = @ + freed] ELSE m
      /\ pend' = IF d \in DOMAIN maps.docs THEN pend + freedHere ELSE pend
  BY DEF InsertCommit
<1>2. /\ d \in Docs /\ n \in Nat /\ 1 .. n \subseteq Parts /\ Len(buf) >= 2 * n + 1
  <2>1. d \in Docs /\ c \in Contents /\ Len(buf) >= 2 * c.splits + 1
    BY <1>1 DEF LogInv, OpTypes
  <2> HIDE DEF c
  <2>2. c.splits \in 0 .. MaxSplits
    BY <2>1, ContentsAssumption
  <2> QED
    BY <2>1, <2>2, ContentsAssumption DEF Parts
<1>3. /\ Up /\ active \in Nat /\ ActiveLen \in Nat /\ ActiveLen >= Len(buf)
      /\ Len(buf) \in Nat
  <2>1. Up
    BY <1>1 DEF Up
  <2> QED
    BY <2>1, ActiveFacts DEF ActiveLen
<1>4. buf[Len(buf)].seq \in Nat
  <2>1. Len(buf) \in 1 .. Len(buf)
    BY <1>2, <1>3
  <2>2. buf[Len(buf)] \in LogRecords
    BY <2>1, ElementOfSeq DEF LogInv, MemoryTypes
  <2> QED
    BY <2>2, RecordKinds
<1> HIDE DEF n, c, d
<1>5. base \in Nat
  BY <1>2, <1>3
<1>6. maps' \in AllMaps
  <2>1. at(ActiveLen) \in Locs
    BY <1>3 DEF Locs
  <2>2. entry \in Entries
    <3> HIDE DEF at
    <3>1. {} \subseteq Parts
      OBVIOUS
    <3> QED
      BY <1>2, <1>4, <2>1, <3>1 DEF Entries
  <2>3. Keys(d, 1 .. n) \subseteq Docs \X Parts
        /\ \A k \in Keys(d, 1 .. n) : k[2] \in Nat
    BY <1>2, KeysTyped
  <2> HIDE DEF base
  <2>4. summaryLocs \in [Keys(d, 1 .. n) -> Locs] /\ splitLocs \in [Keys(d, 1 .. n) -> Locs]
    BY <1>2, <1>3, <1>5, <2>3 DEF Locs
  <2> HIDE DEF summaryLocs, splitLocs, entry
  <2>5. summaryLocs \in PartMaps /\ splitLocs \in PartMaps
    BY <2>3, <2>4 DEF PartMaps
  <2>6. RemoveDoc(maps, d) \in AllMaps
    BY RemoveDocTyped DEF LogInv, MemoryTypes
  <2> QED
    BY <1>1, <1>2, <2>2, <2>5, <2>6, PutDocTyped
<1>7. /\ d \in DOMAIN maps.docs => freed \in Nat /\ freedHere \in Nat
      /\ Counters(m) /\ pend \in Nat /\ m = [f \in ManifestFields |-> m[f]]
  BY FreedTyped DEF LogInv, MemoryTypes, SegmentsSafe, WellFormed
<1> HIDE DEF freed, freedHere, entry, splitLocs, summaryLocs
<1>8. SameSegments /\ Counters(m') /\ pend' \in Nat
  <2>1. CASE d \in DOMAIN maps.docs
    <3>1. /\ SameSegments /\ m'.nextSeq = m.nextSeq
          /\ m'.snapshotSeq = m.snapshotSeq /\ m'.tombstones = m.tombstones + freed
      <4>1. m' = [m EXCEPT !.tombstones = @ + freed]
        BY <1>1, <2>1
      <4> QED
        BY <1>7, <4>1, Zenon DEF SameSegments, ManifestFields
    <3> QED
      BY <1>1, <1>7, <2>1, <3>1 DEF Counters
  <2>2. CASE d \notin DOMAIN maps.docs
    BY <1>1, <1>7, <2>2, SameUnchanged
  <2> QED
    BY <2>1, <2>2
<1>9. FilesTyped' /\ TornAtTail'
  <2>1. op'.step # "compactUnsnap"
    BY <1>1, AfterWriteTyped DEF At
  <2> QED
    BY <1>1, <1>3, <1>8, <2>1, FlushTyped, WriterTyped
<1>10. DiskTypes'
  BY <1>1, <1>9, DiskFrame
<1>11. MemoryTypes'
  BY <1>1, <1>6, <1>8 DEF LogInv, MemoryTypes, Counters
<1>12. OpTypes'
  BY <1>1, AfterWriteTyped DEF OpTypes, Steps, At
<1> QED
  BY <1>9, <1>10, <1>11, <1>12, Combined

LEMMA AppendDeleteTyped ==
  ASSUME SegmentsSafe, LogInv, NEW d \in Docs, AppendDelete(d)
  PROVE  LogInv'
<1>1. /\ d \in DOMAIN maps.docs /\ op.step = "idle"
      /\ files' = files /\ man' = man /\ snap' = snap /\ active' = active /\ maps' = maps
      /\ pend' = pend /\ crashes' = crashes
      /\ buf' = <<DeleteRecord(m.nextSeq, d)>> /\ lastSeq' = m.nextSeq
      /\ m' = [m EXCEPT !.nextSeq = @ + 1] /\ op' = [step |-> "delete", doc |-> d]
  BY DEF AppendDelete, disk
<1>2. /\ m.nextSeq \in Nat \ {0} /\ m.snapshotSeq \in Nat /\ m.tombstones \in Nat
      /\ m = [f \in ManifestFields |-> m[f]]
  BY DEF LogInv, MemoryTypes, Counters, SegmentsSafe, WellFormed
<1>3. DeleteRecord(m.nextSeq, d) \in LogRecords
  BY <1>2 DEF DeleteRecord, LogRecords, DeleteRecords
<1>4. /\ SameSegments /\ m'.nextSeq = m.nextSeq + 1
      /\ m'.snapshotSeq = m.snapshotSeq /\ m'.tombstones = m.tombstones
  BY <1>1, <1>2, Zenon DEF SameSegments, ManifestFields
<1>5. FilesTyped' /\ TornAtTail'
  BY <1>1, <1>4, SameFilesTyped DEF Up
<1>6. DiskTypes'
  BY <1>1, <1>5, DiskFrame
<1>7. MemoryTypes'
  BY <1>1, <1>2, <1>3, <1>4 DEF LogInv, MemoryTypes, Counters
<1>8. OpTypes'
  BY <1>1 DEF OpTypes, Steps
<1> QED
  BY <1>5, <1>6, <1>7, <1>8, Combined

LEMMA DeleteCommitTyped ==
  ASSUME SegmentsSafe, LogInv, DeleteCommit
  PROVE  LogInv'
<1> DEFINE freed == FreedIn(op.doc, FALSE)
           freedHere == FreedIn(op.doc, TRUE)
<1>1. /\ op.step = "delete" /\ man' = man /\ snap' = snap /\ active' = active
      /\ lastSeq' = lastSeq /\ crashes' = crashes
      /\ files' = Flushed /\ buf' = <<>> /\ op' = AfterWrite
      /\ maps' = RemoveDoc(maps, op.doc)
      /\ m' = [m EXCEPT !.tombstones = @ + freed]
      /\ pend' = pend + freedHere
  BY DEF DeleteCommit
<1>2. /\ freed \in Nat /\ freedHere \in Nat
      /\ Counters(m) /\ pend \in Nat /\ m = [f \in ManifestFields |-> m[f]]
  BY <1>1, FreedTyped DEF LogInv, OpTypes, MemoryTypes, SegmentsSafe, WellFormed
<1> HIDE DEF freed, freedHere
<1>3. /\ SameSegments /\ m'.nextSeq = m.nextSeq
      /\ m'.snapshotSeq = m.snapshotSeq /\ m'.tombstones = m.tombstones + freed
  BY <1>1, <1>2, Zenon DEF SameSegments, ManifestFields
<1>4. FilesTyped' /\ TornAtTail'
  <2>1. op'.step # "compactUnsnap" /\ Up
    BY <1>1, AfterWriteTyped DEF At, Up
  <2> QED
    BY <1>1, <1>3, <2>1, FlushTyped, WriterTyped
<1>5. DiskTypes'
  BY <1>1, <1>4, DiskFrame
<1>6. MemoryTypes'
  <2>1. maps' \in AllMaps
    BY <1>1, RemoveDocTyped DEF LogInv, MemoryTypes
  <2> QED
    BY <1>1, <1>2, <1>3, <2>1 DEF LogInv, MemoryTypes, Counters
<1>7. OpTypes'
  BY <1>1, AfterWriteTyped DEF OpTypes, Steps, At
<1> QED
  BY <1>4, <1>5, <1>6, <1>7, Combined

(* A step that syncs the active segment. *)
LEMMA SyncTyped ==
  ASSUME SegmentsSafe, LogInv, Up, files' = [files EXCEPT ![active] = Synced(@)]
  PROVE  /\ OnlySegment(active)
         /\ files'[active] \in Segments /\ files'[active].recs \in Seq(LogRecords)
         /\ files'[active].synced <= Len(files'[active].recs)
<1>1. /\ active \in DOMAIN files /\ files[active] \in Segments
      /\ files[active].recs \in Seq(LogRecords) /\ Len(files[active].recs) \in Nat
  BY ActiveFacts
<1>2. files'[active] = [recs |-> files[active].recs, synced |-> Len(files[active].recs)]
  BY <1>1 DEF Synced, SegmentsSafe
<1>3. OnlySegment(active)
  BY SyncOnly
<1> QED
  BY <1>1, <1>2, <1>3 DEF Segments

LEMMA FsyncTyped ==
  ASSUME SegmentsSafe, LogInv, Fsync
  PROVE  LogInv'
<1>1. /\ op.step = "idle" /\ man' = man /\ snap' = snap /\ m' = m /\ active' = active
      /\ lastSeq' = lastSeq /\ buf' = buf /\ maps' = maps /\ pend' = pend /\ op' = op
      /\ crashes' = crashes /\ files' = [files EXCEPT ![active] = Synced(@)]
  BY DEF Fsync, memory
<1>2. FilesTyped' /\ TornAtTail'
  <2>1. Up /\ op'.step # "compactUnsnap"
    BY <1>1 DEF Up
  <2> QED
    BY <1>1, <2>1, SyncTyped, SameUnchanged, WriterTyped
<1>3. DiskTypes'
  BY <1>1, <1>2, DiskFrame
<1>4. MemoryTypes'
  BY <1>1 DEF LogInv, MemoryTypes, Counters
<1>5. OpTypes'
  BY <1>1 DEF LogInv, OpTypes
<1> QED
  BY <1>2, <1>3, <1>4, <1>5, Combined

LEMMA SnapshotWriteTyped ==
  ASSUME SegmentsSafe, LogInv, SnapshotWrite
  PROVE  LogInv'
<1>1. /\ op.step \in {"idle", "snapshot"} /\ man' = man /\ m' = m /\ active' = active
      /\ lastSeq' = lastSeq /\ buf' = buf /\ maps' = maps /\ pend' = pend
      /\ crashes' = crashes /\ files' = [files EXCEPT ![active] = Synced(@)]
      /\ snap' = [exists |-> TRUE, seq |-> SnapshotSeq, maps |-> maps]
      /\ op' = At("snapshotPublish")
  BY DEF SnapshotWrite, memory
<1>2. FilesTyped' /\ TornAtTail'
  <2>1. Up /\ op'.step # "compactUnsnap"
    BY <1>1 DEF Up, At
  <2> QED
    BY <1>1, <2>1, SyncTyped, SameUnchanged, WriterTyped
<1>3. DiskTypes'
  <2>1. snap'.exists = TRUE /\ snap'.seq = SnapshotSeq /\ snap'.maps = maps
    BY <1>1, Zenon
  <2>2. SnapshotSeq \in Nat /\ maps \in AllMaps
    BY DEF SnapshotSeq, LogInv, MemoryTypes, Counters
  <2>3. Counters(man)'
    BY <1>1 DEF LogInv, DiskTypes, Counters
  <2> QED
    BY <1>2, <2>1, <2>2, <2>3, Zenon DEF DiskTypes
<1>4. MemoryTypes'
  BY <1>1 DEF LogInv, MemoryTypes, Counters
<1>5. OpTypes'
  BY <1>1 DEF LogInv, OpTypes, Steps, At
<1> QED
  BY <1>2, <1>3, <1>4, <1>5, Combined

(* A step that touches no file and lets the manifests name no new segment. *)
LEMMA PublishTyped ==
  ASSUME SegmentsSafe, LogInv, files' = files, active' = active, Up' => Up,
         SealedIds(m') \subseteq SealedIds(m) \cup SealedIds(man),
         SealedIds(man') \subseteq SealedIds(m) \cup SealedIds(man),
         man'.active \in {man.active, active}, op'.step # "compactUnsnap"
  PROVE  FilesTyped' /\ TornAtTail'
<1>1. FilesTyped'
  BY DEF LogInv, DiskTypes, FilesTyped
<1>2. ASSUME NEW id \in SealedIds(man') \cup SealedIds(m')
      PROVE  files'[id].recs \in Seq(LogRecords)
  BY <1>2 DEF LogInv, TornAtTail
<1>3. Up' => files'[active'].recs \in Seq(LogRecords)
  BY DEF LogInv, TornAtTail
<1>4. ASSUME NEW id \in {active', man'.active} \cap DOMAIN files'
      PROVE  TornTailOnly(files'[id].recs)
  <2>1. id \in {active, man.active} \cap DOMAIN files
    BY <1>4
  <2> QED
    BY <2>1 DEF LogInv, TornAtTail
<1> QED
  BY <1>1, <1>2, <1>3, <1>4 DEF TornAtTail

(* The same for what else is on disk. *)
LEMMA DiskStep ==
  ASSUME LogInv, FilesTyped', Counters(man'), snap' = snap
  PROVE  DiskTypes'
  BY DEF LogInv, DiskTypes, Counters, AllMaps, DocMaps, PartMaps, FiniteDocs, Entries, Locs

LEMMA SealPublishTyped ==
  ASSUME SegmentsSafe, LogInv, SealPublish
  PROVE  LogInv'
<1>1. /\ op.step = "sealPublish" /\ man' = m /\ op' = At("idle")
      /\ files' = files /\ snap' = snap /\ m' = m /\ active' = active
      /\ lastSeq' = lastSeq /\ buf' = buf /\ maps' = maps /\ pend' = pend /\ crashes' = crashes
  BY DEF SealPublish, memory
<1>2. FilesTyped' /\ TornAtTail'
  <2>1. Up /\ op'.step # "compactUnsnap"
    BY <1>1 DEF Up, At
  <2>2. man'.active = active
    BY <1>1 DEF SegmentsSafe, ActiveApart
  <2> QED
    BY <1>1, <2>1, <2>2, PublishTyped
<1>3. Counters(m) /\ buf = <<>>
  BY <1>1 DEF LogInv, MemoryTypes, OpTypes
<1>4. DiskTypes'
  BY <1>1, <1>2, <1>3, DiskStep
<1>5. MemoryTypes'
  BY <1>1 DEF LogInv, MemoryTypes, Counters
<1>6. OpTypes'
  BY <1>1, <1>3 DEF OpTypes, Steps, At
<1> QED
  BY <1>2, <1>4, <1>5, <1>6, Combined

LEMMA SnapshotPublishTyped ==
  ASSUME SegmentsSafe, LogInv, SnapshotPublish
  PROVE  LogInv'
<1>1. /\ op.step = "snapshotPublish" /\ m' = [m EXCEPT !.snapshotSeq = SnapshotSeq]
      /\ man' = m' /\ op' = At("idle")
      /\ files' = files /\ snap' = snap /\ active' = active
      /\ lastSeq' = lastSeq /\ buf' = buf /\ maps' = maps /\ pend' = pend /\ crashes' = crashes
  BY DEF SnapshotPublish
<1>2. /\ Counters(m) /\ buf = <<>> /\ SnapshotSeq \in Nat
      /\ m = [f \in ManifestFields |-> m[f]]
  BY <1>1 DEF LogInv, MemoryTypes, OpTypes, Counters, SnapshotSeq, SegmentsSafe, WellFormed
<1>3. /\ SameSegments /\ m'.nextSeq = m.nextSeq
      /\ m'.snapshotSeq = SnapshotSeq /\ m'.tombstones = m.tombstones
  BY <1>1, <1>2, Zenon DEF SameSegments, ManifestFields
<1>4. FilesTyped' /\ TornAtTail'
  <2>1. Up /\ op'.step # "compactUnsnap"
    BY <1>1 DEF Up, At
  <2>2. man'.active = active
    BY <1>1, <1>3 DEF SegmentsSafe, ActiveApart, SameSegments
  <2>3. SealedIds(m') = SealedIds(m) /\ SealedIds(man') = SealedIds(m)
    BY <1>1, <1>3 DEF SameSegments, SealedIds
  <2> QED
    BY <1>1, <2>1, <2>2, <2>3, PublishTyped
<1>5. Counters(m')
  BY <1>2, <1>3 DEF Counters
<1>6. DiskTypes'
  BY <1>1, <1>4, <1>5, DiskStep
<1>7. MemoryTypes'
  BY <1>1, <1>5 DEF LogInv, MemoryTypes, Counters
<1>8. OpTypes'
  BY <1>1, <1>2 DEF OpTypes, Steps, At
<1> QED
  BY <1>4, <1>6, <1>7, <1>8, Combined

LEMMA CompactFailsTyped ==
  ASSUME SegmentsSafe, LogInv, CompactFails
  PROVE  LogInv'
<1>1. /\ op.step = "idle" /\ m' = [m EXCEPT !.nextSegmentId = @ + 1] /\ op' = op
      /\ files' = files /\ man' = man /\ snap' = snap /\ active' = active
      /\ lastSeq' = lastSeq /\ buf' = buf /\ maps' = maps /\ pend' = pend /\ crashes' = crashes
  BY DEF CompactFails, disk
<1>2. Counters(m) /\ buf = <<>> /\ m = [f \in ManifestFields |-> m[f]]
  BY <1>1 DEF LogInv, MemoryTypes, OpTypes, SegmentsSafe, WellFormed
<1>3. /\ m'.sealed = m.sealed /\ m'.nextSeq = m.nextSeq
      /\ m'.snapshotSeq = m.snapshotSeq /\ m'.tombstones = m.tombstones
  BY <1>1, <1>2, Zenon DEF ManifestFields
<1>4. FilesTyped' /\ TornAtTail'
  <2>1. Up /\ op'.step # "compactUnsnap"
    BY <1>1 DEF Up
  <2>2. SealedIds(m') = SealedIds(m) /\ SealedIds(man') = SealedIds(man)
    BY <1>1, <1>3 DEF SealedIds
  <2> QED
    BY <1>1, <2>1, <2>2, PublishTyped
<1>5. Counters(m')
  BY <1>2, <1>3 DEF Counters
<1>6. DiskTypes'
  BY <1>1, <1>4, DiskFrame
<1>7. MemoryTypes'
  BY <1>1, <1>5 DEF LogInv, MemoryTypes, Counters
<1>8. OpTypes'
  BY <1>1 DEF LogInv, OpTypes
<1> QED
  BY <1>4, <1>6, <1>7, <1>8, Combined

(* A new segment of whole records, under an id no manifest names. *)
LEMMA NewSegmentTyped ==
  ASSUME NEW g, NEW id \in Nat, NEW seg \in Segments,
         seg.synced <= Len(seg.recs),
         \A i \in DOMAIN g : /\ i \in Nat /\ g[i] \in Segments
                             /\ g[i].synced <= Len(g[i].recs),
         files' = Put(g, id, seg)
  PROVE  /\ FilesTyped'
         /\ DOMAIN files' = DOMAIN g \cup {id} /\ files'[id] = seg
         /\ \A i \in DOMAIN g : i # id => files'[i] = g[i]
<1>1. /\ DOMAIN files' = DOMAIN g \cup {id} /\ files'[id] = seg
      /\ \A i \in DOMAIN g : i # id => files'[i] = g[i]
  BY SMT DEF Put
<1>2. ASSUME NEW i \in DOMAIN files'
      PROVE  i \in Nat /\ files'[i] \in Segments /\ files'[i].synced <= Len(files'[i].recs)
  <2>1. CASE i = id
    BY <1>1, <2>1
  <2>2. CASE i # id
    BY <1>1, <2>2
  <2> QED
    BY <2>1, <2>2
<1>3. FilesTyped'
  BY <1>2, Zenon DEF FilesTyped, Segments, LogRecords, PartRecords, DeleteRecords, DocRecords,
     Parts, Torn
<1> QED
  BY <1>1, <1>3

LEMMA SealActiveTyped ==
  ASSUME SegmentsSafe, LogInv, SealActive
  PROVE  LogInv'
<1> DEFINE new == m.nextSegmentId
           info == [id |-> active, bytes |-> ActiveLen, last |-> lastSeq]
           old == [files EXCEPT ![active] = Synced(@)]
<1>1. /\ op.step \in {"idle", "seal"} /\ op' = At("sealPublish")
      /\ man' = man /\ snap' = snap /\ active' = new /\ lastSeq' = 0 /\ pend' = 0
      /\ buf' = buf /\ maps' = maps /\ crashes' = crashes
      /\ files' = Put(old, new, EmptySegment)
  BY DEF SealActive, SwappedFiles
<1>2. Counters(m) /\ buf = <<>> /\ pend \in Nat
  BY <1>1 DEF LogInv, MemoryTypes, OpTypes
<1>3. /\ m'.sealed = Append(m.sealed, info) /\ m'.nextSeq = m.nextSeq
      /\ m'.snapshotSeq = m.snapshotSeq /\ m'.tombstones = m.tombstones + pend
  <2>1. m = [f \in ManifestFields |-> m[f]]
    BY DEF SegmentsSafe, WellFormed
  <2>2. m' = [m EXCEPT !.nextSegmentId = @ + 1, !.sealed = Append(@, info),
                       !.active = new, !.tombstones = @ + pend]
    BY DEF SealActive
  <2> HIDE DEF info
  <2> QED
    BY <2>1, <2>2, Zenon DEF ManifestFields
<1>4. /\ new \in Nat /\ active < new /\ active \in Nat
      /\ \A id \in SealedIds(m) \cup SealedIds(man) : id \in Nat /\ id < new /\ id \in DOMAIN files
  BY DEF SegmentsSafe, ActiveApart, WellFormed, ManifestsAgree, Durable
<1>5. SealedIds(m') \subseteq SealedIds(m) \cup {active}
  <2>1. m.sealed \in Seq({m.sealed[i] : i \in DOMAIN m.sealed}) /\ info.id = active
    BY DEF SegmentsSafe, WellFormed
  <2> HIDE DEF info
  <2>2. SealedIds(m') \subseteq SealedIds(m) \cup {info.id}
    BY <1>3, <2>1, AppendIds, Zenon
  <2> QED
    BY <2>1, <2>2, Zenon
<1>6. /\ active \in DOMAIN files /\ files[active] \in Segments
      /\ files[active].recs \in Seq(LogRecords) /\ Len(files[active].recs) \in Nat
  <2>1. Up
    BY <1>1 DEF Up
  <2> QED
    BY <2>1, ActiveFacts
<1>7. /\ DOMAIN old = DOMAIN files
      /\ old[active] = [recs |-> files[active].recs, synced |-> Len(files[active].recs)]
      /\ \A i \in DOMAIN files : i # active => old[i] = files[i]
  BY <1>6 DEF SegmentsSafe, Synced
<1> HIDE DEF old, new, info
<1>8. /\ FilesTyped'
      /\ DOMAIN files' = DOMAIN files \cup {new} /\ files'[new] = EmptySegment
      /\ \A i \in DOMAIN files : i # new => files'[i] = old[i]
  <2>1. EmptySegment \in Segments /\ EmptySegment.synced <= Len(EmptySegment.recs)
    BY DEF EmptySegment, Segments
  <2>2. ASSUME NEW i \in DOMAIN old
        PROVE  i \in Nat /\ old[i] \in Segments /\ old[i].synced <= Len(old[i].recs)
    <3>1. CASE i = active
      BY <1>4, <1>6, <1>7, <3>1 DEF Segments
    <3>2. CASE i # active
      BY <1>7, <3>2 DEF LogInv, DiskTypes, FilesTyped
    <3> QED
      BY <3>1, <3>2
  <2>3. PICK g, id, seg : g = old /\ id = new /\ seg = EmptySegment
    OBVIOUS
  <2>4. /\ \A i \in DOMAIN g : i \in Nat /\ g[i] \in Segments /\ g[i].synced <= Len(g[i].recs)
        /\ id \in Nat /\ seg \in Segments /\ seg.synced <= Len(seg.recs)
        /\ files' = Put(g, id, seg)
    BY <1>1, <1>4, <2>1, <2>2, <2>3
  <2>5. /\ FilesTyped'
        /\ DOMAIN files' = DOMAIN g \cup {id} /\ files'[id] = seg
        /\ \A i \in DOMAIN g : i # id => files'[i] = g[i]
    BY <2>4, NewSegmentTyped, Zenon
  <2> QED
    BY <1>7, <2>3, <2>5
<1>9. \A id \in DOMAIN files : id # new => files'[id].recs = files[id].recs
  BY <1>7, <1>8
<1>10. TornAtTail'
  <2>1. ASSUME NEW id \in SealedIds(man') \cup SealedIds(m')
        PROVE  files'[id].recs \in Seq(LogRecords)
    <3>1. id \in SealedIds(man) \cup SealedIds(m) \/ id = active
      BY <1>1, <1>5
    <3>2. id \in DOMAIN files /\ id # new
      BY <1>4, <1>6, <3>1
    <3>3. files[id].recs \in Seq(LogRecords)
      BY <1>6, <3>1 DEF LogInv, TornAtTail
    <3> QED
      BY <1>9, <3>2, <3>3
  <2>2. files'[active'].recs \in Seq(LogRecords)
    <3>1. EmptySegment.recs \in Seq(LogRecords)
      BY DEF EmptySegment
    <3>2. files'[active'] = EmptySegment
      BY <1>1, <1>8
    <3> QED
      BY <3>1, <3>2
  <2>3. ASSUME NEW id \in {active', man'.active} \cap DOMAIN files'
        PROVE  TornTailOnly(files'[id].recs)
    <3>1. CASE id = new
      BY <1>1, <2>2, <3>1, WholeRecords
    <3>2. CASE id # new
      <4>1. id = man.active /\ id \in DOMAIN files /\ files'[id].recs = files[id].recs
        BY <1>1, <1>8, <1>9, <2>3, <3>2
      <4> QED
        BY <4>1 DEF LogInv, TornAtTail
    <3> QED
      BY <3>1, <3>2
  <2>4. op'.step # "compactUnsnap"
    BY <1>1 DEF At
  <2> QED
    BY <2>1, <2>2, <2>3, <2>4 DEF TornAtTail
<1>11. DiskTypes'
  BY <1>1, <1>8, DiskFrame
<1>12. MemoryTypes'
  BY <1>1, <1>2, <1>3 DEF LogInv, MemoryTypes, Counters
<1>13. OpTypes'
  BY <1>1, <1>2 DEF OpTypes, Steps, At
<1> QED
  BY <1>8, <1>10, <1>11, <1>12, <1>13, Combined

(* What compaction copies are whole records. *)
LEMMA CopiedTyped ==
  ASSUME SegmentsSafe, LogInv, NEW order \in Seq(Locs),
         \A i \in DOMAIN order : Decodes(order[i])
  PROVE  LET recs == [i \in DOMAIN order |-> RecordAt(order[i])]
         IN  recs \in Seq(LogRecords) /\ Len(recs) \in Nat
<1> DEFINE recs == [i \in DOMAIN order |-> RecordAt(order[i])]
<1>1. Len(order) \in Nat /\ DOMAIN order = 1 .. Len(order)
  BY LenProperties
<1>2. ASSUME NEW i \in 1 .. Len(order) PROVE RecordAt(order[i]) \in LogRecords
  <2> DEFINE seg == order[i].seg
             off == order[i].off
  <2>1. seg \in DOMAIN files /\ off \in DOMAIN files[seg].recs /\ ~ IsTorn(files[seg].recs[off])
    BY <1>1 DEF Decodes, RecordAt
  <2> HIDE DEF seg, off
  <2>2. files[seg].recs \in Seq(LogRecords \cup {Torn})
    BY <2>1 DEF LogInv, DiskTypes, FilesTyped, Segments
  <2>3. files[seg].recs[off] \in LogRecords \cup {Torn}
    BY <2>1, <2>2
  <2>4. IsTorn(Torn)
    BY DEF IsTorn, Torn
  <2> QED
    BY <2>1, <2>3, <2>4 DEF RecordAt, seg, off
<1>3. recs \in [1 .. Len(order) -> LogRecords]
  BY <1>1, <1>2
<1> HIDE DEF recs
<1>4. recs \in Seq(LogRecords) /\ Len(recs) \in Nat
  BY <1>1, <1>3, FunctionIsSeq, LenProperties
<1> QED
  BY <1>4 DEF recs

LEMMA CompactWriteTyped ==
  ASSUME SegmentsSafe, LogInv, CompactWrite
  PROVE  LogInv'
<1> DEFINE new == m.nextSegmentId
           order == CopyOrder
           recs == [i \in DOMAIN order |-> RecordAt(order[i])]
           output == [recs |-> recs, synced |-> Len(recs)]
<1>1. /\ op.step = "idle" /\ man' = man /\ snap' = snap /\ active' = active
      /\ lastSeq' = lastSeq /\ buf' = buf /\ maps' = maps /\ pend' = pend /\ crashes' = crashes
      /\ op' = [step |-> "compactUnsnap", seg |-> new, order |-> order]
      /\ files' = IF order = <<>> THEN files ELSE Put(files, new, output)
      /\ \A i \in DOMAIN order : Decodes(order[i])
  BY DEF CompactWrite
<1>2. /\ m'.sealed = m.sealed /\ m'.nextSeq = m.nextSeq
      /\ m'.snapshotSeq = m.snapshotSeq /\ m'.tombstones = m.tombstones
  <2>1. m = [f \in ManifestFields |-> m[f]] /\ m' = [m EXCEPT !.nextSegmentId = @ + 1]
    BY DEF SegmentsSafe, WellFormed, CompactWrite
  <2> QED
    BY <2>1, Zenon DEF ManifestFields
<1>3. order \in Seq(Locs)
  BY CopyOrderTyped DEF LogInv, MemoryTypes
<1>4. recs \in Seq(LogRecords) /\ Len(recs) \in Nat
  <2> HIDE DEF order
  <2>1. PICK o : o = order
    OBVIOUS
  <2>2. LET rs == [i \in DOMAIN o |-> RecordAt(o[i])]
        IN  rs \in Seq(LogRecords) /\ Len(rs) \in Nat
    BY <1>1, <1>3, <2>1, CopiedTyped
  <2> QED
    BY <2>1, <2>2
<1>5. output \in Segments /\ output.recs \in Seq(LogRecords) /\ output.synced <= Len(output.recs)
  <2> HIDE DEF recs
  <2>1. recs \in Seq(LogRecords \cup {Torn})
    BY <1>4, WholeRecords
  <2> QED
    BY <1>4, <2>1 DEF Segments
<1> HIDE DEF order, recs, output
<1>6. /\ new \in Nat /\ active < new /\ active \in Nat
      /\ \A id \in SealedIds(m) \cup SealedIds(man) : id \in Nat /\ id < new /\ id \in DOMAIN files
  BY DEF SegmentsSafe, ActiveApart, WellFormed, ManifestsAgree, Durable
<1> HIDE DEF new
<1>7. /\ FilesTyped'
      /\ DOMAIN files' \subseteq DOMAIN files \cup {new}
      /\ \A i \in DOMAIN files : i # new => files'[i] = files[i]
      /\ order # <<>> => files'[new] = output
      /\ order = <<>> => files' = files
  <2>1. CASE order = <<>>
    BY <1>1, <2>1 DEF LogInv, DiskTypes, FilesTyped
  <2>2. CASE order # <<>>
    <3>1. PICK g, id, seg : g = files /\ id = new /\ seg = output
      OBVIOUS
    <3>2. /\ \A i \in DOMAIN g : i \in Nat /\ g[i] \in Segments /\ g[i].synced <= Len(g[i].recs)
          /\ id \in Nat /\ seg \in Segments /\ seg.synced <= Len(seg.recs)
          /\ files' = Put(g, id, seg)
      BY <1>1, <1>5, <1>6, <2>2, <3>1 DEF LogInv, DiskTypes, FilesTyped
    <3>3. /\ FilesTyped'
          /\ DOMAIN files' = DOMAIN g \cup {id} /\ files'[id] = seg
          /\ \A i \in DOMAIN g : i # id => files'[i] = g[i]
      BY <3>2, NewSegmentTyped, Zenon
    <3> QED
      BY <2>2, <3>1, <3>3
  <2> QED
    BY <2>1, <2>2
<1>8. TornAtTail'
  <2>1. SealedIds(man') = SealedIds(man) /\ SealedIds(m') = SealedIds(m)
    BY <1>1, <1>2 DEF SealedIds
  <2>2. ASSUME NEW id \in SealedIds(man') \cup SealedIds(m')
        PROVE  files'[id].recs \in Seq(LogRecords)
    <3>1. id \in SealedIds(man) \cup SealedIds(m) /\ id \in DOMAIN files /\ id # new
      BY <1>6, <2>1
    <3>2. files[id].recs \in Seq(LogRecords)
      BY <3>1 DEF LogInv, TornAtTail
    <3> QED
      BY <1>7, <3>1, <3>2
  <2>3. op'.order # <<>> => files'[op'.seg].recs \in Seq(LogRecords)
    BY <1>1, <1>5, <1>7
  <2>4. active \in DOMAIN files /\ files[active].recs \in Seq(LogRecords) /\ active # new
    <3>1. Up
      BY <1>1 DEF Up
    <3> QED
      BY <1>6, <3>1, ActiveFacts
  <2>5. ASSUME NEW id \in {active', man'.active} \cap DOMAIN files'
        PROVE  TornTailOnly(files'[id].recs)
    <3>1. CASE id = new /\ order # <<>>
      BY <1>5, <1>7, <3>1, WholeRecords
    <3>2. CASE id # new \/ order = <<>>
      <4>1. id \in {active, man.active} \cap DOMAIN files /\ files'[id] = files[id]
        BY <1>1, <1>7, <2>5, <3>2
      <4> QED
        BY <4>1 DEF LogInv, TornAtTail
    <3> QED
      BY <3>1, <3>2
  <2>6. files'[active'].recs \in Seq(LogRecords)
    BY <1>1, <1>7, <2>4
  <2> QED
    BY <2>2, <2>3, <2>5, <2>6 DEF TornAtTail
<1>9. DiskTypes'
  BY <1>1, <1>7, DiskFrame
<1>10. MemoryTypes'
  BY <1>1, <1>2 DEF LogInv, MemoryTypes, Counters
<1>11. OpTypes'
  <2>1. buf = <<>>
    BY <1>1 DEF LogInv, OpTypes
  <2> QED
    BY <1>1, <1>3, <1>6, <2>1 DEF OpTypes, Steps
<1> QED
  BY <1>7, <1>8, <1>9, <1>10, <1>11, Combined

LEMMA CompactUnsnapTyped ==
  ASSUME SegmentsSafe, LogInv, CompactUnsnap
  PROVE  LogInv'
<1> DEFINE order == op.order
           seqs == {RecordAt(order[i]).seq : i \in DOMAIN order}
           info == [id |-> op.seg, bytes |-> Len(order),
                    last |-> CHOOSE s \in seqs : \A t \in seqs : t <= s]
<1>1. /\ op.step = "compactUnsnap" /\ snap' = NoSnapshot
      /\ op' = [step |-> "compactPublish", seg |-> op.seg, order |-> order]
      /\ files' = files /\ man' = man /\ active' = active /\ lastSeq' = lastSeq
      /\ buf' = buf /\ maps' = maps /\ pend' = pend /\ crashes' = crashes
  BY DEF CompactUnsnap
<1>2. /\ m'.sealed = (IF order = <<>> THEN <<>> ELSE <<info>>) /\ m'.nextSeq = m.nextSeq
      /\ m'.snapshotSeq = 0 /\ m'.tombstones = 0
  <2>1. m = [f \in ManifestFields |-> m[f]]
    BY DEF SegmentsSafe, WellFormed
  <2>2. m' = [m EXCEPT !.snapshotSeq = 0,
                       !.sealed = IF order = <<>> THEN <<>> ELSE <<info>>,
                       !.tombstones = 0]
    BY DEF CompactUnsnap
  <2> HIDE DEF info, order
  <2> QED
    BY <2>1, <2>2, Zenon DEF ManifestFields
<1>3. SealedIds(m') \subseteq {op.seg} /\ (SealedIds(m') # {} => order # <<>>)
  <2>1. info.id = op.seg
    OBVIOUS
  <2> HIDE DEF info
  <2>2. CASE order = <<>>
    BY <1>2, <2>2, EmptyIds
  <2>3. CASE order # <<>>
    BY <1>2, <2>1, <2>3, SingleIds
  <2> QED
    BY <2>2, <2>3
<1> HIDE DEF info, seqs
<1>4. FilesTyped'
  BY <1>1 DEF LogInv, DiskTypes, FilesTyped
<1>5. TornAtTail'
  <2>1. ASSUME NEW id \in SealedIds(man') \cup SealedIds(m')
        PROVE  files'[id].recs \in Seq(LogRecords)
    <3>1. id \in SealedIds(man) \/ (id = op.seg /\ op.order # <<>>)
      BY <1>1, <1>3
    <3> QED
      BY <1>1, <3>1 DEF LogInv, TornAtTail
  <2>2. files'[active'].recs \in Seq(LogRecords)
    BY <1>1 DEF LogInv, TornAtTail, Up
  <2> QED
    BY <1>1, <2>1, <2>2 DEF LogInv, TornAtTail
<1>6. DiskTypes'
  <2>1. snap'.exists = FALSE
    BY <1>1, Zenon DEF NoSnapshot
  <2>2. Counters(man)'
    BY <1>1 DEF LogInv, DiskTypes, Counters
  <2> QED
    BY <1>4, <2>1, <2>2, Zenon DEF DiskTypes
<1>7. MemoryTypes'
  BY <1>1, <1>2 DEF LogInv, MemoryTypes, Counters
<1>8. OpTypes'
  BY <1>1 DEF LogInv, OpTypes, Steps
<1> QED
  BY <1>4, <1>5, <1>6, <1>7, <1>8, Combined

(* A relocated map is a map. *)
LEMMA RelocateTyped ==
  ASSUME NEW loc \in Locs, op.order \in Seq(Locs), op.seg \in Nat
  PROVE  Relocate(loc) \in Locs
<1> DEFINE at == {i \in DOMAIN op.order : op.order[i] = loc}
<1>1. DOMAIN op.order \subseteq Nat
  BY LenProperties
<1>2. CASE at = {}
  BY <1>2 DEF Relocate
<1>3. CASE at # {}
  <2>1. Relocate(loc) = [seg |-> op.seg, off |-> CHOOSE i \in at : TRUE]
    BY <1>3 DEF Relocate
  <2>2. at \subseteq Nat
    BY <1>1
  <2> HIDE DEF at
  <2>3. (CHOOSE i \in at : TRUE) \in Nat
    BY <1>3, <2>2
  <2> QED
    BY <2>1, <2>3 DEF Locs
<1> QED
  BY <1>2, <1>3

LEMMA CompactPublishTyped ==
  ASSUME SegmentsSafe, LogInv, CompactPublish
  PROVE  LogInv'
<1> DEFINE docs == [d \in DOMAIN maps.docs |-> [maps.docs[d] EXCEPT !.loc = Relocate(@)]]
           splits == [k \in DOMAIN maps.splits |-> Relocate(maps.splits[k])]
           summaries == [k \in DOMAIN maps.summaries |-> Relocate(maps.summaries[k])]
<1>1. /\ op.step = "compactPublish" /\ man' = m /\ op' = At("compactRemove")
      /\ files' = files /\ snap' = snap /\ m' = m /\ active' = active
      /\ lastSeq' = lastSeq /\ buf' = buf /\ pend' = pend /\ crashes' = crashes
      /\ maps' = [docs |-> docs, splits |-> splits, summaries |-> summaries]
  BY DEF CompactPublish
<1>2. /\ Counters(m) /\ buf = <<>> /\ op.order \in Seq(Locs) /\ op.seg \in Nat
      /\ maps.docs \in DocMaps /\ maps.splits \in PartMaps /\ maps.summaries \in PartMaps
  BY <1>1 DEF LogInv, MemoryTypes, OpTypes, AllMaps
<1>3. docs \in DocMaps
  <2>1. DOMAIN maps.docs \in FiniteDocs /\ maps.docs \in [DOMAIN maps.docs -> Entries]
    BY <1>2, DocMapFacts
  <2>2. ASSUME NEW d \in DOMAIN maps.docs
        PROVE  [maps.docs[d] EXCEPT !.loc = Relocate(@)] \in Entries
    <3>1. PICK e : e = maps.docs[d]
      OBVIOUS
    <3>2. e \in Entries /\ e.loc \in Locs
      BY <2>1, <3>1 DEF Entries
    <3>3. Relocate(e.loc) \in Locs
      BY <1>2, <3>2, RelocateTyped
    <3>4. PICK l : l = Relocate(e.loc)
      OBVIOUS
    <3>5. [e EXCEPT !.loc = l] \in Entries
      BY <3>2, <3>3, <3>4 DEF Entries
    <3> QED
      BY <3>1, <3>4, <3>5
  <2>3. docs \in [DOMAIN maps.docs -> Entries]
    BY <2>2
  <2> HIDE DEF docs
  <2> QED
    BY <2>1, <2>3 DEF DocMaps
<1>4. splits \in PartMaps /\ summaries \in PartMaps
  <2>1. ASSUME NEW f \in PartMaps
        PROVE  [k \in DOMAIN f |-> Relocate(f[k])] \in PartMaps
    <3>1. DOMAIN f \subseteq Docs \X Parts /\ f \in [DOMAIN f -> Locs]
      BY PartMapFacts
    <3>2. ASSUME NEW k \in DOMAIN f PROVE Relocate(f[k]) \in Locs
      BY <1>2, <3>1, RelocateTyped
    <3>3. [k \in DOMAIN f |-> Relocate(f[k])] \in [DOMAIN f -> Locs]
      BY <3>2
    <3> QED
      BY <3>1, <3>3 DEF PartMaps
  <2> QED
    BY <1>2, <2>1
<1> HIDE DEF docs, splits, summaries
<1>5. FilesTyped' /\ TornAtTail'
  <2>1. Up /\ op'.step # "compactUnsnap"
    BY <1>1 DEF Up, At
  <2>2. man'.active = active
    BY <1>1 DEF SegmentsSafe, ActiveApart
  <2> QED
    BY <1>1, <2>1, <2>2, PublishTyped
<1>6. DiskTypes'
  BY <1>1, <1>2, <1>5, DiskStep
<1>7. MemoryTypes'
  <2>1. maps' \in AllMaps
    BY <1>1, <1>3, <1>4 DEF AllMaps
  <2> QED
    BY <1>1, <2>1 DEF LogInv, MemoryTypes, Counters
<1>8. OpTypes'
  BY <1>1, <1>2 DEF OpTypes, Steps, At
<1> QED
  BY <1>5, <1>6, <1>7, <1>8, Combined

LEMMA CompactRemoveTyped ==
  ASSUME SegmentsSafe, LogInv, CompactRemove
  PROVE  LogInv'
<1>1. /\ op.step = "compactRemove" /\ op' = At("snapshot")
      /\ man' = man /\ snap' = snap /\ m' = m /\ active' = active
      /\ lastSeq' = lastSeq /\ buf' = buf /\ maps' = maps /\ pend' = pend /\ crashes' = crashes
      /\ files' = [id \in DOMAIN files \cap (SealedIds(m) \cup {active}) |-> files[id]]
  BY DEF CompactRemove, memory
<1>2. m = man /\ buf = <<>>
  BY <1>1 DEF SegmentsSafe, ManifestsAgree, LogInv, OpTypes
<1>3. /\ DOMAIN files' \subseteq DOMAIN files /\ active \in DOMAIN files'
      /\ \A id \in DOMAIN files' : files'[id] = files[id]
      /\ \A id \in SealedIds(m) : id \in DOMAIN files'
  BY <1>1 DEF SegmentsSafe, Durable, ActiveApart
<1>4. FilesTyped'
  BY <1>3 DEF LogInv, DiskTypes, FilesTyped
<1>5. TornAtTail'
  <2>1. ASSUME NEW id \in SealedIds(man') \cup SealedIds(m')
        PROVE  files'[id].recs \in Seq(LogRecords)
    BY <1>1, <1>2, <1>3 DEF LogInv, TornAtTail
  <2>2. files'[active'].recs \in Seq(LogRecords)
    BY <1>1, <1>3 DEF LogInv, TornAtTail, Up
  <2>3. ASSUME NEW id \in {active', man'.active} \cap DOMAIN files'
        PROVE  TornTailOnly(files'[id].recs)
    BY <1>1, <1>3, <2>3 DEF LogInv, TornAtTail
  <2>4. op'.step # "compactUnsnap"
    BY <1>1 DEF At
  <2> QED
    BY <2>1, <2>2, <2>3, <2>4 DEF TornAtTail
<1>6. DiskTypes'
  BY <1>1, <1>4, DiskFrame
<1>7. MemoryTypes'
  BY <1>1 DEF LogInv, MemoryTypes, Counters
<1>8. OpTypes'
  BY <1>1, <1>2 DEF OpTypes, Steps, At
<1> QED
  BY <1>4, <1>5, <1>6, <1>7, <1>8, Combined

-----------------------------------------------------------------------------
(* Crashing and opening *)

(* Whole records, with at most one cut record behind them. *)
LEMMA TailTyped ==
  ASSUME NEW recs \in Seq(LogRecords), NEW torn \in {<<>>, <<Torn>>}
  PROVE  /\ recs \o torn \in Seq(LogRecords \cup {Torn})
         /\ TornTailOnly(recs \o torn)
         /\ Len(recs \o torn) \in Nat /\ Len(recs \o torn) >= Len(recs)
<1> DEFINE S == LogRecords \cup {Torn}
<1>1. torn \in Seq(S) /\ Len(torn) \in 0 .. 1
  <2>1. CASE torn = <<>>
    BY <2>1
  <2>2. CASE torn = <<Torn>>
    <3>1. Torn \in S
      OBVIOUS
    <3> HIDE DEF S
    <3> QED
      BY <2>2, <3>1
  <2> QED
    BY <2>1, <2>2
<1>2. recs \in Seq(S) /\ Len(recs) \in Nat
  BY WholeRecords, LenProperties
<1> HIDE DEF S
<1>3. PICK left : left = recs \o torn
  OBVIOUS
<1>4. /\ left \in Seq(S) /\ Len(left) = Len(recs) + Len(torn)
      /\ \A i \in 1 .. Len(recs) + Len(torn) :
           left[i] = IF i <= Len(recs) THEN recs[i] ELSE torn[i - Len(recs)]
  BY <1>1, <1>2, <1>3, ConcatProperties, Zenon
<1>5. ASSUME NEW i \in 1 .. Len(left) - 1 PROVE ~ IsTorn(left[i])
  <2>1. i \in 1 .. Len(recs) /\ left[i] = recs[i]
    <3>0. PICK b \in 0 .. 1 : b = Len(torn)
      BY <1>1
    <3>1. PICK a \in Nat : a = Len(recs)
      BY <1>2
    <3>2. /\ Len(left) = a + b
          /\ \A j \in 1 .. a + b : left[j] = IF j <= a THEN recs[j] ELSE torn[j - a]
      BY <1>4, <3>0, <3>1
    <3>3. i \in 1 .. a /\ i \in 1 .. a + b /\ i <= a
      BY <3>2
    <3> QED
      BY <3>1, <3>2, <3>3
  <2>2. recs[i] \in LogRecords
    BY <2>1, ElementOfSeq
  <2> QED
    BY <2>1, <2>2, RecordKinds
<1> QED
  BY <1>1, <1>2, <1>3, <1>4, <1>5 DEF TornTailOnly, S

(* A step that leaves the store with the manifest on disk and touches no   *)
(* segment but one, which is not sealed.                                   *)
LEMMA OneFileTyped ==
  ASSUME SegmentsSafe, LogInv, NEW s, s \notin SealedIds(man), OnlySegment(s),
         s \in DOMAIN files, files'[s] \in Segments, files'[s].synced <= Len(files'[s].recs),
         TornTailOnly(files'[s].recs),
         man' = man, SealedIds(m') = SealedIds(man), active' = man.active,
         op'.step # "compactUnsnap", Up' => files'[man.active].recs \in Seq(LogRecords)
  PROVE  FilesTyped' /\ TornAtTail'
<1>1. FilesTyped'
  BY DEF LogInv, DiskTypes, FilesTyped, OnlySegment
<1>2. ASSUME NEW id \in SealedIds(man') \cup SealedIds(m')
      PROVE  files'[id].recs \in Seq(LogRecords)
  <2>1. id \in SealedIds(man) /\ id \in DOMAIN files /\ id # s
    BY <1>2 DEF SegmentsSafe, Durable
  <2> QED
    BY <2>1 DEF OnlySegment, LogInv, TornAtTail
<1>3. ASSUME NEW id \in {active', man'.active} \cap DOMAIN files'
      PROVE  TornTailOnly(files'[id].recs)
  <2>1. CASE id = s
    BY <2>1
  <2>2. CASE id # s
    <3>1. id = man.active /\ id \in DOMAIN files /\ files'[id] = files[id]
      BY <1>3, <2>2 DEF OnlySegment
    <3> QED
      BY <3>1 DEF LogInv, TornAtTail
  <2> QED
    BY <2>1, <2>2
<1> QED
  BY <1>1, <1>2, <1>3 DEF TornAtTail

LEMMA CrashTyped ==
  ASSUME SegmentsSafe, LogInv, Crash
  PROVE  LogInv'
<1>1. /\ op.step \notin {"down", "broken"} /\ crashes < MaxCrashes
      /\ man' = man /\ snap' = snap /\ m' = man /\ active' = man.active /\ lastSeq' = 0
      /\ buf' = <<>> /\ maps' = EmptyMaps /\ pend' = 0 /\ op' = At("down")
      /\ crashes' = crashes + 1
  BY DEF Crash, Forget
<1>2. PICK k \in 0 .. Len(buf), torn \in {<<>>, <<Torn>>} :
        /\ torn # <<>> => k < Len(buf)
        /\ files' = [files EXCEPT ![active].recs = @ \o SubSeq(buf, 1, k) \o torn]
  BY DEF Crash
<1>3. /\ active \in DOMAIN files /\ active \notin SealedIds(man)
      /\ files = [id \in DOMAIN files |-> files[id]]
  BY <1>1 DEF SegmentsSafe, ActiveApart
<1>4. PICK f : f = files[active]
  OBVIOUS
<1>5. /\ f \in Segments /\ f.recs \in Seq(LogRecords \cup {Torn}) /\ f.synced \in Nat
      /\ f.synced <= Len(f.recs) /\ Len(f.recs) \in Nat /\ TornTailOnly(f.recs)
      /\ buf \in Seq(LogRecords)
  BY <1>3, <1>4, LenProperties DEF LogInv, DiskTypes, FilesTyped, Segments, MemoryTypes, TornAtTail
<1> DEFINE left == f.recs \o SubSeq(buf, 1, k) \o torn
<1>6. /\ left \in Seq(LogRecords \cup {Torn}) /\ TornTailOnly(left)
      /\ Len(left) \in Nat /\ Len(left) >= Len(f.recs)
  <2>1. CASE Up
    <3>1. f.recs \in Seq(LogRecords)
      BY <1>4, <2>1 DEF LogInv, TornAtTail
    <3>2. PICK head : head = SubSeq(buf, 1, k)
      OBVIOUS
    <3>3. head \in Seq(LogRecords)
      BY <1>5, <3>2, SubSeqProperties
    <3>4. PICK recs : recs = f.recs \o head
      OBVIOUS
    <3>5. recs \in Seq(LogRecords) /\ Len(recs) = Len(f.recs) + Len(head) /\ Len(head) \in Nat
      BY <3>1, <3>3, <3>4, ConcatProperties, LenProperties
    <3>6. left = recs \o torn
      BY <3>2, <3>4
    <3> HIDE DEF left
    <3>7. /\ left \in Seq(LogRecords \cup {Torn}) /\ TornTailOnly(left)
          /\ Len(left) \in Nat /\ Len(left) >= Len(recs)
      BY <3>5, <3>6, TailTyped
    <3> QED
      BY <1>5, <3>5, <3>7
  <2>2. CASE ~ Up
    <3>1. buf = <<>>
      BY <2>2 DEF LogInv, OpTypes, Up
    <3>2. Len(buf) = 0
      BY <3>1
    <3>3. k = 0 /\ torn = <<>>
      BY <1>2, <3>2
    <3>4. SubSeq(buf, 1, k) = <<>>
      BY <3>1, <3>3
    <3>5. left = f.recs
      BY <1>5, <3>3, <3>4
    <3> HIDE DEF left
    <3> QED
      BY <1>5, <3>5
  <2> QED
    BY <2>1, <2>2
<1>7. files'[active] = [f EXCEPT !.recs = left]
  BY <1>2, <1>3, <1>4
<1>8. OnlySegment(active)
  BY <1>2, <1>3, Zenon DEF OnlySegment
<1> HIDE DEF left
<1>9. files'[active] = [recs |-> left, synced |-> f.synced]
  BY <1>5, <1>7 DEF Segments
<1>10. FilesTyped' /\ TornAtTail'
  <2>1. PICK s : s = active
    OBVIOUS
  <2>2. /\ s \notin SealedIds(man) /\ OnlySegment(s) /\ s \in DOMAIN files
        /\ files'[s] \in Segments /\ files'[s].synced <= Len(files'[s].recs)
        /\ TornTailOnly(files'[s].recs)
    BY <1>3, <1>5, <1>6, <1>8, <1>9, <2>1 DEF Segments
  <2>3. op'.step # "compactUnsnap" /\ ~ Up'
    BY <1>1 DEF At, Up
  <2> QED
    BY <1>1, <2>2, <2>3, OneFileTyped
<1>11. DiskTypes'
  BY <1>1, <1>10, DiskFrame
<1>12. MemoryTypes'
  <2>1. maps' \in AllMaps
    BY <1>1, EmptyMapsTyped
  <2>2. crashes' \in 0 .. MaxCrashes
    BY <1>1, StoreAssumption DEF LogInv, MemoryTypes
  <2>3. Counters(m')
    BY <1>1 DEF LogInv, DiskTypes
  <2> QED
    BY <1>1, <2>1, <2>2, <2>3 DEF MemoryTypes, Counters
<1>13. OpTypes'
  BY <1>1 DEF OpTypes, Steps, At
<1> QED
  BY <1>10, <1>11, <1>12, <1>13, Combined

LEMMA PowerLossTyped ==
  ASSUME SegmentsSafe, LogInv, PowerLoss
  PROVE  LogInv'
<1>1. /\ op.step = "down" /\ crashes < MaxCrashes /\ man.active \in DOMAIN files
      /\ man' = man /\ snap' = snap /\ m' = m /\ active' = active /\ lastSeq' = lastSeq
      /\ buf' = buf /\ maps' = maps /\ pend' = pend /\ op' = op /\ crashes' = crashes + 1
  BY DEF PowerLoss, memory
<1>2. PICK f : f = files[man.active]
  OBVIOUS
<1>3. PICK k \in f.synced .. Len(f.recs) - 1 : \E torn \in {<<>>, <<Torn>>} :
        files' = [files EXCEPT ![man.active] =
                    [recs |-> SubSeq(f.recs, 1, k) \o torn,
                     synced |-> Len(SubSeq(f.recs, 1, k) \o torn)]]
  BY <1>2 DEF PowerLoss
<1>4. PICK torn \in {<<>>, <<Torn>>} :
        files' = [files EXCEPT ![man.active] =
                    [recs |-> SubSeq(f.recs, 1, k) \o torn,
                     synced |-> Len(SubSeq(f.recs, 1, k) \o torn)]]
  BY <1>3
<1>5. /\ m = man /\ active = man.active /\ man.active \notin SealedIds(man)
      /\ files = [id \in DOMAIN files |-> files[id]]
  BY <1>1 DEF SegmentsSafe, ManifestsAgree, ActiveApart
<1>6. /\ f.recs \in Seq(LogRecords \cup {Torn}) /\ f.synced \in Nat
      /\ Len(f.recs) \in Nat /\ TornTailOnly(f.recs)
  BY <1>1, <1>2, <1>5, LenProperties DEF LogInv, DiskTypes, FilesTyped, Segments, TornAtTail
<1>7. PICK head : head = SubSeq(f.recs, 1, k)
  OBVIOUS
<1>8. head \in Seq(LogRecords)
  <2>1. k \in Int /\ k >= 0 /\ k < Len(f.recs)
    BY <1>6
  <2>2. ASSUME NEW i \in 1 .. k PROVE f.recs[i] \in LogRecords
    <3>1. f.recs[i] \in LogRecords \cup {Torn} /\ ~ IsTorn(f.recs[i])
      BY <1>6, <2>1, ElementOfSeq DEF TornTailOnly
    <3> QED
      BY <3>1 DEF IsTorn, Torn
  <2>3. SubSeq(f.recs, 1, k) \in Seq(LogRecords)
    BY <1>6, <2>1, <2>2, SubSeqProperties
  <2> QED
    BY <1>7, <2>3
<1>9. PICK left : left = head \o torn
  OBVIOUS
<1>10. left \in Seq(LogRecords \cup {Torn}) /\ TornTailOnly(left) /\ Len(left) \in Nat
  BY <1>8, <1>9, TailTyped
<1>11. files' = [files EXCEPT ![man.active] = [recs |-> left, synced |-> Len(left)]]
  BY <1>4, <1>7, <1>9
<1>12. FilesTyped' /\ TornAtTail'
  <2>1. PICK s : s = man.active
    OBVIOUS
  <2>2. files'[s] = [recs |-> left, synced |-> Len(left)]
    BY <1>1, <1>5, <1>11, <2>1
  <2>3. OnlySegment(s)
    BY <1>5, <1>11, <2>1, Zenon DEF OnlySegment
  <2>4. /\ s \notin SealedIds(man) /\ s \in DOMAIN files
        /\ files'[s] \in Segments /\ files'[s].synced <= Len(files'[s].recs)
        /\ TornTailOnly(files'[s].recs)
    BY <1>1, <1>5, <1>10, <2>1, <2>2 DEF Segments
  <2>5. op'.step # "compactUnsnap" /\ ~ Up'
    BY <1>1 DEF Up
  <2> QED
    BY <1>1, <1>5, <2>3, <2>4, <2>5, OneFileTyped
<1>13. DiskTypes'
  BY <1>1, <1>12, DiskFrame
<1>14. MemoryTypes'
  BY <1>1, StoreAssumption DEF LogInv, MemoryTypes, Counters
<1>15. OpTypes'
  BY <1>1 DEF LogInv, OpTypes
<1> QED
  BY <1>12, <1>13, <1>14, <1>15, Combined

(* An open finds every segment the manifest names. *)
LEMMA OpenBeginTyped ==
  ASSUME SegmentsSafe, LogInv, OpenBegin
  PROVE  LogInv'
<1> DEFINE known == SealedIds(man) \cup {man.active}
           kept == [id \in DOMAIN files \cap known |-> files[id]]
           opened == IF man.active \in DOMAIN kept THEN kept
                     ELSE Put(kept, man.active, EmptySegment)
           rejected == snap.exists /\ ~ SnapshotAccepted(opened)
<1>1. /\ op.step = "down" /\ man' = man /\ m' = m /\ active' = active /\ lastSeq' = lastSeq
      /\ buf' = buf /\ maps' = maps /\ pend' = pend /\ crashes' = crashes
  BY DEF OpenBegin, memory
<1>2. m = man /\ active = man.active /\ man.active \in Nat /\ SealedIds(man) \subseteq DOMAIN files
  BY <1>1 DEF SegmentsSafe, ManifestsAgree, ActiveApart, WellFormed, Durable
<1>3. /\ files' = opened
      /\ snap' = (IF rejected THEN NoSnapshot ELSE snap)
      /\ op' = At(IF rejected THEN "reject" ELSE "replay")
  BY <1>2 DEF OpenBegin
<1> HIDE DEF rejected
<1>4. /\ \A id \in DOMAIN kept : id \in DOMAIN files /\ kept[id] = files[id]
      /\ SealedIds(man) \subseteq DOMAIN kept
  BY <1>2
<1>5. /\ FilesTyped'
      /\ \A id \in DOMAIN kept : id # man.active => files'[id] = files[id]
      /\ man.active \in DOMAIN kept => files'[man.active] = files[man.active]
      /\ man.active \notin DOMAIN kept => files'[man.active] = EmptySegment
  <2>1. \A i \in DOMAIN kept :
          i \in Nat /\ kept[i] \in Segments /\ kept[i].synced <= Len(kept[i].recs)
    BY <1>4 DEF LogInv, DiskTypes, FilesTyped
  <2>2. CASE man.active \in DOMAIN kept
    <3>1. files' = kept
      BY <1>3, <2>2
    <3> HIDE DEF kept
    <3> QED
      BY <1>4, <2>1, <2>2, <3>1 DEF FilesTyped
  <2>3. CASE man.active \notin DOMAIN kept
    <3>1. EmptySegment \in Segments /\ EmptySegment.synced <= Len(EmptySegment.recs)
      BY DEF EmptySegment, Segments
    <3>2. files' = Put(kept, man.active, EmptySegment)
      BY <1>3, <2>3
    <3> HIDE DEF kept
    <3>3. PICK g, id, seg : g = kept /\ id = man.active /\ seg = EmptySegment
      OBVIOUS
    <3>4. /\ \A i \in DOMAIN g : i \in Nat /\ g[i] \in Segments /\ g[i].synced <= Len(g[i].recs)
          /\ id \in Nat /\ seg \in Segments /\ seg.synced <= Len(seg.recs)
          /\ files' = Put(g, id, seg)
      BY <1>2, <2>1, <3>1, <3>2, <3>3
    <3>5. /\ FilesTyped'
          /\ DOMAIN files' = DOMAIN g \cup {id} /\ files'[id] = seg
          /\ \A i \in DOMAIN g : i # id => files'[i] = g[i]
      BY <3>4, NewSegmentTyped, Zenon
    <3> QED
      BY <1>4, <2>3, <3>3, <3>5
  <2> QED
    BY <2>2, <2>3
<1> HIDE DEF kept, opened
<1>6. TornAtTail'
  <2>1. ASSUME NEW id \in SealedIds(man') \cup SealedIds(m')
        PROVE  files'[id].recs \in Seq(LogRecords)
    <3>1. id \in SealedIds(man) /\ id \in DOMAIN kept /\ id # man.active
      BY <1>1, <1>2, <1>4, <2>1 DEF SegmentsSafe, ActiveApart
    <3>2. files'[id] = files[id]
      BY <1>5, <3>1
    <3> QED
      BY <3>1, <3>2 DEF LogInv, TornAtTail
  <2>2. ASSUME NEW id \in {active', man'.active} \cap DOMAIN files'
        PROVE  TornTailOnly(files'[id].recs)
    <3>1. id = man.active
      BY <1>1, <1>2, <2>2
    <3>2. CASE man.active \in DOMAIN kept
      BY <1>4, <1>5, <3>1, <3>2 DEF LogInv, TornAtTail
    <3>3. CASE man.active \notin DOMAIN kept
      <4>1. EmptySegment.recs \in Seq(LogRecords)
        BY DEF EmptySegment
      <4>2. TornTailOnly(EmptySegment.recs)
        BY <4>1, WholeRecords
      <4> QED
        BY <1>5, <3>1, <3>3, <4>2
    <3> QED
      BY <3>2, <3>3
  <2>3. op'.step # "compactUnsnap" /\ ~ Up'
    BY <1>3 DEF At, Up
  <2> QED
    BY <2>1, <2>2, <2>3 DEF TornAtTail
<1>7. DiskTypes'
  <2>1. Counters(man)'
    BY <1>1 DEF LogInv, DiskTypes, Counters
  <2>2. CASE rejected
    <3>1. snap'.exists = FALSE
      BY <1>3, <2>2, Zenon DEF NoSnapshot
    <3> QED
      BY <1>5, <2>1, <3>1, Zenon DEF DiskTypes
  <2>3. CASE ~ rejected
    BY <1>1, <1>3, <1>5, <2>3, DiskFrame
  <2> QED
    BY <2>2, <2>3
<1>8. MemoryTypes'
  BY <1>1 DEF LogInv, MemoryTypes, Counters
<1>9. OpTypes'
  <2>1. buf = <<>>
    BY <1>1 DEF LogInv, OpTypes
  <2> QED
    BY <1>1, <1>3, <2>1 DEF OpTypes, Steps, At
<1> QED
  BY <1>5, <1>6, <1>7, <1>8, <1>9, Combined

LEMMA OpenRejectTyped ==
  ASSUME SegmentsSafe, LogInv, OpenReject
  PROVE  LogInv'
<1>1. /\ op.step = "reject" /\ man' = [man EXCEPT !.snapshotSeq = 0] /\ m' = man'
      /\ op' = At("replay") /\ files' = files /\ snap' = snap /\ active' = active
      /\ lastSeq' = lastSeq /\ buf' = buf /\ maps' = maps /\ pend' = pend /\ crashes' = crashes
  BY DEF OpenReject
<1>2. /\ Counters(man) /\ buf = <<>> /\ man = [f \in ManifestFields |-> man[f]]
  BY <1>1 DEF LogInv, DiskTypes, OpTypes, SegmentsSafe, WellFormed
<1>3. /\ man'.sealed = man.sealed /\ man'.active = man.active /\ man'.nextSeq = man.nextSeq
      /\ man'.snapshotSeq = 0 /\ man'.tombstones = man.tombstones
  BY <1>1, <1>2, Zenon DEF ManifestFields
<1>4. FilesTyped' /\ TornAtTail'
  <2>1. ~ Up' /\ op'.step # "compactUnsnap"
    BY <1>1 DEF Up, At
  <2>2. SealedIds(man') = SealedIds(man) /\ SealedIds(m') = SealedIds(man)
    BY <1>1, <1>3 DEF SealedIds
  <2> QED
    BY <1>1, <1>3, <2>1, <2>2, PublishTyped
<1>5. Counters(man')
  BY <1>2, <1>3 DEF Counters
<1>6. DiskTypes'
  BY <1>1, <1>4, <1>5, DiskStep
<1>7. MemoryTypes'
  BY <1>1, <1>5 DEF LogInv, MemoryTypes, Counters
<1>8. OpTypes'
  BY <1>1, <1>2 DEF OpTypes, Steps, At
<1> QED
  BY <1>4, <1>6, <1>7, <1>8, Combined

(* A segment of whole records decodes to its end. *)
LEMMA WholeDecodes ==
  ASSUME NEW recs \in Seq(LogRecords)
  PROVE  Len(Decodable(recs)) = Len(recs)
<1>1. recs \in Seq(LogRecords \cup {Torn}) /\ Len(recs) \in Nat
  BY WholeRecords, LenProperties
<1>2. PICK n : n = Decoded(recs)
  OBVIOUS
<1>3. n \in 0 .. Len(recs) /\ (n < Len(recs) => IsTorn(recs[n + 1]))
  BY <1>1, <1>2, DecodedFacts
<1>4. ASSUME n < Len(recs) PROVE FALSE
  <2>1. n + 1 \in 1 .. Len(recs)
    BY <1>1, <1>3, <1>4
  <2>2. recs[n + 1] \in LogRecords
    BY <2>1, ElementOfSeq
  <2> QED
    BY <1>3, <1>4, <2>2, RecordKinds
<1> QED
  BY <1>1, <1>2, <1>3, <1>4, DecodableTyped

(* No open finds damage. *)
LEMMA NeverDamaged ==
  ASSUME SegmentsSafe, LogInv, man.active \in DOMAIN files
  PROVE  Undamaged
<1>1. ASSUME NEW i \in DOMAIN man.sealed
      PROVE  Len(Decodable(files[man.sealed[i].id].recs)) = Len(files[man.sealed[i].id].recs)
  <2>1. man.sealed[i].id \in SealedIds(man)
    BY DEF SealedIds
  <2>2. files[man.sealed[i].id].recs \in Seq(LogRecords)
    BY <2>1 DEF LogInv, TornAtTail
  <2> QED
    BY <2>2, WholeDecodes
<1>2. TornTailOnly(files[man.active].recs)
  BY DEF LogInv, TornAtTail
<1> QED
  BY <1>1, <1>2 DEF Undamaged

LEMMA OpenReplayTyped ==
  ASSUME SegmentsSafe, LogInv, OpenReplay
  PROVE  LogInv'
<1>1. op.step = "replay" /\ man' = man /\ snap' = snap /\ buf' = buf /\ pend' = pend
      /\ crashes' = crashes
  BY DEF OpenReplay
<1>2. /\ m = man /\ active = man.active /\ man.active \in DOMAIN files
      /\ man.active \notin SealedIds(man) /\ buf = <<>> /\ DiskTypes
      /\ files = [id \in DOMAIN files |-> files[id]]
  BY <1>1 DEF SegmentsSafe, ManifestsAgree, ActiveApart, LogInv, OpTypes
<1>3. Undamaged
  BY <1>2, NeverDamaged
<1> DEFINE f == files[man.active]
           next == RecoveredNextSeq
<1>4. /\ maps' = Recovered /\ m' = [man EXCEPT !.nextSeq = next] /\ active' = man.active
      /\ lastSeq' = LastSeq(f.recs) /\ op' = At("idle")
      /\ files' = [files EXCEPT ![man.active] = Truncated(f)]
  BY <1>3 DEF OpenReplay
<1>5. Recovered \in AllMaps
  BY <1>2, BaseTyped, ReplayTyped DEF Recovered
<1>6. next \in Nat \ {0}
  BY <1>2, NextSeqTyped
<1>7. f.recs \in Seq(LogRecords \cup {Torn}) /\ f.synced \in Nat
  BY <1>2 DEF DiskTypes, FilesTyped, Segments
<1> HIDE DEF next
<1>8. /\ m'.sealed = man.sealed /\ m'.nextSeq = next
      /\ m'.snapshotSeq = man.snapshotSeq /\ m'.tombstones = man.tombstones
  <2>1. man = [g \in ManifestFields |-> man[g]]
    BY DEF SegmentsSafe, WellFormed
  <2> QED
    BY <1>4, <2>1, Zenon DEF ManifestFields
<1>9. Counters(m')
  BY <1>2, <1>6, <1>8 DEF DiskTypes, Counters
<1>10. /\ Truncated(f) \in Segments /\ Truncated(f).recs \in Seq(LogRecords)
       /\ Truncated(f).synced <= Len(Truncated(f).recs)
  <2> HIDE DEF f
  <2>1. PICK good : good = Decodable(f.recs)
    OBVIOUS
  <2>2. good \in Seq(LogRecords) /\ Len(good) \in Nat
    BY <1>7, <2>1, DecodableTyped, LenProperties
  <2>3. good \in Seq(LogRecords \cup {Torn})
    BY <2>2, WholeRecords
  <2>4. Truncated(f) = [recs |-> good,
                        synced |-> IF f.synced > Len(good) THEN Len(good) ELSE f.synced]
    BY <2>1 DEF Truncated
  <2> QED
    BY <1>7, <2>2, <2>3, <2>4 DEF Segments
<1>11. FilesTyped' /\ TornAtTail'
  <2> HIDE DEF f
  <2>1. PICK s : s = man.active
    OBVIOUS
  <2>2. files'[s] = Truncated(f)
    BY <1>2, <1>4, <2>1
  <2>3. OnlySegment(s)
    BY <1>2, <1>4, <2>1, Zenon DEF OnlySegment
  <2>4. TornTailOnly(Truncated(f).recs)
    BY <1>10, WholeRecords
  <2>5. /\ s \notin SealedIds(man) /\ s \in DOMAIN files
        /\ files'[s] \in Segments /\ files'[s].synced <= Len(files'[s].recs)
        /\ TornTailOnly(files'[s].recs) /\ files'[man.active].recs \in Seq(LogRecords)
    BY <1>2, <1>10, <2>1, <2>2, <2>4
  <2>6. op'.step # "compactUnsnap" /\ SealedIds(m') = SealedIds(man)
    BY <1>4, <1>8 DEF At, SealedIds
  <2> QED
    BY <1>1, <1>4, <2>3, <2>5, <2>6, OneFileTyped
<1>12. DiskTypes'
  BY <1>1, <1>11, DiskFrame
<1>13. MemoryTypes'
  <2>1. lastSeq' \in Nat
    BY <1>4, <1>7, LastSeqTyped
  <2>2. maps' \in AllMaps
    BY <1>4, <1>5
  <2> QED
    BY <1>1, <1>9, <2>1, <2>2 DEF LogInv, MemoryTypes, Counters
<1>14. OpTypes'
  BY <1>1, <1>2, <1>4 DEF OpTypes, Steps, At
<1> QED
  BY <1>11, <1>12, <1>13, <1>14, Combined

-----------------------------------------------------------------------------
(* The theorems *)

(* A fresh directory satisfies the invariant. *)
LEMMA InitTyped ==
  ASSUME Init
  PROVE  LogInv
<1>1. /\ files = [id \in {0} |-> EmptySegment] /\ man = NewManifest /\ m = NewManifest
      /\ snap = NoSnapshot /\ active = 0 /\ lastSeq = 0 /\ buf = <<>> /\ maps = EmptyMaps
      /\ pend = 0 /\ op = At("idle") /\ crashes = 0
  BY DEF Init
<1>2. EmptySegment \in Segments /\ EmptySegment.recs \in Seq(LogRecords)
      /\ EmptySegment.synced <= Len(EmptySegment.recs)
  BY DEF EmptySegment, Segments
<1>3. SealedIds(man) = {} /\ SealedIds(m) = {}
  BY <1>1, EmptyIds DEF NewManifest
<1>4. DOMAIN files = {0} /\ files[0] = EmptySegment
  BY <1>1
<1>5. Counters(NewManifest)
  BY DEF Counters, NewManifest
<1>6. DiskTypes
  <2>1. FilesTyped
    BY <1>2, <1>4 DEF FilesTyped
  <2>2. snap.exists = FALSE
    BY <1>1, Zenon DEF NoSnapshot
  <2>3. Counters(man)
    BY <1>1, <1>5
  <2> QED
    BY <2>1, <2>2, <2>3, Zenon DEF DiskTypes
<1>7. MemoryTypes
  BY <1>1, <1>5, EmptyMapsTyped, StoreAssumption DEF MemoryTypes
<1>8. OpTypes
  BY <1>1 DEF OpTypes, Steps, At
<1>9. TornAtTail
  <2>1. TornTailOnly(EmptySegment.recs)
    BY <1>2, WholeRecords
  <2>2. man.active = 0 /\ op.step = "idle"
    BY <1>1 DEF NewManifest, At
  <2>3. files[active].recs \in Seq(LogRecords)
        /\ \A id \in {active, man.active} \cap DOMAIN files : TornTailOnly(files[id].recs)
    BY <1>1, <1>2, <1>4, <2>1
  <2> QED
    BY <1>3, <2>2, <2>3 DEF TornAtTail
<1> QED
  BY <1>6, <1>7, <1>8, <1>9 DEF LogInv

(* And every step keeps it. *)
LEMMA NextTyped ==
  ASSUME SegmentsSafe, LogInv, [Next]_vars
  PROVE  LogInv'
<1>1. CASE Next
  BY <1>1, AppendDocumentTyped, InsertRewindTyped, InsertCommitTyped, AppendDeleteTyped,
     DeleteCommitTyped, SealActiveTyped, SealPublishTyped, FsyncTyped, SnapshotWriteTyped,
     SnapshotPublishTyped, CompactWriteTyped, CompactFailsTyped, CompactUnsnapTyped,
     CompactPublishTyped, CompactRemoveTyped, CrashTyped, PowerLossTyped, OpenBeginTyped,
     OpenRejectTyped, OpenReplayTyped DEF Next
<1>2. CASE UNCHANGED vars
  <2>1. /\ files' = files /\ man' = man /\ snap' = snap /\ m' = m /\ active' = active
        /\ lastSeq' = lastSeq /\ buf' = buf /\ maps' = maps /\ pend' = pend /\ op' = op
        /\ crashes' = crashes
    BY <1>2 DEF vars
  <2>2. FilesTyped'
    BY <2>1 DEF LogInv, DiskTypes, FilesTyped
  <2>3. DiskTypes'
    BY <2>1, <2>2, DiskFrame
  <2>4. MemoryTypes' /\ OpTypes'
    BY <2>1 DEF LogInv, MemoryTypes, OpTypes, Counters
  <2>5. TornAtTail'
    BY <2>1 DEF LogInv, TornAtTail, Up
  <2> QED
    BY <2>3, <2>4, <2>5 DEF LogInv
<1> QED
  BY <1>1, <1>2

LEMMA LogInvariant == Spec => []LogInv
<1>1. SegmentsSafe /\ LogInv /\ [Next]_vars => LogInv'
  BY NextTyped
<1>2. Init => LogInv
  BY InitTyped
<1> QED
  BY <1>1, <1>2, SegmentsStaySafe, PTL DEF Spec

(* The shard always opens again: however often the process or the machine   *)
(* dies, and wherever in a write, a seal, a snapshot, a compaction or an     *)
(* open, the manifest on disk names no missing segment and the log is        *)
(* undecodable nowhere but at the tail of the active segment, which open     *)
(* cuts off (lib.rs:11-12, replay::is_torn_tail).                            *)
THEOREM StoreAlwaysOpens == Spec => []AlwaysOpens
<1>1. LogInv => AlwaysOpens
  BY DEF LogInv, OpTypes, Steps, AlwaysOpens
<1> QED
  BY <1>1, LogInvariant, PTL

(* The store's state keeps its shape: what is synced is a part of the file, *)
(* every file holds records or a cut one, counters never go below zero.     *)
THEOREM StoreTypes == Spec => []TypeOK
<1>1. ASSUME LogInv, SegmentsSafe PROVE TypeOK
  <2>1. ASSUME NEW id \in DOMAIN files
        PROVE  /\ id \in Nat /\ files[id].synced \in 0 .. Len(files[id].recs)
               /\ \A i \in DOMAIN files[id].recs :
                    LET r == files[id].recs[i]
                    IN  IsTorn(r) \/ [kind |-> r.kind, seq |-> r.seq] \in Records
    <3>1. PICK recs : recs = files[id].recs
      OBVIOUS
    <3>2. /\ id \in Nat /\ files[id].synced \in Nat /\ files[id].synced <= Len(recs)
          /\ recs \in Seq(LogRecords \cup {Torn}) /\ Len(recs) \in Nat
      BY <1>1, <3>1, LenProperties DEF LogInv, DiskTypes, FilesTyped, Segments
    <3>3. ASSUME NEW i \in DOMAIN recs
          PROVE  IsTorn(recs[i]) \/ [kind |-> recs[i].kind, seq |-> recs[i].seq] \in Records
      <4>1. PICK r \in LogRecords \cup {Torn} : r = recs[i]
        BY <3>2
      <4>2. CASE r \in LogRecords
        BY <4>1, <4>2 DEF LogRecords, PartRecords, DeleteRecords, DocRecords, Records
      <4>3. CASE r = Torn
        BY <4>1, <4>3 DEF IsTorn, Torn
      <4> QED
        BY <4>1, <4>2, <4>3
    <3>4. files[id].synced \in 0 .. Len(files[id].recs)
      BY <3>1, <3>2
    <3> QED
      BY <3>1, <3>2, <3>3, <3>4, Zenon
  <2>2. ASSUME NEW mm \in {man, m}
        PROVE  /\ {mm.active, mm.nextSegmentId, mm.nextSeq, mm.snapshotSeq, mm.tombstones}
                    \subseteq Nat
               /\ \A i \in DOMAIN mm.sealed : mm.sealed[i].id \in Nat
    <3>1. WellFormed(mm) /\ Counters(mm)
      BY <1>1 DEF SegmentsSafe, LogInv, DiskTypes, MemoryTypes
    <3> QED
      BY <3>1 DEF WellFormed, Counters, SealedIds
  <2>3. active \in Nat
    BY <1>1 DEF SegmentsSafe, ActiveApart, WellFormed
  <2>4. /\ lastSeq \in Nat /\ pend \in Nat /\ crashes \in 0 .. MaxCrashes /\ op.step \in Steps
    BY <1>1 DEF LogInv, MemoryTypes, OpTypes
  <2> QED
    BY <2>1, <2>2, <2>3, <2>4 DEF TypeOK, Steps
<1> QED
  BY <1>1, LogInvariant, SegmentsStaySafe, PTL

-----------------------------------------------------------------------------
(* The numbers in the log *)

(* The whole records of a segment, and their numbers. *)
Slots(fs, id) == {i \in DOMAIN fs[id].recs : ~ IsTorn(fs[id].recs[i])}
SeqAt(fs, id, i) == fs[id].recs[i].seq

(* The sealed segments ids use every number at most once and stay below n; *)
(* the active segment a uses rising numbers, above all of theirs.          *)
Numbered(fs, ids, a, n) ==
  /\ \A p, q \in ids : \A i \in Slots(fs, p), j \in Slots(fs, q) :
       SeqAt(fs, p, i) = SeqAt(fs, q, j) => p = q /\ i = j
  /\ \A p \in ids : \A i \in Slots(fs, p) : SeqAt(fs, p, i) < n
  /\ \A i, j \in Slots(fs, a) : i < j => SeqAt(fs, a, i) < SeqAt(fs, a, j)
  /\ \A p \in ids : \A i \in Slots(fs, p), j \in Slots(fs, a) :
       SeqAt(fs, p, i) < SeqAt(fs, a, j)

(* The number the first buffered record has, or the next one would have. *)
FirstFree == m.nextSeq - Len(buf)

Numbering ==
  /\ Numbered(files, SealedIds(man), man.active, man.nextSeq)
  /\ Up => /\ Numbered(files, SealedIds(m), active, FirstFree)
           /\ \A i \in Slots(files, active) : SeqAt(files, active, i) < FirstFree
           /\ \A i \in 1 .. Len(buf) : buf[i].seq = FirstFree + i - 1
           /\ man.nextSeq <= FirstFree

-----------------------------------------------------------------------------
(* What the maps refer to *)

Ref(kind, d, mark, loc) == [kind |-> kind, doc |-> d, mark |-> mark, loc |-> loc]
PartRefs(kind, f) == {Ref(kind, k[1], k[2], f[k]) : k \in DOMAIN f}
DocRefs(f) == {Ref("Doc", d, f[d].seq, f[d].loc) : d \in DOMAIN f}
Refs(mp) == DocRefs(mp.docs) \cup PartRefs("Split", mp.splits)
                             \cup PartRefs("Summary", mp.summaries)

(* A record is the one meant. *)
Meant(x, r) ==
  /\ r.kind = x.kind /\ r.doc = x.doc
  /\ x.kind = "Doc" => r.seq = x.mark
  /\ x.kind # "Doc" => r.part = x.mark

(* Into a segment that exists, to the record meant. *)
Right(fs, x) ==
  x.loc.seg \in DOMAIN fs =>
    /\ x.loc.off \in DOMAIN fs[x.loc.seg].recs
    /\ Meant(x, fs[x.loc.seg].recs[x.loc.off])

Resolve(fs, mp, n) == \A x \in Refs(mp) : x.loc.seg < n /\ Right(fs, x)

(* A document whose parts lie in segment a lies there itself. *)
Together(mp, a) ==
  \A x \in Refs(mp) :
    x.kind # "Doc" /\ x.doc \in DOMAIN mp.docs /\ x.loc.seg = a => mp.docs[x.doc].loc.seg = a

(* A snapshot refers to what is on the device and was there when it was taken. *)
OnDevice(fs, mp, s) ==
  \A x \in Refs(mp) :
    x.loc.seg \in DOMAIN fs =>
      /\ x.loc.off <= fs[x.loc.seg].synced
      /\ fs[x.loc.seg].recs[x.loc.off].seq <= s

References ==
  /\ Up => /\ Resolve(files, maps, man.nextSegmentId)
           /\ Together(maps, active) /\ Together(maps, man.active)
  /\ snap.exists => /\ Resolve(files, snap.maps, man.nextSegmentId)
                    /\ Together(snap.maps, active) /\ Together(snap.maps, man.active)
                    /\ OnDevice(files, snap.maps, snap.seq)

(* A compaction's output is what the locations it copied hold. *)
Copied ==
  op.step \in {"compactUnsnap", "compactPublish"} =>
    /\ op.seg < m.nextSegmentId
    /\ op.order # <<>> =>
         /\ op.seg \in DOMAIN files /\ op.seg # active
         /\ Len(files[op.seg].recs) = Len(op.order)
    /\ \A i \in 1 .. Len(op.order) :
         LET loc == op.order[i]
         IN  /\ loc.seg \in DOMAIN files /\ loc.seg # active
             /\ loc.off \in DOMAIN files[loc.seg].recs
             /\ files[op.seg].recs[i] = files[loc.seg].recs[loc.off]
    /\ op.step = "compactUnsnap" /\ op.order # <<>> =>
         Numbered(files, {op.seg}, active, m.nextSeq)

(* The active segment is the one the manifest on disk names but for the    *)
(* moment between a seal and its manifest, when it is still empty;         *)
(* everything else is synced.  Only a compaction in progress, and a crash  *)
(* until the next open, leave a segment that the manifest does not name.   *)
Placed ==
  /\ man.active \in DOMAIN files
  /\ op.step # "sealPublish" => man.active = active
  /\ op.step = "sealPublish" => files[active] = EmptySegment
  /\ man.nextSegmentId <= m.nextSegmentId
  /\ \A id \in DOMAIN files : id = active \/ files[id].synced = Len(files[id].recs)
  /\ op.step \notin {"compactUnsnap", "compactPublish", "compactRemove", "down"} =>
       DOMAIN files \subseteq SealedIds(m) \cup {active}

(* The records of one insert behind k others: summaries, splits, the Doc    *)
(* record, numbered from seq + k on.                                        *)
Spells(recs, k, d, c, seq) ==
  /\ Len(recs) = k + 2 * c.splits + 1
  /\ \A i \in 1 .. c.splits : /\ recs[k + i] = SummaryRecord(seq + k + i - 1, d, i)
                              /\ recs[k + c.splits + i] =
                                   SplitRecord(seq + k + c.splits + i - 1, d, i)
  /\ recs[k + 2 * c.splits + 1] = DocRecord(seq + k + 2 * c.splits, d, c)
  /\ k = 1 => recs[1] = DeleteRecord(seq, d)

(* What is buffered is what append_document wrote. *)
Written ==
  op.step = "insert" =>
    /\ op.rewindSeq = FirstFree
    /\ \E k \in 0 .. 1 : Spells(buf, k, op.doc, op.content, op.rewindSeq)

SeqInv == Placed /\ Numbering /\ References /\ Copied /\ Written

-----------------------------------------------------------------------------
(* Numbers under changes of the files *)

LEMMA SlotTyped ==
  ASSUME FilesTyped, NEW id \in DOMAIN files, NEW i \in Slots(files, id)
  PROVE  /\ SeqAt(files, id, i) \in Nat /\ files[id].recs[i] \in LogRecords
         /\ i \in 1 .. Len(files[id].recs) /\ i \in Nat
<1>1. files[id].recs \in Seq(LogRecords \cup {Torn}) /\ i \in DOMAIN files[id].recs
      /\ ~ IsTorn(files[id].recs[i])
  BY DEF FilesTyped, Segments, Slots
<1>2. i \in 1 .. Len(files[id].recs) /\ files[id].recs[i] \in LogRecords \cup {Torn}
  BY <1>1, LenProperties, ElementOfSeq
<1>3. files[id].recs[i] \in LogRecords
  BY <1>1, <1>2 DEF IsTorn, Torn
<1> QED
  BY <1>2, <1>3, RecordKinds DEF SeqAt

(* What segment p holds in gs, it holds in fs. *)
Within(gs, fs, p) ==
  \A i \in Slots(gs, p) : i \in Slots(fs, p) /\ SeqAt(gs, p, i) = SeqAt(fs, p, i)

LEMMA SameWithin ==
  ASSUME NEW fs, NEW gs, NEW p, gs[p].recs = fs[p].recs
  PROVE  Within(gs, fs, p)
  BY DEF Within, Slots, SeqAt

(* Fewer segments, fewer records, a higher bound. *)
LEMMA NumberedWithin ==
  ASSUME NEW fs, NEW gs, NEW ids, NEW jds \in SUBSET ids, NEW a, NEW n \in Int, NEW k \in Int,
         n <= k, Numbered(fs, ids, a, n), Within(gs, fs, a),
         \A p \in jds : Within(gs, fs, p) /\ \A i \in Slots(fs, p) : SeqAt(fs, p, i) \in Nat
  PROVE  Numbered(gs, jds, a, k)
<1>1. ASSUME NEW p \in jds, NEW q \in jds, NEW i \in Slots(gs, p), NEW j \in Slots(gs, q),
             SeqAt(gs, p, i) = SeqAt(gs, q, j)
      PROVE  p = q /\ i = j
  BY <1>1 DEF Numbered, Within
<1>2. ASSUME NEW p \in jds, NEW i \in Slots(gs, p) PROVE SeqAt(gs, p, i) < k
  <2>1. i \in Slots(fs, p) /\ SeqAt(gs, p, i) = SeqAt(fs, p, i)
    BY DEF Within
  <2>2. SeqAt(fs, p, i) \in Nat /\ SeqAt(fs, p, i) < n
    BY <2>1 DEF Numbered
  <2> QED
    BY <2>1, <2>2
<1>3. ASSUME NEW i \in Slots(gs, a), NEW j \in Slots(gs, a), i < j
      PROVE  SeqAt(gs, a, i) < SeqAt(gs, a, j)
  BY <1>3 DEF Numbered, Within
<1>4. ASSUME NEW p \in jds, NEW i \in Slots(gs, p), NEW j \in Slots(gs, a)
      PROVE  SeqAt(gs, p, i) < SeqAt(gs, a, j)
  BY DEF Numbered, Within
<1> QED
  BY <1>1, <1>2, <1>3, <1>4 DEF Numbered

(* Segment a of gs is segment a of fs, followed by records numbered from    *)
(* first on.                                                                *)
Appended(gs, fs, a, first, last) ==
  \A i \in Slots(gs, a) :
    \/ i \in Slots(fs, a) /\ SeqAt(gs, a, i) = SeqAt(fs, a, i)
    \/ /\ i \in Nat /\ i > Len(fs[a].recs) /\ SeqAt(gs, a, i) < last
       /\ SeqAt(gs, a, i) = first + (i - Len(fs[a].recs)) - 1

LEMMA NumberedAppended ==
  ASSUME NEW fs, NEW gs, NEW ids, NEW a, NEW n \in Int, NEW first \in Int, NEW last \in Int,
         n <= first, first <= last, Numbered(fs, ids, a, n), Appended(gs, fs, a, first, last),
         \A i \in Slots(fs, a) : /\ SeqAt(fs, a, i) \in Nat /\ SeqAt(fs, a, i) < first
                                 /\ i \in 1 .. Len(fs[a].recs),
         Len(fs[a].recs) \in Nat,
         \A p \in ids : Within(gs, fs, p) /\ \A i \in Slots(fs, p) : SeqAt(fs, p, i) \in Nat
  PROVE  Numbered(gs, ids, a, n) /\ \A i \in Slots(gs, a) : SeqAt(gs, a, i) < last
<1>0. PICK L \in Nat : L = Len(fs[a].recs)
  OBVIOUS
<1>1. ASSUME NEW p \in ids, NEW q \in ids, NEW i \in Slots(gs, p), NEW j \in Slots(gs, q),
             SeqAt(gs, p, i) = SeqAt(gs, q, j)
      PROVE  p = q /\ i = j
  BY <1>1 DEF Numbered, Within
<1>2. ASSUME NEW p \in ids, NEW i \in Slots(gs, p)
      PROVE  /\ SeqAt(gs, p, i) < n /\ SeqAt(gs, p, i) \in Nat
             /\ i \in Slots(fs, p) /\ SeqAt(gs, p, i) = SeqAt(fs, p, i)
  BY DEF Numbered, Within
<1>3. ASSUME NEW i \in Slots(gs, a)
      PROVE  /\ SeqAt(gs, a, i) \in Int /\ SeqAt(gs, a, i) < last
             /\ \/ /\ i \in Slots(fs, a) /\ SeqAt(gs, a, i) = SeqAt(fs, a, i)
                   /\ SeqAt(gs, a, i) < first /\ i \in 1 .. L
                \/ i \in Nat /\ i > L /\ SeqAt(gs, a, i) = first + (i - L) - 1
  <2>1. PICK s : s = SeqAt(gs, a, i)
    OBVIOUS
  <2>2. CASE i \in Slots(fs, a) /\ s = SeqAt(fs, a, i)
    <3>1. s \in Nat /\ s < first /\ i \in 1 .. L
      BY <1>0, <2>2
    <3>2. s \in Int /\ s < last
      BY <3>1
    <3> QED
      BY <2>1, <2>2, <3>1, <3>2
  <2>3. CASE i \in Nat /\ i > L /\ s < last /\ s = first + (i - L) - 1
    <3>1. s \in Int
      BY <2>3
    <3> QED
      BY <2>1, <2>3, <3>1
  <2> QED
    BY <1>0, <2>1, <2>2, <2>3 DEF Appended
<1>5. ASSUME NEW i \in Slots(gs, a), NEW j \in Slots(gs, a), i < j
      PROVE  SeqAt(gs, a, i) < SeqAt(gs, a, j)
  <2>1. CASE i \in Slots(fs, a) /\ j \in Slots(fs, a) /\ j \in 1 .. L /\ i \in 1 .. L
    BY <1>3, <1>5, <2>1 DEF Numbered
  <2>2. CASE j > L /\ j \in Nat
    BY <1>3, <1>5, <2>2
  <2> QED
    BY <1>3, <1>5, <2>1, <2>2
<1>6. ASSUME NEW p \in ids, NEW i \in Slots(gs, p), NEW j \in Slots(gs, a)
      PROVE  SeqAt(gs, p, i) < SeqAt(gs, a, j)
  <2>1. CASE j \in Slots(fs, a) /\ SeqAt(gs, a, j) = SeqAt(fs, a, j)
    BY <1>2, <2>1 DEF Numbered
  <2>2. CASE j > L /\ j \in Nat /\ SeqAt(gs, a, j) = first + (j - L) - 1
    BY <1>2, <1>3, <2>2
  <2> QED
    BY <1>3, <2>1, <2>2
<1> QED
  BY <1>1, <1>2, <1>3, <1>5, <1>6 DEF Numbered

(* Sealing: the active segment joins the sealed ones, an empty one follows. *)
LEMMA NumberedSealed ==
  ASSUME NEW fs, NEW gs, NEW ids, NEW jds, NEW a, NEW b, NEW n \in Int,
         Numbered(fs, ids, a, n), jds \subseteq ids \cup {a}, a \notin ids, Slots(gs, b) = {},
         \A i \in Slots(fs, a) : SeqAt(fs, a, i) < n /\ SeqAt(fs, a, i) \in Nat /\ i \in Nat,
         \A p \in ids \cup {a} : Within(gs, fs, p),
         \A p \in ids : \A i \in Slots(fs, p) : SeqAt(fs, p, i) \in Nat
  PROVE  Numbered(gs, jds, b, n)
<1>1. ASSUME NEW p \in jds, NEW i \in Slots(gs, p)
      PROVE  /\ i \in Slots(fs, p) /\ SeqAt(gs, p, i) = SeqAt(fs, p, i)
             /\ SeqAt(fs, p, i) \in Nat /\ SeqAt(fs, p, i) < n
  BY DEF Within, Numbered
<1>2. ASSUME NEW p \in jds, NEW q \in jds, NEW i \in Slots(gs, p), NEW j \in Slots(gs, q),
             SeqAt(gs, p, i) = SeqAt(gs, q, j)
      PROVE  p = q /\ i = j
  <2>1. CASE p # a /\ q # a
    BY <1>1, <1>2, <2>1 DEF Numbered
  <2>2. CASE p = a /\ q = a
    <3>1. ~ (i < j) /\ ~ (j < i)
      BY <1>1, <1>2, <2>2 DEF Numbered
    <3> QED
      BY <1>1, <2>2, <3>1
  <2>3. CASE p # a /\ q = a
    <3>1. SeqAt(fs, p, i) < SeqAt(fs, q, j)
      BY <1>1, <2>3 DEF Numbered
    <3> QED
      BY <1>1, <1>2, <3>1
  <2>4. CASE p = a /\ q # a
    <3>1. SeqAt(fs, q, j) < SeqAt(fs, p, i)
      BY <1>1, <2>4 DEF Numbered
    <3> QED
      BY <1>1, <1>2, <3>1
  <2> QED
    BY <2>1, <2>2, <2>3, <2>4
<1> QED
  BY <1>1, <1>2 DEF Numbered

-----------------------------------------------------------------------------
(* References under changes of the files and the maps *)

(* gs keeps the whole records of fs in the segments below n. *)
Grows(fs, gs, n) ==
  \A id \in DOMAIN gs : id < n =>
    /\ id \in DOMAIN fs
    /\ \A i \in DOMAIN fs[id].recs : ~ IsTorn(fs[id].recs[i]) =>
         i \in DOMAIN gs[id].recs /\ gs[id].recs[i] = fs[id].recs[i]

(* A record that is the one meant is whole. *)
LEMMA MeantWhole ==
  ASSUME NEW mp, NEW x \in Refs(mp), NEW r, Meant(x, r)
  PROVE  ~ IsTorn(r)
<1>1. x.kind \in {"Doc", "Split", "Summary"}
  BY DEF Refs, DocRefs, PartRefs, Ref
<1> QED
  BY <1>1 DEF Meant, IsTorn

LEMMA ResolveGrows ==
  ASSUME NEW fs, NEW gs, NEW mp, NEW n, Grows(fs, gs, n), Resolve(fs, mp, n)
  PROVE  Resolve(gs, mp, n)
<1>1. ASSUME NEW x \in Refs(mp) PROVE x.loc.seg < n /\ Right(gs, x)
  <2>1. x.loc.seg < n /\ Right(fs, x)
    BY DEF Resolve
  <2> QED
    BY <2>1, MeantWhole DEF Right, Grows
<1> QED
  BY <1>1 DEF Resolve

(* gs keeps what fs has synced. *)
Keeps(fs, gs, n) ==
  \A id \in DOMAIN gs : id < n =>
    /\ id \in DOMAIN fs
    /\ \A i \in DOMAIN fs[id].recs : i <= fs[id].synced /\ ~ IsTorn(fs[id].recs[i]) =>
         /\ i \in DOMAIN gs[id].recs /\ gs[id].recs[i] = fs[id].recs[i]
         /\ i <= gs[id].synced

LEMMA DeviceKeeps ==
  ASSUME NEW fs, NEW gs, NEW mp, NEW n, NEW s, Keeps(fs, gs, n), Resolve(fs, mp, n),
         OnDevice(fs, mp, s)
  PROVE  Resolve(gs, mp, n) /\ OnDevice(gs, mp, s)
<1>1. ASSUME NEW x \in Refs(mp)
      PROVE  /\ x.loc.seg < n /\ Right(gs, x)
             /\ x.loc.seg \in DOMAIN gs =>
                  /\ x.loc.off <= gs[x.loc.seg].synced
                  /\ gs[x.loc.seg].recs[x.loc.off].seq <= s
  <2>1. x.loc.seg < n /\ Right(fs, x)
    BY DEF Resolve
  <2>2. CASE x.loc.seg \in DOMAIN gs
    <3>1. x.loc.seg \in DOMAIN fs
      BY <2>1, <2>2 DEF Keeps
    <3>2. PICK r : r = fs[x.loc.seg].recs[x.loc.off]
      OBVIOUS
    <3>3. /\ x.loc.off \in DOMAIN fs[x.loc.seg].recs /\ Meant(x, r)
          /\ x.loc.off <= fs[x.loc.seg].synced /\ r.seq <= s
      BY <2>1, <3>1, <3>2 DEF Right, OnDevice
    <3>4. ~ IsTorn(r)
      BY <3>3, MeantWhole
    <3>5. /\ x.loc.off \in DOMAIN gs[x.loc.seg].recs /\ gs[x.loc.seg].recs[x.loc.off] = r
          /\ x.loc.off <= gs[x.loc.seg].synced
      BY <2>1, <2>2, <3>2, <3>3, <3>4 DEF Keeps
    <3> QED
      BY <2>1, <3>3, <3>5 DEF Right
  <2>3. CASE x.loc.seg \notin DOMAIN gs
    BY <2>1, <2>3 DEF Right
  <2> QED
    BY <2>2, <2>3
<1> QED
  BY <1>1 DEF Resolve, OnDevice

(* A higher bound. *)
LEMMA ResolveHigher ==
  ASSUME NEW fs, NEW mp \in AllMaps, NEW n \in Nat, NEW k \in Nat, n <= k, Resolve(fs, mp, n)
  PROVE  Resolve(fs, mp, k)
<1>1. ASSUME NEW x \in Refs(mp) PROVE x.loc \in Locs
  <2>1. /\ mp.docs \in [DOMAIN mp.docs -> Entries] /\ mp.splits \in [DOMAIN mp.splits -> Locs]
        /\ mp.summaries \in [DOMAIN mp.summaries -> Locs]
    BY DocMapFacts, PartMapFacts DEF AllMaps
  <2> QED
    BY <2>1 DEF Refs, DocRefs, PartRefs, Ref, Entries
<1> QED
  BY <1>1 DEF Resolve, Locs

(* What a removal leaves. *)
LEMMA RefsRemoved ==
  ASSUME NEW mp, NEW d
  PROVE  /\ Refs(RemoveDoc(mp, d)) \subseteq Refs(mp)
         /\ DOMAIN RemoveDoc(mp, d).docs = DOMAIN mp.docs \ {d}
         /\ \A e \in DOMAIN mp.docs \ {d} : RemoveDoc(mp, d).docs[e] = mp.docs[e]
<1>1. CASE d \notin DOMAIN mp.docs
  BY <1>1 DEF RemoveDoc
<1>2. CASE d \in DOMAIN mp.docs
  <2>1. PICK ks, ls : RemoveDoc(mp, d) =
          [docs |-> Without(mp.docs, {d}), splits |-> Without(mp.splits, ks),
           summaries |-> Without(mp.summaries, ls)]
    BY <1>2 DEF RemoveDoc
  <2>2. ASSUME NEW f, NEW keys, NEW kind
        PROVE  PartRefs(kind, Without(f, keys)) \subseteq PartRefs(kind, f)
    BY DEF PartRefs, Without
  <2>3. ASSUME NEW f, NEW keys
        PROVE  /\ DocRefs(Without(f, keys)) \subseteq DocRefs(f)
               /\ DOMAIN Without(f, keys) = DOMAIN f \ keys
               /\ \A e \in DOMAIN f \ keys : Without(f, keys)[e] = f[e]
    BY DEF DocRefs, Without
  <2>4. PICK new : new = RemoveDoc(mp, d)
    OBVIOUS
  <2>5. /\ new.docs = Without(mp.docs, {d}) /\ new.splits = Without(mp.splits, ks)
        /\ new.summaries = Without(mp.summaries, ls)
    BY <2>1, <2>4
  <2>6. Refs(new) \subseteq Refs(mp)
    BY <2>2, <2>3, <2>5 DEF Refs
  <2>7. DOMAIN new.docs = DOMAIN mp.docs \ {d}
    BY <2>3, <2>5
  <2>8. \A e \in DOMAIN mp.docs \ {d} : new.docs[e] = mp.docs[e]
    BY <2>5 DEF Without
  <2> QED
    BY <2>4, <2>6, <2>7, <2>8
<1> QED
  BY <1>1, <1>2

(* What an insert adds. *)
LEMMA RefsPut ==
  ASSUME NEW mp, NEW d, NEW e, NEW sl, NEW ml
  PROVE  /\ DOMAIN PutDoc(mp, d, e, sl, ml).docs = DOMAIN mp.docs \cup {d}
         /\ \A x \in DOMAIN mp.docs \cup {d} :
              PutDoc(mp, d, e, sl, ml).docs[x] = IF x = d THEN e ELSE mp.docs[x]
         /\ \A x \in Refs(PutDoc(mp, d, e, sl, ml)) :
              \/ x \in Refs(mp) \/ x = Ref("Doc", d, e.seq, e.loc)
              \/ x \in PartRefs("Split", sl) \/ x \in PartRefs("Summary", ml)
<1> DEFINE new == PutDoc(mp, d, e, sl, ml)
<1>1. /\ new.docs = Put(mp.docs, d, e) /\ new.splits = Over(sl, mp.splits)
      /\ new.summaries = Over(ml, mp.summaries)
  BY DEF PutDoc
<1> HIDE DEF new
<1>2. /\ DOMAIN Put(mp.docs, d, e) = DOMAIN mp.docs \cup {d}
      /\ \A x \in DOMAIN mp.docs \cup {d} :
           Put(mp.docs, d, e)[x] = IF x = d THEN e ELSE mp.docs[x]
  BY DEF Put
<1>3. ASSUME NEW f, NEW g, NEW kind
      PROVE  PartRefs(kind, Over(f, g)) \subseteq PartRefs(kind, f) \cup PartRefs(kind, g)
  BY DEF PartRefs, Over
<1>4. ASSUME NEW x \in DocRefs(new.docs)
      PROVE  x \in DocRefs(mp.docs) \/ x = Ref("Doc", d, e.seq, e.loc)
  BY <1>1, <1>2 DEF DocRefs
<1>5. ASSUME NEW x \in Refs(new)
      PROVE  \/ x \in Refs(mp) \/ x = Ref("Doc", d, e.seq, e.loc)
             \/ x \in PartRefs("Split", sl) \/ x \in PartRefs("Summary", ml)
  <2>1. CASE x \in DocRefs(new.docs)
    BY <1>4, <2>1 DEF Refs
  <2>2. CASE x \in PartRefs("Split", new.splits)
    BY <1>1, <1>3, <2>2 DEF Refs
  <2>3. CASE x \in PartRefs("Summary", new.summaries)
    BY <1>1, <1>3, <2>3 DEF Refs
  <2> QED
    BY <2>1, <2>2, <2>3 DEF Refs
<1> QED
  BY <1>1, <1>2, <1>5 DEF new

(* No part of any document lies in segment a. *)
NoParts(mp, a) == \A x \in Refs(mp) : x.kind # "Doc" => x.loc.seg # a

LEMMA TogetherRemoved ==
  ASSUME NEW mp, NEW d, NEW a
  PROVE  /\ Together(mp, a) => Together(RemoveDoc(mp, d), a)
         /\ NoParts(mp, a) => NoParts(RemoveDoc(mp, d), a)
  BY RefsRemoved DEF Together, NoParts

LEMMA ResolveRemoved ==
  ASSUME NEW fs, NEW mp, NEW d, NEW n, Resolve(fs, mp, n)
  PROVE  Resolve(fs, RemoveDoc(mp, d), n)
  BY RefsRemoved DEF Resolve

(* The parts of document d, all in segment s, in order to be committed. *)
PlacedParts(fs, kind, f, d, s) ==
  \A k \in DOMAIN f : k[1] = d /\ f[k].seg = s /\ Right(fs, Ref(kind, k[1], k[2], f[k]))

(* All that new has and mp has not is about document d and in segment s. *)
OnlyPuts(new, mp, d, s) == \A x \in Refs(new) : x \in Refs(mp) \/ (x.doc = d /\ x.loc.seg = s)

LEMMA PutResolves ==
  ASSUME NEW fs, NEW mp, NEW d, NEW e, NEW sl, NEW ml, NEW n, NEW s, Resolve(fs, mp, n),
         s < n, e.loc.seg = s, Right(fs, Ref("Doc", d, e.seq, e.loc)),
         PlacedParts(fs, "Split", sl, d, s), PlacedParts(fs, "Summary", ml, d, s)
  PROVE  /\ Resolve(fs, PutDoc(mp, d, e, sl, ml), n)
         /\ OnlyPuts(PutDoc(mp, d, e, sl, ml), mp, d, s)
<1>1. ASSUME NEW kind, NEW f, PlacedParts(fs, kind, f, d, s), NEW x \in PartRefs(kind, f)
      PROVE  x.doc = d /\ x.loc.seg = s /\ Right(fs, x)
  <2>1. PICK k \in DOMAIN f : x = Ref(kind, k[1], k[2], f[k])
    BY DEF PartRefs
  <2>2. x.doc = k[1] /\ x.loc = f[k]
    BY <2>1 DEF Ref
  <2> QED
    BY <1>1, <2>1, <2>2 DEF PlacedParts
<1>2. PICK y : y = Ref("Doc", d, e.seq, e.loc)
  OBVIOUS
<1>3. y.doc = d /\ y.loc.seg = s /\ Right(fs, y)
  BY <1>2 DEF Ref
<1>4. ASSUME NEW x \in Refs(PutDoc(mp, d, e, sl, ml))
      PROVE  /\ x \in Refs(mp) \/ (x.doc = d /\ x.loc.seg = s)
             /\ x.loc.seg < n /\ Right(fs, x)
  <2>1. CASE x \in Refs(mp)
    BY <2>1 DEF Resolve
  <2>2. CASE x = y
    BY <1>3, <2>2
  <2>3. CASE x \in PartRefs("Split", sl)
    BY <1>1, <2>3
  <2>4. CASE x \in PartRefs("Summary", ml)
    BY <1>1, <2>4
  <2> QED
    BY <1>2, <2>1, <2>2, <2>3, <2>4, RefsPut
<1> QED
  BY <1>4 DEF Resolve, OnlyPuts

(* A document put into segment s, which is a or holds no ... part of it. *)
LEMMA PutTogether ==
  ASSUME NEW mp, NEW d, NEW e, NEW sl, NEW ml, NEW a, NEW s, e.loc.seg = s,
         OnlyPuts(PutDoc(mp, d, e, sl, ml), mp, d, s)
  PROVE  /\ s = a /\ Together(mp, a) => Together(PutDoc(mp, d, e, sl, ml), a)
         /\ s # a /\ NoParts(mp, a) => NoParts(PutDoc(mp, d, e, sl, ml), a)
<1> DEFINE new == PutDoc(mp, d, e, sl, ml)
<1>1. /\ DOMAIN new.docs = DOMAIN mp.docs \cup {d}
      /\ \A x \in DOMAIN mp.docs \cup {d} : new.docs[x] = IF x = d THEN e ELSE mp.docs[x]
  BY RefsPut
<1>2. \A x \in Refs(new) : x \in Refs(mp) \/ (x.doc = d /\ x.loc.seg = s)
  BY DEF OnlyPuts
<1> HIDE DEF new
<1>3. ASSUME s = a, Together(mp, a) PROVE Together(new, a)
  <2>1. ASSUME NEW x \in Refs(new), x.kind # "Doc", x.doc \in DOMAIN new.docs, x.loc.seg = a
        PROVE  new.docs[x.doc].loc.seg = a
    <3>1. CASE x.doc = d
      BY <1>1, <1>3, <3>1
    <3>2. CASE x.doc # d
      <4>1. x \in Refs(mp) /\ x.doc \in DOMAIN mp.docs /\ new.docs[x.doc] = mp.docs[x.doc]
        BY <1>1, <1>2, <2>1, <3>2
      <4> QED
        BY <1>3, <2>1, <4>1 DEF Together
    <3> QED
      BY <3>1, <3>2
  <2> QED
    BY <2>1 DEF Together
<1>4. ASSUME s # a, NoParts(mp, a) PROVE NoParts(new, a)
  BY <1>2, <1>4 DEF NoParts
<1> QED
  BY <1>3, <1>4 DEF new

LEMMA NoPartsTogether ==
  ASSUME NEW mp, NEW a, NoParts(mp, a) PROVE Together(mp, a)
  BY DEF NoParts, Together

-----------------------------------------------------------------------------
(* References and replay *)

(* What a scan of segment seg has buffered. *)
Buffered(fs, pending, seg) ==
  \A k \in DOMAIN pending :
    pending[k].seg = seg /\ Right(fs, Ref(k[1], k[2], k[3], pending[k]))

(* What holds of segment a while segment seg is scanned. *)
Aside(mp, seg, a) == IF seg = a THEN Together(mp, a) ELSE NoParts(mp, a)

ScanGood(fs, st, seg, n, a) ==
  Resolve(fs, st.maps, n) /\ Buffered(fs, st.pending, seg) /\ Aside(st.maps, seg, a)

LEMMA BufferedLeft ==
  ASSUME NEW fs, NEW pending, NEW seg, NEW d, Buffered(fs, pending, seg)
  PROVE  Buffered(fs, [k \in {x \in DOMAIN pending : x[2] # d} |-> pending[k]], seg)
  BY DEF Buffered

LEMMA AsideKept ==
  ASSUME NEW mp, NEW seg, NEW a, NEW d, Aside(mp, seg, a)
  PROVE  Aside(RemoveDoc(mp, d), seg, a)
  BY TogetherRemoved DEF Aside

(* The document's buffered records, as the commit places them. *)
LEMMA PlacedFromBuffer ==
  ASSUME NEW fs, NEW pending, NEW seg, NEW d, NEW kind, NEW parts,
         Buffered(fs, pending, seg), \A i \in parts : <<kind, d, i>> \in DOMAIN pending
  PROVE  PlacedParts(fs, kind, [k \in Keys(d, parts) |-> pending[<<kind, d, k[2]>>]], d, seg)
<1> DEFINE f == [k \in Keys(d, parts) |-> pending[<<kind, d, k[2]>>]]
<1>1. ASSUME NEW k \in Keys(d, parts)
      PROVE  k[1] = d /\ f[k].seg = seg /\ Right(fs, Ref(kind, k[1], k[2], f[k]))
  <2>1. PICK i \in parts : k = <<d, i>>
    BY DEF Keys
  <2>2. k[1] = d /\ k[2] = i /\ f[k] = pending[<<kind, d, i>>]
    BY <2>1
  <2>3. PICK q : q = <<kind, d, i>>
    OBVIOUS
  <2>4. q \in DOMAIN pending /\ q[1] = kind /\ q[2] = d /\ q[3] = i
    BY <2>3
  <2>5. pending[q].seg = seg /\ Right(fs, Ref(kind, d, i, pending[q]))
    BY <2>4 DEF Buffered
  <2> QED
    BY <2>2, <2>3, <2>5
<1>2. DOMAIN f = Keys(d, parts)
  OBVIOUS
<1> HIDE DEF f
<1> QED
  BY <1>1, <1>2 DEF PlacedParts, f

LEMMA CommitGood ==
  ASSUME NEW fs, NEW st \in Scans, NEW r \in DocRecords, NEW loc, NEW seg, NEW n, NEW a,
         ScanGood(fs, st, seg, n, a), loc.seg = seg, seg < n, seg \in DOMAIN fs,
         loc.off \in DOMAIN fs[seg].recs, fs[seg].recs[loc.off] = r
  PROVE  ScanGood(fs, CommitDoc(st.maps, st.pending, r, loc), seg, n, a)
<1> DEFINE d == r.doc
           mine(kind) == {i \in Parts : <<kind, d, i>> \in DOMAIN st.pending}
           placed(kind) == [k \in Keys(d, mine(kind)) |-> st.pending[<<kind, d, k[2]>>]]
           entry == [splits |-> r.splits, list |-> r.list,
                     extra |-> mine("Split") \ r.list, seq |-> r.seq, loc |-> loc]
           left == [k \in {x \in DOMAIN st.pending : x[2] # d} |-> st.pending[k]]
           old == RemoveDoc(st.maps, d)
           new == PutDoc(old, d, entry, placed("Split"), placed("Summary"))
<1>1. Resolve(fs, st.maps, n) /\ Buffered(fs, st.pending, seg) /\ Aside(st.maps, seg, a)
  BY DEF ScanGood
<1>2. Resolve(fs, old, n) /\ Aside(old, seg, a) /\ Buffered(fs, left, seg)
  BY <1>1, ResolveRemoved, AsideKept, BufferedLeft
<1>3. PlacedParts(fs, "Split", placed("Split"), d, seg)
      /\ PlacedParts(fs, "Summary", placed("Summary"), d, seg)
  <2>1. ASSUME NEW kind PROVE PlacedParts(fs, kind, placed(kind), d, seg)
    <3>1. \A i \in mine(kind) : <<kind, d, i>> \in DOMAIN st.pending
      OBVIOUS
    <3> HIDE DEF mine, d
    <3> QED
      BY <1>1, <3>1, PlacedFromBuffer
  <2> QED
    BY <2>1
<1>4. entry.loc.seg = seg /\ Right(fs, Ref("Doc", d, entry.seq, entry.loc))
  <2>1. r.kind = "Doc"
    BY DEF DocRecords
  <2>2. Right(fs, Ref("Doc", r.doc, r.seq, loc))
    BY <2>1 DEF Right, Ref, Meant
  <2> QED
    BY <2>2
<1>5. CommitDoc(st.maps, st.pending, r, loc) = [maps |-> new, pending |-> left]
  BY DEF CommitDoc
<1> HIDE DEF placed, entry, left, d, old
<1>6. Resolve(fs, new, n) /\ OnlyPuts(new, old, d, seg)
  <2>1. PICK sl, ml : sl = placed("Split") /\ ml = placed("Summary")
    OBVIOUS
  <2>2. PICK mp, e : mp = old /\ e = entry
    OBVIOUS
  <2>3. /\ Resolve(fs, mp, n) /\ PlacedParts(fs, "Split", sl, d, seg)
        /\ PlacedParts(fs, "Summary", ml, d, seg)
        /\ e.loc.seg = seg /\ Right(fs, Ref("Doc", d, e.seq, e.loc))
    BY <1>2, <1>3, <1>4, <2>1, <2>2
  <2>4. /\ Resolve(fs, PutDoc(mp, d, e, sl, ml), n)
        /\ OnlyPuts(PutDoc(mp, d, e, sl, ml), mp, d, seg)
    BY <2>3, PutResolves
  <2> QED
    BY <2>1, <2>2, <2>4
<1>7. Aside(new, seg, a)
  BY <1>2, <1>4, <1>6, PutTogether DEF Aside
<1> HIDE DEF new
<1> QED
  BY <1>2, <1>5, <1>6, <1>7 DEF ScanGood

LEMMA ApplyGood ==
  ASSUME NEW fs, NEW st \in Scans, NEW r \in LogRecords, NEW loc, NEW seg, NEW n, NEW a,
         ScanGood(fs, st, seg, n, a), loc.seg = seg, seg < n, seg \in DOMAIN fs,
         loc.off \in DOMAIN fs[seg].recs, fs[seg].recs[loc.off] = r
  PROVE  ScanGood(fs, Apply(st.maps, st.pending, r, loc), seg, n, a)
<1>1. Resolve(fs, st.maps, n) /\ Buffered(fs, st.pending, seg) /\ Aside(st.maps, seg, a)
  BY DEF ScanGood
<1>2. CASE r \in PartRecords
  <2>0. PICK key : key = <<r.kind, r.doc, r.part>>
    OBVIOUS
  <2>1. key[1] = r.kind /\ key[2] = r.doc /\ key[3] = r.part
    BY <2>0
  <2>2. Apply(st.maps, st.pending, r, loc) =
          [maps |-> st.maps, pending |-> Put(st.pending, key, loc)]
    BY <1>2, <2>0, RecordKinds DEF Apply
  <2>3. Right(fs, Ref(r.kind, r.doc, r.part, loc))
    <3>1. r.kind # "Doc"
      BY <1>2 DEF PartRecords
    <3> QED
      BY <3>1 DEF Right, Ref, Meant
  <2>4. Buffered(fs, Put(st.pending, key, loc), seg)
    <3> DEFINE p == Put(st.pending, key, loc)
    <3>1. /\ DOMAIN p = DOMAIN st.pending \cup {key} /\ p[key] = loc
          /\ \A k \in DOMAIN st.pending : k # key => p[k] = st.pending[k]
      BY DEF Put
    <3> HIDE DEF p
    <3>2. ASSUME NEW k \in DOMAIN p
          PROVE  p[k].seg = seg /\ Right(fs, Ref(k[1], k[2], k[3], p[k]))
      <4>1. CASE k = key
        BY <2>1, <2>3, <3>1, <4>1
      <4>2. CASE k # key
        BY <1>1, <3>1, <4>2 DEF Buffered
      <4> QED
        BY <4>1, <4>2
    <3> QED
      BY <3>2 DEF Buffered, p
  <2> QED
    BY <1>1, <2>2, <2>4 DEF ScanGood
<1>3. CASE r \in DeleteRecords
  <2> DEFINE left == [k \in {x \in DOMAIN st.pending : x[2] # r.doc} |-> st.pending[k]]
  <2>1. Apply(st.maps, st.pending, r, loc) =
          [maps |-> RemoveDoc(st.maps, r.doc), pending |-> left]
    BY <1>3, RecordKinds DEF Apply
  <2>2. Buffered(fs, left, seg)
    BY <1>1, BufferedLeft
  <2> HIDE DEF left
  <2> QED
    BY <1>1, <2>1, <2>2, ResolveRemoved, AsideKept DEF ScanGood
<1>4. CASE r \in DocRecords
  <2>1. Apply(st.maps, st.pending, r, loc) = CommitDoc(st.maps, st.pending, r, loc)
    BY <1>4, RecordKinds DEF Apply
  <2> QED
    BY <1>4, <2>1, CommitGood
<1> QED
  BY <1>2, <1>3, <1>4 DEF LogRecords

(* What holds at the start and stays from step to step. *)
LEMMA StepInduction ==
  ASSUME NEW N \in Nat, NEW T, 0 \in T, \A i \in 1 .. N : i - 1 \in T => i \in T
  PROVE  N \in T /\ \A i \in 0 .. N : i \in T
<1> DEFINE f == [i \in Int |-> i]
<1>1. f[0] \in T /\ \A i \in 1 .. N : f[i - 1] \in T => f[i] \in T
  OBVIOUS
<1>2. \A i \in 0 .. N : f[i] = i
  OBVIOUS
<1> HIDE DEF f
<1>3. \A i \in 0 .. N : f[i] \in T
  BY <1>1, RecursionIn
<1> QED
  BY <1>2, <1>3

(* Scanning a segment. *)
LEMMA ScanKeeps ==
  ASSUME NEW fs, NEW mp \in AllMaps, NEW seg \in Nat, NEW s, NEW n, NEW a,
         seg \in DOMAIN fs, fs[seg].recs \in Seq(LogRecords \cup {Torn}), seg < n,
         Resolve(fs, mp, n), Aside(mp, seg, a)
  PROVE  /\ Resolve(fs, ScanSegment(mp, seg, fs[seg].recs, s), n)
         /\ Aside(ScanSegment(mp, seg, fs[seg].recs, s), seg, a)
<1> DEFINE recs == fs[seg].recs
           good == Decodable(recs)
           N == Len(good)
<1>1. PICK f \in [0 .. N -> Scans] :
        ScansFrom(f, mp, seg, good, s) /\ ScanSegment(mp, seg, recs, s) = f[N].maps
  BY ScanEquation, Zenon
<1>2. /\ good \in Seq(LogRecords) /\ N \in Nat
      /\ \A i \in 1 .. N : good[i] = recs[i] /\ good[i] \in LogRecords /\ i \in DOMAIN recs
  <2>1. PICK q \in Seq(LogRecords \cup {Torn}) : q = recs
    OBVIOUS
  <2>2. /\ Decodable(q) \in Seq(LogRecords) /\ Len(Decodable(q)) = Decoded(q)
        /\ \A i \in 1 .. Decoded(q) : Decodable(q)[i] = q[i]
        /\ Decoded(q) \in 0 .. Len(q)
    BY DecodableTyped, DecodedFacts
  <2>3. Len(q) \in Nat /\ DOMAIN q = 1 .. Len(q)
    BY LenProperties
  <2>4. \A i \in 1 .. Len(Decodable(q)) : Decodable(q)[i] \in LogRecords
    BY <2>2, ElementOfSeq
  <2> QED
    BY <2>1, <2>2, <2>3, <2>4
<1> HIDE DEF recs, good, N
<1>3. ScanGood(fs, f[0], seg, n, a)
  <2>1. f[0].maps = mp /\ f[0].pending = <<>>
    BY <1>1 DEF ScansFrom
  <2>2. Buffered(fs, <<>>, seg)
    BY DEF Buffered
  <2> QED
    BY <2>1, <2>2 DEF ScanGood
<1> DEFINE T == {i \in 0 .. N : ScanGood(fs, f[i], seg, n, a)}
<1>4. ASSUME NEW i \in 1 .. N, i - 1 \in T PROVE i \in T
  <2>1. i - 1 \in 0 .. N /\ i \in 0 .. N /\ f[i - 1] \in Scans
    BY <1>2
  <2>2. ScanGood(fs, f[i - 1], seg, n, a)
    BY <1>4
  <2>3. CASE good[i].seq > s
    <3>0. PICK loc : loc = [seg |-> seg, off |-> i]
      OBVIOUS
    <3>1. loc.seg = seg /\ loc.off = i
      BY <3>0
    <3>2. f[i] = Apply(f[i - 1].maps, f[i - 1].pending, good[i], loc)
      BY <1>1, <2>3, <3>0 DEF ScansFrom, N
    <3>3. loc.off \in DOMAIN fs[seg].recs /\ fs[seg].recs[loc.off] = good[i]
      BY <1>2, <3>1 DEF recs
    <3>4. PICK st \in Scans, r \in LogRecords : st = f[i - 1] /\ r = good[i]
      BY <1>2, <2>1
    <3>5. ScanGood(fs, Apply(st.maps, st.pending, r, loc), seg, n, a)
      BY <2>2, <3>1, <3>3, <3>4, ApplyGood
    <3> QED
      BY <2>1, <3>2, <3>4, <3>5
  <2>4. CASE ~ (good[i].seq > s)
    BY <1>1, <2>1, <2>2, <2>4 DEF ScansFrom, N
  <2> QED
    BY <2>3, <2>4
<1>5. N \in T
  <2>1. 0 \in T
    BY <1>2, <1>3
  <2> HIDE DEF T
  <2> QED
    BY <1>2, <1>4, <2>1, StepInduction
<1> QED
  BY <1>1, <1>5 DEF ScanGood, recs

-----------------------------------------------------------------------------
(* What compaction copies, in order *)

(* compact_into's order: by document; of one document its summaries, then  *)
(* its splits, each by part, then the Doc record.                          *)
Rank(x) ==
  IF x.kind = "Summary" THEN x.mark
  ELSE IF x.kind = "Split" THEN MaxSplits + x.mark ELSE 2 * MaxSplits + 1
Before(x, y) == x.doc < y.doc \/ (x.doc = y.doc /\ Rank(x) < Rank(y))

(* t says what each location of s is the location of. *)
Tags(t, s) ==
  /\ t \in Seq(Refs(maps)) /\ s \in Seq(Locs) /\ Len(t) = Len(s)
  /\ \A i \in 1 .. Len(t) : t[i].loc = s[i]
  /\ \A i, j \in 1 .. Len(t) : i < j => Before(t[i], t[j])

Has(t, x) == \E i \in 1 .. Len(t) : t[i] = x

LEMMA TagsConcat ==
  ASSUME NEW t, NEW s, NEW u, NEW r, Tags(t, s), Tags(u, r),
         \A i \in 1 .. Len(t), j \in 1 .. Len(u) : Before(t[i], u[j])
  PROVE  /\ Tags(t \o u, s \o r)
         /\ \A x : Has(t \o u, x) <=> Has(t, x) \/ Has(u, x)
<1>1. /\ t \in Seq(Refs(maps)) /\ u \in Seq(Refs(maps)) /\ Len(t) \in Nat /\ Len(u) \in Nat
      /\ s \in Seq(Locs) /\ r \in Seq(Locs) /\ Len(s) = Len(t) /\ Len(r) = Len(u)
      /\ \A i \in 1 .. Len(t) : t[i].loc = s[i]
      /\ \A i \in 1 .. Len(u) : u[i].loc = r[i]
      /\ \A i, j \in 1 .. Len(t) : i < j => Before(t[i], t[j])
      /\ \A i, j \in 1 .. Len(u) : i < j => Before(u[i], u[j])
  BY LenProperties DEF Tags
<1>2. PICK v, q : v = t \o u /\ q = s \o r
  OBVIOUS
<1>3. PICK a \in Nat, b \in Nat : a = Len(t) /\ b = Len(u)
  BY <1>1
<1>4. /\ v \in Seq(Refs(maps)) /\ Len(v) = a + b
      /\ \A i \in 1 .. a + b : v[i] = IF i <= a THEN t[i] ELSE u[i - a]
  <2>1. t \in Seq(Refs(maps)) /\ u \in Seq(Refs(maps)) /\ Len(t) = a /\ Len(u) = b
    BY <1>1, <1>3
  <2> QED
    BY <1>2, <2>1, ConcatProperties, Zenon
<1>5. /\ q \in Seq(Locs) /\ Len(q) = a + b
      /\ \A i \in 1 .. a + b : q[i] = IF i <= a THEN s[i] ELSE r[i - a]
  <2>1. s \in Seq(Locs) /\ r \in Seq(Locs) /\ Len(s) = a /\ Len(r) = b
    BY <1>1, <1>3
  <2> QED
    BY <1>2, <2>1, ConcatProperties, Zenon
<1>6. ASSUME NEW i \in 1 .. a + b PROVE v[i].loc = q[i]
  <2>1. CASE i <= a
    <3>1. i \in 1 .. a /\ v[i] = t[i] /\ q[i] = s[i]
      BY <1>4, <1>5, <2>1
    <3> QED
      BY <1>1, <1>3, <3>1
  <2>2. CASE ~ (i <= a)
    <3>1. i - a \in 1 .. b /\ v[i] = u[i - a] /\ q[i] = r[i - a]
      BY <1>4, <1>5, <2>2
    <3> QED
      BY <1>1, <1>3, <3>1
  <2> QED
    BY <2>1, <2>2
<1>7. ASSUME NEW i \in 1 .. a + b, NEW j \in 1 .. a + b, i < j PROVE Before(v[i], v[j])
  <2>1. CASE j <= a
    <3>1. i \in 1 .. a /\ j \in 1 .. a
      BY <1>7, <2>1
    <3>2. v[i] = t[i] /\ v[j] = t[j]
      BY <1>4, <3>1
    <3> QED
      BY <1>1, <1>3, <1>7, <3>1, <3>2
  <2>2. CASE i > a
    <3>1. i - a \in 1 .. b /\ j - a \in 1 .. b /\ i - a < j - a
      BY <1>7, <2>2
    <3>2. v[i] = u[i - a] /\ v[j] = u[j - a]
      BY <1>4, <1>7, <2>2
    <3> QED
      BY <1>1, <1>3, <3>1, <3>2
  <2>3. CASE i <= a /\ j > a
    <3>1. i \in 1 .. a /\ j - a \in 1 .. b /\ v[i] = t[i] /\ v[j] = u[j - a]
      BY <1>4, <2>3
    <3> QED
      BY <1>3, <3>1
  <2> QED
    BY <2>1, <2>2, <2>3
<1>8. ASSUME NEW x PROVE Has(v, x) <=> Has(t, x) \/ Has(u, x)
  <2>1. ASSUME Has(v, x) PROVE Has(t, x) \/ Has(u, x)
    <3>1. PICK i \in 1 .. a + b : v[i] = x
      BY <1>4, <2>1 DEF Has
    <3>2. CASE i <= a
      BY <1>3, <1>4, <3>1, <3>2 DEF Has
    <3>3. CASE i > a
      <4>1. i - a \in 1 .. b /\ u[i - a] = x
        BY <1>4, <3>1, <3>3
      <4> QED
        BY <1>3, <4>1 DEF Has
    <3> QED
      BY <3>2, <3>3
  <2>2. ASSUME Has(t, x) PROVE Has(v, x)
    <3>1. PICK i \in 1 .. a : t[i] = x
      BY <1>3, <2>2 DEF Has
    <3>2. i \in 1 .. a + b /\ v[i] = x
      BY <1>4, <3>1
    <3> QED
      BY <1>4, <3>2 DEF Has
  <2>3. ASSUME Has(u, x) PROVE Has(v, x)
    <3>1. PICK i \in 1 .. b : u[i] = x
      BY <1>3, <2>3 DEF Has
    <3>2. i + a \in 1 .. a + b /\ ~ (i + a <= a) /\ (i + a) - a = i
      OBVIOUS
    <3>3. v[i + a] = x
      BY <1>4, <3>1, <3>2
    <3> QED
      BY <1>4, <3>2, <3>3 DEF Has
  <2> QED
    BY <2>1, <2>2, <2>3
<1>9. Tags(v, q)
  BY <1>1, <1>3, <1>4, <1>5, <1>6, <1>7 DEF Tags
<1> QED
  BY <1>2, <1>8, <1>9

(* The parts of one kind of one document. *)
LEMMA PartTags ==
  ASSUME NEW f \in PartMaps, NEW d \in Docs, NEW parts \in SUBSET Parts,
         NEW kind \in {"Summary", "Split"}, PartRefs(kind, f) \subseteq Refs(maps)
  PROVE  \E t : /\ Tags(t, PartLocs(f, d, parts))
                /\ \A j \in 1 .. Len(t) : /\ t[j].kind = kind /\ t[j].doc = d
                                          /\ t[j].mark \in Parts
                /\ \A i \in parts : <<d, i>> \in DOMAIN f => Has(t, Ref(kind, d, i, f[<<d, i>>]))
<1>1. PICK s : s = PartLocs(f, d, parts)
  OBVIOUS
<1>2. s \in Seq(Locs) /\ Len(s) \in Nat
  BY <1>1, PartLocsTyped
<1>3. PICK h \in Seq(Parts) :
        /\ Len(h) = Len(s)
        /\ \A j \in 1 .. Len(h) : /\ h[j] \in parts /\ <<d, h[j]>> \in DOMAIN f
                                  /\ s[j] = f[<<d, h[j]>>]
        /\ \A i, j \in 1 .. Len(h) : i < j => h[i] < h[j]
        /\ \A i \in parts : <<d, i>> \in DOMAIN f => \E j \in 1 .. Len(h) : h[j] = i
  BY <1>1, PartLocsTyped
<1>4. PICK n \in Nat : n = Len(s)
  BY <1>2
<1> DEFINE t == [j \in 1 .. n |-> Ref(kind, d, h[j], f[<<d, h[j]>>])]
<1>5. ASSUME NEW j \in 1 .. n
      PROVE  /\ t[j] = Ref(kind, d, h[j], f[<<d, h[j]>>]) /\ t[j] \in Refs(maps)
             /\ t[j].kind = kind /\ t[j].doc = d /\ t[j].mark = h[j] /\ t[j].loc = s[j]
             /\ h[j] \in Parts
  <2>1. t[j] = Ref(kind, d, h[j], f[<<d, h[j]>>])
    OBVIOUS
  <2>2. <<d, h[j]>> \in DOMAIN f /\ s[j] = f[<<d, h[j]>>] /\ h[j] \in Parts
    BY <1>3, <1>4
  <2>3. PICK k : k = <<d, h[j]>>
    OBVIOUS
  <2>4. k[1] = d /\ k[2] = h[j] /\ k \in DOMAIN f
    BY <2>2, <2>3
  <2>5. Ref(kind, k[1], k[2], f[k]) \in PartRefs(kind, f)
    BY <2>4 DEF PartRefs
  <2>6. t[j] \in PartRefs(kind, f)
    BY <2>1, <2>3, <2>4, <2>5
  <2> QED
    BY <2>1, <2>2, <2>6 DEF Ref
<1>6. t \in [1 .. n -> Refs(maps)]
  BY <1>5
<1> HIDE DEF t
<1>7. t \in Seq(Refs(maps)) /\ Len(t) = n
  BY <1>6, FunctionIsSeq
<1>8. ASSUME NEW i \in 1 .. n, NEW j \in 1 .. n, i < j PROVE Before(t[i], t[j])
  <2>1. h[i] < h[j] /\ h[i] \in Nat /\ h[j] \in Nat
    BY <1>3, <1>4, <1>5, <1>8, ContentsAssumption DEF Parts
  <2>2. /\ t[i].kind = kind /\ t[i].mark = h[i] /\ t[j].kind = kind /\ t[j].mark = h[j]
    BY <1>5
  <2>3. PICK x, y : x = t[i] /\ y = t[j]
    OBVIOUS
  <2>4. /\ x.kind = kind /\ x.mark = h[i] /\ y.kind = kind /\ y.mark = h[j]
        /\ x.doc = d /\ y.doc = d
    BY <1>5, <2>2, <2>3
  <2>5. CASE kind = "Summary"
    <3>1. Rank(x) = h[i] /\ Rank(y) = h[j]
      BY <2>4, <2>5 DEF Rank
    <3> QED
      BY <2>1, <2>3, <2>4, <3>1 DEF Before
  <2>6. CASE kind = "Split"
    <3>1. Rank(x) = MaxSplits + h[i] /\ Rank(y) = MaxSplits + h[j]
      BY <2>4, <2>6 DEF Rank
    <3>2. Rank(x) < Rank(y)
      BY <2>1, <3>1, ContentsAssumption
    <3> QED
      BY <2>3, <2>4, <3>2 DEF Before
  <2> QED
    BY <2>5, <2>6
<1>9. ASSUME NEW i \in parts, <<d, i>> \in DOMAIN f PROVE Has(t, Ref(kind, d, i, f[<<d, i>>]))
  <2>1. PICK j \in 1 .. n : h[j] = i
    BY <1>3, <1>4, <1>9
  <2> QED
    BY <1>5, <1>7, <2>1 DEF Has
<1>10. Tags(t, s)
  BY <1>2, <1>4, <1>5, <1>7, <1>8 DEF Tags
<1> QED
  BY <1>1, <1>5, <1>7, <1>9, <1>10

(* What u tags is all of document d that compaction copies. *)
GroupOf(u, d) ==
  /\ \A j \in 1 .. Len(u) : u[j].doc = d
  /\ Has(u, Ref("Doc", d, maps.docs[d].seq, maps.docs[d].loc))
  /\ \A i \in maps.docs[d].splits :
       <<d, i>> \in DOMAIN maps.splits => Has(u, Ref("Split", d, i, maps.splits[<<d, i>>]))
  /\ \A i \in OwnedSummaries(maps.docs[d]) :
       <<d, i>> \in DOMAIN maps.summaries => Has(u, Ref("Summary", d, i, maps.summaries[<<d, i>>]))

LEMMA GroupTags ==
  ASSUME maps \in AllMaps, NEW d \in DOMAIN maps.docs
  PROVE  \E u : Tags(u, CopyGroup(d)) /\ GroupOf(u, d)
<1>0. PICK e : e = maps.docs[d]
  OBVIOUS
<1>1. /\ maps.docs \in [DOMAIN maps.docs -> Entries] /\ DOMAIN maps.docs \subseteq Docs
      /\ maps.splits \in PartMaps /\ maps.summaries \in PartMaps
  BY DocMapFacts DEF AllMaps, FiniteDocs
<1>2. e.splits \in SUBSET Parts /\ OwnedSummaries(e) \in SUBSET Parts /\ e.loc \in Locs
  BY <1>0, <1>1 DEF Entries, OwnedSummaries
<1>3. /\ PartRefs("Split", maps.splits) \subseteq Refs(maps)
      /\ PartRefs("Summary", maps.summaries) \subseteq Refs(maps)
  BY DEF Refs
<1>4. PICK a, b : /\ a = PartLocs(maps.summaries, d, OwnedSummaries(e))
                  /\ b = PartLocs(maps.splits, d, e.splits)
  OBVIOUS
<1>5. PICK t : /\ Tags(t, a)
               /\ \A j \in 1 .. Len(t) : /\ t[j].kind = "Summary" /\ t[j].doc = d
                                         /\ t[j].mark \in Parts
               /\ \A i \in OwnedSummaries(e) : <<d, i>> \in DOMAIN maps.summaries =>
                    Has(t, Ref("Summary", d, i, maps.summaries[<<d, i>>]))
  BY <1>1, <1>2, <1>3, <1>4, PartTags
<1>6. PICK u : /\ Tags(u, b)
               /\ \A j \in 1 .. Len(u) : /\ u[j].kind = "Split" /\ u[j].doc = d
                                         /\ u[j].mark \in Parts
               /\ \A i \in e.splits : <<d, i>> \in DOMAIN maps.splits =>
                    Has(u, Ref("Split", d, i, maps.splits[<<d, i>>]))
  BY <1>1, <1>2, <1>3, <1>4, PartTags
<1>7. PICK x : x = Ref("Doc", d, e.seq, e.loc)
  OBVIOUS
<1>8. x \in Refs(maps) /\ x.loc = e.loc /\ x.kind = "Doc" /\ x.doc = d
  BY <1>0, <1>7 DEF Refs, DocRefs, Ref
<1>9. PICK w, c : w = <<x>> /\ c = <<e.loc>>
  OBVIOUS
<1>10. /\ w \in Seq(Refs(maps)) /\ c \in Seq(Locs) /\ Len(w) = 1 /\ Len(c) = 1
       /\ w[1] = x /\ c[1] = e.loc
  BY <1>2, <1>8, <1>9
<1>11. Tags(w, c) /\ Has(w, x)
  BY <1>8, <1>10 DEF Tags, Has
<1>12. /\ Len(t) \in Nat /\ t \in Seq(Refs(maps)) /\ a \in Seq(Locs) /\ Len(a) = Len(t)
       /\ Len(u) \in Nat /\ u \in Seq(Refs(maps)) /\ b \in Seq(Locs) /\ Len(b) = Len(u)
  BY <1>5, <1>6, LenProperties DEF Tags
<1>13. ASSUME NEW i \in 1 .. Len(t), NEW j \in 1 .. Len(u) PROVE Before(t[i], u[j])
  <2>1. PICK p, q : p = t[i] /\ q = u[j]
    OBVIOUS
  <2>2. /\ p.kind = "Summary" /\ p.doc = d /\ p.mark \in 1 .. MaxSplits
        /\ q.kind = "Split" /\ q.doc = d /\ q.mark \in 1 .. MaxSplits
    BY <1>5, <1>6, <2>1 DEF Parts
  <2>3. Rank(p) = p.mark /\ Rank(q) = MaxSplits + q.mark
    BY <2>2 DEF Rank
  <2>4. Rank(p) < Rank(q)
    BY <2>2, <2>3, ContentsAssumption
  <2> QED
    BY <2>1, <2>2, <2>4 DEF Before
<1>14. PICK v, s : v = t \o u /\ s = a \o b
  OBVIOUS
<1>15. Tags(v, s) /\ \A y : Has(v, y) <=> Has(t, y) \/ Has(u, y)
  BY <1>5, <1>6, <1>13, <1>14, TagsConcat
<1>16. ASSUME NEW i \in 1 .. Len(v) PROVE v[i].doc = d /\ Before(v[i], x)
  <2>1. PICK y : y = v[i]
    OBVIOUS
  <2>2. Has(t, y) \/ Has(u, y)
    <3>1. Has(v, y)
      BY <2>1 DEF Has
    <3> QED
      BY <1>15, <3>1
  <2>3. y.kind \in {"Summary", "Split"} /\ y.doc = d /\ y.mark \in 1 .. MaxSplits
    BY <1>5, <1>6, <2>2 DEF Has, Parts
  <2>4. Rank(y) \in Nat /\ Rank(y) <= 2 * MaxSplits
    <3>1. CASE y.kind = "Summary"
      <4>1. Rank(y) = y.mark
        BY <3>1 DEF Rank
      <4> QED
        BY <2>3, <4>1, ContentsAssumption
    <3>2. CASE y.kind = "Split"
      <4>1. Rank(y) = MaxSplits + y.mark
        BY <3>2 DEF Rank
      <4> QED
        BY <2>3, <4>1, ContentsAssumption
    <3> QED
      BY <2>3, <3>1, <3>2
  <2>5. Rank(x) = 2 * MaxSplits + 1
    BY <1>8 DEF Rank
  <2>6. Rank(y) < Rank(x)
    BY <2>4, <2>5, ContentsAssumption
  <2> QED
    BY <1>8, <2>1, <2>3, <2>6 DEF Before
<1>17. /\ Tags(v \o w, s \o c)
       /\ \A y : Has(v \o w, y) <=> Has(v, y) \/ Has(w, y)
  <2>1. \A i \in 1 .. Len(v), j \in 1 .. Len(w) : Before(v[i], w[j])
    BY <1>10, <1>16
  <2> QED
    BY <1>11, <1>15, <2>1, TagsConcat
<1>18. PICK z, g : z = v \o w /\ g = CopyGroup(d)
  OBVIOUS
<1>19. Tags(z, g)
  BY <1>0, <1>4, <1>9, <1>14, <1>17, <1>18 DEF CopyGroup
<1>20. \A j \in 1 .. Len(z) : z[j].doc = d
  <2>1. ASSUME NEW j \in 1 .. Len(z) PROVE z[j].doc = d
    <3>1. PICK y : y = z[j]
      OBVIOUS
    <3>2. Has(z, y)
      BY <3>1 DEF Has
    <3>3. Has(v, y) \/ Has(w, y)
      BY <1>17, <1>18, <3>2
    <3>4. y.doc = d
      BY <1>8, <1>10, <1>16, <3>3 DEF Has
    <3> QED
      BY <3>1, <3>4
  <2> QED
    BY <2>1
<1>21. GroupOf(z, d)
  <2>1. Has(z, x)
    BY <1>11, <1>17, <1>18
  <2>2. \A i \in e.splits :
          <<d, i>> \in DOMAIN maps.splits => Has(z, Ref("Split", d, i, maps.splits[<<d, i>>]))
    BY <1>6, <1>15, <1>17, <1>18
  <2>3. \A i \in OwnedSummaries(e) : <<d, i>> \in DOMAIN maps.summaries =>
          Has(z, Ref("Summary", d, i, maps.summaries[<<d, i>>]))
    BY <1>5, <1>15, <1>17, <1>18
  <2> QED
    BY <1>0, <1>7, <1>20, <2>1, <2>2, <2>3 DEF GroupOf
<1> QED
  BY <1>18, <1>19, <1>21

(* t tags the groups of the documents D, in order. *)
GroupsOf(t, D) ==
  /\ \A j \in 1 .. Len(t) : t[j].doc \in D
  /\ \A d \in D : \E u : GroupOf(u, d) /\ \A x : Has(u, x) => Has(t, x)

LEMMA CopyOrderTags ==
  ASSUME maps \in AllMaps
  PROVE  \E t : Tags(t, CopyOrder) /\ GroupsOf(t, CopiedDocs)
<1>1. PICK S, order : S = CopiedDocs /\ order = Ascending(CopiedDocs)
  OBVIOUS
<1>2. PICK N \in Nat : N = Len(order)
  BY <1>1, CopiedDocsTyped
<1>3. /\ \A i, j \in 1 .. N : i < j => order[i] < order[j]
      /\ \A x \in S : \E i \in 1 .. N : order[i] = x
      /\ \A i \in 1 .. N : order[i] \in S
  BY <1>1, <1>2, CopiedDocsTyped
<1>4. PICK all \in [0 .. N -> Seq(Locs)] : CopiesGroups(all) /\ CopyOrder = all[N]
  BY <1>1, <1>2, CopyOrderEquation
<1>5. /\ all[0] = <<>>
      /\ \A i \in 1 .. N : all[i] = all[i - 1] \o CopyGroup(order[i])
  BY <1>1, <1>2, <1>4 DEF CopiesGroups
<1> DEFINE D(i) == {order[j] : j \in 1 .. i}
           T == {i \in 0 .. N : \E t : Tags(t, all[i]) /\ GroupsOf(t, D(i))}
<1>6. 0 \in T
  <2>1. PICK t : t = <<>>
    OBVIOUS
  <2>2. t \in Seq(Refs(maps)) /\ Len(t) = 0 /\ <<>> \in Seq(Locs) /\ Len(<<>>) = 0
    BY <2>1
  <2>3. Tags(t, all[0])
    BY <1>5, <2>2 DEF Tags
  <2>4. D(0) = {}
    OBVIOUS
  <2>5. GroupsOf(t, D(0))
    <3> HIDE DEF D
    <3> QED
      BY <2>2, <2>4 DEF GroupsOf
  <2>6. 0 \in 0 .. N
    OBVIOUS
  <2> HIDE DEF D
  <2> QED
    BY <2>3, <2>5, <2>6
<1>7. ASSUME NEW i \in 1 .. N, i - 1 \in T PROVE i \in T
  <2>1. PICK t : Tags(t, all[i - 1]) /\ GroupsOf(t, D(i - 1))
    BY <1>7
  <2>2. PICK d : d = order[i]
    OBVIOUS
  <2>3. d \in DOMAIN maps.docs
    BY <1>1, <1>3, <2>2 DEF CopiedDocs
  <2>4. PICK u : Tags(u, CopyGroup(d)) /\ GroupOf(u, d)
    BY <2>3, GroupTags
  <2>5. ASSUME NEW p \in 1 .. Len(t), NEW q \in 1 .. Len(u) PROVE Before(t[p], u[q])
    <3>1. t[p].doc \in D(i - 1) /\ u[q].doc = d
      BY <2>1, <2>4 DEF GroupsOf, GroupOf
    <3>2. PICK j \in 1 .. i - 1 : t[p].doc = order[j]
      BY <3>1
    <3>3. t[p].doc < u[q].doc
      BY <1>3, <2>2, <3>1, <3>2
    <3> QED
      BY <3>3 DEF Before
  <2> HIDE DEF D
  <2>11. PICK a, g : a = all[i - 1] /\ g = CopyGroup(d)
    OBVIOUS
  <2>12. Tags(t, a) /\ Tags(u, g)
    BY <2>1, <2>4, <2>11
  <2>6. PICK v, s : v = t \o u /\ s = a \o g
    OBVIOUS
  <2>7. Tags(v, s) /\ \A x : Has(v, x) <=> Has(t, x) \/ Has(u, x)
    BY <2>5, <2>6, <2>12, TagsConcat
  <2>8. s = all[i]
    BY <1>5, <2>2, <2>6, <2>11
  <2>9. D(i) = D(i - 1) \cup {d}
    <3>1. 1 .. i = (1 .. i - 1) \cup {i}
      OBVIOUS
    <3> QED
      BY <2>2, <3>1 DEF D
  <2>10. GroupsOf(v, D(i))
    <3>1. ASSUME NEW j \in 1 .. Len(v) PROVE v[j].doc \in D(i)
      <4>1. PICK y : y = v[j]
        OBVIOUS
      <4>2. Has(t, y) \/ Has(u, y)
        <5>1. Has(v, y)
          BY <4>1 DEF Has
        <5> QED
          BY <2>7, <5>1
      <4>3. y.doc \in D(i - 1) \/ y.doc = d
        BY <2>1, <2>4, <4>2 DEF Has, GroupsOf, GroupOf
      <4> QED
        BY <2>9, <4>1, <4>3
    <3>2. ASSUME NEW e \in D(i)
          PROVE  \E w : GroupOf(w, e) /\ \A x : Has(w, x) => Has(v, x)
      <4>1. CASE e = d
        BY <2>4, <2>7, <4>1
      <4>2. CASE e \in D(i - 1)
        BY <2>1, <2>7, <4>2 DEF GroupsOf
      <4> QED
        BY <2>9, <4>1, <4>2
    <3> QED
      BY <3>1, <3>2 DEF GroupsOf
  <2> QED
    BY <2>7, <2>8, <2>10
<1>8. N \in T
  <2> HIDE DEF T
  <2> QED
    BY <1>6, <1>7, StepInduction
<1>9. D(N) = S
  BY <1>3
<1> HIDE DEF D
<1> QED
  BY <1>1, <1>4, <1>8, <1>9

LEMMA RefTyped ==
  ASSUME NEW mp \in AllMaps, NEW x \in Refs(mp)
  PROVE  /\ x.loc \in Locs /\ x.doc \in Docs /\ x.kind \in {"Doc", "Split", "Summary"}
         /\ x.kind # "Doc" => x.mark \in Parts
         /\ x.kind = "Doc" => x.doc \in DOMAIN mp.docs /\ x.loc = mp.docs[x.doc].loc
<1>1. /\ DOMAIN mp.docs \subseteq Docs /\ mp.docs \in [DOMAIN mp.docs -> Entries]
      /\ DOMAIN mp.splits \subseteq Docs \X Parts /\ mp.splits \in [DOMAIN mp.splits -> Locs]
      /\ DOMAIN mp.summaries \subseteq Docs \X Parts
      /\ mp.summaries \in [DOMAIN mp.summaries -> Locs]
  BY DocMapFacts, PartMapFacts DEF AllMaps, FiniteDocs
<1>2. CASE x \in DocRefs(mp.docs)
  <2>1. PICK d \in DOMAIN mp.docs : x = Ref("Doc", d, mp.docs[d].seq, mp.docs[d].loc)
    BY <1>2 DEF DocRefs
  <2>2. x.doc = d /\ x.kind = "Doc" /\ x.loc = mp.docs[d].loc
    BY <2>1 DEF Ref
  <2> QED
    BY <1>1, <2>2 DEF Entries
<1>3. ASSUME NEW kind \in {"Split", "Summary"}, NEW f, DOMAIN f \subseteq Docs \X Parts,
             f \in [DOMAIN f -> Locs], x \in PartRefs(kind, f)
      PROVE  x.loc \in Locs /\ x.doc \in Docs /\ x.kind = kind /\ x.mark \in Parts
  <2>1. PICK k \in DOMAIN f : x = Ref(kind, k[1], k[2], f[k])
    BY <1>3 DEF PartRefs
  <2>2. k[1] \in Docs /\ k[2] \in Parts /\ f[k] \in Locs
    BY <1>3
  <2> QED
    BY <2>1, <2>2 DEF Ref
<1> QED
  BY <1>1, <1>2, <1>3 DEF Refs

(* Compaction copies each record once, and none of the active segment. *)
LEMMA OrderApart ==
  ASSUME SegmentsSafe, LogInv, Up, References, \A i \in DOMAIN CopyOrder : Decodes(CopyOrder[i])
  PROVE  /\ \A i, j \in 1 .. Len(CopyOrder) : CopyOrder[i] = CopyOrder[j] => i = j
         /\ \A i \in 1 .. Len(CopyOrder) :
              CopyOrder[i].seg \in SealedIds(m) /\ CopyOrder[i].seg # active
<1>1. maps \in AllMaps /\ Resolve(files, maps, man.nextSegmentId) /\ Together(maps, active)
  BY DEF LogInv, MemoryTypes, References
<1>2. PICK t : Tags(t, CopyOrder) /\ GroupsOf(t, CopiedDocs)
  BY <1>1, CopyOrderTags
<1>3. PICK s : s = CopyOrder
  OBVIOUS
<1>4. PICK N \in Nat : N = Len(s)
  BY <1>2, <1>3, LenProperties DEF Tags
<1>5. /\ t \in Seq(Refs(maps)) /\ Len(t) = N /\ DOMAIN s = 1 .. N
      /\ \A i \in 1 .. N : t[i].loc = s[i]
      /\ \A i, j \in 1 .. N : i < j => Before(t[i], t[j])
      /\ \A i \in 1 .. N : t[i].doc \in CopiedDocs
      /\ \A i \in 1 .. N : t[i] \in Refs(maps)
  BY <1>2, <1>3, <1>4, LenProperties, ElementOfSeq DEF Tags, GroupsOf
<1>6. active \notin SealedIds(m)
  BY ActiveFacts
<1>7. ASSUME NEW i \in 1 .. N
      PROVE  /\ s[i].seg \in SealedIds(m) /\ s[i].seg # active
             /\ Meant(t[i], RecordAt(s[i]))
  <2>1. PICK x \in Refs(maps) : x = t[i]
    BY <1>5
  <2>2. x.loc = s[i] /\ x.doc \in CopiedDocs
    BY <1>5, <2>1
  <2>3. Decodes(s[i])
    BY <1>3, <1>5
  <2>4. s[i].seg \in SealedIds(m) \cup {active} /\ s[i].seg \in DOMAIN files
    BY <2>3 DEF Decodes
  <2>5. s[i].seg # active
    <3>1. x.doc \in DOMAIN maps.docs /\ maps.docs[x.doc].loc.seg \in SealedIds(m)
      BY <2>2 DEF CopiedDocs
    <3>2. CASE x.kind = "Doc"
      BY <1>1, <1>6, <2>2, <3>1, <3>2, RefTyped
    <3>3. CASE x.kind # "Doc"
      BY <1>1, <1>6, <2>2, <3>1, <3>3 DEF Together
    <3> QED
      BY <3>2, <3>3
  <2>6. Right(files, x)
    BY <1>1 DEF Resolve
  <2> QED
    BY <2>1, <2>2, <2>4, <2>5, <2>6 DEF Right, RecordAt
<1>8. ASSUME NEW i \in 1 .. N, NEW j \in 1 .. N, s[i] = s[j], i < j PROVE FALSE
  <2>1. PICK x \in Refs(maps), y \in Refs(maps) : x = t[i] /\ y = t[j]
    BY <1>5
  <2>2. Before(x, y)
    BY <1>5, <1>8, <2>1
  <2>3. PICK r : r = RecordAt(s[i])
    OBVIOUS
  <2>4. Meant(x, r) /\ Meant(y, r)
    BY <1>7, <1>8, <2>1, <2>3
  <2>5. x.kind = y.kind /\ x.doc = y.doc /\ x.doc \in Nat
    BY <1>1, <2>4, RefTyped, DocsAssumption DEF Meant
  <2>6. Rank(x) < Rank(y)
    BY <2>2, <2>5 DEF Before
  <2>7. Rank(x) = Rank(y)
    BY <2>4, <2>5 DEF Meant, Rank
  <2>8. Rank(x) \in Int
    <3>1. x.kind \in {"Doc", "Split", "Summary"} /\ (x.kind # "Doc" => x.mark \in 1 .. MaxSplits)
      BY <1>1, RefTyped DEF Parts
    <3>2. CASE x.kind = "Doc"
      <4>1. Rank(x) = 2 * MaxSplits + 1
        BY <3>2 DEF Rank
      <4> QED
        BY <4>1, ContentsAssumption
    <3>3. CASE x.kind = "Split"
      <4>1. Rank(x) = MaxSplits + x.mark
        BY <3>3 DEF Rank
      <4> QED
        BY <3>1, <3>3, <4>1, ContentsAssumption
    <3>4. CASE x.kind = "Summary"
      <4>1. Rank(x) = x.mark
        BY <3>4 DEF Rank
      <4> QED
        BY <3>1, <3>4, <4>1, ContentsAssumption
    <3> QED
      BY <3>1, <3>2, <3>3, <3>4
  <2> QED
    BY <2>6, <2>7, <2>8
<1>9. ASSUME NEW i \in 1 .. N, NEW j \in 1 .. N, s[i] = s[j] PROVE i = j
  <2>1. ~ (i < j) /\ ~ (j < i)
    BY <1>8, <1>9
  <2> QED
    BY <2>1
<1> QED
  BY <1>3, <1>4, <1>7, <1>9

-----------------------------------------------------------------------------
(* Replay of the whole log *)

(* A segment the snapshot covers adds nothing. *)
Covers(s, recs) ==
  s \in Nat /\ \A i \in 1 .. Len(recs) : ~ IsTorn(recs[i]) => recs[i].seq <= s

LEMMA ScanCovered ==
  ASSUME NEW mp \in AllMaps, NEW seg \in Nat, NEW recs \in Seq(LogRecords \cup {Torn}),
         NEW s, Covers(s, recs)
  PROVE  ScanSegment(mp, seg, recs, s) = mp
<1> DEFINE good == Decodable(recs)
           N == Len(good)
<1>1. good = Decodable(recs) /\ N = Len(good)
  OBVIOUS
<1>2. N \in Nat
  BY DecodableTyped, LenProperties
<1>3. PICK f \in [0 .. N -> Scans] :
        ScansFrom(f, mp, seg, good, s) /\ ScanSegment(mp, seg, recs, s) = f[N].maps
  BY ScanEquation, Zenon
<1> HIDE DEF good, N
<1>4. ASSUME NEW i \in 1 .. N PROVE ~ (good[i].seq > s)
  <2>1. /\ Len(good) = Decoded(recs) /\ good[i] = recs[i] /\ ~ IsTorn(recs[i])
        /\ i \in 1 .. Len(recs) /\ good \in Seq(LogRecords)
    BY <1>1, <1>2, DecodableTyped, DecodedFacts, LenProperties
  <2>2. good[i] \in LogRecords
    BY <1>1, <2>1, ElementOfSeq
  <2>3. good[i].seq \in Nat /\ good[i].seq <= s /\ s \in Nat
    BY <2>1, <2>2, RecordKinds DEF Covers
  <2> QED
    BY <2>3
<1> DEFINE T == {i \in 0 .. N : f[i].maps = mp}
<1>5. 0 \in T
  BY <1>2, <1>3 DEF ScansFrom
<1>6. ASSUME NEW i \in 1 .. N, i - 1 \in T PROVE i \in T
  <2>1. f[i] = f[i - 1] /\ i \in 0 .. N
    <3>1. ~ (good[i].seq > s) /\ i \in 0 .. N
      BY <1>2, <1>4
    <3> QED
      BY <1>1, <1>3, <3>1 DEF ScansFrom
  <2>2. f[i - 1].maps = mp
    BY <1>6
  <2> QED
    BY <2>1, <2>2
<1>7. N \in T
  <2> HIDE DEF T
  <2> QED
    BY <1>2, <1>5, <1>6, StepInduction
<1> QED
  BY <1>3, <1>7

(* What the maps an open starts from have to be like: they name no part in  *)
(* the active segment, or they cover all the sealed ones.                   *)
Startable(base) ==
  \/ NoParts(base.maps, man.active)
  \/ /\ Together(base.maps, man.active)
     /\ \A p \in SealedIds(man) : \A i \in Slots(files, p) : SeqAt(files, p, i) <= base.seq

LEMMA ReplayKeeps ==
  ASSUME DiskTypes, SegmentsSafe, man.active \in DOMAIN files, NEW base, base.maps \in AllMaps,
         base.seq \in Nat, Resolve(files, base.maps, man.nextSegmentId), Startable(base)
  PROVE  /\ Resolve(files, ReplayFrom(base), man.nextSegmentId)
         /\ Together(ReplayFrom(base), man.active)
<1>1. PICK N \in Nat : N = Len(man.sealed)
  BY NamedFiles
<1>2. PICK g \in [0 .. N -> AllMaps] :
        /\ ReplaysSealed(g, base)
        /\ ReplayFrom(base) = ScanSegment(g[N], man.active, files[man.active].recs, base.seq)
  BY <1>1, ReplayEquation
<1>3. PICK a, n, b, s : /\ a = man.active /\ n = man.nextSegmentId
                        /\ b = base.maps /\ s = base.seq
  OBVIOUS
<1>4. /\ a \in Nat /\ a < n /\ a \in DOMAIN files /\ s \in Nat
      /\ files[a].recs \in Seq(LogRecords \cup {Torn})
  BY <1>3 DEF SegmentsSafe, WellFormed, DiskTypes, FilesTyped, Segments
<1>5. ASSUME NEW i \in 1 .. N
      PROVE  \E id \in SealedIds(man) :
               /\ id \in Nat /\ id < n /\ id # a /\ id \in DOMAIN files
               /\ files[id].recs \in Seq(LogRecords \cup {Torn})
               /\ \/ g[i] = g[i - 1]
                  \/ g[i] = ScanSegment(g[i - 1], id, files[id].recs, s)
  <2>1. PICK id : id = man.sealed[i].id
    OBVIOUS
  <2>2. id \in SealedIds(man) /\ id \in Nat /\ files[id].recs \in Seq(LogRecords \cup {Torn})
    BY <1>1, <2>1, NamedFiles
  <2>3. id < n /\ id # a /\ id \in DOMAIN files
    BY <1>3, <2>2 DEF SegmentsSafe, WellFormed, Durable
  <2>4. g[i] = g[i - 1] \/ g[i] = ScanSegment(g[i - 1], id, files[id].recs, s)
    BY <1>1, <1>2, <1>3, <2>1 DEF ReplaysSealed
  <2> QED
    BY <2>2, <2>3, <2>4
<1>6. g[0] = b /\ b \in AllMaps /\ Resolve(files, b, n)
  BY <1>2, <1>3 DEF ReplaysSealed
<1>7. \A i \in 0 .. N : g[i] \in AllMaps
  BY <1>2
<1>8. Resolve(files, g[N], n) /\ Together(g[N], a)
  <2>1. CASE NoParts(b, a)
    <3> DEFINE T == {i \in 0 .. N : Resolve(files, g[i], n) /\ NoParts(g[i], a)}
    <3>1. 0 \in T
      BY <1>6, <2>1
    <3>2. ASSUME NEW i \in 1 .. N, i - 1 \in T PROVE i \in T
      <4>1. PICK mp \in AllMaps : mp = g[i - 1]
        BY <1>7
      <4>2. Resolve(files, mp, n) /\ NoParts(mp, a)
        BY <3>2, <4>1
      <4>3. PICK id \in SealedIds(man) :
               /\ id \in Nat /\ id < n /\ id # a /\ id \in DOMAIN files
               /\ files[id].recs \in Seq(LogRecords \cup {Torn})
               /\ g[i] = mp \/ g[i] = ScanSegment(mp, id, files[id].recs, s)
        BY <1>5, <4>1
      <4>4. PICK fs : fs = files
        OBVIOUS
      <4>5. Aside(mp, id, a)
        BY <4>2, <4>3 DEF Aside
      <4>6. /\ Resolve(fs, ScanSegment(mp, id, fs[id].recs, s), n)
            /\ Aside(ScanSegment(mp, id, fs[id].recs, s), id, a)
        BY <4>2, <4>3, <4>4, <4>5, ScanKeeps
      <4>7. Resolve(files, g[i], n) /\ NoParts(g[i], a)
        BY <4>2, <4>3, <4>4, <4>6 DEF Aside
      <4> QED
        BY <4>7
    <3>3. N \in T
      <4> HIDE DEF T
      <4> QED
        BY <3>1, <3>2, StepInduction
    <3> QED
      BY <3>3, NoPartsTogether
  <2>2. CASE /\ Together(b, a)
             /\ \A p \in SealedIds(man) : \A i \in Slots(files, p) : SeqAt(files, p, i) <= s
    <3> DEFINE T == {i \in 0 .. N : g[i] = b}
    <3>1. 0 \in T
      BY <1>6
    <3>2. ASSUME NEW i \in 1 .. N, i - 1 \in T PROVE i \in T
      <4>1. g[i - 1] = b /\ i \in 0 .. N
        BY <3>2
      <4>2. PICK id \in SealedIds(man) :
               /\ id \in Nat /\ files[id].recs \in Seq(LogRecords \cup {Torn})
               /\ g[i] = b \/ g[i] = ScanSegment(b, id, files[id].recs, s)
        BY <1>5, <4>1
      <4>4. PICK recs \in Seq(LogRecords \cup {Torn}) : recs = files[id].recs
        BY <4>2
      <4>3. Covers(s, recs)
        <5>1. DOMAIN recs = 1 .. Len(recs)
          BY LenProperties
        <5> QED
          BY <1>4, <2>2, <4>2, <4>4, <5>1 DEF Slots, SeqAt, Covers
      <4>5. ScanSegment(b, id, recs, s) = b
        <5>1. b \in AllMaps /\ id \in Nat
          BY <1>6, <4>2
        <5> QED
          BY <4>3, <5>1, ScanCovered, Zenon
      <4> QED
        BY <4>1, <4>2, <4>4, <4>5
    <3>3. N \in T
      <4> HIDE DEF T
      <4> QED
        BY <3>1, <3>2, StepInduction
    <3> QED
      BY <1>6, <2>2, <3>3
  <2> QED
    BY <1>3, <2>1, <2>2 DEF Startable
<1>9. PICK mp \in AllMaps : mp = g[N]
  BY <1>7
<1>10. PICK fs : fs = files
  OBVIOUS
<1>11. Aside(mp, a, a)
  BY <1>8, <1>9 DEF Aside
<1>12. /\ Resolve(fs, ScanSegment(mp, a, fs[a].recs, s), n)
       /\ Aside(ScanSegment(mp, a, fs[a].recs, s), a, a)
  BY <1>4, <1>8, <1>9, <1>10, <1>11, ScanKeeps
<1> QED
  BY <1>2, <1>3, <1>9, <1>10, <1>12 DEF Aside

(* The records an open keeps are the whole ones. *)
LEMMA WholeKept ==
  ASSUME NEW recs \in Seq(LogRecords \cup {Torn}), TornTailOnly(recs)
  PROVE  /\ DOMAIN Decodable(recs) = 1 .. Decoded(recs) /\ Decoded(recs) \in 0 .. Len(recs)
         /\ \A i \in DOMAIN recs : ~ IsTorn(recs[i]) <=> i \in 1 .. Decoded(recs)
         /\ \A i \in 1 .. Decoded(recs) : i \in DOMAIN recs /\ Decodable(recs)[i] = recs[i]
<1>1. PICK D, N \in Nat : D = Decoded(recs) /\ N = Len(recs)
  BY DecodedFacts, LenProperties
<1>2. /\ D \in 0 .. N /\ DOMAIN recs = 1 .. N
      /\ \A i \in 1 .. D : ~ IsTorn(recs[i])
      /\ D < N => IsTorn(recs[D + 1])
      /\ \A i \in 1 .. N - 1 : ~ IsTorn(recs[i])
  BY <1>1, DecodedFacts, LenProperties DEF TornTailOnly
<1>3. ASSUME NEW i \in 1 .. N, ~ IsTorn(recs[i]) PROVE i \in 1 .. D
  <2>1. SUFFICES ASSUME i > D PROVE FALSE
    BY <1>1
  <2>2. D < N /\ IsTorn(recs[D + 1]) /\ D + 1 \in 1 .. N
    BY <1>2, <2>1
  <2>3. D + 1 = N
    BY <1>2, <2>2
  <2> QED
    BY <1>3, <2>1, <2>2, <2>3
<1>4. /\ Decodable(recs) \in Seq(LogRecords) /\ Len(Decodable(recs)) = D
      /\ \A i \in 1 .. D : Decodable(recs)[i] = recs[i]
  BY <1>1, DecodableTyped
<1>5. DOMAIN Decodable(recs) = 1 .. D
  BY <1>4, LenProperties
<1> QED
  BY <1>1, <1>2, <1>3, <1>4, <1>5

LEMMA LastIsLargest ==
  ASSUME NEW recs \in Seq(LogRecords \cup {Torn}), TornTailOnly(recs),
         \A i, j \in DOMAIN recs :
           ~ IsTorn(recs[i]) /\ ~ IsTorn(recs[j]) /\ i < j => recs[i].seq < recs[j].seq,
         NEW i \in DOMAIN recs, ~ IsTorn(recs[i])
  PROVE  recs[i].seq <= LastSeq(recs)
<1>1. PICK D \in Nat : D = Decoded(recs)
  BY WholeKept, LenProperties
<1>2. PICK good : good = Decodable(recs)
  OBVIOUS
<1>3. /\ i \in 1 .. D /\ good \in Seq(LogRecords) /\ Len(good) = D
      /\ D \in DOMAIN recs /\ good[D] = recs[D] /\ ~ IsTorn(recs[D])
      /\ good[i] = recs[i]
  BY <1>1, <1>2, WholeKept, DecodableTyped
<1>4. good # <<>>
  BY <1>3
<1>5. LastSeq(recs) = recs[D].seq
  BY <1>2, <1>3, <1>4 DEF LastSeq
<1>6. good[D] \in LogRecords
  BY <1>3, ElementOfSeq
<1>7. recs[D].seq \in Nat
  BY <1>3, <1>6, RecordKinds
<1>8. CASE i = D
  BY <1>5, <1>7, <1>8
<1>9. CASE i < D
  <2>1. recs[i].seq < recs[D].seq
    BY <1>3, <1>9
  <2>2. good[i] \in LogRecords
    BY <1>3, ElementOfSeq
  <2>3. recs[i].seq \in Nat
    BY <1>3, <2>2, RecordKinds
  <2> QED
    BY <1>5, <1>7, <2>1, <2>3
<1> QED
  BY <1>3, <1>8, <1>9

(* ActiveSegment::truncate_to takes the torn tail and nothing else. *)
LEMMA TruncatedKeeps ==
  ASSUME NEW f \in Segments, TornTailOnly(f.recs), f.synced <= Len(f.recs)
  PROVE  /\ \A i \in DOMAIN f.recs : ~ IsTorn(f.recs[i]) =>
              /\ i \in DOMAIN Truncated(f).recs /\ Truncated(f).recs[i] = f.recs[i]
              /\ i <= f.synced => i <= Truncated(f).synced
         /\ \A i \in DOMAIN Truncated(f).recs :
              i \in DOMAIN f.recs /\ ~ IsTorn(f.recs[i]) /\ Truncated(f).recs[i] = f.recs[i]
         /\ f.synced = Len(f.recs) => Truncated(f).synced = Len(Truncated(f).recs)
<1>1. PICK recs \in Seq(LogRecords \cup {Torn}) : recs = f.recs
  BY DEF Segments
<1>2. PICK good : good = Decodable(recs)
  OBVIOUS
<1>3. PICK D, N, k \in Nat : D = Decoded(recs) /\ N = Len(recs) /\ k = f.synced
  BY <1>1, DecodedFacts, LenProperties DEF Segments
<1>4. /\ DOMAIN good = 1 .. D /\ D \in 0 .. N /\ Len(good) = D
      /\ \A i \in DOMAIN recs : ~ IsTorn(recs[i]) <=> i \in 1 .. D
      /\ \A i \in 1 .. D : i \in DOMAIN recs /\ good[i] = recs[i]
  BY <1>1, <1>2, <1>3, WholeKept, DecodableTyped
<1>5. PICK g : g = Truncated(f)
  OBVIOUS
<1>6. g.recs = good /\ g.synced = IF k > D THEN D ELSE k
  BY <1>1, <1>2, <1>3, <1>4, <1>5 DEF Truncated
<1>7. \A i \in 1 .. D : i <= k => i <= g.synced
  BY <1>6
<1>8. k <= N
  BY <1>1, <1>3
<1>9. k = N => g.synced = D
  BY <1>4, <1>6
<1> QED
  BY <1>1, <1>3, <1>4, <1>5, <1>6, <1>7, <1>9

-----------------------------------------------------------------------------
(* What append_document writes *)

LEMMA DocumentSpelled ==
  ASSUME NEW d \in Docs, NEW c \in Contents, NEW seq \in Nat \ {0}
  PROVE  Spells(DocumentRecords(d, c, seq), IF d \in DOMAIN maps.docs THEN 1 ELSE 0, d, c, seq)
<1> DEFINE replaces == d \in DOMAIN maps.docs
           k == IF replaces THEN 1 ELSE 0
           n == c.splits
           base == IF replaces THEN seq + 1 ELSE seq
           w == IF replaces THEN <<DeleteRecord(seq, d)>> ELSE <<>>
           x == [i \in 1 .. n |-> SummaryRecord(base + i - 1, d, i)]
           y == [i \in 1 .. n |-> SplitRecord(base + n + i - 1, d, i)]
           z == <<DocRecord(base + 2 * n, d, c)>>
           recs == DocumentRecords(d, c, seq)
           S == {DeleteRecord(seq, d), DocRecord(base + 2 * n, d, c)}
                  \cup {SummaryRecord(base + i - 1, d, i) : i \in 1 .. n}
                  \cup {SplitRecord(base + n + i - 1, d, i) : i \in 1 .. n}
<1>1. n \in Nat /\ k \in 0 .. 1 /\ base = seq + k
  BY ContentsAssumption
<1>2. w \in Seq(S) /\ Len(w) = k /\ (k = 1 => w[1] = DeleteRecord(seq, d))
  <2>1. DeleteRecord(seq, d) \in S
    OBVIOUS
  <2> HIDE DEF S
  <2> QED
    BY <2>1
<1>3. z \in Seq(S) /\ Len(z) = 1 /\ z[1] = DocRecord(base + 2 * n, d, c)
  <2>1. DocRecord(base + 2 * n, d, c) \in S
    OBVIOUS
  <2> HIDE DEF S
  <2> QED
    BY <2>1
<1>4. recs = w \o x \o y \o z
  BY DEF DocumentRecords
<1> HIDE DEF base, n
<1>5. x \in [1 .. n -> S] /\ \A i \in 1 .. n : x[i] = SummaryRecord(base + i - 1, d, i)
  OBVIOUS
<1>6. y \in [1 .. n -> S] /\ \A i \in 1 .. n : y[i] = SplitRecord(base + n + i - 1, d, i)
  OBVIOUS
<1> HIDE DEF S, w, x, y, z, recs
<1>7. x \in Seq(S) /\ Len(x) = n /\ y \in Seq(S) /\ Len(y) = n
  BY <1>1, <1>5, <1>6, FunctionIsSeq
<1>8. PICK a : a = w \o x
  OBVIOUS
<1>9. /\ a \in Seq(S) /\ Len(a) = Len(w) + Len(x)
      /\ \A i \in 1 .. Len(w) + Len(x) : a[i] = IF i <= Len(w) THEN w[i] ELSE x[i - Len(w)]
  <2>1. w \in Seq(S) /\ x \in Seq(S)
    BY <1>2, <1>7
  <2> QED
    BY <1>8, <2>1, ConcatProperties, Zenon
<1>10. PICK b : b = a \o y
  OBVIOUS
<1>11. /\ b \in Seq(S) /\ Len(b) = Len(a) + Len(y)
       /\ \A i \in 1 .. Len(a) + Len(y) : b[i] = IF i <= Len(a) THEN a[i] ELSE y[i - Len(a)]
  <2>1. a \in Seq(S) /\ y \in Seq(S)
    BY <1>7, <1>9
  <2> QED
    BY <1>10, <2>1, ConcatProperties, Zenon
<1>12. PICK r : r = b \o z
  OBVIOUS
<1>13. /\ r \in Seq(S) /\ Len(r) = Len(b) + Len(z)
       /\ \A i \in 1 .. Len(b) + Len(z) : r[i] = IF i <= Len(b) THEN b[i] ELSE z[i - Len(b)]
  <2>1. b \in Seq(S) /\ z \in Seq(S)
    BY <1>3, <1>11
  <2> QED
    BY <1>12, <2>1, ConcatProperties, Zenon
<1>14. Len(a) = k + n /\ Len(b) = k + n + n /\ Len(r) = k + n + n + 1
  <2> HIDE DEF k
  <2> QED
    BY <1>1, <1>2, <1>3, <1>7, <1>9, <1>11, <1>13
<1>15. PICK j \in 0 .. 1 : j = k
  BY <1>1
<1> HIDE DEF k
<1>16. /\ \A i \in 1 .. j + n : a[i] = IF i <= j THEN w[i] ELSE x[i - j]
       /\ \A i \in 1 .. j + n + n : b[i] = IF i <= j + n THEN a[i] ELSE y[i - (j + n)]
       /\ \A i \in 1 .. j + n + n + 1 :
            r[i] = IF i <= j + n + n THEN b[i] ELSE z[i - (j + n + n)]
  BY <1>2, <1>3, <1>7, <1>9, <1>11, <1>13, <1>14, <1>15
<1>17. ASSUME NEW i \in 1 .. n
       PROVE  /\ r[j + i] = SummaryRecord(base + i - 1, d, i)
              /\ r[j + n + i] = SplitRecord(base + n + i - 1, d, i)
  <2>1. /\ j + i \in 1 .. j + n /\ j + i \in 1 .. j + n + n /\ j + i \in 1 .. j + n + n + 1
        /\ j + i <= j + n /\ j + i <= j + n + n /\ ~ (j + i <= j) /\ (j + i) - j = i
    BY <1>1
  <2>2. r[j + i] = b[j + i] /\ b[j + i] = a[j + i] /\ a[j + i] = x[(j + i) - j]
    BY <1>16, <2>1
  <2>3. /\ j + n + i \in 1 .. j + n + n /\ j + n + i \in 1 .. j + n + n + 1
        /\ j + n + i <= j + n + n /\ ~ (j + n + i <= j + n) /\ (j + n + i) - (j + n) = i
    BY <1>1
  <2>4. r[j + n + i] = b[j + n + i] /\ b[j + n + i] = y[(j + n + i) - (j + n)]
    BY <1>16, <2>3
  <2> QED
    BY <1>5, <1>6, <2>1, <2>2, <2>3, <2>4
<1>18. r[j + n + n + 1] = DocRecord(base + 2 * n, d, c)
  <2>1. /\ j + n + n + 1 \in 1 .. j + n + n + 1 /\ ~ (j + n + n + 1 <= j + n + n)
        /\ (j + n + n + 1) - (j + n + n) = 1
    BY <1>1
  <2> QED
    BY <1>3, <1>16, <2>1
<1>19. j = 1 => r[1] = DeleteRecord(seq, d)
  <2>1. SUFFICES ASSUME j = 1 PROVE r[1] = DeleteRecord(seq, d)
    OBVIOUS
  <2>2. 1 \in 1 .. j + n /\ 1 \in 1 .. j + n + n /\ 1 \in 1 .. j + n + n + 1
        /\ 1 <= j /\ 1 <= j + n /\ 1 <= j + n + n
    BY <1>1, <2>1
  <2>3. r[1] = w[1]
    BY <1>16, <2>2
  <2> QED
    BY <1>2, <1>15, <2>1, <2>3
<1>20. recs = r
  BY <1>4, <1>8, <1>10, <1>12
<1>21. j + 2 * n + 1 = j + n + n + 1 /\ base = seq + j
  BY <1>1, <1>15
<1>22. Spells(r, j, d, c, seq)
  BY <1>14, <1>15, <1>17, <1>18, <1>19, <1>21 DEF Spells, n
<1> QED
  BY <1>15, <1>20, <1>22 DEF k, recs

LEMMA SpelledNumbers ==
  ASSUME NEW recs, NEW d, NEW c \in Contents, NEW seq \in Nat, NEW k \in 0 .. 1,
         Spells(recs, k, d, c, seq)
  PROVE  \A i \in 1 .. Len(recs) : recs[i].seq = seq + i - 1
<1>1. PICK n \in Nat : n = c.splits
  BY ContentsAssumption
<1>2. /\ Len(recs) = k + 2 * n + 1
      /\ \A i \in 1 .. n : /\ recs[k + i] = SummaryRecord(seq + k + i - 1, d, i)
                           /\ recs[k + n + i] = SplitRecord(seq + k + n + i - 1, d, i)
      /\ recs[k + 2 * n + 1] = DocRecord(seq + k + 2 * n, d, c)
      /\ k = 1 => recs[1] = DeleteRecord(seq, d)
  BY <1>1 DEF Spells
<1>3. ASSUME NEW i \in 1 .. Len(recs) PROVE recs[i].seq = seq + i - 1
  <2>1. i \in 1 .. k + 2 * n + 1
    BY <1>2
  <2>2. CASE i <= k
    <3>1. k = 1 /\ i = 1
      BY <2>1, <2>2
    <3>2. recs[i].seq = seq
      BY <1>2, <3>1 DEF DeleteRecord
    <3> QED
      BY <3>1, <3>2
  <2>3. CASE i > k /\ i <= k + n
    <3>1. PICK j \in 1 .. n : i = k + j
      <4>1. i - k \in 1 .. n /\ i = k + (i - k)
        BY <2>1, <2>3
      <4> QED
        BY <4>1
    <3>2. recs[i] = SummaryRecord(seq + k + j - 1, d, j)
      BY <1>2, <3>1
    <3>3. recs[i].seq = seq + k + j - 1
      BY <3>2 DEF SummaryRecord
    <3> QED
      BY <3>1, <3>3
  <2>4. CASE i > k + n /\ i <= k + 2 * n
    <3>1. PICK j \in 1 .. n : i = k + n + j
      <4>1. i - (k + n) \in 1 .. n /\ i = k + n + (i - (k + n))
        BY <2>1, <2>4
      <4> QED
        BY <4>1
    <3>2. recs[i] = SplitRecord(seq + k + n + j - 1, d, j)
      BY <1>2, <3>1
    <3>3. recs[i].seq = seq + k + n + j - 1
      BY <3>2 DEF SplitRecord
    <3> QED
      BY <3>1, <3>3
  <2>5. CASE i = k + 2 * n + 1
    <3>1. recs[i].seq = seq + k + 2 * n
      BY <1>2, <2>5 DEF DocRecord
    <3> QED
      BY <2>5, <3>1
  <2> QED
    BY <2>1, <2>2, <2>3, <2>4, <2>5
<1> QED
  BY <1>3

-----------------------------------------------------------------------------
(* Steps that write no record *)

Compacting == {"compactUnsnap", "compactPublish", "compactRemove"}

(* Where the records are, and what numbers they have. *)
LEMMA SlotsTyped ==
  ASSUME SegmentsSafe, LogInv
  PROVE  /\ \A p \in DOMAIN files : \A i \in Slots(files, p) :
              SeqAt(files, p, i) \in Nat /\ i \in 1 .. Len(files[p].recs) /\ i \in Nat
         /\ SealedIds(man) \subseteq DOMAIN files /\ SealedIds(m) \subseteq DOMAIN files
         /\ m.nextSeq \in Nat /\ Len(buf) \in Nat /\ FirstFree \in Int /\ man.nextSeq \in Nat
         /\ man.nextSegmentId \in Nat /\ m.nextSegmentId \in Nat
<1>1. FilesTyped
  BY DEF LogInv, DiskTypes
<1>2. m.nextSeq \in Nat /\ Len(buf) \in Nat /\ man.nextSeq \in Nat
  BY LenProperties DEF LogInv, MemoryTypes, DiskTypes, Counters
<1>3. FirstFree \in Int
  BY <1>2 DEF FirstFree
<1>4. SealedIds(man) \subseteq DOMAIN files /\ SealedIds(m) \subseteq DOMAIN files
  BY DEF SegmentsSafe, Durable
<1>5. man.nextSegmentId \in Nat /\ m.nextSegmentId \in Nat
  BY DEF SegmentsSafe, WellFormed
<1> QED
  BY <1>1, <1>2, <1>3, <1>4, <1>5, SlotTyped

(* Numbers where the records stay. *)
LEMMA NumberedSame ==
  ASSUME SegmentsSafe, LogInv, NEW ids \in SUBSET DOMAIN files, NEW jds \in SUBSET ids,
         NEW a, NEW n \in Int, NEW k \in Int, n <= k, Numbered(files, ids, a, n),
         \A id \in jds \cup {a} : files'[id].recs = files[id].recs
  PROVE  Numbered(files', jds, a, k)
<1>1. PICK gs : gs = files'
  OBVIOUS
<1>2. PICK fs : fs = files
  OBVIOUS
<1>3. \A id \in jds \cup {a} : gs[id].recs = fs[id].recs
  BY <1>1, <1>2
<1>4. \A id \in jds \cup {a} : Within(gs, fs, id)
  BY <1>3, SameWithin
<1>5. \A p \in jds : \A i \in Slots(fs, p) : SeqAt(fs, p, i) \in Nat
  BY <1>2, SlotsTyped
<1>6. Numbered(fs, ids, a, n)
  BY <1>2
<1>7. Numbered(gs, jds, a, k)
  BY <1>4, <1>5, <1>6, NumberedWithin
<1> QED
  BY <1>1, <1>7

LEMMA QuietNumbering ==
  ASSUME SegmentsSafe, LogInv, SeqInv, Up, man' = man, active' = active,
         SealedIds(m') = SealedIds(m), FirstFree' = FirstFree,
         \A i \in 1 .. Len(buf') : buf'[i].seq = FirstFree + i - 1,
         \A id \in SealedIds(man) \cup SealedIds(m) \cup {active, man.active} :
           files'[id].recs = files[id].recs
  PROVE  Numbering'
<1>1. PICK sm, sn, a, b, n, k : /\ sm = SealedIds(m) /\ sn = SealedIds(man) /\ a = active
                                /\ b = man.active /\ n = man.nextSeq /\ k = FirstFree
  OBVIOUS
<1>2. /\ sm \in SUBSET DOMAIN files /\ sn \in SUBSET DOMAIN files /\ n \in Int /\ k \in Int
      /\ n <= n /\ k <= k
  BY <1>1, SlotsTyped
<1>3. /\ Numbered(files, sn, b, n) /\ Numbered(files, sm, a, k) /\ n <= k
      /\ \A i \in Slots(files, a) : SeqAt(files, a, i) < k
  BY <1>1 DEF SeqInv, Numbering
<1>4. \A id \in sn \cup {b} : files'[id].recs = files[id].recs
  BY <1>1
<1>5. \A id \in sm \cup {a} : files'[id].recs = files[id].recs
  BY <1>1
<1>6. Numbered(files', sn, b, n)
  BY <1>2, <1>3, <1>4, NumberedSame
<1>7. Numbered(files', sm, a, k)
  BY <1>2, <1>3, <1>5, NumberedSame
<1>8. \A i \in Slots(files', a) : SeqAt(files', a, i) < k
  BY <1>3, <1>5 DEF Slots, SeqAt
<1>9. SealedIds(man') = sn /\ man'.active = b /\ man'.nextSeq = n
  BY <1>1
<1> QED
  BY <1>1, <1>3, <1>6, <1>7, <1>8, <1>9 DEF Numbering

LEMMA QuietReferences ==
  ASSUME SegmentsSafe, LogInv, SeqInv, Up, man' = man, active' = active, maps' = maps,
         snap' = snap, Grows(files, files', man.nextSegmentId),
         Keeps(files, files', man.nextSegmentId)
  PROVE  References'
<1>1. PICK fs, gs, n : fs = files /\ gs = files' /\ n = man.nextSegmentId
  OBVIOUS
<1>2. Resolve(gs, maps, n)
  <2>1. Resolve(fs, maps, n) /\ Grows(fs, gs, n)
    BY <1>1 DEF SeqInv, References
  <2> QED
    BY <2>1, ResolveGrows
<1>3. snap.exists => Resolve(gs, snap.maps, n) /\ OnDevice(gs, snap.maps, snap.seq)
  <2>1. SUFFICES ASSUME snap.exists
                 PROVE  Resolve(gs, snap.maps, n) /\ OnDevice(gs, snap.maps, snap.seq)
    OBVIOUS
  <2>2. Resolve(fs, snap.maps, n) /\ OnDevice(fs, snap.maps, snap.seq) /\ Keeps(fs, gs, n)
    BY <1>1, <2>1 DEF SeqInv, References
  <2> QED
    BY <2>2, DeviceKeeps
<1>4. /\ Together(maps, active) /\ Together(maps, man.active)
      /\ snap.exists => Together(snap.maps, active) /\ Together(snap.maps, man.active)
  BY DEF SeqInv, References
<1> QED
  BY <1>1, <1>2, <1>3, <1>4 DEF References

LEMMA FilesGrow ==
  ASSUME NEW n, files' = files
  PROVE  Grows(files, files', n) /\ Keeps(files, files', n)
  BY DEF Grows, Keeps

LEMMA SyncGrows ==
  ASSUME SegmentsSafe, LogInv, Up, files' = [files EXCEPT ![active] = Synced(@)], NEW n
  PROVE  /\ Grows(files, files', n) /\ Keeps(files, files', n) /\ OnlySegment(active)
         /\ files'[active].recs = files[active].recs
         /\ files'[active].synced = Len(files'[active].recs)
         /\ \A id \in DOMAIN files : files'[id].recs = files[id].recs
<1>1. OnlySegment(active) /\ active \in DOMAIN files
  BY SyncOnly, ActiveFacts
<1>2. PICK f, g : f = files[active] /\ g = files'[active]
  OBVIOUS
<1>3. g = Synced(f)
  BY <1>1, <1>2
<1>4. g.recs = f.recs /\ g.synced = Len(f.recs)
  BY <1>3 DEF Synced
<1>5. Len(f.recs) \in Nat /\ DOMAIN f.recs = 1 .. Len(f.recs)
  BY <1>2, ActiveFacts, LenProperties
<1>6. \A id \in DOMAIN files : files'[id].recs = files[id].recs
  BY <1>1, <1>2, <1>4 DEF OnlySegment
<1>7. \A id \in DOMAIN files : id # active => files'[id] = files[id]
  BY <1>1 DEF OnlySegment
<1>8. \A i \in DOMAIN f.recs : i <= g.synced
  BY <1>4, <1>5
<1>9. DOMAIN files' = DOMAIN files
  BY <1>1 DEF OnlySegment
<1>10. Keeps(files, files', n)
  <2>1. ASSUME NEW id \in DOMAIN files, NEW i \in DOMAIN files[id].recs, i <= files[id].synced
        PROVE  i <= files'[id].synced
    BY <1>2, <1>7, <1>8, <2>1
  <2> QED
    BY <1>6, <1>9, <2>1 DEF Keeps
<1> QED
  BY <1>1, <1>2, <1>4, <1>6, <1>9, <1>10 DEF Grows

LEMMA QuietPlaced ==
  ASSUME SegmentsSafe, LogInv, SeqInv, man' = man, active' = active, OnlySegment(active),
         SealedIds(m') = SealedIds(m), man.nextSegmentId <= m'.nextSegmentId,
         op.step \notin Compacting \cup {"down", "sealPublish"}, op'.step # "sealPublish"
  PROVE  Placed'
<1>1. /\ man.active \in DOMAIN files /\ man.active = active
      /\ \A id \in DOMAIN files : id = active \/ files[id].synced = Len(files[id].recs)
      /\ DOMAIN files \subseteq SealedIds(m) \cup {active}
  BY DEF SeqInv, Placed, Compacting
<1>2. /\ DOMAIN files' = DOMAIN files
      /\ \A id \in DOMAIN files : id # active => files'[id] = files[id]
  BY DEF OnlySegment
<1>3. \A id \in DOMAIN files' : id = active \/ files'[id].synced = Len(files'[id].recs)
  BY <1>1, <1>2
<1> QED
  BY <1>1, <1>2, <1>3 DEF Placed

(* The invariant, from its parts. *)
LEMMA NotCompacting ==
  ASSUME Placed', Numbering', References', op'.step \notin {"compactUnsnap", "compactPublish"},
         Written'
  PROVE  SeqInv'
  BY DEF SeqInv, Copied

(* A step in memory: the buffer and the counters. *)
LEMMA InMemory ==
  ASSUME SegmentsSafe, LogInv, SeqInv, Up, files' = files, man' = man, snap' = snap,
         active' = active, maps' = maps, SealedIds(m') = SealedIds(m),
         man.nextSegmentId <= m'.nextSegmentId, FirstFree' = FirstFree,
         \A i \in 1 .. Len(buf') : buf'[i].seq = FirstFree + i - 1,
         op.step \notin Compacting \cup {"sealPublish"},
         op'.step \notin Compacting \cup {"sealPublish"}, Written'
  PROVE  SeqInv'
<1>1. Numbering'
  BY QuietNumbering
<1>2. References'
  BY FilesGrow, QuietReferences
<1>3. Placed'
  <2>1. OnlySegment(active) /\ op.step # "down"
    BY FilesUnchanged DEF Up
  <2> QED
    BY <2>1, QuietPlaced
<1> QED
  BY <1>1, <1>2, <1>3, NotCompacting DEF Compacting

LEMMA AppendDocumentSeqs ==
  ASSUME SegmentsSafe, LogInv, SeqInv, NEW d \in Docs, NEW c \in Contents, AppendDocument(d, c)
  PROVE  SeqInv'
<1>0. PICK recs : recs = DocumentRecords(d, c, m.nextSeq)
  OBVIOUS
<1>1. /\ op.step = "idle" /\ files' = files /\ man' = man /\ snap' = snap /\ active' = active
      /\ maps' = maps /\ buf' = recs
      /\ m' = [m EXCEPT !.nextSeq = @ + Len(recs)]
      /\ op' = [step |-> "insert", doc |-> d, content |-> c, rewindSeq |-> m.nextSeq]
  BY <1>0 DEF AppendDocument, disk
<1>2. PICK s \in Nat \ {0} : s = m.nextSeq
  BY DEF LogInv, MemoryTypes, Counters
<1>3. PICK k \in 0 .. 1 : Spells(recs, k, d, c, s)
  <2>1. (IF d \in DOMAIN maps.docs THEN 1 ELSE 0) \in 0 .. 1
    OBVIOUS
  <2> QED
    BY <1>0, <1>2, <2>1, DocumentSpelled
<1>4. PICK n \in Nat : n = Len(recs)
  BY <1>0, <1>2, DocumentRecordsTyped
<1>5. \A i \in 1 .. n : recs[i].seq = s + i - 1
  BY <1>3, <1>4, SpelledNumbers
<1>6. FirstFree = s /\ Up /\ buf = <<>>
  BY <1>1, <1>2 DEF FirstFree, LogInv, OpTypes, Up
<1>7. SameSegments /\ m'.nextSeq = m.nextSeq + n
  <2>1. m = [f \in ManifestFields |-> m[f]] /\ m' = [m EXCEPT !.nextSeq = @ + n]
    BY <1>1, <1>4 DEF SegmentsSafe, WellFormed
  <2> QED
    BY <2>1, Zenon DEF SameSegments, ManifestFields
<1>8. FirstFree' = s
  BY <1>1, <1>2, <1>4, <1>7 DEF FirstFree
<1>9. SealedIds(m') = SealedIds(m) /\ man.nextSegmentId <= m'.nextSegmentId
  BY <1>7 DEF SameSegments, SealedIds, SeqInv, Placed
<1>10. op'.step = "insert" /\ op'.doc = d /\ op'.content = c /\ op'.rewindSeq = s
  BY <1>1, <1>2
<1>11. Written'
  BY <1>1, <1>3, <1>8, <1>10 DEF Written
<1> QED
  BY <1>1, <1>4, <1>5, <1>6, <1>8, <1>9, <1>10, <1>11, InMemory DEF Compacting

LEMMA InsertRewindSeqs ==
  ASSUME SegmentsSafe, LogInv, SeqInv, InsertRewind
  PROVE  SeqInv'
<1>1. /\ op.step = "insert" /\ files' = files /\ man' = man /\ snap' = snap
      /\ active' = active /\ maps' = maps
      /\ buf' = <<>> /\ op' = At("idle") /\ m' = [m EXCEPT !.nextSeq = op.rewindSeq]
  BY DEF InsertRewind, disk
<1>2. Up /\ op'.step = "idle"
  BY <1>1 DEF Up, At
<1>3. op.rewindSeq = FirstFree /\ FirstFree \in Int
  BY <1>1, SlotsTyped DEF SeqInv, Written
<1>4. SameSegments /\ m'.nextSeq = op.rewindSeq
  <2>1. m = [f \in ManifestFields |-> m[f]]
    BY DEF SegmentsSafe, WellFormed
  <2> QED
    BY <1>1, <2>1, Zenon DEF SameSegments, ManifestFields
<1>5. Len(buf') = 0
  BY <1>1
<1>6. FirstFree' = FirstFree
  BY <1>3, <1>4, <1>5 DEF FirstFree
<1>7. SealedIds(m') = SealedIds(m) /\ man.nextSegmentId <= m'.nextSegmentId
  BY <1>4 DEF SameSegments, SealedIds, SeqInv, Placed
<1>8. Written'
  BY <1>2 DEF Written
<1> QED
  BY <1>1, <1>2, <1>5, <1>6, <1>7, <1>8, InMemory DEF Compacting

LEMMA AppendDeleteSeqs ==
  ASSUME SegmentsSafe, LogInv, SeqInv, NEW d \in Docs, AppendDelete(d)
  PROVE  SeqInv'
<1>1. /\ op.step = "idle" /\ files' = files /\ man' = man /\ snap' = snap /\ active' = active
      /\ maps' = maps /\ buf' = <<DeleteRecord(m.nextSeq, d)>>
      /\ m' = [m EXCEPT !.nextSeq = @ + 1] /\ op' = [step |-> "delete", doc |-> d]
  BY DEF AppendDelete, disk
<1>2. PICK s \in Nat : s = m.nextSeq
  BY SlotsTyped
<1>3. FirstFree = s /\ Up /\ buf = <<>>
  BY <1>1, <1>2 DEF FirstFree, LogInv, OpTypes, Up
<1>4. SameSegments /\ m'.nextSeq = m.nextSeq + 1
  <2>1. m = [f \in ManifestFields |-> m[f]]
    BY DEF SegmentsSafe, WellFormed
  <2> QED
    BY <1>1, <2>1, Zenon DEF SameSegments, ManifestFields
<1>5. Len(buf') = 1 /\ buf'[1].seq = s
  BY <1>1, <1>2 DEF DeleteRecord
<1>6. FirstFree' = s
  BY <1>2, <1>4, <1>5 DEF FirstFree
<1>7. SealedIds(m') = SealedIds(m) /\ man.nextSegmentId <= m'.nextSegmentId
  BY <1>4 DEF SameSegments, SealedIds, SeqInv, Placed
<1>8. op'.step = "delete"
  BY <1>1
<1>9. Written'
  BY <1>8 DEF Written
<1>10. \A i \in 1 .. Len(buf') : buf'[i].seq = FirstFree + i - 1
  BY <1>3, <1>5
<1> QED
  BY <1>1, <1>3, <1>6, <1>7, <1>8, <1>9, <1>10, InMemory DEF Compacting

LEMMA CompactFailsSeqs ==
  ASSUME SegmentsSafe, LogInv, SeqInv, CompactFails
  PROVE  SeqInv'
<1>1. /\ op.step = "idle" /\ files' = files /\ man' = man /\ snap' = snap /\ active' = active
      /\ maps' = maps /\ buf' = buf /\ op' = op
      /\ m' = [m EXCEPT !.nextSegmentId = @ + 1]
  BY DEF CompactFails, disk
<1>2. /\ m'.sealed = m.sealed /\ m'.nextSeq = m.nextSeq
      /\ m'.nextSegmentId = m.nextSegmentId + 1
  <2>1. m = [f \in ManifestFields |-> m[f]]
    BY DEF SegmentsSafe, WellFormed
  <2> QED
    BY <1>1, <2>1, Zenon DEF ManifestFields
<1>3. Up /\ buf = <<>>
  BY <1>1 DEF LogInv, OpTypes, Up
<1>4. man.nextSegmentId <= m'.nextSegmentId
  <2>1. man.nextSegmentId <= m.nextSegmentId
    BY DEF SeqInv, Placed
  <2> QED
    BY <1>2, <2>1, SlotsTyped
<1>5. SealedIds(m') = SealedIds(m) /\ FirstFree' = FirstFree
  BY <1>1, <1>2 DEF SealedIds, FirstFree
<1>6. \A i \in 1 .. Len(buf') : buf'[i].seq = FirstFree + i - 1
  BY <1>1, <1>3 DEF SeqInv, Numbering
<1>7. Written'
  BY <1>1 DEF Written
<1> QED
  BY <1>1, <1>3, <1>4, <1>5, <1>6, <1>7, InMemory DEF Compacting

LEMMA FsyncSeqs ==
  ASSUME SegmentsSafe, LogInv, SeqInv, Fsync
  PROVE  SeqInv'
<1>1. /\ op.step = "idle" /\ man' = man /\ snap' = snap /\ active' = active /\ m' = m
      /\ maps' = maps /\ buf' = buf /\ op' = op
      /\ files' = [files EXCEPT ![active] = Synced(@)]
  BY DEF Fsync, memory
<1>2. Up
  BY <1>1 DEF Up
<1>3. /\ Grows(files, files', man.nextSegmentId) /\ Keeps(files, files', man.nextSegmentId)
      /\ OnlySegment(active) /\ \A id \in DOMAIN files : files'[id].recs = files[id].recs
  BY <1>1, <1>2, SyncGrows
<1>4. /\ SealedIds(man) \cup SealedIds(m) \cup {active, man.active} \subseteq DOMAIN files
      /\ man.nextSegmentId <= m.nextSegmentId
  BY <1>2, SlotsTyped, ActiveFacts DEF SeqInv, Placed
<1>5. Numbering'
  <2>1. \A i \in 1 .. Len(buf) : buf[i].seq = FirstFree + i - 1
    BY <1>2 DEF SeqInv, Numbering
  <2>2. FirstFree' = FirstFree
    BY <1>1 DEF FirstFree
  <2> QED
    BY <1>1, <1>2, <1>3, <1>4, <2>1, <2>2, QuietNumbering
<1>6. References'
  BY <1>1, <1>2, <1>3, QuietReferences
<1>7. Placed'
  BY <1>1, <1>3, <1>4, QuietPlaced DEF Compacting
<1>8. Written'
  BY <1>1 DEF Written
<1> QED
  BY <1>1, <1>5, <1>6, <1>7, <1>8, NotCompacting

(* Every record of an open log is below the first free number. *)
LEMMA BelowFree ==
  ASSUME SeqInv, Up
  PROVE  \A p \in SealedIds(m) \cup {active} : \A i \in Slots(files, p) :
           SeqAt(files, p, i) < FirstFree
  BY DEF SeqInv, Numbering, Numbered

LEMMA SnapshotWriteSeqs ==
  ASSUME SegmentsSafe, LogInv, SeqInv, SnapshotWrite
  PROVE  SeqInv'
<1>1. /\ op.step \in {"idle", "snapshot"} /\ man' = man /\ active' = active /\ m' = m
      /\ maps' = maps /\ buf' = buf /\ op' = At("snapshotPublish")
      /\ snap' = [exists |-> TRUE, seq |-> SnapshotSeq, maps |-> maps]
      /\ files' = [files EXCEPT ![active] = Synced(@)]
  BY DEF SnapshotWrite, memory
<1>2. Up /\ op'.step = "snapshotPublish" /\ buf = <<>>
  BY <1>1 DEF Up, At, LogInv, OpTypes
<1>3. /\ Grows(files, files', man.nextSegmentId)
      /\ OnlySegment(active) /\ \A id \in DOMAIN files : files'[id].recs = files[id].recs
      /\ files'[active].synced = Len(files'[active].recs)
  BY <1>1, <1>2, SyncGrows
<1>4. /\ SealedIds(man) \cup SealedIds(m) \cup {active, man.active} \subseteq DOMAIN files
      /\ man.nextSegmentId <= m.nextSegmentId
  BY <1>2, SlotsTyped, ActiveFacts DEF SeqInv, Placed
<1>5. Numbering'
  <2>1. \A i \in 1 .. Len(buf) : buf[i].seq = FirstFree + i - 1
    BY <1>2 DEF SeqInv, Numbering
  <2>2. FirstFree' = FirstFree
    BY <1>1 DEF FirstFree
  <2> QED
    BY <1>1, <1>2, <1>3, <1>4, <2>1, <2>2, QuietNumbering
<1>6. Placed'
  BY <1>1, <1>2, <1>3, <1>4, QuietPlaced DEF Compacting
<1>7. PICK gs, n, mp, s : gs = files' /\ n = man.nextSegmentId /\ mp = maps /\ s = SnapshotSeq
  OBVIOUS
<1>8. Resolve(gs, mp, n)
  <2>1. PICK fs : fs = files
    OBVIOUS
  <2>2. Resolve(fs, mp, n) /\ Grows(fs, gs, n)
    BY <1>2, <1>3, <1>7, <2>1 DEF SeqInv, References
  <2> QED
    BY <2>2, ResolveGrows
<1>9. Together(mp, active) /\ Together(mp, man.active)
  BY <1>2, <1>7 DEF SeqInv, References
<1>10. OnDevice(gs, mp, s)
  <2>1. ASSUME NEW x \in Refs(mp), x.loc.seg \in DOMAIN gs
        PROVE  /\ x.loc.off <= gs[x.loc.seg].synced
               /\ gs[x.loc.seg].recs[x.loc.off].seq <= s
    <3>1. PICK p, i : p = x.loc.seg /\ i = x.loc.off
      OBVIOUS
    <3>2. i \in DOMAIN gs[p].recs /\ Meant(x, gs[p].recs[i])
      BY <1>8, <2>1, <3>1 DEF Resolve, Right
    <3>3. p \in DOMAIN files /\ gs[p].recs = files[p].recs
      BY <1>3, <1>7, <2>1, <3>1 DEF OnlySegment
    <3>4. i \in Slots(files, p)
      BY <3>2, <3>3, MeantWhole DEF Slots
    <3>5. i \in 1 .. Len(files[p].recs) /\ SeqAt(files, p, i) \in Nat
      BY <3>3, <3>4, SlotsTyped
    <3>6. gs[p].synced = Len(files[p].recs)
      <4>1. CASE p = active
        BY <1>3, <1>7, <3>3, <4>1
      <4>2. CASE p # active
        BY <1>3, <1>7, <3>3, <4>2 DEF OnlySegment, SeqInv, Placed
      <4> QED
        BY <4>1, <4>2
    <3>7. p \in SealedIds(m) \cup {active}
      BY <1>1, <3>3 DEF SeqInv, Placed
    <3>8. SeqAt(files, p, i) < FirstFree
      BY <1>2, <3>4, <3>7, BelowFree
    <3>9. FirstFree = m.nextSeq /\ s = m.nextSeq - 1 /\ m.nextSeq \in Nat
      BY <1>2, <1>7, SlotsTyped DEF FirstFree, SnapshotSeq
    <3>10. PICK q : q = SeqAt(files, p, i)
      OBVIOUS
    <3>11. q <= s
      BY <3>5, <3>8, <3>9, <3>10
    <3>12. gs[p].recs[i].seq <= s
      BY <3>3, <3>10, <3>11 DEF SeqAt
    <3> QED
      BY <3>1, <3>5, <3>6, <3>12
  <2> QED
    BY <2>1 DEF OnDevice
<1>11. References'
  <2>1. snap'.maps = mp /\ snap'.seq = s
    BY <1>1, <1>7
  <2> QED
    BY <1>1, <1>7, <1>8, <1>9, <1>10, <2>1 DEF References
<1>12. Written'
  BY <1>2 DEF Written
<1> QED
  BY <1>2, <1>5, <1>6, <1>11, <1>12, NotCompacting

(* A manifest is stored: what it names becomes what the disk names. *)
LEMMA PublishedSeqs ==
  ASSUME SegmentsSafe, LogInv, SeqInv, Up, files' = files, active' = active, buf' = buf,
         buf = <<>>, SealedIds(man') = SealedIds(m), SealedIds(m') = SealedIds(m),
         man'.active = active, man'.nextSeq = m.nextSeq, m'.nextSeq = m.nextSeq
  PROVE  Numbering'
<1>1. PICK sm, a, k : sm = SealedIds(m) /\ a = active /\ k = FirstFree
  OBVIOUS
<1>2. /\ Numbered(files, sm, a, k) /\ \A i \in Slots(files, a) : SeqAt(files, a, i) < k
  BY <1>1 DEF SeqInv, Numbering
<1>3. k = m.nextSeq /\ k \in Int
  BY <1>1, SlotsTyped DEF FirstFree
<1>4. FirstFree' = k /\ Len(buf') = 0
  BY <1>3, SlotsTyped DEF FirstFree
<1>5. k <= k
  BY <1>3
<1> QED
  BY <1>1, <1>2, <1>3, <1>4, <1>5 DEF Numbering

LEMMA PublishedReferences ==
  ASSUME SegmentsSafe, LogInv, SeqInv, Up, files' = files, active' = active, maps' = maps,
         snap' = snap, man'.active = active, man'.nextSegmentId = m.nextSegmentId
  PROVE  References'
<1>0. PICK fs : fs = files
  OBVIOUS
<1>1. PICK n, k \in Nat : n = man.nextSegmentId /\ k = m.nextSegmentId
  BY SlotsTyped
<1>2. n <= k
  BY <1>1 DEF SeqInv, Placed
<1>3. Resolve(fs, maps, n) /\ Together(maps, active) /\ maps \in AllMaps
  BY <1>0, <1>1 DEF SeqInv, References, LogInv, MemoryTypes
<1>4. snap.exists => /\ Resolve(fs, snap.maps, n) /\ Together(snap.maps, active)
                     /\ OnDevice(fs, snap.maps, snap.seq) /\ snap.maps \in AllMaps
  BY <1>0, <1>1 DEF SeqInv, References, LogInv, DiskTypes
<1>5. Resolve(fs, maps, k)
  BY <1>1, <1>2, <1>3, ResolveHigher
<1>6. snap.exists => Resolve(fs, snap.maps, k)
  BY <1>1, <1>2, <1>4, ResolveHigher
<1> QED
  BY <1>0, <1>1, <1>3, <1>4, <1>5, <1>6 DEF References

LEMMA SealPublishSeqs ==
  ASSUME SegmentsSafe, LogInv, SeqInv, SealPublish
  PROVE  SeqInv'
<1>1. /\ op.step = "sealPublish" /\ man' = m /\ op' = At("idle")
      /\ files' = files /\ snap' = snap /\ m' = m /\ active' = active
      /\ buf' = buf /\ maps' = maps
  BY DEF SealPublish, memory
<1>2. Up /\ buf = <<>> /\ op'.step = "idle" /\ m.active = active
  BY <1>1 DEF Up, At, LogInv, OpTypes, SegmentsSafe, ActiveApart
<1>3. Numbering'
  BY <1>1, <1>2, PublishedSeqs
<1>4. References'
  BY <1>1, <1>2, PublishedReferences
<1>5. Placed'
  <2>1. active \in DOMAIN files /\ m.nextSegmentId <= m.nextSegmentId
    BY <1>2, ActiveFacts, SlotsTyped
  <2> QED
    BY <1>1, <1>2, <2>1 DEF SeqInv, Placed
<1>6. Written'
  BY <1>2 DEF Written
<1> QED
  BY <1>2, <1>3, <1>4, <1>5, <1>6, NotCompacting

LEMMA SnapshotPublishSeqs ==
  ASSUME SegmentsSafe, LogInv, SeqInv, SnapshotPublish
  PROVE  SeqInv'
<1>1. /\ op.step = "snapshotPublish" /\ m' = [m EXCEPT !.snapshotSeq = SnapshotSeq]
      /\ man' = m' /\ op' = At("idle")
      /\ files' = files /\ snap' = snap /\ active' = active
      /\ buf' = buf /\ maps' = maps
  BY DEF SnapshotPublish
<1>2. Up /\ buf = <<>> /\ op'.step = "idle" /\ m.active = active
  BY <1>1 DEF Up, At, LogInv, OpTypes, SegmentsSafe, ActiveApart
<1>3. SameSegments /\ m'.nextSeq = m.nextSeq
  <2>1. m = [f \in ManifestFields |-> m[f]]
    BY DEF SegmentsSafe, WellFormed
  <2> QED
    BY <1>1, <2>1, Zenon DEF SameSegments, ManifestFields
<1>4. SealedIds(m') = SealedIds(m)
  BY <1>3 DEF SameSegments, SealedIds
<1>5. Numbering'
  BY <1>1, <1>2, <1>3, <1>4, PublishedSeqs DEF SameSegments
<1>6. References'
  BY <1>1, <1>2, <1>3, PublishedReferences DEF SameSegments
<1>7. Placed'
  <2>1. active \in DOMAIN files /\ m.nextSegmentId <= m.nextSegmentId
    BY <1>2, ActiveFacts, SlotsTyped
  <2> QED
    BY <1>1, <1>2, <1>3, <1>4, <2>1 DEF SeqInv, Placed, SameSegments
<1>8. Written'
  BY <1>2 DEF Written
<1> QED
  BY <1>2, <1>5, <1>6, <1>7, <1>8, NotCompacting

-----------------------------------------------------------------------------
(* Steps that write what was buffered *)

(* gs is fs with tail behind segment a. *)
Behind(gs, fs, a, tail) ==
  /\ DOMAIN gs = DOMAIN fs /\ \A id \in DOMAIN fs : id # a => gs[id] = fs[id]
  /\ gs[a].synced = fs[a].synced
  /\ Len(fs[a].recs) \in Nat /\ Len(tail) \in Nat
  /\ DOMAIN fs[a].recs = 1 .. Len(fs[a].recs)
  /\ DOMAIN gs[a].recs = 1 .. Len(fs[a].recs) + Len(tail)
  /\ \A i \in 1 .. Len(fs[a].recs) : gs[a].recs[i] = fs[a].recs[i]
  /\ \A i \in 1 .. Len(tail) : gs[a].recs[Len(fs[a].recs) + i] = tail[i]

LEMMA BehindGrows ==
  ASSUME NEW fs, NEW gs, NEW a, NEW tail, Behind(gs, fs, a, tail), NEW n
  PROVE  Grows(fs, gs, n) /\ Keeps(fs, gs, n)
<1>1. PICK L, k \in Nat : L = Len(fs[a].recs) /\ k = Len(tail)
  BY DEF Behind
<1>2. /\ DOMAIN gs = DOMAIN fs /\ \A id \in DOMAIN fs : id # a => gs[id] = fs[id]
      /\ gs[a].synced = fs[a].synced
      /\ DOMAIN fs[a].recs = 1 .. L /\ DOMAIN gs[a].recs = 1 .. L + k
      /\ \A i \in 1 .. L : gs[a].recs[i] = fs[a].recs[i]
  BY <1>1 DEF Behind
<1>3. \A i \in DOMAIN fs[a].recs : i \in DOMAIN gs[a].recs /\ gs[a].recs[i] = fs[a].recs[i]
  BY <1>1, <1>2
<1>4. ASSUME NEW id \in DOMAIN fs, NEW i \in DOMAIN fs[id].recs
      PROVE  /\ i \in DOMAIN gs[id].recs /\ gs[id].recs[i] = fs[id].recs[i]
             /\ gs[id].synced = fs[id].synced
  BY <1>2, <1>3
<1> QED
  BY <1>2, <1>4 DEF Grows, Keeps

LEMMA BehindNumbered ==
  ASSUME SegmentsSafe, LogInv, SeqInv, Up, NEW tail, Behind(files', files, active, tail),
         Len(tail) <= Len(buf), \A i \in 1 .. Len(tail) : IsTorn(tail[i]) \/ tail[i] = buf[i],
         NEW ids \in SUBSET DOMAIN files, active \notin ids, NEW n \in Int, n <= FirstFree,
         Numbered(files, ids, active, n)
  PROVE  /\ Numbered(files', ids, active, n)
         /\ \A i \in Slots(files', active) : SeqAt(files', active, i) < m.nextSeq
<1>1. PICK fs, gs, a : fs = files /\ gs = files' /\ a = active
  OBVIOUS
<1>2. PICK L, k, b \in Nat : L = Len(fs[a].recs) /\ k = Len(tail) /\ b = Len(buf)
  BY <1>1, SlotsTyped DEF Behind
<1>3. PICK first, last \in Int : first = FirstFree /\ last = m.nextSeq
  BY SlotsTyped
<1>4. first + b = last /\ n <= first /\ first <= last /\ k <= b
  BY <1>2, <1>3, SlotsTyped DEF FirstFree
<1>5. /\ DOMAIN gs = DOMAIN fs /\ \A id \in DOMAIN fs : id # a => gs[id] = fs[id]
      /\ DOMAIN fs[a].recs = 1 .. L /\ DOMAIN gs[a].recs = 1 .. L + k
      /\ \A i \in 1 .. L : gs[a].recs[i] = fs[a].recs[i]
      /\ \A i \in 1 .. k : gs[a].recs[L + i] = tail[i]
  BY <1>1, <1>2 DEF Behind
<1>6. /\ \A i \in 1 .. b : buf[i].seq = first + i - 1
      /\ \A i \in Slots(fs, a) : SeqAt(fs, a, i) < first
  BY <1>1, <1>2, <1>3 DEF SeqInv, Numbering
<1>7. Appended(gs, fs, a, first, last)
  <2>1. ASSUME NEW i \in Slots(gs, a)
        PROVE  \/ i \in Slots(fs, a) /\ SeqAt(gs, a, i) = SeqAt(fs, a, i)
               \/ /\ i \in Nat /\ i > L /\ SeqAt(gs, a, i) < last
                  /\ SeqAt(gs, a, i) = first + (i - L) - 1
    <3>1. i \in 1 .. L + k /\ ~ IsTorn(gs[a].recs[i])
      BY <1>5 DEF Slots
    <3>2. CASE i <= L
      <4>1. i \in 1 .. L
        BY <3>1, <3>2
      <4>2. i \in DOMAIN fs[a].recs /\ gs[a].recs[i] = fs[a].recs[i]
        BY <1>5, <4>1
      <4> QED
        BY <3>1, <4>2 DEF Slots, SeqAt
    <3>3. CASE i > L
      <4>1. PICK j \in 1 .. k : i = L + j
        <5>1. i - L \in 1 .. k /\ i = L + (i - L)
          BY <1>2, <3>1, <3>3
        <5> QED
          BY <5>1
      <4>2. gs[a].recs[i] = tail[j] /\ ~ IsTorn(tail[j])
        BY <1>5, <3>1, <4>1
      <4>3. tail[j] = buf[j] /\ j \in 1 .. b
        BY <1>2, <1>4, <4>1, <4>2
      <4>4. SeqAt(gs, a, i) = first + j - 1
        BY <1>6, <4>2, <4>3 DEF SeqAt
      <4>5. j = i - L /\ first + j - 1 < last /\ i \in Nat
        <5>1. j \in Int /\ j <= b
          BY <4>3
        <5> QED
          BY <1>4, <4>1, <5>1
      <4> QED
        BY <3>3, <4>4, <4>5
    <3>4. i <= L \/ i > L
      BY <3>1
    <3> QED
      BY <3>2, <3>3, <3>4
  <2> QED
    BY <1>2, <2>1 DEF Appended
<1>8. /\ \A i \in Slots(fs, a) : /\ SeqAt(fs, a, i) \in Nat /\ SeqAt(fs, a, i) < first
                                 /\ i \in 1 .. Len(fs[a].recs)
      /\ Len(fs[a].recs) \in Nat
  BY <1>1, <1>2, <1>6, SlotsTyped, ActiveFacts
<1>9. \A p \in ids : Within(gs, fs, p) /\ \A i \in Slots(fs, p) : SeqAt(fs, p, i) \in Nat
  <2>1. ASSUME NEW p \in ids PROVE Within(gs, fs, p)
    <3>1. gs[p].recs = fs[p].recs
      BY <1>1, <1>5
    <3> QED
      BY <3>1, SameWithin
  <2> QED
    BY <1>1, <2>1, SlotsTyped
<1>10. Numbered(fs, ids, a, n)
  BY <1>1
<1>11. Numbered(gs, ids, a, n) /\ \A i \in Slots(gs, a) : SeqAt(gs, a, i) < last
  BY <1>3, <1>4, <1>7, <1>8, <1>9, <1>10, NumberedAppended
<1> QED
  BY <1>1, <1>3, <1>11

LEMMA FlushBehind ==
  ASSUME SegmentsSafe, LogInv, Up, files' = Flushed
  PROVE  Behind(files', files, active, buf) /\ OnlySegment(active)
<1>1. OnlySegment(active) /\ active \in DOMAIN files
  BY FlushOnly, ActiveFacts
<1>2. PICK f, g : f = files[active] /\ g = files'[active]
  OBVIOUS
<1>3. g = [f EXCEPT !.recs = @ \o buf]
  BY <1>1, <1>2, Zenon DEF Flushed, SegmentsSafe
<1>4. f \in Segments /\ f.recs \in Seq(LogRecords) /\ buf \in Seq(LogRecords)
  BY <1>2, ActiveFacts DEF LogInv, MemoryTypes
<1>5. g.recs = f.recs \o buf /\ g.synced = f.synced
  BY <1>3, <1>4 DEF Segments
<1>6. PICK q, r : q = f.recs /\ r = g.recs
  OBVIOUS
<1>7. /\ r \in Seq(LogRecords) /\ Len(r) = Len(q) + Len(buf)
      /\ \A i \in 1 .. Len(q) + Len(buf) : r[i] = IF i <= Len(q) THEN q[i] ELSE buf[i - Len(q)]
  <2>1. q \in Seq(LogRecords) /\ buf \in Seq(LogRecords) /\ r = q \o buf
    BY <1>4, <1>5, <1>6
  <2> QED
    BY <2>1, ConcatProperties, Zenon
<1>8. PICK L, k \in Nat : L = Len(q) /\ k = Len(buf)
  BY <1>4, <1>6, LenProperties
<1>9. DOMAIN q = 1 .. L /\ DOMAIN r = 1 .. L + k
  BY <1>4, <1>6, <1>7, <1>8, LenProperties
<1>10. \A i \in 1 .. L : r[i] = q[i]
  BY <1>7, <1>8
<1>11. \A i \in 1 .. k : r[L + i] = buf[i]
  <2>1. ASSUME NEW i \in 1 .. k PROVE r[L + i] = buf[i]
    <3>1. L + i \in 1 .. L + k /\ ~ (L + i <= L) /\ (L + i) - L = i
      BY <1>8
    <3> QED
      BY <1>7, <1>8, <3>1
  <2> QED
    BY <2>1
<1> QED
  BY <1>1, <1>2, <1>5, <1>6, <1>8, <1>9, <1>10, <1>11 DEF Behind, OnlySegment

(* What a flush at the end of a write does to the numbers. *)
LEMMA FlushSeqs ==
  ASSUME SegmentsSafe, LogInv, SeqInv, op.step \in {"insert", "delete"}, files' = Flushed,
         man' = man, active' = active, buf' = <<>>, SealedIds(m') = SealedIds(m),
         m'.nextSeq = m.nextSeq, m'.nextSegmentId = m.nextSegmentId,
         op'.step \in {"idle", "seal"}
  PROVE  Numbering' /\ Placed'
<1>1. Up /\ man.active = active
  BY DEF Up, SeqInv, Placed
<1>2. PICK sm, sn, a, n, k, t : /\ sm = SealedIds(m) /\ sn = SealedIds(man) /\ a = active
                                /\ n = man.nextSeq /\ k = FirstFree /\ t = m.nextSeq
  OBVIOUS
<1>3. /\ sm \in SUBSET DOMAIN files /\ sn \in SUBSET DOMAIN files /\ n \in Int /\ k \in Int
      /\ t \in Int /\ k <= t /\ a \notin sm /\ a \notin sn
  <2>1. t = m.nextSeq /\ k = m.nextSeq - Len(buf) /\ Len(buf) \in Nat /\ m.nextSeq \in Nat
    BY <1>2, SlotsTyped DEF FirstFree
  <2>2. k <= t
    BY <2>1
  <2> QED
    BY <1>1, <1>2, <2>2, SlotsTyped, ActiveFacts
<1>4. /\ Numbered(files, sn, a, n) /\ Numbered(files, sm, a, k) /\ n <= k
  BY <1>1, <1>2 DEF SeqInv, Numbering
<1>5. Behind(files', files, active, buf) /\ OnlySegment(active)
  BY <1>1, FlushBehind
<1>6. Len(buf) <= Len(buf) /\ k <= k
  BY <1>3, SlotsTyped
<1>7. /\ Numbered(files', sn, a, n)
      /\ \A i \in Slots(files', a) : SeqAt(files', a, i) < t
  BY <1>1, <1>2, <1>3, <1>4, <1>5, <1>6, BehindNumbered
<1>8. Numbered(files', sm, a, k)
  BY <1>1, <1>2, <1>3, <1>4, <1>5, <1>6, BehindNumbered
<1>9. Numbered(files', sm, a, t)
  <2>1. PICK gs : gs = files'
    OBVIOUS
  <2>2. ASSUME NEW p \in sm, NEW i \in Slots(gs, p) PROVE SeqAt(gs, p, i) \in Nat
    <3>1. gs[p] = files[p] /\ p \in DOMAIN files
      BY <1>2, <1>3, <1>5, <2>1 DEF OnlySegment
    <3>2. i \in Slots(files, p) /\ SeqAt(gs, p, i) = SeqAt(files, p, i)
      BY <3>1 DEF Slots, SeqAt
    <3> QED
      BY <3>1, <3>2, SlotsTyped
  <2>3. \A p \in sm \cup {a} : Within(gs, gs, p)
    BY DEF Within
  <2>4. Numbered(gs, sm, a, k)
    BY <1>8, <2>1
  <2>5. Numbered(gs, sm, a, t)
    BY <1>3, <2>2, <2>3, <2>4, NumberedWithin
  <2> QED
    BY <2>1, <2>5
<1>10. FirstFree' = t /\ Len(buf') = 0
  BY <1>2, <1>3 DEF FirstFree
<1>11. Numbering'
  <2>1. n <= t
    BY <1>3, <1>4
  <2>2. SealedIds(man') = sn /\ man'.active = a /\ man'.nextSeq = n /\ SealedIds(m') = sm
    BY <1>1, <1>2
  <2> QED
    BY <1>2, <1>7, <1>9, <1>10, <2>1, <2>2 DEF Numbering
<1>12. Placed'
  <2>1. man.nextSegmentId <= m'.nextSegmentId
    BY DEF SeqInv, Placed
  <2> QED
    BY <1>5, <2>1, QuietPlaced DEF Compacting
<1> QED
  BY <1>11, <1>12

(* ... and to what is referred to. *)
LEMMA FlushReferences ==
  ASSUME SegmentsSafe, LogInv, SeqInv, op.step \in {"insert", "delete"}, files' = Flushed,
         man' = man, active' = active, snap' = snap,
         Resolve(files', maps', man.nextSegmentId), Together(maps', active)
  PROVE  References'
<1>1. Up /\ man.active = active
  BY DEF Up, SeqInv, Placed
<1>2. PICK fs, gs, n, a : /\ fs = files /\ gs = files' /\ n = man.nextSegmentId /\ a = active
  OBVIOUS
<1>3. Keeps(fs, gs, n)
  <2>1. Behind(gs, fs, a, buf)
    BY <1>1, <1>2, FlushBehind
  <2> QED
    BY <2>1, BehindGrows
<1>4. snap.exists => /\ Resolve(gs, snap.maps, n) /\ OnDevice(gs, snap.maps, snap.seq)
                     /\ Together(snap.maps, a)
  <2>1. SUFFICES ASSUME snap.exists
                 PROVE  /\ Resolve(gs, snap.maps, n) /\ OnDevice(gs, snap.maps, snap.seq)
                        /\ Together(snap.maps, a)
    OBVIOUS
  <2>2. /\ Resolve(fs, snap.maps, n) /\ OnDevice(fs, snap.maps, snap.seq)
        /\ Together(snap.maps, a)
    BY <1>2, <2>1 DEF SeqInv, References
  <2> QED
    BY <1>3, <2>2, DeviceKeeps
<1> QED
  BY <1>1, <1>2, <1>4 DEF References

LEMMA DeleteCommitSeqs ==
  ASSUME SegmentsSafe, LogInv, SeqInv, DeleteCommit
  PROVE  SeqInv'
<1>0. PICK freed : freed = FreedIn(op.doc, FALSE)
  OBVIOUS
<1>1. /\ op.step = "delete" /\ man' = man /\ snap' = snap /\ active' = active
      /\ files' = Flushed /\ buf' = <<>> /\ op' = AfterWrite
      /\ maps' = RemoveDoc(maps, op.doc)
      /\ m' = [m EXCEPT !.tombstones = @ + freed]
  BY <1>0 DEF DeleteCommit
<1>2. op'.step \in {"idle", "seal"} /\ Up
  BY <1>1, AfterWriteStep DEF Up
<1>3. SameSegments /\ m'.nextSeq = m.nextSeq
  <2>1. m = [f \in ManifestFields |-> m[f]]
    BY DEF SegmentsSafe, WellFormed
  <2> QED
    BY <1>1, <2>1, Zenon DEF SameSegments, ManifestFields
<1>4. Numbering' /\ Placed'
  BY <1>1, <1>2, <1>3, FlushSeqs DEF SameSegments, SealedIds
<1>5. PICK fs, gs, n, a : /\ fs = files /\ gs = files' /\ n = man.nextSegmentId /\ a = active
  OBVIOUS
<1>6. Resolve(gs, RemoveDoc(maps, op.doc), n)
  <2>1. Behind(gs, fs, a, buf)
    BY <1>1, <1>2, <1>5, FlushBehind
  <2>2. Grows(fs, gs, n) /\ Resolve(fs, maps, n)
    BY <1>2, <1>5, <2>1, BehindGrows DEF SeqInv, References
  <2>3. Resolve(gs, maps, n)
    BY <2>2, ResolveGrows
  <2> QED
    BY <2>3, ResolveRemoved
<1>7. Together(RemoveDoc(maps, op.doc), a)
  BY <1>2, <1>5, TogetherRemoved DEF SeqInv, References
<1>8. References'
  BY <1>1, <1>5, <1>6, <1>7, FlushReferences
<1>9. Written'
  BY <1>2 DEF Written
<1> QED
  BY <1>2, <1>4, <1>8, <1>9, NotCompacting

(* The parts of a document, at consecutive places of segment a. *)
InRow(gs, a, kind, d, n, b) ==
  \A i \in 1 .. n : /\ b + i \in DOMAIN gs[a].recs
                    /\ gs[a].recs[b + i].kind = kind /\ gs[a].recs[b + i].doc = d
                    /\ gs[a].recs[b + i].part = i

LEMMA PlacedInRow ==
  ASSUME NEW gs, NEW a, NEW kind \in {"Split", "Summary"}, NEW d, NEW n \in Nat, NEW b \in Nat,
         InRow(gs, a, kind, d, n, b)
  PROVE  PlacedParts(gs, kind, [k \in Keys(d, 1 .. n) |-> [seg |-> a, off |-> b + k[2]]], d, a)
<1> DEFINE f == [k \in Keys(d, 1 .. n) |-> [seg |-> a, off |-> b + k[2]]]
<1>1. ASSUME NEW k \in Keys(d, 1 .. n)
      PROVE  k[1] = d /\ f[k].seg = a /\ Right(gs, Ref(kind, k[1], k[2], f[k]))
  <2>1. PICK i \in 1 .. n : k = <<d, i>>
    BY DEF Keys
  <2>2. k[1] = d /\ k[2] = i
    BY <2>1
  <2>3. PICK loc : loc = f[k]
    OBVIOUS
  <2>4. loc = [seg |-> a, off |-> b + i]
    BY <2>2, <2>3
  <2>5. loc.seg = a /\ loc.off = b + i
    BY <2>4
  <2>6. PICK x : x = Ref(kind, d, i, loc)
    OBVIOUS
  <2>7. x.kind = kind /\ x.doc = d /\ x.mark = i /\ x.loc = loc
    BY <2>6 DEF Ref
  <2>8. b + i \in DOMAIN gs[a].recs /\ Meant(x, gs[a].recs[b + i])
    BY <2>7 DEF Meant, InRow
  <2>9. Right(gs, x)
    BY <2>5, <2>7, <2>8 DEF Right
  <2> QED
    BY <2>2, <2>3, <2>5, <2>6, <2>9
<1>2. DOMAIN f = Keys(d, 1 .. n)
  OBVIOUS
<1> HIDE DEF f
<1> QED
  BY <1>1, <1>2 DEF PlacedParts, f

LEMMA InsertCommitSeqs ==
  ASSUME SegmentsSafe, LogInv, SeqInv, InsertCommit
  PROVE  SeqInv'
<1> DEFINE d == op.doc
           c == op.content
           n == c.splits
           base == ActiveLen - 2 * n - 1
           at(i) == [seg |-> active, off |-> i]
           entry == [splits |-> 1 .. n,
                     list |-> IF c.listed THEN 1 .. n ELSE {},
                     extra |-> IF c.listed THEN {} ELSE 1 .. n,
                     seq |-> buf[Len(buf)].seq, loc |-> at(ActiveLen)]
           summaryLocs == [k \in Keys(d, 1 .. n) |-> at(base + k[2])]
           splitLocs == [k \in Keys(d, 1 .. n) |-> at(base + n + k[2])]
           freed == FreedIn(d, FALSE)
<1>1. /\ op.step = "insert" /\ man' = man /\ snap' = snap /\ active' = active
      /\ files' = Flushed /\ buf' = <<>> /\ op' = AfterWrite
      /\ maps' = PutDoc(RemoveDoc(maps, d), d, entry, splitLocs, summaryLocs)
      /\ m' = IF d \in DOMAIN maps.docs THEN [m EXCEPT !.tombstones = @ + freed] ELSE m
  BY DEF InsertCommit
<1>2. op'.step \in {"idle", "seal"} /\ Up
  BY <1>1, AfterWriteStep DEF Up
<1>3. n \in Nat
  <2>1. c \in Contents
    BY <1>1 DEF LogInv, OpTypes
  <2> HIDE DEF c
  <2> QED
    BY <2>1, ContentsAssumption
<1>4. PICK j \in 0 .. 1 : Spells(buf, j, d, c, op.rewindSeq)
  BY <1>1 DEF SeqInv, Written
<1> HIDE DEF d, c, freed
<1>5. SameSegments /\ m'.nextSeq = m.nextSeq
  <2>1. CASE d \in DOMAIN maps.docs
    <3>1. m = [f \in ManifestFields |-> m[f]] /\ m' = [m EXCEPT !.tombstones = @ + freed]
      BY <1>1, <2>1 DEF SegmentsSafe, WellFormed
    <3> QED
      BY <3>1, Zenon DEF SameSegments, ManifestFields
  <2>2. CASE d \notin DOMAIN maps.docs
    BY <1>1, <2>2, SameUnchanged
  <2> QED
    BY <2>1, <2>2
<1>6. Numbering' /\ Placed'
  BY <1>1, <1>2, <1>5, FlushSeqs DEF SameSegments, SealedIds
<1>7. PICK fs, gs, k, a : /\ fs = files /\ gs = files' /\ k = man.nextSegmentId /\ a = active
  OBVIOUS
<1>8. Behind(gs, fs, a, buf)
  BY <1>1, <1>2, <1>7, FlushBehind
<1>9. PICK L \in Nat : L = Len(fs[a].recs)
  BY <1>8 DEF Behind
<1>10. PICK N \in Nat : N = n
  BY <1>3
<1>11. Len(buf) = j + 2 * N + 1 /\ ActiveLen = L + (j + 2 * N + 1) /\ base = L + j
  <2>1. Len(buf) = j + 2 * N + 1
    BY <1>4, <1>10 DEF Spells
  <2>2. ActiveLen = L + (j + 2 * N + 1)
    BY <1>7, <1>9, <2>1 DEF ActiveLen
  <2> HIDE DEF n
  <2> QED
    BY <1>10, <2>1, <2>2
<1>12. ASSUME NEW i \in 1 .. j + 2 * N + 1
       PROVE  L + i \in DOMAIN gs[a].recs /\ gs[a].recs[L + i] = buf[i]
  <2>1. DOMAIN gs[a].recs = 1 .. L + (j + 2 * N + 1)
        /\ \A q \in 1 .. j + 2 * N + 1 : gs[a].recs[L + q] = buf[q]
    BY <1>8, <1>9, <1>11 DEF Behind
  <2> QED
    BY <2>1
<1>13. PICK b, e \in Nat : b = L + j /\ e = L + j + N
  OBVIOUS
<1>14. ASSUME NEW i \in 1 .. N
       PROVE  /\ b + i \in DOMAIN gs[a].recs
              /\ gs[a].recs[b + i].kind = "Summary" /\ gs[a].recs[b + i].doc = d
              /\ gs[a].recs[b + i].part = i
              /\ e + i \in DOMAIN gs[a].recs
              /\ gs[a].recs[e + i].kind = "Split" /\ gs[a].recs[e + i].doc = d
              /\ gs[a].recs[e + i].part = i
  <2>1. /\ j + i \in 1 .. j + 2 * N + 1 /\ j + N + i \in 1 .. j + 2 * N + 1
        /\ b + i = L + (j + i) /\ e + i = L + (j + N + i)
    BY <1>13
  <2>2. /\ b + i \in DOMAIN gs[a].recs /\ gs[a].recs[b + i] = buf[j + i]
        /\ e + i \in DOMAIN gs[a].recs /\ gs[a].recs[e + i] = buf[j + N + i]
    BY <1>12, <2>1
  <2>3. /\ buf[j + i] = SummaryRecord(op.rewindSeq + j + i - 1, d, i)
        /\ buf[j + N + i] = SplitRecord(op.rewindSeq + j + N + i - 1, d, i)
    BY <1>4, <1>10 DEF Spells
  <2> QED
    BY <2>2, <2>3 DEF SummaryRecord, SplitRecord
<1>15. PlacedParts(gs, "Summary", summaryLocs, d, a)
  <2>1. PlacedParts(gs, "Summary", [q \in Keys(d, 1 .. N) |-> [seg |-> a, off |-> b + q[2]]],
                    d, a)
    <3>1. InRow(gs, a, "Summary", d, N, b)
      BY <1>14 DEF InRow
    <3>2. "Summary" \in {"Split", "Summary"}
      OBVIOUS
    <3> QED
      BY <3>1, <3>2, PlacedInRow, Zenon
  <2>2. summaryLocs = [q \in Keys(d, 1 .. N) |-> [seg |-> a, off |-> b + q[2]]]
    BY <1>7, <1>10, <1>11, <1>13
  <2> HIDE DEF summaryLocs
  <2> QED
    BY <2>1, <2>2
<1>16. PlacedParts(gs, "Split", splitLocs, d, a)
  <2>1. PlacedParts(gs, "Split", [q \in Keys(d, 1 .. N) |-> [seg |-> a, off |-> e + q[2]]],
                    d, a)
    <3>1. InRow(gs, a, "Split", d, N, e)
      BY <1>14 DEF InRow
    <3>2. "Split" \in {"Split", "Summary"}
      OBVIOUS
    <3> QED
      BY <3>1, <3>2, PlacedInRow, Zenon
  <2>2. base + n = e
    <3> HIDE DEF base, n
    <3> QED
      BY <1>10, <1>11, <1>13
  <2>3. splitLocs = [q \in Keys(d, 1 .. N) |-> [seg |-> a, off |-> e + q[2]]]
    <3> HIDE DEF base
    <3> QED
      BY <1>7, <1>10, <2>2
  <2> HIDE DEF splitLocs
  <2> QED
    BY <2>1, <2>3
<1>17. entry.loc.seg = a /\ Right(gs, Ref("Doc", d, entry.seq, entry.loc))
  <2>1. PICK loc : loc = [seg |-> a, off |-> L + (j + 2 * N + 1)]
    OBVIOUS
  <2>2. loc.seg = a /\ loc.off = L + (j + 2 * N + 1)
    BY <2>1
  <2>3. j + 2 * N + 1 \in 1 .. j + 2 * N + 1
    OBVIOUS
  <2>4. PICK r : r = buf[j + 2 * N + 1]
    OBVIOUS
  <2>5. loc.off \in DOMAIN gs[a].recs /\ gs[a].recs[loc.off] = r
    BY <1>12, <2>2, <2>3, <2>4
  <2>6. r.kind = "Doc" /\ r.doc = d
    BY <1>4, <1>10, <2>4 DEF Spells, DocRecord
  <2>7. entry.loc = loc /\ entry.seq = r.seq
    BY <1>7, <1>11, <2>1, <2>4
  <2>8. PICK x : x = Ref("Doc", d, r.seq, loc)
    OBVIOUS
  <2>9. x.kind = "Doc" /\ x.doc = d /\ x.mark = r.seq /\ x.loc = loc
    BY <2>8 DEF Ref
  <2>10. Right(gs, x)
    BY <2>2, <2>5, <2>6, <2>9 DEF Right, Meant
  <2> HIDE DEF entry
  <2> QED
    BY <2>2, <2>7, <2>8, <2>10
<1> HIDE DEF entry, summaryLocs, splitLocs
<1>18. PICK mp, old, en, sl, ml : /\ mp = maps /\ old = RemoveDoc(maps, d) /\ en = entry
                                  /\ sl = splitLocs /\ ml = summaryLocs
  OBVIOUS
<1>19. Resolve(gs, old, k) /\ Together(old, a) /\ a < k
  <2>1. Grows(fs, gs, k) /\ Resolve(fs, mp, k) /\ Together(mp, a)
    BY <1>2, <1>7, <1>8, <1>18, BehindGrows DEF SeqInv, References
  <2>2. Resolve(gs, mp, k)
    BY <2>1, ResolveGrows
  <2>3. a < k
    BY <1>1, <1>7 DEF SeqInv, Placed, SegmentsSafe, WellFormed
  <2> QED
    BY <1>18, <2>1, <2>2, <2>3, ResolveRemoved, TogetherRemoved
<1>20. /\ en.loc.seg = a /\ Right(gs, Ref("Doc", d, en.seq, en.loc))
       /\ PlacedParts(gs, "Split", sl, d, a) /\ PlacedParts(gs, "Summary", ml, d, a)
  BY <1>15, <1>16, <1>17, <1>18
<1>21. /\ Resolve(gs, PutDoc(old, d, en, sl, ml), k)
       /\ OnlyPuts(PutDoc(old, d, en, sl, ml), old, d, a)
  BY <1>19, <1>20, PutResolves
<1>22. Together(PutDoc(old, d, en, sl, ml), a)
  BY <1>19, <1>20, <1>21, PutTogether
<1>23. References'
  <2>1. maps' = PutDoc(old, d, en, sl, ml)
    BY <1>1, <1>18
  <2> QED
    BY <1>1, <1>7, <1>21, <1>22, <2>1, FlushReferences
<1>24. Written'
  BY <1>2 DEF Written
<1> QED
  BY <1>2, <1>6, <1>23, <1>24, NotCompacting

-----------------------------------------------------------------------------
(* Sealing *)

(* The ids of a sealed list that grew by one entry. *)
LEMMA AppendNames ==
  ASSUME NEW mm, NEW nn, NEW info,
         mm.sealed \in Seq({mm.sealed[i] : i \in DOMAIN mm.sealed}),
         nn.sealed = Append(mm.sealed, info)
  PROVE  SealedIds(nn) = SealedIds(mm) \cup {info.id}
<1>1. PICK S, s : S = {mm.sealed[i] : i \in DOMAIN mm.sealed} \cup {info} /\ s = mm.sealed
  OBVIOUS
<1>2. s \in Seq(S) /\ info \in S
  BY <1>1
<1>3. PICK t : t = Append(s, info)
  OBVIOUS
<1>4. PICK n \in Nat : n = Len(s)
  BY <1>2, LenProperties
<1>5. /\ t \in Seq(S) /\ Len(t) = n + 1 /\ t[n + 1] = info
      /\ \A i \in 1 .. n : t[i] = s[i]
  BY <1>2, <1>3, <1>4, AppendProperties
<1>6. DOMAIN s = 1 .. n /\ DOMAIN t = 1 .. n + 1
  BY <1>2, <1>4, <1>5, LenProperties
<1>7. \A i \in 1 .. n + 1 : i \in 1 .. n \/ i = n + 1
  OBVIOUS
<1>8. n + 1 \in 1 .. n + 1 /\ \A i \in 1 .. n : i \in 1 .. n + 1
  OBVIOUS
<1>9. {t[i].id : i \in DOMAIN t} = {s[i].id : i \in DOMAIN s} \cup {info.id}
  BY <1>5, <1>6, <1>7, <1>8
<1>10. nn.sealed = t /\ mm.sealed = s
  BY <1>1, <1>3
<1> QED
  BY <1>9, <1>10, Zenon DEF SealedIds

(* Nothing refers to a segment whose id the disk does not know yet. *)
LEMMA NoneAbove ==
  ASSUME NEW fs, NEW mp \in AllMaps, NEW n \in Nat, NEW b \in Nat, n <= b, Resolve(fs, mp, n)
  PROVE  NoParts(mp, b)
<1>1. ASSUME NEW x \in Refs(mp) PROVE x.loc.seg # b
  <2>1. x.loc.seg < n /\ x.loc \in Locs
    BY RefTyped DEF Resolve
  <2> QED
    BY <2>1 DEF Locs
<1> QED
  BY <1>1 DEF NoParts

(* The active segment is synced and sealed, a fresh one follows it. *)
LEMMA SealSwaps ==
  ASSUME SegmentsSafe, LogInv, SeqInv, SealActive
  PROVE  /\ DOMAIN files' = DOMAIN files \cup {active'} /\ active' \notin DOMAIN files
         /\ files'[active'].recs = <<>> /\ files'[active'].synced = 0
         /\ files'[active'] = EmptySegment
         /\ files'[active].recs = files[active].recs
         /\ files'[active].synced = Len(files[active].recs)
         /\ \A i \in DOMAIN files : /\ i # active => files'[i] = files[i]
                                   /\ files'[i].recs = files[i].recs
         /\ Grows(files, files', man.nextSegmentId) /\ Keeps(files, files', man.nextSegmentId)
         /\ active' = m.nextSegmentId /\ m'.nextSegmentId = m.nextSegmentId + 1
         /\ m'.nextSeq = m.nextSeq /\ SealedIds(m') = SealedIds(m) \cup {active}
<1>0. PICK new, info, old : /\ new = m.nextSegmentId
                            /\ info = [id |-> active, bytes |-> ActiveLen, last |-> lastSeq]
                            /\ old = [files EXCEPT ![active] = Synced(@)]
  OBVIOUS
<1>1. /\ op.step \in {"idle", "seal"} /\ op' = At("sealPublish")
      /\ man' = man /\ snap' = snap /\ active' = new /\ buf' = buf /\ maps' = maps
      /\ files' = Put(old, new, EmptySegment)
      /\ m' = [m EXCEPT !.nextSegmentId = @ + 1, !.sealed = Append(@, info),
                        !.active = new, !.tombstones = @ + pend]
  BY <1>0 DEF SealActive, SwappedFiles
<1>2. Up /\ buf = <<>> /\ op'.step = "sealPublish" /\ man.active = active
  BY <1>1 DEF Up, At, LogInv, OpTypes, SeqInv, Placed
<1>3. /\ m'.sealed = Append(m.sealed, info) /\ m'.nextSeq = m.nextSeq
      /\ m'.nextSegmentId = new + 1
  <2>1. m = [f \in ManifestFields |-> m[f]]
    BY DEF SegmentsSafe, WellFormed
  <2> QED
    BY <1>0, <1>1, <2>1, Zenon DEF ManifestFields
<1>4. SealedIds(m') = SealedIds(m) \cup {active}
  <2>1. m.sealed \in Seq({m.sealed[i] : i \in DOMAIN m.sealed}) /\ info.id = active
    BY <1>0 DEF SegmentsSafe, WellFormed
  <2> QED
    BY <1>3, <2>1, AppendNames, Zenon
<1>5. PICK fs, gs, a, k : /\ fs = files /\ gs = files' /\ a = active /\ k = man.nextSegmentId
  OBVIOUS
<1>6. /\ new \in Nat /\ k \in Nat /\ a \in Nat /\ a < new /\ k <= new /\ a \in DOMAIN fs
      /\ \A id \in SealedIds(m) \cup SealedIds(man) : id \in Nat /\ id < new /\ id \in DOMAIN fs
      /\ a \notin SealedIds(m) /\ a \notin SealedIds(man)
  BY <1>0, <1>2, <1>5, ActiveFacts
     DEF SegmentsSafe, ActiveApart, WellFormed, ManifestsAgree, Durable, SeqInv, Placed
<1>7. DOMAIN fs \subseteq SealedIds(m) \cup {a} /\ new \notin DOMAIN fs
  <2>1. DOMAIN fs \subseteq SealedIds(m) \cup {a}
    BY <1>1, <1>5 DEF SeqInv, Placed
  <2> QED
    BY <1>6, <2>1
<1>8. /\ DOMAIN gs = DOMAIN fs \cup {new} /\ gs[new] = EmptySegment
      /\ gs[a] = Synced(fs[a]) /\ \A i \in DOMAIN fs : i # a => gs[i] = fs[i]
  <2>1. /\ DOMAIN old = DOMAIN fs /\ old[a] = Synced(fs[a])
        /\ \A i \in DOMAIN fs : i # a => old[i] = fs[i]
    BY <1>0, <1>5, <1>6 DEF SegmentsSafe
  <2>2. /\ DOMAIN gs = DOMAIN old \cup {new} /\ gs[new] = EmptySegment
        /\ \A i \in DOMAIN old : i # new => gs[i] = old[i]
    BY <1>1, <1>5, SMT DEF Put
  <2> QED
    BY <1>6, <1>7, <2>1, <2>2
<1>9. /\ gs[a].recs = fs[a].recs /\ gs[a].synced = Len(fs[a].recs)
      /\ gs[new].recs = <<>> /\ gs[new].synced = 0
      /\ \A i \in DOMAIN fs : gs[i].recs = fs[i].recs
  BY <1>8 DEF Synced, EmptySegment
<1>10. Len(fs[a].recs) \in Nat /\ DOMAIN fs[a].recs = 1 .. Len(fs[a].recs)
  BY <1>2, <1>5, ActiveFacts, LenProperties
<1>11. Grows(fs, gs, k) /\ Keeps(fs, gs, k)
  <2>1. ASSUME NEW id \in DOMAIN gs, id < k PROVE id \in DOMAIN fs
    BY <1>6, <1>8, <2>1
  <2>2. \A i \in DOMAIN fs[a].recs : i <= gs[a].synced
    BY <1>9, <1>10
  <2>3. ASSUME NEW id \in DOMAIN fs, NEW i \in DOMAIN fs[id].recs, i <= fs[id].synced
        PROVE  i <= gs[id].synced
    BY <1>8, <2>2, <2>3
  <2> QED
    BY <1>9, <2>1, <2>3 DEF Grows, Keeps
<1> QED
  BY <1>0, <1>1, <1>3, <1>4, <1>5, <1>7, <1>8, <1>9, <1>11

LEMMA SealActiveSeqs ==
  ASSUME SegmentsSafe, LogInv, SeqInv, SealActive
  PROVE  SeqInv'
<1>0. PICK new : new = m.nextSegmentId
  OBVIOUS
<1>1. /\ op.step \in {"idle", "seal"} /\ op' = At("sealPublish")
      /\ man' = man /\ snap' = snap /\ active' = new /\ buf' = buf /\ maps' = maps
  BY <1>0 DEF SealActive
<1>2. Up /\ buf = <<>> /\ op'.step = "sealPublish" /\ man.active = active
  BY <1>1 DEF Up, At, LogInv, OpTypes, SeqInv, Placed
<1>3. m'.nextSeq = m.nextSeq /\ m'.nextSegmentId = new + 1
  BY <1>0, SealSwaps
<1>4. SealedIds(m') = SealedIds(m) \cup {active}
  BY SealSwaps
<1>5. PICK fs, gs, a, k : /\ fs = files /\ gs = files' /\ a = active /\ k = man.nextSegmentId
  OBVIOUS
<1>6. /\ new \in Nat /\ k \in Nat /\ a \in Nat /\ a < new /\ k <= new /\ a \in DOMAIN fs
      /\ \A id \in SealedIds(m) \cup SealedIds(man) : id \in Nat /\ id < new /\ id \in DOMAIN fs
      /\ a \notin SealedIds(m) /\ a \notin SealedIds(man)
  BY <1>0, <1>2, <1>5, ActiveFacts
     DEF SegmentsSafe, ActiveApart, WellFormed, ManifestsAgree, Durable, SeqInv, Placed
<1>7. DOMAIN fs \subseteq SealedIds(m) \cup {a} /\ new \notin DOMAIN fs
  <2>1. DOMAIN fs \subseteq SealedIds(m) \cup {a}
    BY <1>1, <1>5 DEF SeqInv, Placed
  <2> QED
    BY <1>6, <2>1
<1>8. /\ DOMAIN gs = DOMAIN fs \cup {new} /\ gs[new] = EmptySegment
      /\ \A i \in DOMAIN fs : i # a => gs[i] = fs[i]
  BY <1>1, <1>5, SealSwaps
<1>9. /\ gs[a].recs = fs[a].recs /\ gs[a].synced = Len(fs[a].recs)
      /\ gs[new].recs = <<>> /\ gs[new].synced = 0
      /\ \A i \in DOMAIN fs : gs[i].recs = fs[i].recs
  BY <1>1, <1>5, SealSwaps
<1>11. Grows(fs, gs, k) /\ Keeps(fs, gs, k)
  BY <1>5, SealSwaps
<1>12. Numbering'
  <2>1. PICK sm, sn, n, t : /\ sm = SealedIds(m) /\ sn = SealedIds(man) /\ n = man.nextSeq
                            /\ t = FirstFree
    OBVIOUS
  <2>2. /\ sm \in SUBSET DOMAIN files /\ sn \in SUBSET DOMAIN files /\ n \in Int /\ t \in Int
        /\ n <= n /\ n <= t
    BY <1>2, <2>1, SlotsTyped DEF SeqInv, Numbering
  <2>3. /\ Numbered(fs, sn, a, n) /\ Numbered(fs, sm, a, t)
        /\ \A i \in Slots(fs, a) : SeqAt(fs, a, i) < t
    BY <1>2, <1>5, <2>1 DEF SeqInv, Numbering
  <2>4. Numbered(files', sn, a, n)
    <3>1. \A id \in sn \cup {a} : files'[id].recs = files[id].recs
      BY <1>5, <1>6, <1>9, <2>1
    <3>2. Numbered(files, sn, a, n)
      BY <1>5, <2>3
    <3> QED
      BY <2>2, <3>1, <3>2, NumberedSame
  <2>5. Numbered(gs, sm \cup {a}, new, t)
    <3>1. Slots(gs, new) = {}
      BY <1>9 DEF Slots
    <3>2. \A p \in sm \cup {a} : Within(gs, fs, p)
      <4>1. \A p \in sm \cup {a} : gs[p].recs = fs[p].recs
        BY <1>5, <1>6, <1>9, <2>1
      <4> QED
        BY <4>1, SameWithin
    <3>3. /\ \A i \in Slots(fs, a) : SeqAt(fs, a, i) < t /\ SeqAt(fs, a, i) \in Nat /\ i \in Nat
          /\ \A p \in sm : \A i \in Slots(fs, p) : SeqAt(fs, p, i) \in Nat
      BY <1>5, <1>6, <2>1, <2>3, SlotsTyped
    <3>4. PICK js : js = sm \cup {a}
      OBVIOUS
    <3>5. js \subseteq sm \cup {a} /\ a \notin sm
      BY <1>6, <2>1, <3>4
    <3>6. Numbered(gs, js, new, t)
      BY <2>2, <2>3, <3>1, <3>2, <3>3, <3>5, NumberedSealed
    <3> QED
      BY <3>4, <3>6
  <2>6. \A i \in Slots(gs, new) : SeqAt(gs, new, i) < t
    BY <1>9 DEF Slots
  <2>7. FirstFree' = t /\ Len(buf') = 0
    BY <1>1, <1>2, <1>3, <2>1 DEF FirstFree
  <2>8. SealedIds(man') = sn /\ man'.active = a /\ man'.nextSeq = n /\ SealedIds(m') = sm \cup {a}
    BY <1>1, <1>2, <1>4, <1>5, <2>1
  <2>9. PICK js : js = sm \cup {a}
    OBVIOUS
  <2>10. /\ Numbered(files', js, active', t)
         /\ \A i \in Slots(files', active') : SeqAt(files', active', i) < t
    BY <1>1, <1>5, <2>5, <2>6, <2>9
  <2>11. n <= t /\ SealedIds(m') = js
    BY <2>2, <2>8, <2>9
  <2> QED
    BY <2>4, <2>7, <2>8, <2>10, <2>11 DEF Numbering
<1>13. References'
  <2>1. Resolve(gs, maps, k) /\ Together(maps, new) /\ Together(maps, a)
    <3>1. Resolve(fs, maps, k) /\ Together(maps, a) /\ maps \in AllMaps
      BY <1>2, <1>5 DEF SeqInv, References, LogInv, MemoryTypes
    <3> QED
      BY <1>6, <1>11, <3>1, ResolveGrows, NoneAbove, NoPartsTogether
  <2>2. snap.exists => /\ Resolve(gs, snap.maps, k) /\ OnDevice(gs, snap.maps, snap.seq)
                       /\ Together(snap.maps, new) /\ Together(snap.maps, a)
    <3>1. SUFFICES ASSUME snap.exists
                   PROVE  /\ Resolve(gs, snap.maps, k) /\ OnDevice(gs, snap.maps, snap.seq)
                          /\ Together(snap.maps, new) /\ Together(snap.maps, a)
      OBVIOUS
    <3>2. /\ Resolve(fs, snap.maps, k) /\ OnDevice(fs, snap.maps, snap.seq)
          /\ Together(snap.maps, a) /\ snap.maps \in AllMaps
      BY <1>5, <3>1 DEF SeqInv, References, LogInv, DiskTypes
    <3> QED
      BY <1>6, <1>11, <3>2, DeviceKeeps, NoneAbove, NoPartsTogether
  <2> QED
    BY <1>1, <1>2, <1>5, <2>1, <2>2 DEF References
<1>14. Placed'
  <2>1. k <= new + 1 /\ k = man.nextSegmentId
    BY <1>5, <1>6
  <2>2. \A id \in DOMAIN gs : id = new \/ gs[id].synced = Len(gs[id].recs)
    <3>1. \A id \in DOMAIN fs : id = a \/ fs[id].synced = Len(fs[id].recs)
      BY <1>5 DEF SeqInv, Placed
    <3> QED
      BY <1>8, <1>9, <3>1
  <2>3. DOMAIN gs \subseteq SealedIds(m') \cup {new} /\ man.active \in DOMAIN gs
    BY <1>2, <1>4, <1>5, <1>6, <1>7, <1>8
  <2> QED
    BY <1>1, <1>2, <1>3, <1>5, <1>8, <2>1, <2>2, <2>3 DEF Placed
<1>15. Written'
  BY <1>2 DEF Written
<1> QED
  BY <1>2, <1>12, <1>13, <1>14, <1>15, NotCompacting

-----------------------------------------------------------------------------
(* Compaction *)

(* Segment new of gs holds copies of records that ids hold in fs, no record *)
(* twice.                                                                   *)
CopiesFrom(gs, fs, new, s, ids) ==
  /\ \A i, j \in 1 .. Len(s) : s[i] = s[j] => i = j
  /\ \A i \in Slots(gs, new) :
       /\ i \in 1 .. Len(s) /\ s[i] \in Locs /\ s[i].seg \in ids
       /\ s[i].off \in Slots(fs, s[i].seg)
       /\ SeqAt(gs, new, i) = SeqAt(fs, s[i].seg, s[i].off)

LEMMA CopyNumbered ==
  ASSUME NEW fs, NEW gs, NEW ids, NEW a, NEW n, NEW new, NEW s, Numbered(fs, ids, a, n),
         CopiesFrom(gs, fs, new, s, ids), gs[a].recs = fs[a].recs
  PROVE  Numbered(gs, {new}, a, n)
<1>1. \A i \in Slots(gs, a) : i \in Slots(fs, a) /\ SeqAt(gs, a, i) = SeqAt(fs, a, i)
  BY SameWithin DEF Within
<1>2. ASSUME NEW i \in Slots(gs, new), NEW j \in Slots(gs, new),
             SeqAt(gs, new, i) = SeqAt(gs, new, j)
      PROVE  i = j
  <2>1. s[i].seg = s[j].seg /\ s[i].off = s[j].off
    BY <1>2 DEF CopiesFrom, Numbered
  <2>2. s[i] = s[j]
    BY <2>1 DEF CopiesFrom, Locs
  <2> QED
    BY <2>2 DEF CopiesFrom
<1>3. ASSUME NEW i \in Slots(gs, new)
      PROVE  /\ SeqAt(gs, new, i) < n
             /\ \A j \in Slots(gs, a) : SeqAt(gs, new, i) < SeqAt(gs, a, j)
  BY <1>1 DEF CopiesFrom, Numbered
<1>4. \A i, j \in Slots(gs, a) : i < j => SeqAt(gs, a, i) < SeqAt(gs, a, j)
  BY <1>1 DEF Numbered
<1> QED
  BY <1>2, <1>3, <1>4 DEF Numbered

(* The output of a compaction is a new file; nothing else changes. *)
CompactAdds(new, r) ==
  /\ \A id \in SealedIds(m) \cup SealedIds(man) \cup {active} : id \in DOMAIN files
  /\ DOMAIN files \subseteq SealedIds(m) \cup {active} /\ new \notin DOMAIN files
  /\ DOMAIN files' \subseteq DOMAIN files \cup {new} /\ DOMAIN files \subseteq DOMAIN files'
  /\ \A id \in DOMAIN files : files'[id] = files[id]
  /\ CopyOrder # <<>> => /\ new \in DOMAIN files' /\ files'[new].recs = r
                         /\ files'[new].synced = Len(r)
  /\ CopyOrder = <<>> => DOMAIN files' = DOMAIN files
  /\ Grows(files, files', man.nextSegmentId) /\ Keeps(files, files', man.nextSegmentId)

LEMMA CompactAddsFile ==
  ASSUME SegmentsSafe, LogInv, SeqInv, CompactWrite
  PROVE  CompactAdds(m.nextSegmentId, [i \in DOMAIN CopyOrder |-> RecordAt(CopyOrder[i])])
<1>0. PICK new, s, r : /\ new = m.nextSegmentId /\ s = CopyOrder
                       /\ r = [i \in DOMAIN CopyOrder |-> RecordAt(CopyOrder[i])]
  OBVIOUS
<1>1. /\ op.step = "idle"
      /\ files' = IF s = <<>> THEN files ELSE Put(files, new, [recs |-> r, synced |-> Len(r)])
  BY <1>0 DEF CompactWrite
<1>2. Up /\ man.active = active
  BY <1>1 DEF Up, SeqInv, Placed
<1>5. PICK fs, gs, a, k : /\ fs = files /\ gs = files' /\ a = active /\ k = man.nextSegmentId
  OBVIOUS
<1>6. /\ new \in Nat /\ k \in Nat /\ a \in Nat /\ a < new /\ k <= new /\ a \in DOMAIN fs
      /\ \A id \in SealedIds(m) \cup SealedIds(man) : id \in Nat /\ id < new /\ id \in DOMAIN fs
      /\ a \notin SealedIds(m) /\ a \notin SealedIds(man)
  BY <1>0, <1>2, <1>5, ActiveFacts
     DEF SegmentsSafe, ActiveApart, WellFormed, ManifestsAgree, Durable, SeqInv, Placed
<1>7. DOMAIN fs \subseteq SealedIds(m) \cup {a} /\ new \notin DOMAIN fs
  <2>1. DOMAIN fs \subseteq SealedIds(m) \cup {a}
    BY <1>1, <1>5 DEF SeqInv, Placed
  <2> QED
    BY <1>6, <2>1
<1>8. /\ DOMAIN gs \subseteq DOMAIN fs \cup {new} /\ DOMAIN fs \subseteq DOMAIN gs
      /\ \A id \in DOMAIN fs : gs[id] = fs[id]
      /\ s # <<>> => new \in DOMAIN gs /\ gs[new].recs = r /\ gs[new].synced = Len(r)
      /\ s = <<>> => DOMAIN gs = DOMAIN fs
  <2>1. CASE s = <<>>
    BY <1>1, <1>5, <2>1
  <2>2. CASE s # <<>>
    <3>1. PICK out : out = [recs |-> r, synced |-> Len(r)]
      OBVIOUS
    <3>2. gs = Put(fs, new, out)
      BY <1>1, <1>5, <2>2, <3>1
    <3>3. /\ DOMAIN gs = DOMAIN fs \cup {new} /\ gs[new] = out
          /\ \A i \in DOMAIN fs : i # new => gs[i] = fs[i]
      BY <3>2, SMT DEF Put
    <3> QED
      BY <1>7, <2>2, <3>1, <3>3
  <2> QED
    BY <2>1, <2>2
<1>9. Grows(fs, gs, k) /\ Keeps(fs, gs, k)
  <2>1. ASSUME NEW id \in DOMAIN gs, id < k PROVE id \in DOMAIN fs
    BY <1>6, <1>8, <2>1
  <2> QED
    BY <1>8, <2>1 DEF Grows, Keeps
<1> QED
  BY <1>0, <1>5, <1>6, <1>7, <1>8, <1>9 DEF CompactAdds

LEMMA CompactWriteSeqs ==
  ASSUME SegmentsSafe, LogInv, SeqInv, CompactWrite
  PROVE  SeqInv'
<1>0. PICK new, s, r : /\ new = m.nextSegmentId /\ s = CopyOrder
                       /\ r = [i \in DOMAIN CopyOrder |-> RecordAt(CopyOrder[i])]
  OBVIOUS
<1>1. /\ op.step = "idle" /\ man' = man /\ snap' = snap /\ active' = active
      /\ buf' = buf /\ maps' = maps /\ m' = [m EXCEPT !.nextSegmentId = @ + 1]
      /\ op' = [step |-> "compactUnsnap", seg |-> new, order |-> s]
      /\ files' = IF s = <<>> THEN files ELSE Put(files, new, [recs |-> r, synced |-> Len(r)])
      /\ \A i \in DOMAIN CopyOrder : Decodes(CopyOrder[i])
  BY <1>0 DEF CompactWrite
<1>2. /\ Up /\ buf = <<>> /\ man.active = active
      /\ op'.step = "compactUnsnap" /\ op'.seg = new /\ op'.order = s
  BY <1>1 DEF Up, LogInv, OpTypes, SeqInv, Placed
<1>3. m'.sealed = m.sealed /\ m'.nextSeq = m.nextSeq /\ m'.nextSegmentId = new + 1
  <2>1. m = [f \in ManifestFields |-> m[f]]
    BY DEF SegmentsSafe, WellFormed
  <2> QED
    BY <1>0, <1>1, <2>1, Zenon DEF ManifestFields
<1>4. SealedIds(m') = SealedIds(m)
  BY <1>3 DEF SealedIds
<1>5. PICK fs, gs, a, k, t : /\ fs = files /\ gs = files' /\ a = active
                             /\ k = man.nextSegmentId /\ t = m.nextSeq
  OBVIOUS
<1>6. /\ new \in Nat /\ k \in Nat /\ a \in Nat /\ a < new /\ k <= new /\ a \in DOMAIN fs
      /\ \A id \in SealedIds(m) \cup SealedIds(man) : id \in Nat /\ id < new /\ id \in DOMAIN fs
      /\ a \notin SealedIds(m) /\ a \notin SealedIds(man)
  BY <1>0, <1>2, <1>5, ActiveFacts
     DEF SegmentsSafe, ActiveApart, WellFormed, ManifestsAgree, Durable, SeqInv, Placed
<1>7. DOMAIN fs \subseteq SealedIds(m) \cup {a} /\ new \notin DOMAIN fs
  <2>1. DOMAIN fs \subseteq SealedIds(m) \cup {a}
    BY <1>1, <1>5 DEF SeqInv, Placed
  <2> QED
    BY <1>6, <2>1
<1>8. /\ CompactAdds(new, r)
      /\ DOMAIN gs \subseteq DOMAIN fs \cup {new} /\ DOMAIN fs \subseteq DOMAIN gs
      /\ \A id \in DOMAIN fs : gs[id] = fs[id]
      /\ s # <<>> => new \in DOMAIN gs /\ gs[new].recs = r /\ gs[new].synced = Len(r)
      /\ s = <<>> => DOMAIN gs = DOMAIN fs
  BY <1>0, <1>5, CompactAddsFile DEF CompactAdds
<1>9. Grows(fs, gs, k) /\ Keeps(fs, gs, k)
  BY <1>5, <1>8 DEF CompactAdds
<1>10. References'
  BY <1>1, <1>2, <1>5, <1>9, QuietReferences
<1>11. FirstFree = t /\ FirstFree' = t /\ t \in Nat
  BY <1>1, <1>2, <1>3, <1>5, SlotsTyped DEF FirstFree
<1>12. Numbering'
  <2>1. \A id \in SealedIds(man) \cup SealedIds(m) \cup {active, man.active} :
          files'[id].recs = files[id].recs
    BY <1>2, <1>5, <1>6, <1>8
  <2>2. \A i \in 1 .. Len(buf') : buf'[i].seq = FirstFree + i - 1
    BY <1>1, <1>2
  <2> QED
    BY <1>1, <1>2, <1>4, <1>11, <2>1, <2>2, QuietNumbering
<1>13. Placed'
  <2>1. k <= new + 1
    BY <1>6
  <2>2. \A id \in DOMAIN gs : id = a \/ gs[id].synced = Len(gs[id].recs)
    <3>1. \A id \in DOMAIN fs : id = a \/ fs[id].synced = Len(fs[id].recs)
      BY <1>5 DEF SeqInv, Placed
    <3> QED
      BY <1>8, <3>1
  <2> QED
    BY <1>1, <1>2, <1>3, <1>5, <1>6, <1>8, <2>1, <2>2 DEF Placed
<1>14. /\ s \in Seq(Locs) /\ DOMAIN r = DOMAIN s
       /\ \A i \in DOMAIN s : Decodes(s[i]) /\ r[i] = RecordAt(s[i])
       /\ \A i, j \in 1 .. Len(s) : s[i] = s[j] => i = j
       /\ \A i \in 1 .. Len(s) : s[i].seg \in SealedIds(m) /\ s[i].seg # a
  <2>1. s \in Seq(Locs)
    BY <1>0, CopyOrderTyped DEF LogInv, MemoryTypes
  <2>2. DOMAIN r = DOMAIN s /\ \A i \in DOMAIN s : Decodes(s[i]) /\ r[i] = RecordAt(s[i])
    BY <1>0, <1>1
  <2>3. References
    BY DEF SeqInv
  <2> QED
    BY <1>0, <1>1, <1>2, <1>5, <2>1, <2>2, <2>3, OrderApart
<1>15. PICK N \in Nat : N = Len(s) /\ DOMAIN s = 1 .. N
  BY <1>14, LenProperties
<1>16. ASSUME NEW i \in 1 .. N
       PROVE  /\ s[i] \in Locs /\ s[i].seg \in DOMAIN fs
              /\ s[i].off \in DOMAIN fs[s[i].seg].recs
              /\ ~ IsTorn(fs[s[i].seg].recs[s[i].off])
              /\ r[i] = fs[s[i].seg].recs[s[i].off]
  <2>1. s[i] \in Locs /\ Decodes(s[i]) /\ r[i] = RecordAt(s[i])
    BY <1>14, <1>15, ElementOfSeq
  <2> QED
    BY <1>5, <2>1 DEF Decodes, RecordAt
<1>17. s # <<>> => Len(r) = N /\ Numbered(gs, {new}, a, t)
  <2>1. SUFFICES ASSUME s # <<>> PROVE Len(r) = N /\ Numbered(gs, {new}, a, t)
    OBVIOUS
  <2>2. Len(r) = N
    <3>1. r \in Seq(LogRecords)
      <4>1. LET rs == [i \in DOMAIN s |-> RecordAt(s[i])]
            IN  rs \in Seq(LogRecords) /\ Len(rs) \in Nat
        BY <1>14, CopiedTyped
      <4> QED
        BY <1>0, <4>1
    <3> QED
      BY <1>14, <1>15, <3>1, LenProperties
  <2>3. ASSUME NEW i \in Slots(gs, new)
        PROVE  /\ i \in 1 .. Len(s) /\ s[i] \in Locs /\ s[i].seg \in SealedIds(m)
               /\ s[i].off \in Slots(fs, s[i].seg)
               /\ SeqAt(gs, new, i) = SeqAt(fs, s[i].seg, s[i].off)
    <3>1. i \in 1 .. N /\ gs[new].recs[i] = r[i]
      BY <1>8, <1>14, <1>15, <2>1 DEF Slots
    <3> QED
      BY <1>14, <1>15, <1>16, <3>1 DEF Slots, SeqAt
  <2>4. CopiesFrom(gs, fs, new, s, SealedIds(m))
    BY <1>14, <2>3 DEF CopiesFrom
  <2>5. Numbered(fs, SealedIds(m), a, t)
    BY <1>2, <1>5, <1>11 DEF SeqInv, Numbering
  <2>6. gs[a].recs = fs[a].recs
    BY <1>6, <1>8
  <2> QED
    BY <2>2, <2>4, <2>5, <2>6, CopyNumbered
<1>18. Copied'
  <2>1. new < new + 1 /\ new # a
    BY <1>6
  <2>2. ASSUME NEW i \in 1 .. N
        PROVE  /\ s[i].seg \in DOMAIN gs /\ s[i].seg # a
               /\ s[i].off \in DOMAIN gs[s[i].seg].recs
               /\ gs[new].recs[i] = gs[s[i].seg].recs[s[i].off]
    <3>1. s # <<>>
      BY <1>15
    <3> QED
      BY <1>8, <1>14, <1>15, <1>16, <3>1
  <2> QED
    BY <1>1, <1>2, <1>3, <1>5, <1>8, <1>15, <1>17, <2>1, <2>2 DEF Copied
<1>19. Written'
  BY <1>2 DEF Written
<1> QED
  BY <1>10, <1>12, <1>13, <1>18, <1>19 DEF SeqInv

LEMMA CompactUnsnapSeqs ==
  ASSUME SegmentsSafe, LogInv, SeqInv, CompactUnsnap
  PROVE  SeqInv'
<1>0. PICK s, info : /\ s = op.order
                     /\ info = [id |-> op.seg, bytes |-> Len(op.order),
                                last |-> CHOOSE t \in {RecordAt(op.order[i]).seq :
                                                          i \in DOMAIN op.order} :
                                           \A u \in {RecordAt(op.order[i]).seq :
                                                       i \in DOMAIN op.order} : u <= t]
  OBVIOUS
<1>1. /\ op.step = "compactUnsnap" /\ snap' = NoSnapshot
      /\ op' = [step |-> "compactPublish", seg |-> op.seg, order |-> s]
      /\ files' = files /\ man' = man /\ active' = active /\ buf' = buf /\ maps' = maps
      /\ m' = [m EXCEPT !.snapshotSeq = 0, !.sealed = IF s = <<>> THEN <<>> ELSE <<info>>,
                        !.tombstones = 0]
  BY <1>0 DEF CompactUnsnap
<1>2. /\ Up /\ buf = <<>> /\ op'.step = "compactPublish" /\ op'.seg = op.seg /\ op'.order = s
      /\ man.active = active
  BY <1>1 DEF Up, LogInv, OpTypes, SeqInv, Placed
<1>3. /\ m'.sealed = (IF s = <<>> THEN <<>> ELSE <<info>>) /\ m'.nextSeq = m.nextSeq
      /\ m'.nextSegmentId = m.nextSegmentId
  <2>1. m = [f \in ManifestFields |-> m[f]]
    BY DEF SegmentsSafe, WellFormed
  <2> QED
    BY <1>1, <2>1, Zenon DEF ManifestFields
<1>4. SealedIds(m') = IF s = <<>> THEN {} ELSE {op.seg}
  <2>1. info.id = op.seg
    BY <1>0
  <2> QED
    BY <1>3, <2>1, EmptyIds, SingleIds
<1>5. PICK a, t : a = active /\ t = m.nextSeq
  OBVIOUS
<1>6. FirstFree = t /\ FirstFree' = t /\ t \in Int /\ Len(buf') = 0
  BY <1>1, <1>2, <1>3, <1>5, SlotsTyped DEF FirstFree
<1>7. Numbered(files, SealedIds(m'), a, t)
  <2>1. CASE s = <<>>
    <3>1. Numbered(files, SealedIds(m), a, t)
      BY <1>2, <1>5, <1>6, Zenon DEF SeqInv, Numbering
    <3> QED
      BY <1>4, <2>1, <3>1 DEF Numbered
  <2>2. CASE s # <<>>
    BY <1>0, <1>1, <1>4, <1>5, <2>2 DEF SeqInv, Copied
  <2> QED
    BY <2>1, <2>2
<1>8. Numbering'
  <2>1. /\ Numbered(files, SealedIds(man), man.active, man.nextSeq) /\ man.nextSeq <= t
        /\ \A i \in Slots(files, a) : SeqAt(files, a, i) < t
    BY <1>2, <1>5, <1>6 DEF SeqInv, Numbering
  <2> QED
    BY <1>1, <1>5, <1>6, <1>7, <2>1 DEF Numbering
<1>9. References'
  <2>1. snap'.exists = FALSE
    BY <1>1, Zenon DEF NoSnapshot
  <2>2. /\ Resolve(files, maps, man.nextSegmentId)
        /\ Together(maps, active) /\ Together(maps, man.active)
    BY <1>2 DEF SeqInv, References
  <2> QED
    BY <1>1, <2>1, <2>2, Zenon DEF References
<1>10. Placed'
  BY <1>1, <1>2, <1>3 DEF SeqInv, Placed
<1>11. Copied'
  BY <1>0, <1>1, <1>2, <1>3 DEF SeqInv, Copied
<1>12. Written'
  BY <1>2 DEF Written
<1> QED
  BY <1>8, <1>9, <1>10, <1>11, <1>12 DEF SeqInv

(* Removing the replaced segments takes nothing the manifest names. *)
LEMMA CompactRemoveSeqs ==
  ASSUME SegmentsSafe, LogInv, SeqInv, CompactRemove
  PROVE  SeqInv'
<1>1. /\ op.step = "compactRemove" /\ op' = At("snapshot")
      /\ man' = man /\ snap' = snap /\ m' = m /\ active' = active
      /\ buf' = buf /\ maps' = maps
      /\ files' = [id \in DOMAIN files \cap (SealedIds(m) \cup {active}) |-> files[id]]
  BY DEF CompactRemove, memory
<1>2. Up /\ buf = <<>> /\ op'.step = "snapshot" /\ man.active = active /\ m = man
  BY <1>1 DEF Up, At, LogInv, OpTypes, SeqInv, Placed, SegmentsSafe, ManifestsAgree
<1>3. /\ DOMAIN files' \subseteq DOMAIN files /\ active \in DOMAIN files'
      /\ DOMAIN files' \subseteq SealedIds(m) \cup {active}
      /\ \A id \in DOMAIN files' : files'[id] = files[id]
      /\ \A id \in SealedIds(m) : id \in DOMAIN files'
  BY <1>1 DEF SegmentsSafe, Durable, ActiveApart
<1>4. Numbering'
  <2>1. \A id \in SealedIds(man) \cup SealedIds(m) \cup {active, man.active} :
          files'[id].recs = files[id].recs
    BY <1>2, <1>3
  <2>2. \A i \in 1 .. Len(buf') : buf'[i].seq = FirstFree + i - 1
    BY <1>1, <1>2
  <2>3. FirstFree' = FirstFree /\ SealedIds(m') = SealedIds(m)
    BY <1>1 DEF FirstFree
  <2> QED
    BY <1>1, <1>2, <2>1, <2>2, <2>3, QuietNumbering
<1>5. References'
  <2>1. Grows(files, files', man.nextSegmentId) /\ Keeps(files, files', man.nextSegmentId)
    BY <1>3 DEF Grows, Keeps
  <2> QED
    BY <1>1, <1>2, <2>1, QuietReferences
<1>6. Placed'
  <2>1. /\ man.nextSegmentId <= m.nextSegmentId
        /\ \A id \in DOMAIN files : id = active \/ files[id].synced = Len(files[id].recs)
    BY DEF SeqInv, Placed
  <2>2. \A id \in DOMAIN files' : id = active \/ files'[id].synced = Len(files'[id].recs)
    BY <1>3, <2>1
  <2> QED
    BY <1>1, <1>2, <1>3, <2>1, <2>2 DEF Placed
<1>7. Written'
  BY <1>2 DEF Written
<1> QED
  BY <1>2, <1>4, <1>5, <1>6, <1>7, NotCompacting

(* Every reference of new is one of mp, moved or not. *)
Moved(new, mp) ==
  /\ DOMAIN new.docs = DOMAIN mp.docs
  /\ \A d \in DOMAIN mp.docs : new.docs[d].loc = Relocate(mp.docs[d].loc)
  /\ \A x \in Refs(new) : \E y \in Refs(mp) :
       /\ x.kind = y.kind /\ x.doc = y.doc /\ x.mark = y.mark /\ x.loc = Relocate(y.loc)

LEMMA PublishMoves ==
  ASSUME LogInv, CompactPublish
  PROVE  Moved(maps', maps)
<1>1. PICK new : new = maps'
  OBVIOUS
<1>2. new = [docs |-> [d \in DOMAIN maps.docs |-> [maps.docs[d] EXCEPT !.loc = Relocate(@)]],
             splits |-> [k \in DOMAIN maps.splits |-> Relocate(maps.splits[k])],
             summaries |-> [k \in DOMAIN maps.summaries |-> Relocate(maps.summaries[k])]]
  BY <1>1 DEF CompactPublish
<1>3. /\ new.docs = [d \in DOMAIN maps.docs |-> [maps.docs[d] EXCEPT !.loc = Relocate(@)]]
      /\ new.splits = [k \in DOMAIN maps.splits |-> Relocate(maps.splits[k])]
      /\ new.summaries = [k \in DOMAIN maps.summaries |-> Relocate(maps.summaries[k])]
  BY <1>2
<1>4. DOMAIN new.docs = DOMAIN maps.docs
  BY <1>3
<1>5. ASSUME NEW d \in DOMAIN maps.docs
      PROVE  /\ new.docs[d].loc = Relocate(maps.docs[d].loc)
             /\ new.docs[d].seq = maps.docs[d].seq
  <2>1. PICK e : e = maps.docs[d]
    OBVIOUS
  <2>2. PICK l : l = Relocate(e.loc)
    OBVIOUS
  <2>3. e \in Entries
    <3>1. maps.docs \in [DOMAIN maps.docs -> Entries]
      BY DocMapFacts DEF LogInv, MemoryTypes, AllMaps
    <3> QED
      BY <2>1, <3>1
  <2>4. new.docs[d] = [e EXCEPT !.loc = l]
    BY <1>3, <2>1, <2>2
  <2>5. [e EXCEPT !.loc = l].loc = l /\ [e EXCEPT !.loc = l].seq = e.seq
    BY <2>3 DEF Entries
  <2> QED
    BY <2>1, <2>2, <2>4, <2>5
<1>6. ASSUME NEW kind, NEW f, NEW g, g = [k \in DOMAIN f |-> Relocate(f[k])],
             NEW x \in PartRefs(kind, g)
      PROVE  \E y \in PartRefs(kind, f) :
               x.kind = y.kind /\ x.doc = y.doc /\ x.mark = y.mark /\ x.loc = Relocate(y.loc)
  <2>1. PICK k \in DOMAIN f : x = Ref(kind, k[1], k[2], g[k])
    BY <1>6 DEF PartRefs
  <2>2. PICK y : y = Ref(kind, k[1], k[2], f[k])
    OBVIOUS
  <2>3. y \in PartRefs(kind, f)
    BY <2>2 DEF PartRefs
  <2>4. /\ x.kind = kind /\ x.doc = k[1] /\ x.mark = k[2] /\ x.loc = g[k]
        /\ y.kind = kind /\ y.doc = k[1] /\ y.mark = k[2] /\ y.loc = f[k]
    BY <2>1, <2>2 DEF Ref
  <2>5. g[k] = Relocate(f[k])
    BY <1>6
  <2> QED
    BY <2>3, <2>4, <2>5
<1>7. ASSUME NEW x \in DocRefs(new.docs)
      PROVE  \E y \in DocRefs(maps.docs) :
               x.kind = y.kind /\ x.doc = y.doc /\ x.mark = y.mark /\ x.loc = Relocate(y.loc)
  <2>1. PICK d \in DOMAIN maps.docs : x = Ref("Doc", d, new.docs[d].seq, new.docs[d].loc)
    BY <1>4 DEF DocRefs
  <2>2. PICK y : y = Ref("Doc", d, maps.docs[d].seq, maps.docs[d].loc)
    OBVIOUS
  <2>3. y \in DocRefs(maps.docs)
    BY <2>2 DEF DocRefs
  <2>4. /\ x.kind = "Doc" /\ x.doc = d /\ x.mark = new.docs[d].seq /\ x.loc = new.docs[d].loc
        /\ y.kind = "Doc" /\ y.doc = d /\ y.mark = maps.docs[d].seq /\ y.loc = maps.docs[d].loc
    BY <2>1, <2>2 DEF Ref
  <2> QED
    BY <1>5, <2>3, <2>4
<1>8. ASSUME NEW x \in Refs(new)
      PROVE  \E y \in Refs(maps) :
               x.kind = y.kind /\ x.doc = y.doc /\ x.mark = y.mark /\ x.loc = Relocate(y.loc)
  <2>1. CASE x \in DocRefs(new.docs)
    BY <1>7, <2>1 DEF Refs
  <2>2. CASE x \in PartRefs("Split", new.splits)
    BY <1>3, <1>6, <2>2 DEF Refs
  <2>3. CASE x \in PartRefs("Summary", new.summaries)
    BY <1>3, <1>6, <2>3 DEF Refs
  <2> QED
    BY <2>1, <2>2, <2>3 DEF Refs
<1>9. Moved(new, maps)
  BY <1>4, <1>5, <1>8 DEF Moved
<1> QED
  BY <1>1, <1>9

(* Where a location goes. *)
LEMMA RelocateTo ==
  ASSUME LogInv, op.step = "compactPublish", NEW loc
  PROVE  \/ Relocate(loc) = loc /\ \A i \in 1 .. Len(op.order) : op.order[i] # loc
         \/ \E i \in 1 .. Len(op.order) :
              /\ op.order[i] = loc
              /\ Relocate(loc).seg = op.seg /\ Relocate(loc).off = i
<1>1. DOMAIN op.order = 1 .. Len(op.order)
  BY LenProperties DEF LogInv, OpTypes
<1>2. PICK at : at = {i \in DOMAIN op.order : op.order[i] = loc}
  OBVIOUS
<1>3. Relocate(loc) = IF at = {} THEN loc ELSE [seg |-> op.seg, off |-> CHOOSE i \in at : TRUE]
  BY <1>2 DEF Relocate
<1>4. CASE at = {}
  BY <1>1, <1>2, <1>3, <1>4
<1>5. CASE at # {}
  <2>1. PICK i : i = CHOOSE j \in at : TRUE
    OBVIOUS
  <2>2. i \in at
    BY <1>5, <2>1
  <2>3. Relocate(loc) = [seg |-> op.seg, off |-> i]
    BY <1>3, <1>5, <2>1
  <2> QED
    BY <1>1, <1>2, <2>2, <2>3
<1> QED
  BY <1>4, <1>5

LEMMA CompactPublishSeqs ==
  ASSUME SegmentsSafe, LogInv, SeqInv, CompactPublish
  PROVE  SeqInv'
<1>1. /\ op.step = "compactPublish" /\ man' = m /\ op' = At("compactRemove")
      /\ files' = files /\ snap' = snap /\ m' = m /\ active' = active /\ buf' = buf
  BY DEF CompactPublish
<1>2. Up /\ buf = <<>> /\ op'.step = "compactRemove" /\ m.active = active
  BY <1>1 DEF Up, At, LogInv, OpTypes, SegmentsSafe, ActiveApart
<1>3. Numbering'
  BY <1>1, <1>2, PublishedSeqs
<1>4. PICK fs, new, a, s : fs = files /\ new = maps' /\ a = active /\ s = op.seg
  OBVIOUS
<1>5. PICK n, k \in Nat : n = man.nextSegmentId /\ k = m.nextSegmentId
  BY SlotsTyped
<1>6. n <= k
  BY <1>5 DEF SeqInv, Placed
<1>7. Resolve(fs, maps, n) /\ Together(maps, a) /\ maps \in AllMaps
  BY <1>2, <1>4, <1>5 DEF SeqInv, References, LogInv, MemoryTypes
<1>8. Moved(new, maps)
  BY <1>4, PublishMoves
<1>9. PICK ord, N : ord = op.order /\ N = Len(op.order)
  OBVIOUS
<1>10. /\ s < k
       /\ ord # <<>> => s \in DOMAIN fs /\ s # a /\ Len(fs[s].recs) = N
       /\ \A i \in 1 .. N : /\ ord[i].seg \in DOMAIN fs /\ ord[i].seg # a
                            /\ ord[i].off \in DOMAIN fs[ord[i].seg].recs
                            /\ fs[s].recs[i] = fs[ord[i].seg].recs[ord[i].off]
  BY <1>1, <1>4, <1>5, <1>9 DEF SeqInv, Copied
<1>11. ASSUME NEW i \in 1 .. N PROVE s \in DOMAIN fs /\ s # a /\ i \in DOMAIN fs[s].recs
  <2>1. ord # <<>>
    <3>1. N = Len(ord)
      BY <1>9
    <3> QED
      BY <3>1
  <2>2. s \in DOMAIN fs /\ s # a /\ Len(fs[s].recs) = N
    BY <1>10, <2>1
  <2>3. fs[s].recs \in Seq(LogRecords \cup {Torn})
    BY <1>4, <2>2 DEF LogInv, DiskTypes, FilesTyped, Segments
  <2>4. DOMAIN fs[s].recs = 1 .. N
    BY <2>2, <2>3, LenProperties
  <2> QED
    BY <2>2, <2>4
<1>12. ASSUME NEW loc
       PROVE  \/ Relocate(loc) = loc /\ \A i \in 1 .. N : ord[i] # loc
              \/ \E i \in 1 .. N : ord[i] = loc /\ Relocate(loc).seg = s /\ Relocate(loc).off = i
  BY <1>1, <1>4, <1>9, RelocateTo
<1>13. ASSUME NEW x \in Refs(new) PROVE x.loc.seg < k /\ Right(fs, x)
  <2>1. PICK y \in Refs(maps) :
          x.kind = y.kind /\ x.doc = y.doc /\ x.mark = y.mark /\ x.loc = Relocate(y.loc)
    BY <1>8 DEF Moved
  <2>2. y.loc.seg < n /\ Right(fs, y) /\ y.loc.seg \in Nat
    BY <1>7, RefTyped DEF Resolve, Locs
  <2>3. CASE x.loc = y.loc
    BY <1>6, <2>1, <2>2, <2>3 DEF Right, Meant
  <2>4. CASE \E i \in 1 .. N : ord[i] = y.loc /\ x.loc.seg = s /\ x.loc.off = i
    <3>1. PICK i \in 1 .. N : ord[i] = y.loc /\ x.loc.seg = s /\ x.loc.off = i
      BY <2>4
    <3>2. PICK rec : rec = fs[s].recs[i]
      OBVIOUS
    <3>3. Meant(y, rec)
      BY <1>10, <2>2, <3>1, <3>2 DEF Right
    <3>4. Meant(x, rec)
      BY <2>1, <3>3 DEF Meant
    <3> QED
      BY <1>10, <1>11, <3>1, <3>2, <3>4 DEF Right
  <2> QED
    BY <1>12, <2>1, <2>3, <2>4
<1>14. ASSUME NEW x \in Refs(new), x.kind # "Doc", x.doc \in DOMAIN new.docs, x.loc.seg = a
       PROVE  new.docs[x.doc].loc.seg = a
  <2>1. PICK y \in Refs(maps) :
          x.kind = y.kind /\ x.doc = y.doc /\ x.mark = y.mark /\ x.loc = Relocate(y.loc)
    BY <1>8 DEF Moved
  <2>2. x.loc = y.loc
    BY <1>11, <1>12, <1>14, <2>1
  <2>3. /\ y.doc \in DOMAIN maps.docs
        /\ new.docs[y.doc].loc = Relocate(maps.docs[y.doc].loc)
    BY <1>8, <1>14, <2>1 DEF Moved
  <2>4. maps.docs[y.doc].loc.seg = a
    BY <1>7, <1>14, <2>1, <2>2, <2>3 DEF Together
  <2>5. Relocate(maps.docs[y.doc].loc) = maps.docs[y.doc].loc
    BY <1>10, <1>12, <2>4
  <2> QED
    BY <2>1, <2>3, <2>4, <2>5
<1>15. Resolve(fs, new, k) /\ Together(new, a)
  BY <1>13, <1>14 DEF Resolve, Together
<1>16. snap.exists => /\ Resolve(fs, snap.maps, k) /\ Together(snap.maps, a)
                      /\ OnDevice(fs, snap.maps, snap.seq)
  <2>1. snap.exists => /\ Resolve(fs, snap.maps, n) /\ Together(snap.maps, a)
                       /\ OnDevice(fs, snap.maps, snap.seq) /\ snap.maps \in AllMaps
    BY <1>4, <1>5 DEF SeqInv, References, LogInv, DiskTypes
  <2> QED
    BY <1>5, <1>6, <2>1, ResolveHigher
<1>17. References'
  BY <1>1, <1>2, <1>4, <1>5, <1>15, <1>16 DEF References
<1>18. Placed'
  <2>1. active \in DOMAIN files /\ m.nextSegmentId <= m.nextSegmentId
    BY <1>2, ActiveFacts, SlotsTyped
  <2> QED
    BY <1>1, <1>2, <2>1 DEF SeqInv, Placed
<1>19. Written'
  BY <1>2 DEF Written
<1> QED
  BY <1>2, <1>3, <1>17, <1>18, <1>19, NotCompacting

-----------------------------------------------------------------------------
(* Crashing and opening *)

(* A step that leaves the store closed, or opening. *)
LEMMA ClosedSeqs ==
  ASSUME SegmentsSafe, LogInv, SeqInv, op'.step \in {"down", "reject", "replay"},
         SealedIds(man') = SealedIds(man), man'.active = man.active,
         man'.nextSeq = man.nextSeq, man'.nextSegmentId = man.nextSegmentId,
         active' = man.active, snap' = snap \/ snap' = NoSnapshot,
         Keeps(files, files', man.nextSegmentId),
         Numbered(files', SealedIds(man), man.active, man.nextSeq)
  PROVE  Numbering' /\ References' /\ Copied' /\ Written'
<1>1. ~ Up'
  BY DEF Up
<1>2. Numbering'
  BY <1>1 DEF Numbering
<1>3. PICK fs, gs, n, a : /\ fs = files /\ gs = files' /\ n = man.nextSegmentId
                          /\ a = man.active
  OBVIOUS
<1>4. snap.exists => /\ Resolve(gs, snap.maps, n) /\ OnDevice(gs, snap.maps, snap.seq)
                     /\ Together(snap.maps, a)
  <2>1. SUFFICES ASSUME snap.exists
                 PROVE  /\ Resolve(gs, snap.maps, n) /\ OnDevice(gs, snap.maps, snap.seq)
                        /\ Together(snap.maps, a)
    OBVIOUS
  <2>2. /\ Resolve(fs, snap.maps, n) /\ OnDevice(fs, snap.maps, snap.seq) /\ Keeps(fs, gs, n)
        /\ Together(snap.maps, a)
    BY <1>3, <2>1 DEF SeqInv, References
  <2> QED
    BY <2>2, DeviceKeeps
<1>5. References'
  <2>1. CASE snap' = snap
    BY <1>1, <1>3, <1>4, <2>1 DEF References
  <2>2. CASE snap' = NoSnapshot
    <3>1. snap'.exists = FALSE
      BY <2>2, Zenon DEF NoSnapshot
    <3> QED
      BY <1>1, <3>1, Zenon DEF References
  <2> QED
    BY <2>1, <2>2
<1>6. Copied' /\ Written'
  BY DEF Copied, Written
<1> QED
  BY <1>2, <1>5, <1>6

(* What a dying process leaves of its buffer: a beginning of it, the last   *)
(* record perhaps cut short.                                                *)
Remains(tail) ==
  Len(tail) <= Len(buf) /\ \A i \in 1 .. Len(tail) : IsTorn(tail[i]) \/ tail[i] = buf[i]

LEMMA CrashLeaves ==
  ASSUME SegmentsSafe, LogInv, Crash
  PROVE  /\ \E tail : Behind(files', files, active, tail) /\ Remains(tail)
         /\ OnlySegment(active) /\ active \in DOMAIN files
<1>1. op.step \notin {"down", "broken"}
  BY DEF Crash
<1>2. PICK k \in 0 .. Len(buf), torn \in {<<>>, <<Torn>>} :
        /\ torn # <<>> => k < Len(buf)
        /\ files' = [files EXCEPT ![active].recs = @ \o SubSeq(buf, 1, k) \o torn]
  BY DEF Crash
<1>3. /\ active \in DOMAIN files /\ files = [id \in DOMAIN files |-> files[id]]
  BY <1>1 DEF SegmentsSafe, ActiveApart
<1>4. OnlySegment(active)
  BY <1>2, <1>3, Zenon DEF OnlySegment
<1>5. PICK f, g : f = files[active] /\ g = files'[active]
  OBVIOUS
<1>6. PICK S, q, b : S = LogRecords \cup {Torn} /\ q = f.recs /\ b = buf
  OBVIOUS
<1>7. f \in Segments /\ q \in Seq(S) /\ b \in Seq(S) /\ torn \in Seq(S)
  <2>1. Torn \in S
    BY <1>6
  <2>2. torn \in Seq(S)
    <3>1. CASE torn = <<>>
      BY <3>1
    <3>2. CASE torn = <<Torn>>
      BY <2>1, <3>2
    <3> QED
      BY <3>1, <3>2
  <2>3. f \in Segments /\ buf \in Seq(LogRecords)
    BY <1>3, <1>5 DEF LogInv, DiskTypes, FilesTyped, MemoryTypes
  <2>4. b \in Seq(S)
    BY <1>6, <2>3, WholeRecords
  <2> QED
    BY <1>6, <2>2, <2>3, <2>4 DEF Segments
<1>8. PICK head : head = SubSeq(b, 1, k)
  OBVIOUS
<1>9. PICK B \in Nat : B = Len(b)
  BY <1>7, LenProperties
<1>10. k \in 0 .. B /\ (torn # <<>> => k < B)
  BY <1>2, <1>6, <1>9
<1>11. head \in Seq(S) /\ Len(head) = k /\ \A i \in 1 .. k : head[i] = b[i]
  <2>1. \A i \in 1 .. k : b[i] \in S
    BY <1>7, <1>9, <1>10, ElementOfSeq
  <2> QED
    BY <1>7, <1>8, <1>9, <1>10, <2>1, SubSeqProperties
<1>12. PICK t \in 0 .. 1 : /\ t = Len(torn) /\ t <= 1 /\ k + t <= B
                           /\ \A i \in 1 .. t : torn[i] = Torn
  <2>1. CASE torn = <<>>
    BY <1>10, <2>1
  <2>2. CASE torn = <<Torn>>
    BY <1>10, <2>2
  <2> QED
    BY <2>1, <2>2
<1>13. PICK mid, tail, left : mid = q \o head /\ tail = head \o torn /\ left = mid \o torn
  OBVIOUS
<1>14. PICK L \in Nat : L = Len(q)
  BY <1>7, LenProperties
<1>15. /\ mid \in Seq(S) /\ Len(mid) = Len(q) + Len(head)
       /\ \A i \in 1 .. Len(q) + Len(head) :
            mid[i] = IF i <= Len(q) THEN q[i] ELSE head[i - Len(q)]
  BY <1>7, <1>11, <1>13, ConcatProperties, Zenon
<1>16. /\ tail \in Seq(S) /\ Len(tail) = Len(head) + Len(torn)
       /\ \A i \in 1 .. Len(head) + Len(torn) :
            tail[i] = IF i <= Len(head) THEN head[i] ELSE torn[i - Len(head)]
  <2>1. head \in Seq(S) /\ torn \in Seq(S) /\ tail = head \o torn
    BY <1>7, <1>11, <1>13
  <2> QED
    BY <2>1, ConcatProperties, Zenon
<1>17. /\ left \in Seq(S) /\ Len(left) = Len(mid) + Len(torn)
       /\ \A i \in 1 .. Len(mid) + Len(torn) :
            left[i] = IF i <= Len(mid) THEN mid[i] ELSE torn[i - Len(mid)]
  <2>1. mid \in Seq(S) /\ torn \in Seq(S) /\ left = mid \o torn
    BY <1>7, <1>13, <1>15
  <2> QED
    BY <2>1, ConcatProperties, Zenon
<1>18. Len(mid) = L + k /\ Len(tail) = k + t /\ Len(left) = L + k + t
  <2>1. Len(head) = k /\ Len(torn) = t /\ Len(q) = L
    BY <1>11, <1>12, <1>14
  <2>2. /\ Len(mid) = Len(q) + Len(head) /\ Len(tail) = Len(head) + Len(torn)
        /\ Len(left) = Len(mid) + Len(torn)
    BY <1>15, <1>16, <1>17
  <2> QED
    BY <2>1, <2>2, Zenon
<1>19. /\ \A i \in 1 .. L + k : mid[i] = IF i <= L THEN q[i] ELSE head[i - L]
       /\ \A i \in 1 .. k + t : tail[i] = IF i <= k THEN head[i] ELSE torn[i - k]
       /\ \A i \in 1 .. L + k + t : left[i] = IF i <= L + k THEN mid[i] ELSE torn[i - (L + k)]
  <2>1. Len(head) = k /\ Len(torn) = t /\ Len(q) = L /\ Len(mid) = L + k
    BY <1>11, <1>12, <1>14, <1>18
  <2>2. \A i \in 1 .. L + k : mid[i] = IF i <= L THEN q[i] ELSE head[i - L]
    BY <1>15, <2>1, Zenon
  <2>3. \A i \in 1 .. k + t : tail[i] = IF i <= k THEN head[i] ELSE torn[i - k]
    BY <1>16, <2>1, Zenon
  <2>4. \A i \in 1 .. L + k + t : left[i] = IF i <= L + k THEN mid[i] ELSE torn[i - (L + k)]
    BY <1>17, <2>1, Zenon
  <2> QED
    BY <2>2, <2>3, <2>4
<1>20. ASSUME NEW i \in 1 .. L PROVE left[i] = q[i]
  <2>1. i \in 1 .. L + k + t /\ i <= L + k /\ i \in 1 .. L + k /\ i <= L
    OBVIOUS
  <2> QED
    BY <1>19, <2>1
<1>21. ASSUME NEW i \in 1 .. k + t
       PROVE  left[L + i] = tail[i] /\ (IsTorn(tail[i]) \/ tail[i] = b[i])
  <2>1. CASE i <= k
    <3>1. /\ L + i \in 1 .. L + k + t /\ L + i <= L + k /\ L + i \in 1 .. L + k
          /\ ~ (L + i <= L) /\ (L + i) - L = i /\ i \in 1 .. k
      BY <2>1
    <3>2. left[L + i] = mid[L + i] /\ mid[L + i] = head[i] /\ tail[i] = head[i]
      BY <1>19, <2>1, <3>1
    <3> QED
      BY <1>11, <3>1, <3>2
  <2>2. CASE i > k
    <3>1. PICK j \in 1 .. t : i = k + j
      <4>1. i - k \in 1 .. t /\ i = k + (i - k)
        BY <2>2
      <4> QED
        BY <4>1
    <3>2. /\ L + i \in 1 .. L + k + t /\ ~ (L + i <= L + k) /\ (L + i) - (L + k) = j
          /\ ~ (i <= k) /\ i - k = j
      BY <2>2, <3>1
    <3>3. left[L + i] = torn[j] /\ tail[i] = torn[j]
      BY <1>19, <3>2
    <3> QED
      BY <1>12, <3>3 DEF IsTorn, Torn
  <2> QED
    BY <2>1, <2>2
<1>22. g.recs = left /\ g.synced = f.synced
  <2>1. g = [f EXCEPT !.recs = @ \o SubSeq(buf, 1, k) \o torn]
    BY <1>2, <1>3, <1>5, Zenon
  <2>2. g = [f EXCEPT !.recs = left]
    BY <1>6, <1>8, <1>13, <2>1
  <2> QED
    BY <1>7, <2>2 DEF Segments
<1>23. DOMAIN q = 1 .. L /\ DOMAIN left = 1 .. L + (k + t)
  <2>1. DOMAIN q = 1 .. L /\ DOMAIN left = 1 .. L + k + t
    BY <1>7, <1>14, <1>17, <1>18, LenProperties
  <2>2. L + k + t = L + (k + t)
    OBVIOUS
  <2> QED
    BY <2>1, <2>2
<1>24. k + t \in Nat
  OBVIOUS
<1>25. Behind(files', files, active, tail)
  BY <1>4, <1>5, <1>6, <1>14, <1>18, <1>20, <1>21, <1>22, <1>23, <1>24 DEF Behind, OnlySegment
<1>26. Remains(tail)
  BY <1>6, <1>9, <1>12, <1>18, <1>21 DEF Remains
<1> QED
  BY <1>3, <1>4, <1>25, <1>26

(* Nothing behind the active segment: nothing changed. *)
LEMMA BehindNothing ==
  ASSUME NEW fs, NEW gs, NEW a, NEW tail, Behind(gs, fs, a, tail), Len(tail) <= 0
  PROVE  DOMAIN gs[a].recs = DOMAIN fs[a].recs /\ \A p \in DOMAIN fs : Within(gs, fs, p)
<1>1. PICK L, k \in Nat : L = Len(fs[a].recs) /\ k = Len(tail)
  BY DEF Behind
<1>2. /\ DOMAIN gs = DOMAIN fs /\ \A id \in DOMAIN fs : id # a => gs[id] = fs[id]
      /\ DOMAIN fs[a].recs = 1 .. L /\ DOMAIN gs[a].recs = 1 .. L + k
      /\ \A i \in 1 .. L : gs[a].recs[i] = fs[a].recs[i]
  BY <1>1 DEF Behind
<1>3. L + k = L
  BY <1>1
<1>4. Within(gs, fs, a)
  BY <1>2, <1>3 DEF Within, Slots, SeqAt
<1>5. ASSUME NEW p \in DOMAIN fs, p # a PROVE Within(gs, fs, p)
  <2>1. gs[p].recs = fs[p].recs
    BY <1>2, <1>5
  <2> QED
    BY <2>1, SameWithin
<1> QED
  BY <1>2, <1>3, <1>4, <1>5

LEMMA CrashSeqs ==
  ASSUME SegmentsSafe, LogInv, SeqInv, Crash
  PROVE  SeqInv'
<1>1. /\ op.step \notin {"down", "broken"} /\ man' = man /\ snap' = snap /\ m' = man
      /\ active' = man.active /\ op' = At("down")
  BY DEF Crash, Forget
<1>2. op'.step = "down"
  BY <1>1 DEF At
<1>3. PICK tail : Behind(files', files, active, tail) /\ Remains(tail)
  BY CrashLeaves
<1>4. OnlySegment(active) /\ active \in DOMAIN files
  BY CrashLeaves
<1>5. Keeps(files, files', man.nextSegmentId)
  BY <1>3, BehindGrows
<1>6. PICK ids, b, n : ids = SealedIds(man) /\ b = man.active /\ n = man.nextSeq
  OBVIOUS
<1>7. ids \in SUBSET DOMAIN files /\ active \notin ids /\ n \in Int /\ Numbered(files, ids, b, n)
  BY <1>6, SlotsTyped DEF SegmentsSafe, ActiveApart, SeqInv, Numbering
<1>8. op.step \notin {"insert", "delete"} =>
        \A p \in DOMAIN files : Within(files', files, p)
  <2>1. SUFFICES ASSUME op.step \notin {"insert", "delete"}
                 PROVE  \A p \in DOMAIN files : Within(files', files, p)
    OBVIOUS
  <2>2. Len(tail) <= 0
    BY <1>3, <2>1 DEF LogInv, OpTypes, Remains
  <2> QED
    BY <1>3, <2>2, BehindNothing
<1>9. Numbered(files', ids, b, n)
  <2>1. CASE op.step \in {"insert", "delete"}
    <3>1. Up /\ b = active /\ n <= FirstFree
      BY <1>6, <2>1 DEF Up, SeqInv, Placed, Numbering
    <3>2. Numbered(files, ids, active, n)
      BY <1>7, <3>1
    <3>3. /\ Len(tail) <= Len(buf)
          /\ \A i \in 1 .. Len(tail) : IsTorn(tail[i]) \/ tail[i] = buf[i]
      BY <1>3 DEF Remains
    <3>4. Numbered(files', ids, active, n)
      BY <1>3, <1>7, <3>1, <3>2, <3>3, BehindNumbered
    <3> QED
      BY <3>1, <3>4
  <2>2. CASE op.step \notin {"insert", "delete"}
    <3>1. PICK fs, gs : fs = files /\ gs = files'
      OBVIOUS
    <3>2. \A p \in ids : Within(gs, fs, p) /\ \A i \in Slots(fs, p) : SeqAt(fs, p, i) \in Nat
      BY <1>7, <1>8, <2>2, <3>1, SlotsTyped
    <3>3. Within(gs, fs, b) /\ Numbered(fs, ids, b, n) /\ n <= n
      BY <1>6, <1>7, <1>8, <2>2, <3>1 DEF SeqInv, Placed
    <3>4. Numbered(gs, ids, b, n)
      BY <1>7, <3>2, <3>3, NumberedWithin
    <3> QED
      BY <3>1, <3>4
  <2> QED
    BY <2>1, <2>2
<1>10. Numbering' /\ References' /\ Copied' /\ Written'
  BY <1>1, <1>2, <1>5, <1>6, <1>9, ClosedSeqs
<1>11. Placed'
  <2>1. /\ DOMAIN files' = DOMAIN files
        /\ \A id \in DOMAIN files : id # active => files'[id] = files[id]
    BY <1>4 DEF OnlySegment
  <2>2. /\ man.active \in DOMAIN files
        /\ \A id \in DOMAIN files : id = active \/ files[id].synced = Len(files[id].recs)
    BY DEF SeqInv, Placed
  <2>3. CASE man.active = active
    BY <1>1, <1>2, <2>1, <2>2, <2>3, SlotsTyped DEF Placed
  <2>4. CASE man.active # active
    <3>1. op.step = "sealPublish" /\ files[active] = EmptySegment
      BY <2>4 DEF SeqInv, Placed
    <3>2. files[active].recs = <<>> /\ files[active].synced = 0
      BY <3>1 DEF EmptySegment
    <3>3. Len(tail) <= 0
      BY <1>3, <3>1 DEF LogInv, OpTypes, Remains
    <3>4. DOMAIN files'[active].recs = {} /\ files'[active].synced = 0
      BY <1>3, <3>2, <3>3, BehindNothing DEF Behind
    <3>5. files'[active].recs \in Seq(LogRecords \cup {Torn})
      BY <1>4, <2>1, CrashTyped DEF LogInv, DiskTypes, FilesTyped, Segments
    <3>6. Len(files'[active].recs) = 0
      <4>1. PICK r, S : r = files'[active].recs /\ S = LogRecords \cup {Torn}
        OBVIOUS
      <4>2. r \in Seq(S) /\ DOMAIN r = {}
        BY <3>4, <3>5, <4>1
      <4>3. Len(r) \in Nat /\ 1 .. Len(r) = {}
        BY <4>2, LenProperties
      <4>4. Len(r) = 0
        BY <4>3
      <4> QED
        BY <4>1, <4>4
    <3>7. \A id \in DOMAIN files' : files'[id].synced = Len(files'[id].recs)
      BY <2>1, <2>2, <3>4, <3>6
    <3> QED
      BY <1>1, <1>2, <2>1, <2>2, <3>7, SlotsTyped DEF Placed
  <2> QED
    BY <2>3, <2>4
<1> QED
  BY <1>10, <1>11 DEF SeqInv

(* gs is fs but for segment a, of which the first records are left, all of *)
(* them synced, and perhaps a piece of the next.                           *)
Shortened(gs, fs, a) ==
  /\ DOMAIN gs = DOMAIN fs /\ \A id \in DOMAIN fs : id # a => gs[id] = fs[id]
  /\ gs[a].synced = Len(gs[a].recs)
  /\ \E j \in Nat :
       /\ \A i \in 1 .. j : /\ i \in DOMAIN gs[a].recs /\ i \in DOMAIN fs[a].recs
                            /\ gs[a].recs[i] = fs[a].recs[i]
       /\ \A i \in DOMAIN gs[a].recs :
            i \in Nat \ {0} /\ (IsTorn(gs[a].recs[i]) \/ i \in 1 .. j)

LEMMA PowerLossLeaves ==
  ASSUME SegmentsSafe, LogInv, PowerLoss
  PROVE  /\ Shortened(files', files, man.active)
         /\ Keeps(files, files', man.nextSegmentId)
<1>1. op.step = "down" /\ man.active \in DOMAIN files
  BY DEF PowerLoss
<1>2. PICK a, f : a = man.active /\ f = files[man.active]
  OBVIOUS
<1>3. PICK k \in f.synced .. Len(f.recs) - 1 : \E torn \in {<<>>, <<Torn>>} :
        files' = [files EXCEPT ![a] = [recs |-> SubSeq(f.recs, 1, k) \o torn,
                                       synced |-> Len(SubSeq(f.recs, 1, k) \o torn)]]
  BY <1>2 DEF PowerLoss
<1>4. PICK torn \in {<<>>, <<Torn>>} :
        files' = [files EXCEPT ![a] = [recs |-> SubSeq(f.recs, 1, k) \o torn,
                                       synced |-> Len(SubSeq(f.recs, 1, k) \o torn)]]
  BY <1>3
<1>5. /\ m = man /\ active = a /\ a \in DOMAIN files
      /\ files = [id \in DOMAIN files |-> files[id]]
  BY <1>1, <1>2 DEF SegmentsSafe, ManifestsAgree, ActiveApart
<1>6. PICK S, q : S = LogRecords \cup {Torn} /\ q = f.recs
  OBVIOUS
<1>7. q \in Seq(S) /\ f.synced \in Nat /\ torn \in Seq(S)
  <2>1. Torn \in S
    BY <1>6
  <2>2. torn \in Seq(S)
    <3>1. CASE torn = <<>>
      BY <3>1
    <3>2. CASE torn = <<Torn>>
      BY <2>1, <3>2
    <3> QED
      BY <3>1, <3>2
  <2> QED
    BY <1>1, <1>2, <1>6, <2>2 DEF LogInv, DiskTypes, FilesTyped, Segments
<1>8. PICK L, y, j \in Nat : L = Len(q) /\ y = f.synced /\ j = k
  BY <1>6, <1>7, LenProperties
<1>9. y <= j /\ j < L
  BY <1>3, <1>6, <1>8
<1>10. PICK head : head = SubSeq(q, 1, k)
  OBVIOUS
<1>11. head \in Seq(S) /\ Len(head) = j /\ \A i \in 1 .. j : head[i] = q[i]
  <2>1. \A i \in 1 .. j : q[i] \in S
    BY <1>7, <1>8, <1>9, ElementOfSeq
  <2> QED
    BY <1>7, <1>8, <1>9, <1>10, <2>1, SubSeqProperties
<1>12. PICK left : left = head \o torn
  OBVIOUS
<1>13. /\ left \in Seq(S) /\ Len(left) = Len(head) + Len(torn)
       /\ \A i \in 1 .. Len(head) + Len(torn) :
            left[i] = IF i <= Len(head) THEN head[i] ELSE torn[i - Len(head)]
  <2>1. head \in Seq(S) /\ torn \in Seq(S) /\ left = head \o torn
    BY <1>7, <1>11, <1>12
  <2> QED
    BY <2>1, ConcatProperties, Zenon
<1>14. PICK t \in 0 .. 1 : t = Len(torn) /\ \A i \in 1 .. t : torn[i] = Torn
  <2>1. CASE torn = <<>>
    BY <2>1
  <2>2. CASE torn = <<Torn>>
    BY <2>2
  <2> QED
    BY <2>1, <2>2
<1>15. /\ Len(left) = j + t
       /\ \A i \in 1 .. j + t : left[i] = IF i <= j THEN head[i] ELSE torn[i - j]
  <2>1. Len(head) = j /\ Len(torn) = t
    BY <1>11, <1>14
  <2> QED
    BY <1>13, <2>1, Zenon
<1>16. DOMAIN left = 1 .. j + t /\ DOMAIN q = 1 .. L
  BY <1>7, <1>8, <1>13, <1>15, LenProperties
<1>17. ASSUME NEW i \in 1 .. j
       PROVE  i \in DOMAIN left /\ i \in DOMAIN q /\ left[i] = q[i] /\ i <= Len(left)
  <2>1. i \in 1 .. j + t /\ i <= j /\ i \in 1 .. L /\ i <= j + t
    BY <1>9
  <2> QED
    BY <1>11, <1>15, <1>16, <2>1
<1>18. ASSUME NEW i \in DOMAIN left, ~ IsTorn(left[i]) PROVE i \in 1 .. j
  <2>1. i \in 1 .. j + t
    BY <1>16
  <2>2. SUFFICES ASSUME i > j PROVE FALSE
    BY <2>1
  <2>3. i - j \in 1 .. t /\ ~ (i <= j)
    BY <2>1, <2>2
  <2>4. left[i] = Torn
    BY <1>14, <1>15, <2>1, <2>3
  <2> QED
    BY <1>18, <2>4 DEF IsTorn, Torn
<1>19. PICK fs, gs : fs = files /\ gs = files'
  OBVIOUS
<1>20. /\ DOMAIN gs = DOMAIN fs /\ \A id \in DOMAIN fs : id # a => gs[id] = fs[id]
       /\ gs[a].recs = left /\ gs[a].synced = Len(left)
       /\ fs[a].recs = q /\ fs[a].synced = y
  <2>1. PICK g : g = [recs |-> left, synced |-> Len(left)]
    OBVIOUS
  <2>2. gs = [fs EXCEPT ![a] = g] /\ fs = [id \in DOMAIN fs |-> fs[id]] /\ a \in DOMAIN fs
    BY <1>4, <1>5, <1>6, <1>10, <1>12, <1>19, <2>1
  <2>3. /\ DOMAIN gs = DOMAIN fs /\ \A id \in DOMAIN fs : id # a => gs[id] = fs[id]
        /\ gs[a] = g
    BY <2>2
  <2> QED
    BY <1>2, <1>6, <1>8, <1>19, <2>1, <2>3
<1>21. \A n : Keeps(fs, gs, n)
  <2>1. ASSUME NEW i \in DOMAIN q, i <= y PROVE i \in 1 .. j
    BY <1>9, <1>16, <2>1
  <2>2. ASSUME NEW i \in DOMAIN fs[a].recs, i <= fs[a].synced
        PROVE  /\ i \in DOMAIN gs[a].recs /\ gs[a].recs[i] = fs[a].recs[i]
               /\ i <= gs[a].synced
    BY <1>17, <1>20, <2>1, <2>2
  <2>3. ASSUME NEW id \in DOMAIN fs, NEW i \in DOMAIN fs[id].recs, i <= fs[id].synced
        PROVE  /\ i \in DOMAIN gs[id].recs /\ gs[id].recs[i] = fs[id].recs[i]
               /\ i <= gs[id].synced
    BY <1>20, <2>2, <2>3
  <2> QED
    BY <1>20, <2>3 DEF Keeps
<1>22. Shortened(gs, fs, a)
  <2>1. \A i \in 1 .. j : i \in DOMAIN left /\ i \in DOMAIN q /\ left[i] = q[i]
    BY <1>17
  <2>2. \A i \in DOMAIN left : i \in Nat \ {0} /\ (IsTorn(left[i]) \/ i \in 1 .. j)
    BY <1>16, <1>18
  <2>3. /\ \A i \in 1 .. j : /\ i \in DOMAIN gs[a].recs /\ i \in DOMAIN fs[a].recs
                             /\ gs[a].recs[i] = fs[a].recs[i]
        /\ \A i \in DOMAIN gs[a].recs :
             i \in Nat \ {0} /\ (IsTorn(gs[a].recs[i]) \/ i \in 1 .. j)
        /\ gs[a].synced = Len(gs[a].recs)
    BY <1>20, <2>1, <2>2
  <2> QED
    BY <1>20, <2>3 DEF Shortened
<1> QED
  BY <1>2, <1>19, <1>21, <1>22

(* A power loss takes nothing that was synced and adds no number. *)
LEMMA PowerLossSeqs ==
  ASSUME SegmentsSafe, LogInv, SeqInv, PowerLoss
  PROVE  SeqInv'
<1>1. /\ op.step = "down" /\ man.active \in DOMAIN files
      /\ man' = man /\ snap' = snap /\ m' = m /\ active' = active /\ op' = op
  BY DEF PowerLoss, memory
<1>2. PICK a, fs, gs : a = man.active /\ fs = files /\ gs = files'
  OBVIOUS
<1>3. m = man /\ active = a /\ a \in DOMAIN fs
  BY <1>1, <1>2 DEF SegmentsSafe, ManifestsAgree, ActiveApart
<1>4. Shortened(gs, fs, a) /\ Keeps(fs, gs, man.nextSegmentId)
  BY <1>2, PowerLossLeaves
<1>5. \A p \in DOMAIN fs : Within(gs, fs, p)
  <2>1. Within(gs, fs, a)
    BY <1>4 DEF Shortened, Within, Slots, SeqAt
  <2>2. ASSUME NEW p \in DOMAIN fs, p # a PROVE Within(gs, fs, p)
    <3>1. gs[p].recs = fs[p].recs
      BY <1>4, <2>2 DEF Shortened
    <3> QED
      BY <3>1, SameWithin
  <2> QED
    BY <2>1, <2>2
<1>6. PICK ids, n : ids = SealedIds(man) /\ n = man.nextSeq
  OBVIOUS
<1>7. Numbered(gs, ids, a, n)
  <2>1. /\ ids \in SUBSET DOMAIN fs /\ n \in Int /\ n <= n /\ Numbered(fs, ids, a, n)
        /\ \A p \in ids : \A i \in Slots(fs, p) : SeqAt(fs, p, i) \in Nat
    BY <1>2, <1>6, SlotsTyped DEF SeqInv, Numbering
  <2>2. Within(gs, fs, a) /\ \A p \in ids : Within(gs, fs, p)
    BY <1>3, <1>5, <2>1
  <2> QED
    BY <2>1, <2>2, NumberedWithin
<1>8. Numbering' /\ References' /\ Copied' /\ Written'
  BY <1>1, <1>2, <1>3, <1>4, <1>6, <1>7, ClosedSeqs
<1>9. Placed'
  <2>1. \A id \in DOMAIN fs : id = a \/ fs[id].synced = Len(fs[id].recs)
    BY <1>2, <1>3 DEF SeqInv, Placed
  <2>2. \A id \in DOMAIN gs : id = a \/ gs[id].synced = Len(gs[id].recs)
    BY <1>4, <2>1 DEF Shortened
  <2>3. a \in DOMAIN gs
    BY <1>3, <1>4 DEF Shortened
  <2> QED
    BY <1>1, <1>2, <1>3, <2>2, <2>3, SlotsTyped DEF Placed
<1> QED
  BY <1>8, <1>9 DEF SeqInv

(* remove_orphan_segments takes what the manifest does not name. *)
LEMMA OpenBeginSeqs ==
  ASSUME SegmentsSafe, LogInv, SeqInv, OpenBegin
  PROVE  SeqInv'
<1>1. /\ op.step = "down" /\ man' = man /\ m' = m /\ active' = active
  BY DEF OpenBegin, memory
<1>2. PICK ids, a, n, k : /\ ids = SealedIds(man) /\ a = man.active /\ n = man.nextSeq
                          /\ k = man.nextSegmentId
  OBVIOUS
<1>3. /\ m = man /\ active = a /\ ids \subseteq DOMAIN files /\ a \in DOMAIN files
      /\ n \in Nat /\ k \in Nat
  BY <1>1, <1>2, SlotsTyped DEF SegmentsSafe, ManifestsAgree, ActiveApart, SeqInv, Placed
<1>4. PICK kept : kept = [id \in DOMAIN files \cap (SealedIds(man) \cup {man.active}) |-> files[id]]
  OBVIOUS
<1>5. man.active \in DOMAIN kept /\ SealedIds(man) \subseteq DOMAIN files
  BY <1>2, <1>3, <1>4
<1>6. /\ files' = kept
      /\ snap' = snap \/ snap' = NoSnapshot
      /\ op' = At("reject") \/ op' = At("replay")
  <2> DEFINE opened == IF man.active \in DOMAIN kept THEN kept
                       ELSE Put(kept, man.active, EmptySegment)
             rejected == snap.exists /\ ~ SnapshotAccepted(opened)
  <2>1. /\ files' = opened
        /\ snap' = (IF rejected THEN NoSnapshot ELSE snap)
        /\ op' = At(IF rejected THEN "reject" ELSE "replay")
    BY <1>4, <1>5 DEF OpenBegin
  <2> HIDE DEF rejected
  <2> QED
    BY <1>5, <2>1
<1>7. op'.step \in {"reject", "replay"}
  BY <1>6 DEF At
<1>8. /\ DOMAIN files' = DOMAIN files \cap (ids \cup {a})
      /\ \A id \in DOMAIN files' : files'[id] = files[id]
  <2>1. /\ DOMAIN kept = DOMAIN files \cap (SealedIds(man) \cup {man.active})
        /\ \A id \in DOMAIN kept : kept[id] = files[id]
    BY <1>4
  <2> QED
    BY <1>2, <1>6, <2>1
<1>9. Keeps(files, files', k)
  BY <1>8 DEF Keeps
<1>10. Numbered(files', ids, a, n)
  <2>1. /\ ids \in SUBSET DOMAIN files /\ ids \in SUBSET ids /\ n \in Int /\ n <= n
        /\ Numbered(files, ids, a, n)
    BY <1>2, <1>3 DEF SeqInv, Numbering
  <2>2. \A id \in ids \cup {a} : files'[id].recs = files[id].recs
    BY <1>3, <1>8
  <2> QED
    BY <2>1, <2>2, NumberedSame
<1>11. Numbering' /\ References' /\ Copied' /\ Written'
  BY <1>1, <1>2, <1>3, <1>6, <1>7, <1>9, <1>10, ClosedSeqs
<1>12. Placed'
  <2>1. \A id \in DOMAIN files : id = a \/ files[id].synced = Len(files[id].recs)
    BY <1>3 DEF SeqInv, Placed
  <2>2. a \in DOMAIN files' /\ DOMAIN files' \subseteq ids \cup {a}
    BY <1>3, <1>8
  <2>3. \A id \in DOMAIN files' : id = a \/ files'[id].synced = Len(files'[id].recs)
    BY <1>8, <2>1
  <2> QED
    BY <1>1, <1>2, <1>3, <1>7, <2>2, <2>3 DEF Placed
<1> QED
  BY <1>11, <1>12 DEF SeqInv

LEMMA OpenRejectSeqs ==
  ASSUME SegmentsSafe, LogInv, SeqInv, OpenReject
  PROVE  SeqInv'
<1>1. /\ op.step = "reject" /\ man' = [man EXCEPT !.snapshotSeq = 0] /\ m' = man'
      /\ op' = At("replay") /\ files' = files /\ snap' = snap /\ active' = active
  BY DEF OpenReject
<1>2. m = man /\ active = man.active /\ man = [f \in ManifestFields |-> man[f]]
  BY <1>1 DEF SegmentsSafe, ManifestsAgree, ActiveApart, WellFormed
<1>3. /\ man'.sealed = man.sealed /\ man'.active = man.active /\ man'.nextSeq = man.nextSeq
      /\ man'.nextSegmentId = man.nextSegmentId
  BY <1>1, <1>2, Zenon DEF ManifestFields
<1>4. SealedIds(man') = SealedIds(man) /\ SealedIds(m') = SealedIds(m)
  BY <1>1, <1>2, <1>3 DEF SealedIds
<1>5. op'.step = "replay"
  BY <1>1 DEF At
<1>6. Keeps(files, files', man.nextSegmentId)
  BY <1>1, FilesGrow
<1>7. Numbered(files', SealedIds(man), man.active, man.nextSeq)
  BY <1>1 DEF SeqInv, Numbering
<1>8. Numbering' /\ References' /\ Copied' /\ Written'
  BY <1>1, <1>2, <1>3, <1>4, <1>5, <1>6, <1>7, ClosedSeqs
<1>9. Placed'
  <2>1. /\ man.active \in DOMAIN files /\ man.nextSegmentId \in Nat
        /\ \A id \in DOMAIN files : id = active \/ files[id].synced = Len(files[id].recs)
        /\ DOMAIN files \subseteq SealedIds(m) \cup {active}
    BY <1>1, SlotsTyped DEF SeqInv, Placed
  <2> QED
    BY <1>1, <1>2, <1>3, <1>4, <1>5, <2>1 DEF Placed
<1> QED
  BY <1>8, <1>9 DEF SeqInv

(* What the maps an open starts from refer to. *)
LEMMA BaseStarts ==
  ASSUME SegmentsSafe, LogInv, SeqInv, man.active \in DOMAIN files
  PROVE  /\ Resolve(files, SnapshotBase.maps, man.nextSegmentId)
         /\ Startable(SnapshotBase)
<1>1. PICK mp, s, a : mp = SnapshotBase.maps /\ s = SnapshotBase.seq /\ a = man.active
  OBVIOUS
<1>2. CASE ~ SnapshotAccepted(files)
  <2>1. mp = EmptyMaps
    BY <1>1, <1>2 DEF SnapshotBase
  <2>2. Refs(mp) = {}
    BY <2>1 DEF Refs, DocRefs, PartRefs, EmptyMaps
  <2> QED
    BY <1>1, <2>2 DEF Resolve, Startable, NoParts
<1>3. CASE SnapshotAccepted(files)
  <2>1. snap.exists /\ mp = snap.maps /\ s = snap.seq
    BY <1>1, <1>3 DEF SnapshotBase, SnapshotAccepted
  <2>2. /\ Resolve(files, mp, man.nextSegmentId) /\ Together(mp, a)
        /\ OnDevice(files, mp, s)
    BY <1>1, <2>1 DEF SeqInv, References
  <2>3. s \in Nat
    BY <1>1, BaseTyped DEF LogInv
  <2>4. ASSUME ~ NoParts(mp, a), NEW p \in SealedIds(man), NEW i \in Slots(files, p)
        PROVE  SeqAt(files, p, i) <= s
    <3>1. PICK x \in Refs(mp) : x.loc.seg = a
      BY <2>4 DEF NoParts
    <3>2. /\ x.loc.off \in DOMAIN files[a].recs /\ Meant(x, files[a].recs[x.loc.off])
          /\ files[a].recs[x.loc.off].seq <= s
      BY <1>1, <2>2, <3>1 DEF Resolve, Right, OnDevice
    <3>3. PICK j : j = x.loc.off
      OBVIOUS
    <3>4. ~ IsTorn(files[a].recs[j])
      BY <3>2, <3>3, MeantWhole
    <3>5. j \in Slots(files, a) /\ SeqAt(files, a, j) <= s
      BY <3>2, <3>3, <3>4 DEF Slots, SeqAt
    <3>6. SeqAt(files, p, i) < SeqAt(files, a, j)
      BY <1>1, <3>5 DEF SeqInv, Numbering, Numbered
    <3>7. SeqAt(files, a, j) \in Nat /\ SeqAt(files, p, i) \in Nat
      BY <1>1, <3>5, SlotsTyped
    <3> QED
      BY <2>3, <3>5, <3>6, <3>7
  <2>5. Startable(SnapshotBase)
    BY <1>1, <2>2, <2>4 DEF Startable
  <2> QED
    BY <1>1, <2>2, <2>5
<1> QED
  BY <1>2, <1>3

(* An open serves what the log holds and numbers on from above all of it. *)
LEMMA OpenReplaySeqs ==
  ASSUME SegmentsSafe, LogInv, SeqInv, OpenReplay
  PROVE  SeqInv'
<1>1. op.step = "replay" /\ man' = man /\ snap' = snap /\ buf' = buf
  BY DEF OpenReplay
<1>2. /\ m = man /\ active = man.active /\ man.active \in DOMAIN files /\ buf = <<>>
      /\ DiskTypes /\ FilesTyped /\ files = [id \in DOMAIN files |-> files[id]]
      /\ TornTailOnly(files[man.active].recs) /\ man.active \notin SealedIds(man)
  BY <1>1 DEF SegmentsSafe, ManifestsAgree, ActiveApart, LogInv, OpTypes, TornAtTail, DiskTypes
<1>3. PICK f, a, ids, n, k, next, g :
        /\ f = files[man.active] /\ a = man.active /\ ids = SealedIds(man) /\ n = man.nextSeq
        /\ k = man.nextSegmentId /\ next = RecoveredNextSeq /\ g = Truncated(f)
  OBVIOUS
<1>4. /\ maps' = Recovered /\ m' = [man EXCEPT !.nextSeq = next] /\ active' = a
      /\ op' = At("idle") /\ files' = [files EXCEPT ![a] = g]
  BY <1>2, <1>3, NeverDamaged DEF OpenReplay
<1>5. /\ n \in Nat /\ k \in Nat /\ next \in Nat /\ n <= next /\ LastSeq(f.recs) < next
      /\ LastSeq(f.recs) \in Nat /\ f \in Segments /\ f.synced <= Len(f.recs)
      /\ ids \in SUBSET DOMAIN files /\ a \in DOMAIN files
      /\ f.recs \in Seq(LogRecords \cup {Torn})
  <2>1. f \in Segments /\ f.synced <= Len(f.recs)
    BY <1>2, <1>3 DEF FilesTyped
  <2>2. f.recs \in Seq(LogRecords \cup {Torn})
    BY <2>1 DEF Segments
  <2>3. LastSeq(f.recs) \in Nat
    BY <2>2, LastSeqTyped
  <2> QED
    BY <1>2, <1>3, <2>1, <2>2, <2>3, NextSeqTyped, SlotsTyped
<1>6. PICK fs, gs : fs = files /\ gs = files'
  OBVIOUS
<1>7. /\ DOMAIN gs = DOMAIN fs /\ gs[a] = g /\ fs[a] = f
      /\ \A id \in DOMAIN fs : id # a => gs[id] = fs[id]
  <2>1. gs = [fs EXCEPT ![a] = g] /\ fs = [id \in DOMAIN fs |-> fs[id]] /\ a \in DOMAIN fs
    BY <1>2, <1>4, <1>5, <1>6
  <2> QED
    BY <1>3, <1>6, <2>1
<1>8. /\ \A i \in DOMAIN f.recs : ~ IsTorn(f.recs[i]) =>
           /\ i \in DOMAIN g.recs /\ g.recs[i] = f.recs[i]
           /\ i <= f.synced => i <= g.synced
      /\ \A i \in DOMAIN g.recs :
           i \in DOMAIN f.recs /\ ~ IsTorn(f.recs[i]) /\ g.recs[i] = f.recs[i]
  BY <1>2, <1>3, <1>5, TruncatedKeeps
<1>9. Grows(fs, gs, k) /\ Keeps(fs, gs, k)
  BY <1>7, <1>8 DEF Grows, Keeps
<1>10. \A p \in DOMAIN fs : Within(gs, fs, p)
  <2>1. Within(gs, fs, a)
    BY <1>7, <1>8 DEF Within, Slots, SeqAt
  <2>2. ASSUME NEW p \in DOMAIN fs, p # a PROVE Within(gs, fs, p)
    <3>1. gs[p].recs = fs[p].recs
      BY <1>7, <2>2
    <3> QED
      BY <3>1, SameWithin
  <2> QED
    BY <2>1, <2>2
<1>11. Numbered(gs, ids, a, n) /\ Numbered(gs, ids, a, next)
  <2>1. /\ ids \in SUBSET ids /\ n \in Int /\ next \in Int /\ n <= n /\ n <= next
        /\ Numbered(fs, ids, a, n)
        /\ \A p \in ids : \A i \in Slots(fs, p) : SeqAt(fs, p, i) \in Nat
    BY <1>3, <1>5, <1>6, SlotsTyped DEF SeqInv, Numbering
  <2>2. Within(gs, fs, a) /\ \A p \in ids : Within(gs, fs, p)
    BY <1>5, <1>6, <1>10
  <2> QED
    BY <2>1, <2>2, NumberedWithin
<1>12. ASSUME NEW i \in Slots(gs, a) PROVE SeqAt(gs, a, i) < next
  <2>1. i \in Slots(fs, a) /\ SeqAt(gs, a, i) = SeqAt(fs, a, i)
    BY <1>5, <1>6, <1>10 DEF Within
  <2>2. i \in DOMAIN f.recs /\ ~ IsTorn(f.recs[i]) /\ SeqAt(fs, a, i) = f.recs[i].seq
    BY <1>7, <2>1 DEF Slots, SeqAt
  <2>3. \A x, y \in DOMAIN f.recs :
          ~ IsTorn(f.recs[x]) /\ ~ IsTorn(f.recs[y]) /\ x < y => f.recs[x].seq < f.recs[y].seq
    BY <1>3, <1>6, <1>7 DEF SeqInv, Numbering, Numbered, Slots, SeqAt
  <2>4. f.recs[i].seq <= LastSeq(f.recs)
    BY <1>2, <1>3, <1>5, <2>2, <2>3, LastIsLargest
  <2>5. SeqAt(fs, a, i) \in Nat
    BY <1>5, <1>6, <2>1, SlotsTyped
  <2> QED
    BY <1>5, <2>1, <2>2, <2>4, <2>5
<1>13. /\ m'.sealed = man.sealed /\ m'.active = man.active /\ m'.nextSeq = next
       /\ m'.nextSegmentId = man.nextSegmentId
  <2>1. man = [x \in ManifestFields |-> man[x]]
    BY DEF SegmentsSafe, WellFormed
  <2> QED
    BY <1>4, <2>1, Zenon DEF ManifestFields
<1>14. SealedIds(m') = ids /\ SealedIds(man') = ids /\ op'.step = "idle"
  BY <1>1, <1>3, <1>4, <1>13 DEF SealedIds, At
<1>15. FirstFree' = next /\ buf' = <<>> /\ Len(buf') = 0
  <2>1. buf' = <<>> /\ Len(buf') = 0
    BY <1>1, <1>2
  <2> QED
    BY <1>5, <1>13, <2>1 DEF FirstFree
<1>16. Numbering'
  <2>1. \A i \in 1 .. Len(buf') : buf'[i].seq = FirstFree' + i - 1
    BY <1>15
  <2> QED
    BY <1>1, <1>3, <1>4, <1>5, <1>6, <1>11, <1>12, <1>14, <1>15, <2>1 DEF Numbering
<1>17. References'
  <2>1. PICK new : new = Recovered
    OBVIOUS
  <2>2. Resolve(fs, new, k) /\ Together(new, a)
    <3>1. PICK base : base = SnapshotBase
      OBVIOUS
    <3>2. /\ base.maps \in AllMaps /\ base.seq \in Nat /\ Startable(base)
          /\ Resolve(files, base.maps, man.nextSegmentId)
      BY <1>2, <3>1, BaseTyped, BaseStarts
    <3>3. /\ Resolve(files, ReplayFrom(base), man.nextSegmentId)
          /\ Together(ReplayFrom(base), man.active)
      BY <1>2, <3>2, ReplayKeeps
    <3> QED
      BY <1>3, <1>6, <2>1, <3>1, <3>3 DEF Recovered
  <2>3. Resolve(gs, new, k)
    BY <1>9, <2>2, ResolveGrows
  <2>4. snap.exists => /\ Resolve(gs, snap.maps, k) /\ OnDevice(gs, snap.maps, snap.seq)
                       /\ Together(snap.maps, a)
    <3>1. SUFFICES ASSUME snap.exists
                   PROVE  /\ Resolve(gs, snap.maps, k) /\ OnDevice(gs, snap.maps, snap.seq)
                          /\ Together(snap.maps, a)
      OBVIOUS
    <3>2. /\ Resolve(fs, snap.maps, k) /\ OnDevice(fs, snap.maps, snap.seq)
          /\ Together(snap.maps, a)
      BY <1>3, <1>6, <3>1 DEF SeqInv, References
    <3> QED
      BY <1>9, <3>2, DeviceKeeps
  <2> QED
    BY <1>1, <1>3, <1>4, <1>6, <2>1, <2>2, <2>3, <2>4 DEF References
<1>18. Placed'
  <2>1. /\ \A id \in DOMAIN fs : id = a \/ fs[id].synced = Len(fs[id].recs)
        /\ DOMAIN fs \subseteq ids \cup {a}
    BY <1>1, <1>2, <1>3, <1>6 DEF SeqInv, Placed
  <2>2. \A id \in DOMAIN gs : id = a \/ gs[id].synced = Len(gs[id].recs)
    BY <1>7, <2>1
  <2> QED
    BY <1>1, <1>3, <1>4, <1>5, <1>6, <1>7, <1>13, <1>14, <2>1, <2>2 DEF Placed
<1> QED
  <2>1. Written'
    BY <1>14 DEF Written
  <2> QED
    BY <1>14, <1>16, <1>17, <1>18, <2>1, NotCompacting

-----------------------------------------------------------------------------
(* No number twice *)

LEMMA InitSeqs ==
  ASSUME Init
  PROVE  SeqInv
<1>1. /\ files = [id \in {0} |-> EmptySegment] /\ man = NewManifest /\ m = NewManifest
      /\ snap = NoSnapshot /\ active = 0 /\ buf = <<>> /\ maps = EmptyMaps /\ op = At("idle")
  BY DEF Init
<1>2. DOMAIN files = {0} /\ files[0] = EmptySegment
  BY <1>1
<1>3. EmptySegment.recs = <<>> /\ EmptySegment.synced = Len(EmptySegment.recs)
  BY DEF EmptySegment
<1>4. SealedIds(man) = {} /\ SealedIds(m) = {}
  BY <1>1, EmptyIds DEF NewManifest
<1>5. /\ man.active = 0 /\ man.nextSeq = 1 /\ m.nextSeq = 1 /\ m.nextSegmentId = 1
      /\ man.nextSegmentId = 1 /\ op.step = "idle" /\ Len(buf) = 0
  BY <1>1 DEF NewManifest, At
<1>6. Slots(files, 0) = {}
  BY <1>2, <1>3 DEF Slots
<1>7. Placed
  BY <1>1, <1>2, <1>3, <1>5 DEF Placed
<1>8. Numbering
  <2>1. FirstFree = 1
    BY <1>5 DEF FirstFree
  <2>2. \A n : Numbered(files, {}, 0, n)
    BY <1>6 DEF Numbered
  <2> QED
    BY <1>1, <1>4, <1>5, <1>6, <2>1, <2>2 DEF Numbering
<1>9. References
  <2>1. Refs(maps) = {}
    BY <1>1 DEF Refs, DocRefs, PartRefs, EmptyMaps
  <2>2. snap.exists = FALSE
    BY <1>1, Zenon DEF NoSnapshot
  <2>3. /\ Resolve(files, maps, man.nextSegmentId)
        /\ Together(maps, active) /\ Together(maps, man.active)
    BY <2>1 DEF Resolve, Together
  <2> QED
    BY <2>2, <2>3, Zenon DEF References
<1>10. Copied /\ Written
  BY <1>5 DEF Copied, Written
<1> QED
  BY <1>7, <1>8, <1>9, <1>10 DEF SeqInv

LEMMA NextSeqs ==
  ASSUME SegmentsSafe, LogInv, SeqInv, [Next]_vars
  PROVE  SeqInv'
<1>1. CASE Next
  BY <1>1, AppendDocumentSeqs, InsertRewindSeqs, InsertCommitSeqs, AppendDeleteSeqs,
     DeleteCommitSeqs, SealActiveSeqs, SealPublishSeqs, FsyncSeqs, SnapshotWriteSeqs,
     SnapshotPublishSeqs, CompactWriteSeqs, CompactFailsSeqs, CompactUnsnapSeqs,
     CompactPublishSeqs, CompactRemoveSeqs, CrashSeqs, PowerLossSeqs, OpenBeginSeqs,
     OpenRejectSeqs, OpenReplaySeqs DEF Next
<1>2. CASE UNCHANGED vars
  <2>1. /\ files' = files /\ man' = man /\ snap' = snap /\ m' = m /\ active' = active
        /\ buf' = buf /\ maps' = maps /\ op' = op
    BY <1>2 DEF vars
  <2>2. Placed' /\ Numbering'
    BY <2>1 DEF SeqInv, Placed, Numbering, FirstFree, Up
  <2>3. References' /\ Copied' /\ Written'
    BY <2>1 DEF SeqInv, References, Copied, Written, FirstFree, Up
  <2> QED
    BY <2>2, <2>3 DEF SeqInv
<1> QED
  BY <1>1, <1>2

LEMMA SeqInvariant == Spec => []SeqInv
<1>1. SegmentsSafe /\ LogInv /\ SeqInv /\ [Next]_vars => SeqInv'
  BY NextSeqs
<1>2. Init => SeqInv
  BY InitSeqs
<1> QED
  BY <1>1, <1>2, SegmentsStaySafe, LogInvariant, PTL DEF Spec

(* Sequence numbers are never handed out twice: while the store is open,    *)
(* every record of its segments is numbered below next_seq and no two share *)
(* a number, whatever was rewound, torn, lost with the power, compacted     *)
(* with its old numbers, or renumbered by an open (store.rs:218,            *)
(* compact.rs:6).                                                           *)
THEOREM StoreSeqsUnique == Spec => []SeqsUnique
<1>1. ASSUME SegmentsSafe, LogInv, SeqInv, Up PROVE SeqsUnique
  <2>1. PICK ids : ids = SealedIds(m)
    OBVIOUS
  <2>2. /\ ids \subseteq DOMAIN files /\ active \in DOMAIN files
        /\ Numbered(files, ids, active, FirstFree) /\ active \notin ids
    BY <1>1, <2>1, SlotsTyped, ActiveFacts
    DEF SeqInv, Numbering, SegmentsSafe, ActiveApart, WellFormed
  <2>3. ASSUME NEW p \in ids \cup {active}, NEW i \in DOMAIN files[p].recs
        PROVE  i \in Slots(files, p)
    <3>1. files[p].recs \in Seq(LogRecords)
      BY <1>1, <2>1, <2>3 DEF LogInv, TornAtTail
    <3>2. files[p].recs[i] \in LogRecords
      BY <3>1, ElementOfSeq, LenProperties
    <3> QED
      BY <3>2, RecordKinds DEF Slots
  <2>4. ASSUME NEW p \in ids \cup {active}, NEW i \in DOMAIN files[p].recs
        PROVE  files[p].recs[i].seq < m.nextSeq /\ files[p].recs[i].seq \in Nat
    <3>1. SeqAt(files, p, i) < FirstFree /\ SeqAt(files, p, i) \in Nat
      BY <1>1, <2>1, <2>2, <2>3, BelowFree, SlotsTyped
    <3>2. m.nextSeq \in Nat /\ Len(buf) \in Nat
      BY <1>1, SlotsTyped
    <3>3. PICK s : s = files[p].recs[i].seq
      OBVIOUS
    <3>4. s < m.nextSeq - Len(buf) /\ s \in Nat
      BY <3>1, <3>3 DEF SeqAt, FirstFree
    <3> QED
      BY <3>2, <3>3, <3>4
  <2>5. ASSUME NEW p \in ids \cup {active}, NEW i \in DOMAIN files[p].recs,
               NEW q \in ids \cup {active}, NEW j \in DOMAIN files[q].recs,
               files[p].recs[i].seq = files[q].recs[j].seq
        PROVE  p = q /\ i = j
    <3>1. i \in Slots(files, p) /\ j \in Slots(files, q)
      BY <2>3
    <3>2. /\ SeqAt(files, p, i) = SeqAt(files, q, j) /\ SeqAt(files, p, i) \in Nat
          /\ i \in Nat /\ j \in Nat
      BY <1>1, <2>2, <2>5, <3>1, SlotsTyped DEF SeqAt
    <3>3. CASE p \in ids /\ q \in ids
      BY <2>2, <3>1, <3>2, <3>3 DEF Numbered
    <3>4. CASE p \in ids /\ q = active
      <4>1. SeqAt(files, p, i) < SeqAt(files, q, j)
        BY <2>2, <3>1, <3>4 DEF Numbered
      <4> QED
        BY <3>2, <4>1
    <3>5. CASE p = active /\ q \in ids
      <4>1. SeqAt(files, q, j) < SeqAt(files, p, i)
        BY <2>2, <3>1, <3>5 DEF Numbered
      <4> QED
        BY <3>2, <4>1
    <3>6. CASE p = active /\ q = active
      <4>1. i < j => SeqAt(files, p, i) < SeqAt(files, q, j)
        BY <2>2, <3>1, <3>6 DEF Numbered
      <4>2. j < i => SeqAt(files, q, j) < SeqAt(files, p, i)
        BY <2>2, <3>1, <3>6 DEF Numbered
      <4> QED
        BY <3>2, <3>6, <4>1, <4>2
    <3> QED
      BY <3>3, <3>4, <3>5, <3>6
  <2> DEFINE used == {x \in {<<id, i>> : id \in SealedIds(m) \cup {active}, i \in 1 .. MaxSeq} :
                        x[2] \in DOMAIN files[x[1]].recs}
  <2>6. SUFFICES /\ \A l \in used : files[l[1]].recs[l[2]].seq < m.nextSeq
                 /\ \A l1, l2 \in used :
                      files[l1[1]].recs[l1[2]].seq = files[l2[1]].recs[l2[2]].seq => l1 = l2
    BY DEF SeqsUnique
  <2>7. \A l \in used : /\ l = <<l[1], l[2]>> /\ l[1] \in ids \cup {active}
                        /\ l[2] \in DOMAIN files[l[1]].recs
    BY <2>1
  <2> HIDE DEF used
  <2>8. \A l \in used : files[l[1]].recs[l[2]].seq < m.nextSeq
    BY <2>4, <2>7
  <2>9. ASSUME NEW l1 \in used, NEW l2 \in used,
                files[l1[1]].recs[l1[2]].seq = files[l2[1]].recs[l2[2]].seq
         PROVE  l1 = l2
    <3>1. /\ l1[1] \in ids \cup {active} /\ l1[2] \in DOMAIN files[l1[1]].recs
          /\ l2[1] \in ids \cup {active} /\ l2[2] \in DOMAIN files[l2[1]].recs
          /\ l1 = <<l1[1], l1[2]>> /\ l2 = <<l2[1], l2[2]>>
      BY <2>7
    <3>2. l1[1] = l2[1] /\ l1[2] = l2[2]
      BY <2>5, <2>9, <3>1
    <3> QED
      BY <3>1, <3>2
  <2> QED
    BY <2>8, <2>9
<1>2. SegmentsSafe /\ LogInv /\ SeqInv => SeqsUnique
  <2>1. ~ Up => SeqsUnique
    BY DEF SeqsUnique
  <2> QED
    BY <1>1, <2>1
<1> QED
  BY <1>2, SegmentsStaySafe, LogInvariant, SeqInvariant, PTL

-----------------------------------------------------------------------------
(* What a document owns: the invariant *)

PartKinds == {"Split", "Summary"}

(* How far before its Doc record an insert of splits numbers a part. *)
Back(splits, kind, i) ==
  IF kind = "Summary" THEN 2 * Cardinality(splits) - i + 1 ELSE Cardinality(splits) - i + 1

(* A part numbered like one of the insert whose Doc record is numbered seq. *)
Close(seq, splits, r) ==
  /\ seq - r.seq \in 1 .. 2 * Cardinality(splits)
  /\ seq - r.seq = Back(splits, r.kind, r.part)

(* The part record at p is the last of its kind and part up to j, and only *)
(* part records follow it there.                                           *)
Fresh(recs, p, j) ==
  /\ recs[p].kind \in PartKinds
  /\ \A q \in p + 1 .. j :
       /\ recs[q].kind \in PartKinds
       /\ recs[q].kind # recs[p].kind \/ recs[q].part # recs[p].part

(* The Doc record at j closes a group: every split it names, and the split's *)
(* summary, are before it, close and fresh.                                  *)
GroupAt(recs, j) ==
  /\ recs[j].list \subseteq recs[j].splits
  /\ \A i \in recs[j].splits, kind \in PartKinds :
       \E p \in 1 .. j - 1 :
         /\ recs[p].kind = kind /\ recs[p].part = i /\ recs[p].doc = recs[j].doc
         /\ Close(recs[j].seq, recs[j].splits, recs[p])
         /\ Fresh(recs, p, j - 1)

(* A number s falls before the whole group that r closes, or behind it. *)
Clear(r, s) == r.seq > s => r.seq - 2 * Cardinality(r.splits) > s

(* A log of groups, none of which s cuts. *)
Grouped(recs, s) ==
  \A j \in DOMAIN recs : recs[j].kind = "Doc" => GroupAt(recs, j) /\ Clear(recs[j], s)

(* What the snapshot on disk is caught up to. *)
SnapSeq == IF snap.exists THEN snap.seq ELSE 0

LogGrouped(s) == \A id \in DOMAIN files : Grouped(files[id].recs, s)

(* The log is a log of groups, and the snapshot cuts none of them. *)
Groups ==
  /\ \A s \in {0, SnapSeq} : Grouped(buf, s) /\ LogGrouped(s)
  /\ Up => SnapSeq < FirstFree

(* The parts of a document that e names: in the segment its Doc record is   *)
(* in, and of the insert that wrote that record.                            *)
HasParts(fs, f, d, e) ==
  \A i \in e.splits :
    /\ <<d, i>> \in DOMAIN f
    /\ f[<<d, i>>].seg = e.loc.seg
    /\ e.loc.seg \in DOMAIN fs => Close(e.seq, e.splits, fs[e.loc.seg].recs[f[<<d, i>>].off])

(* What the Doc record r says is what the entry e holds. *)
Names(r, e) == r.splits = e.splits /\ r.list = e.list /\ e.list \subseteq e.splits

Owned(fs, mp, d) ==
  LET e == mp.docs[d]
  IN  /\ e.splits \subseteq OwnedSummaries(e)
      /\ e.loc.seg \in DOMAIN fs => Names(fs[e.loc.seg].recs[e.loc.off], e)
      /\ HasParts(fs, mp.splits, d, e)
      /\ HasParts(fs, mp.summaries, d, e)

Owns(fs, mp) == \A d \in DOMAIN mp.docs : Owned(fs, mp, d)

(* The documents lie in the segments ids. *)
Lives(mp, ids) == \A d \in DOMAIN mp.docs : mp.docs[d].loc.seg \in ids

(* Compaction has copied the location. *)
InOrder(loc) == \E i \in 1 .. Len(op.order) : op.order[i] = loc

Carried(d) ==
  LET e == maps.docs[d]
  IN  /\ InOrder(e.loc)
      /\ \A i \in e.splits : InOrder(maps.splits[<<d, i>>]) /\ InOrder(maps.summaries[<<d, i>>])

(* Every document lies where the manifest in memory says, except while that *)
(* one already names a compaction's output and the maps do not; then what   *)
(* is not in the active segment has been copied.                            *)
Living ==
  /\ Up /\ op.step # "compactPublish" => Lives(maps, SealedIds(m) \cup {active})
  /\ op.step \in {"compactUnsnap", "compactPublish"} =>
       \A d \in DOMAIN maps.docs : maps.docs[d].loc.seg = active \/ Carried(d)
  /\ op.step = "compactPublish" /\ op.order # <<>> => op.seg \in SealedIds(m)

(* An open has judged the snapshot that is left. *)
Judged ==
  /\ op.step = "reject" => ~ snap.exists
  /\ op.step = "replay" /\ snap.exists => SnapshotAccepted(files)

OwnInv ==
  /\ Groups
  /\ Living
  /\ Judged
  /\ Up => Owns(files, maps)
  /\ snap.exists => Owns(files, snap.maps)

-----------------------------------------------------------------------------
(* Ownership under changes of the files and the maps *)

(* What mp refers to is the same record in gs as in fs. *)
SameAt(fs, gs, mp) ==
  \A x \in Refs(mp) : x.loc.seg \in DOMAIN gs =>
    x.loc.seg \in DOMAIN fs /\ gs[x.loc.seg].recs[x.loc.off] = fs[x.loc.seg].recs[x.loc.off]

LEMMA DocRefIn ==
  ASSUME NEW mp, NEW d \in DOMAIN mp.docs
  PROVE  Ref("Doc", d, mp.docs[d].seq, mp.docs[d].loc) \in Refs(mp)
  BY DEF Refs, DocRefs

LEMMA PartRefIn ==
  ASSUME NEW mp, NEW d, NEW i
  PROVE  /\ <<d, i>> \in DOMAIN mp.splits =>
              Ref("Split", d, i, mp.splits[<<d, i>>]) \in Refs(mp)
         /\ <<d, i>> \in DOMAIN mp.summaries =>
              Ref("Summary", d, i, mp.summaries[<<d, i>>]) \in Refs(mp)
<1>1. PICK k : k = <<d, i>>
  OBVIOUS
<1>2. k[1] = d /\ k[2] = i
  BY <1>1
<1>3. ASSUME NEW kind, NEW f, k \in DOMAIN f
      PROVE  Ref(kind, d, i, f[k]) \in PartRefs(kind, f)
  BY <1>2, <1>3 DEF PartRefs
<1> QED
  BY <1>1, <1>3 DEF Refs

LEMMA RefLoc ==
  ASSUME NEW kind, NEW d, NEW mark, NEW loc
  PROVE  /\ Ref(kind, d, mark, loc).kind = kind /\ Ref(kind, d, mark, loc).doc = d
         /\ Ref(kind, d, mark, loc).mark = mark /\ Ref(kind, d, mark, loc).loc = loc
  BY DEF Ref

LEMMA OwnsSame ==
  ASSUME NEW fs, NEW gs, NEW mp, Owns(fs, mp), SameAt(fs, gs, mp)
  PROVE  Owns(gs, mp)
<1>1. ASSUME NEW d \in DOMAIN mp.docs PROVE Owned(gs, mp, d)
  <2> DEFINE e == mp.docs[d]
  <2>1. Owned(fs, mp, d)
    BY DEF Owns
  <2>2. ASSUME e.loc.seg \in DOMAIN gs
        PROVE  /\ e.loc.seg \in DOMAIN fs
               /\ gs[e.loc.seg].recs[e.loc.off] = fs[e.loc.seg].recs[e.loc.off]
    <3>1. PICK x : x = Ref("Doc", d, e.seq, e.loc)
      OBVIOUS
    <3>2. x \in Refs(mp)
      BY <3>1, DocRefIn
    <3> HIDE DEF e
    <3>3. x.loc = e.loc
      BY <3>1, RefLoc
    <3> QED
      BY <2>2, <3>2, <3>3 DEF SameAt
  <2>3. ASSUME NEW f, NEW kind, HasParts(fs, f, d, e),
               \A i : <<d, i>> \in DOMAIN f => Ref(kind, d, i, f[<<d, i>>]) \in Refs(mp)
        PROVE  HasParts(gs, f, d, e)
    <3>1. ASSUME NEW i \in e.splits
          PROVE  /\ <<d, i>> \in DOMAIN f /\ f[<<d, i>>].seg = e.loc.seg
                 /\ e.loc.seg \in DOMAIN gs =>
                      Close(e.seq, e.splits, gs[e.loc.seg].recs[f[<<d, i>>].off])
      <4>0. PICK k : k = <<d, i>>
        OBVIOUS
      <4>1. /\ k \in DOMAIN f /\ f[k].seg = e.loc.seg
            /\ e.loc.seg \in DOMAIN fs => Close(e.seq, e.splits, fs[e.loc.seg].recs[f[k].off])
        BY <2>3, <4>0 DEF HasParts
      <4>2. Ref(kind, d, i, f[k]) \in Refs(mp)
        BY <2>3, <4>0, <4>1
      <4>3. e.loc.seg \in DOMAIN gs => gs[f[k].seg].recs[f[k].off] = fs[f[k].seg].recs[f[k].off]
        BY <4>1, <4>2, RefLoc DEF SameAt
      <4> QED
        BY <2>2, <4>0, <4>1, <4>3
    <3> QED
      BY <3>1, Zenon DEF HasParts
  <2>4. HasParts(fs, mp.splits, d, e) /\ HasParts(fs, mp.summaries, d, e)
    BY <2>1 DEF Owned
  <2> HIDE DEF e
  <2>5. HasParts(gs, mp.splits, d, e)
    BY <2>3, <2>4, PartRefIn
  <2>6. HasParts(gs, mp.summaries, d, e)
    BY <2>3, <2>4, PartRefIn
  <2> QED
    BY <2>1, <2>2, <2>5, <2>6 DEF Owned, e
<1> QED
  BY <1>1, Zenon DEF Owns

(* The files grew, or kept what was synced. *)
LEMMA SameGrows ==
  ASSUME NEW fs, NEW gs, NEW mp, NEW n, Resolve(fs, mp, n), Grows(fs, gs, n)
  PROVE  SameAt(fs, gs, mp)
<1> SUFFICES ASSUME NEW x \in Refs(mp), x.loc.seg \in DOMAIN gs
             PROVE  /\ x.loc.seg \in DOMAIN fs
                    /\ gs[x.loc.seg].recs[x.loc.off] = fs[x.loc.seg].recs[x.loc.off]
  BY DEF SameAt
<1>1. x.loc.seg < n /\ Right(fs, x) /\ x.loc.seg \in DOMAIN fs
  BY DEF Resolve, Grows
<1>2. /\ x.loc.off \in DOMAIN fs[x.loc.seg].recs
      /\ Meant(x, fs[x.loc.seg].recs[x.loc.off])
  BY <1>1 DEF Right
<1>3. ~ IsTorn(fs[x.loc.seg].recs[x.loc.off])
  BY <1>2, MeantWhole
<1> QED
  BY <1>1, <1>2, <1>3 DEF Grows

LEMMA SameKeeps ==
  ASSUME NEW fs, NEW gs, NEW mp, NEW n, NEW s, Resolve(fs, mp, n), OnDevice(fs, mp, s),
         Keeps(fs, gs, n)
  PROVE  SameAt(fs, gs, mp)
<1> SUFFICES ASSUME NEW x \in Refs(mp), x.loc.seg \in DOMAIN gs
             PROVE  /\ x.loc.seg \in DOMAIN fs
                    /\ gs[x.loc.seg].recs[x.loc.off] = fs[x.loc.seg].recs[x.loc.off]
  BY DEF SameAt
<1>1. x.loc.seg < n /\ Right(fs, x) /\ x.loc.seg \in DOMAIN fs
  BY DEF Resolve, Keeps
<1>2. /\ x.loc.off \in DOMAIN fs[x.loc.seg].recs /\ x.loc.off <= fs[x.loc.seg].synced
      /\ Meant(x, fs[x.loc.seg].recs[x.loc.off])
  BY <1>1 DEF Right, OnDevice
<1>3. ~ IsTorn(fs[x.loc.seg].recs[x.loc.off])
  BY <1>2, MeantWhole
<1> QED
  BY <1>1, <1>2, <1>3 DEF Keeps

(* Keys of different documents differ. *)
LEMMA KeyOf ==
  ASSUME NEW d, NEW parts, NEW x, NEW i
  PROVE  <<x, i>> \in Keys(d, parts) <=> x = d /\ i \in parts
  BY DEF Keys

(* new has the documents of mp but d, with all their parts. *)
Spares(new, mp, d) ==
  \A x \in DOMAIN mp.docs \ {d} :
    /\ x \in DOMAIN new.docs /\ new.docs[x] = mp.docs[x]
    /\ \A i : <<x, i>> \in DOMAIN mp.splits =>
         <<x, i>> \in DOMAIN new.splits /\ new.splits[<<x, i>>] = mp.splits[<<x, i>>]
    /\ \A i : <<x, i>> \in DOMAIN mp.summaries =>
         <<x, i>> \in DOMAIN new.summaries /\ new.summaries[<<x, i>>] = mp.summaries[<<x, i>>]

LEMMA SparesOwned ==
  ASSUME NEW fs, NEW mp, NEW new, NEW d, Owns(fs, mp), Spares(new, mp, d),
         NEW x \in DOMAIN mp.docs \ {d}
  PROVE  Owned(fs, new, x)
<1> DEFINE e == mp.docs[x]
<1>1. e.splits \subseteq OwnedSummaries(e)
      /\ (e.loc.seg \in DOMAIN fs => Names(fs[e.loc.seg].recs[e.loc.off], e))
      /\ HasParts(fs, mp.splits, x, e) /\ HasParts(fs, mp.summaries, x, e)
  BY DEF Owns, Owned
<1>2. new.docs[x] = e
  BY DEF Spares
<1>3. ASSUME NEW f, NEW g, HasParts(fs, f, x, e),
             \A i : <<x, i>> \in DOMAIN f => <<x, i>> \in DOMAIN g /\ g[<<x, i>>] = f[<<x, i>>]
      PROVE  HasParts(fs, g, x, e)
  BY <1>3 DEF HasParts
<1>4. HasParts(fs, new.splits, x, e)
  <2> HIDE DEF e
  <2> QED
    BY <1>1, <1>3 DEF Spares
<1>5. HasParts(fs, new.summaries, x, e)
  <2> HIDE DEF e
  <2> QED
    BY <1>1, <1>3 DEF Spares
<1> HIDE DEF e
<1> QED
  BY <1>1, <1>2, <1>4, <1>5 DEF Owned

LEMMA RemoveSpares ==
  ASSUME NEW mp, NEW d
  PROVE  Spares(RemoveDoc(mp, d), mp, d)
<1>1. CASE d \notin DOMAIN mp.docs
  BY <1>1 DEF RemoveDoc, Spares
<1>2. CASE d \in DOMAIN mp.docs
  <2> DEFINE e == mp.docs[d]
             new == RemoveDoc(mp, d)
  <2>1. /\ new.docs = Without(mp.docs, {d})
        /\ new.splits = Without(mp.splits, Keys(d, e.splits))
        /\ new.summaries = Without(mp.summaries, Keys(d, OwnedSummaries(e)))
    BY <1>2 DEF RemoveDoc
  <2>2. ASSUME NEW f, NEW K, NEW k \in DOMAIN f, k \notin K
        PROVE  k \in DOMAIN Without(f, K) /\ Without(f, K)[k] = f[k]
    BY <2>2 DEF Without
  <2> HIDE DEF new, e
  <2>3. ASSUME NEW x \in DOMAIN mp.docs \ {d}
        PROVE  /\ x \in DOMAIN new.docs /\ new.docs[x] = mp.docs[x]
               /\ \A i : <<x, i>> \in DOMAIN mp.splits =>
                    <<x, i>> \in DOMAIN new.splits /\ new.splits[<<x, i>>] = mp.splits[<<x, i>>]
               /\ \A i : <<x, i>> \in DOMAIN mp.summaries =>
                    /\ <<x, i>> \in DOMAIN new.summaries
                    /\ new.summaries[<<x, i>>] = mp.summaries[<<x, i>>]
    <3>1. x \in DOMAIN new.docs /\ new.docs[x] = mp.docs[x]
      BY <2>1, <2>2
    <3>2. ASSUME NEW i, NEW parts PROVE <<x, i>> \notin Keys(d, parts)
      BY KeyOf
    <3> QED
      BY <2>1, <2>2, <3>1, <3>2
  <2> QED
    BY <2>3 DEF Spares, new
<1> QED
  BY <1>1, <1>2

LEMMA OwnsRemoved ==
  ASSUME NEW fs, NEW mp, NEW d, NEW ids, Owns(fs, mp), Lives(mp, ids)
  PROVE  Owns(fs, RemoveDoc(mp, d)) /\ Lives(RemoveDoc(mp, d), ids)
<1>1. PICK new : new = RemoveDoc(mp, d)
  OBVIOUS
<1>2. /\ DOMAIN new.docs = DOMAIN mp.docs \ {d}
      /\ \A x \in DOMAIN mp.docs \ {d} : new.docs[x] = mp.docs[x]
      /\ Spares(new, mp, d)
  BY <1>1, RefsRemoved, RemoveSpares
<1>3. \A x \in DOMAIN new.docs : Owned(fs, new, x)
  BY <1>2, SparesOwned
<1> QED
  BY <1>1, <1>2, <1>3 DEF Owns, Lives

(* A document is put in, its parts with it. *)
LEMMA OwnsPut ==
  ASSUME NEW fs, NEW mp, NEW d, NEW e, NEW sl, NEW ml, NEW ids, Owns(fs, mp), Lives(mp, ids),
         \A k \in DOMAIN sl \cup DOMAIN ml : k[1] = d,
         e.loc.seg \in ids, e.splits \subseteq OwnedSummaries(e),
         e.loc.seg \in DOMAIN fs => Names(fs[e.loc.seg].recs[e.loc.off], e),
         HasParts(fs, sl, d, e), HasParts(fs, ml, d, e)
  PROVE  /\ Owns(fs, PutDoc(mp, d, e, sl, ml))
         /\ Lives(PutDoc(mp, d, e, sl, ml), ids)
<1>1. PICK new : new = PutDoc(mp, d, e, sl, ml)
  OBVIOUS
<1>2. /\ DOMAIN new.docs = DOMAIN mp.docs \cup {d}
      /\ \A x \in DOMAIN mp.docs \cup {d} : new.docs[x] = IF x = d THEN e ELSE mp.docs[x]
  BY <1>1, RefsPut
<1>3. new.splits = Over(sl, mp.splits) /\ new.summaries = Over(ml, mp.summaries)
  BY <1>1 DEF PutDoc
<1>4. ASSUME NEW f, NEW g
      PROVE  /\ \A k \in DOMAIN g : k \in DOMAIN Over(g, f) /\ Over(g, f)[k] = g[k]
             /\ \A k \in DOMAIN f : k \notin DOMAIN g =>
                  k \in DOMAIN Over(g, f) /\ Over(g, f)[k] = f[k]
  BY DEF Over
<1>5. Spares(new, mp, d)
  <2>1. ASSUME NEW x, NEW i, x # d PROVE <<x, i>> \notin DOMAIN sl /\ <<x, i>> \notin DOMAIN ml
    <3>1. <<x, i>>[1] = x
      OBVIOUS
    <3>2. PICK k : k = <<x, i>>
      OBVIOUS
    <3> QED
      BY <2>1, <3>1, <3>2
  <2>2. ASSUME NEW x \in DOMAIN mp.docs \ {d}
        PROVE  /\ x \in DOMAIN new.docs /\ new.docs[x] = mp.docs[x]
               /\ \A i : <<x, i>> \in DOMAIN mp.splits =>
                    <<x, i>> \in DOMAIN new.splits /\ new.splits[<<x, i>>] = mp.splits[<<x, i>>]
               /\ \A i : <<x, i>> \in DOMAIN mp.summaries =>
                    /\ <<x, i>> \in DOMAIN new.summaries
                    /\ new.summaries[<<x, i>>] = mp.summaries[<<x, i>>]
    BY <1>2, <1>3, <1>4, <2>1
  <2> QED
    BY <2>2 DEF Spares
<1>6. Owned(fs, new, d)
  <2>1. ASSUME NEW f, NEW g, HasParts(fs, g, d, e) PROVE HasParts(fs, Over(g, f), d, e)
    BY <1>4, <2>1 DEF HasParts
  <2>2. HasParts(fs, new.splits, d, e) /\ HasParts(fs, new.summaries, d, e)
    BY <1>3, <2>1
  <2>3. new.docs[d] = e
    BY <1>2
  <2> QED
    BY <2>2, <2>3 DEF Owned
<1>7. \A x \in DOMAIN new.docs : Owned(fs, new, x)
  BY <1>2, <1>5, <1>6, SparesOwned
<1>8. \A x \in DOMAIN new.docs : new.docs[x].loc.seg \in ids
  BY <1>2 DEF Lives
<1> QED
  BY <1>1, <1>7, <1>8 DEF Owns, Lives

-----------------------------------------------------------------------------
(* Groups in the log *)

LEMMA FreshSame ==
  ASSUME NEW old, NEW new, NEW b \in Nat, NEW p \in Nat \ {0}, NEW j \in Int,
         \A q \in p .. j : new[b + q] = old[q], p <= j + 1, new[b + p] = old[p], Fresh(old, p, j)
  PROVE  Fresh(new, b + p, b + j)
<1>1. new[b + p].kind \in PartKinds
  BY DEF Fresh
<1>2. ASSUME NEW q \in b + p + 1 .. b + j
      PROVE  /\ new[q].kind \in PartKinds
             /\ new[q].kind # new[b + p].kind \/ new[q].part # new[b + p].part
  <2>1. q - b \in p + 1 .. j /\ q - b \in p .. j /\ b + (q - b) = q
    OBVIOUS
  <2>2. new[q] = old[q - b]
    BY <2>1
  <2> QED
    BY <2>1, <2>2 DEF Fresh
<1> QED
  BY <1>1, <1>2 DEF Fresh

(* A group stays one wherever its records are put down in a row. *)
LEMMA GroupShift ==
  ASSUME NEW old, NEW new, NEW b \in Nat, NEW j \in Nat \ {0},
         \A q \in 1 .. j : new[b + q] = old[q], GroupAt(old, j)
  PROVE  GroupAt(new, b + j)
<1>1. new[b + j] = old[j]
  OBVIOUS
<1>2. ASSUME NEW i \in old[j].splits, NEW kind \in PartKinds
      PROVE  \E p \in 1 .. b + j - 1 :
               /\ new[p].kind = kind /\ new[p].part = i /\ new[p].doc = new[b + j].doc
               /\ Close(new[b + j].seq, new[b + j].splits, new[p])
               /\ Fresh(new, p, b + j - 1)
  <2>1. PICK p \in 1 .. j - 1 :
          /\ old[p].kind = kind /\ old[p].part = i /\ old[p].doc = old[j].doc
          /\ Close(old[j].seq, old[j].splits, old[p])
          /\ Fresh(old, p, j - 1)
    BY DEF GroupAt
  <2>2. new[b + p] = old[p] /\ b + p \in 1 .. b + j - 1
    OBVIOUS
  <2>3. Fresh(new, b + p, b + (j - 1))
    <3>1. PICK i0 \in Int : i0 = j - 1
      OBVIOUS
    <3>2. p \in Nat \ {0} /\ p <= i0 + 1 /\ \A q \in p .. i0 : new[b + q] = old[q]
      BY <3>1
    <3> QED
      BY <2>1, <2>2, <3>1, <3>2, FreshSame
  <2>4. b + (j - 1) = b + j - 1
    OBVIOUS
  <2> QED
    BY <1>1, <2>1, <2>2, <2>3, <2>4
<1> QED
  BY <1>1, <1>2 DEF GroupAt

(* A beginning of a log of groups is one, the last record perhaps cut short. *)
LEMMA GroupedStart ==
  ASSUME NEW old, NEW new, NEW s, Grouped(old, s),
         \A j \in DOMAIN new : /\ j \in Nat \ {0}
                               /\ \/ IsTorn(new[j])
                                  \/ j \in DOMAIN old /\ \A p \in 1 .. j : new[p] = old[p]
  PROVE  Grouped(new, s)
<1> SUFFICES ASSUME NEW j \in DOMAIN new, new[j].kind = "Doc"
             PROVE  GroupAt(new, j) /\ Clear(new[j], s)
  BY DEF Grouped
<1>1. ~ IsTorn(new[j])
  BY DEF IsTorn
<1>2. j \in Nat \ {0} /\ j \in DOMAIN old /\ \A p \in 1 .. j : new[p] = old[p]
  BY <1>1
<1>3. new[j] = old[j]
  BY <1>2
<1>4. GroupAt(old, j) /\ Clear(new[j], s)
  BY <1>2, <1>3 DEF Grouped
<1>5. GroupAt(new, 0 + j)
  <2>1. \A q \in 1 .. j : new[0 + q] = old[q]
    BY <1>2
  <2> QED
    BY <1>2, <1>4, <2>1, GroupShift
<1> QED
  BY <1>2, <1>4, <1>5

(* The records of segment a, and behind them what is left of src. *)
LEMMA GroupedBehind ==
  ASSUME NEW fs, NEW gs, NEW a, NEW tail, NEW src, NEW s, Behind(gs, fs, a, tail),
         gs[a].recs \in Seq(LogRecords \cup {Torn}), TornTailOnly(gs[a].recs),
         Len(src) \in Nat, DOMAIN src = 1 .. Len(src), Len(tail) <= Len(src),
         \A i \in 1 .. Len(tail) : IsTorn(tail[i]) \/ tail[i] = src[i],
         Grouped(fs[a].recs, s), Grouped(src, s)
  PROVE  Grouped(gs[a].recs, s)
<1> DEFINE L == Len(fs[a].recs)
           new == gs[a].recs
<1>1. /\ L \in Nat /\ Len(tail) \in Nat /\ DOMAIN fs[a].recs = 1 .. L
      /\ DOMAIN new = 1 .. L + Len(tail)
      /\ \A i \in 1 .. L : new[i] = fs[a].recs[i]
      /\ \A i \in 1 .. Len(tail) : new[L + i] = tail[i]
  BY DEF Behind
<1>2. Len(new) = L + Len(tail)
  <2>1. Len(new) \in Nat /\ DOMAIN new = 1 .. Len(new)
    BY LenProperties
  <2> HIDE DEF new, L
  <2> QED
    BY <1>1, <2>1
<1> SUFFICES ASSUME NEW j \in DOMAIN new, new[j].kind = "Doc"
             PROVE  GroupAt(new, j) /\ Clear(new[j], s)
  BY DEF Grouped
<1>3. \A p \in 1 .. Len(new) - 1 : ~ IsTorn(new[p])
  BY DEF TornTailOnly
<1>4. ~ IsTorn(new[j])
  BY DEF IsTorn
<1> HIDE DEF L, new
<1>5. \A p \in 1 .. j : ~ IsTorn(new[p])
  BY <1>1, <1>2, <1>3, <1>4
<1>6. CASE j <= L
  <2>1. j \in Nat \ {0} /\ \A q \in 1 .. j : new[0 + q] = fs[a].recs[q]
    BY <1>1, <1>6
  <2>2. j \in DOMAIN fs[a].recs /\ new[j] = fs[a].recs[j]
    BY <1>1, <1>6
  <2>3. GroupAt(fs[a].recs, j) /\ Clear(new[j], s)
    BY <2>2 DEF Grouped
  <2>4. GroupAt(new, 0 + j)
    BY <2>1, <2>3, GroupShift
  <2> QED
    BY <2>1, <2>3, <2>4
<1>7. CASE j > L
  <2>1. PICK i \in Int : i = j - L
    BY <1>1
  <2>2. i \in 1 .. Len(tail) /\ j = L + i /\ i \in Nat \ {0}
    BY <1>1, <1>7, <2>1
  <2>3. \A q \in 1 .. i : L + q \in 1 .. j /\ q \in 1 .. Len(tail)
    BY <1>1, <2>2
  <2>4. \A q \in 1 .. i : new[L + q] = src[q]
    BY <1>1, <1>5, <2>3
  <2>5. i \in DOMAIN src /\ new[j] = src[i]
    BY <1>1, <2>2, <2>4
  <2>6. GroupAt(src, i) /\ Clear(new[j], s)
    BY <2>5 DEF Grouped
  <2>7. GroupAt(new, L + i)
    BY <1>1, <2>2, <2>4, <2>6, GroupShift
  <2> QED
    BY <2>2, <2>6, <2>7
<1> QED
  BY <1>1, <1>6, <1>7

(* What append_document writes is a group, behind everything before it. *)
LEMMA SpelledGrouped ==
  ASSUME NEW recs, NEW d, NEW c \in Contents, NEW seq \in Nat, NEW k \in 0 .. 1, NEW s \in Nat,
         Spells(recs, k, d, c, seq), DOMAIN recs = 1 .. Len(recs), s < seq
  PROVE  Grouped(recs, s)
<1> DEFINE n == c.splits
           j == k + 2 * n + 1
<1>1. n \in Nat
  BY ContentsAssumption
<1>2. Len(recs) = j /\ recs[j] = DocRecord(seq + k + 2 * n, d, c)
  BY DEF Spells
<1>3. \A i \in 1 .. n : /\ recs[k + i] = SummaryRecord(seq + k + i - 1, d, i)
                        /\ recs[k + n + i] = SplitRecord(seq + k + n + i - 1, d, i)
  BY DEF Spells
<1>4. k = 1 => recs[1] = DeleteRecord(seq, d)
  BY DEF Spells
<1> HIDE DEF n
<1>5. /\ recs[j].kind = "Doc" /\ recs[j].seq = seq + k + 2 * n /\ recs[j].doc = d
      /\ recs[j].splits = 1 .. n /\ recs[j].list \subseteq 1 .. n
  BY <1>2 DEF DocRecord, n
<1>6. Cardinality(recs[j].splits) = n
  BY <1>1, <1>5, FS_Interval
<1>7. \A i \in 1 .. n :
        /\ recs[k + i].kind = "Summary" /\ recs[k + i].part = i /\ recs[k + i].doc = d
        /\ recs[k + i].seq = seq + k + i - 1
        /\ recs[k + n + i].kind = "Split" /\ recs[k + n + i].part = i /\ recs[k + n + i].doc = d
        /\ recs[k + n + i].seq = seq + k + n + i - 1
  <2>1. ASSUME NEW i \in 1 .. n
        PROVE  /\ recs[k + i].kind = "Summary" /\ recs[k + i].part = i /\ recs[k + i].doc = d
               /\ recs[k + i].seq = seq + k + i - 1
    <3>1. PICK r, x : r = recs[k + i] /\ x = seq + k + i - 1
      OBVIOUS
    <3>2. r = SummaryRecord(x, d, i)
      BY <1>3, <3>1
    <3>3. r.kind = "Summary" /\ r.part = i /\ r.doc = d /\ r.seq = x
      BY <3>2 DEF SummaryRecord
    <3> QED
      BY <3>1, <3>3
  <2>2. ASSUME NEW i \in 1 .. n
        PROVE  /\ recs[k + n + i].kind = "Split" /\ recs[k + n + i].part = i
               /\ recs[k + n + i].doc = d /\ recs[k + n + i].seq = seq + k + n + i - 1
    <3>1. PICK r, x : r = recs[k + n + i] /\ x = seq + k + n + i - 1
      OBVIOUS
    <3>2. r = SplitRecord(x, d, i)
      BY <1>3, <3>1
    <3>3. r.kind = "Split" /\ r.part = i /\ r.doc = d /\ r.seq = x
      BY <3>2 DEF SplitRecord
    <3> QED
      BY <3>1, <3>3
  <2> QED
    BY <2>1, <2>2
<1>8. ASSUME NEW q \in k + 1 .. k + 2 * n
      PROVE  \/ q <= k + n /\ recs[q].kind = "Summary" /\ recs[q].part = q - k
             \/ q > k + n /\ recs[q].kind = "Split" /\ recs[q].part = q - k - n
  <2>1. CASE q <= k + n
    <3>1. q - k \in 1 .. n /\ k + (q - k) = q
      BY <1>1, <2>1
    <3> QED
      BY <1>7, <2>1, <3>1
  <2>2. CASE q > k + n
    <3>1. q - k - n \in 1 .. n /\ k + n + (q - k - n) = q
      BY <1>1, <2>2
    <3> QED
      BY <1>7, <2>2, <3>1
  <2> QED
    BY <1>1, <2>1, <2>2
<1> HIDE DEF j
<1>9. ASSUME NEW q \in DOMAIN recs, recs[q].kind = "Doc" PROVE q = j
  <2>1. CASE q \in k + 1 .. k + 2 * n
    BY <1>8, <1>9, <2>1
  <2>2. CASE k = 1 /\ q = 1
    BY <1>4, <1>9, <2>2 DEF DeleteRecord
  <2> QED
    BY <1>1, <1>2, <2>1, <2>2 DEF j
<1>10. GroupAt(recs, j)
  <2>1. ASSUME NEW p \in k + 1 .. k + 2 * n PROVE Fresh(recs, p, j - 1)
    <3>1. recs[p].kind \in PartKinds
      BY <1>8 DEF PartKinds
    <3>2. ASSUME NEW q \in p + 1 .. j - 1
          PROVE  /\ recs[q].kind \in PartKinds
                 /\ recs[q].kind # recs[p].kind \/ recs[q].part # recs[p].part
      <4>1. q \in k + 1 .. k + 2 * n
        BY <1>1 DEF j
      <4> QED
        BY <1>1, <1>8, <4>1 DEF PartKinds
    <3> QED
      BY <3>1, <3>2 DEF Fresh
  <2>2. ASSUME NEW i \in 1 .. n, NEW kind \in PartKinds
        PROVE  \E p \in 1 .. j - 1 :
                 /\ recs[p].kind = kind /\ recs[p].part = i /\ recs[p].doc = recs[j].doc
                 /\ Close(recs[j].seq, recs[j].splits, recs[p])
                 /\ Fresh(recs, p, j - 1)
    <3>1. CASE kind = "Summary"
      <4>1. k + i \in 1 .. j - 1 /\ k + i \in k + 1 .. k + 2 * n
        BY <1>1 DEF j
      <4>2. /\ recs[j].seq - recs[k + i].seq \in 1 .. 2 * n
            /\ recs[j].seq - recs[k + i].seq = 2 * n - i + 1
        <5>1. PICK a, b, h \in Int : /\ a = recs[j].seq /\ b = recs[k + i].seq
                                    /\ h = seq + k
          <6>1. PICK h \in Int : h = seq + k
            BY <1>1
          <6>2. h + 2 * n \in Int /\ h + i - 1 \in Int
            BY <1>1
          <6>3. recs[j].seq = h + 2 * n /\ recs[k + i].seq = h + i - 1
            BY <1>5, <1>7, <6>1
          <6> QED
            BY <6>1, <6>2, <6>3
        <5>2. a = h + 2 * n /\ b = h + i - 1
          BY <1>5, <1>7, <5>1
        <5>3. a - b = 2 * n - i + 1 /\ a - b \in 1 .. 2 * n
          BY <1>1, <5>1, <5>2
        <5> QED
          BY <5>1, <5>3
      <4>3. Close(recs[j].seq, recs[j].splits, recs[k + i])
        <5>1. PICK w, z : w = recs[j] /\ z = recs[k + i]
          OBVIOUS
        <5>2. Cardinality(w.splits) = n /\ z.kind = "Summary" /\ z.part = i
          BY <1>6, <1>7, <5>1
        <5>3. w.seq - z.seq \in 1 .. 2 * n /\ w.seq - z.seq = 2 * n - i + 1
          BY <4>2, <5>1
        <5>4. Close(w.seq, w.splits, z)
          BY <5>2, <5>3 DEF Close, Back
        <5> QED
          BY <5>1, <5>4
      <4> QED
        BY <1>5, <1>7, <2>1, <3>1, <4>1, <4>3
    <3>2. CASE kind = "Split"
      <4>1. k + n + i \in 1 .. j - 1 /\ k + n + i \in k + 1 .. k + 2 * n
        BY <1>1 DEF j
      <4>2. /\ recs[j].seq - recs[k + n + i].seq \in 1 .. 2 * n
            /\ recs[j].seq - recs[k + n + i].seq = n - i + 1
        <5>1. PICK a, b, h \in Int : /\ a = recs[j].seq /\ b = recs[k + n + i].seq
                                    /\ h = seq + k
          <6>1. PICK h \in Int : h = seq + k
            BY <1>1
          <6>2. h + 2 * n \in Int /\ h + n + i - 1 \in Int
            BY <1>1
          <6>3. recs[j].seq = h + 2 * n /\ recs[k + n + i].seq = h + n + i - 1
            BY <1>5, <1>7, <6>1
          <6> QED
            BY <6>1, <6>2, <6>3
        <5>2. a = h + 2 * n /\ b = h + n + i - 1
          BY <1>5, <1>7, <5>1
        <5>3. a - b = n - i + 1 /\ a - b \in 1 .. 2 * n
          BY <1>1, <5>1, <5>2
        <5> QED
          BY <5>1, <5>3
      <4> QED
        <5>1. Close(recs[j].seq, recs[j].splits, recs[k + n + i])
          <6>1. PICK w, z : w = recs[j] /\ z = recs[k + n + i]
            OBVIOUS
          <6>2. Cardinality(w.splits) = n /\ z.kind = "Split" /\ z.part = i
            BY <1>6, <1>7, <6>1
          <6>3. w.seq - z.seq \in 1 .. 2 * n /\ w.seq - z.seq = n - i + 1
            BY <4>2, <6>1
          <6>4. Close(w.seq, w.splits, z)
            BY <6>2, <6>3 DEF Close, Back
          <6> QED
            BY <6>1, <6>4
        <5> QED
          BY <1>5, <1>7, <2>1, <3>2, <4>1, <5>1
    <3> QED
      BY <3>1, <3>2 DEF PartKinds
  <2> QED
    BY <1>5, <2>2 DEF GroupAt
<1>11. Clear(recs[j], s)
  BY <1>1, <1>5, <1>6 DEF Clear
<1> QED
  BY <1>9, <1>10, <1>11 DEF Grouped

=============================================================================
