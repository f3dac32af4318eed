----------------------------- MODULE StoreFaults -----------------------------
(***************************************************************************)
(* The store when one of its disk operations fails and the process goes on *)
(* (an Err is returned, nothing crashes).  Every failure below is an early *)
(* return by `?` in insert, delete, seal_active or compact, with what the  *)
(* code has and has not done by then.  Store has the same operations when  *)
(* their flushes, rewinds, syncs and manifests succeed.                    *)
(***************************************************************************)
EXTENDS Store

CONSTANT Failing   \* which operations may fail: some of "rewind", "flush", "seal", "compact"

VARIABLE faults    \* bound counter: one failure

faultVars == <<vars, faults>>

-----------------------------------------------------------------------------
(* Writes that fail *)

(* A flush that gives up after k of the buffered records: the BufWriter    *)
(* keeps the others, and the next flush goes on with them.                 *)
FlushedOnly(k) == [files EXCEPT ![active].recs = @ \o SubSeq(buf, 1, k)]

(* The appends of an insert fail after n records, and so does its rewind:  *)
(* truncate_to first flushes the very BufWriter that has just failed.  The *)
(* records stay in it, active.len counts them, and next_seq stays where    *)
(* the record that failed has put it.  (A set_len that fails after that    *)
(* flush leaves what RewindFails leaves when the next flush has succeeded; *)
(* a seek that fails after the cut is left out.)                           *)
RewindFails ==
  /\ op.step = "insert"
  /\ \E n \in 1 .. Len(buf) - 1 : \E k \in 0 .. n - 1 :
       /\ files' = FlushedOnly(k)
       /\ buf' = SubSeq(buf, k + 1, n)
       /\ lastSeq' = buf[n].seq
       /\ m' = [m EXCEPT !.nextSeq = buf[n + 1].seq + 1]
  /\ op' = At("idle")
  /\ UNCHANGED <<man, snap, active, maps, pend, promise, crashes>>

(* The flush that ends an insert or a delete fails: the maps and the       *)
(* counts have changed, the seal is not reached, the caller is told of an  *)
(* error.  The entry is the one InsertCommit makes.                        *)
InsertFlushFails ==
  LET d == op.doc
      c == op.content
      n == c.splits
      fromEnd(i) == [seg |-> active, off |-> ActiveLen - i]
      entry == [splits |-> 1 .. n,
                list |-> IF c.listed THEN 1 .. n ELSE {},
                extra |-> IF c.listed THEN {} ELSE 1 .. n,
                seq |-> buf[Len(buf)].seq, loc |-> fromEnd(0)]
      summaryLocs == [key \in Keys(d, 1 .. n) |-> fromEnd(2 * n + 1 - key[2])]
      splitLocs == [key \in Keys(d, 1 .. n) |-> fromEnd(n + 1 - key[2])]
      freed(inActive) == IF d \in DOMAIN maps.docs THEN FreedIn(d, inActive) ELSE 0
  IN  /\ op.step = "insert"
      /\ maps' = PutDoc(RemoveDoc(maps, d), d, entry, splitLocs, summaryLocs)
      /\ m' = [m EXCEPT !.tombstones = @ + freed(FALSE)]
      /\ pend' = pend + freed(TRUE)

DeleteFlushFails ==
  /\ op.step = "delete"
  /\ maps' = RemoveDoc(maps, op.doc)
  /\ m' = [m EXCEPT !.tombstones = @ + FreedIn(op.doc, FALSE)]
  /\ pend' = pend + FreedIn(op.doc, TRUE)

FlushFails ==
  /\ InsertFlushFails \/ DeleteFlushFails
  /\ \E k \in 0 .. Len(buf) - 1 :
       files' = FlushedOnly(k) /\ buf' = SubSeq(buf, k + 1, Len(buf))
  /\ since' = since \cup InFlight
  /\ op' = At("idle")
  /\ UNCHANGED <<man, snap, active, lastSeq, expect, crashes>>

(* Records that a failed write has left in the BufWriter at a boundary. *)
Leftovers == op.step = "idle" /\ buf # <<>>

(* The next flush that succeeds writes them.  As a step of its own it is   *)
(* an insert that fails at its first append and rewinds: truncate_to       *)
(* flushes what is there and cuts nothing, and next_seq is put back.       *)
LeftoversFlushed ==
  /\ Leftovers
  /\ files' = Flushed
  /\ buf' = <<>>
  /\ UNCHANGED <<man, snap, m, active, lastSeq, maps, pend, op, promise, crashes>>

-----------------------------------------------------------------------------
(* Seals and compactions that fail *)

(* old.seal() fails: the new segment is already in place, the manifest     *)
(* knows nothing of it.                                                    *)
SealSyncFails ==
  /\ op.step = "seal"
  /\ files' = Put(files, m.nextSegmentId, EmptySegment)
  /\ active' = m.nextSegmentId
  /\ lastSeq' = 0
  /\ m' = [m EXCEPT !.nextSegmentId = @ + 1]
  /\ op' = At("idle")
  /\ UNCHANGED <<man, snap, buf, maps, pend, promise, crashes>>

(* seal_active's manifest.store fails. *)
SealStoreFails ==
  /\ op.step = "sealPublish"
  /\ op' = At("idle")
  /\ UNCHANGED <<disk, memory, promise, crashes>>

(* compact_into's manifest.store fails: compact removes the new segment,   *)
(* the manifest in memory keeps naming it.                                 *)
CompactStoreFails ==
  /\ op.step = "compactPublish"
  /\ files' = Without(files, {op.seg})
  /\ op' = At("idle")
  /\ UNCHANGED <<man, snap, memory, promise, crashes>>

(* The closing snapshot_meta fails in its sync or in writing meta.snap:    *)
(* compact removes the new segment, which is the published one.            *)
CompactSnapshotFails ==
  /\ op.step = "snapshot"
  /\ files' = Without(files, SealedIds(m))
  /\ op' = At("idle")
  /\ UNCHANGED <<man, snap, memory, promise, crashes>>

-----------------------------------------------------------------------------

Fails ==
  \/ "rewind" \in Failing /\ RewindFails
  \/ "flush" \in Failing /\ FlushFails
  \/ "seal" \in Failing /\ (SealSyncFails \/ SealStoreFails)
  \/ "compact" \in Failing /\ (CompactStoreFails \/ CompactSnapshotFails)

(* With leftovers, the store writes them or dies: the flush that the next  *)
(* write, sync, seal or snapshot makes is taken before that operation.     *)
(* A compaction after the failure is left out: it reads through the        *)
(* segments Store has open, which then may differ from the manifest's.     *)
FaultNext ==
  \/ /\ Next
     /\ Leftovers => op'.step = "down"
     /\ faults = 1 => op'.step # "compactUnsnap"
     /\ UNCHANGED faults
  \/ LeftoversFlushed /\ UNCHANGED faults
  \/ /\ faults = 0
     /\ faults' = 1
     /\ Fails

FaultSpec == Init /\ faults = 0 /\ [][FaultNext]_faultVars

(* At every boundary a replay of the log reproduces the maps: "the maps    *)
(* can never hold entities that a replay would not reproduce"              *)
(* (store.rs:272-274), also after a seal that failed.                      *)
MapsReplayable == ReplayAgrees

(* The same of a write that failed and a rewind that failed, from the time *)
(* on when everything appended has been flushed (store.rs:272-274: "a      *)
(* failure part way rewinds the segment").                                 *)
FlushedReplayable == buf = <<>> => ReplayAgrees

(* A failed compaction costs nothing but its partial segment, "which is    *)
(* removed here and would be removed at the next open anyway"              *)
(* (compact.rs:29-31): the shard opens again.                              *)
OpensAfterFailure == AlwaysOpens

=============================================================================
