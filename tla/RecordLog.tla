------------------------------ MODULE RecordLog ------------------------------
(***************************************************************************)
(* The record log's vocabulary and its replay: what a segment holds, what  *)
(* the in-memory maps hold, and how scanning segments rebuilds the maps    *)
(* (embedding-store: record.rs, maps.rs, replay.rs).                       *)
(*                                                                         *)
(* Data abstraction.  A document is a number (its id orders compaction).   *)
(* Its split ids are hash(doc id, position), so split i of document d is   *)
(* the key <<d, i>>, whatever its text; every split has one summary, with  *)
(* the same key in the summaries map.  Texts and vectors are left out: a   *)
(* record's sequence number says which insert wrote it.  A record occupies *)
(* one unit of its segment, so offsets are positions 1, 2, ...             *)
(***************************************************************************)
EXTENDS Integers, Sequences, FiniteSets

CONSTANTS Docs,       \* document ids
          MaxSplits,  \* splits a document can have
          Contents    \* what a caller may insert: how many splits, and whether
                      \* the document carries its own summary list (the union
                      \* of the split lists) or `None`

ASSUME DocsAssumption == Docs \subseteq Nat
ASSUME ContentsAssumption ==
  /\ MaxSplits \in Nat
  /\ Contents \subseteq [splits : 0 .. MaxSplits, listed : BOOLEAN]

Parts == 1 .. MaxSplits

-----------------------------------------------------------------------------
(* Records *)

SummaryRecord(seq, d, i) == [kind |-> "Summary", seq |-> seq, doc |-> d, part |-> i]
SplitRecord(seq, d, i) == [kind |-> "Split", seq |-> seq, doc |-> d, part |-> i]
DeleteRecord(seq, d) == [kind |-> "DeleteDoc", seq |-> seq, doc |-> d]
DocRecord(seq, d, c) ==
  [kind |-> "Doc", seq |-> seq, doc |-> d,
   splits |-> 1 .. c.splits,
   list |-> IF c.listed THEN 1 .. c.splits ELSE {}]

(* The bytes of a record that was only partly written: undecodable. *)
Torn == [kind |-> "Torn"]

IsTorn(r) == r.kind = "Torn"

-----------------------------------------------------------------------------
(* The maps *)

EmptyMaps == [docs |-> <<>>, splits |-> <<>>, summaries |-> <<>>]

Put(f, key, value) ==
  [x \in DOMAIN f \cup {key} |-> IF x = key THEN value ELSE f[x]]

Over(new, f) ==
  [x \in DOMAIN new \cup DOMAIN f |-> IF x \in DOMAIN new THEN new[x] ELSE f[x]]

Without(f, keys) == [x \in DOMAIN f \ keys |-> f[x]]

Keys(d, parts) == {<<d, i>> : i \in parts}

(* DocEntry::owned_summary_ids. *)
OwnedSummaries(e) == e.list \cup e.extra

(* Maps::remove_doc, as far as the maps go. *)
RemoveDoc(maps, d) ==
  IF d \notin DOMAIN maps.docs THEN maps
  ELSE LET e == maps.docs[d]
       IN  [docs |-> Without(maps.docs, {d}),
            splits |-> Without(maps.splits, Keys(d, e.splits)),
            summaries |-> Without(maps.summaries, Keys(d, OwnedSummaries(e)))]

(* The locations Maps::remove_doc accounts as freed. *)
FreedLocs(maps, d) ==
  LET e == maps.docs[d]
      gone(f, keys) == {f[k] : k \in keys \cap DOMAIN f}
  IN  {e.loc} \cup gone(maps.splits, Keys(d, e.splits))
              \cup gone(maps.summaries, Keys(d, OwnedSummaries(e)))

(* Store::insert's half: the new document's entities go into the maps.     *)
(* splitLocs and summaryLocs say where append_document put them.           *)
PutDoc(maps, d, entry, splitLocs, summaryLocs) ==
  [docs |-> Put(maps.docs, d, entry),
   splits |-> Over(splitLocs, maps.splits),
   summaries |-> Over(summaryLocs, maps.summaries)]

-----------------------------------------------------------------------------
(* Replay *)

(* replay::commit_doc.  `pending` maps <<kind, doc, part>> to a location:   *)
(* the code keeps a list and inserts it in order, so of two buffered        *)
(* records for one id the later one wins.  Every buffered record of the     *)
(* document is committed, named by the Doc record or not.                   *)
CommitDoc(maps, pending, r, loc) ==
  LET d == r.doc
      mine(kind) == {i \in Parts : <<kind, d, i>> \in DOMAIN pending}
      placed(kind) == [k \in Keys(d, mine(kind)) |-> pending[<<kind, d, k[2]>>]]
      entry == [splits |-> r.splits, list |-> r.list,
                extra |-> mine("Split") \ r.list,
                seq |-> r.seq, loc |-> loc]
  IN  [maps |-> PutDoc(RemoveDoc(maps, d), d, entry, placed("Split"), placed("Summary")),
       pending |-> [k \in {x \in DOMAIN pending : x[2] # d} |-> pending[k]]]

(* replay::apply. *)
MutApply(maps, pending, r, loc) ==
  CASE r.kind \in {"Split", "Summary"} ->
         [maps |-> maps, pending |-> Put(pending, <<r.kind, r.doc, r.part>>, loc)]
    [] r.kind = "DeleteDoc" -> [maps |-> maps, pending |-> pending]
    [] r.kind = "Doc" -> CommitDoc(maps, pending, r, loc)
Apply(maps, pending, r, loc) ==
  CASE r.kind \in {"Split", "Summary"} ->
         [maps |-> maps, pending |-> Put(pending, <<r.kind, r.doc, r.part>>, loc)]
    [] r.kind = "DeleteDoc" ->
         [maps |-> RemoveDoc(maps, r.doc),
          pending |-> [k \in {x \in DOMAIN pending : x[2] # r.doc} |-> pending[k]]]
    [] r.kind = "Doc" -> CommitDoc(maps, pending, r, loc)

(* How many well-formed records a segment starts with, and those records. *)
Decoded(recs) ==
  CHOOSE n \in 0 .. Len(recs) :
    /\ \A i \in 1 .. n : ~ IsTorn(recs[i])
    /\ n < Len(recs) => IsTorn(recs[n + 1])
Decodable(recs) == SubSeq(recs, 1, Decoded(recs))

(* replay::is_torn_tail: undecodable bytes with nothing after them. *)
TornTailOnly(recs) == \A i \in 1 .. Len(recs) - 1 : ~ IsTorn(recs[i])

(* replay::scan_segment: records above snapshotSeq are applied in order;    *)
(* what is still pending at the end of the segment is dropped.              *)
ScanSegment(maps, seg, recs, snapshotSeq) ==
  LET good == Decodable(recs)
      scan[i \in 0 .. Len(good)] ==
        IF i = 0 THEN [maps |-> maps, pending |-> <<>>]
        ELSE LET before == scan[i - 1]
             IN  IF good[i].seq > snapshotSeq
                 THEN Apply(before.maps, before.pending, good[i],
                            [seg |-> seg, off |-> i])
                 ELSE before
  IN  scan[Len(good)].maps

(* SegmentScan::last_seq: the last record's, which need not be the largest. *)
LastSeq(recs) ==
  LET good == Decodable(recs)
  IN  IF good = <<>> THEN 0 ELSE good[Len(good)].seq

-----------------------------------------------------------------------------
(* What the documents amount to *)

(* Which insert each document's content comes from; 0 when it is absent. *)
Versions(maps) ==
  [d \in Docs |-> IF d \in DOMAIN maps.docs THEN maps.docs[d].seq ELSE 0]

NoLoc == [seg |-> -1, off |-> 0]

Lookup(f, key) == IF key \in DOMAIN f THEN f[key] ELSE NoLoc

(* A document as its readers see it: where its record, its splits and its   *)
(* listed summaries are.                                                    *)
DocView(maps) ==
  [d \in DOMAIN maps.docs |->
     LET e == maps.docs[d]
     IN  [seq |-> e.seq, loc |-> e.loc,
          splits |-> [i \in e.splits |-> Lookup(maps.splits, <<d, i>>)],
          list |-> [i \in e.list |-> Lookup(maps.summaries, <<d, i>>)]]]

=============================================================================
