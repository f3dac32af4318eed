---------------------------- MODULE StoreDocProofs ----------------------------
(***************************************************************************)
(* The store's documents, for every number of documents, segments, records *)
(* and crashes.  Every document has its parts: where the maps say its      *)
(* splits and summaries are, there are the ones its last insert wrote; the *)
(* log is a log of whole groups, which neither a snapshot nor a compaction *)
(* cuts.  And the maps hold what the log says: a document is there when    *)
(* the last record that decides on it is a Doc record, so reading the log  *)
(* back, from a snapshot or from nothing, gives the maps again.  And what  *)
(* is left of the log after a crash or a power loss says what one of the   *)
(* states promised does, so an open recovers one of them.  Together these  *)
(* make the store the set of documents that DocStore is.                   *)
(***************************************************************************)
EXTENDS StoreProofs, StoreRefinement, StoreFaults

-----------------------------------------------------------------------------
(* Ownership and replay *)

(* A record numbered close to one that clears s is numbered above s. *)
LEMMA CloseAbove ==
  ASSUME NEW r \in DocRecords, NEW x, x.seq \in Nat, NEW s \in Nat, r.seq > s, Clear(r, s),
         Close(r.seq, r.splits, x)
  PROVE  x.seq > s
<1>1. r.splits \subseteq 1 .. MaxSplits /\ MaxSplits \in Nat /\ r.seq \in Nat
  BY ContentsAssumption DEF DocRecords, Parts
<1>2. Cardinality(r.splits) \in Nat
  <2>1. IsFiniteSet(1 .. MaxSplits)
    BY <1>1, FS_Interval
  <2>2. IsFiniteSet(r.splits)
    BY <1>1, <2>1, FS_Subset
  <2> QED
    BY <2>2, FS_CardinalityType
<1>3. PICK c, a, b \in Nat : c = Cardinality(r.splits) /\ a = r.seq /\ b = x.seq
  BY <1>1, <1>2
<1>4. a - 2 * c > s /\ a - b \in 1 .. 2 * c
  BY <1>3 DEF Clear, Close
<1> QED
  BY <1>3, <1>4

(* What a scan of segment seg has buffered when it has read i records: the  *)
(* fresh ones at least.                                                     *)
Held(pending, recs, i, s, seg) ==
  \A p \in 1 .. i :
    Fresh(recs, p, i) /\ recs[p].seq > s =>
      /\ <<recs[p].kind, recs[p].doc, recs[p].part>> \in DOMAIN pending
      /\ pending[<<recs[p].kind, recs[p].doc, recs[p].part>>] = [seg |-> seg, off |-> p]

LEMMA FreshBefore ==
  ASSUME NEW recs, NEW p \in Nat, NEW i \in Nat, p < i, Fresh(recs, p, i)
  PROVE  /\ Fresh(recs, p, i - 1)
         /\ recs[i].kind \in PartKinds
         /\ recs[i].kind # recs[p].kind \/ recs[i].part # recs[p].part
<1>1. i \in p + 1 .. i /\ \A q \in p + 1 .. i - 1 : q \in p + 1 .. i
  OBVIOUS
<1> QED
  BY <1>1 DEF Fresh

(* The i-th record is read, or skipped. *)
LEMMA HeldStep ==
  ASSUME NEW pending, NEW new, NEW recs, NEW i \in Nat \ {0}, NEW s, NEW seg,
         Held(pending, recs, i - 1, s, seg),
         \/ ~ (recs[i].seq > s) /\ new = pending
         \/ recs[i].kind \notin PartKinds
         \/ new = Put(pending, <<recs[i].kind, recs[i].doc, recs[i].part>>,
                      [seg |-> seg, off |-> i])
  PROVE  Held(new, recs, i, s, seg)
<1> DEFINE key(p) == <<recs[p].kind, recs[p].doc, recs[p].part>>
<1> SUFFICES ASSUME NEW p \in 1 .. i, Fresh(recs, p, i), recs[p].seq > s
             PROVE  key(p) \in DOMAIN new /\ new[key(p)] = [seg |-> seg, off |-> p]
  BY DEF Held
<1>1. CASE p = i
  <2>1. recs[i].kind \in PartKinds
    BY <1>1 DEF Fresh
  <2>2. new = Put(pending, key(i), [seg |-> seg, off |-> i])
    BY <1>1, <2>1
  <2> HIDE DEF key
  <2> QED
    BY <1>1, <2>2 DEF Put
<1>2. CASE p < i
  <2>1. /\ Fresh(recs, p, i - 1) /\ recs[i].kind \in PartKinds
        /\ recs[i].kind # recs[p].kind \/ recs[i].part # recs[p].part
    BY <1>2, FreshBefore
  <2>2. p \in 1 .. i - 1
    BY <1>2
  <2>3. key(p) \in DOMAIN pending /\ pending[key(p)] = [seg |-> seg, off |-> p]
    BY <2>1, <2>2 DEF Held
  <2>4. key(p) # key(i)
    BY <2>1
  <2>5. new = pending \/ new = Put(pending, key(i), [seg |-> seg, off |-> i])
    BY <2>1
  <2> HIDE DEF key
  <2> QED
    BY <2>3, <2>4, <2>5 DEF Put
<1> QED
  BY <1>1, <1>2

(* Committing the Doc record that closes a group gives the document its parts. *)
LEMMA CommitOwns ==
  ASSUME NEW fs, NEW st \in Scans, NEW recs, NEW i \in Nat \ {0}, NEW s \in Nat, NEW seg, NEW ids,
         NEW r \in DocRecords, recs[i] = r, r.seq > s, GroupAt(recs, i), Clear(r, s),
         Held(st.pending, recs, i - 1, s, seg), \A p \in 1 .. i : recs[p].seq \in Nat,
         \A p \in 1 .. i : fs[seg].recs[p] = recs[p],
         Owns(fs, st.maps), Lives(st.maps, ids), seg \in ids
  PROVE  LET new == CommitDoc(st.maps, st.pending, r, [seg |-> seg, off |-> i]).maps
         IN  Owns(fs, new) /\ Lives(new, ids)
<1> DEFINE d == r.doc
           loc == [seg |-> seg, off |-> i]
           mine(kind) == {j \in Parts : <<kind, d, j>> \in DOMAIN st.pending}
           placed(kind) == [k \in Keys(d, mine(kind)) |-> st.pending[<<kind, d, k[2]>>]]
           entry == [splits |-> r.splits, list |-> r.list,
                     extra |-> mine("Split") \ r.list, seq |-> r.seq, loc |-> loc]
           old == RemoveDoc(st.maps, d)
           new == PutDoc(old, d, entry, placed("Split"), placed("Summary"))
<1>1. CommitDoc(st.maps, st.pending, r, loc).maps = new
  BY DEF CommitDoc
<1>2. Owns(fs, old) /\ Lives(old, ids)
  BY OwnsRemoved
<1>3. r.splits \subseteq Parts
  BY DEF DocRecords
<1>4. ASSUME NEW j \in r.splits, NEW kind \in PartKinds
      PROVE  \E p \in 1 .. i - 1 :
               /\ <<kind, d, j>> \in DOMAIN st.pending
               /\ st.pending[<<kind, d, j>>] = [seg |-> seg, off |-> p]
               /\ Close(r.seq, r.splits, recs[p])
  <2>1. PICK p \in 1 .. i - 1 :
          /\ recs[p].kind = kind /\ recs[p].part = j /\ recs[p].doc = d
          /\ Close(r.seq, r.splits, recs[p]) /\ Fresh(recs, p, i - 1)
    BY DEF GroupAt
  <2>2. p \in 1 .. i /\ recs[p].seq \in Nat
    OBVIOUS
  <2>3. recs[p].seq > s
    BY <2>1, <2>2, CloseAbove
  <2> QED
    BY <2>1, <2>3 DEF Held
<1>5. ASSUME NEW kind \in PartKinds
      PROVE  HasParts(fs, placed(kind), d, entry)
  <2>1. ASSUME NEW j \in r.splits
        PROVE  /\ <<d, j>> \in DOMAIN placed(kind) /\ placed(kind)[<<d, j>>].seg = seg
               /\ Close(r.seq, r.splits, fs[seg].recs[placed(kind)[<<d, j>>].off])
    <3>1. PICK p \in 1 .. i - 1 :
            /\ <<kind, d, j>> \in DOMAIN st.pending
            /\ st.pending[<<kind, d, j>>] = [seg |-> seg, off |-> p]
            /\ Close(r.seq, r.splits, recs[p])
      BY <1>4
    <3>2. PICK k : k = <<d, j>>
      OBVIOUS
    <3>3. k \in Keys(d, mine(kind)) /\ k[2] = j
      BY <1>3, <3>1, <3>2 DEF Keys
    <3>4. k \in DOMAIN placed(kind) /\ placed(kind)[k] = st.pending[<<kind, d, j>>]
      BY <3>3
    <3> HIDE DEF placed
    <3>5. placed(kind)[k].seg = seg /\ placed(kind)[k].off = p
      BY <3>1, <3>4
    <3>6. fs[seg].recs[p] = recs[p]
      OBVIOUS
    <3> QED
      BY <3>1, <3>2, <3>4, <3>5, <3>6
  <2>2. entry.splits = r.splits /\ entry.seq = r.seq /\ entry.loc.seg = seg
    OBVIOUS
  <2> HIDE DEF placed, entry
  <2> QED
    BY <2>1, <2>2 DEF HasParts
<1>6. /\ entry.loc.seg \in ids /\ entry.splits \subseteq OwnedSummaries(entry)
      /\ Names(fs[entry.loc.seg].recs[entry.loc.off], entry)
  <2>1. \A j \in r.splits : j \in mine("Split")
    BY <1>3, <1>4 DEF PartKinds
  <2>2. /\ entry.splits = r.splits /\ entry.list = r.list /\ entry.extra = mine("Split") \ r.list
        /\ entry.loc.seg = seg /\ entry.loc.off = i
    OBVIOUS
  <2>3. fs[seg].recs[i] = r /\ r.list \subseteq r.splits
    BY DEF GroupAt
  <2> HIDE DEF entry, mine
  <2> QED
    BY <2>1, <2>2, <2>3 DEF OwnedSummaries, Names
<1>7. \A k \in DOMAIN placed("Split") \cup DOMAIN placed("Summary") : k[1] = d
  <2>1. ASSUME NEW kind, NEW k \in DOMAIN placed(kind) PROVE k[1] = d
    <3>1. k \in Keys(d, mine(kind))
      OBVIOUS
    <3> HIDE DEF placed, mine
    <3> QED
      BY <3>1 DEF Keys
  <2> QED
    BY <2>1, Zenon
<1>8. HasParts(fs, placed("Split"), d, entry) /\ HasParts(fs, placed("Summary"), d, entry)
  BY <1>5 DEF PartKinds
<1> HIDE DEF placed, entry, old, d
<1>9. Owns(fs, new) /\ Lives(new, ids)
  <2>1. PICK sl, ml : sl = placed("Split") /\ ml = placed("Summary")
    OBVIOUS
  <2>2. PICK mp, e : mp = old /\ e = entry
    OBVIOUS
  <2>3. /\ Owns(fs, mp) /\ Lives(mp, ids) /\ \A k \in DOMAIN sl \cup DOMAIN ml : k[1] = d
        /\ e.loc.seg \in ids /\ e.splits \subseteq OwnedSummaries(e)
        /\ Names(fs[e.loc.seg].recs[e.loc.off], e)
        /\ HasParts(fs, sl, d, e) /\ HasParts(fs, ml, d, e)
    BY <1>2, <1>6, <1>7, <1>8, <2>1, <2>2
  <2>4. Owns(fs, PutDoc(mp, d, e, sl, ml)) /\ Lives(PutDoc(mp, d, e, sl, ml), ids)
    BY <2>3, OwnsPut
  <2> QED
    BY <2>1, <2>2, <2>4
<1> QED
  BY <1>1, <1>9

(* What holds when i records of segment seg have been read. *)
ScanOwns(fs, st, recs, i, s, seg, ids) ==
  /\ Owns(fs, st.maps) /\ Lives(st.maps, ids)
  /\ Held(st.pending, recs, i, s, seg)

LEMMA ApplyOwns ==
  ASSUME NEW fs, NEW st \in Scans, NEW recs, NEW i \in Nat \ {0}, NEW s \in Nat, NEW seg, NEW ids,
         NEW r \in LogRecords, recs[i] = r, r.seq > s,
         r.kind = "Doc" => GroupAt(recs, i) /\ Clear(r, s),
         \A p \in 1 .. i : recs[p].seq \in Nat,
         \A p \in 1 .. i : fs[seg].recs[p] = recs[p],
         ScanOwns(fs, st, recs, i - 1, s, seg, ids), seg \in ids
  PROVE  ScanOwns(fs, Apply(st.maps, st.pending, r, [seg |-> seg, off |-> i]),
                  recs, i, s, seg, ids)
<1> DEFINE loc == [seg |-> seg, off |-> i]
           new == Apply(st.maps, st.pending, r, loc)
<1> SUFFICES ScanOwns(fs, new, recs, i, s, seg, ids)
  OBVIOUS
<1>1. Owns(fs, st.maps) /\ Lives(st.maps, ids) /\ Held(st.pending, recs, i - 1, s, seg)
  BY DEF ScanOwns
<1>2. CASE r \in PartRecords
  <2>1. new.maps = st.maps /\ new.pending = Put(st.pending, <<r.kind, r.doc, r.part>>, loc)
    BY <1>2, RecordKinds DEF Apply
  <2> HIDE DEF new
  <2>2. Held(new.pending, recs, i, s, seg)
    <3>1. PICK p, q : p = st.pending /\ q = new.pending
      OBVIOUS
    <3>2. Held(p, recs, i - 1, s, seg)
          /\ q = Put(p, <<recs[i].kind, recs[i].doc, recs[i].part>>, [seg |-> seg, off |-> i])
      BY <1>1, <2>1, <3>1
    <3>3. Held(q, recs, i, s, seg)
      BY <3>2, HeldStep
    <3> QED
      BY <3>1, <3>3
  <2> QED
    BY <1>1, <2>1, <2>2 DEF ScanOwns
<1>3. CASE r \in DeleteRecords
  <2>1. new.maps = RemoveDoc(st.maps, r.doc)
    BY <1>3, RecordKinds DEF Apply
  <2> HIDE DEF new
  <2>2. recs[i].kind \notin PartKinds
    BY <1>3 DEF DeleteRecords, PartKinds
  <2>3. Held(new.pending, recs, i, s, seg)
    <3>1. PICK p, q : p = st.pending /\ q = new.pending
      OBVIOUS
    <3>2. Held(p, recs, i - 1, s, seg)
      BY <1>1, <3>1
    <3>3. Held(q, recs, i, s, seg)
      BY <2>2, <3>2, HeldStep
    <3> QED
      BY <3>1, <3>3
  <2> QED
    BY <1>1, <2>1, <2>3, OwnsRemoved DEF ScanOwns
<1>4. CASE r \in DocRecords
  <2>1. r.kind = "Doc"
    BY <1>4 DEF DocRecords
  <2>2. new = CommitDoc(st.maps, st.pending, r, loc)
    BY <1>4, RecordKinds DEF Apply
  <2>3. recs[i].kind \notin PartKinds
    BY <2>1 DEF PartKinds
  <2>4. Owns(fs, CommitDoc(st.maps, st.pending, r, loc).maps)
        /\ Lives(CommitDoc(st.maps, st.pending, r, loc).maps, ids)
    BY <1>1, <1>4, <2>1, CommitOwns
  <2> HIDE DEF new
  <2>5. Held(new.pending, recs, i, s, seg)
    <3>1. PICK p, q : p = st.pending /\ q = new.pending
      OBVIOUS
    <3>2. Held(p, recs, i - 1, s, seg)
      BY <1>1, <3>1
    <3>3. Held(q, recs, i, s, seg)
      BY <2>3, <3>2, HeldStep
    <3> QED
      BY <3>1, <3>3
  <2> QED
    BY <2>2, <2>4, <2>5 DEF ScanOwns
<1> QED
  BY <1>2, <1>3, <1>4 DEF LogRecords

(* Scanning a log of groups. *)
LEMMA ScanOwning ==
  ASSUME NEW fs, NEW mp \in AllMaps, NEW seg \in Nat, NEW s \in Nat, NEW ids,
         fs[seg].recs \in Seq(LogRecords \cup {Torn}),
         Grouped(fs[seg].recs, s),
         Owns(fs, mp), Lives(mp, ids), seg \in ids
  PROVE  /\ Owns(fs, ScanSegment(mp, seg, fs[seg].recs, s))
         /\ Lives(ScanSegment(mp, seg, fs[seg].recs, s), ids)
<1> DEFINE recs == fs[seg].recs
           good == Decodable(recs)
           N == Len(good)
<1>1. PICK f \in [0 .. N -> Scans] :
        ScansFrom(f, mp, seg, good, s) /\ ScanSegment(mp, seg, recs, s) = f[N].maps
  <2>1. recs \in Seq(LogRecords \cup {Torn})
    OBVIOUS
  <2> HIDE DEF recs
  <2> QED
    BY <2>1, ScanEquation
<1>2. /\ good \in Seq(LogRecords) /\ N \in Nat
      /\ \A i \in 1 .. N : good[i] = recs[i] /\ good[i] \in LogRecords /\ i \in DOMAIN recs
  <2>1. PICK q \in Seq(LogRecords \cup {Torn}) : q = recs
    OBVIOUS
  <2>2. /\ Decodable(q) \in Seq(LogRecords) /\ Len(Decodable(q)) = Decoded(q)
        /\ \A i \in 1 .. Decoded(q) : Decodable(q)[i] = q[i]
        /\ Decoded(q) \in 0 .. Len(q)
    BY DecodableTyped, DecodedFacts
  <2>3. Len(q) \in Nat /\ DOMAIN q = 1 .. Len(q)
    BY LenProperties
  <2>4. \A i \in 1 .. Len(Decodable(q)) : Decodable(q)[i] \in LogRecords
    BY <2>2, ElementOfSeq
  <2> QED
    BY <2>1, <2>2, <2>3, <2>4
<1> HIDE DEF recs, good, N
<1>3. ScanOwns(fs, f[0], recs, 0, s, seg, ids)
  <2>1. f[0].maps = mp
    BY <1>1 DEF ScansFrom
  <2>2. Held(f[0].pending, recs, 0, s, seg)
    BY DEF Held
  <2> QED
    BY <2>1, <2>2 DEF ScanOwns
<1> DEFINE T == {i \in 0 .. N : ScanOwns(fs, f[i], recs, i, s, seg, ids)}
<1>4. ASSUME NEW i \in 1 .. N, i - 1 \in T PROVE i \in T
  <2>1. i - 1 \in 0 .. N /\ i \in 0 .. N /\ f[i - 1] \in Scans /\ i \in Nat \ {0}
    BY <1>2
  <2>2. ScanOwns(fs, f[i - 1], recs, i - 1, s, seg, ids)
    BY <1>4
  <2>3. CASE good[i].seq > s
    <3>1. f[i] = Apply(f[i - 1].maps, f[i - 1].pending, good[i], [seg |-> seg, off |-> i])
      BY <1>1, <2>3 DEF ScansFrom, N
    <3>2. PICK st \in Scans, r \in LogRecords : st = f[i - 1] /\ r = good[i]
      BY <1>2, <2>1
    <3>3. recs[i] = r /\ (r.kind = "Doc" => GroupAt(recs, i) /\ Clear(r, s))
      BY <1>2, <3>2 DEF recs, Grouped
    <3>4. ASSUME NEW p \in 1 .. i
          PROVE  recs[p].seq \in Nat /\ fs[seg].recs[p] = recs[p]
      <4>1. p \in 1 .. N
        BY <1>2
      <4>2. recs[p] \in LogRecords
        BY <1>2, <4>1
      <4> QED
        BY <4>2, RecordKinds DEF recs
    <3>5. ScanOwns(fs, st, recs, i - 1, s, seg, ids) /\ r.seq > s
      BY <2>2, <2>3, <3>2
    <3>6. ScanOwns(fs, Apply(st.maps, st.pending, r, [seg |-> seg, off |-> i]),
                   recs, i, s, seg, ids)
      BY <2>1, <3>3, <3>4, <3>5, ApplyOwns
    <3> QED
      BY <2>1, <3>1, <3>2, <3>6
  <2>4. CASE ~ (good[i].seq > s)
    <3>1. f[i] = f[i - 1]
      BY <1>1, <2>4 DEF ScansFrom, N
    <3>2. ~ (recs[i].seq > s)
      BY <1>2, <2>4
    <3>3. Held(f[i - 1].pending, recs, i, s, seg)
      BY <2>1, <2>2, <3>2, HeldStep DEF ScanOwns
    <3> QED
      BY <2>1, <2>2, <3>1, <3>3 DEF ScanOwns
  <2> QED
    BY <2>3, <2>4
<1>5. N \in T
  <2>1. 0 \in T
    BY <1>2, <1>3
  <2> HIDE DEF T
  <2> QED
    BY <1>2, <1>4, <2>1, StepInduction
<1> QED
  BY <1>1, <1>5 DEF ScanOwns, recs

(* Replaying the log gives every document its parts. *)
LEMMA ReplayOwns ==
  ASSUME DiskTypes, SegmentsSafe, man.active \in DOMAIN files, NEW base, base.maps \in AllMaps,
         base.seq \in Nat, LogGrouped(base.seq), Owns(files, base.maps),
         Lives(base.maps, SealedIds(man) \cup {man.active})
  PROVE  /\ Owns(files, ReplayFrom(base))
         /\ Lives(ReplayFrom(base), SealedIds(man) \cup {man.active})
<1> DEFINE N == Len(man.sealed)
           ids == SealedIds(man) \cup {man.active}
<1>1. PICK g \in [0 .. N -> AllMaps] :
        /\ ReplaysSealed(g, base)
        /\ ReplayFrom(base) =
             ScanSegment(g[N], man.active, files[man.active].recs, base.seq)
  BY ReplayEquation
<1>2. /\ \A i \in 1 .. N : /\ man.sealed[i].id \in SealedIds(man) /\ man.sealed[i].id \in Nat
                           /\ files[man.sealed[i].id].recs \in Seq(LogRecords \cup {Torn})
      /\ N \in Nat /\ man.active \in Nat
  BY NamedFiles
<1>3. files[man.active].recs \in Seq(LogRecords \cup {Torn})
  BY DEF DiskTypes, FilesTyped, Segments
<1>4. SealedIds(man) \subseteq DOMAIN files
  BY DEF SegmentsSafe, Durable
<1> HIDE DEF N, ids
<1>5. ASSUME NEW seg \in ids, seg \in Nat, files[seg].recs \in Seq(LogRecords \cup {Torn}),
             NEW mp \in AllMaps, Owns(files, mp), Lives(mp, ids)
      PROVE  /\ Owns(files, ScanSegment(mp, seg, files[seg].recs, base.seq))
             /\ Lives(ScanSegment(mp, seg, files[seg].recs, base.seq), ids)
  <2>0. PICK fs : fs = files
    OBVIOUS
  <2>1. PICK s \in Nat : fs = files /\ s = base.seq
    BY <2>0
  <2>2. seg \in DOMAIN fs
    BY <1>4, <2>1 DEF ids
  <2>3. Grouped(fs[seg].recs, s)
    BY <2>1, <2>2 DEF LogGrouped
  <2>4. fs[seg].recs \in Seq(LogRecords \cup {Torn}) /\ Owns(fs, mp)
    BY <1>5, <2>1
  <2>5. /\ Owns(fs, ScanSegment(mp, seg, fs[seg].recs, s))
        /\ Lives(ScanSegment(mp, seg, fs[seg].recs, s), ids)
    BY <1>5, <2>3, <2>4, ScanOwning
  <2> QED
    BY <2>1, <2>5
<1> DEFINE T == {i \in 0 .. N : Owns(files, g[i]) /\ Lives(g[i], ids)}
<1>6. ASSUME NEW i \in 1 .. N, i - 1 \in T PROVE i \in T
  <2>1. i - 1 \in 0 .. N /\ i \in 0 .. N /\ g[i - 1] \in AllMaps
    BY <1>2
  <2>2. Owns(files, g[i - 1]) /\ Lives(g[i - 1], ids)
    BY <1>6
  <2>3. CASE man.sealed[i].last <= base.seq
    BY <1>1, <2>1, <2>2, <2>3 DEF ReplaysSealed, N
  <2>4. CASE ~ (man.sealed[i].last <= base.seq)
    <3>1. g[i] = ScanSegment(g[i - 1], man.sealed[i].id, files[man.sealed[i].id].recs, base.seq)
      BY <1>1, <2>4 DEF ReplaysSealed, N
    <3>2. man.sealed[i].id \in ids
      BY <1>2 DEF ids
    <3> QED
      BY <1>2, <1>5, <2>1, <2>2, <3>1, <3>2
  <2> QED
    BY <2>3, <2>4
<1>7. N \in T
  <2>1. 0 \in T
    BY <1>1, <1>2 DEF ReplaysSealed, ids
  <2> HIDE DEF T
  <2> QED
    BY <1>2, <1>6, <2>1, StepInduction
<1>8. g[N] \in AllMaps /\ Owns(files, g[N]) /\ Lives(g[N], ids) /\ man.active \in ids
  BY <1>2, <1>7 DEF ids
<1> QED
  BY <1>1, <1>2, <1>3, <1>5, <1>8 DEF ids

-----------------------------------------------------------------------------
(* Steps of an open store *)

LEMMA SnapSeqTyped ==
  ASSUME LogInv
  PROVE  SnapSeq \in Nat /\ (snap.exists => SnapSeq = snap.seq)
  BY DEF LogInv, DiskTypes, SnapSeq

(* Files that stay, or are empty. *)
LEMMA LogKept ==
  ASSUME NEW s, LogGrouped(s),
         \A id \in DOMAIN files' : \/ id \in DOMAIN files /\ files'[id].recs = files[id].recs
                                   \/ files'[id].recs = <<>>
  PROVE  LogGrouped(s)'
<1>1. \A id \in DOMAIN files : Grouped(files[id].recs, s)
  BY DEF LogGrouped
<1>2. Grouped(<<>>, s)
  BY DEF Grouped
<1>3. ASSUME NEW id \in DOMAIN files' PROVE Grouped(files'[id].recs, s)
  BY <1>1, <1>2
<1> QED
  BY <1>3 DEF LogGrouped

(* A number that falls before the buffered records, or is none. *)
LEMMA BufferClear ==
  ASSUME LogInv, OwnInv, NEW s \in {0, SnapSeq}
  PROVE  /\ s \in Nat /\ Grouped(buf, s) /\ LogGrouped(s)
         /\ Up => s < FirstFree \/ s = 0
  BY SnapSeqTyped DEF OwnInv, Groups

(* The snapshot's documents keep their parts where what is synced is kept. *)
LEMMA SnapOwned ==
  ASSUME SeqInv, OwnInv, snap.exists, Keeps(files, files', man.nextSegmentId)
  PROVE  Owns(files', snap.maps)
<1>1. PICK fs, gs, mp, n, s : /\ fs = files /\ gs = files' /\ mp = snap.maps
                              /\ n = man.nextSegmentId /\ s = snap.seq
  OBVIOUS
<1>2. /\ Owns(fs, mp) /\ Resolve(fs, mp, n) /\ OnDevice(fs, mp, s) /\ Keeps(fs, gs, n)
  BY <1>1 DEF OwnInv, SeqInv, References
<1>3. Owns(gs, mp)
  BY <1>2, OwnsSame, SameKeeps
<1> QED
  BY <1>1, <1>3

(* The maps' documents keep their parts where the files grow. *)
LEMMA MapsOwned ==
  ASSUME SeqInv, OwnInv, Up, Grows(files, files', man.nextSegmentId)
  PROVE  Owns(files', maps)
<1>1. PICK fs, gs, mp, n : fs = files /\ gs = files' /\ mp = maps /\ n = man.nextSegmentId
  OBVIOUS
<1>2. Owns(fs, mp) /\ Resolve(fs, mp, n) /\ Grows(fs, gs, n)
  BY <1>1 DEF OwnInv, SeqInv, References
<1>3. Owns(gs, mp)
  BY <1>2, OwnsSame, SameGrows
<1> QED
  BY <1>1, <1>3

(* A step of an open store that leaves the snapshot alone. *)
LEMMA OpenOwn ==
  ASSUME LogInv, SeqInv, OwnInv, Up, snap' = snap,
         op'.step \in Steps \ {"compactUnsnap", "compactPublish", "down", "reject", "replay"},
         Owns(files', maps'), Lives(maps', SealedIds(m') \cup {active'}),
         Keeps(files, files', man.nextSegmentId), FirstFree <= FirstFree',
         FirstFree \in Int, FirstFree' \in Int,
         \A s \in {0, SnapSeq} : Grouped(buf', s) /\ LogGrouped(s)'
  PROVE  OwnInv'
<1>1. SnapSeq' = SnapSeq
  BY DEF SnapSeq
<1>2. SnapSeq \in Int /\ SnapSeq < FirstFree
  BY SnapSeqTyped DEF OwnInv, Groups
<1>3. \A s \in {0, SnapSeq'} : Grouped(buf', s) /\ LogGrouped(s)'
  BY <1>1
<1>4. Groups'
  BY <1>1, <1>2, <1>3 DEF Groups
<1>5. Living' /\ Judged'
  BY DEF Living, Judged, Steps
<1>6. snap'.exists => Owns(files', snap'.maps)
  BY SnapOwned
<1> QED
  BY <1>4, <1>5, <1>6 DEF OwnInv

(* A step that also leaves the maps alone. *)
LEMMA QuietOwn ==
  ASSUME LogInv, SeqInv, OwnInv, Up, op.step # "compactPublish", snap' = snap, maps' = maps,
         op'.step \in Steps \ {"compactUnsnap", "compactPublish", "down", "reject", "replay"},
         SealedIds(m) \cup {active} \subseteq SealedIds(m') \cup {active'},
         Grows(files, files', man.nextSegmentId), Keeps(files, files', man.nextSegmentId),
         FirstFree <= FirstFree', FirstFree \in Int, FirstFree' \in Int,
         \A s \in {0, SnapSeq} : Grouped(buf', s),
         \A id \in DOMAIN files' : \/ id \in DOMAIN files /\ files'[id].recs = files[id].recs
                                   \/ files'[id].recs = <<>>
  PROVE  OwnInv'
<1>1. Owns(files', maps')
  BY MapsOwned
<1>2. Lives(maps', SealedIds(m') \cup {active'})
  <2>1. Lives(maps, SealedIds(m) \cup {active})
    BY DEF OwnInv, Living
  <2> QED
    BY <2>1 DEF Lives
<1>3. ASSUME NEW s \in {0, SnapSeq} PROVE LogGrouped(s)'
  <2>1. LogGrouped(s)
    BY BufferClear
  <2> QED
    BY <2>1, LogKept
<1> QED
  BY <1>1, <1>2, <1>3, OpenOwn

(* An empty buffer. *)
LEMMA EmptyGrouped ==
  ASSUME NEW s PROVE Grouped(<<>>, s)
  BY DEF Grouped

(* No file changes. *)
LEMMA StillOwn ==
  ASSUME LogInv, SeqInv, OwnInv, Up, op.step # "compactPublish", snap' = snap, maps' = maps,
         files' = files,
         op'.step \in Steps \ {"compactUnsnap", "compactPublish", "down", "reject", "replay"},
         SealedIds(m') = SealedIds(m), active' = active,
         FirstFree <= FirstFree', FirstFree \in Int, FirstFree' \in Int,
         \A s \in {0, SnapSeq} : Grouped(buf', s)
  PROVE  OwnInv'
  BY FilesGrow, QuietOwn

LEMMA AppendDocumentOwn ==
  ASSUME SegmentsSafe, LogInv, SeqInv, OwnInv, NEW d \in Docs, NEW c \in Contents,
         AppendDocument(d, c)
  PROVE  OwnInv'
<1>0. PICK recs : recs = DocumentRecords(d, c, m.nextSeq)
  OBVIOUS
<1>1. /\ op.step = "idle" /\ files' = files /\ snap' = snap /\ active' = active
      /\ maps' = maps /\ buf' = recs
      /\ m' = [m EXCEPT !.nextSeq = @ + Len(recs)]
      /\ op' = [step |-> "insert", doc |-> d, content |-> c, rewindSeq |-> m.nextSeq]
  BY <1>0 DEF AppendDocument, disk
<1>2. PICK q \in Nat \ {0} : q = m.nextSeq
  BY DEF LogInv, MemoryTypes, Counters
<1>3. PICK k \in 0 .. 1 : Spells(recs, k, d, c, q)
  <2>1. (IF d \in DOMAIN maps.docs THEN 1 ELSE 0) \in 0 .. 1
    OBVIOUS
  <2> QED
    BY <1>0, <1>2, <2>1, DocumentSpelled
<1>4. PICK n \in Nat : n = Len(recs)
  BY <1>0, <1>2, DocumentRecordsTyped
<1>5. FirstFree = q /\ Up /\ buf = <<>>
  BY <1>1, <1>2 DEF FirstFree, LogInv, OpTypes, Up
<1>6. SameSegments /\ m'.nextSeq = m.nextSeq + n
  <2>1. m = [f \in ManifestFields |-> m[f]] /\ m' = [m EXCEPT !.nextSeq = @ + n]
    BY <1>1, <1>4 DEF SegmentsSafe, WellFormed
  <2> QED
    BY <2>1, Zenon DEF SameSegments, ManifestFields
<1>7. FirstFree' = q /\ SealedIds(m') = SealedIds(m)
  BY <1>1, <1>2, <1>4, <1>6 DEF FirstFree, SameSegments, SealedIds
<1>8. ASSUME NEW s \in {0, SnapSeq} PROVE Grouped(buf', s)
  <2>1. s \in Nat /\ s < q
    BY <1>2, <1>5, BufferClear
  <2>2. DOMAIN recs = 1 .. Len(recs)
    BY <1>0, <1>2, DocumentRecordsTyped, LenProperties
  <2> QED
    BY <1>1, <1>3, <2>1, <2>2, SpelledGrouped
<1>9. op'.step = "insert"
  BY <1>1
<1>10. /\ op'.step \in Steps \ {"compactUnsnap", "compactPublish", "down", "reject", "replay"}
       /\ op.step # "compactPublish"
       /\ FirstFree <= FirstFree' /\ FirstFree \in Int /\ FirstFree' \in Int
  BY <1>1, <1>5, <1>7, <1>9 DEF Steps
<1> QED
  BY <1>1, <1>5, <1>7, <1>8, <1>10, StillOwn

LEMMA InsertRewindOwn ==
  ASSUME SegmentsSafe, LogInv, SeqInv, OwnInv, InsertRewind
  PROVE  OwnInv'
<1>1. /\ op.step = "insert" /\ files' = files /\ snap' = snap
      /\ active' = active /\ maps' = maps
      /\ buf' = <<>> /\ op' = At("idle") /\ m' = [m EXCEPT !.nextSeq = op.rewindSeq]
  BY DEF InsertRewind, disk
<1>2. Up /\ op'.step = "idle"
  BY <1>1 DEF Up, At
<1>3. op.rewindSeq = FirstFree /\ FirstFree \in Int
  BY <1>1, SlotsTyped DEF SeqInv, Written
<1>4. SameSegments /\ m'.nextSeq = op.rewindSeq
  <2>1. m = [f \in ManifestFields |-> m[f]]
    BY DEF SegmentsSafe, WellFormed
  <2> QED
    BY <1>1, <2>1, Zenon DEF SameSegments, ManifestFields
<1>5. Len(buf') = 0
  BY <1>1
<1>6. FirstFree' = FirstFree /\ SealedIds(m') = SealedIds(m)
  BY <1>3, <1>4, <1>5 DEF FirstFree, SameSegments, SealedIds
<1>7. \A s \in {0, SnapSeq} : Grouped(buf', s)
  BY <1>1, EmptyGrouped
<1>8. /\ op'.step \in Steps \ {"compactUnsnap", "compactPublish", "down", "reject", "replay"}
      /\ op.step # "compactPublish" /\ FirstFree <= FirstFree' /\ FirstFree' \in Int
  BY <1>1, <1>2, <1>3, <1>6 DEF Steps
<1> QED
  BY <1>1, <1>2, <1>3, <1>6, <1>7, <1>8, StillOwn

LEMMA AppendDeleteOwn ==
  ASSUME SegmentsSafe, LogInv, SeqInv, OwnInv, NEW d \in Docs, AppendDelete(d)
  PROVE  OwnInv'
<1>1. /\ op.step = "idle" /\ files' = files /\ snap' = snap /\ active' = active
      /\ maps' = maps /\ buf' = <<DeleteRecord(m.nextSeq, d)>>
      /\ m' = [m EXCEPT !.nextSeq = @ + 1] /\ op' = [step |-> "delete", doc |-> d]
  BY DEF AppendDelete, disk
<1>2. PICK q \in Nat : q = m.nextSeq
  BY SlotsTyped
<1>3. FirstFree = q /\ Up /\ buf = <<>>
  BY <1>1, <1>2 DEF FirstFree, LogInv, OpTypes, Up
<1>4. SameSegments /\ m'.nextSeq = m.nextSeq + 1
  <2>1. m = [f \in ManifestFields |-> m[f]]
    BY DEF SegmentsSafe, WellFormed
  <2> QED
    BY <1>1, <2>1, Zenon DEF SameSegments, ManifestFields
<1>5. Len(buf') = 1 /\ buf'[1].kind = "DeleteDoc" /\ DOMAIN buf' = {1}
  BY <1>1 DEF DeleteRecord
<1>6. FirstFree' = q /\ SealedIds(m') = SealedIds(m)
  BY <1>2, <1>4, <1>5 DEF FirstFree, SameSegments, SealedIds
<1>7. \A s \in {0, SnapSeq} : Grouped(buf', s)
  BY <1>5 DEF Grouped
<1>8. op'.step = "delete"
  BY <1>1
<1>9. /\ op'.step \in Steps \ {"compactUnsnap", "compactPublish", "down", "reject", "replay"}
      /\ op.step # "compactPublish"
      /\ FirstFree <= FirstFree' /\ FirstFree \in Int /\ FirstFree' \in Int
  BY <1>1, <1>3, <1>6, <1>8 DEF Steps
<1> QED
  BY <1>1, <1>3, <1>6, <1>7, <1>9, StillOwn

LEMMA CompactFailsOwn ==
  ASSUME SegmentsSafe, LogInv, SeqInv, OwnInv, CompactFails
  PROVE  OwnInv'
<1>1. /\ op.step = "idle" /\ files' = files /\ snap' = snap /\ active' = active
      /\ maps' = maps /\ buf' = buf /\ op' = op
      /\ m' = [m EXCEPT !.nextSegmentId = @ + 1]
  BY DEF CompactFails, disk
<1>2. m'.sealed = m.sealed /\ m'.nextSeq = m.nextSeq
  <2>1. m = [f \in ManifestFields |-> m[f]]
    BY DEF SegmentsSafe, WellFormed
  <2> QED
    BY <1>1, <2>1, Zenon DEF ManifestFields
<1>3. Up
  BY <1>1 DEF Up
<1>4. SealedIds(m') = SealedIds(m) /\ FirstFree' = FirstFree /\ FirstFree \in Int
  BY <1>1, <1>2, SlotsTyped DEF SealedIds, FirstFree
<1>5. \A s \in {0, SnapSeq} : Grouped(buf', s)
  BY <1>1, BufferClear
<1>6. /\ op'.step \in Steps \ {"compactUnsnap", "compactPublish", "down", "reject", "replay"}
      /\ op.step # "compactPublish" /\ FirstFree <= FirstFree' /\ FirstFree' \in Int
  BY <1>1, <1>4 DEF Steps
<1> QED
  BY <1>1, <1>3, <1>4, <1>5, <1>6, StillOwn

LEMMA FsyncOwn ==
  ASSUME SegmentsSafe, LogInv, SeqInv, OwnInv, Fsync
  PROVE  OwnInv'
<1>1. /\ op.step = "idle" /\ snap' = snap /\ active' = active /\ m' = m
      /\ maps' = maps /\ buf' = buf /\ op' = op
      /\ files' = [files EXCEPT ![active] = Synced(@)]
  BY DEF Fsync, memory
<1>2. Up
  BY <1>1 DEF Up
<1>3. /\ Grows(files, files', man.nextSegmentId) /\ Keeps(files, files', man.nextSegmentId)
      /\ OnlySegment(active) /\ \A id \in DOMAIN files : files'[id].recs = files[id].recs
  BY <1>1, <1>2, SyncGrows
<1>4. DOMAIN files' = DOMAIN files
  BY <1>1
<1>5. FirstFree' = FirstFree /\ FirstFree \in Int /\ SealedIds(m') = SealedIds(m)
  BY <1>1, SlotsTyped DEF FirstFree
<1>6. \A s \in {0, SnapSeq} : Grouped(buf', s)
  BY <1>1, BufferClear
<1>7. /\ op'.step \in Steps \ {"compactUnsnap", "compactPublish", "down", "reject", "replay"}
      /\ op.step # "compactPublish" /\ FirstFree <= FirstFree' /\ FirstFree' \in Int
  BY <1>1, <1>5 DEF Steps
<1> QED
  BY <1>1, <1>2, <1>3, <1>4, <1>5, <1>6, <1>7, QuietOwn

LEMMA SealActiveOwn ==
  ASSUME SegmentsSafe, LogInv, SeqInv, OwnInv, SealActive
  PROVE  OwnInv'
<1>1. /\ op.step \in {"idle", "seal"} /\ op' = At("sealPublish")
      /\ snap' = snap /\ buf' = buf /\ maps' = maps
  BY DEF SealActive
<1>2. Up /\ op'.step = "sealPublish"
  BY <1>1 DEF Up, At
<1>3. /\ Grows(files, files', man.nextSegmentId) /\ Keeps(files, files', man.nextSegmentId)
      /\ \A id \in DOMAIN files' : \/ id \in DOMAIN files /\ files'[id].recs = files[id].recs
                                   \/ files'[id].recs = <<>>
      /\ m'.nextSeq = m.nextSeq /\ SealedIds(m') = SealedIds(m) \cup {active}
  BY SealSwaps
<1>4. FirstFree' = FirstFree /\ FirstFree \in Int
  BY <1>1, <1>3, SlotsTyped DEF FirstFree
<1>5. \A s \in {0, SnapSeq} : Grouped(buf', s)
  BY <1>1, BufferClear
<1>6. /\ op'.step \in Steps \ {"compactUnsnap", "compactPublish", "down", "reject", "replay"}
      /\ op.step # "compactPublish" /\ FirstFree <= FirstFree' /\ FirstFree' \in Int
  BY <1>1, <1>2, <1>4 DEF Steps
<1>7. SealedIds(m) \cup {active} \subseteq SealedIds(m') \cup {active'}
  BY <1>3
<1> QED
  BY <1>1, <1>2, <1>3, <1>4, <1>5, <1>6, <1>7, QuietOwn

LEMMA SealPublishOwn ==
  ASSUME SegmentsSafe, LogInv, SeqInv, OwnInv, SealPublish
  PROVE  OwnInv'
<1>1. /\ op.step = "sealPublish" /\ op' = At("idle") /\ files' = files /\ snap' = snap
      /\ m' = m /\ active' = active /\ buf' = buf /\ maps' = maps
  BY DEF SealPublish, memory
<1>2. Up /\ op'.step = "idle"
  BY <1>1 DEF Up, At
<1>3. SealedIds(m') = SealedIds(m) /\ FirstFree' = FirstFree /\ FirstFree \in Int
  BY <1>1, SlotsTyped DEF FirstFree
<1>4. \A s \in {0, SnapSeq} : Grouped(buf', s)
  BY <1>1, BufferClear
<1>5. /\ op'.step \in Steps \ {"compactUnsnap", "compactPublish", "down", "reject", "replay"}
      /\ op.step # "compactPublish" /\ FirstFree <= FirstFree' /\ FirstFree' \in Int
  BY <1>1, <1>2, <1>3 DEF Steps
<1> QED
  BY <1>1, <1>2, <1>3, <1>4, <1>5, StillOwn

LEMMA SnapshotPublishOwn ==
  ASSUME SegmentsSafe, LogInv, SeqInv, OwnInv, SnapshotPublish
  PROVE  OwnInv'
<1>1. /\ op.step = "snapshotPublish" /\ m' = [m EXCEPT !.snapshotSeq = SnapshotSeq]
      /\ op' = At("idle") /\ files' = files /\ snap' = snap /\ active' = active
      /\ buf' = buf /\ maps' = maps
  BY DEF SnapshotPublish
<1>2. Up /\ op'.step = "idle"
  BY <1>1 DEF Up, At
<1>3. SameSegments /\ m'.nextSeq = m.nextSeq
  <2>1. m = [f \in ManifestFields |-> m[f]]
    BY DEF SegmentsSafe, WellFormed
  <2> QED
    BY <1>1, <2>1, Zenon DEF SameSegments, ManifestFields
<1>4. SealedIds(m') = SealedIds(m) /\ FirstFree' = FirstFree /\ FirstFree \in Int
  BY <1>1, <1>3, SlotsTyped DEF FirstFree, SameSegments, SealedIds
<1>5. \A s \in {0, SnapSeq} : Grouped(buf', s)
  BY <1>1, BufferClear
<1>6. /\ op'.step \in Steps \ {"compactUnsnap", "compactPublish", "down", "reject", "replay"}
      /\ op.step # "compactPublish" /\ FirstFree <= FirstFree' /\ FirstFree' \in Int
  BY <1>1, <1>2, <1>4 DEF Steps
<1> QED
  BY <1>1, <1>2, <1>4, <1>5, <1>6, StillOwn

LEMMA CompactRemoveOwn ==
  ASSUME SegmentsSafe, LogInv, SeqInv, OwnInv, CompactRemove
  PROVE  OwnInv'
<1>1. /\ op.step = "compactRemove" /\ op' = At("snapshot") /\ snap' = snap /\ m' = m
      /\ active' = active /\ buf' = buf /\ maps' = maps
      /\ files' = [id \in DOMAIN files \cap (SealedIds(m) \cup {active}) |-> files[id]]
  BY DEF CompactRemove, memory
<1>2. Up /\ op'.step = "snapshot"
  BY <1>1 DEF Up, At
<1>3. DOMAIN files' \subseteq DOMAIN files /\ \A id \in DOMAIN files' : files'[id] = files[id]
  BY <1>1
<1>4. Grows(files, files', man.nextSegmentId) /\ Keeps(files, files', man.nextSegmentId)
  BY <1>3 DEF Grows, Keeps
<1>5. SealedIds(m') = SealedIds(m) /\ FirstFree' = FirstFree /\ FirstFree \in Int
  BY <1>1, SlotsTyped DEF FirstFree
<1>6. \A s \in {0, SnapSeq} : Grouped(buf', s)
  BY <1>1, BufferClear
<1>7. /\ op'.step \in Steps \ {"compactUnsnap", "compactPublish", "down", "reject", "replay"}
      /\ op.step # "compactPublish" /\ FirstFree <= FirstFree' /\ FirstFree' \in Int
  BY <1>1, <1>2, <1>5 DEF Steps
<1> QED
  BY <1>1, <1>2, <1>3, <1>4, <1>5, <1>6, <1>7, QuietOwn

(* A snapshot is taken between two writes: no group is cut by it. *)
LEMMA SnapshotWriteOwn ==
  ASSUME SegmentsSafe, LogInv, SeqInv, OwnInv, SnapshotWrite
  PROVE  OwnInv'
<1>1. /\ op.step \in {"idle", "snapshot"} /\ active' = active /\ m' = m
      /\ maps' = maps /\ buf' = buf /\ op' = At("snapshotPublish")
      /\ snap' = [exists |-> TRUE, seq |-> SnapshotSeq, maps |-> maps]
      /\ files' = [files EXCEPT ![active] = Synced(@)]
  BY DEF SnapshotWrite, memory
<1>2. Up /\ op'.step = "snapshotPublish" /\ buf = <<>>
  BY <1>1 DEF Up, At, LogInv, OpTypes
<1>3. /\ Grows(files, files', man.nextSegmentId)
      /\ \A id \in DOMAIN files : files'[id].recs = files[id].recs
  BY <1>1, <1>2, SyncGrows
<1>4. DOMAIN files' = DOMAIN files /\ DOMAIN files \subseteq SealedIds(m) \cup {active}
  BY <1>1 DEF SeqInv, Placed
<1>5. PICK n \in Nat : n = m.nextSeq
  BY SlotsTyped
<1>6. FirstFree = n /\ FirstFree' = n /\ SnapshotSeq = n - 1
  BY <1>1, <1>2, <1>5 DEF FirstFree, SnapshotSeq
<1>7. snap'.exists = TRUE /\ snap'.seq = n - 1 /\ snap'.maps = maps
  BY <1>1, <1>6
<1>8. SnapSeq' = n - 1
  BY <1>7 DEF SnapSeq
<1>9. LogGrouped(0)
  BY BufferClear
<1>10. LogGrouped(n - 1)
  <2>1. ASSUME NEW id \in DOMAIN files, NEW j \in DOMAIN files[id].recs,
               files[id].recs[j].kind = "Doc"
        PROVE  GroupAt(files[id].recs, j) /\ Clear(files[id].recs[j], n - 1)
    <3>1. j \in Slots(files, id)
      BY <2>1 DEF Slots, IsTorn
    <3>2. SeqAt(files, id, j) < n /\ SeqAt(files, id, j) \in Nat
      BY <1>2, <1>4, <1>6, <3>1, BelowFree, SlotsTyped
    <3>3. PICK r : r = files[id].recs[j]
      OBVIOUS
    <3>4. r.seq < n /\ r.seq \in Nat
      BY <3>2, <3>3 DEF SeqAt
    <3>5. Clear(r, n - 1)
      BY <1>5, <3>4 DEF Clear
    <3> QED
      BY <1>9, <2>1, <3>3, <3>5 DEF LogGrouped, Grouped
  <2> QED
    BY <2>1 DEF LogGrouped, Grouped
<1>11. ASSUME NEW s \in {0, n - 1} PROVE Grouped(buf', s) /\ LogGrouped(s)'
  <2>1. LogGrouped(s)
    BY <1>9, <1>10
  <2>2. LogGrouped(s)'
    BY <1>3, <1>4, <2>1, LogKept
  <2> QED
    BY <1>1, <1>2, <2>2, EmptyGrouped
<1>12. Groups'
  <2>1. n - 1 < n
    BY <1>5
  <2> QED
    BY <1>6, <1>8, <1>11, <2>1 DEF Groups
<1>13. Lives(maps, SealedIds(m) \cup {active})
  BY <1>1, <1>2 DEF OwnInv, Living
<1>14. Living' /\ Judged'
  BY <1>1, <1>2, <1>13 DEF Living, Judged
<1>15. Owns(files', maps)
  BY <1>2, <1>3, MapsOwned
<1> QED
  BY <1>1, <1>7, <1>12, <1>14, <1>15 DEF OwnInv

(* What is left of the buffer behind the active segment leaves a log of groups. *)
LEMMA BehindLog ==
  ASSUME LogInv, OwnInv, NEW tail, Behind(files', files, active, tail), Remains(tail),
         active \in DOMAIN files, FilesTyped', TornTailOnly(files'[active].recs),
         NEW s \in {0, SnapSeq}
  PROVE  LogGrouped(s)'
<1>1. Grouped(buf, s) /\ LogGrouped(s)
  BY BufferClear
<1>2. DOMAIN files' = DOMAIN files /\ \A id \in DOMAIN files : id # active => files'[id] = files[id]
  BY DEF Behind
<1>3. PICK fs, gs, a, src : fs = files /\ gs = files' /\ a = active /\ src = buf
  OBVIOUS
<1>4. gs[a].recs \in Seq(LogRecords \cup {Torn})
  BY <1>2, <1>3 DEF FilesTyped, Segments
<1>5. src \in Seq(LogRecords)
  BY <1>3 DEF LogInv, MemoryTypes
<1>6. Len(src) \in Nat /\ DOMAIN src = 1 .. Len(src)
  BY <1>5, LenProperties
<1>7. /\ Behind(gs, fs, a, tail) /\ TornTailOnly(gs[a].recs)
      /\ Grouped(fs[a].recs, s) /\ Grouped(src, s)
      /\ Len(tail) <= Len(src)
      /\ \A i \in 1 .. Len(tail) : IsTorn(tail[i]) \/ tail[i] = src[i]
  BY <1>1, <1>3 DEF LogGrouped, Remains
<1>8. Grouped(gs[a].recs, s)
  BY <1>4, <1>6, <1>7, GroupedBehind
<1>9. ASSUME NEW id \in DOMAIN files' PROVE Grouped(files'[id].recs, s)
  <2>1. CASE id = active
    BY <1>3, <1>8, <2>1
  <2>2. CASE id # active
    BY <1>1, <1>2, <2>2 DEF LogGrouped
  <2> QED
    BY <2>1, <2>2
<1> QED
  BY <1>9 DEF LogGrouped

(* The flush at the end of a write. *)
LEMMA FlushOwn ==
  ASSUME SegmentsSafe, LogInv, SeqInv, OwnInv, LogInv', op.step \in {"insert", "delete"},
         files' = Flushed, active' = active, buf' = <<>>, m'.nextSeq = m.nextSeq
  PROVE  /\ Grows(files, files', man.nextSegmentId) /\ Keeps(files, files', man.nextSegmentId)
         /\ \A s \in {0, SnapSeq} : Grouped(buf', s) /\ LogGrouped(s)'
         /\ FirstFree <= FirstFree' /\ FirstFree \in Int /\ FirstFree' \in Int
         /\ Behind(files', files, active, buf)
<1>1. Up
  BY DEF Up
<1>2. Behind(files', files, active, buf) /\ active \in DOMAIN files
  BY <1>1, FlushBehind, ActiveFacts
<1>3. PICK fs, gs, n : fs = files /\ gs = files' /\ n = man.nextSegmentId
  OBVIOUS
<1>4. Grows(fs, gs, n) /\ Keeps(fs, gs, n)
  <2>1. PICK a, tail : a = active /\ tail = buf
    OBVIOUS
  <2>2. Behind(gs, fs, a, tail)
    BY <1>2, <1>3, <2>1
  <2> QED
    BY <2>2, BehindGrows
<1>5. FilesTyped' /\ TornTailOnly(files'[active].recs)
  <2>1. active \in DOMAIN files'
    BY <1>2 DEF Behind
  <2> QED
    BY <2>1 DEF LogInv, DiskTypes, TornAtTail
<1>6. Remains(buf)
  BY SlotsTyped DEF Remains
<1>7. \A s \in {0, SnapSeq} : LogGrouped(s)'
  BY <1>2, <1>5, <1>6, BehindLog
<1>8. PICK k, l \in Nat : k = m.nextSeq /\ l = Len(buf)
  BY SlotsTyped
<1>9. FirstFree = k - l /\ FirstFree' = k
  <2>1. Len(buf') = 0
    OBVIOUS
  <2> QED
    BY <1>8, <2>1 DEF FirstFree
<1>10. FirstFree <= FirstFree' /\ FirstFree \in Int /\ FirstFree' \in Int
  BY <1>8, <1>9
<1> QED
  BY <1>2, <1>3, <1>4, <1>7, <1>10, EmptyGrouped

LEMMA DeleteCommitOwn ==
  ASSUME SegmentsSafe, LogInv, SeqInv, OwnInv, LogInv', DeleteCommit
  PROVE  OwnInv'
<1>0. PICK freed : freed = FreedIn(op.doc, FALSE)
  OBVIOUS
<1>1. /\ op.step = "delete" /\ snap' = snap /\ active' = active
      /\ files' = Flushed /\ buf' = <<>> /\ op' = AfterWrite
      /\ maps' = RemoveDoc(maps, op.doc)
      /\ m' = [m EXCEPT !.tombstones = @ + freed]
  BY <1>0 DEF DeleteCommit
<1>2. op'.step \in {"idle", "seal"} /\ Up
  BY <1>1, AfterWriteStep DEF Up
<1>3. SameSegments /\ m'.nextSeq = m.nextSeq
  <2>1. m = [f \in ManifestFields |-> m[f]]
    BY DEF SegmentsSafe, WellFormed
  <2> QED
    BY <1>1, <2>1, Zenon DEF SameSegments, ManifestFields
<1>4. /\ Grows(files, files', man.nextSegmentId) /\ Keeps(files, files', man.nextSegmentId)
      /\ \A s \in {0, SnapSeq} : Grouped(buf', s) /\ LogGrouped(s)'
      /\ FirstFree <= FirstFree' /\ FirstFree \in Int /\ FirstFree' \in Int
  BY <1>1, <1>3, FlushOwn
<1>5. Owns(files', maps) /\ Lives(maps, SealedIds(m) \cup {active})
  BY <1>1, <1>2, <1>4, MapsOwned DEF OwnInv, Living
<1>6. Owns(files', maps') /\ Lives(maps', SealedIds(m') \cup {active'})
  <2>1. PICK gs, ids : gs = files' /\ ids = SealedIds(m) \cup {active}
    OBVIOUS
  <2>2. Owns(gs, RemoveDoc(maps, op.doc)) /\ Lives(RemoveDoc(maps, op.doc), ids)
    BY <1>5, <2>1, OwnsRemoved
  <2>3. SealedIds(m') \cup {active'} = ids
    BY <1>1, <1>3, <2>1 DEF SameSegments, SealedIds
  <2> QED
    BY <1>1, <2>1, <2>2, <2>3
<1>7. op'.step \in Steps \ {"compactUnsnap", "compactPublish", "down", "reject", "replay"}
  BY <1>2 DEF Steps
<1> QED
  BY <1>1, <1>2, <1>4, <1>6, <1>7, OpenOwn

(* The parts of the document an insert just wrote. *)
CloseRow(gs, a, n, b, e) == \A i \in 1 .. n : Close(e.seq, 1 .. n, gs[a].recs[b + i])

LEMMA PartsInRow ==
  ASSUME NEW gs, NEW a, NEW d, NEW n \in Nat, NEW b \in Nat, NEW e, e.splits = 1 .. n,
         e.loc.seg = a, CloseRow(gs, a, n, b, e)
  PROVE  HasParts(gs, [k \in Keys(d, 1 .. n) |-> [seg |-> a, off |-> b + k[2]]], d, e)
<1> DEFINE f == [k \in Keys(d, 1 .. n) |-> [seg |-> a, off |-> b + k[2]]]
<1>2. ASSUME NEW i \in 1 .. n
      PROVE  <<d, i>> \in DOMAIN f /\ f[<<d, i>>].seg = a /\ f[<<d, i>>].off = b + i
  <2>1. PICK k : k = <<d, i>>
    OBVIOUS
  <2>2. k \in Keys(d, 1 .. n) /\ k[2] = i
    BY <2>1 DEF Keys
  <2>3. k \in DOMAIN f /\ f[k] = [seg |-> a, off |-> b + i]
    BY <2>2
  <2> HIDE DEF f
  <2> QED
    BY <2>1, <2>3
<1> HIDE DEF f
<1>3. HasParts(gs, f, d, e)
  BY <1>2 DEF HasParts, CloseRow
<1> QED
  BY <1>3 DEF f

LEMMA InsertCommitOwn ==
  ASSUME SegmentsSafe, LogInv, SeqInv, OwnInv, LogInv', InsertCommit
  PROVE  OwnInv'
<1> DEFINE d == op.doc
           c == op.content
           n == c.splits
           base == ActiveLen - 2 * n - 1
           at(i) == [seg |-> active, off |-> i]
           entry == [splits |-> 1 .. n,
                     list |-> IF c.listed THEN 1 .. n ELSE {},
                     extra |-> IF c.listed THEN {} ELSE 1 .. n,
                     seq |-> buf[Len(buf)].seq, loc |-> at(ActiveLen)]
           summaryLocs == [k \in Keys(d, 1 .. n) |-> at(base + k[2])]
           splitLocs == [k \in Keys(d, 1 .. n) |-> at(base + n + k[2])]
           freed == FreedIn(d, FALSE)
<1>1. /\ op.step = "insert" /\ snap' = snap /\ active' = active
      /\ files' = Flushed /\ buf' = <<>> /\ op' = AfterWrite
      /\ maps' = PutDoc(RemoveDoc(maps, d), d, entry, splitLocs, summaryLocs)
      /\ m' = IF d \in DOMAIN maps.docs THEN [m EXCEPT !.tombstones = @ + freed] ELSE m
  BY DEF InsertCommit
<1>2. op'.step \in {"idle", "seal"} /\ Up
  BY <1>1, AfterWriteStep DEF Up
<1>3. n \in Nat /\ op.rewindSeq \in Nat
  <2>1. c \in Contents /\ op.rewindSeq \in Nat
    BY <1>1 DEF LogInv, OpTypes
  <2> HIDE DEF c
  <2> QED
    BY <2>1, ContentsAssumption
<1>4. PICK j \in 0 .. 1 : Spells(buf, j, d, c, op.rewindSeq)
  BY <1>1 DEF SeqInv, Written
<1> HIDE DEF d, c, freed
<1>5. SameSegments /\ m'.nextSeq = m.nextSeq
  <2>1. CASE d \in DOMAIN maps.docs
    <3>1. m = [f \in ManifestFields |-> m[f]] /\ m' = [m EXCEPT !.tombstones = @ + freed]
      BY <1>1, <2>1 DEF SegmentsSafe, WellFormed
    <3> QED
      BY <3>1, Zenon DEF SameSegments, ManifestFields
  <2>2. CASE d \notin DOMAIN maps.docs
    BY <1>1, <2>2, SameUnchanged
  <2> QED
    BY <2>1, <2>2
<1>6. /\ Grows(files, files', man.nextSegmentId) /\ Keeps(files, files', man.nextSegmentId)
      /\ \A s \in {0, SnapSeq} : Grouped(buf', s) /\ LogGrouped(s)'
      /\ FirstFree <= FirstFree' /\ FirstFree \in Int /\ FirstFree' \in Int
      /\ Behind(files', files, active, buf)
  BY <1>1, <1>5, FlushOwn
<1>7. PICK fs, gs, a, ids : /\ fs = files /\ gs = files' /\ a = active
                            /\ ids = SealedIds(m) \cup {active}
  OBVIOUS
<1>8. Behind(gs, fs, a, buf)
  BY <1>6, <1>7
<1>9. PICK L \in Nat : L = Len(fs[a].recs)
  BY <1>8 DEF Behind
<1>10. PICK N, q \in Nat : N = n /\ q = op.rewindSeq
  BY <1>3
<1>11. Len(buf) = j + 2 * N + 1 /\ ActiveLen = L + (j + 2 * N + 1) /\ base = L + j
  <2>1. Len(buf) = j + 2 * N + 1
    BY <1>4, <1>10 DEF Spells
  <2>2. ActiveLen = L + (j + 2 * N + 1)
    BY <1>7, <1>9, <2>1 DEF ActiveLen
  <2> HIDE DEF n
  <2> QED
    BY <1>10, <2>1, <2>2
<1>12. ASSUME NEW i \in 1 .. j + 2 * N + 1
       PROVE  gs[a].recs[L + i] = buf[i]
  <2>1. \A p \in 1 .. j + 2 * N + 1 : gs[a].recs[L + p] = buf[p]
    BY <1>8, <1>9, <1>11 DEF Behind
  <2> QED
    BY <2>1
<1>13. PICK b, e \in Nat : b = L + j /\ e = L + j + N
  OBVIOUS
<1>14. ASSUME NEW i \in 1 .. N
       PROVE  /\ gs[a].recs[b + i].seq = q + j + i - 1
              /\ gs[a].recs[b + i].kind = "Summary" /\ gs[a].recs[b + i].part = i
              /\ gs[a].recs[e + i].seq = q + j + N + i - 1
              /\ gs[a].recs[e + i].kind = "Split" /\ gs[a].recs[e + i].part = i
  <2>1. /\ j + i \in 1 .. j + 2 * N + 1 /\ j + N + i \in 1 .. j + 2 * N + 1
        /\ b + i = L + (j + i) /\ e + i = L + (j + N + i)
    BY <1>13
  <2>2. gs[a].recs[b + i] = buf[j + i] /\ gs[a].recs[e + i] = buf[j + N + i]
    BY <1>12, <2>1
  <2>3. PICK x, y : x = q + j + i - 1 /\ y = q + j + N + i - 1
    OBVIOUS
  <2>4. buf[j + i] = SummaryRecord(x, d, i) /\ buf[j + N + i] = SplitRecord(y, d, i)
    BY <1>4, <1>10, <2>3 DEF Spells
  <2>5. /\ SummaryRecord(x, d, i).seq = x /\ SplitRecord(y, d, i).seq = y
        /\ SummaryRecord(x, d, i).kind = "Summary" /\ SplitRecord(y, d, i).kind = "Split"
        /\ SummaryRecord(x, d, i).part = i /\ SplitRecord(y, d, i).part = i
    BY DEF SummaryRecord, SplitRecord
  <2> QED
    BY <2>2, <2>3, <2>4, <2>5
<1>15. PICK r, z : r = buf[j + 2 * N + 1] /\ z = q + j + 2 * N
  OBVIOUS
<1>16. r.seq = z /\ r.splits = 1 .. N /\ r.list = IF c.listed THEN 1 .. N ELSE {}
  <2>1. r = DocRecord(z, d, c)
    BY <1>4, <1>10, <1>15 DEF Spells
  <2> QED
    BY <1>10, <2>1 DEF DocRecord
<1>17. PICK en : en = entry
  OBVIOUS
<1>18. /\ en.splits = 1 .. N /\ en.seq = z /\ en.loc.seg = a
       /\ en.loc.off = L + (j + 2 * N + 1) /\ en.splits \subseteq OwnedSummaries(en)
       /\ en.list = IF c.listed THEN 1 .. N ELSE {}
  <2>1. /\ entry.splits = 1 .. N /\ entry.seq = r.seq
        /\ 1 .. N \subseteq entry.list \cup entry.extra
        /\ entry.list = IF c.listed THEN 1 .. N ELSE {}
    BY <1>10, <1>11, <1>15
  <2>2. PICK off : off = L + (j + 2 * N + 1)
    OBVIOUS
  <2>3. entry.loc = [seg |-> a, off |-> off]
    BY <1>7, <1>11, <2>2
  <2> HIDE DEF entry
  <2> QED
    BY <1>16, <1>17, <2>1, <2>2, <2>3 DEF OwnedSummaries
<1>19. Names(gs[en.loc.seg].recs[en.loc.off], en)
  <2>1. j + 2 * N + 1 \in 1 .. j + 2 * N + 1
    OBVIOUS
  <2>2. gs[a].recs[L + (j + 2 * N + 1)] = r
    BY <1>12, <1>15, <2>1
  <2> QED
    BY <1>16, <1>18, <2>2 DEF Names
<1>20. PICK sl, ml : sl = splitLocs /\ ml = summaryLocs
  OBVIOUS
<1>21. /\ ml = [k \in Keys(d, 1 .. N) |-> [seg |-> a, off |-> b + k[2]]]
       /\ sl = [k \in Keys(d, 1 .. N) |-> [seg |-> a, off |-> e + k[2]]]
  <2>1. base + n = e /\ base = b
    <3> HIDE DEF base, n
    <3> QED
      BY <1>10, <1>11, <1>13
  <2> HIDE DEF base
  <2> QED
    BY <1>7, <1>10, <1>20, <2>1
<1> HIDE DEF entry, summaryLocs, splitLocs, base, n
<1>22. HasParts(gs, ml, d, en)
  <2>1. ASSUME NEW i \in 1 .. N PROVE Close(en.seq, 1 .. N, gs[a].recs[b + i])
    <3>1. 2 * N - i + 1 \in 1 .. 2 * N
          /\ (q + j + 2 * N) - (q + j + i - 1) = 2 * N - i + 1
      OBVIOUS
    <3>2. PICK x, y : x = gs[a].recs[b + i].seq /\ y = en.seq
      OBVIOUS
    <3>3. x = q + j + i - 1 /\ y = q + j + 2 * N
      BY <1>14, <1>15, <1>18, <3>2
    <3>4. y - x \in 1 .. 2 * N /\ y - x = 2 * N - i + 1
      BY <3>1, <3>3
    <3>5. gs[a].recs[b + i].kind = "Summary" /\ gs[a].recs[b + i].part = i
      BY <1>14
    <3>6. Cardinality(1 .. N) = N
      BY FS_Interval
    <3>7. Back(1 .. N, "Summary", i) = 2 * N - i + 1
      BY <3>6 DEF Back
    <3> QED
      BY <3>2, <3>4, <3>5, <3>6, <3>7, Zenon DEF Close
  <2>2. CloseRow(gs, a, N, b, en)
    BY <2>1 DEF CloseRow
  <2>3. HasParts(gs, [k \in Keys(d, 1 .. N) |-> [seg |-> a, off |-> b + k[2]]], d, en)
    BY <1>18, <2>2, PartsInRow
  <2> QED
    BY <1>21, <2>3
<1>23. HasParts(gs, sl, d, en)
  <2>1. ASSUME NEW i \in 1 .. N PROVE Close(en.seq, 1 .. N, gs[a].recs[e + i])
    <3>1. N - i + 1 \in 1 .. 2 * N
          /\ (q + j + 2 * N) - (q + j + N + i - 1) = N - i + 1
      OBVIOUS
    <3>2. PICK x, y : x = gs[a].recs[e + i].seq /\ y = en.seq
      OBVIOUS
    <3>3. x = q + j + N + i - 1 /\ y = q + j + 2 * N
      BY <1>14, <1>15, <1>18, <3>2
    <3>4. y - x \in 1 .. 2 * N /\ y - x = N - i + 1
      BY <3>1, <3>3
    <3>5. gs[a].recs[e + i].kind = "Split" /\ gs[a].recs[e + i].part = i
      BY <1>14
    <3>6. Cardinality(1 .. N) = N
      BY FS_Interval
    <3>7. Back(1 .. N, "Split", i) = N - i + 1
      BY <3>6 DEF Back
    <3> QED
      BY <3>2, <3>4, <3>5, <3>6, <3>7, Zenon DEF Close
  <2>2. CloseRow(gs, a, N, e, en)
    BY <2>1 DEF CloseRow
  <2>3. HasParts(gs, [k \in Keys(d, 1 .. N) |-> [seg |-> a, off |-> e + k[2]]], d, en)
    BY <1>18, <2>2, PartsInRow
  <2> QED
    BY <1>21, <2>3
<1>24. \A k \in DOMAIN sl \cup DOMAIN ml : k[1] = d
  <2>1. DOMAIN sl = Keys(d, 1 .. N) /\ DOMAIN ml = Keys(d, 1 .. N)
    BY <1>21
  <2> QED
    BY <2>1 DEF Keys
<1>25. PICK old : old = RemoveDoc(maps, d)
  OBVIOUS
<1>26. Owns(gs, old) /\ Lives(old, ids)
  <2>1. Owns(gs, maps) /\ Lives(maps, ids)
    BY <1>1, <1>2, <1>6, <1>7, MapsOwned DEF OwnInv, Living
  <2> QED
    BY <1>25, <2>1, OwnsRemoved
<1>27. Owns(gs, PutDoc(old, d, en, sl, ml)) /\ Lives(PutDoc(old, d, en, sl, ml), ids)
  <2>1. en.loc.seg \in ids
    BY <1>7, <1>18
  <2> QED
    BY <1>18, <1>19, <1>22, <1>23, <1>24, <1>26, <2>1, OwnsPut
<1>28. Owns(files', maps') /\ Lives(maps', SealedIds(m') \cup {active'})
  <2>1. maps' = PutDoc(old, d, en, sl, ml)
    BY <1>1, <1>17, <1>20, <1>25
  <2>2. SealedIds(m') \cup {active'} = ids
    BY <1>1, <1>5, <1>7 DEF SameSegments, SealedIds
  <2> QED
    BY <1>7, <1>27, <2>1, <2>2
<1>29. op'.step \in Steps \ {"compactUnsnap", "compactPublish", "down", "reject", "replay"}
  BY <1>2 DEF Steps
<1> QED
  BY <1>1, <1>2, <1>6, <1>28, <1>29, OpenOwn

-----------------------------------------------------------------------------
(* Compaction *)

LEMMA RankFacts ==
  ASSUME NEW mp \in AllMaps, NEW x \in Refs(mp)
  PROVE  /\ Rank(x) \in Nat
         /\ x.kind # "Doc" => Rank(x) <= 2 * MaxSplits
         /\ x.kind = "Doc" => Rank(x) = 2 * MaxSplits + 1
<1>1. x.kind \in {"Doc", "Split", "Summary"} /\ (x.kind # "Doc" => x.mark \in 1 .. MaxSplits)
  BY RefTyped DEF Parts
<1>2. CASE x.kind = "Doc"
  <2>1. Rank(x) = 2 * MaxSplits + 1
    BY <1>2 DEF Rank
  <2> QED
    BY <1>2, <2>1, ContentsAssumption
<1>3. CASE x.kind = "Split"
  <2>1. Rank(x) = MaxSplits + x.mark
    BY <1>3 DEF Rank
  <2> QED
    BY <1>1, <1>3, <2>1, ContentsAssumption
<1>4. CASE x.kind = "Summary"
  <2>1. Rank(x) = x.mark
    BY <1>4 DEF Rank
  <2> QED
    BY <1>1, <1>4, <2>1, ContentsAssumption
<1> QED
  BY <1>1, <1>2, <1>3, <1>4

LEMMA DocRefSeq ==
  ASSUME NEW mp, NEW x \in Refs(mp), x.kind = "Doc"
  PROVE  x.mark = mp.docs[x.doc].seq /\ x.loc = mp.docs[x.doc].loc
<1>1. x \in DocRefs(mp.docs)
  <2>1. ASSUME NEW kind, NEW f, x \in PartRefs(kind, f) PROVE x.kind = kind
    BY <2>1 DEF PartRefs, Ref
  <2> QED
    BY <2>1 DEF Refs
<1> QED
  BY <1>1 DEF DocRefs, Ref

(* r holds the records of a copy order that t tags. *)
Copies(r, t, fs) ==
  /\ t \in Seq(Refs(maps)) /\ DOMAIN r = 1 .. Len(t)
  /\ \A i, j \in 1 .. Len(t) : i < j => Before(t[i], t[j])
  /\ GroupsOf(t, CopiedDocs)
  /\ \A i \in 1 .. Len(t) : /\ t[i].loc.seg \in DOMAIN fs
                            /\ r[i] = fs[t[i].loc.seg].recs[t[i].loc.off]

(* What of one document is copied is copied in a group. *)
LEMMA CopiedGroup ==
  ASSUME NEW fs, NEW r, NEW t, NEW n, maps \in AllMaps, Copies(r, t, fs), Resolve(fs, maps, n),
         Owns(fs, maps), NEW j \in DOMAIN r, r[j].kind = "Doc"
  PROVE  GroupAt(r, j)
<1>1. Len(t) \in Nat /\ \A i \in 1 .. Len(t) : t[i] \in Refs(maps)
  BY LenProperties, ElementOfSeq DEF Copies
<1>2. PICK N \in Nat : N = Len(t)
  BY <1>1
<1>3. ASSUME NEW i \in 1 .. N
      PROVE  /\ t[i] \in Refs(maps) /\ t[i].doc \in CopiedDocs /\ Meant(t[i], r[i])
             /\ r[i] = fs[t[i].loc.seg].recs[t[i].loc.off] /\ t[i].loc.seg \in DOMAIN fs
  <2>1. t[i] \in Refs(maps) /\ t[i].doc \in CopiedDocs
    BY <1>1, <1>2 DEF Copies, GroupsOf
  <2>2. t[i].loc.seg \in DOMAIN fs /\ r[i] = fs[t[i].loc.seg].recs[t[i].loc.off]
    BY <1>2 DEF Copies
  <2>3. Right(fs, t[i])
    BY <2>1 DEF Resolve
  <2> QED
    BY <2>1, <2>2, <2>3 DEF Right
<1>4. j \in 1 .. N
  BY <1>2 DEF Copies
<1>5. PICK x \in Refs(maps) : x = t[j]
  BY <1>3, <1>4
<1>6. PICK d, e : d = x.doc /\ e = maps.docs[d]
  BY Zenon
<1>7. /\ x.kind = "Doc" /\ r[j].doc = d /\ r[j].seq = e.seq /\ x.loc = e.loc
      /\ d \in CopiedDocs /\ d \in DOMAIN maps.docs /\ d \in Nat
      /\ e.loc.seg \in DOMAIN fs /\ r[j] = fs[e.loc.seg].recs[e.loc.off]
  <2>1. Meant(x, r[j]) /\ x.doc \in CopiedDocs
        /\ r[j] = fs[x.loc.seg].recs[x.loc.off] /\ x.loc.seg \in DOMAIN fs
    BY <1>3, <1>4, <1>5
  <2>2. x.kind = "Doc" /\ r[j].doc = d /\ r[j].seq = x.mark
    BY <1>6, <2>1 DEF Meant
  <2>3. x.mark = e.seq /\ x.loc = e.loc
    BY <1>6, <2>2, DocRefSeq
  <2>4. d \in DOMAIN maps.docs /\ d \in Nat
    BY <1>6, <2>2, RefTyped, DocsAssumption, Zenon
  <2> QED
    BY <1>6, <2>1, <2>2, <2>3, <2>4, Zenon
<1>8. /\ r[j].splits = e.splits /\ e.splits \subseteq OwnedSummaries(e)
      /\ r[j].list \subseteq r[j].splits
      /\ HasParts(fs, maps.splits, d, e) /\ HasParts(fs, maps.summaries, d, e)
  <2>1. Owned(fs, maps, d)
    BY <1>7 DEF Owns
  <2> QED
    BY <1>6, <1>7, <2>1, Zenon DEF Owned, Names
<1>9. PICK u : GroupOf(u, d) /\ \A y : Has(u, y) => Has(t, y)
  BY <1>7 DEF Copies, GroupsOf
<1>10. ASSUME NEW i \in e.splits, NEW kind \in PartKinds
       PROVE  \E p \in 1 .. N :
                /\ t[p].kind = kind /\ t[p].mark = i /\ t[p].doc = d
                /\ Close(e.seq, e.splits, r[p])
  <2>1. ASSUME NEW f, HasParts(fs, f, d, e),
               <<d, i>> \in DOMAIN f => Has(u, Ref(kind, d, i, f[<<d, i>>]))
        PROVE  \E p \in 1 .. N :
                 /\ t[p].kind = kind /\ t[p].mark = i /\ t[p].doc = d
                 /\ Close(e.seq, e.splits, r[p])
    <3>1. PICK k : k = <<d, i>>
      OBVIOUS
    <3>2. /\ k \in DOMAIN f /\ f[k].seg = e.loc.seg
          /\ Close(e.seq, e.splits, fs[e.loc.seg].recs[f[k].off])
      BY <1>7, <2>1, <3>1 DEF HasParts
    <3>3. PICK y : y = Ref(kind, d, i, f[k])
      OBVIOUS
    <3>4. y.kind = kind /\ y.mark = i /\ y.doc = d /\ y.loc = f[k]
      BY <3>3, RefLoc
    <3>5. PICK p \in 1 .. N : t[p] = y
      <4>1. Has(t, y)
        BY <1>9, <2>1, <3>1, <3>2, <3>3
      <4> QED
        BY <1>2, <4>1 DEF Has
    <3>6. r[p] = fs[e.loc.seg].recs[f[k].off]
      BY <1>3, <3>2, <3>4, <3>5
    <3> QED
      BY <3>2, <3>4, <3>5, <3>6
  <2>2. CASE kind = "Split"
    BY <1>6, <1>8, <1>9, <2>1, <2>2 DEF GroupOf
  <2>3. CASE kind = "Summary"
    <3>1. i \in OwnedSummaries(e)
      BY <1>8
    <3> QED
      BY <1>6, <1>8, <1>9, <2>1, <2>3, <3>1 DEF GroupOf
  <2> QED
    BY <2>2, <2>3 DEF PartKinds
<1>11. ASSUME NEW p \in 1 .. N, NEW q \in 1 .. N, p < q
       PROVE  /\ t[p].doc <= t[q].doc /\ t[p].doc \in Nat /\ t[q].doc \in Nat
              /\ t[p].doc = t[q].doc => Rank(t[p]) < Rank(t[q])
  <2>1. Before(t[p], t[q])
    BY <1>2, <1>11 DEF Copies
  <2>2. t[p].doc \in Nat /\ t[q].doc \in Nat
    BY <1>3, RefTyped, DocsAssumption
  <2> QED
    BY <2>1, <2>2 DEF Before
<1>12. ASSUME NEW p \in 1 .. N, t[p].kind \in PartKinds, t[p].doc = d
       PROVE  p \in 1 .. j - 1 /\ Fresh(r, p, j - 1)
  <2>1. Rank(t[p]) \in Nat /\ Rank(t[p]) <= 2 * MaxSplits /\ Rank(t[j]) = 2 * MaxSplits + 1
    BY <1>3, <1>5, <1>7, <1>12, RankFacts, Zenon DEF PartKinds
  <2>2. p # j /\ t[j].doc = d
    BY <1>5, <1>6, <1>7, <1>12, Zenon DEF PartKinds
  <2>3. ~ (j < p)
    BY <1>4, <1>11, <1>12, <2>1, <2>2, ContentsAssumption
  <2>4. p \in 1 .. j - 1
    BY <1>4, <2>2, <2>3
  <2>5. ASSUME NEW q \in p + 1 .. j - 1
        PROVE  /\ r[q].kind \in PartKinds
               /\ r[q].kind # r[p].kind \/ r[q].part # r[p].part
    <3>1. q \in 1 .. N /\ p < q /\ q < j
      BY <1>4, <2>4
    <3>2. PICK y \in Refs(maps), z \in Refs(maps) : y = t[p] /\ z = t[q]
      BY <1>3, <3>1
    <3>3. /\ y.doc <= z.doc /\ z.doc <= d /\ z.doc \in Nat
          /\ y.doc = z.doc => Rank(y) < Rank(z)
          /\ z.doc = d => Rank(z) < Rank(x)
      BY <1>4, <1>5, <1>11, <2>2, <3>1, <3>2
    <3>4. z.doc = d
      BY <1>7, <1>12, <3>2, <3>3
    <3>5. Rank(y) < Rank(z) /\ Rank(z) < Rank(x)
      BY <1>12, <3>2, <3>3, <3>4
    <3>6. Rank(z) \in Nat /\ Rank(x) = 2 * MaxSplits + 1
      BY <1>7, RankFacts
    <3>7. z.kind # "Doc"
      <4>1. Rank(z) # 2 * MaxSplits + 1
        BY <3>5, <3>6, ContentsAssumption
      <4> QED
        BY <4>1, RankFacts
    <3>8. ~ (y.kind = z.kind /\ y.mark = z.mark)
      <4>1. Rank(y) # Rank(z)
        BY <2>1, <3>2, <3>5, <3>6
      <4> QED
        BY <4>1 DEF Rank
    <3>9. z.kind \in PartKinds
      BY <3>7, RefTyped DEF PartKinds
    <3>10. Meant(y, r[p]) /\ Meant(z, r[q])
      BY <1>3, <3>1, <3>2
    <3>11. y.kind \in PartKinds
      BY <1>12, <3>2
    <3> QED
      BY <3>7, <3>8, <3>9, <3>10, <3>11 DEF Meant, PartKinds
  <2>6. r[p].kind \in PartKinds
    BY <1>3, <1>12 DEF Meant
  <2> QED
    BY <2>4, <2>5, <2>6 DEF Fresh
<1>13. ASSUME NEW i \in e.splits, NEW kind \in PartKinds
       PROVE  \E p \in 1 .. j - 1 :
                /\ r[p].kind = kind /\ r[p].part = i /\ r[p].doc = d
                /\ Close(e.seq, e.splits, r[p]) /\ Fresh(r, p, j - 1)
  <2>1. PICK p \in 1 .. N : /\ t[p].kind = kind /\ t[p].mark = i /\ t[p].doc = d
                            /\ Close(e.seq, e.splits, r[p])
    BY <1>10
  <2>2. p \in 1 .. j - 1 /\ Fresh(r, p, j - 1)
    BY <1>12, <2>1
  <2>3. Meant(t[p], r[p])
    BY <1>3
  <2> QED
    BY <2>1, <2>2, <2>3 DEF Meant, PartKinds
<1> QED
  BY <1>7, <1>8, <1>13 DEF GroupAt

(* A document that compaction does not leave in the active segment is copied. *)
LEMMA CopiedWhole ==
  ASSUME LogInv, OwnInv, Up, NEW t, Tags(t, CopyOrder), GroupsOf(t, CopiedDocs),
         op'.order = CopyOrder, maps' = maps, NEW d \in CopiedDocs
  PROVE  Carried(d)'
<1>1. PICK s, e : s = CopyOrder /\ e = maps.docs[d]
  OBVIOUS
<1>2. /\ \A i \in 1 .. Len(t) : t[i].loc = s[i]
      /\ Len(s) = Len(t)
  BY <1>1 DEF Tags
<1>3. PICK u : GroupOf(u, d) /\ \A y : Has(u, y) => Has(t, y)
  BY DEF GroupsOf
<1>4. ASSUME NEW kind, NEW mark, NEW loc, Has(u, Ref(kind, d, mark, loc))
      PROVE  \E i \in 1 .. Len(s) : s[i] = loc
  <2>1. PICK y : y = Ref(kind, d, mark, loc)
    OBVIOUS
  <2>2. PICK i \in 1 .. Len(t) : t[i] = y
    BY <1>3, <1>4, <2>1, Zenon DEF Has
  <2>3. y.loc = loc
    BY <2>1, RefLoc
  <2> QED
    BY <1>2, <2>2, <2>3
<1>5. /\ d \in DOMAIN maps.docs /\ e.splits \subseteq OwnedSummaries(e)
      /\ HasParts(files, maps.splits, d, e) /\ HasParts(files, maps.summaries, d, e)
  BY <1>1, Zenon DEF CopiedDocs, OwnInv, Owns, Owned
<1>6. \E i \in 1 .. Len(s) : s[i] = e.loc
  BY <1>1, <1>3, <1>4 DEF GroupOf
<1>7. ASSUME NEW i \in e.splits
      PROVE  /\ \E p \in 1 .. Len(s) : s[p] = maps.splits[<<d, i>>]
             /\ \E p \in 1 .. Len(s) : s[p] = maps.summaries[<<d, i>>]
  <2>1. <<d, i>> \in DOMAIN maps.splits /\ <<d, i>> \in DOMAIN maps.summaries
    BY <1>5 DEF HasParts
  <2>2. Has(u, Ref("Split", d, i, maps.splits[<<d, i>>]))
    BY <1>1, <1>3, <2>1 DEF GroupOf
  <2>3. Has(u, Ref("Summary", d, i, maps.summaries[<<d, i>>]))
    BY <1>1, <1>3, <1>5, <2>1 DEF GroupOf
  <2> QED
    BY <1>4, <2>2, <2>3
<1> QED
  BY <1>1, <1>6, <1>7 DEF Carried, InOrder

LEMMA CompactWriteOwn ==
  ASSUME SegmentsSafe, LogInv, SeqInv, OwnInv, CompactWrite
  PROVE  OwnInv'
<1>0. PICK new, s, r : /\ new = m.nextSegmentId /\ s = CopyOrder
                       /\ r = [i \in DOMAIN CopyOrder |-> RecordAt(CopyOrder[i])]
  OBVIOUS
<1>1. /\ op.step = "idle" /\ snap' = snap /\ active' = active
      /\ buf' = buf /\ maps' = maps /\ m' = [m EXCEPT !.nextSegmentId = @ + 1]
      /\ op' = [step |-> "compactUnsnap", seg |-> new, order |-> s]
      /\ \A i \in DOMAIN CopyOrder : Decodes(CopyOrder[i])
  BY <1>0 DEF CompactWrite
<1>2. Up /\ op'.step = "compactUnsnap" /\ op'.order = s /\ Up'
  BY <1>1 DEF Up
<1>3. m'.sealed = m.sealed /\ m'.nextSeq = m.nextSeq
  <2>1. m = [f \in ManifestFields |-> m[f]]
    BY DEF SegmentsSafe, WellFormed
  <2> QED
    BY <1>1, <2>1, Zenon DEF ManifestFields
<1>4. SealedIds(m') = SealedIds(m) /\ FirstFree' = FirstFree /\ SnapSeq' = SnapSeq
  BY <1>1, <1>3 DEF SealedIds, FirstFree, SnapSeq
<1>5. CompactAdds(new, r)
  BY <1>0, CompactAddsFile
<1>6. maps \in AllMaps /\ Resolve(files, maps, man.nextSegmentId) /\ Owns(files, maps)
  BY <1>2 DEF LogInv, MemoryTypes, SeqInv, References, OwnInv
<1>7. PICK t : Tags(t, s) /\ GroupsOf(t, CopiedDocs)
  BY <1>0, <1>6, CopyOrderTags
<1>8. PICK N \in Nat : N = Len(t) /\ N = Len(s) /\ DOMAIN s = 1 .. N
  BY <1>7, LenProperties DEF Tags
<1>9. ASSUME NEW i \in 1 .. N
      PROVE  /\ t[i].loc = s[i] /\ s[i].seg \in DOMAIN files
             /\ s[i].off \in DOMAIN files[s[i].seg].recs
             /\ r[i] = files[s[i].seg].recs[s[i].off]
  <2>1. Decodes(s[i]) /\ r[i] = RecordAt(s[i])
    BY <1>0, <1>1, <1>8
  <2> QED
    BY <1>7, <1>8, <2>1 DEF Decodes, RecordAt, Tags
<1>10. DOMAIN r = 1 .. N
  BY <1>0, <1>8
<1>11. ASSUME NEW k \in {0, SnapSeq} PROVE Grouped(r, k) /\ LogGrouped(k)'
  <2>1. LogGrouped(k)
    BY BufferClear
  <2>2. Copies(r, t, files)
    BY <1>7, <1>8, <1>9, <1>10 DEF Copies, Tags
  <2>3. ASSUME NEW j \in DOMAIN r, r[j].kind = "Doc"
        PROVE  GroupAt(r, j) /\ Clear(r[j], k)
    <3>1. GroupAt(r, j)
      <4>1. PICK fs, n : fs = files /\ n = man.nextSegmentId
        OBVIOUS
      <4>2. Copies(r, t, fs) /\ Resolve(fs, maps, n) /\ Owns(fs, maps)
        BY <1>6, <2>2, <4>1
      <4> QED
        BY <1>6, <2>3, <4>2, CopiedGroup
    <3>2. PICK x : x = s[j]
      OBVIOUS
    <3>3. x.seg \in DOMAIN files /\ x.off \in DOMAIN files[x.seg].recs
          /\ r[j] = files[x.seg].recs[x.off]
      BY <1>9, <1>10, <3>2
    <3> QED
      BY <2>1, <2>3, <3>1, <3>3 DEF LogGrouped, Grouped
  <2>4. Grouped(r, k)
    BY <2>3 DEF Grouped
  <2>5. ASSUME NEW id \in DOMAIN files' PROVE Grouped(files'[id].recs, k)
    <3>1. CASE id \in DOMAIN files
      BY <1>5, <2>1, <3>1 DEF CompactAdds, LogGrouped
    <3>2. CASE id \notin DOMAIN files
      BY <1>5, <2>4, <3>2 DEF CompactAdds
    <3> QED
      BY <3>1, <3>2
  <2> QED
    BY <2>4, <2>5 DEF LogGrouped
<1>12. Groups'
  <2>1. \A k \in {0, SnapSeq} : Grouped(buf, k)
    BY BufferClear
  <2>2. SnapSeq < FirstFree
    BY <1>2 DEF OwnInv, Groups
  <2> QED
    BY <1>1, <1>4, <1>11, <2>1, <2>2 DEF Groups
<1>13. Lives(maps, SealedIds(m) \cup {active})
  BY <1>1, <1>2 DEF OwnInv, Living
<1>14. Living'
  <2>1. Lives(maps', SealedIds(m') \cup {active'})
    BY <1>1, <1>4, <1>13
  <2>2. ASSUME NEW d \in DOMAIN maps'.docs
        PROVE  maps'.docs[d].loc.seg = active' \/ Carried(d)'
    <3>1. CASE maps.docs[d].loc.seg = active
      BY <1>1, <3>1
    <3>2. CASE maps.docs[d].loc.seg # active
      <4>1. d \in CopiedDocs
        BY <1>1, <1>13, <2>2, <3>2 DEF Lives, CopiedDocs
      <4>2. Tags(t, CopyOrder) /\ op'.order = CopyOrder /\ maps' = maps
        BY <1>0, <1>1, <1>2, <1>7
      <4> QED
        BY <1>2, <1>7, <4>1, <4>2, CopiedWhole
    <3> QED
      BY <3>1, <3>2
  <2>3. op'.step # "compactPublish"
    BY <1>2
  <2> QED
    BY <2>1, <2>2, <2>3 DEF Living
<1>15. Judged'
  BY <1>2 DEF Judged
<1>16. Owns(files', maps')
  BY <1>1, <1>2, <1>5, MapsOwned DEF CompactAdds
<1>17. snap'.exists => Owns(files', snap'.maps)
  BY <1>1, <1>5, SnapOwned DEF CompactAdds
<1> QED
  BY <1>12, <1>14, <1>15, <1>16, <1>17 DEF OwnInv

(* The snapshot goes; the manifest in memory names the output. *)
LEMMA CompactUnsnapOwn ==
  ASSUME SegmentsSafe, LogInv, SeqInv, OwnInv, CompactUnsnap
  PROVE  OwnInv'
<1>0. PICK s, info : /\ s = op.order
                     /\ info = [id |-> op.seg, bytes |-> Len(op.order),
                                last |-> CHOOSE t \in {RecordAt(op.order[i]).seq :
                                                          i \in DOMAIN op.order} :
                                           \A u \in {RecordAt(op.order[i]).seq :
                                                       i \in DOMAIN op.order} : u <= t]
  OBVIOUS
<1>1. /\ op.step = "compactUnsnap" /\ snap' = NoSnapshot
      /\ op' = [step |-> "compactPublish", seg |-> op.seg, order |-> s]
      /\ files' = files /\ active' = active /\ buf' = buf /\ maps' = maps
      /\ m' = [m EXCEPT !.snapshotSeq = 0, !.sealed = IF s = <<>> THEN <<>> ELSE <<info>>,
                        !.tombstones = 0]
  BY <1>0 DEF CompactUnsnap
<1>2. /\ Up /\ buf = <<>> /\ op'.step = "compactPublish" /\ op'.seg = op.seg /\ op'.order = op.order
  BY <1>0, <1>1 DEF Up, LogInv, OpTypes
<1>3. m'.sealed = (IF s = <<>> THEN <<>> ELSE <<info>>) /\ m'.nextSeq = m.nextSeq
  <2>1. m = [f \in ManifestFields |-> m[f]]
    BY DEF SegmentsSafe, WellFormed
  <2> QED
    BY <1>1, <2>1, Zenon DEF ManifestFields
<1>4. s # <<>> => op.seg \in SealedIds(m')
  <2>1. info.id = op.seg
    BY <1>0
  <2> QED
    BY <1>3, <2>1, SingleIds
<1>5. snap'.exists = FALSE
  BY <1>1, Zenon DEF NoSnapshot
<1>6. SnapSeq' = 0
  BY <1>5 DEF SnapSeq
<1>7. 0 < FirstFree'
  <2>1. m.nextSeq \in Nat \ {0} /\ Len(buf') = 0
    BY <1>1, <1>2 DEF LogInv, MemoryTypes, Counters
  <2> QED
    BY <1>3, <2>1 DEF FirstFree
<1>8. Groups'
  <2>1. Grouped(buf, 0) /\ LogGrouped(0)
    BY BufferClear
  <2>2. LogGrouped(0)'
    BY <1>1, <2>1, LogKept
  <2> QED
    BY <1>1, <1>6, <1>7, <2>1, <2>2 DEF Groups
<1>9. Living'
  <2>1. \A d \in DOMAIN maps.docs : maps.docs[d].loc.seg = active \/ Carried(d)
    BY <1>1 DEF OwnInv, Living
  <2>2. \A d : Carried(d)' <=> Carried(d)
    BY <1>1, <1>2 DEF Carried, InOrder
  <2>3. \A d \in DOMAIN maps'.docs : maps'.docs[d].loc.seg = active' \/ Carried(d)'
    BY <1>1, <2>1, <2>2
  <2>4. op'.order # <<>> => op'.seg \in SealedIds(m')
    BY <1>0, <1>2, <1>4
  <2> QED
    BY <1>2, <2>3, <2>4 DEF Living
<1>10. Judged'
  BY <1>2 DEF Judged
<1> QED
  BY <1>1, <1>2, <1>5, <1>8, <1>9, <1>10 DEF OwnInv

(* f with every location moved. *)
MovedParts(g, f) == DOMAIN g = DOMAIN f /\ \A k \in DOMAIN f : g[k] = Relocate(f[k])

(* The maps after a compaction: the same documents and parts, moved. *)
LEMMA PublishParts ==
  ASSUME LogInv, CompactPublish
  PROVE  /\ DOMAIN maps'.docs = DOMAIN maps.docs
         /\ \A d \in DOMAIN maps.docs :
              /\ maps'.docs[d].loc = Relocate(maps.docs[d].loc)
              /\ maps'.docs[d].seq = maps.docs[d].seq
              /\ maps'.docs[d].splits = maps.docs[d].splits
              /\ maps'.docs[d].list = maps.docs[d].list
              /\ OwnedSummaries(maps'.docs[d]) = OwnedSummaries(maps.docs[d])
         /\ MovedParts(maps'.splits, maps.splits)
         /\ MovedParts(maps'.summaries, maps.summaries)
<1>1. PICK new : new = maps'
  OBVIOUS
<1>2. new = [docs |-> [d \in DOMAIN maps.docs |-> [maps.docs[d] EXCEPT !.loc = Relocate(@)]],
             splits |-> [k \in DOMAIN maps.splits |-> Relocate(maps.splits[k])],
             summaries |-> [k \in DOMAIN maps.summaries |-> Relocate(maps.summaries[k])]]
  BY <1>1 DEF CompactPublish
<1>3. /\ new.docs = [d \in DOMAIN maps.docs |-> [maps.docs[d] EXCEPT !.loc = Relocate(@)]]
      /\ new.splits = [k \in DOMAIN maps.splits |-> Relocate(maps.splits[k])]
      /\ new.summaries = [k \in DOMAIN maps.summaries |-> Relocate(maps.summaries[k])]
  BY <1>2
<1>4. DOMAIN new.docs = DOMAIN maps.docs
  BY <1>3
<1>5. ASSUME NEW d \in DOMAIN maps.docs
      PROVE  /\ new.docs[d].loc = Relocate(maps.docs[d].loc)
             /\ new.docs[d].seq = maps.docs[d].seq
             /\ new.docs[d].splits = maps.docs[d].splits
             /\ new.docs[d].list = maps.docs[d].list
             /\ OwnedSummaries(new.docs[d]) = OwnedSummaries(maps.docs[d])
  <2>1. PICK e : e = maps.docs[d]
    OBVIOUS
  <2>2. PICK l : l = Relocate(e.loc)
    OBVIOUS
  <2>3. e \in Entries
    <3>1. maps.docs \in [DOMAIN maps.docs -> Entries]
      BY DocMapFacts DEF LogInv, MemoryTypes, AllMaps
    <3> QED
      BY <2>1, <3>1
  <2>4. new.docs[d] = [e EXCEPT !.loc = l]
    BY <1>3, <2>1, <2>2
  <2>5. PICK x : x = [e EXCEPT !.loc = l]
    OBVIOUS
  <2>6. x.loc = l /\ x.seq = e.seq /\ x.splits = e.splits /\ x.list = e.list /\ x.extra = e.extra
    BY <2>3, <2>5 DEF Entries
  <2> QED
    BY <2>1, <2>2, <2>4, <2>5, <2>6 DEF OwnedSummaries
<1>6. MovedParts(new.splits, maps.splits) /\ MovedParts(new.summaries, maps.summaries)
  BY <1>3 DEF MovedParts
<1> QED
  BY <1>1, <1>4, <1>5, <1>6

LEMMA CompactPublishOwn ==
  ASSUME SegmentsSafe, LogInv, SeqInv, OwnInv, CompactPublish
  PROVE  OwnInv'
<1>1. /\ op.step = "compactPublish" /\ op' = At("compactRemove")
      /\ files' = files /\ snap' = snap /\ m' = m /\ active' = active /\ buf' = buf
  BY DEF CompactPublish
<1>2. Up /\ buf = <<>> /\ op'.step = "compactRemove"
  BY <1>1 DEF Up, At, LogInv, OpTypes
<1>3. PICK fs, new, a, s : fs = files /\ new = maps' /\ a = active /\ s = op.seg
  OBVIOUS
<1>4. PICK ord, N : ord = op.order /\ N = Len(op.order)
  OBVIOUS
<1>5. /\ DOMAIN new.docs = DOMAIN maps.docs
      /\ \A d \in DOMAIN maps.docs :
           /\ new.docs[d].loc = Relocate(maps.docs[d].loc)
           /\ new.docs[d].seq = maps.docs[d].seq
           /\ new.docs[d].splits = maps.docs[d].splits
           /\ new.docs[d].list = maps.docs[d].list
           /\ OwnedSummaries(new.docs[d]) = OwnedSummaries(maps.docs[d])
      /\ MovedParts(new.splits, maps.splits) /\ MovedParts(new.summaries, maps.summaries)
  BY <1>3, PublishParts
<1>6. \A i \in 1 .. N : /\ ord[i].seg \in DOMAIN fs /\ ord[i].seg # a
                        /\ fs[s].recs[i] = fs[ord[i].seg].recs[ord[i].off]
  BY <1>1, <1>3, <1>4 DEF SeqInv, Copied
<1>7. ASSUME NEW loc
      PROVE  \/ Relocate(loc) = loc /\ \A i \in 1 .. N : ord[i] # loc
             \/ \E i \in 1 .. N : ord[i] = loc /\ Relocate(loc).seg = s /\ Relocate(loc).off = i
  BY <1>1, <1>3, <1>4, RelocateTo
<1>8. ASSUME NEW loc, loc.seg = a PROVE Relocate(loc) = loc
  BY <1>6, <1>7, <1>8
<1>9. ASSUME NEW loc, \E i \in 1 .. N : ord[i] = loc
      PROVE  /\ Relocate(loc).seg = s /\ loc.seg \in DOMAIN fs
             /\ fs[s].recs[Relocate(loc).off] = fs[loc.seg].recs[loc.off]
  BY <1>6, <1>7, <1>9
<1>10. N \in Nat /\ (N # 0 => ord # <<>>)
  <2>1. ord \in Seq(Locs)
    BY <1>1, <1>4 DEF LogInv, OpTypes
  <2> QED
    BY <1>4, <2>1, LenProperties
<1>11. ASSUME NEW d \in DOMAIN maps.docs
       PROVE  Owned(fs, new, d) /\ new.docs[d].loc.seg \in SealedIds(m) \cup {a}
  <2>1. PICK e, g : e = maps.docs[d] /\ g = new.docs[d]
    OBVIOUS
  <2>2. /\ g.loc = Relocate(e.loc) /\ g.seq = e.seq /\ g.splits = e.splits
        /\ OwnedSummaries(g) = OwnedSummaries(e) /\ g.list = e.list
    BY <1>5, <2>1, Zenon
  <2>3. /\ e.splits \subseteq OwnedSummaries(e)
        /\ e.loc.seg \in DOMAIN fs => Names(fs[e.loc.seg].recs[e.loc.off], e)
        /\ HasParts(fs, maps.splits, d, e) /\ HasParts(fs, maps.summaries, d, e)
    BY <1>2, <1>3, <2>1, Zenon DEF OwnInv, Owns, Owned
  <2>4. CASE e.loc.seg = a
    <3>1. g.loc = e.loc
      BY <1>8, <2>2, <2>4
    <3>2. ASSUME NEW f, NEW h, HasParts(fs, f, d, e), MovedParts(h, f)
          PROVE  HasParts(fs, h, d, g)
      <4>1. ASSUME NEW i \in e.splits
            PROVE  <<d, i>> \in DOMAIN h /\ h[<<d, i>>] = f[<<d, i>>]
        <5>1. <<d, i>> \in DOMAIN f /\ f[<<d, i>>].seg = a
          BY <2>4, <3>2 DEF HasParts
        <5>2. Relocate(f[<<d, i>>]) = f[<<d, i>>]
          BY <1>8, <5>1
        <5> QED
          BY <3>2, <5>1, <5>2 DEF MovedParts
      <4> QED
        BY <2>2, <3>1, <3>2, <4>1 DEF HasParts
    <3>3. HasParts(fs, new.splits, d, g) /\ HasParts(fs, new.summaries, d, g)
      BY <1>5, <2>3, <3>2, Zenon
    <3> QED
      BY <2>1, <2>2, <2>3, <2>4, <3>1, <3>3 DEF Owned, Names
  <2>5. CASE e.loc.seg # a
    <3>1. Carried(d)
      BY <1>1, <1>3, <2>1, <2>5 DEF OwnInv, Living
    <3>2. /\ \E i \in 1 .. N : ord[i] = e.loc
          /\ \A i \in e.splits : /\ \E p \in 1 .. N : ord[p] = maps.splits[<<d, i>>]
                                 /\ \E p \in 1 .. N : ord[p] = maps.summaries[<<d, i>>]
      BY <1>4, <2>1, <3>1 DEF Carried, InOrder
    <3>3. /\ g.loc.seg = s /\ e.loc.seg \in DOMAIN fs
          /\ fs[s].recs[g.loc.off] = fs[e.loc.seg].recs[e.loc.off]
      BY <1>9, <2>2, <3>2
    <3>4. ASSUME NEW f, NEW h, HasParts(fs, f, d, e), MovedParts(h, f),
                 \A i \in e.splits : \E p \in 1 .. N : ord[p] = f[<<d, i>>]
          PROVE  HasParts(fs, h, d, g)
      <4>1. ASSUME NEW i \in e.splits
            PROVE  /\ <<d, i>> \in DOMAIN h /\ h[<<d, i>>].seg = s
                   /\ Close(e.seq, e.splits, fs[s].recs[h[<<d, i>>].off])
        <5>1. PICK k : k = <<d, i>>
          OBVIOUS
        <5>2. /\ k \in DOMAIN f /\ f[k].seg = e.loc.seg
              /\ Close(e.seq, e.splits, fs[e.loc.seg].recs[f[k].off])
          BY <3>3, <3>4, <5>1 DEF HasParts
        <5>3. k \in DOMAIN h /\ h[k] = Relocate(f[k])
          BY <3>4, <5>2 DEF MovedParts
        <5>4. h[k].seg = s /\ fs[s].recs[h[k].off] = fs[f[k].seg].recs[f[k].off]
          BY <1>9, <3>4, <5>1, <5>3
        <5> QED
          BY <5>1, <5>2, <5>3, <5>4
      <4> QED
        BY <2>2, <3>3, <4>1 DEF HasParts
    <3>5. HasParts(fs, new.splits, d, g) /\ HasParts(fs, new.summaries, d, g)
      BY <1>5, <2>3, <3>2, <3>4
    <3>6. s \in SealedIds(m)
      <4>1. N # 0
        BY <1>10, <3>2
      <4> QED
        BY <1>1, <1>3, <1>4, <1>10, <4>1 DEF OwnInv, Living
    <3> QED
      BY <2>1, <2>2, <2>3, <3>3, <3>5, <3>6, Zenon DEF Owned, Names
  <2> QED
    BY <2>4, <2>5
<1>12. Owns(files', maps') /\ Lives(maps', SealedIds(m') \cup {active'})
  BY <1>1, <1>3, <1>5, <1>11 DEF Owns, Lives
<1>13. Keeps(files, files', man.nextSegmentId)
  BY <1>1, FilesGrow
<1>14. FirstFree' = FirstFree /\ FirstFree \in Int
  BY <1>1, SlotsTyped DEF FirstFree
<1>15. \A k \in {0, SnapSeq} : Grouped(buf', k) /\ LogGrouped(k)'
  BY <1>1, BufferClear, LogKept
<1>16. /\ op'.step \in Steps \ {"compactUnsnap", "compactPublish", "down", "reject", "replay"}
       /\ FirstFree <= FirstFree' /\ FirstFree' \in Int
  BY <1>2, <1>14 DEF Steps
<1> QED
  BY <1>1, <1>2, <1>12, <1>13, <1>14, <1>15, <1>16, OpenOwn

-----------------------------------------------------------------------------
(* Crashing and opening *)

(* The snapshot an open may still delete. *)
LEMMA SnapLeft ==
  ASSUME SeqInv, OwnInv, snap' = snap \/ snap' = NoSnapshot,
         Keeps(files, files', man.nextSegmentId)
  PROVE  /\ SnapSeq' \in {0, SnapSeq}
         /\ snap'.exists => snap' = snap /\ Owns(files', snap'.maps)
<1>1. CASE snap' = snap
  <2>1. snap.exists => Owns(files', snap.maps)
    BY SnapOwned
  <2> QED
    BY <1>1, <2>1 DEF SnapSeq
<1>2. CASE snap' = NoSnapshot
  <2>1. snap'.exists = FALSE
    BY <1>2, Zenon DEF NoSnapshot
  <2> QED
    BY <2>1 DEF SnapSeq
<1> QED
  BY <1>1, <1>2

(* A step that leaves the store closed, or opening. *)
LEMMA ClosedOwn ==
  ASSUME SeqInv, OwnInv, op'.step \in {"down", "reject", "replay"},
         snap' = snap \/ snap' = NoSnapshot, buf' = <<>>,
         Keeps(files, files', man.nextSegmentId),
         \A s \in {0, SnapSeq} : LogGrouped(s)', Judged'
  PROVE  OwnInv'
<1>1. ~ Up'
  BY DEF Up
<1>2. /\ SnapSeq' \in {0, SnapSeq}
      /\ snap'.exists => snap' = snap /\ Owns(files', snap'.maps)
  BY SnapLeft
<1>3. Living'
  BY <1>1 DEF Living
<1>4. \A s \in {0, SnapSeq'} : Grouped(buf', s) /\ LogGrouped(s)'
  BY <1>2, EmptyGrouped
<1>5. Groups'
  BY <1>1, <1>4 DEF Groups
<1> QED
  BY <1>1, <1>2, <1>3, <1>5 DEF OwnInv

LEMMA CrashOwn ==
  ASSUME SegmentsSafe, LogInv, SeqInv, OwnInv, LogInv', Crash
  PROVE  OwnInv'
<1>1. /\ man' = man /\ snap' = snap /\ active' = man.active /\ op' = At("down")
      /\ buf' = <<>>
  BY DEF Crash, Forget
<1>2. op'.step = "down"
  BY <1>1 DEF At
<1>3. PICK tail : Behind(files', files, active, tail) /\ Remains(tail)
  BY CrashLeaves
<1>4. active \in DOMAIN files
  BY CrashLeaves
<1>5. Keeps(files, files', man.nextSegmentId)
  BY <1>3, BehindGrows
<1>6. ASSUME NEW s \in {0, SnapSeq} PROVE LogGrouped(s)'
  <2>1. CASE man.active = active
    <3>1. active \in DOMAIN files'
      BY <1>3, <1>4 DEF Behind
    <3>2. FilesTyped' /\ TornTailOnly(files'[active].recs)
      BY <1>1, <2>1, <3>1 DEF LogInv, DiskTypes, TornAtTail
    <3> QED
      BY <1>3, <1>4, <3>2, BehindLog
  <2>2. CASE man.active # active
    <3>1. op.step = "sealPublish" /\ files[active] = EmptySegment
      BY <2>2 DEF SeqInv, Placed
    <3>2. DOMAIN files[active].recs = {}
      BY <3>1 DEF EmptySegment
    <3>3. Len(tail) <= 0
      BY <1>3, <3>1 DEF LogInv, OpTypes, Remains
    <3>4. DOMAIN files'[active].recs = {}
      BY <1>3, <3>2, <3>3, BehindNothing
    <3>5. ASSUME NEW id \in DOMAIN files' PROVE Grouped(files'[id].recs, s)
      <4>1. CASE id = active
        BY <3>4, <4>1 DEF Grouped
      <4>2. CASE id # active
        <5>1. id \in DOMAIN files /\ files'[id] = files[id]
          BY <1>3, <4>2 DEF Behind
        <5>2. LogGrouped(s)
          BY BufferClear
        <5> QED
          BY <5>1, <5>2 DEF LogGrouped
      <4> QED
        BY <4>1, <4>2
    <3> QED
      BY <3>5 DEF LogGrouped
  <2> QED
    BY <2>1, <2>2
<1>7. Judged'
  BY <1>2 DEF Judged
<1> QED
  BY <1>1, <1>2, <1>5, <1>6, <1>7, ClosedOwn

LEMMA OpenRejectOwn ==
  ASSUME SegmentsSafe, LogInv, SeqInv, OwnInv, OpenReject
  PROVE  OwnInv'
<1>1. /\ op.step = "reject" /\ op' = At("replay") /\ files' = files /\ snap' = snap
      /\ buf' = buf
  BY DEF OpenReject
<1>2. op'.step = "replay"
  BY <1>1 DEF At
<1>3. buf' = <<>>
  BY <1>1 DEF LogInv, OpTypes
<1>4. Keeps(files, files', man.nextSegmentId)
  BY <1>1, FilesGrow
<1>5. \A s \in {0, SnapSeq} : LogGrouped(s)'
  BY <1>1, BufferClear, LogKept
<1>6. Judged'
  BY <1>1, <1>2 DEF OwnInv, Judged
<1> QED
  BY <1>1, <1>2, <1>3, <1>4, <1>5, <1>6, ClosedOwn

(* The segments that stay are as they were, and so is the verdict. *)
LEMMA OpenBeginOwn ==
  ASSUME SegmentsSafe, LogInv, SeqInv, OwnInv, OpenBegin
  PROVE  OwnInv'
<1>1. /\ op.step = "down" /\ man' = man /\ buf' = buf
  BY DEF OpenBegin, memory
<1>2. man.active \in DOMAIN files /\ SealedIds(man) \subseteq DOMAIN files /\ buf = <<>>
  BY <1>1 DEF SegmentsSafe, Durable, SeqInv, Placed, LogInv, OpTypes
<1>3. PICK kept : kept = [id \in DOMAIN files \cap (SealedIds(man) \cup {man.active}) |-> files[id]]
  OBVIOUS
<1>4. man.active \in DOMAIN kept
  BY <1>2, <1>3
<1>5. PICK rejected \in BOOLEAN :
        /\ rejected <=> snap.exists /\ ~ SnapshotAccepted(kept)
        /\ files' = kept
        /\ snap' = (IF rejected THEN NoSnapshot ELSE snap)
        /\ op' = At(IF rejected THEN "reject" ELSE "replay")
  <2> DEFINE opened == IF man.active \in DOMAIN kept THEN kept
                       ELSE Put(kept, man.active, EmptySegment)
             rejected == snap.exists /\ ~ SnapshotAccepted(opened)
  <2>1. /\ files' = opened
        /\ snap' = (IF rejected THEN NoSnapshot ELSE snap)
        /\ op' = At(IF rejected THEN "reject" ELSE "replay")
    BY <1>2, <1>3 DEF OpenBegin
  <2>2. opened = kept
    BY <1>4
  <2> HIDE DEF opened
  <2> QED
    BY <2>1, <2>2
<1>6. DOMAIN files' \subseteq DOMAIN files /\ \A id \in DOMAIN files' : files'[id] = files[id]
  BY <1>3, <1>5
<1>7. Keeps(files, files', man.nextSegmentId)
  BY <1>6 DEF Keeps
<1>8. \A s \in {0, SnapSeq} : LogGrouped(s)'
  BY <1>6, BufferClear, LogKept
<1>9. op'.step = IF rejected THEN "reject" ELSE "replay"
  BY <1>5 DEF At
<1>10. Judged'
  <2>1. CASE rejected
    <3>1. snap' = NoSnapshot /\ op'.step = "reject"
      BY <1>5, <1>9, <2>1
    <3>2. snap'.exists = FALSE
      BY <3>1, Zenon DEF NoSnapshot
    <3> QED
      BY <3>1, <3>2 DEF Judged
  <2>2. CASE ~ rejected
    <3>1. snap' = snap /\ op'.step = "replay" /\ (snap.exists => SnapshotAccepted(kept))
      BY <1>5, <1>9, <2>2, Zenon
    <3>2. SnapshotAccepted(kept) => SnapshotAccepted(files)'
      BY <1>1, <1>5, <3>1 DEF SnapshotAccepted, LocationsFit, Fits
    <3> QED
      BY <3>1, <3>2 DEF Judged
  <2> QED
    BY <2>1, <2>2
<1>11. snap' = snap \/ snap' = NoSnapshot
  BY <1>5
<1> QED
  BY <1>1, <1>2, <1>7, <1>8, <1>9, <1>10, <1>11, ClosedOwn

LEMMA PowerLossOwn ==
  ASSUME SegmentsSafe, LogInv, SeqInv, OwnInv, PowerLoss
  PROVE  OwnInv'
<1>1. op.step = "down" /\ man' = man /\ snap' = snap /\ op' = op /\ buf' = buf
  BY DEF PowerLoss, memory
<1>2. buf' = <<>>
  BY <1>1 DEF LogInv, OpTypes
<1>3. PICK a, fs, gs : a = man.active /\ fs = files /\ gs = files'
  OBVIOUS
<1>4. Shortened(gs, fs, a) /\ Keeps(files, files', man.nextSegmentId)
  BY <1>3, PowerLossLeaves
<1>5. a \in DOMAIN fs
  BY <1>1, <1>3 DEF SeqInv, Placed
<1>6. ASSUME NEW s \in {0, SnapSeq} PROVE LogGrouped(s)'
  <2>1. \A id \in DOMAIN fs : Grouped(fs[id].recs, s)
    BY <1>3, BufferClear DEF LogGrouped
  <2>2. Grouped(gs[a].recs, s)
    <3>1. PICK old, new : old = fs[a].recs /\ new = gs[a].recs
      OBVIOUS
    <3>2. PICK j \in Nat :
            /\ \A i \in 1 .. j : i \in DOMAIN new /\ i \in DOMAIN old /\ new[i] = old[i]
            /\ \A i \in DOMAIN new : i \in Nat \ {0} /\ (IsTorn(new[i]) \/ i \in 1 .. j)
      BY <1>4, <3>1 DEF Shortened
    <3>3. \A i \in DOMAIN new : /\ i \in Nat \ {0}
                                /\ \/ IsTorn(new[i])
                                   \/ i \in DOMAIN old /\ \A p \in 1 .. i : new[p] = old[p]
      BY <3>2
    <3>4. Grouped(old, s)
      BY <1>5, <2>1, <3>1
    <3> QED
      BY <3>1, <3>3, <3>4, GroupedStart
  <2>3. \A id \in DOMAIN gs : Grouped(gs[id].recs, s)
    BY <1>4, <2>1, <2>2 DEF Shortened
  <2> QED
    BY <1>3, <2>3 DEF LogGrouped
<1>7. Judged'
  BY <1>1 DEF Judged
<1> QED
  BY <1>1, <1>2, <1>4, <1>6, <1>7, ClosedOwn

(* What an open starts from: every document there with its parts, in the    *)
(* segments the manifest names, and the log cut by no number but between    *)
(* two writes.                                                              *)
LEMMA BaseOwns ==
  ASSUME LogInv, SeqInv, OwnInv, op.step = "replay", NEW base, base = SnapshotBase
  PROVE  /\ base.seq = SnapSeq /\ LogGrouped(base.seq)
         /\ Owns(files, base.maps)
         /\ Lives(base.maps, SealedIds(man) \cup {man.active})
<1>1. \A s \in {0, SnapSeq} : LogGrouped(s)
  BY BufferClear
<1>2. CASE snap.exists
  <2>1. SnapshotAccepted(files)
    BY <1>2 DEF OwnInv, Judged
  <2>2. base.maps = snap.maps /\ base.seq = snap.seq /\ snap.seq = SnapSeq
    BY <1>2, <2>1 DEF SnapshotBase, SnapSeq
  <2>3. Owns(files, snap.maps)
    BY <1>2 DEF OwnInv
  <2>4. Lives(snap.maps, SealedIds(man) \cup {man.active})
    BY <2>1 DEF SnapshotAccepted, LocationsFit, Fits, Lives
  <2> QED
    BY <1>1, <2>2, <2>3, <2>4
<1>3. CASE ~ snap.exists
  <2>1. base.maps = EmptyMaps /\ base.seq = 0 /\ SnapSeq = 0
    BY <1>3 DEF SnapshotBase, SnapshotAccepted, SnapSeq
  <2>2. DOMAIN EmptyMaps.docs = {}
    BY DEF EmptyMaps
  <2> QED
    BY <1>1, <2>1, <2>2 DEF Owns, Lives
<1> QED
  BY <1>2, <1>3

LEMMA OpenReplayOwn ==
  ASSUME SegmentsSafe, LogInv, SeqInv, OwnInv, OpenReplay
  PROVE  OwnInv'
<1>1. op.step = "replay" /\ man' = man /\ snap' = snap /\ buf' = buf
  BY DEF OpenReplay
<1>2. /\ man.active \in DOMAIN files /\ buf' = <<>>
      /\ DiskTypes /\ FilesTyped /\ files = [id \in DOMAIN files |-> files[id]]
      /\ TornTailOnly(files[man.active].recs)
  BY <1>1 DEF SegmentsSafe, SeqInv, Placed, LogInv, OpTypes, TornAtTail, DiskTypes
<1>3. PICK f, a, k, next, g :
        /\ f = files[man.active] /\ a = man.active
        /\ k = man.nextSegmentId /\ next = RecoveredNextSeq /\ g = Truncated(f)
  OBVIOUS
<1>4. /\ maps' = Recovered /\ m' = [man EXCEPT !.nextSeq = next] /\ active' = a
      /\ op' = At("idle") /\ files' = [files EXCEPT ![a] = g]
  BY <1>1, <1>2, <1>3, NeverDamaged DEF OpenReplay
<1>5. PICK base : base = SnapshotBase
  OBVIOUS
<1>6. /\ next \in Nat /\ base.seq < next /\ base.seq \in Nat /\ base.maps \in AllMaps
      /\ f.recs \in Seq(LogRecords \cup {Torn}) /\ f \in Segments /\ f.synced <= Len(f.recs)
  <2>1. f \in Segments /\ f.synced <= Len(f.recs)
    BY <1>2, <1>3 DEF FilesTyped
  <2> QED
    BY <1>2, <1>3, <1>5, <2>1, NextSeqTyped, BaseTyped DEF Segments
<1>7. PICK fs, gs : fs = files /\ gs = files'
  OBVIOUS
<1>8. /\ DOMAIN gs = DOMAIN fs /\ gs[a] = g /\ fs[a] = f /\ a \in DOMAIN fs
      /\ \A id \in DOMAIN fs : id # a => gs[id] = fs[id]
  <2>1. gs = [fs EXCEPT ![a] = g] /\ fs = [id \in DOMAIN fs |-> fs[id]] /\ a \in DOMAIN fs
    BY <1>2, <1>3, <1>4, <1>7
  <2> QED
    BY <1>3, <1>7, <2>1
<1>9. /\ \A i \in DOMAIN f.recs : ~ IsTorn(f.recs[i]) =>
           /\ i \in DOMAIN g.recs /\ g.recs[i] = f.recs[i]
           /\ i <= f.synced => i <= g.synced
      /\ \A i \in DOMAIN g.recs :
           i \in DOMAIN f.recs /\ ~ IsTorn(f.recs[i]) /\ g.recs[i] = f.recs[i]
  BY <1>2, <1>3, <1>6, TruncatedKeeps
<1>10. Grows(fs, gs, k) /\ Keeps(fs, gs, k)
  BY <1>8, <1>9 DEF Grows, Keeps
<1>11. /\ base.seq = SnapSeq /\ LogGrouped(base.seq) /\ Owns(files, base.maps)
       /\ Lives(base.maps, SealedIds(man) \cup {man.active})
  BY <1>1, <1>5, BaseOwns
<1>12. Owns(gs, maps') /\ Lives(maps', SealedIds(man) \cup {a})
  <2>1. PICK new : new = ReplayFrom(base)
    OBVIOUS
  <2>2. Owns(fs, new) /\ Lives(new, SealedIds(man) \cup {a})
    BY <1>2, <1>3, <1>6, <1>7, <1>11, <2>1, ReplayOwns
  <2>3. Resolve(fs, new, k)
    <3>1. Startable(base) /\ Resolve(files, base.maps, man.nextSegmentId)
      BY <1>2, <1>5, BaseStarts
    <3>2. Resolve(files, ReplayFrom(base), man.nextSegmentId)
      BY <1>2, <1>6, <3>1, ReplayKeeps
    <3> QED
      BY <1>3, <1>7, <2>1, <3>2
  <2>4. Owns(gs, new)
    BY <1>10, <2>2, <2>3, OwnsSame, SameGrows
  <2>5. maps' = new
    BY <1>4, <1>5, <2>1 DEF Recovered
  <2> QED
    BY <2>2, <2>4, <2>5
<1>13. ASSUME NEW s \in {0, SnapSeq} PROVE LogGrouped(s)'
  <2>1. \A id \in DOMAIN fs : Grouped(fs[id].recs, s)
    BY <1>7, BufferClear DEF LogGrouped
  <2>2. Grouped(g.recs, s)
    <3>1. ASSUME NEW j \in DOMAIN g.recs
          PROVE  j \in Nat \ {0} /\ j \in DOMAIN f.recs /\ \A p \in 1 .. j : g.recs[p] = f.recs[p]
      <4>1. PICK D : D = Decoded(f.recs)
        OBVIOUS
      <4>2. PICK N \in Nat : N = Len(f.recs) /\ DOMAIN f.recs = 1 .. N
        BY <1>6, LenProperties
      <4>3. D \in 0 .. N /\ \A i \in DOMAIN f.recs : ~ IsTorn(f.recs[i]) <=> i \in 1 .. D
        BY <1>2, <1>3, <1>6, <4>1, <4>2, WholeKept
      <4>4. j \in DOMAIN f.recs /\ ~ IsTorn(f.recs[j])
        BY <1>9
      <4>5. j \in 1 .. D
        BY <4>3, <4>4
      <4>6. \A p \in 1 .. j : p \in DOMAIN f.recs /\ p \in 1 .. D
        BY <4>2, <4>3, <4>5
      <4>7. \A p \in 1 .. j : g.recs[p] = f.recs[p]
        BY <1>9, <4>3, <4>6
      <4> QED
        BY <4>3, <4>4, <4>5, <4>7
    <3>2. PICK old, new : old = f.recs /\ new = g.recs
      OBVIOUS
    <3>3. Grouped(old, s)
      BY <1>8, <2>1, <3>2
    <3>4. \A j \in DOMAIN new : /\ j \in Nat \ {0}
                                /\ \/ IsTorn(new[j])
                                   \/ j \in DOMAIN old /\ \A p \in 1 .. j : new[p] = old[p]
      BY <3>1, <3>2
    <3> QED
      BY <3>2, <3>3, <3>4, GroupedStart
  <2>3. \A id \in DOMAIN gs : Grouped(gs[id].recs, s)
    BY <1>8, <2>1, <2>2
  <2> QED
    BY <1>7, <2>3 DEF LogGrouped
<1>14. m'.sealed = man.sealed /\ m'.nextSeq = next
  <2>1. man = [x \in ManifestFields |-> man[x]]
    BY DEF SegmentsSafe, WellFormed
  <2> QED
    BY <1>4, <2>1, Zenon DEF ManifestFields
<1>15. SealedIds(m') = SealedIds(man) /\ op'.step = "idle"
  BY <1>4, <1>14 DEF SealedIds, At
<1>16. FirstFree' = next
  <2>1. Len(buf') = 0
    BY <1>2
  <2> QED
    BY <1>6, <1>14, <2>1 DEF FirstFree
<1>17. SnapSeq' = SnapSeq
  BY <1>1 DEF SnapSeq
<1>18. Groups'
  <2>1. \A s \in {0, SnapSeq'} : Grouped(buf', s) /\ LogGrouped(s)'
    BY <1>2, <1>13, <1>17, EmptyGrouped
  <2>2. SnapSeq' < FirstFree'
    BY <1>6, <1>11, <1>16, <1>17
  <2> QED
    BY <2>1, <2>2 DEF Groups
<1>19. Living' /\ Judged'
  <2>1. Lives(maps', SealedIds(m') \cup {active'})
    BY <1>4, <1>12, <1>15
  <2> QED
    BY <1>15, <2>1 DEF Living, Judged
<1>20. snap'.exists => Owns(files', snap'.maps)
  <2>1. Keeps(files, files', man.nextSegmentId)
    BY <1>3, <1>7, <1>10
  <2> QED
    BY <1>1, <2>1, SnapOwned
<1> QED
  BY <1>7, <1>12, <1>18, <1>19, <1>20 DEF OwnInv

-----------------------------------------------------------------------------
(* Every document has its parts *)

LEMMA InitOwn ==
  ASSUME Init
  PROVE  OwnInv
<1>1. /\ files = [id \in {0} |-> EmptySegment] /\ m = NewManifest
      /\ snap = NoSnapshot /\ buf = <<>> /\ maps = EmptyMaps /\ op = At("idle")
  BY DEF Init
<1>2. snap.exists = FALSE
  BY <1>1, Zenon DEF NoSnapshot
<1>3. op.step = "idle" /\ m.nextSeq = 1 /\ Len(buf) = 0
  BY <1>1 DEF At, NewManifest
<1>4. DOMAIN maps.docs = {}
  BY <1>1 DEF EmptyMaps
<1>5. Groups
  <2>1. SnapSeq = 0
    BY <1>2 DEF SnapSeq
  <2>2. FirstFree = 1
    BY <1>3 DEF FirstFree
  <2>3. ASSUME NEW id \in DOMAIN files PROVE files[id].recs = <<>>
    BY <1>1 DEF EmptySegment
  <2>4. \A s : Grouped(buf, s) /\ LogGrouped(s)
    BY <1>1, <2>3, EmptyGrouped DEF LogGrouped
  <2> QED
    BY <2>1, <2>2, <2>4 DEF Groups
<1>6. Living /\ Judged
  BY <1>3, <1>4 DEF Living, Judged, Lives
<1>7. Owns(files, maps)
  BY <1>4 DEF Owns
<1> QED
  BY <1>2, <1>5, <1>6, <1>7, Zenon DEF OwnInv

LEMMA NextOwn ==
  ASSUME SegmentsSafe, LogInv, SeqInv, OwnInv, LogInv', [Next]_vars
  PROVE  OwnInv'
<1>1. CASE Next
  BY <1>1, AppendDocumentOwn, InsertRewindOwn, InsertCommitOwn, AppendDeleteOwn,
     DeleteCommitOwn, SealActiveOwn, SealPublishOwn, FsyncOwn, SnapshotWriteOwn,
     SnapshotPublishOwn, CompactWriteOwn, CompactFailsOwn, CompactUnsnapOwn,
     CompactPublishOwn, CompactRemoveOwn, CrashOwn, PowerLossOwn, OpenBeginOwn,
     OpenRejectOwn, OpenReplayOwn DEF Next
<1>2. CASE UNCHANGED vars
  <2>1. /\ files' = files /\ man' = man /\ snap' = snap /\ m' = m /\ active' = active
        /\ buf' = buf /\ maps' = maps /\ op' = op
    BY <1>2 DEF vars
  <2>2. Up' = Up /\ SnapSeq' = SnapSeq /\ FirstFree' = FirstFree
    BY <2>1 DEF Up, SnapSeq, FirstFree
  <2>3. Groups'
    BY <2>1, <2>2, Zenon DEF OwnInv, Groups, LogGrouped
  <2>4. Living' /\ Judged'
    BY <2>1, <2>2 DEF OwnInv, Living, Carried, InOrder, Judged, SnapshotAccepted,
                      LocationsFit, Fits
  <2> QED
    BY <2>1, <2>2, <2>3, <2>4 DEF OwnInv
<1> QED
  BY <1>1, <1>2

LEMMA OwnInvariant == Spec => []OwnInv
<1>1. SegmentsSafe /\ LogInv /\ SeqInv /\ OwnInv /\ LogInv' /\ [Next]_vars => OwnInv'
  BY NextOwn
<1>2. Init => OwnInv
  BY InitOwn
<1> QED
  BY <1>1, <1>2, SegmentsStaySafe, LogInvariant, SeqInvariant, PTL DEF Spec

(* At every boundary a document's entry, its splits and their summaries      *)
(* point at records of that document, of the right kind and part, all of    *)
(* them written by the one insert whose Doc record the entry names: what    *)
(* was rewound, torn, lost with the power, replaced, sealed, compacted or   *)
(* replayed from a snapshot in between never leaves an entry over another   *)
(* document's record, or over an earlier version's part (store.rs:139-143). *)
THEOREM StoreOwnedResolve == Spec => []OwnedResolve
<1>1. ASSUME SegmentsSafe, SeqInv, OwnInv, op.step = "idle" PROVE OwnedResolve
  <2>1. Up /\ op.step # "compactPublish"
    BY <1>1 DEF Up
  <2>2. SealedIds(m) \cup {active} \subseteq DOMAIN files
    BY <1>1 DEF SegmentsSafe, Durable, ActiveApart
  <2>3. /\ Lives(maps, SealedIds(m) \cup {active}) /\ Owns(files, maps)
        /\ Resolve(files, maps, man.nextSegmentId)
    BY <1>1, <2>1, Zenon DEF OwnInv, Living, SeqInv, References
  <2>4. ASSUME NEW d \in DOMAIN maps.docs
        PROVE  LET e == maps.docs[d]
                   n == Cardinality(e.splits)
                   there(loc) == /\ loc.seg \in DOMAIN files
                                 /\ loc.off \in DOMAIN files[loc.seg].recs
                   is(loc, kind) == /\ there(loc) /\ RecordAt(loc).kind = kind
                                    /\ RecordAt(loc).doc = d
                   part(f, kind, i) ==
                     LET loc == Lookup(f, <<d, i>>)
                     IN  /\ is(loc, kind)
                         /\ RecordAt(loc).part = i
                         /\ e.seq - RecordAt(loc).seq \in 1 .. 2 * n
               IN  /\ is(e.loc, "Doc") /\ RecordAt(e.loc).seq = e.seq
                   /\ \A i \in e.splits : part(maps.splits, "Split", i)
                   /\ \A i \in e.splits \cap OwnedSummaries(e) :
                        part(maps.summaries, "Summary", i)
    <3> DEFINE e == maps.docs[d]
               Part(f, kind, i) ==
                 LET loc == Lookup(f, <<d, i>>)
                 IN  /\ loc.seg \in DOMAIN files /\ loc.off \in DOMAIN files[loc.seg].recs
                     /\ RecordAt(loc).kind = kind /\ RecordAt(loc).doc = d
                     /\ RecordAt(loc).part = i
                     /\ e.seq - RecordAt(loc).seq \in 1 .. 2 * Cardinality(e.splits)
    <3>1. e.loc.seg \in DOMAIN files
      BY <2>2, <2>3 DEF Lives
    <3>2. HasParts(files, maps.splits, d, e) /\ HasParts(files, maps.summaries, d, e)
      BY <2>3 DEF Owns, Owned
    <3>3. PICK x : x = Ref("Doc", d, e.seq, e.loc)
      OBVIOUS
    <3>4. x \in Refs(maps) /\ x.loc = e.loc /\ x.kind = "Doc" /\ x.doc = d /\ x.mark = e.seq
      <4>1. Ref("Doc", d, e.seq, e.loc) \in Refs(maps)
        BY DocRefIn
      <4> HIDE DEF e, Part
      <4>2. /\ x.loc = e.loc /\ x.kind = "Doc" /\ x.doc = d /\ x.mark = e.seq
        BY <3>3, RefLoc
      <4> QED
        BY <3>3, <4>1, <4>2
    <3>5. /\ e.loc.off \in DOMAIN files[e.loc.seg].recs
          /\ RecordAt(e.loc).kind = "Doc" /\ RecordAt(e.loc).doc = d
          /\ RecordAt(e.loc).seq = e.seq
      BY <2>3, <3>1, <3>4 DEF Resolve, Right, Meant, RecordAt
    <3>6. ASSUME NEW f, NEW kind \in {"Split", "Summary"}, NEW i \in e.splits,
                 HasParts(files, f, d, e),
                 <<d, i>> \in DOMAIN f => Ref(kind, d, i, f[<<d, i>>]) \in Refs(maps)
          PROVE  Part(f, kind, i)
      <4>1. PICK k : k = <<d, i>>
        OBVIOUS
      <4>2. PICK loc : loc = f[k]
        OBVIOUS
      <4>3. /\ k \in DOMAIN f /\ loc.seg = e.loc.seg
            /\ Close(e.seq, e.splits, files[e.loc.seg].recs[loc.off])
        BY <3>1, <3>6, <4>1, <4>2 DEF HasParts
      <4>4. PICK y : y = Ref(kind, d, i, loc)
        OBVIOUS
      <4>5. y \in Refs(maps) /\ y.loc = loc /\ y.kind = kind /\ y.doc = d /\ y.mark = i
        <5>1. y \in Refs(maps)
          BY <3>6, <4>1, <4>2, <4>3, <4>4, Zenon
        <5>2. y.loc = loc /\ y.kind = kind /\ y.doc = d /\ y.mark = i
          BY <4>4, RefLoc
        <5> QED
          BY <5>1, <5>2
      <4>6. /\ loc.seg \in DOMAIN files /\ loc.off \in DOMAIN files[loc.seg].recs
            /\ RecordAt(loc).kind = kind /\ RecordAt(loc).doc = d /\ RecordAt(loc).part = i
        <5>1. Right(files, y) /\ loc.seg \in DOMAIN files
          BY <2>3, <3>1, <4>3, <4>5, Zenon DEF Resolve
        <5>2. y.kind # "Doc"
          BY <4>5
        <5> QED
          BY <4>5, <5>1, <5>2, Zenon DEF Right, Meant, RecordAt
      <4>7. e.seq - RecordAt(loc).seq \in 1 .. 2 * Cardinality(e.splits)
        BY <4>3 DEF Close, RecordAt
      <4>8. Lookup(f, <<d, i>>) = loc
        BY <4>1, <4>2, <4>3 DEF Lookup
      <4> QED
        BY <4>6, <4>7, <4>8
    <3> HIDE DEF e
    <3>7. ASSUME NEW i \in e.splits
          PROVE  Part(maps.splits, "Split", i) /\ Part(maps.summaries, "Summary", i)
      <4>1. /\ <<d, i>> \in DOMAIN maps.splits =>
                 Ref("Split", d, i, maps.splits[<<d, i>>]) \in Refs(maps)
            /\ <<d, i>> \in DOMAIN maps.summaries =>
                 Ref("Summary", d, i, maps.summaries[<<d, i>>]) \in Refs(maps)
        BY PartRefIn
      <4> HIDE DEF Part
      <4> QED
        BY <3>2, <3>6, <4>1
    <3> QED
      BY <3>1, <3>5, <3>7 DEF e
  <2> QED
    BY <2>4 DEF OwnedResolve
<1>2. SegmentsSafe /\ SeqInv /\ OwnInv => OwnedResolve
  <2>1. op.step # "idle" => OwnedResolve
    BY DEF OwnedResolve
  <2> QED
    BY <1>1, <2>1
<1> QED
  BY <1>2, SegmentsStaySafe, SeqInvariant, OwnInvariant, PTL

-----------------------------------------------------------------------------
(* What the log says of the documents: the invariant *)

(* The places of the whole records of the segments ids. *)
LogOf(fs, ids) == {x \in Locs : x.seg \in ids /\ x.off \in Slots(fs, x.seg)}
RecOf(fs, x) == fs[x.seg].recs[x.off]

(* The records that say whether a document is there. *)
Decisive(r) == r.kind \in {"Doc", "DeleteDoc"}
Decides(fs, x, d) == Decisive(RecOf(fs, x)) /\ RecOf(fs, x).doc = d

(* Of the places P, x has the last word on d. *)
LastOn(fs, P, d, x) ==
  /\ x \in P /\ Decides(fs, x, d)
  /\ \A y \in P : Decides(fs, y, d) => y = x \/ RecOf(fs, y).seq < RecOf(fs, x).seq

(* It says that d is there. *)
Final(fs, P, d, x) == LastOn(fs, P, d, x) /\ RecOf(fs, x).kind = "Doc"

(* The maps have the documents that the records at P leave, where they are. *)
Agrees(fs, P, mp) ==
  /\ \A d \in DOMAIN mp.docs : Final(fs, P, d, mp.docs[d].loc)
  /\ \A d, x : Final(fs, P, d, x) => d \in DOMAIN mp.docs

(* The log that the manifest on disk names, and what of it s covers. *)
LogIds == SealedIds(man) \cup {man.active}
Log == LogOf(files, LogIds)
UpTo(fs, P, s) == {x \in P : RecOf(fs, x).seq <= s}

(* A segment's records about one document are in the order of their numbers. *)
InTurn(fs, id) ==
  \A i, j \in Slots(fs, id) :
    LET r == fs[id].recs[i]
        t == fs[id].recs[j]
    IN  i < j /\ Decisive(r) /\ Decisive(t) /\ r.doc = t.doc => r.seq < t.seq

(* The sealed segments, in manifest order, and what the manifest says of    *)
(* their numbers.                                                           *)
Rising(fs, sealed) ==
  /\ \A i \in 1 .. Len(sealed) :
       /\ InTurn(fs, sealed[i].id) /\ sealed[i].last \in Nat
       /\ \A p \in Slots(fs, sealed[i].id) : SeqAt(fs, sealed[i].id, p) <= sealed[i].last
  /\ \A i, j \in 1 .. Len(sealed) : i < j =>
       \A p \in Slots(fs, sealed[i].id), q \in Slots(fs, sealed[j].id) :
         SeqAt(fs, sealed[i].id, p) < SeqAt(fs, sealed[j].id, q)

(* last_seq covers what the active segment and the buffer hold. *)
Latest ==
  Up => /\ \A i \in Slots(files, active) : SeqAt(files, active, i) <= lastSeq
        /\ \A i \in 1 .. Len(buf) : buf[i].seq <= lastSeq

(* How far apart the two manifests may be. *)
Apart ==
  /\ Up /\ op.step \notin {"sealPublish", "compactPublish"} => SealedIds(m) = SealedIds(man)
  /\ op.step = "sealPublish" => SealedIds(m) = SealedIds(man) \cup {man.active}
  /\ op.step = "compactPublish" => /\ ~ snap.exists
                                   /\ SealedIds(m) = IF op.order = <<>> THEN {} ELSE {op.seg}

(* What a compaction copies is what the maps refer to. *)
Chosen ==
  op.step \in {"compactUnsnap", "compactPublish"} =>
    \A i \in 1 .. Len(op.order) : \E x \in Refs(maps) : x.loc = op.order[i]

(* What the snapshot covers of the active segment is on the device. *)
Covered ==
  snap.exists =>
    \A i \in Slots(files, man.active) :
      SeqAt(files, man.active, i) <= snap.seq => i <= files[man.active].synced

AgreeInv ==
  /\ Rising(files, man.sealed) /\ Rising(files, m.sealed)
  /\ Latest
  /\ Apart
  /\ Chosen
  /\ Covered
  /\ Up => Agrees(files, Log, maps)
  /\ snap.exists => Agrees(files, UpTo(files, Log, snap.seq), snap.maps)

-----------------------------------------------------------------------------
(* The last word on a document *)

(* The records at P have numbers. *)
Counted(fs, P) == \A x \in P : RecOf(fs, x).seq \in Nat

LEMMA LastUnique ==
  ASSUME NEW fs, NEW P, Counted(fs, P), NEW d, NEW x, NEW y, LastOn(fs, P, d, x),
         LastOn(fs, P, d, y)
  PROVE  x = y
<1>1. x \in P /\ y \in P /\ Decides(fs, x, d) /\ Decides(fs, y, d)
  BY DEF LastOn
<1>2. y = x \/ RecOf(fs, y).seq < RecOf(fs, x).seq
  BY <1>1 DEF LastOn
<1>3. y = x \/ RecOf(fs, x).seq < RecOf(fs, y).seq
  BY <1>1 DEF LastOn
<1>4. RecOf(fs, x).seq \in Nat /\ RecOf(fs, y).seq \in Nat
  BY <1>1 DEF Counted
<1> QED
  BY <1>2, <1>3, <1>4

(* The deciding records at P are at Q as well, the same ones. *)
Kept(fs, P, gs, Q) ==
  \A x \in P : Decisive(RecOf(fs, x)) => x \in Q /\ RecOf(gs, x) = RecOf(fs, x)

LEMMA LastKept ==
  ASSUME NEW fs, NEW gs, NEW P, NEW Q, Kept(fs, P, gs, Q), Kept(gs, Q, fs, P),
         NEW d, NEW x, LastOn(fs, P, d, x)
  PROVE  LastOn(gs, Q, d, x) /\ RecOf(gs, x) = RecOf(fs, x)
<1>1. x \in P /\ Decides(fs, x, d)
  BY DEF LastOn
<1>2. x \in Q /\ RecOf(gs, x) = RecOf(fs, x)
  BY <1>1 DEF Kept, Decides
<1>3. ASSUME NEW y \in Q, Decides(gs, y, d)
      PROVE  y = x \/ RecOf(gs, y).seq < RecOf(gs, x).seq
  <2>1. y \in P /\ RecOf(fs, y) = RecOf(gs, y)
    BY <1>3 DEF Kept, Decides
  <2>2. Decides(fs, y, d)
    BY <1>3, <2>1 DEF Decides
  <2>3. y = x \/ RecOf(fs, y).seq < RecOf(fs, x).seq
    BY <2>1, <2>2 DEF LastOn
  <2> QED
    BY <1>2, <2>1, <2>3
<1>4. Decides(gs, x, d)
  BY <1>1, <1>2 DEF Decides
<1> QED
  BY <1>2, <1>3, <1>4 DEF LastOn

(* The same deciding records say the same. *)
LEMMA AgreesSame ==
  ASSUME NEW fs, NEW gs, NEW P, NEW Q, NEW mp, Agrees(fs, P, mp),
         Kept(fs, P, gs, Q), Kept(gs, Q, fs, P)
  PROVE  Agrees(gs, Q, mp)
<1>1. ASSUME NEW d \in DOMAIN mp.docs PROVE Final(gs, Q, d, mp.docs[d].loc)
  BY LastKept DEF Agrees, Final
<1>2. ASSUME NEW d, NEW x, Final(gs, Q, d, x) PROVE d \in DOMAIN mp.docs
  <2>1. LastOn(fs, P, d, x) /\ RecOf(fs, x) = RecOf(gs, x)
    BY <1>2, LastKept DEF Final
  <2>2. Final(fs, P, d, x)
    BY <1>2, <2>1 DEF Final
  <2> QED
    BY <2>2 DEF Agrees
<1> QED
  BY <1>1, <1>2 DEF Agrees

(* Of the deciding records at Q, only those on d are not at P. *)
Turns(fs, P, gs, Q, d) ==
  /\ Kept(fs, P, gs, Q)
  /\ Kept(gs, {y \in Q : RecOf(gs, y).doc # d}, fs, P)

LEMMA LastElsewhere ==
  ASSUME NEW fs, NEW gs, NEW P, NEW Q, NEW d, Turns(fs, P, gs, Q, d), NEW c, c # d, NEW x
  PROVE  /\ LastOn(fs, P, c, x) => LastOn(gs, Q, c, x) /\ RecOf(gs, x) = RecOf(fs, x)
         /\ LastOn(gs, Q, c, x) => LastOn(fs, P, c, x) /\ RecOf(gs, x) = RecOf(fs, x)
<1>1. ASSUME NEW y \in Q, Decides(gs, y, c)
      PROVE  y \in P /\ RecOf(fs, y) = RecOf(gs, y) /\ Decides(fs, y, c)
  BY <1>1 DEF Turns, Kept, Decides
<1>2. ASSUME NEW y \in P, Decides(fs, y, c)
      PROVE  y \in Q /\ RecOf(gs, y) = RecOf(fs, y) /\ Decides(gs, y, c)
  BY <1>2 DEF Turns, Kept, Decides
<1>3. ASSUME LastOn(fs, P, c, x) PROVE LastOn(gs, Q, c, x) /\ RecOf(gs, x) = RecOf(fs, x)
  <2>1. x \in P /\ Decides(fs, x, c)
    BY <1>3 DEF LastOn
  <2>2. x \in Q /\ RecOf(gs, x) = RecOf(fs, x) /\ Decides(gs, x, c)
    BY <1>2, <2>1
  <2>3. ASSUME NEW y \in Q, Decides(gs, y, c)
        PROVE  y = x \/ RecOf(gs, y).seq < RecOf(gs, x).seq
    <3>1. y \in P /\ RecOf(fs, y) = RecOf(gs, y) /\ Decides(fs, y, c)
      BY <1>1, <2>3
    <3>2. y = x \/ RecOf(fs, y).seq < RecOf(fs, x).seq
      BY <1>3, <3>1 DEF LastOn
    <3> QED
      BY <2>2, <3>1, <3>2
  <2> QED
    BY <2>2, <2>3 DEF LastOn
<1>4. ASSUME LastOn(gs, Q, c, x) PROVE LastOn(fs, P, c, x) /\ RecOf(gs, x) = RecOf(fs, x)
  <2>1. x \in Q /\ Decides(gs, x, c)
    BY <1>4 DEF LastOn
  <2>2. x \in P /\ RecOf(fs, x) = RecOf(gs, x) /\ Decides(fs, x, c)
    BY <1>1, <2>1
  <2>3. ASSUME NEW y \in P, Decides(fs, y, c)
        PROVE  y = x \/ RecOf(fs, y).seq < RecOf(fs, x).seq
    <3>1. y \in Q /\ RecOf(gs, y) = RecOf(fs, y) /\ Decides(gs, y, c)
      BY <1>2, <2>3
    <3>2. y = x \/ RecOf(gs, y).seq < RecOf(gs, x).seq
      BY <1>4, <3>1 DEF LastOn
    <3> QED
      BY <2>2, <3>1, <3>2
  <2> QED
    BY <2>2, <2>3 DEF LastOn
<1> QED
  BY <1>3, <1>4

(* What a Doc record, or a DeleteDoc, with the last word on d does. *)
LEMMA AgreesTurned ==
  ASSUME NEW fs, NEW gs, NEW P, NEW Q, NEW mp, NEW new, NEW d, NEW x, Agrees(fs, P, mp),
         Turns(fs, P, gs, Q, d), Counted(gs, Q), LastOn(gs, Q, d, x),
         DOMAIN new.docs \ {d} = DOMAIN mp.docs \ {d},
         \A c \in DOMAIN mp.docs \ {d} : new.docs[c].loc = mp.docs[c].loc,
         d \in DOMAIN new.docs <=> RecOf(gs, x).kind = "Doc",
         d \in DOMAIN new.docs => new.docs[d].loc = x
  PROVE  Agrees(gs, Q, new)
<1>1. ASSUME NEW c \in DOMAIN new.docs PROVE Final(gs, Q, c, new.docs[c].loc)
  <2>1. CASE c = d
    BY <1>1, <2>1 DEF Final
  <2>2. CASE c # d
    <3>1. c \in DOMAIN mp.docs /\ new.docs[c].loc = mp.docs[c].loc
      BY <1>1, <2>2
    <3>2. Final(fs, P, c, mp.docs[c].loc)
      BY <3>1 DEF Agrees
    <3> QED
      BY <2>2, <3>1, <3>2, LastElsewhere DEF Final
  <2> QED
    BY <2>1, <2>2
<1>2. ASSUME NEW c, NEW y, Final(gs, Q, c, y) PROVE c \in DOMAIN new.docs
  <2>1. CASE c = d
    <3>1. y = x
      BY <1>2, <2>1, LastUnique DEF Final
    <3> QED
      BY <1>2, <2>1, <3>1 DEF Final
  <2>2. CASE c # d
    <3>1. LastOn(fs, P, c, y) /\ RecOf(gs, y) = RecOf(fs, y)
      BY <1>2, <2>2, LastElsewhere DEF Final
    <3>2. Final(fs, P, c, y)
      BY <1>2, <3>1 DEF Final
    <3>3. c \in DOMAIN mp.docs
      BY <3>2 DEF Agrees
    <3> QED
      BY <2>2, <3>3
  <2> QED
    BY <2>1, <2>2
<1> QED
  BY <1>1, <1>2 DEF Agrees

-----------------------------------------------------------------------------
(* What replay makes of a log *)

LEMMA LogIn ==
  ASSUME NEW fs, NEW ids, NEW x
  PROVE  x \in LogOf(fs, ids) <=> x \in Locs /\ x.seg \in ids /\ x.off \in Slots(fs, x.seg)
  BY DEF LogOf

LEMMA LocEqual ==
  ASSUME NEW x \in Locs, NEW y \in Locs, x.seg = y.seg, x.off = y.off
  PROVE  x = y
  BY DEF Locs

(* A record with the last word on d, at loc, makes new of mp. *)
Turned(new, mp, d, kind, loc) ==
  /\ DOMAIN new.docs \ {d} = DOMAIN mp.docs \ {d}
  /\ \A c \in DOMAIN mp.docs \ {d} : new.docs[c].loc = mp.docs[c].loc
  /\ d \in DOMAIN new.docs <=> kind = "Doc"
  /\ d \in DOMAIN new.docs => new.docs[d].loc = loc

LEMMA RemoveTurns ==
  ASSUME NEW mp, NEW d, NEW loc
  PROVE  Turned(RemoveDoc(mp, d), mp, d, "DeleteDoc", loc)
<1>1. CASE d \notin DOMAIN mp.docs
  BY <1>1 DEF RemoveDoc, Turned
<1>2. CASE d \in DOMAIN mp.docs
  <2>1. RemoveDoc(mp, d).docs = Without(mp.docs, {d})
    BY <1>2 DEF RemoveDoc
  <2> QED
    BY <2>1 DEF Turned, Without
<1> QED
  BY <1>1, <1>2

LEMMA PutTurns ==
  ASSUME NEW mp, NEW d, NEW entry, NEW s, NEW t
  PROVE  Turned(PutDoc(RemoveDoc(mp, d), d, entry, s, t), mp, d, "Doc", entry.loc)
<1>1. PICK rest : rest = RemoveDoc(mp, d)
  OBVIOUS
<1>2. Turned(rest, mp, d, "DeleteDoc", entry.loc)
  BY <1>1, RemoveTurns
<1>3. PutDoc(rest, d, entry, s, t).docs = Put(rest.docs, d, entry)
  BY DEF PutDoc
<1>4. PICK new : new = PutDoc(rest, d, entry, s, t)
  OBVIOUS
<1>5. new.docs = [x \in DOMAIN rest.docs \cup {d} |-> IF x = d THEN entry ELSE rest.docs[x]]
  BY <1>3, <1>4 DEF Put
<1>6. Turned(new, mp, d, "Doc", entry.loc)
  BY <1>2, <1>5 DEF Turned
<1> QED
  BY <1>1, <1>4, <1>6

LEMMA ApplyTurns ==
  ASSUME NEW mp, NEW pending, NEW r \in LogRecords, NEW loc
  PROVE  IF Decisive(r) THEN Turned(Apply(mp, pending, r, loc).maps, mp, r.doc, r.kind, loc)
         ELSE Apply(mp, pending, r, loc).maps = mp
<1>1. r.kind \in {"Split", "Summary", "DeleteDoc", "Doc"}
  BY DEF LogRecords, PartRecords, DeleteRecords, DocRecords
<1>2. CASE r.kind \in {"Split", "Summary"}
  BY <1>2 DEF Apply, Decisive
<1>3. CASE r.kind = "DeleteDoc"
  <2>1. Apply(mp, pending, r, loc).maps = RemoveDoc(mp, r.doc)
    BY <1>3 DEF Apply
  <2> QED
    BY <1>3, <2>1, RemoveTurns DEF Decisive
<1>4. CASE r.kind = "Doc"
  <2>1. Apply(mp, pending, r, loc) = CommitDoc(mp, pending, r, loc)
    BY <1>4 DEF Apply
  <2>2. \E entry, s, t : /\ entry.loc = loc
                         /\ CommitDoc(mp, pending, r, loc).maps =
                              PutDoc(RemoveDoc(mp, r.doc), r.doc, entry, s, t)
    BY DEF CommitDoc
  <2> QED
    BY <1>4, <2>1, <2>2, PutTurns DEF Decisive
<1> QED
  BY <1>1, <1>2, <1>3, <1>4

(* The places of P, and those of seg up to the i-th. *)
With(fs, P, seg, i) == P \cup {x \in LogOf(fs, {seg}) : x.off <= i}

(* What segment seg adds to P above s comes behind what P has. *)
Ahead(fs, P, seg, s) ==
  \A x \in LogOf(fs, {seg}) :
    IF RecOf(fs, x).seq > s
    THEN \A y \in P : Decisive(RecOf(fs, y)) => RecOf(fs, y).seq < RecOf(fs, x).seq
    ELSE x \in P

(* One record of a scan. *)
LEMMA AgreesStep ==
  ASSUME NEW fs, NEW P, NEW seg \in Nat, NEW s \in Nat, NEW i \in Nat \ {0}, NEW st,
         NEW r \in LogRecords, i \in Slots(fs, seg), fs[seg].recs[i] = r, r.seq > s,
         InTurn(fs, seg), Counted(fs, P), Counted(fs, LogOf(fs, {seg})), Ahead(fs, P, seg, s),
         Agrees(fs, With(fs, P, seg, i - 1), st.maps)
  PROVE  Agrees(fs, With(fs, P, seg, i),
                Apply(st.maps, st.pending, r, [seg |-> seg, off |-> i]).maps)
<1>1. PICK x \in Locs : x = [seg |-> seg, off |-> i]
  BY DEF Locs
<1>2. PICK A : A = With(fs, P, seg, i - 1)
  OBVIOUS
<1>3. PICK B : B = With(fs, P, seg, i)
  OBVIOUS
<1>4. x.seg = seg /\ x.off = i /\ x \in LogOf(fs, {seg}) /\ RecOf(fs, x) = r
  BY <1>1, LogIn DEF RecOf
<1>5. ASSUME NEW y PROVE y \in B <=> y \in A \/ y = x
  <2>1. ASSUME y \in LogOf(fs, {seg})
        PROVE  y.off <= i <=> y.off <= i - 1 \/ y = x
    <3>1. y \in Locs /\ y.seg = seg /\ y.off \in Nat
      BY <2>1, LogIn DEF Locs
    <3>2. y.off = i => y = x
      BY <1>4, <3>1, LocEqual
    <3> QED
      BY <1>4, <3>1, <3>2
  <2>2. x.off <= i
    BY <1>4
  <2> QED
    BY <1>2, <1>3, <1>4, <2>1, <2>2 DEF With
<1>6. Counted(fs, B)
  BY <1>3 DEF Counted, With
<1>7. PICK new : new = Apply(st.maps, st.pending, r, x).maps
  OBVIOUS
<1>8. Agrees(fs, A, st.maps)
  BY <1>2
<1>9. CASE ~ Decisive(r)
  <2>1. new = st.maps
    BY <1>7, <1>9, ApplyTurns
  <2>2. Kept(fs, A, fs, B) /\ Kept(fs, B, fs, A)
    BY <1>4, <1>5, <1>9 DEF Kept
  <2>3. Agrees(fs, B, new)
    BY <1>8, <2>1, <2>2, AgreesSame
  <2> QED
    BY <1>1, <1>3, <1>7, <2>3
<1>10. CASE Decisive(r)
  <2>1. Turned(new, st.maps, r.doc, r.kind, x)
    BY <1>7, <1>10, ApplyTurns
  <2>2. Kept(fs, A, fs, B)
    BY <1>5 DEF Kept
  <2>3. Kept(fs, {y \in B : RecOf(fs, y).doc # r.doc}, fs, A)
    BY <1>4, <1>5 DEF Kept
  <2>4. Turns(fs, A, fs, B, r.doc)
    BY <2>2, <2>3 DEF Turns
  <2>5. ASSUME NEW y \in B, Decides(fs, y, r.doc)
        PROVE  y = x \/ RecOf(fs, y).seq < RecOf(fs, x).seq
    <3>1. CASE y \in P
      BY <1>4, <2>5, <3>1 DEF Ahead, Decides
    <3>2. CASE y \in LogOf(fs, {seg}) /\ y.off <= i - 1
      <4>1. y.seg = seg /\ y.off \in Slots(fs, seg) /\ y.off \in Nat
        BY <3>2, LogIn DEF Locs
      <4>2. y.off < i
        BY <3>2, <4>1
      <4>3. PICK j \in Slots(fs, seg) : j = y.off /\ j < i
        BY <4>1, <4>2
      <4>4. RecOf(fs, y) = fs[seg].recs[j]
        BY <4>1, <4>3 DEF RecOf
      <4>5. Decisive(fs[seg].recs[j]) /\ fs[seg].recs[j].doc = r.doc
        BY <2>5, <4>4 DEF Decides
      <4>6. fs[seg].recs[j].seq < fs[seg].recs[i].seq
        BY <1>10, <4>3, <4>5 DEF InTurn
      <4> QED
        BY <1>4, <4>4, <4>6
    <3> QED
      BY <1>2, <1>5, <2>5, <3>1, <3>2 DEF With
  <2>6. LastOn(fs, B, r.doc, x)
    BY <1>4, <1>5, <1>10, <2>5 DEF LastOn, Decides
  <2>7. Agrees(fs, B, new)
    <3>1. PICK mp, d : mp = st.maps /\ d = r.doc
      OBVIOUS
    <3>2. Turned(new, mp, d, RecOf(fs, x).kind, x) /\ Agrees(fs, A, mp)
          /\ Turns(fs, A, fs, B, d) /\ LastOn(fs, B, d, x)
      BY <1>4, <1>8, <2>1, <2>4, <2>6, <3>1
    <3> QED
      BY <1>6, <3>2, AgreesTurned DEF Turned
  <2> QED
    BY <1>1, <1>3, <1>7, <2>7
<1> QED
  BY <1>9, <1>10

LEMMA ScanAgrees ==
  ASSUME NEW fs, NEW mp \in AllMaps, NEW seg \in Nat, NEW s \in Nat, NEW P,
         fs[seg].recs \in Seq(LogRecords \cup {Torn}), TornTailOnly(fs[seg].recs),
         InTurn(fs, seg), Counted(fs, P), Ahead(fs, P, seg, s), Agrees(fs, P, mp)
  PROVE  Agrees(fs, P \cup LogOf(fs, {seg}), ScanSegment(mp, seg, fs[seg].recs, s))
<1> DEFINE recs == fs[seg].recs
           good == Decodable(recs)
           N == Len(good)
<1>1. PICK f \in [0 .. N -> Scans] :
        ScansFrom(f, mp, seg, good, s) /\ ScanSegment(mp, seg, recs, s) = f[N].maps
  <2>1. recs \in Seq(LogRecords \cup {Torn})
    OBVIOUS
  <2> HIDE DEF recs
  <2> QED
    BY <2>1, ScanEquation
<1>2. /\ N \in Nat /\ \A i \in 1 .. N : good[i] = recs[i] /\ good[i] \in LogRecords
      /\ \A i : i \in Slots(fs, seg) <=> i \in 1 .. N
  <2>1. PICK q \in Seq(LogRecords \cup {Torn}) : q = recs
    OBVIOUS
  <2>2. /\ Decodable(q) \in Seq(LogRecords) /\ Len(Decodable(q)) = Decoded(q)
        /\ \A i \in 1 .. Decoded(q) : Decodable(q)[i] = q[i]
        /\ Decoded(q) \in 0 .. Len(q)
    BY DecodableTyped, DecodedFacts
  <2>3. /\ \A i \in DOMAIN q : ~ IsTorn(q[i]) <=> i \in 1 .. Decoded(q)
        /\ \A i \in 1 .. Decoded(q) : i \in DOMAIN q
    BY <2>1, WholeKept
  <2>4. \A i \in 1 .. Len(Decodable(q)) : Decodable(q)[i] \in LogRecords
    BY <2>2, ElementOfSeq
  <2>5. Len(Decodable(q)) \in Nat
    BY <2>2, LenProperties
  <2> QED
    BY <2>1, <2>2, <2>3, <2>4, <2>5 DEF Slots
<1> HIDE DEF recs, good, N
<1>3. Counted(fs, LogOf(fs, {seg}))
  <2>1. ASSUME NEW x \in LogOf(fs, {seg}) PROVE RecOf(fs, x).seq \in Nat
    <3>1. x.seg = seg /\ x.off \in 1 .. N
      BY <1>2, LogIn
    <3>2. RecOf(fs, x) \in LogRecords
      BY <1>2, <3>1 DEF RecOf, recs
    <3> QED
      BY <3>2, RecordKinds
  <2> QED
    BY <2>1 DEF Counted
<1> DEFINE T == {i \in 0 .. N : Agrees(fs, With(fs, P, seg, i), f[i].maps)}
<1>4. 0 \in T
  <2>1. With(fs, P, seg, 0) = P
    <3>1. \A x \in LogOf(fs, {seg}) : ~ (x.off <= 0)
      BY <1>2, LogIn
    <3> QED
      BY <3>1 DEF With
  <2>2. f[0].maps = mp
    BY <1>1 DEF ScansFrom
  <2> QED
    BY <1>2, <2>1, <2>2
<1>5. ASSUME NEW i \in 1 .. N, i - 1 \in T PROVE i \in T
  <2>1. i \in 0 .. N /\ i \in Nat \ {0} /\ i \in Slots(fs, seg) /\ recs[i] \in LogRecords
    BY <1>2
  <2>2. Agrees(fs, With(fs, P, seg, i - 1), f[i - 1].maps)
    BY <1>5
  <2>3. CASE good[i].seq > s
    <3>1. f[i] = Apply(f[i - 1].maps, f[i - 1].pending, good[i], [seg |-> seg, off |-> i])
      BY <1>1, <2>3 DEF ScansFrom, N
    <3>2. PICK st, r \in LogRecords : st = f[i - 1] /\ r = good[i]
      BY <1>2, <2>1
    <3>3. fs[seg].recs[i] = r /\ r.seq > s /\ Agrees(fs, With(fs, P, seg, i - 1), st.maps)
      BY <1>2, <2>2, <2>3, <3>2 DEF recs
    <3>4. Agrees(fs, With(fs, P, seg, i),
                 Apply(st.maps, st.pending, r, [seg |-> seg, off |-> i]).maps)
      BY <1>3, <2>1, <3>3, AgreesStep
    <3> QED
      BY <2>1, <3>1, <3>2, <3>4
  <2>4. CASE ~ (good[i].seq > s)
    <3>1. f[i] = f[i - 1]
      BY <1>1, <2>4 DEF ScansFrom, N
    <3>2. ASSUME NEW x \in LogOf(fs, {seg}), x.off <= i PROVE x \in With(fs, P, seg, i - 1)
      <4>1. x.seg = seg /\ x.off \in Nat
        BY <3>2, LogIn DEF Locs
      <4>2. CASE x.off = i
        <5>1. ~ (RecOf(fs, x).seq > s)
          BY <1>2, <2>4, <4>1, <4>2 DEF RecOf, recs
        <5> QED
          BY <5>1 DEF Ahead, With
      <4>3. CASE x.off # i
        BY <2>1, <3>2, <4>1, <4>3 DEF With
      <4> QED
        BY <4>2, <4>3
    <3>3. \A x \in LogOf(fs, {seg}) : x.off <= i - 1 => x.off <= i
      BY <2>1, LogIn DEF Locs
    <3>4. With(fs, P, seg, i) = With(fs, P, seg, i - 1)
      BY <3>2, <3>3 DEF With
    <3> QED
      BY <2>1, <2>2, <3>1, <3>4
  <2> QED
    BY <2>3, <2>4
<1>6. N \in T
  <2> HIDE DEF T
  <2> QED
    BY <1>2, <1>4, <1>5, StepInduction
<1>7. With(fs, P, seg, N) = P \cup LogOf(fs, {seg})
  BY <1>2, LogIn DEF With
<1> QED
  BY <1>1, <1>6, <1>7 DEF recs

LEMMA LogCounted ==
  ASSUME SegmentsSafe, LogInv, NEW ids \in SUBSET DOMAIN files
  PROVE  Counted(files, LogOf(files, ids))
<1>1. ASSUME NEW x \in LogOf(files, ids) PROVE RecOf(files, x).seq \in Nat
  <2>1. x.seg \in DOMAIN files /\ x.off \in Slots(files, x.seg)
    BY LogIn
  <2> QED
    BY <2>1, SlotsTyped DEF RecOf, SeqAt
<1> QED
  BY <1>1 DEF Counted

(* Replay adds to a base that agrees with what it covers all the rest. *)
LEMMA ReplayAgreeing ==
  ASSUME SegmentsSafe, LogInv, SeqInv, man.active \in DOMAIN files, NEW base,
         base.maps \in AllMaps, base.seq \in Nat, Rising(files, man.sealed),
         Agrees(files, UpTo(files, Log, base.seq), base.maps)
  PROVE  Agrees(files, Log, ReplayFrom(base))
<1>1. PICK fs : fs = files
  OBVIOUS
<1>2. PICK s \in Nat : s = base.seq
  OBVIOUS
<1>3. PICK sealed : sealed = man.sealed
  OBVIOUS
<1>4. PICK N \in Nat : N = Len(sealed)
  BY <1>3, NamedFiles DEF LogInv
<1>5. PICK P : P = UpTo(fs, Log, s)
  OBVIOUS
<1>6. PICK g \in [0 .. N -> AllMaps] :
        /\ ReplaysSealed(g, base)
        /\ ReplayFrom(base) =
             ScanSegment(g[N], man.active, files[man.active].recs, base.seq)
  BY <1>3, <1>4, ReplayEquation DEF LogInv
<1>7. /\ \A i \in 1 .. N : sealed[i].id \in SealedIds(man) /\ sealed[i].id \in Nat
      /\ man.active \in Nat /\ SealedIds(man) = {sealed[i].id : i \in 1 .. N}
  BY <1>3, <1>4, NamedFiles DEF LogInv, SealedIds
<1>8. SealedIds(man) \cup {man.active} \subseteq DOMAIN files
  BY SlotsTyped
<1>9. ASSUME NEW id \in SealedIds(man) \cup {man.active}
      PROVE  fs[id].recs \in Seq(LogRecords \cup {Torn}) /\ TornTailOnly(fs[id].recs)
  <2>1. fs[id].recs \in Seq(LogRecords \cup {Torn})
    BY <1>1, <1>8 DEF LogInv, DiskTypes, FilesTyped, Segments
  <2>2. id \in SealedIds(man) => fs[id].recs \in Seq(LogRecords)
    BY <1>1 DEF LogInv, TornAtTail
  <2>3. id = man.active => TornTailOnly(fs[id].recs)
    BY <1>1 DEF LogInv, TornAtTail
  <2> QED
    BY <2>1, <2>2, <2>3, WholeRecords
<1>10. ASSUME NEW x
       PROVE  /\ x \in P <=> x \in LogOf(fs, LogIds) /\ RecOf(fs, x).seq <= s
              /\ x \in LogOf(fs, LogIds) => RecOf(fs, x).seq \in Nat
  BY <1>1, <1>5, <1>8, LogCounted DEF UpTo, Log, LogIds, Counted
<1>11. ASSUME NEW ids \in SUBSET LogIds, NEW x \in LogOf(fs, ids)
       PROVE  x \in LogOf(fs, LogIds)
  BY <1>11, LogIn
<1>12. ASSUME NEW mp \in AllMaps, NEW seg \in LogIds, seg \in Nat, NEW ids \in SUBSET LogIds,
              InTurn(fs, seg), Agrees(fs, P \cup LogOf(fs, ids), mp),
              \A x \in LogOf(fs, {seg}), y \in LogOf(fs, ids) : RecOf(fs, y).seq < RecOf(fs, x).seq
       PROVE  Agrees(fs, P \cup LogOf(fs, ids \cup {seg}), ScanSegment(mp, seg, fs[seg].recs, s))
  <2>1. PICK Q : Q = P \cup LogOf(fs, ids)
    OBVIOUS
  <2>2. Counted(fs, Q)
    BY <1>10, <1>11, <2>1 DEF Counted
  <2>3. ASSUME NEW x \in LogOf(fs, {seg})
        PROVE  IF RecOf(fs, x).seq > s
               THEN \A y \in Q : Decisive(RecOf(fs, y)) => RecOf(fs, y).seq < RecOf(fs, x).seq
               ELSE x \in Q
    <3>1. x \in LogOf(fs, LogIds) /\ RecOf(fs, x).seq \in Nat
      BY <1>10, <1>11
    <3>2. ASSUME RecOf(fs, x).seq > s, NEW y \in Q PROVE RecOf(fs, y).seq < RecOf(fs, x).seq
      <4>1. CASE y \in P
        BY <1>10, <3>1, <3>2, <4>1
      <4>2. CASE y \in LogOf(fs, ids)
        BY <1>12, <4>2
      <4> QED
        BY <2>1, <3>2, <4>1, <4>2
    <3>3. ASSUME ~ (RecOf(fs, x).seq > s) PROVE x \in Q
      BY <1>10, <2>1, <3>1, <3>3
    <3> QED
      BY <3>2, <3>3
  <2>4. Ahead(fs, Q, seg, s)
    BY <2>3 DEF Ahead
  <2>5. Agrees(fs, Q \cup LogOf(fs, {seg}), ScanSegment(mp, seg, fs[seg].recs, s))
    BY <1>9, <1>12, <2>1, <2>2, <2>4, ScanAgrees DEF LogIds
  <2>6. LogOf(fs, ids \cup {seg}) = LogOf(fs, ids) \cup LogOf(fs, {seg})
    BY DEF LogOf
  <2> QED
    BY <2>1, <2>5, <2>6
<1> DEFINE ids(k) == {sealed[j].id : j \in 1 .. k}
           T == {i \in 0 .. N : Agrees(fs, P \cup LogOf(fs, ids(i)), g[i])}
<1>13. 0 \in T
  <2>1. PICK js : js = ids(0)
    OBVIOUS
  <2>2. LogOf(fs, js) = {}
    BY <2>1 DEF LogOf
  <2>3. g[0] = base.maps
    BY <1>6 DEF ReplaysSealed
  <2>4. Agrees(fs, P, g[0])
    BY <1>1, <1>2, <1>5, <2>3
  <2>5. P \cup LogOf(fs, js) = P
    BY <2>2
  <2>6. Agrees(fs, P \cup LogOf(fs, js), g[0])
    BY <2>4, <2>5
  <2> QED
    BY <2>1, <2>6
<1>14. ASSUME NEW i \in 1 .. N, i - 1 \in T PROVE i \in T
  <2>1. i - 1 \in 0 .. N /\ i \in 0 .. N /\ g[i - 1] \in AllMaps
    OBVIOUS
  <2>2. PICK seg \in LogIds : seg = sealed[i].id /\ seg \in Nat /\ seg \in SealedIds(man)
    BY <1>7 DEF LogIds
  <2>3. PICK js : js = ids(i - 1)
    OBVIOUS
  <2>4. ids(i) = js \cup {seg}
    BY <2>2, <2>3
  <2>5. js \subseteq LogIds
    BY <1>7, <2>3 DEF LogIds
  <2>6. Agrees(fs, P \cup LogOf(fs, js), g[i - 1])
    BY <1>14, <2>3
  <2>7. /\ InTurn(fs, seg) /\ sealed[i].last \in Nat
        /\ \A p \in Slots(fs, seg) : SeqAt(fs, seg, p) <= sealed[i].last
        /\ \A j \in 1 .. i - 1 : \A p \in Slots(fs, sealed[j].id), q \in Slots(fs, seg) :
             SeqAt(fs, sealed[j].id, p) < SeqAt(fs, seg, q)
    <3>1. \A j \in 1 .. i - 1 : j \in 1 .. Len(sealed) /\ j < i
      BY <1>4
    <3> QED
      BY <1>1, <1>3, <1>4, <2>2, <3>1 DEF Rising
  <2>8. CASE sealed[i].last <= s
    <3>1. g[i] = g[i - 1]
      BY <1>2, <1>3, <1>4, <1>6, <2>8 DEF ReplaysSealed
    <3>2. ASSUME NEW x \in LogOf(fs, {seg}) PROVE x \in P
      <4>1. x \in LogOf(fs, LogIds) /\ RecOf(fs, x).seq \in Nat
        BY <1>10, <1>11
      <4>2. x.seg = seg /\ x.off \in Slots(fs, seg)
        BY LogIn
      <4>3. RecOf(fs, x).seq <= sealed[i].last
        BY <2>7, <4>2 DEF RecOf, SeqAt
      <4>4. RecOf(fs, x).seq <= s
        BY <2>7, <2>8, <4>1, <4>3
      <4> QED
        BY <1>10, <4>1, <4>4
    <3>3. LogOf(fs, js \cup {seg}) = LogOf(fs, js) \cup LogOf(fs, {seg})
      BY DEF LogOf
    <3>4. P \cup LogOf(fs, js \cup {seg}) = P \cup LogOf(fs, js)
      BY <3>2, <3>3
    <3> QED
      BY <2>1, <2>4, <2>6, <3>1, <3>4
  <2>9. CASE ~ (sealed[i].last <= s)
    <3>1. g[i] = ScanSegment(g[i - 1], seg, fs[seg].recs, s)
      BY <1>1, <1>2, <1>3, <1>4, <1>6, <2>2, <2>9 DEF ReplaysSealed
    <3>2. ASSUME NEW x \in LogOf(fs, {seg}), NEW y \in LogOf(fs, js)
          PROVE  RecOf(fs, y).seq < RecOf(fs, x).seq
      <4>1. x.seg = seg /\ x.off \in Slots(fs, seg) /\ y.seg \in js /\ y.off \in Slots(fs, y.seg)
        BY LogIn
      <4>2. PICK j \in 1 .. i - 1 : y.seg = sealed[j].id
        BY <2>3, <4>1
      <4> QED
        BY <2>7, <4>1, <4>2 DEF RecOf, SeqAt
    <3>3. Agrees(fs, P \cup LogOf(fs, js \cup {seg}), ScanSegment(g[i - 1], seg, fs[seg].recs, s))
      BY <1>12, <2>1, <2>2, <2>5, <2>6, <2>7, <3>2
    <3> QED
      BY <2>1, <2>4, <3>1, <3>3
  <2> QED
    BY <2>8, <2>9
<1>15. N \in T
  <2> HIDE DEF T
  <2> QED
    BY <1>13, <1>14, StepInduction
<1>16. Agrees(fs, P \cup LogOf(fs, SealedIds(man)), g[N]) /\ g[N] \in AllMaps
  BY <1>7, <1>15
<1>17. ASSUME NEW x \in LogOf(fs, {man.active}), NEW y \in LogOf(fs, SealedIds(man))
       PROVE  RecOf(fs, y).seq < RecOf(fs, x).seq
  <2>1. /\ x.seg = man.active /\ x.off \in Slots(fs, man.active)
        /\ y.seg \in SealedIds(man) /\ y.off \in Slots(fs, y.seg)
    BY LogIn
  <2> QED
    BY <1>1, <2>1 DEF RecOf, SeqAt, SeqInv, Numbering, Numbered
<1>18. InTurn(fs, man.active)
  BY <1>1 DEF InTurn, SeqInv, Numbering, Numbered, SeqAt
<1>19. Agrees(fs, P \cup LogOf(fs, LogIds),
              ScanSegment(g[N], man.active, fs[man.active].recs, s))
  <2>1. man.active \in LogIds /\ SealedIds(man) \subseteq LogIds
    BY DEF LogIds
  <2>2. PICK a \in LogIds : a = man.active /\ a \in Nat
    BY <1>7, <2>1
  <2>3. PICK js \in SUBSET LogIds : js = SealedIds(man)
    BY <2>1
  <2>4. LogIds = js \cup {a}
    BY <2>2, <2>3 DEF LogIds
  <2>5. Agrees(fs, P \cup LogOf(fs, js), g[N]) /\ InTurn(fs, a)
    BY <1>16, <1>18, <2>2, <2>3
  <2>6. \A x \in LogOf(fs, {a}), y \in LogOf(fs, js) : RecOf(fs, y).seq < RecOf(fs, x).seq
    BY <1>17, <2>2, <2>3
  <2>7. Agrees(fs, P \cup LogOf(fs, js \cup {a}), ScanSegment(g[N], a, fs[a].recs, s))
    BY <1>12, <1>16, <2>2, <2>5, <2>6
  <2> QED
    BY <2>2, <2>4, <2>7
<1>20. P \cup LogOf(fs, LogIds) = LogOf(fs, LogIds)
  BY <1>10
<1> QED
  BY <1>1, <1>2, <1>6, <1>19, <1>20 DEF Log

-----------------------------------------------------------------------------
(* Two readings of one log *)

(* What an open may start a replay from. *)
Fit(base) ==
  /\ base.maps \in AllMaps /\ base.seq \in Nat
  /\ Resolve(files, base.maps, man.nextSegmentId) /\ Startable(base)
  /\ LogGrouped(base.seq) /\ Owns(files, base.maps)
  /\ Lives(base.maps, LogIds)
  /\ Agrees(files, UpTo(files, Log, base.seq), base.maps)

(* Maps that a reader of the log may use. *)
Reads(mp) ==
  /\ mp \in AllMaps
  /\ Resolve(files, mp, man.nextSegmentId)
  /\ Owns(files, mp)
  /\ Agrees(files, Log, mp)

LEMMA NothingFits ==
  ASSUME SegmentsSafe, LogInv, SeqInv, OwnInv, NEW base, base = [maps |-> EmptyMaps, seq |-> 0]
  PROVE  Fit(base)
<1>1. PICK mp : mp = EmptyMaps /\ base.maps = mp /\ base.seq = 0
  OBVIOUS
<1>2. mp \in AllMaps
  BY <1>1, EmptyMapsTyped
<1>3. Refs(mp) = {} /\ DOMAIN mp.docs = {}
  BY <1>1 DEF Refs, DocRefs, PartRefs, EmptyMaps
<1>4. Resolve(files, mp, man.nextSegmentId) /\ Startable(base)
  BY <1>1, <1>3 DEF Resolve, Startable, NoParts
<1>5. Owns(files, mp) /\ Lives(mp, LogIds)
  BY <1>3 DEF Owns, Lives
<1>6. LogGrouped(0)
  BY BufferClear
<1>7. ASSUME NEW x \in Log PROVE RecOf(files, x).seq \in Nat /\ RecOf(files, x).seq # 0
  <2>1. x.seg \in LogIds /\ x.off \in Slots(files, x.seg)
    BY LogIn DEF Log
  <2>2. x.seg \in DOMAIN files
    BY <2>1, SlotsTyped DEF LogIds, SeqInv, Placed
  <2>3. files[x.seg].recs[x.off] \in LogRecords
    BY <2>1, <2>2, SlotTyped DEF LogInv, DiskTypes
  <2> QED
    BY <2>3, RecordKinds DEF RecOf
<1>8. UpTo(files, Log, 0) = {}
  BY <1>7 DEF UpTo
<1>9. Agrees(files, {}, mp)
  BY <1>3 DEF Agrees, Final, LastOn
<1> QED
  BY <1>1, <1>2, <1>4, <1>5, <1>6, <1>8, <1>9 DEF Fit

LEMMA SnapshotFits ==
  ASSUME SegmentsSafe, LogInv, SeqInv, OwnInv, AgreeInv
  PROVE  Fit(SnapshotBase)
<1>1. CASE ~ SnapshotAccepted(files)
  <2>1. SnapshotBase = [maps |-> EmptyMaps, seq |-> 0]
    BY <1>1 DEF SnapshotBase
  <2> QED
    BY <2>1, NothingFits
<1>2. CASE SnapshotAccepted(files)
  <2>1. PICK base : base = SnapshotBase
    OBVIOUS
  <2>2. base.maps = snap.maps /\ base.seq = snap.seq /\ snap.exists
    BY <1>2, <2>1 DEF SnapshotBase, SnapshotAccepted
  <2>3. base.maps \in AllMaps /\ base.seq \in Nat
    BY <2>1, BaseTyped DEF LogInv
  <2>4. Resolve(files, base.maps, man.nextSegmentId) /\ Startable(base)
    BY <2>1, BaseStarts DEF SeqInv, Placed
  <2>5. LogGrouped(base.seq)
    BY <2>2, BufferClear DEF SnapSeq
  <2>6. Owns(files, base.maps)
    BY <2>2 DEF OwnInv
  <2>7. Lives(base.maps, LogIds)
    BY <1>2, <2>2 DEF SnapshotAccepted, LocationsFit, Fits, Lives, LogIds
  <2>8. Agrees(files, UpTo(files, Log, base.seq), base.maps)
    BY <2>2 DEF AgreeInv
  <2> QED
    BY <2>1, <2>3, <2>4, <2>5, <2>6, <2>7, <2>8 DEF Fit
<1> QED
  BY <1>1, <1>2

LEMMA ReplayReads ==
  ASSUME SegmentsSafe, LogInv, SeqInv, AgreeInv, NEW base, Fit(base)
  PROVE  Reads(ReplayFrom(base))
<1>1. /\ base.maps \in AllMaps /\ base.seq \in Nat /\ Startable(base)
      /\ Resolve(files, base.maps, man.nextSegmentId)
      /\ LogGrouped(base.seq) /\ Owns(files, base.maps)
      /\ Lives(base.maps, SealedIds(man) \cup {man.active})
      /\ Agrees(files, UpTo(files, Log, base.seq), base.maps)
  BY DEF Fit, LogIds
<1>2. DiskTypes /\ man.active \in DOMAIN files /\ Rising(files, man.sealed)
  BY DEF LogInv, SeqInv, Placed, AgreeInv
<1>3. ReplayFrom(base) \in AllMaps
  BY <1>1, <1>2, ReplayTyped
<1>4. Resolve(files, ReplayFrom(base), man.nextSegmentId)
  BY <1>1, <1>2, ReplayKeeps
<1>5. Owns(files, ReplayFrom(base))
  BY <1>1, <1>2, ReplayOwns
<1>6. Agrees(files, Log, ReplayFrom(base))
  BY <1>1, <1>2, ReplayAgreeing
<1> QED
  BY <1>3, <1>4, <1>5, <1>6 DEF Reads

(* In one segment of the log a number is used once. *)
LEMMA OncePerSegment ==
  ASSUME SegmentsSafe, LogInv, SeqInv, NEW id \in LogIds, NEW i \in Slots(files, id),
         NEW j \in Slots(files, id), SeqAt(files, id, i) = SeqAt(files, id, j)
  PROVE  i = j
<1>1. CASE id \in SealedIds(man)
  BY <1>1 DEF SeqInv, Numbering, Numbered
<1>2. CASE id = man.active
  <2>1. /\ i < j => SeqAt(files, id, i) < SeqAt(files, id, j)
        /\ j < i => SeqAt(files, id, j) < SeqAt(files, id, i)
    BY <1>2 DEF SeqInv, Numbering, Numbered
  <2>2. id \in DOMAIN files
    BY <1>2 DEF SeqInv, Placed
  <2>3. i \in Nat /\ j \in Nat /\ SeqAt(files, id, i) \in Nat
    BY <2>2, SlotsTyped
  <2> QED
    BY <2>1, <2>3
<1> QED
  BY <1>1, <1>2 DEF LogIds

(* The parts that two readings have for one document are the same. *)
LEMMA SamePart ==
  ASSUME SegmentsSafe, LogInv, SeqInv, NEW kind \in PartKinds, NEW d, NEW i, NEW f, NEW g,
         NEW e, NEW c, e.loc = c.loc, e.seq = c.seq, e.splits = c.splits, i \in e.splits,
         e.seq \in Nat, Back(e.splits, kind, i) \in Int,
         e.loc.seg \in LogIds, HasParts(files, f, d, e), HasParts(files, g, d, c),
         \A k \in DOMAIN f : f[k] \in Locs /\ Right(files, Ref(kind, k[1], k[2], f[k])),
         \A k \in DOMAIN g : g[k] \in Locs /\ Right(files, Ref(kind, k[1], k[2], g[k]))
  PROVE  Lookup(f, <<d, i>>) = Lookup(g, <<d, i>>)
<1>0. PICK k : k = <<d, i>>
  OBVIOUS
<1>1. k = <<d, i>> /\ k[2] = i
  BY <1>0
<1>2. PICK id \in LogIds : id = e.loc.seg
  OBVIOUS
<1>3. id \in DOMAIN files
  BY SlotsTyped DEF LogIds, SeqInv, Placed
<1>4. ASSUME NEW h, NEW b, b.loc = e.loc, b.seq = e.seq, b.splits = e.splits,
             HasParts(files, h, d, b),
             \A x \in DOMAIN h : h[x] \in Locs /\ Right(files, Ref(kind, x[1], x[2], h[x]))
      PROVE  /\ k \in DOMAIN h /\ h[k] \in Locs /\ h[k].seg = id
             /\ h[k].off \in Slots(files, id)
             /\ SeqAt(files, id, h[k].off) = e.seq - Back(e.splits, kind, i)
  <2>1. /\ k \in DOMAIN h /\ h[k].seg = id
        /\ Close(e.seq, e.splits, files[id].recs[h[k].off])
    BY <1>1, <1>2, <1>3, <1>4 DEF HasParts
  <2>2. PICK x : x = Ref(kind, k[1], k[2], h[k]) /\ Right(files, x)
    BY <1>4, <2>1
  <2>3. x.kind = kind /\ x.mark = i /\ x.loc = h[k]
    BY <1>1, <2>2 DEF Ref
  <2>4. PICK r : r = files[id].recs[h[k].off]
    OBVIOUS
  <2>5. h[k].off \in DOMAIN files[id].recs /\ Meant(x, r)
    BY <1>3, <2>1, <2>2, <2>3, <2>4 DEF Right
  <2>6. r.kind = kind /\ r.part = i
    BY <2>3, <2>5 DEF Meant, PartKinds
  <2>7. ~ IsTorn(r)
    BY <2>6 DEF IsTorn, PartKinds
  <2>8. h[k].off \in Slots(files, id)
    BY <2>4, <2>5, <2>7 DEF Slots
  <2>9. r.seq \in Nat
    BY <1>3, <2>4, <2>8, SlotsTyped DEF SeqAt
  <2>10. e.seq - r.seq = Back(e.splits, kind, i)
    BY <2>1, <2>4, <2>6 DEF Close
  <2> QED
    BY <1>4, <2>1, <2>4, <2>8, <2>9, <2>10 DEF SeqAt
<1>5. /\ k \in DOMAIN f /\ f[k] \in Locs /\ f[k].seg = id /\ f[k].off \in Slots(files, id)
      /\ SeqAt(files, id, f[k].off) = e.seq - Back(e.splits, kind, i)
  BY <1>4
<1>6. /\ k \in DOMAIN g /\ g[k] \in Locs /\ g[k].seg = id /\ g[k].off \in Slots(files, id)
      /\ SeqAt(files, id, g[k].off) = e.seq - Back(e.splits, kind, i)
  BY <1>4
<1>7. f[k].off = g[k].off
  BY <1>5, <1>6, OncePerSegment
<1>8. f[k] = g[k]
  BY <1>5, <1>6, <1>7, LocEqual
<1> QED
  BY <1>1, <1>5, <1>6, <1>8 DEF Lookup

LEMMA PartsTyped ==
  ASSUME NEW S \in SUBSET Parts
  PROVE  Cardinality(S) \in Nat /\ S \subseteq Nat
<1>1. IsFiniteSet(Parts) /\ Parts \subseteq Nat
  <2>1. MaxSplits \in Nat
    BY ContentsAssumption
  <2> QED
    BY <2>1, FS_Interval DEF Parts
<1>2. IsFiniteSet(S)
  BY <1>1, FS_Subset
<1> QED
  BY <1>1, <1>2, FS_CardinalityType

(* What a reading of the log says of one document. *)
LEMMA EntryRead ==
  ASSUME SegmentsSafe, LogInv, SeqInv, NEW mp, Reads(mp), NEW d \in DOMAIN mp.docs
  PROVE  LET e == mp.docs[d]
         IN  /\ e \in Entries /\ e.loc.seg \in LogIds /\ Final(files, Log, d, e.loc)
             /\ RecOf(files, e.loc).seq = e.seq /\ Names(RecOf(files, e.loc), e)
             /\ HasParts(files, mp.splits, d, e) /\ HasParts(files, mp.summaries, d, e)
             /\ \A k \in DOMAIN mp.splits :
                  mp.splits[k] \in Locs /\ Right(files, Ref("Split", k[1], k[2], mp.splits[k]))
             /\ \A k \in DOMAIN mp.summaries :
                  /\ mp.summaries[k] \in Locs
                  /\ Right(files, Ref("Summary", k[1], k[2], mp.summaries[k]))
<1>1. PICK e : e = mp.docs[d]
  OBVIOUS
<1>2. /\ mp \in AllMaps /\ Resolve(files, mp, man.nextSegmentId)
      /\ Owned(files, mp, d) /\ Final(files, Log, d, e.loc)
  BY <1>1 DEF Reads, Owns, Agrees
<1>3. mp.docs \in DocMaps /\ mp.splits \in PartMaps /\ mp.summaries \in PartMaps
  BY <1>2 DEF AllMaps
<1>4. e \in Entries
  BY <1>1, <1>3, DocMapFacts
<1>5. e.loc.seg \in LogIds
  BY <1>2, LogIn DEF Final, LastOn, Log
<1>6. e.loc.seg \in DOMAIN files
  BY <1>5, SlotsTyped, Zenon DEF LogIds, SeqInv, Placed
<1>7. Names(RecOf(files, e.loc), e)
  BY <1>1, <1>2, <1>6 DEF Owned, RecOf
<1>8. HasParts(files, mp.splits, d, e) /\ HasParts(files, mp.summaries, d, e)
  BY <1>1, <1>2 DEF Owned
<1>9. RecOf(files, e.loc).seq = e.seq
  <2>1. PICK x : x = Ref("Doc", d, e.seq, e.loc) /\ x \in Refs(mp)
    BY <1>1, DocRefIn
  <2>2. x.kind = "Doc" /\ x.mark = e.seq /\ x.loc = e.loc
    BY <2>1 DEF Ref
  <2>3. Meant(x, RecOf(files, e.loc))
    BY <1>2, <1>6, <2>1, <2>2 DEF Resolve, Right, RecOf
  <2> QED
    BY <2>2, <2>3 DEF Meant
<1>10. ASSUME NEW kind, NEW f \in PartMaps, PartRefs(kind, f) \subseteq Refs(mp),
              NEW k \in DOMAIN f
       PROVE  f[k] \in Locs /\ Right(files, Ref(kind, k[1], k[2], f[k]))
  <2>1. f[k] \in Locs
    BY PartMapFacts
  <2>2. Ref(kind, k[1], k[2], f[k]) \in Refs(mp)
    BY <1>10 DEF PartRefs
  <2> QED
    BY <1>2, <2>1, <2>2 DEF Resolve
<1>11. PartRefs("Split", mp.splits) \subseteq Refs(mp)
       /\ PartRefs("Summary", mp.summaries) \subseteq Refs(mp)
  BY DEF Refs
<1> QED
  BY <1>1, <1>2, <1>3, <1>4, <1>5, <1>7, <1>8, <1>9, <1>10, <1>11

LEMMA OneView ==
  ASSUME SegmentsSafe, LogInv, SeqInv, NEW mp, NEW mq, Reads(mp), Reads(mq)
  PROVE  DocView(mp) = DocView(mq)
<1> DEFINE View(mm, d) ==
             [seq |-> mm.docs[d].seq, loc |-> mm.docs[d].loc,
              splits |-> [i \in mm.docs[d].splits |-> Lookup(mm.splits, <<d, i>>)],
              list |-> [i \in mm.docs[d].list |-> Lookup(mm.summaries, <<d, i>>)]]
<1>1. ASSUME NEW p, NEW q, Reads(p), Reads(q) PROVE DOMAIN p.docs \subseteq DOMAIN q.docs
  BY <1>1 DEF Reads, Agrees
<1>2. DOMAIN mp.docs = DOMAIN mq.docs
  BY <1>1
<1>3. ASSUME NEW d \in DOMAIN mp.docs PROVE View(mp, d) = View(mq, d)
  <2>1. PICK e, f, g : e = mp.docs[d] /\ f = mp.splits /\ g = mp.summaries
    OBVIOUS
  <2>2. PICK c, h, k : c = mq.docs[d] /\ h = mq.splits /\ k = mq.summaries
    OBVIOUS
  <2>3. /\ e \in Entries /\ e.loc.seg \in LogIds /\ Final(files, Log, d, e.loc)
        /\ RecOf(files, e.loc).seq = e.seq /\ Names(RecOf(files, e.loc), e)
        /\ HasParts(files, f, d, e) /\ HasParts(files, g, d, e)
        /\ \A x \in DOMAIN f : f[x] \in Locs /\ Right(files, Ref("Split", x[1], x[2], f[x]))
        /\ \A x \in DOMAIN g : g[x] \in Locs /\ Right(files, Ref("Summary", x[1], x[2], g[x]))
    BY <2>1, EntryRead
  <2>4. /\ c \in Entries /\ Final(files, Log, d, c.loc)
        /\ RecOf(files, c.loc).seq = c.seq /\ Names(RecOf(files, c.loc), c)
        /\ HasParts(files, h, d, c) /\ HasParts(files, k, d, c)
        /\ \A x \in DOMAIN h : h[x] \in Locs /\ Right(files, Ref("Split", x[1], x[2], h[x]))
        /\ \A x \in DOMAIN k : k[x] \in Locs /\ Right(files, Ref("Summary", x[1], x[2], k[x]))
    BY <1>2, <2>2, EntryRead
  <2>5. e.loc = c.loc
    <3>1. LogIds \subseteq DOMAIN files
      BY SlotsTyped DEF LogIds, SeqInv, Placed
    <3>2. Counted(files, Log)
      BY <3>1, LogCounted DEF Log
    <3> QED
      BY <2>3, <2>4, <3>2, LastUnique DEF Final
  <2>6. e.seq = c.seq /\ e.splits = c.splits /\ e.list = c.list /\ e.list \subseteq e.splits
    BY <2>3, <2>4, <2>5 DEF Names
  <2>7. ASSUME NEW i \in e.splits
        PROVE  /\ Lookup(f, <<d, i>>) = Lookup(h, <<d, i>>)
               /\ Lookup(g, <<d, i>>) = Lookup(k, <<d, i>>)
    <3>1. e.splits \in SUBSET Parts /\ e.seq \in Nat
      BY <2>3 DEF Entries
    <3>2. \A kind : Back(e.splits, kind, i) \in Int
      BY <3>1, PartsTyped DEF Back
    <3>3. "Split" \in PartKinds /\ "Summary" \in PartKinds
      BY DEF PartKinds
    <3>4. Lookup(f, <<d, i>>) = Lookup(h, <<d, i>>)
      BY <2>3, <2>4, <2>5, <2>6, <3>1, <3>2, <3>3, SamePart
    <3>5. Lookup(g, <<d, i>>) = Lookup(k, <<d, i>>)
      BY <2>3, <2>4, <2>5, <2>6, <3>1, <3>2, <3>3, SamePart
    <3> QED
      BY <3>4, <3>5
  <2>8. [i \in e.splits |-> Lookup(f, <<d, i>>)] = [i \in c.splits |-> Lookup(h, <<d, i>>)]
    BY <2>6, <2>7
  <2>9. [i \in e.list |-> Lookup(g, <<d, i>>)] = [i \in c.list |-> Lookup(k, <<d, i>>)]
    BY <2>6, <2>7
  <2> QED
    BY <2>1, <2>2, <2>5, <2>6, <2>8, <2>9
<1>4. DocView(mp) = [d \in DOMAIN mp.docs |-> View(mp, d)]
  BY DEF DocView
<1>5. DocView(mq) = [d \in DOMAIN mq.docs |-> View(mq, d)]
  BY DEF DocView
<1> HIDE DEF View
<1> QED
  BY <1>2, <1>3, <1>4, <1>5

-----------------------------------------------------------------------------
(* Agreement under changes of the files *)

(* The segments ids hold the same whole records in gs as in fs. *)
SameLog(fs, gs, ids) ==
  \A id \in ids : /\ Slots(gs, id) = Slots(fs, id)
                  /\ \A i \in Slots(fs, id) : gs[id].recs[i] = fs[id].recs[i]

LEMMA SameRecs ==
  ASSUME NEW fs, NEW gs, NEW ids, \A id \in ids : gs[id].recs = fs[id].recs
  PROVE  SameLog(fs, gs, ids)
  BY DEF SameLog, Slots

LEMMA LogUnmoved ==
  ASSUME NEW fs, NEW gs, NEW ids, SameLog(fs, gs, ids)
  PROVE  /\ LogOf(gs, ids) = LogOf(fs, ids)
         /\ \A x \in LogOf(fs, ids) : RecOf(gs, x) = RecOf(fs, x)
<1>1. ASSUME NEW x PROVE x \in LogOf(gs, ids) <=> x \in LogOf(fs, ids)
  BY LogIn DEF SameLog
<1>2. ASSUME NEW x \in LogOf(fs, ids) PROVE RecOf(gs, x) = RecOf(fs, x)
  BY LogIn DEF SameLog, RecOf
<1> QED
  BY <1>1, <1>2

LEMMA AgreesUnmoved ==
  ASSUME NEW fs, NEW gs, NEW ids, NEW mp, SameLog(fs, gs, ids)
  PROVE  /\ Agrees(fs, LogOf(fs, ids), mp) => Agrees(gs, LogOf(gs, ids), mp)
         /\ \A s : Agrees(fs, UpTo(fs, LogOf(fs, ids), s), mp) =>
                     Agrees(gs, UpTo(gs, LogOf(gs, ids), s), mp)
<1>1. PICK P : P = LogOf(fs, ids) /\ P = LogOf(gs, ids)
               /\ \A x \in P : RecOf(gs, x) = RecOf(fs, x)
  BY LogUnmoved
<1>2. ASSUME NEW Q \in SUBSET P, Agrees(fs, Q, mp) PROVE Agrees(gs, Q, mp)
  <2>1. Kept(fs, Q, gs, Q) /\ Kept(gs, Q, fs, Q)
    BY <1>1 DEF Kept
  <2> QED
    BY <1>2, <2>1, AgreesSame
<1>3. ASSUME NEW s PROVE UpTo(gs, P, s) = UpTo(fs, P, s) /\ UpTo(fs, P, s) \in SUBSET P
  BY <1>1 DEF UpTo
<1> QED
  BY <1>1, <1>2, <1>3

LEMMA RisingUnmoved ==
  ASSUME NEW fs, NEW gs, NEW ids, NEW sealed, Rising(fs, sealed), SameLog(fs, gs, ids),
         \A i \in 1 .. Len(sealed) : sealed[i].id \in ids
  PROVE  Rising(gs, sealed)
<1>1. ASSUME NEW i \in 1 .. Len(sealed)
      PROVE  /\ Slots(gs, sealed[i].id) = Slots(fs, sealed[i].id)
             /\ \A p \in Slots(fs, sealed[i].id) :
                  gs[sealed[i].id].recs[p] = fs[sealed[i].id].recs[p]
  BY DEF SameLog
<1>2. ASSUME NEW i \in 1 .. Len(sealed)
      PROVE  /\ InTurn(gs, sealed[i].id) /\ sealed[i].last \in Nat
             /\ \A p \in Slots(gs, sealed[i].id) : SeqAt(gs, sealed[i].id, p) <= sealed[i].last
  <2>1. InTurn(fs, sealed[i].id)
    BY Zenon DEF Rising
  <2>2. InTurn(gs, sealed[i].id)
    BY <1>1, <2>1 DEF InTurn
  <2>3. \A p \in Slots(gs, sealed[i].id) : SeqAt(gs, sealed[i].id, p) <= sealed[i].last
    BY <1>1 DEF Rising, SeqAt
  <2> QED
    BY <2>2, <2>3 DEF Rising
<1>3. ASSUME NEW i \in 1 .. Len(sealed), NEW j \in 1 .. Len(sealed), i < j,
             NEW p \in Slots(gs, sealed[i].id), NEW q \in Slots(gs, sealed[j].id)
      PROVE  SeqAt(gs, sealed[i].id, p) < SeqAt(gs, sealed[j].id, q)
  <2>1. p \in Slots(fs, sealed[i].id) /\ q \in Slots(fs, sealed[j].id)
    BY <1>1, <1>3
  <2>2. SeqAt(fs, sealed[i].id, p) < SeqAt(fs, sealed[j].id, q)
    BY <1>3, <2>1 DEF Rising
  <2>3. /\ gs[sealed[i].id].recs[p] = fs[sealed[i].id].recs[p]
        /\ gs[sealed[j].id].recs[q] = fs[sealed[j].id].recs[q]
    BY <1>1, <2>1
  <2> QED
    BY <2>2, <2>3 DEF SeqAt
<1> QED
  BY <1>2, <1>3 DEF Rising

LEMMA SealedIdIn ==
  ASSUME NEW mm, WellFormed(mm)
  PROVE  \A i \in 1 .. Len(mm.sealed) : mm.sealed[i].id \in SealedIds(mm)
<1>1. PICK q : q = mm.sealed /\ q \in Seq({q[i] : i \in DOMAIN q})
  BY DEF WellFormed
<1>2. DOMAIN q = 1 .. Len(q)
  BY <1>1, LenProperties
<1> QED
  BY <1>1, <1>2 DEF SealedIds

(* What holds of a log that stays. *)
LEMMA LogStays ==
  ASSUME SegmentsSafe, AgreeInv, LogIds' = LogIds, SameLog(files, files', LogIds)
  PROVE  /\ man'.sealed = man.sealed => Rising(files', man'.sealed)
         /\ Up /\ maps' = maps => Agrees(files', Log', maps')
         /\ snap.exists /\ snap' = snap =>
              Agrees(files', UpTo(files', Log', snap'.seq), snap'.maps)
<1>1. PICK fs, gs, ids : fs = files /\ gs = files' /\ ids = LogIds /\ ids = LogIds'
  OBVIOUS
<1>2. SameLog(fs, gs, ids) /\ Log = LogOf(fs, ids) /\ Log' = LogOf(gs, ids)
  BY <1>1 DEF Log
<1>3. \A i \in 1 .. Len(man.sealed) : man.sealed[i].id \in ids
  BY <1>1, SealedIdIn DEF SegmentsSafe, LogIds
<1>4. ASSUME man'.sealed = man.sealed PROVE Rising(files', man'.sealed)
  <2>1. PICK sealed : sealed = man.sealed /\ sealed = man'.sealed
    BY <1>4
  <2>2. Rising(fs, sealed)
    BY <1>1, <2>1 DEF AgreeInv
  <2>3. Rising(gs, sealed)
    BY <1>2, <1>3, <2>1, <2>2, RisingUnmoved
  <2> QED
    BY <1>1, <2>1, <2>3
<1>5. ASSUME Up, maps' = maps PROVE Agrees(files', Log', maps')
  <2>1. PICK mp : mp = maps /\ mp = maps'
    BY <1>5
  <2>2. Agrees(fs, LogOf(fs, ids), mp)
    BY <1>1, <1>2, <1>5, <2>1 DEF AgreeInv
  <2>3. Agrees(gs, LogOf(gs, ids), mp)
    BY <1>2, <2>2, AgreesUnmoved
  <2> QED
    BY <1>1, <1>2, <2>1, <2>3
<1>6. ASSUME snap.exists, snap' = snap
      PROVE  Agrees(files', UpTo(files', Log', snap'.seq), snap'.maps)
  <2>1. PICK mp, s : mp = snap.maps /\ s = snap.seq /\ mp = snap'.maps /\ s = snap'.seq
    BY <1>6
  <2>2. Agrees(fs, UpTo(fs, LogOf(fs, ids), s), mp)
    BY <1>1, <1>2, <1>6, <2>1 DEF AgreeInv
  <2>3. Agrees(gs, UpTo(gs, LogOf(gs, ids), s), mp)
    BY <1>2, <2>2, AgreesUnmoved
  <2> QED
    BY <1>1, <1>2, <2>1, <2>3
<1> QED
  BY <1>4, <1>5, <1>6

(* The steps of an open store outside seals and compactions. *)
Plain == Steps \ {"sealPublish", "compactUnsnap", "compactPublish", "down", "reject", "replay"}

(* A step that leaves the log and the maps alone. *)
LEMMA LogRests ==
  ASSUME SegmentsSafe, AgreeInv, Up, op.step \notin {"sealPublish", "compactPublish"},
         man'.sealed \in {man.sealed, m.sealed}, man'.active = man.active,
         m'.sealed = m.sealed, maps' = maps,
         \A id \in LogIds : files'[id].recs = files[id].recs
  PROVE  /\ SealedIds(m') = SealedIds(man') /\ LogIds' = LogIds
         /\ SameLog(files, files', LogIds)
         /\ Rising(files', man'.sealed) /\ Rising(files', m'.sealed)
         /\ Agrees(files', Log', maps')
         /\ snap.exists /\ snap' = snap =>
              Agrees(files', UpTo(files', Log', snap'.seq), snap'.maps)
<1>1. SameLog(files, files', LogIds)
  <2>1. PICK fs, gs, ids : fs = files /\ gs = files' /\ ids = LogIds
    OBVIOUS
  <2>2. SameLog(fs, gs, ids)
    BY <2>1, SameRecs
  <2> QED
    BY <2>1, <2>2
<1>2. SealedIds(man') = SealedIds(man) /\ SealedIds(m) = SealedIds(man) /\ LogIds' = LogIds
  BY DEF LogIds, SealedIds, AgreeInv, Apart
<1>3. /\ Agrees(files', Log', maps')
      /\ snap.exists /\ snap' = snap =>
           Agrees(files', UpTo(files', Log', snap'.seq), snap'.maps)
  BY <1>1, <1>2, LogStays
<1>4. ASSUME NEW sealed \in {man.sealed, m.sealed} PROVE Rising(files', sealed)
  <2>1. PICK fs, gs, ids : fs = files /\ gs = files' /\ ids = LogIds
    OBVIOUS
  <2>2. \A i \in 1 .. Len(sealed) : sealed[i].id \in ids
    BY <1>2, <2>1, SealedIdIn DEF SegmentsSafe, LogIds
  <2>3. Rising(fs, sealed) /\ SameLog(fs, gs, ids)
    BY <1>1, <2>1 DEF AgreeInv
  <2>4. Rising(gs, sealed)
    BY <2>2, <2>3, RisingUnmoved
  <2> QED
    BY <2>1, <2>4
<1>5. SealedIds(m') = SealedIds(man')
  BY <1>2 DEF SealedIds
<1> QED
  BY <1>1, <1>2, <1>3, <1>4, <1>5

LEMMA CoveredStays ==
  ASSUME AgreeInv, SameLog(files, files', LogIds), man'.active = man.active, snap' = snap,
         \A i \in Slots(files, man.active) :
           i <= files[man.active].synced => i <= files'[man.active].synced
  PROVE  Covered'
<1>1. /\ Slots(files', man.active) = Slots(files, man.active)
      /\ \A i \in Slots(files, man.active) :
           SeqAt(files', man.active, i) = SeqAt(files, man.active, i)
  BY DEF SameLog, LogIds, SeqAt
<1> QED
  BY <1>1 DEF AgreeInv, Covered

(* A step that also leaves the snapshot alone. *)
LEMMA QuietAgree ==
  ASSUME SegmentsSafe, LogInv, AgreeInv, Up, op.step \notin {"sealPublish", "compactPublish"},
         op'.step \in Plain, man'.sealed \in {man.sealed, m.sealed}, man'.active = man.active,
         m'.sealed = m.sealed, maps' = maps, snap' = snap,
         \A id \in LogIds : files'[id].recs = files[id].recs,
         \A i \in Slots(files, man.active) :
           i <= files[man.active].synced => i <= files'[man.active].synced,
         Latest'
  PROVE  AgreeInv'
<1>1. /\ SealedIds(m') = SealedIds(man') /\ SameLog(files, files', LogIds)
      /\ Rising(files', man'.sealed) /\ Rising(files', m'.sealed)
      /\ Agrees(files', Log', maps')
      /\ snap.exists => Agrees(files', UpTo(files', Log', snap'.seq), snap'.maps)
  BY LogRests
<1>2. op'.step \notin {"sealPublish", "compactUnsnap", "compactPublish"}
  BY DEF Plain
<1>3. Apart' /\ Chosen'
  BY <1>1, <1>2 DEF Apart, Chosen
<1>4. Covered'
  BY <1>1, CoveredStays
<1> QED
  BY <1>1, <1>3, <1>4 DEF AgreeInv

LEMMA LatestStays ==
  ASSUME AgreeInv, Up, active' = active, lastSeq' = lastSeq, buf' = buf,
         files'[active].recs = files[active].recs
  PROVE  Latest'
<1>1. Slots(files', active) = Slots(files, active)
  BY DEF Slots
<1> QED
  BY <1>1 DEF AgreeInv, Latest, SeqAt

(* What the log names is there. *)
LEMMA LogThere ==
  ASSUME SegmentsSafe, LogInv, SeqInv
  PROVE  /\ LogIds \subseteq DOMAIN files
         /\ op.step # "sealPublish" => man.active = active
  BY SlotsTyped DEF LogIds, SeqInv, Placed

(* The numbers of the active segment are below the next write's. *)
LEMMA ActiveBelow ==
  ASSUME SegmentsSafe, LogInv, SeqInv, Up
  PROVE  \A i \in Slots(files, active) :
           SeqAt(files, active, i) < FirstFree /\ SeqAt(files, active, i) \in Nat
  BY ActiveFacts, SlotsTyped DEF SeqInv, Numbering

-----------------------------------------------------------------------------
(* Steps that leave the log alone *)

LEMMA AppendDocumentAgree ==
  ASSUME SegmentsSafe, LogInv, SeqInv, AgreeInv, NEW d \in Docs, NEW c \in Contents,
         AppendDocument(d, c)
  PROVE  AgreeInv'
<1>0. PICK recs : recs = DocumentRecords(d, c, m.nextSeq)
  OBVIOUS
<1>1. /\ op.step = "idle" /\ files' = files /\ snap' = snap /\ active' = active
      /\ maps' = maps /\ buf' = recs /\ man' = man
      /\ m' = [m EXCEPT !.nextSeq = @ + Len(recs)]
      /\ lastSeq' = m.nextSeq + Len(recs) - 1
      /\ op' = [step |-> "insert", doc |-> d, content |-> c, rewindSeq |-> m.nextSeq]
  BY <1>0 DEF AppendDocument, disk
<1>2. PICK q \in Nat \ {0} : q = m.nextSeq
  BY DEF LogInv, MemoryTypes, Counters
<1>3. PICK k \in 0 .. 1 : Spells(recs, k, d, c, q)
  <2>1. (IF d \in DOMAIN maps.docs THEN 1 ELSE 0) \in 0 .. 1
    OBVIOUS
  <2> QED
    BY <1>0, <1>2, <2>1, DocumentSpelled
<1>4. PICK n \in Nat : n = Len(recs)
  BY <1>0, <1>2, DocumentRecordsTyped
<1>5. FirstFree = q /\ Up /\ buf = <<>>
  BY <1>1, <1>2 DEF FirstFree, LogInv, OpTypes, Up
<1>6. m'.sealed = m.sealed
  <2>1. m = [f \in ManifestFields |-> m[f]] /\ m' = [m EXCEPT !.nextSeq = @ + n]
    BY <1>1, <1>4 DEF SegmentsSafe, WellFormed
  <2> QED
    BY <2>1, Zenon DEF ManifestFields
<1>7. \A i \in 1 .. n : recs[i].seq = q + i - 1
  BY <1>3, <1>4, SpelledNumbers
<1>8. n >= 1
  <2>1. c.splits \in Nat /\ n = k + 2 * c.splits + 1
    BY <1>3, <1>4, ContentsAssumption DEF Spells
  <2> QED
    BY <2>1
<1>9. Latest'
  <2>1. lastSeq' = q + n - 1
    BY <1>1, <1>2, <1>4
  <2>2. \A i \in 1 .. Len(buf') : buf'[i].seq <= lastSeq'
    BY <1>1, <1>4, <1>7, <2>1
  <2>3. \A i \in Slots(files, active) : SeqAt(files, active, i) <= lastSeq'
    BY <1>5, <1>8, <2>1, ActiveBelow
  <2> QED
    BY <1>1, <2>2, <2>3 DEF Latest
<1>10. op'.step = "insert"
  BY <1>1
<1>11. op'.step \in Plain
  BY <1>10 DEF Plain, Steps
<1> QED
  BY <1>1, <1>5, <1>6, <1>9, <1>11, QuietAgree

LEMMA InsertRewindAgree ==
  ASSUME SegmentsSafe, LogInv, SeqInv, AgreeInv, InsertRewind
  PROVE  AgreeInv'
<1>1. /\ op.step = "insert" /\ files' = files /\ snap' = snap /\ man' = man
      /\ active' = active /\ maps' = maps
      /\ buf' = <<>> /\ op' = At("idle") /\ m' = [m EXCEPT !.nextSeq = op.rewindSeq]
  BY DEF InsertRewind, disk
<1>2. Up /\ op'.step = "idle"
  BY <1>1 DEF Up, At
<1>3. PICK i \in DOMAIN buf : lastSeq' = buf[i].seq
  BY DEF InsertRewind
<1>4. m'.sealed = m.sealed
  <2>1. m = [f \in ManifestFields |-> m[f]]
    BY DEF SegmentsSafe, WellFormed
  <2> QED
    BY <1>1, <2>1, Zenon DEF ManifestFields
<1>5. i \in 1 .. Len(buf) /\ buf[i].seq = FirstFree + i - 1 /\ FirstFree \in Int
  <2>1. i \in 1 .. Len(buf)
    BY LenProperties DEF LogInv, MemoryTypes
  <2> QED
    BY <1>2, <2>1, SlotsTyped DEF SeqInv, Numbering
<1>6. Latest'
  <2>1. \A j \in Slots(files, active) : SeqAt(files, active, j) <= lastSeq'
    BY <1>2, <1>3, <1>5, ActiveBelow, SlotsTyped
  <2> QED
    BY <1>1, <2>1 DEF Latest
<1>7. op'.step \in Plain
  BY <1>2 DEF Plain, Steps
<1> QED
  BY <1>1, <1>2, <1>4, <1>6, <1>7, QuietAgree

LEMMA AppendDeleteAgree ==
  ASSUME SegmentsSafe, LogInv, SeqInv, AgreeInv, NEW d \in Docs, AppendDelete(d)
  PROVE  AgreeInv'
<1>1. /\ op.step = "idle" /\ files' = files /\ snap' = snap /\ active' = active /\ man' = man
      /\ maps' = maps /\ buf' = <<DeleteRecord(m.nextSeq, d)>> /\ lastSeq' = m.nextSeq
      /\ m' = [m EXCEPT !.nextSeq = @ + 1] /\ op' = [step |-> "delete", doc |-> d]
  BY DEF AppendDelete, disk
<1>2. PICK q \in Nat : q = m.nextSeq
  BY SlotsTyped
<1>3. FirstFree = q /\ Up /\ buf = <<>>
  BY <1>1, <1>2 DEF FirstFree, LogInv, OpTypes, Up
<1>4. m'.sealed = m.sealed
  <2>1. m = [f \in ManifestFields |-> m[f]]
    BY DEF SegmentsSafe, WellFormed
  <2> QED
    BY <1>1, <2>1, Zenon DEF ManifestFields
<1>5. Len(buf') = 1 /\ buf'[1].seq = q
  BY <1>1, <1>2 DEF DeleteRecord
<1>6. Latest'
  <2>1. \A j \in Slots(files, active) : SeqAt(files, active, j) <= lastSeq'
    BY <1>1, <1>2, <1>3, ActiveBelow
  <2>2. \A i \in 1 .. Len(buf') : buf'[i].seq <= lastSeq'
    BY <1>1, <1>2, <1>5
  <2> QED
    BY <1>1, <2>1, <2>2 DEF Latest
<1>7. op'.step = "delete"
  BY <1>1
<1>8. op'.step \in Plain
  BY <1>7 DEF Plain, Steps
<1> QED
  BY <1>1, <1>3, <1>4, <1>6, <1>8, QuietAgree

LEMMA CompactFailsAgree ==
  ASSUME SegmentsSafe, LogInv, SeqInv, AgreeInv, CompactFails
  PROVE  AgreeInv'
<1>1. /\ op.step = "idle" /\ files' = files /\ snap' = snap /\ active' = active /\ man' = man
      /\ maps' = maps /\ buf' = buf /\ op' = op /\ lastSeq' = lastSeq
      /\ m' = [m EXCEPT !.nextSegmentId = @ + 1]
  BY DEF CompactFails, disk
<1>2. m'.sealed = m.sealed
  <2>1. m = [f \in ManifestFields |-> m[f]]
    BY DEF SegmentsSafe, WellFormed
  <2> QED
    BY <1>1, <2>1, Zenon DEF ManifestFields
<1>3. Up /\ op'.step \in Plain
  BY <1>1 DEF Up, Plain, Steps
<1>4. Latest'
  BY <1>1, <1>3, LatestStays
<1> QED
  BY <1>1, <1>2, <1>3, <1>4, QuietAgree

LEMMA FsyncAgree ==
  ASSUME SegmentsSafe, LogInv, SeqInv, AgreeInv, Fsync
  PROVE  AgreeInv'
<1>1. /\ op.step = "idle" /\ snap' = snap /\ active' = active /\ m' = m /\ man' = man
      /\ maps' = maps /\ buf' = buf /\ op' = op /\ lastSeq' = lastSeq
      /\ files' = [files EXCEPT ![active] = Synced(@)]
  BY DEF Fsync, memory
<1>2. Up /\ op'.step \in Plain
  BY <1>1 DEF Up, Plain, Steps
<1>3. /\ \A id \in DOMAIN files : files'[id].recs = files[id].recs
      /\ files'[active].recs = files[active].recs
      /\ files'[active].synced = Len(files'[active].recs)
  BY <1>1, <1>2, SyncGrows
<1>4. LogIds \subseteq DOMAIN files /\ man.active = active
  BY <1>1, LogThere
<1>5. \A i \in Slots(files, man.active) : i <= files'[man.active].synced
  BY <1>2, <1>3, <1>4, ActiveFacts, SlotsTyped
<1>6. Latest'
  BY <1>1, <1>2, <1>3, LatestStays
<1> QED
  BY <1>1, <1>2, <1>3, <1>4, <1>5, <1>6, QuietAgree

LEMMA SnapshotPublishAgree ==
  ASSUME SegmentsSafe, LogInv, SeqInv, AgreeInv, SnapshotPublish
  PROVE  AgreeInv'
<1>1. /\ op.step = "snapshotPublish" /\ m' = [m EXCEPT !.snapshotSeq = SnapshotSeq]
      /\ op' = At("idle") /\ files' = files /\ snap' = snap /\ active' = active
      /\ buf' = buf /\ maps' = maps /\ man' = m' /\ lastSeq' = lastSeq
  BY DEF SnapshotPublish
<1>2. Up /\ op'.step = "idle"
  BY <1>1 DEF Up, At
<1>3. m'.sealed = m.sealed /\ m'.active = m.active
  <2>1. m = [f \in ManifestFields |-> m[f]]
    BY DEF SegmentsSafe, WellFormed
  <2> QED
    BY <1>1, <2>1, Zenon DEF ManifestFields
<1>4. man'.sealed = m.sealed /\ man'.active = man.active
  BY <1>1, <1>3, LogThere DEF SegmentsSafe, ActiveApart
<1>5. op'.step \in Plain
  BY <1>2 DEF Plain, Steps
<1>6. Latest'
  BY <1>1, <1>2, LatestStays
<1> QED
  BY <1>1, <1>2, <1>3, <1>4, <1>5, <1>6, QuietAgree

LEMMA CompactRemoveAgree ==
  ASSUME SegmentsSafe, LogInv, SeqInv, AgreeInv, CompactRemove
  PROVE  AgreeInv'
<1>1. /\ op.step = "compactRemove" /\ op' = At("snapshot") /\ snap' = snap /\ m' = m
      /\ active' = active /\ buf' = buf /\ maps' = maps /\ man' = man /\ lastSeq' = lastSeq
      /\ files' = [id \in DOMAIN files \cap (SealedIds(m) \cup {active}) |-> files[id]]
  BY DEF CompactRemove, memory
<1>2. Up /\ op'.step = "snapshot"
  BY <1>1 DEF Up, At
<1>3. LogIds \subseteq DOMAIN files /\ man.active = active /\ m = man
  BY <1>1, LogThere DEF SegmentsSafe, ManifestsAgree
<1>4. \A id \in LogIds : files'[id] = files[id]
  BY <1>1, <1>3 DEF LogIds
<1>5. op'.step \in Plain
  BY <1>2 DEF Plain, Steps
<1>6. man.active \in LogIds
  BY DEF LogIds
<1>7. Latest'
  BY <1>1, <1>2, <1>3, <1>4, <1>6, LatestStays
<1> QED
  BY <1>1, <1>2, <1>4, <1>5, <1>6, <1>7, QuietAgree

-----------------------------------------------------------------------------
(* Snapshots and seals *)

(* Outside a compaction's last steps the log is below the next write. *)
LEMMA LogBelow ==
  ASSUME SegmentsSafe, LogInv, SeqInv, AgreeInv, Up,
         op.step \notin {"sealPublish", "compactPublish"}, NEW x \in Log
  PROVE  RecOf(files, x).seq < FirstFree /\ RecOf(files, x).seq \in Nat
<1>1. x.seg \in LogIds /\ x.off \in Slots(files, x.seg)
  BY LogIn DEF Log
<1>2. LogIds \subseteq SealedIds(m) \cup {active} /\ LogIds \subseteq DOMAIN files
  BY LogThere DEF LogIds, AgreeInv, Apart
<1> QED
  BY <1>1, <1>2, BelowFree, SlotsTyped DEF RecOf, SeqAt

(* A snapshot is taken of maps that agree with all the log. *)
LEMMA SnapshotWriteAgree ==
  ASSUME SegmentsSafe, LogInv, SeqInv, AgreeInv, SnapshotWrite
  PROVE  AgreeInv'
<1>1. /\ op.step \in {"idle", "snapshot"} /\ active' = active /\ m' = m /\ man' = man
      /\ maps' = maps /\ buf' = buf /\ op' = At("snapshotPublish") /\ lastSeq' = lastSeq
      /\ snap' = [exists |-> TRUE, seq |-> SnapshotSeq, maps |-> maps]
      /\ files' = [files EXCEPT ![active] = Synced(@)]
  BY DEF SnapshotWrite, memory
<1>2. Up /\ op'.step = "snapshotPublish" /\ buf = <<>>
  BY <1>1 DEF Up, At, LogInv, OpTypes
<1>3. /\ \A id \in DOMAIN files : files'[id].recs = files[id].recs
      /\ files'[active].recs = files[active].recs
      /\ files'[active].synced = Len(files'[active].recs)
  BY <1>1, <1>2, SyncGrows
<1>4. LogIds \subseteq DOMAIN files /\ man.active = active
  BY <1>1, LogThere
<1>5. PICK n \in Nat : n = m.nextSeq
  BY SlotsTyped
<1>6. FirstFree = n /\ SnapshotSeq = n - 1
  BY <1>2, <1>5 DEF FirstFree, SnapshotSeq
<1>7. snap'.seq = n - 1 /\ snap'.maps = maps'
  BY <1>1, <1>6
<1>8. /\ SealedIds(m') = SealedIds(man') /\ LogIds' = LogIds
      /\ SameLog(files, files', LogIds)
      /\ Rising(files', man'.sealed) /\ Rising(files', m'.sealed)
      /\ Agrees(files', Log', maps')
  BY <1>1, <1>2, <1>3, <1>4, LogRests
<1>9. Apart' /\ Chosen'
  BY <1>2, <1>8 DEF Apart, Chosen
<1>10. Latest'
  BY <1>1, <1>2, <1>3, LatestStays
<1>11. Covered'
  <2>1. \A i \in Slots(files, active) : i <= files'[active].synced
    BY <1>2, <1>3, ActiveFacts, SlotsTyped
  <2>2. Slots(files', active) = Slots(files, active)
    BY <1>3 DEF Slots
  <2> QED
    BY <1>1, <1>4, <2>1, <2>2 DEF Covered
<1>12. UpTo(files', Log', n - 1) = Log'
  <2>1. ASSUME NEW x \in Log' PROVE RecOf(files', x).seq <= n - 1
    <3>1. PICK fs, gs, ids : fs = files /\ gs = files' /\ ids = LogIds /\ ids = LogIds'
      BY <1>8
    <3>2. Log = LogOf(fs, ids) /\ Log' = LogOf(gs, ids) /\ SameLog(fs, gs, ids)
      BY <1>8, <3>1 DEF Log
    <3>3. x \in LogOf(fs, ids) /\ RecOf(gs, x) = RecOf(fs, x)
      BY <2>1, <3>2, LogUnmoved
    <3>4. RecOf(files, x).seq < n /\ RecOf(files, x).seq \in Nat
      BY <1>1, <1>2, <1>6, <3>2, <3>3, LogBelow
    <3> QED
      BY <1>5, <3>1, <3>3, <3>4
  <2> QED
    BY <2>1 DEF UpTo
<1> QED
  BY <1>7, <1>8, <1>9, <1>10, <1>11, <1>12 DEF AgreeInv

(* The active segment follows the sealed ones. *)
LEMMA RisingAppended ==
  ASSUME NEW fs, NEW sealed, NEW info, NEW longer, Rising(fs, sealed), Len(sealed) \in Nat,
         Len(longer) = Len(sealed) + 1, \A i \in 1 .. Len(sealed) : longer[i] = sealed[i],
         longer[Len(sealed) + 1] = info, InTurn(fs, info.id), info.last \in Nat,
         \A p \in Slots(fs, info.id) : SeqAt(fs, info.id, p) <= info.last,
         \A i \in 1 .. Len(sealed) : \A p \in Slots(fs, sealed[i].id), q \in Slots(fs, info.id) :
           SeqAt(fs, sealed[i].id, p) < SeqAt(fs, info.id, q)
  PROVE  Rising(fs, longer)
<1>1. PICK n \in Nat : n = Len(sealed)
  OBVIOUS
<1>2. ASSUME NEW i \in 1 .. n + 1 PROVE i \in 1 .. n \/ i = n + 1
  BY <1>1
<1>3. ASSUME NEW i \in 1 .. Len(longer)
      PROVE  /\ InTurn(fs, longer[i].id) /\ longer[i].last \in Nat
             /\ \A p \in Slots(fs, longer[i].id) : SeqAt(fs, longer[i].id, p) <= longer[i].last
  <2>1. CASE i \in 1 .. n
    <3>1. longer[i] = sealed[i]
      BY <1>1, <2>1
    <3> QED
      BY <1>1, <2>1, <3>1 DEF Rising
  <2>2. CASE i = n + 1
    <3>1. longer[i] = info
      BY <1>1, <2>2
    <3> QED
      BY <3>1
  <2> QED
    BY <1>1, <1>2, <2>1, <2>2
<1>4. ASSUME NEW i \in 1 .. Len(longer), NEW j \in 1 .. Len(longer), i < j,
             NEW p \in Slots(fs, longer[i].id), NEW q \in Slots(fs, longer[j].id)
      PROVE  SeqAt(fs, longer[i].id, p) < SeqAt(fs, longer[j].id, q)
  <2>1. i \in 1 .. n
    BY <1>1, <1>4
  <2>2. CASE j \in 1 .. n
    BY <1>1, <1>4, <2>1, <2>2 DEF Rising
  <2>3. CASE j = n + 1
    BY <1>1, <1>4, <2>1, <2>3
  <2> QED
    BY <1>1, <1>2, <2>2, <2>3
<1> QED
  BY <1>3, <1>4 DEF Rising

(* Rising numbers are in turn. *)
LEMMA ActiveInTurn ==
  ASSUME NEW fs, NEW ids, NEW a, NEW n, Numbered(fs, ids, a, n)
  PROVE  InTurn(fs, a)
  BY DEF Numbered, InTurn, SeqAt

LEMMA SealActiveAgree ==
  ASSUME SegmentsSafe, LogInv, SeqInv, AgreeInv, SealActive
  PROVE  AgreeInv'
<1>1. PICK info : info = [id |-> active, bytes |-> ActiveLen, last |-> lastSeq]
  OBVIOUS
<1>2. /\ op.step \in {"idle", "seal"} /\ op' = At("sealPublish") /\ man' = man
      /\ snap' = snap /\ buf' = buf /\ maps' = maps /\ lastSeq' = 0
      /\ \E id, t : m' = [m EXCEPT !.nextSegmentId = @ + 1, !.sealed = Append(@, info),
                                   !.active = id, !.tombstones = t]
  BY <1>1 DEF SealActive
<1>3. Up /\ op'.step = "sealPublish" /\ buf = <<>>
  BY <1>2 DEF Up, At, LogInv, OpTypes
<1>4. /\ files'[active'].recs = <<>>
      /\ files'[active].recs = files[active].recs
      /\ files'[active].synced = Len(files[active].recs)
      /\ \A i \in DOMAIN files : files'[i].recs = files[i].recs
      /\ SealedIds(m') = SealedIds(m) \cup {active}
  BY SealSwaps
<1>5. LogIds \subseteq DOMAIN files /\ man.active = active
  BY <1>2, LogThere
<1>6. m'.sealed = Append(m.sealed, info)
  <2>1. m = [f \in ManifestFields |-> m[f]]
    BY DEF SegmentsSafe, WellFormed
  <2> QED
    BY <1>2, <2>1, Zenon DEF ManifestFields
<1>7. LogIds' = LogIds /\ SealedIds(m) = SealedIds(man)
  <2>1. SealedIds(m) = SealedIds(man)
    BY <1>2, <1>3 DEF AgreeInv, Apart
  <2>2. LogIds' = LogIds
    BY <1>2 DEF LogIds, SealedIds
  <2> QED
    BY <2>1, <2>2
<1>8. PICK fs, gs, ids : fs = files /\ gs = files' /\ ids = LogIds
  OBVIOUS
<1>9. SameLog(fs, gs, ids)
  BY <1>4, <1>5, <1>8, SameRecs
<1>10. /\ Rising(files', man'.sealed) /\ Agrees(files', Log', maps')
       /\ snap.exists => Agrees(files', UpTo(files', Log', snap'.seq), snap'.maps)
  BY <1>2, <1>3, <1>7, <1>8, <1>9, LogStays
<1>11. Rising(files', m'.sealed)
  <2>1. PICK sealed, longer : sealed = m.sealed /\ longer = m'.sealed
    OBVIOUS
  <2>2. PICK S : S = {sealed[i] : i \in DOMAIN sealed} /\ sealed \in Seq(S)
    BY <2>1, Zenon DEF SegmentsSafe, WellFormed
  <2>3. PICK q \in Seq(S \cup {info}) : q = sealed
    BY <2>2, SeqMonotonic
  <2>4. /\ Len(q) \in Nat /\ Len(Append(q, info)) = Len(q) + 1
        /\ \A i \in 1 .. Len(q) : Append(q, info)[i] = q[i]
        /\ Append(q, info)[Len(q) + 1] = info
    BY <2>3, LenProperties, AppendProperties
  <2>5. /\ Len(sealed) \in Nat /\ Len(longer) = Len(sealed) + 1
        /\ \A i \in 1 .. Len(sealed) : longer[i] = sealed[i]
        /\ longer[Len(sealed) + 1] = info
    BY <1>6, <2>1, <2>3, <2>4
  <2>6. \A i \in 1 .. Len(sealed) : sealed[i].id \in SealedIds(m)
    BY <2>1, SealedIdIn DEF SegmentsSafe
  <2>7. Numbered(files, SealedIds(m), active, FirstFree)
    BY <1>3 DEF SeqInv, Numbering
  <2>8. info.id = active /\ info.last = lastSeq /\ lastSeq \in Nat
    BY <1>1 DEF LogInv, MemoryTypes
  <2>9. InTurn(fs, info.id)
    BY <1>8, <2>7, <2>8, ActiveInTurn
  <2>10. \A p \in Slots(fs, info.id) : SeqAt(fs, info.id, p) <= info.last
    BY <1>3, <1>8, <2>8 DEF AgreeInv, Latest
  <2>11. \A i \in 1 .. Len(sealed) : \A p \in Slots(fs, sealed[i].id), q1 \in Slots(fs, info.id) :
           SeqAt(fs, sealed[i].id, p) < SeqAt(fs, info.id, q1)
    BY <1>8, <2>6, <2>7, <2>8 DEF Numbered
  <2>12. Rising(fs, sealed)
    BY <1>8, <2>1 DEF AgreeInv
  <2>13. Rising(fs, longer)
    BY <2>5, <2>8, <2>9, <2>10, <2>11, <2>12, RisingAppended
  <2>14. \A i \in 1 .. Len(longer) : longer[i].id \in ids
    <3>1. PICK n \in Nat : n = Len(sealed)
      BY <2>5
    <3>2. ASSUME NEW i \in 1 .. n + 1 PROVE i \in 1 .. n \/ i = n + 1
      BY <3>1
    <3> QED
      BY <1>5, <1>7, <1>8, <2>5, <2>6, <2>8, <3>1, <3>2 DEF LogIds
  <2>15. Rising(gs, longer)
    BY <1>9, <2>13, <2>14, RisingUnmoved
  <2> QED
    BY <1>8, <2>1, <2>15
<1>12. Latest'
  BY <1>2, <1>3, <1>4 DEF Latest, Slots
<1>13. Apart' /\ Chosen'
  <2>1. SealedIds(m') = SealedIds(man') \cup {man'.active}
    BY <1>2, <1>4, <1>5, <1>7
  <2> QED
    BY <1>3, <2>1 DEF Apart, Chosen
<1>14. Covered'
  <2>1. \A i \in Slots(files, man.active) : i <= files'[man.active].synced
    BY <1>3, <1>4, <1>5, ActiveFacts, SlotsTyped
  <2> QED
    BY <1>2, <1>8, <1>9, <2>1, CoveredStays
<1> QED
  BY <1>2, <1>10, <1>11, <1>12, <1>13, <1>14 DEF AgreeInv

LEMMA SealPublishAgree ==
  ASSUME SegmentsSafe, LogInv, SeqInv, AgreeInv, SealPublish
  PROVE  AgreeInv'
<1>1. /\ op.step = "sealPublish" /\ op' = At("idle") /\ files' = files /\ snap' = snap
      /\ m' = m /\ active' = active /\ buf' = buf /\ maps' = maps /\ man' = m
      /\ lastSeq' = lastSeq
  BY DEF SealPublish, memory
<1>2. Up /\ op'.step = "idle" /\ m.active = active
  BY <1>1 DEF Up, At, SegmentsSafe, ActiveApart
<1>3. files[active] = EmptySegment /\ SealedIds(m) = LogIds
  BY <1>1 DEF SeqInv, Placed, AgreeInv, Apart, LogIds
<1>4. Slots(files, active) = {}
  BY <1>3 DEF Slots, EmptySegment
<1>5. LogIds' = LogIds \cup {active}
  BY <1>1, <1>2, <1>3 DEF LogIds
<1>6. Log' = Log
  <2>1. ASSUME NEW x PROVE x \in LogOf(files, LogIds \cup {active}) <=> x \in LogOf(files, LogIds)
    BY <1>4, LogIn
  <2>2. Log' = LogOf(files, LogIds \cup {active})
    BY <1>1, <1>5 DEF Log
  <2> QED
    BY <2>1, <2>2 DEF Log
<1>7. Latest'
  BY <1>1, <1>2, LatestStays
<1>8. Apart' /\ Chosen'
  BY <1>1, <1>2 DEF Apart, Chosen
<1>9. Covered'
  BY <1>1, <1>2, <1>4 DEF Covered
<1> QED
  BY <1>1, <1>2, <1>6, <1>7, <1>8, <1>9 DEF AgreeInv

-----------------------------------------------------------------------------
(* Compactions *)

LEMMA CompactWriteAgree ==
  ASSUME SegmentsSafe, LogInv, SeqInv, AgreeInv, CompactWrite
  PROVE  AgreeInv'
<1>0. PICK new, s, r : /\ new = m.nextSegmentId /\ s = CopyOrder
                       /\ r = [i \in DOMAIN CopyOrder |-> RecordAt(CopyOrder[i])]
  OBVIOUS
<1>1. /\ op.step = "idle" /\ snap' = snap /\ active' = active /\ man' = man
      /\ buf' = buf /\ maps' = maps /\ m' = [m EXCEPT !.nextSegmentId = @ + 1]
      /\ op' = [step |-> "compactUnsnap", seg |-> new, order |-> s] /\ lastSeq' = lastSeq
  BY <1>0 DEF CompactWrite
<1>2. Up /\ op'.step = "compactUnsnap" /\ op'.order = s
  BY <1>1 DEF Up
<1>3. m'.sealed = m.sealed
  <2>1. m = [f \in ManifestFields |-> m[f]]
    BY DEF SegmentsSafe, WellFormed
  <2> QED
    BY <1>1, <2>1, Zenon DEF ManifestFields
<1>4. CompactAdds(new, r)
  BY <1>0, CompactAddsFile
<1>5. LogIds \subseteq DOMAIN files /\ man.active = active
  BY <1>1, LogThere
<1>6. \A id \in LogIds : files'[id] = files[id]
  BY <1>4, <1>5 DEF CompactAdds
<1>7. man.active \in LogIds
  BY DEF LogIds
<1>8. /\ SealedIds(m') = SealedIds(man') /\ SameLog(files, files', LogIds)
      /\ Rising(files', man'.sealed) /\ Rising(files', m'.sealed)
      /\ Agrees(files', Log', maps')
      /\ snap.exists => Agrees(files', UpTo(files', Log', snap'.seq), snap'.maps)
  BY <1>1, <1>2, <1>3, <1>6, LogRests
<1>9. Latest'
  BY <1>1, <1>2, <1>5, <1>6, <1>7, LatestStays
<1>10. Covered'
  BY <1>1, <1>6, <1>7, <1>8, CoveredStays
<1>11. Apart'
  BY <1>2, <1>8 DEF Apart
<1>12. Chosen'
  <2>1. maps \in AllMaps
    BY DEF LogInv, MemoryTypes
  <2>2. PICK t : Tags(t, s)
    BY <1>0, <2>1, CopyOrderTags
  <2>3. \A i \in 1 .. Len(s) : t[i] \in Refs(maps) /\ t[i].loc = s[i]
    BY <2>2, ElementOfSeq, Zenon DEF Tags
  <2> QED
    BY <1>1, <1>2, <2>3 DEF Chosen
<1> QED
  BY <1>1, <1>8, <1>9, <1>10, <1>11, <1>12 DEF AgreeInv

(* What a compaction copied: the record that a reference of the maps means. *)
LEMMA CopiedMeant ==
  ASSUME LogInv, SeqInv, AgreeInv, op.step \in {"compactUnsnap", "compactPublish"},
         NEW i \in 1 .. Len(op.order)
  PROVE  /\ \E x \in Refs(maps) : x.loc = op.order[i] /\ Meant(x, files[op.seg].recs[i])
         /\ Decisive(files[op.seg].recs[i]) =>
              LET r == files[op.seg].recs[i]
              IN  /\ r.kind = "Doc" /\ r.doc \in DOMAIN maps.docs
                  /\ maps.docs[r.doc].seq = r.seq /\ maps.docs[r.doc].loc = op.order[i]
<1>1. PICK x \in Refs(maps) : x.loc = op.order[i]
  BY DEF AgreeInv, Chosen
<1>2. PICK r : r = files[op.seg].recs[i]
  OBVIOUS
<1>3. x.loc.seg \in DOMAIN files /\ r = files[x.loc.seg].recs[x.loc.off]
  BY <1>1, <1>2 DEF SeqInv, Copied
<1>4. Up
  BY DEF Up
<1>5. Meant(x, r)
  BY <1>3, <1>4 DEF SeqInv, References, Resolve, Right
<1>6. ASSUME Decisive(r)
      PROVE  /\ r.kind = "Doc" /\ r.doc \in DOMAIN maps.docs
             /\ maps.docs[r.doc].seq = r.seq /\ maps.docs[r.doc].loc = op.order[i]
  <2>1. x.kind \in {"Doc", "Split", "Summary"} /\ x.kind = r.kind /\ x.doc = r.doc
    BY <1>5 DEF Meant, Refs, DocRefs, PartRefs, Ref
  <2>2. x.kind = "Doc"
    BY <1>6, <2>1 DEF Decisive
  <2>3. x.doc \in DOMAIN maps.docs
    BY <2>2 DEF Refs, DocRefs, PartRefs, Ref
  <2> QED
    BY <1>1, <1>5, <2>1, <2>2, <2>3, DocRefSeq DEF Meant
<1> QED
  BY <1>1, <1>2, <1>5, <1>6

(* The segment a compaction wrote replays in turn, below what the manifest *)
(* says of it.                                                             *)
LEMMA OutputInTurn ==
  ASSUME SegmentsSafe, LogInv, SeqInv, AgreeInv, op.step = "compactUnsnap", op.order # <<>>
  PROVE  InTurn(files, op.seg)
<1>1. PICK a, fs : a = op.seg /\ fs = files
  OBVIOUS
<1>2. a \in DOMAIN fs /\ Len(fs[a].recs) = Len(op.order)
  BY <1>1 DEF SeqInv, Copied
<1>3. Numbered(fs, {a}, active, m.nextSeq)
  BY <1>1 DEF SeqInv, Copied
<1>4. ASSUME NEW i \in Slots(fs, a) PROVE i \in 1 .. Len(op.order)
  BY <1>1, <1>2, SlotsTyped
<1>5. ASSUME NEW i \in Slots(fs, a), NEW j \in Slots(fs, a), i < j,
             Decisive(fs[a].recs[i]), Decisive(fs[a].recs[j]),
             fs[a].recs[i].doc = fs[a].recs[j].doc
      PROVE  FALSE
  <2>1. fs[a].recs[i].seq = maps.docs[fs[a].recs[i].doc].seq
    BY <1>1, <1>4, <1>5, CopiedMeant, Zenon
  <2>2. fs[a].recs[j].seq = maps.docs[fs[a].recs[j].doc].seq
    BY <1>1, <1>4, <1>5, CopiedMeant, Zenon
  <2>3. i = j
    BY <1>3, <1>5, <2>1, <2>2 DEF Numbered, SeqAt
  <2>4. i \in Nat
    BY <1>1, <1>2, SlotsTyped
  <2> QED
    BY <1>5, <2>3, <2>4
<1>6. InTurn(fs, a)
  BY <1>5 DEF InTurn
<1> QED
  BY <1>1, <1>6

LEMMA OutputLast ==
  ASSUME SegmentsSafe, LogInv, SeqInv, op.step = "compactUnsnap", op.order # <<>>, NEW seqs,
         seqs = {RecordAt(op.order[i]).seq : i \in DOMAIN op.order}, NEW last,
         last = CHOOSE s \in seqs : \A t \in seqs : t <= s
  PROVE  last \in Nat /\ \A i \in Slots(files, op.seg) : SeqAt(files, op.seg, i) <= last
<1>1. PICK a, s : a = op.seg /\ s = op.order /\ s \in Seq(Locs)
  BY DEF LogInv, OpTypes
<1>2. PICK n \in Nat : n = Len(s) /\ DOMAIN s = 1 .. n
  BY <1>1, LenProperties
<1>3. n # 0
  BY <1>1, <1>2, EmptySeq
<1>4. a \in DOMAIN files /\ Len(files[a].recs) = n /\ files[a].recs \in Seq(LogRecords)
  <2>1. TornAtTail /\ Copied
    BY DEF LogInv, SeqInv
  <2>2. a \in DOMAIN files /\ Len(files[a].recs) = n
    BY <1>1, <1>2, <2>1 DEF Copied
  <2>3. files[a].recs \in Seq(LogRecords)
    BY <1>1, <2>1 DEF TornAtTail
  <2> QED
    BY <2>2, <2>3
<1>5. ASSUME NEW i \in 1 .. n PROVE RecordAt(s[i]).seq = files[a].recs[i].seq
  BY <1>1, <1>2, Zenon DEF SeqInv, Copied, RecordAt
<1>6. ASSUME NEW i \in 1 .. n PROVE files[a].recs[i].seq \in Nat
  <2>1. files[a].recs[i] \in LogRecords
    BY <1>4, ElementOfSeq
  <2> QED
    BY <2>1 DEF LogRecords, PartRecords, DeleteRecords, DocRecords
<1>7. PICK f : f = [i \in 1 .. n |-> RecordAt(s[i]).seq]
  OBVIOUS
<1>8. seqs = {f[i] : i \in 1 .. n}
  BY <1>1, <1>2, <1>7
<1>9. PICK D : D = 1 .. n /\ IsFiniteSet(D)
  BY FS_Interval
<1>10. IsFiniteSet(seqs)
  <2>1. PICK V : V = {f[i] : i \in D}
    OBVIOUS
  <2>2. IsFiniteSet(V)
    BY <1>9, <2>1, FiniteValues
  <2> QED
    BY <1>8, <1>9, <2>1, <2>2
<1>11. \A i \in 1 .. n : f[i] \in Nat /\ f[i] \in seqs
  BY <1>5, <1>6, <1>7, <1>8
<1>12. seqs \subseteq Nat /\ seqs # {}
  <2>1. 1 \in 1 .. n
    BY <1>3
  <2> QED
    BY <1>8, <1>11, <2>1
<1>13. \E t \in seqs : \A u \in seqs : u <= t
  BY <1>10, <1>12, LargestNumber
<1>14. last \in seqs /\ \A u \in seqs : u <= last
  BY <1>13
<1>15. ASSUME NEW i \in Slots(files, a) PROVE SeqAt(files, a, i) \in seqs
  <2>1. i \in 1 .. n
    BY <1>4, SlotsTyped
  <2> QED
    BY <1>5, <1>7, <1>11, <2>1 DEF SeqAt
<1> QED
  BY <1>1, <1>12, <1>14, <1>15

LEMMA CompactUnsnapAgree ==
  ASSUME SegmentsSafe, LogInv, SeqInv, AgreeInv, CompactUnsnap
  PROVE  AgreeInv'
<1>0. PICK s, seqs, last, info :
        /\ s = op.order /\ seqs = {RecordAt(op.order[i]).seq : i \in DOMAIN op.order}
        /\ last = CHOOSE t \in seqs : \A u \in seqs : u <= t
        /\ info = [id |-> op.seg, bytes |-> Len(op.order), last |-> last]
  OBVIOUS
<1>1. /\ op.step = "compactUnsnap" /\ snap' = NoSnapshot
      /\ op' = [step |-> "compactPublish", seg |-> op.seg, order |-> s]
      /\ files' = files /\ man' = man /\ active' = active /\ buf' = buf /\ maps' = maps
      /\ lastSeq' = lastSeq
      /\ m' = [m EXCEPT !.snapshotSeq = 0, !.sealed = IF s = <<>> THEN <<>> ELSE <<info>>,
                        !.tombstones = 0]
  BY <1>0 DEF CompactUnsnap
<1>2. /\ Up /\ op'.step = "compactPublish" /\ op'.seg = op.seg /\ op'.order = s
      /\ man.active = active
  BY <1>1, LogThere DEF Up
<1>3. m'.sealed = (IF s = <<>> THEN <<>> ELSE <<info>>)
  <2>1. m = [f \in ManifestFields |-> m[f]]
    BY DEF SegmentsSafe, WellFormed
  <2> QED
    BY <1>1, <2>1, Zenon DEF ManifestFields
<1>4. SealedIds(m') = IF s = <<>> THEN {} ELSE {op.seg}
  <2>1. info.id = op.seg
    BY <1>0
  <2> QED
    BY <1>3, <2>1, EmptyIds, SingleIds
<1>5. snap'.exists = FALSE
  BY <1>1, Zenon DEF NoSnapshot
<1>6. LogIds' = LogIds /\ Log' = Log
  BY <1>1 DEF LogIds, Log
<1>7. Rising(files, m'.sealed)
  <2>1. CASE s = <<>>
    <3>1. PICK e : e = <<>>
      OBVIOUS
    <3>2. m'.sealed = e /\ Len(e) = 0
      BY <1>3, <2>1, <3>1
    <3>3. \A i \in 1 .. 0 : FALSE
      OBVIOUS
    <3> QED
      BY <3>2, <3>3 DEF Rising
  <2>2. CASE s # <<>>
    <3>1. info.id = op.seg /\ info.last = last /\ last \in Nat
      BY <1>0, <1>1, <2>2, OutputLast
    <3>2. \A i \in Slots(files, op.seg) : SeqAt(files, op.seg, i) <= last
      BY <1>0, <1>1, <2>2, OutputLast
    <3>3. InTurn(files, op.seg)
      BY <1>0, <1>1, <2>2, OutputInTurn
    <3>4. PICK one : one = <<info>>
      OBVIOUS
    <3>5. m'.sealed = one /\ Len(one) = 1 /\ one[1] = info
      BY <1>3, <2>2, <3>4
    <3>6. \A i \in 1 .. Len(one) : i = 1
      BY <3>5
    <3>7. Rising(files, one)
      <4>1. \A i \in 1 .. Len(one) : one[i] = info
        BY <3>5, <3>6
      <4>2. \A i, j \in 1 .. Len(one) : ~ i < j
        BY <3>6
      <4> QED
        BY <3>1, <3>2, <3>3, <4>1, <4>2 DEF Rising
    <3> QED
      BY <3>5, <3>7
  <2> QED
    BY <2>1, <2>2
<1>8. Latest'
  BY <1>1, <1>2, LatestStays
<1>9. Apart'
  <2>1. ~ snap'.exists
    BY <1>5, Zenon
  <2> QED
    BY <1>2, <1>4, <2>1 DEF Apart
<1>10. Chosen'
  BY <1>0, <1>1, <1>2 DEF AgreeInv, Chosen
<1>11. Covered'
  BY <1>5, Zenon DEF Covered
<1>12. Rising(files', man'.sealed) /\ (Up => Agrees(files', Log', maps'))
  BY <1>1, <1>6 DEF AgreeInv
<1>13. snap'.exists => Agrees(files', UpTo(files', Log', snap'.seq), snap'.maps)
  BY <1>5, Zenon
<1> QED
  BY <1>1, <1>2, <1>7, <1>8, <1>9, <1>10, <1>11, <1>12, <1>13 DEF AgreeInv

(* The manifest with the output replaces the one it was copied from: the   *)
(* last word on a document stays the record it was, or its copy            *)
(* (compact.rs:5).                                                         *)
LEMMA PublishFinal ==
  ASSUME SegmentsSafe, LogInv, SeqInv, OwnInv, AgreeInv, CompactPublish,
         NEW d \in DOMAIN maps.docs
  PROVE  Final(files, LogOf(files, SealedIds(m) \cup {active}), d, Relocate(maps.docs[d].loc))
<1>1. op.step = "compactPublish" /\ Up /\ man.active = active
  BY LogThere DEF CompactPublish, Up
<1>2. PICK fs, a, s, ord, N, P, Q :
        /\ fs = files /\ a = active /\ s = op.seg /\ ord = op.order /\ N = Len(op.order)
        /\ P = Log /\ Q = LogOf(files, SealedIds(m) \cup {active})
  OBVIOUS
<1>3. SealedIds(m) = IF ord = <<>> THEN {} ELSE {s}
  BY <1>1, <1>2 DEF AgreeInv, Apart
<1>4. PICK e, new : e = maps.docs[d].loc /\ new = Relocate(maps.docs[d].loc)
  OBVIOUS
<1>5. Final(fs, P, d, e)
  BY <1>1, <1>2, <1>4 DEF AgreeInv, Agrees
<1>6. e \in P /\ Decides(fs, e, d) /\ RecOf(fs, e).kind = "Doc"
  BY <1>5 DEF Final, LastOn
<1>7. ASSUME NEW y PROVE y \in Q <=> y \in Locs /\ y.seg \in SealedIds(m) \cup {a}
                                                /\ y.off \in Slots(fs, y.seg)
  BY <1>2, LogIn
<1>8. ASSUME NEW y PROVE y \in P <=> y \in Locs /\ y.seg \in SealedIds(man) \cup {a}
                                                /\ y.off \in Slots(fs, y.seg)
  BY <1>1, <1>2, LogIn DEF Log, LogIds
<1>9. new \in Locs
  <2>1. e \in Locs
    BY <1>6, <1>8
  <2>2. op.order \in Seq(Locs) /\ op.seg \in Nat
    BY <1>1 DEF LogInv, OpTypes
  <2> QED
    BY <1>4, <2>1, <2>2, RelocateTyped
<1>10. \/ new = e /\ \A i \in 1 .. N : ord[i] # e
       \/ \E i \in 1 .. N : ord[i] = e /\ new.seg = s /\ new.off = i
  BY <1>1, <1>2, <1>4, RelocateTo
<1>11. \A i \in 1 .. N : /\ ord[i].seg # a
                         /\ fs[s].recs[i] = fs[ord[i].seg].recs[ord[i].off]
  BY <1>1, <1>2 DEF SeqInv, Copied
<1>12. Numbered(fs, SealedIds(m), a, FirstFree)
  BY <1>1, <1>2 DEF SeqInv, Numbering
<1>13. ASSUME NEW y \in Q, Decides(fs, y, d), y.seg = a
       PROVE  y = e \/ RecOf(fs, y).seq < RecOf(fs, e).seq
  <2>1. y \in P
    BY <1>7, <1>8, <1>13
  <2> QED
    BY <1>5, <1>13, <2>1 DEF Final, LastOn
<1>14. CASE e.seg = a
  <2>1. new = e
    BY <1>10, <1>11, <1>14
  <2>2. e \in Q
    BY <1>6, <1>7, <1>8, <1>14
  <2>3. ASSUME NEW y \in Q, y.seg # a PROVE RecOf(fs, y).seq < RecOf(fs, e).seq
    <3>1. y.seg \in SealedIds(m) /\ y.off \in Slots(fs, y.seg) /\ e.off \in Slots(fs, a)
      BY <1>7, <1>14, <2>2, <2>3
    <3> QED
      BY <1>12, <1>14, <3>1 DEF Numbered, SeqAt, RecOf
  <2>4. LastOn(fs, Q, d, e)
    BY <1>6, <1>13, <2>2, <2>3 DEF LastOn
  <2> QED
    BY <1>2, <1>4, <1>6, <2>1, <2>4 DEF Final
<1>15. CASE e.seg # a
  <2>1. Carried(d)
    BY <1>1, <1>2, <1>4, <1>15 DEF OwnInv, Living
  <2>2. \E i \in 1 .. N : ord[i] = e
    BY <1>2, <1>4, <2>1 DEF Carried, InOrder
  <2>3. PICK i \in 1 .. N : ord[i] = e /\ new.seg = s /\ new.off = i
    BY <1>10, <2>2
  <2>4. RecOf(fs, new) = RecOf(fs, e)
    BY <1>11, <2>3 DEF RecOf
  <2>5. N \in Nat /\ ord # <<>>
    <3>1. ord \in Seq(Locs)
      BY <1>1, <1>2 DEF LogInv, OpTypes
    <3>2. N \in Nat
      BY <1>2, <3>1, LenProperties
    <3>3. N # 0
      BY <2>3, <3>2
    <3>4. Len(ord) = N
      BY <1>2
    <3>5. ord # <<>>
      BY <3>1, <3>3, <3>4, EmptySeq
    <3> QED
      BY <3>2, <3>5
  <2>6. s \in SealedIds(m) /\ s \in DOMAIN fs /\ DOMAIN fs[s].recs = 1 .. N
    <3>1. s \in DOMAIN fs /\ Len(fs[s].recs) = N
      BY <1>1, <1>2, <2>5 DEF SeqInv, Copied
    <3>2. fs[s].recs \in Seq(LogRecords \cup {Torn})
      BY <1>2, <3>1 DEF LogInv, DiskTypes, FilesTyped, Segments
    <3>3. DOMAIN fs[s].recs = 1 .. Len(fs[s].recs)
      BY <3>2, LenProperties
    <3> QED
      BY <1>3, <2>5, <3>1, <3>3
  <2>7. i \in Slots(fs, s)
    <3>1. ~ IsTorn(RecOf(fs, e))
      BY <1>6 DEF IsTorn
    <3> QED
      BY <2>3, <2>4, <2>6, <3>1 DEF Slots, RecOf
  <2>8. new \in Q
    BY <1>7, <1>9, <2>3, <2>6, <2>7
  <2>9. ASSUME NEW y \in Q, Decides(fs, y, d)
        PROVE  y = new \/ RecOf(fs, y).seq < RecOf(fs, new).seq
    <3>1. CASE y.seg = a
      BY <1>13, <1>15, <2>4, <2>9, <3>1
    <3>2. CASE y.seg # a
      <4>1. y.seg = s /\ y.off \in Slots(fs, s) /\ y \in Locs
        BY <1>3, <1>7, <2>5, <2>9, <3>2
      <4>2. y.off \in 1 .. N
        BY <2>6, <4>1 DEF Slots
      <4>3. Decisive(fs[s].recs[y.off]) /\ fs[s].recs[y.off].doc = d
        BY <2>9, <4>1, Zenon DEF Decides, RecOf
      <4>4. fs[s].recs[y.off].seq = maps.docs[d].seq /\ ord[y.off] = e
        BY <1>1, <1>2, <1>4, <4>2, <4>3, CopiedMeant
      <4>5. fs[s].recs[i] = fs[s].recs[y.off]
        BY <1>11, <2>3, <4>2, <4>4
      <4>6. y.off = i
        BY <1>12, <2>6, <2>7, <4>1, <4>5, Zenon DEF Numbered, SeqAt
      <4> QED
        BY <1>9, <2>3, <4>1, <4>6, LocEqual
    <3> QED
      BY <3>1, <3>2
  <2>10. Decides(fs, new, d) /\ RecOf(fs, new).kind = "Doc"
    BY <1>6, <2>4 DEF Decides
  <2>11. Final(fs, Q, d, new)
    BY <2>8, <2>9, <2>10 DEF Final, LastOn
  <2> QED
    BY <1>2, <1>4, <2>11
<1> QED
  BY <1>14, <1>15

LEMMA CompactPublishAgree ==
  ASSUME SegmentsSafe, LogInv, SeqInv, OwnInv, AgreeInv, CompactPublish
  PROVE  AgreeInv'
<1>1. /\ op.step = "compactPublish" /\ op' = At("compactRemove") /\ man' = m
      /\ files' = files /\ snap' = snap /\ m' = m /\ active' = active /\ buf' = buf
      /\ lastSeq' = lastSeq
  BY DEF CompactPublish
<1>2. Up /\ op'.step = "compactRemove" /\ man.active = active /\ m.active = active
  BY <1>1, LogThere DEF Up, At, SegmentsSafe, ActiveApart
<1>3. PICK fs, a, s, ord, N, P, Q, new :
        /\ fs = files /\ a = active /\ s = op.seg /\ ord = op.order /\ N = Len(op.order)
        /\ P = Log /\ Q = LogOf(files, SealedIds(m) \cup {active}) /\ new = maps'
  OBVIOUS
<1>4. SealedIds(m) = (IF ord = <<>> THEN {} ELSE {s}) /\ ~ snap.exists
  BY <1>1, <1>3 DEF AgreeInv, Apart
<1>5. Log' = Q
  BY <1>1, <1>2, <1>3 DEF Log, LogIds
<1>6. ASSUME NEW y PROVE y \in Q <=> y \in Locs /\ y.seg \in SealedIds(m) \cup {a}
                                                /\ y.off \in Slots(fs, y.seg)
  BY <1>3, LogIn
<1>7. ASSUME NEW y PROVE y \in P <=> y \in Locs /\ y.seg \in SealedIds(man) \cup {a}
                                                /\ y.off \in Slots(fs, y.seg)
  BY <1>2, <1>3, LogIn DEF Log, LogIds
<1>8. /\ DOMAIN new.docs = DOMAIN maps.docs
      /\ \A d \in DOMAIN maps.docs : new.docs[d].loc = Relocate(maps.docs[d].loc)
  BY <1>3, PublishParts
<1>9. \A d \in DOMAIN new.docs : Final(fs, Q, d, new.docs[d].loc)
  BY <1>3, <1>8, PublishFinal
<1>10. ASSUME NEW d, NEW x, Final(fs, Q, d, x) PROVE d \in DOMAIN maps.docs
  <2>1. x \in Q /\ Decides(fs, x, d) /\ RecOf(fs, x).kind = "Doc"
    BY <1>10 DEF Final, LastOn
  <2>2. CASE x.seg = a
    <3>1. x \in P /\ x.off \in Slots(fs, a)
      BY <1>6, <1>7, <2>1, <2>2
    <3>2. ASSUME NEW y \in P, Decides(fs, y, d)
          PROVE  y = x \/ RecOf(fs, y).seq < RecOf(fs, x).seq
      <4>1. CASE y.seg = a
        <5>1. y \in Q
          BY <1>6, <1>7, <3>2, <4>1
        <5> QED
          BY <1>10, <3>2, <5>1 DEF Final, LastOn
      <4>2. CASE y.seg # a
        <5>1. y.seg \in SealedIds(man) /\ y.off \in Slots(fs, y.seg)
          BY <1>7, <3>2, <4>2
        <5>2. Numbered(fs, SealedIds(man), a, man.nextSeq)
          BY <1>2, <1>3 DEF SeqInv, Numbering
        <5> QED
          BY <2>2, <3>1, <5>1, <5>2 DEF Numbered, SeqAt, RecOf
      <4> QED
        BY <4>1, <4>2
    <3>3. Final(fs, P, d, x)
      BY <2>1, <3>1, <3>2 DEF Final, LastOn
    <3>4. Agrees(fs, P, maps)
      BY <1>2, <1>3, Zenon DEF AgreeInv
    <3> QED
      BY <3>3, <3>4 DEF Agrees
  <2>3. CASE x.seg # a
    <3>1. x.seg = s /\ ord # <<>> /\ x.off \in Slots(fs, s)
      BY <1>4, <1>6, <2>1, <2>3
    <3>2. x.off \in 1 .. N
      <4>1. s \in DOMAIN fs /\ Len(fs[s].recs) = N
        BY <1>1, <1>3, <3>1 DEF SeqInv, Copied
      <4> QED
        BY <1>3, <3>1, <4>1, SlotsTyped
    <3>3. Decisive(fs[s].recs[x.off]) /\ fs[s].recs[x.off].doc = d
      BY <2>1, <3>1 DEF Decides, RecOf
    <3> QED
      BY <1>1, <1>3, <3>2, <3>3, CopiedMeant
  <2> QED
    BY <2>2, <2>3
<1>11. Agrees(fs, Q, new)
  BY <1>8, <1>9, <1>10 DEF Agrees
<1>12. Rising(files', man'.sealed) /\ Rising(files', m'.sealed)
  BY <1>1 DEF AgreeInv
<1>13. Latest'
  BY <1>1, <1>2, LatestStays
<1>14. Apart' /\ Chosen' /\ Covered'
  BY <1>1, <1>2, <1>4 DEF Apart, Chosen, Covered
<1> QED
  BY <1>1, <1>3, <1>4, <1>5, <1>11, <1>12, <1>13, <1>14 DEF AgreeInv

-----------------------------------------------------------------------------
(* Writing behind the log *)

LEMMA BehindSlots ==
  ASSUME NEW fs, NEW gs, NEW a, NEW tail, Behind(gs, fs, a, tail)
  PROVE  /\ \A i \in Slots(fs, a) : i \in Slots(gs, a) /\ gs[a].recs[i] = fs[a].recs[i]
         /\ \A i \in Slots(gs, a) :
              \/ i \in Slots(fs, a) /\ gs[a].recs[i] = fs[a].recs[i]
              \/ \E j \in 1 .. Len(tail) : /\ i = Len(fs[a].recs) + j /\ ~ IsTorn(tail[j])
                                           /\ gs[a].recs[i] = tail[j]
<1>1. PICK L, k \in Nat : L = Len(fs[a].recs) /\ k = Len(tail)
  BY DEF Behind
<1>2. /\ DOMAIN fs[a].recs = 1 .. L /\ DOMAIN gs[a].recs = 1 .. L + k
      /\ \A i \in 1 .. L : gs[a].recs[i] = fs[a].recs[i]
      /\ \A i \in 1 .. k : gs[a].recs[L + i] = tail[i]
  BY <1>1 DEF Behind
<1>3. ASSUME NEW i \in Slots(fs, a) PROVE i \in Slots(gs, a) /\ gs[a].recs[i] = fs[a].recs[i]
  <2>1. i \in 1 .. L /\ i \in 1 .. L + k /\ ~ IsTorn(fs[a].recs[i])
    BY <1>2 DEF Slots
  <2> QED
    BY <1>2, <2>1 DEF Slots
<1>4. ASSUME NEW i \in Slots(gs, a)
      PROVE  \/ i \in Slots(fs, a) /\ gs[a].recs[i] = fs[a].recs[i]
             \/ \E j \in 1 .. k : i = L + j /\ ~ IsTorn(tail[j]) /\ gs[a].recs[i] = tail[j]
  <2>1. i \in 1 .. L + k /\ ~ IsTorn(gs[a].recs[i])
    BY <1>2 DEF Slots
  <2>2. CASE i <= L
    BY <1>2, <2>1, <2>2 DEF Slots
  <2>3. CASE ~ i <= L
    <3>1. PICK j \in 1 .. k : i = L + j
      <4>1. i - L \in 1 .. k /\ i = L + (i - L)
        BY <2>1, <2>3
      <4> QED
        BY <4>1
    <3> QED
      BY <1>2, <2>1, <3>1
  <2> QED
    BY <2>2, <2>3
<1> QED
  BY <1>1, <1>3, <1>4

LEMMA BehindPlaces ==
  ASSUME NEW fs, NEW gs, NEW a, NEW tail, Behind(gs, fs, a, tail), NEW ids \in SUBSET DOMAIN fs,
         NEW x
  PROVE  /\ x \in LogOf(fs, ids) => x \in LogOf(gs, ids) /\ RecOf(gs, x) = RecOf(fs, x)
         /\ x \in LogOf(gs, ids) =>
              \/ x \in LogOf(fs, ids) /\ RecOf(gs, x) = RecOf(fs, x)
              \/ \E j \in 1 .. Len(tail) :
                   /\ x.seg = a /\ x.off = Len(fs[a].recs) + j
                   /\ RecOf(gs, x) = tail[j] /\ ~ IsTorn(tail[j])
<1>1. ASSUME NEW id \in ids, id # a PROVE gs[id] = fs[id]
  BY <1>1 DEF Behind
<1>2. ASSUME x \in LogOf(fs, ids) PROVE x \in LogOf(gs, ids) /\ RecOf(gs, x) = RecOf(fs, x)
  <2>1. x \in Locs /\ x.seg \in ids /\ x.off \in Slots(fs, x.seg)
    BY <1>2, LogIn
  <2>2. CASE x.seg = a
    BY <2>1, <2>2, BehindSlots, LogIn DEF RecOf
  <2>3. CASE x.seg # a
    <3>1. gs[x.seg] = fs[x.seg]
      BY <1>1, <2>1, <2>3
    <3> QED
      BY <2>1, <3>1, LogIn DEF RecOf, Slots
  <2> QED
    BY <2>2, <2>3
<1>3. ASSUME x \in LogOf(gs, ids)
      PROVE  \/ x \in LogOf(fs, ids) /\ RecOf(gs, x) = RecOf(fs, x)
             \/ \E j \in 1 .. Len(tail) :
                  /\ x.seg = a /\ x.off = Len(fs[a].recs) + j
                  /\ RecOf(gs, x) = tail[j] /\ ~ IsTorn(tail[j])
  <2>1. x \in Locs /\ x.seg \in ids /\ x.off \in Slots(gs, x.seg)
    BY <1>3, LogIn
  <2>2. CASE x.seg = a
    <3>1. \/ x.off \in Slots(fs, a) /\ gs[a].recs[x.off] = fs[a].recs[x.off]
          \/ \E j \in 1 .. Len(tail) : /\ x.off = Len(fs[a].recs) + j /\ ~ IsTorn(tail[j])
                                       /\ gs[a].recs[x.off] = tail[j]
      BY <2>1, <2>2, BehindSlots
    <3> QED
      BY <2>1, <2>2, <3>1, LogIn DEF RecOf
  <2>3. CASE x.seg # a
    <3>1. gs[x.seg] = fs[x.seg]
      BY <1>1, <2>1, <2>3
    <3> QED
      BY <2>1, <3>1, LogIn DEF RecOf, Slots
  <2> QED
    BY <2>2, <2>3
<1> QED
  BY <1>2, <1>3

(* What is written behind the log is above what the snapshot covers: for   *)
(* the snapshot nothing changes.                                           *)
LEMMA SnapshotBehind ==
  ASSUME SegmentsSafe, LogInv, SeqInv, AgreeInv, NEW tail, Behind(files', files, active, tail),
         \A i \in 1 .. Len(tail) : ~ IsTorn(tail[i]) => ~ tail[i].seq <= SnapSeq,
         man' = man, snap' = snap
  PROVE  /\ Rising(files', man.sealed)
         /\ Covered'
         /\ snap.exists => Agrees(files', UpTo(files', Log', snap.seq), snap.maps)
<1>1. PICK fs, gs, a, ids : fs = files /\ gs = files' /\ a = active /\ ids = LogIds
  OBVIOUS
<1>2. Behind(gs, fs, a, tail) /\ ids \in SUBSET DOMAIN fs
  BY <1>1, LogThere
<1>3. Log = LogOf(fs, ids) /\ Log' = LogOf(gs, ids)
  BY <1>1 DEF Log, LogIds
<1>4. Rising(gs, man.sealed)
  <2>1. PICK S : S = SealedIds(man)
    OBVIOUS
  <2>2. \A id \in S : id \in DOMAIN fs /\ id # a
    BY <1>1, <2>1, SlotsTyped DEF SegmentsSafe, ActiveApart
  <2>3. \A id \in S : gs[id].recs = fs[id].recs
    BY <1>2, <2>2 DEF Behind
  <2>4. SameLog(fs, gs, S)
    BY <2>3, SameRecs
  <2>5. \A i \in 1 .. Len(man.sealed) : man.sealed[i].id \in S
    BY <2>1, SealedIdIn DEF SegmentsSafe
  <2> QED
    BY <1>1, <2>4, <2>5, RisingUnmoved DEF AgreeInv
<1>5. ASSUME snap.exists PROVE Agrees(gs, UpTo(gs, LogOf(gs, ids), snap.seq), snap.maps)
  <2>1. PICK s, mp, P, Q : /\ s = snap.seq /\ mp = snap.maps /\ P = UpTo(fs, LogOf(fs, ids), s)
                           /\ Q = UpTo(gs, LogOf(gs, ids), s)
    OBVIOUS
  <2>2. \A i \in 1 .. Len(tail) : ~ IsTorn(tail[i]) => ~ tail[i].seq <= s
    BY <1>5, <2>1 DEF SnapSeq
  <2>3. ASSUME NEW x \in P PROVE x \in Q /\ RecOf(gs, x) = RecOf(fs, x)
    <3>1. x \in LogOf(fs, ids) /\ RecOf(fs, x).seq <= s
      BY <2>1 DEF UpTo
    <3> QED
      BY <1>2, <2>1, <3>1, BehindPlaces DEF UpTo
  <2>4. ASSUME NEW x \in Q PROVE x \in P /\ RecOf(gs, x) = RecOf(fs, x)
    <3>1. x \in LogOf(gs, ids) /\ RecOf(gs, x).seq <= s
      BY <2>1 DEF UpTo
    <3>2. x \in LogOf(fs, ids) /\ RecOf(gs, x) = RecOf(fs, x)
      BY <1>2, <2>2, <3>1, BehindPlaces
    <3> QED
      BY <2>1, <3>1, <3>2 DEF UpTo
  <2>5. Kept(fs, P, gs, Q) /\ Kept(gs, Q, fs, P)
    BY <2>3, <2>4 DEF Kept
  <2>6. Agrees(fs, P, mp)
    BY <1>1, <1>3, <1>5, <2>1 DEF AgreeInv
  <2> QED
    BY <2>1, <2>5, <2>6, AgreesSame
<1>6. Covered'
  <2>1. ASSUME snap.exists, NEW i \in Slots(gs, man.active),
               SeqAt(gs, man.active, i) <= snap.seq
        PROVE  i <= gs[man.active].synced
    <3>1. CASE man.active = a
      <4>1. i \in Slots(fs, a) /\ gs[a].recs[i] = fs[a].recs[i]
        BY <1>2, <2>1, <3>1, BehindSlots DEF SeqAt, SnapSeq
      <4>2. gs[a].synced = fs[a].synced
        BY <1>2 DEF Behind
      <4> QED
        BY <1>1, <2>1, <3>1, <4>1, <4>2 DEF AgreeInv, Covered, SeqAt
    <3>2. CASE man.active # a
      <4>1. man.active \in DOMAIN fs
        BY <1>1 DEF SeqInv, Placed
      <4>2. gs[man.active] = fs[man.active]
        BY <1>2, <3>2, <4>1 DEF Behind
      <4> QED
        BY <1>1, <2>1, <4>2 DEF AgreeInv, Covered, SeqAt, Slots
    <3> QED
      BY <3>1, <3>2
  <2> QED
    BY <1>1, <2>1 DEF Covered
<1> QED
  BY <1>1, <1>3, <1>4, <1>5, <1>6

(* A flush at the end of an insert or a delete: all of the buffer is about *)
(* d, and its last record says what becomes of d.                          *)
LEMMA FlushAgree ==
  ASSUME SegmentsSafe, LogInv, SeqInv, OwnInv, AgreeInv, LogInv', SegmentsSafe',
         op.step \in {"insert", "delete"}, files' = Flushed, man' = man, snap' = snap,
         active' = active, buf' = <<>>, lastSeq' = lastSeq, m'.sealed = m.sealed,
         op'.step \in {"idle", "seal"}, NEW d, NEW x \in Locs,
         x.seg = active, x.off = Len(files[active].recs) + Len(buf), Len(buf) # 0,
         Decisive(buf[Len(buf)]), \A i \in 1 .. Len(buf) : buf[i].doc = d,
         Turned(maps', maps, d, buf[Len(buf)].kind, x)
  PROVE  AgreeInv'
<1>1. Up /\ op.step \notin {"sealPublish", "compactPublish"} /\ man.active = active
  BY LogThere DEF Up
<1>2. PICK fs, gs, a, ids, P, Q, new, tail :
        /\ fs = files /\ gs = files' /\ a = active /\ ids = LogIds
        /\ P = LogOf(files, LogIds) /\ Q = LogOf(files', LogIds) /\ new = maps' /\ tail = buf
  OBVIOUS
<1>3. Behind(gs, fs, a, tail)
  BY <1>1, <1>2, FlushBehind
<1>4. LogIds' = LogIds /\ Log = P /\ Log' = Q
  BY <1>2 DEF LogIds, Log
<1>5. ids \in SUBSET DOMAIN fs /\ a \in ids
  BY <1>1, <1>2, LogThere DEF LogIds
<1>6. PICK L, n \in Nat : L = Len(fs[a].recs) /\ n = Len(tail)
  BY <1>3 DEF Behind
<1>7. PICK q \in Int : q = FirstFree
  BY SlotsTyped
<1>8. \A i \in 1 .. n : tail[i].seq = q + i - 1
  BY <1>1, <1>2, <1>6, <1>7 DEF SeqInv, Numbering
<1>9. ASSUME NEW y
      PROVE  /\ y \in P => y \in Q /\ RecOf(gs, y) = RecOf(fs, y)
             /\ y \in Q => \/ y \in P /\ RecOf(gs, y) = RecOf(fs, y)
                           \/ \E j \in 1 .. n : /\ y.seg = a /\ y.off = L + j
                                                /\ RecOf(gs, y) = tail[j] /\ ~ IsTorn(tail[j])
  <2>1. P = LogOf(fs, ids) /\ Q = LogOf(gs, ids)
    BY <1>2
  <2>2. Len(tail) = n /\ Len(fs[a].recs) = L
    BY <1>6
  <2>3. /\ y \in LogOf(fs, ids) => y \in LogOf(gs, ids) /\ RecOf(gs, y) = RecOf(fs, y)
        /\ y \in LogOf(gs, ids) =>
             \/ y \in LogOf(fs, ids) /\ RecOf(gs, y) = RecOf(fs, y)
             \/ \E j \in 1 .. Len(tail) :
                  /\ y.seg = a /\ y.off = Len(fs[a].recs) + j
                  /\ RecOf(gs, y) = tail[j] /\ ~ IsTorn(tail[j])
    BY <1>3, <1>5, BehindPlaces
  <2> QED
    BY <2>1, <2>2, <2>3
<1>10. SnapSeq < q /\ SnapSeq \in Nat
  <2>1. SnapSeq < FirstFree
    BY <1>1 DEF OwnInv, Groups
  <2>2. SnapSeq \in Nat
    BY SnapSeqTyped
  <2> QED
    BY <1>7, <2>1, <2>2
<1>11. /\ Rising(files', man.sealed) /\ Covered'
       /\ snap.exists => Agrees(files', UpTo(files', Log', snap.seq), snap.maps)
  <2>1. ASSUME NEW i \in 1 .. Len(tail) PROVE ~ tail[i].seq <= SnapSeq
    <3>1. PICK s \in Nat : s = SnapSeq
      BY <1>10
    <3>2. s < q /\ i \in 1 .. n /\ tail[i].seq = q + i - 1
      BY <1>6, <1>8, <1>10, <3>1
    <3> QED
      BY <3>1, <3>2
  <2>2. Behind(files', files, active, tail)
    BY <1>2, <1>3
  <2>3. \A i \in 1 .. Len(tail) : ~ IsTorn(tail[i]) => ~ tail[i].seq <= SnapSeq
    BY <2>1
  <2> QED
    BY <2>2, <2>3, SnapshotBehind
<1>12. Rising(files', m'.sealed) /\ SealedIds(m') = SealedIds(man')
  <2>0. SealedIds(m) = SealedIds(man)
    BY <1>1 DEF AgreeInv, Apart
  <2>1. PICK S : S = SealedIds(m) /\ S = SealedIds(man) /\ S = SealedIds(m') /\ S = SealedIds(man')
    <3>1. SealedIds(m') = SealedIds(m) /\ SealedIds(man') = SealedIds(man)
      BY DEF SealedIds
    <3> QED
      BY <2>0, <3>1
  <2>2. \A id \in S : id \in DOMAIN fs /\ id # a
    BY <1>2, <2>1, SlotsTyped DEF SegmentsSafe, ActiveApart
  <2>3. \A id \in S : gs[id].recs = fs[id].recs
    BY <1>3, <2>2 DEF Behind
  <2>4. SameLog(fs, gs, S)
    BY <2>3, SameRecs
  <2>5. \A i \in 1 .. Len(m.sealed) : m.sealed[i].id \in S
    BY <2>1, SealedIdIn DEF SegmentsSafe
  <2>6. Rising(gs, m.sealed)
    BY <1>2, <2>4, <2>5, RisingUnmoved DEF AgreeInv
  <2> QED
    BY <1>2, <2>1, <2>6
<1>13. RecOf(gs, x) = tail[n] /\ x \in Q
  <2>1. gs[a].recs[L + n] = tail[n]
    <3>1. \A i \in 1 .. n : gs[a].recs[L + i] = tail[i]
      BY <1>3, <1>6 DEF Behind
    <3>2. n \in 1 .. n
      BY <1>2, <1>6
    <3> QED
      BY <3>1, <3>2
  <2>2. L + n \in DOMAIN gs[a].recs
    BY <1>2, <1>3, <1>6 DEF Behind
  <2>3. ~ IsTorn(tail[n])
    BY <1>2, <1>6 DEF Decisive, IsTorn
  <2>4. x.off = L + n /\ x.seg = a
    BY <1>2, <1>6
  <2> QED
    BY <1>2, <1>5, <2>1, <2>2, <2>3, <2>4, LogIn DEF RecOf, Slots
<1>14. Turns(fs, P, gs, Q, d)
  <2>1. ASSUME NEW y \in Q, RecOf(gs, y).doc # d PROVE y \in P /\ RecOf(fs, y) = RecOf(gs, y)
    BY <1>2, <1>6, <1>9, <2>1
  <2> QED
    BY <1>9, <2>1 DEF Turns, Kept
<1>15. Counted(gs, Q)
  <2>1. LogIds \in SUBSET DOMAIN files'
    BY <1>2, <1>3, <1>5 DEF Behind
  <2>2. SegmentsSafe' /\ LogInv'
    OBVIOUS
  <2>3. Counted(gs, LogOf(gs, LogIds))
    <3>1. ASSUME NEW y \in LogOf(gs, LogIds) PROVE RecOf(gs, y).seq \in Nat
      <4>1. y \in Q
        BY <1>2, <3>1
      <4>2. CASE y \in P /\ RecOf(gs, y) = RecOf(fs, y)
        <5>1. Counted(fs, P)
          BY <1>2, <1>5, LogCounted
        <5> QED
          BY <4>2, <5>1 DEF Counted
      <4>3. CASE \E j \in 1 .. n : RecOf(gs, y) = tail[j]
        <5>1. tail \in Seq(LogRecords)
          BY <1>2 DEF LogInv, MemoryTypes
        <5>2. \A j \in 1 .. n : tail[j] \in LogRecords
          BY <1>6, <5>1, ElementOfSeq
        <5> QED
          BY <4>3, <5>2 DEF LogRecords, PartRecords, DeleteRecords, DocRecords
      <4> QED
        BY <1>9, <4>1, <4>2, <4>3
    <3> QED
      BY <3>1 DEF Counted
  <2> QED
    BY <1>2, <2>3
<1>16. LastOn(gs, Q, d, x)
  <2>1. Decides(gs, x, d)
    BY <1>2, <1>6, <1>13 DEF Decides
  <2>2. n \in 1 .. n /\ RecOf(gs, x).seq = q + n - 1
    BY <1>2, <1>6, <1>8, <1>13
  <2>3. ASSUME NEW y \in Q PROVE y = x \/ RecOf(gs, y).seq < RecOf(gs, x).seq
    <3>1. CASE y \in P /\ RecOf(gs, y) = RecOf(fs, y)
      <4>1. RecOf(fs, y).seq < q /\ RecOf(fs, y).seq \in Nat
        BY <1>1, <1>2, <1>4, <1>7, <3>1, LogBelow
      <4> QED
        BY <2>2, <3>1, <4>1
    <3>2. CASE \E j \in 1 .. n : y.seg = a /\ y.off = L + j /\ RecOf(gs, y) = tail[j]
      <4>1. PICK j \in 1 .. n : y.seg = a /\ y.off = L + j /\ RecOf(gs, y) = tail[j]
        BY <3>2
      <4>2. CASE j = n
        <5>1. y \in Locs
          BY <1>2, LogIn
        <5>2. y.seg = x.seg /\ y.off = x.off
          BY <1>2, <1>6, <4>1, <4>2
        <5> QED
          BY <5>1, <5>2, LocEqual
      <4>3. CASE j # n
        <5>1. RecOf(gs, y).seq = q + j - 1 /\ j < n
          BY <1>8, <4>1, <4>3
        <5> QED
          BY <2>2, <5>1
      <4> QED
        BY <4>2, <4>3
    <3> QED
      BY <1>9, <3>1, <3>2
  <2> QED
    BY <1>13, <2>1, <2>3 DEF LastOn
<1>17. Agrees(gs, Q, new)
  <2>1. Agrees(fs, P, maps)
    BY <1>1, <1>2, <1>4 DEF AgreeInv
  <2>2. PICK kind : kind = RecOf(gs, x).kind
    OBVIOUS
  <2>3. Turned(new, maps, d, kind, x)
    BY <1>2, <1>6, <1>13, <2>2
  <2> QED
    BY <1>14, <1>15, <1>16, <2>1, <2>2, <2>3, AgreesTurned DEF Turned
<1>18. Latest'
  <2>1. ASSUME NEW i \in Slots(gs, a) PROVE SeqAt(gs, a, i) <= lastSeq
    <3>1. \/ i \in Slots(fs, a) /\ gs[a].recs[i] = fs[a].recs[i]
          \/ \E j \in 1 .. n : gs[a].recs[i] = tail[j]
      BY <1>3, <1>6, BehindSlots
    <3> QED
      BY <1>1, <1>2, <1>6, <3>1 DEF AgreeInv, Latest, SeqAt
  <2>2. PICK e : e = <<>>
    OBVIOUS
  <2>3. \A i \in 1 .. Len(e) : e[i].seq <= lastSeq
    BY <2>2
  <2> QED
    BY <1>2, <2>1, <2>2, <2>3 DEF Latest
<1>19. Apart' /\ Chosen'
  BY <1>12 DEF Apart, Chosen
<1> QED
  BY <1>2, <1>4, <1>11, <1>12, <1>17, <1>18, <1>19 DEF AgreeInv

(* Between the append of a delete and its commit its record is what is     *)
(* buffered.                                                               *)
Deleting ==
  op.step = "delete" => Len(buf) = 1 /\ buf[1].kind = "DeleteDoc" /\ buf[1].doc = op.doc

LEMMA NextDeleting == ASSUME SegmentsSafe, LogInv, Deleting, [Next]_vars PROVE Deleting'
<1>1. CASE UNCHANGED vars
  BY <1>1 DEF Deleting, vars
<1>2. ASSUME NEW d \in Docs, AppendDelete(d) PROVE Deleting'
  <2>1. buf' = <<DeleteRecord(m.nextSeq, d)>> /\ op'.doc = d
    BY <1>2 DEF AppendDelete
  <2>2. PICK b : b = buf'
    OBVIOUS
  <2>3. Len(b) = 1 /\ b[1] = DeleteRecord(m.nextSeq, d)
    BY <2>1, <2>2
  <2> QED
    BY <2>1, <2>2, <2>3 DEF Deleting, DeleteRecord
<1>3. CASE Next /\ ~ \E d \in Docs : AppendDelete(d)
  <2>1. op'.step # "delete"
    <3>1. CASE \E d \in Docs, c \in Contents : AppendDocument(d, c)
      BY <3>1 DEF AppendDocument
    <3>2. CASE InsertCommit \/ DeleteCommit
      BY <3>2, AfterWriteStep DEF InsertCommit, DeleteCommit
    <3>3. CASE InsertRewind \/ SealActive \/ SealPublish \/ SnapshotWrite \/ SnapshotPublish
      BY <3>3 DEF InsertRewind, SealActive, SealPublish, SnapshotWrite, SnapshotPublish, At
    <3>4. CASE Fsync \/ CompactFails
      BY <3>4 DEF Fsync, CompactFails
    <3>5. CASE CompactWrite \/ CompactUnsnap \/ CompactPublish \/ CompactRemove
      BY <3>5 DEF CompactWrite, CompactUnsnap, CompactPublish, CompactRemove, At
    <3>6. CASE Crash \/ PowerLoss
      BY <3>6 DEF Crash, PowerLoss, At
    <3>7. CASE OpenBegin \/ OpenReject \/ OpenReplay
      BY <3>7 DEF OpenBegin, OpenReject, OpenReplay, At
    <3> QED
      BY <1>3, <3>1, <3>2, <3>3, <3>4, <3>5, <3>6, <3>7 DEF Next
  <2> QED
    BY <2>1 DEF Deleting
<1> QED
  BY <1>1, <1>2, <1>3

(* A delete that was appended is the record that is buffered (store.rs:452: *)
(* Store::delete appends one DeleteDoc and flushes it).                     *)
LEMMA DeletingInvariant == Spec => []Deleting
<1>1. Init => Deleting
  BY DEF Init, Deleting, At
<1>2. SegmentsSafe /\ LogInv /\ Deleting /\ [Next]_vars => Deleting'
  BY NextDeleting
<1> QED
  BY <1>1, <1>2, SegmentsStaySafe, LogInvariant, PTL DEF Spec

LEMMA DeleteCommitAgree ==
  ASSUME SegmentsSafe, LogInv, SeqInv, OwnInv, AgreeInv, Deleting, LogInv', SegmentsSafe',
         DeleteCommit
  PROVE  AgreeInv'
<1>0. PICK freed : freed = FreedIn(op.doc, FALSE)
  OBVIOUS
<1>1. /\ op.step = "delete" /\ man' = man /\ snap' = snap /\ active' = active
      /\ files' = Flushed /\ buf' = <<>> /\ op' = AfterWrite /\ lastSeq' = lastSeq
      /\ maps' = RemoveDoc(maps, op.doc)
      /\ m' = [m EXCEPT !.tombstones = @ + freed]
  BY <1>0 DEF DeleteCommit
<1>2. op'.step \in {"idle", "seal"} /\ Up
  BY <1>1, AfterWriteStep DEF Up
<1>3. m'.sealed = m.sealed
  <2>1. m = [f \in ManifestFields |-> m[f]]
    BY DEF SegmentsSafe, WellFormed
  <2> QED
    BY <1>1, <2>1, Zenon DEF ManifestFields
<1>4. Len(buf) = 1 /\ buf[1].kind = "DeleteDoc" /\ buf[1].doc = op.doc
  BY <1>1 DEF Deleting
<1>5. PICK L \in Nat : L = Len(files[active].recs)
  BY <1>2, ActiveFacts
<1>6. PICK k \in Nat, a \in Nat : k = L + 1 /\ a = active
  BY <1>2, ActiveFacts
<1>7. PICK x \in Locs : x = [seg |-> a, off |-> k]
  BY DEF Locs
<1>8. x.seg = active /\ x.off = Len(files[active].recs) + Len(buf)
  BY <1>4, <1>5, <1>6, <1>7
<1>9. Turned(maps', maps, op.doc, buf[Len(buf)].kind, x)
  BY <1>1, <1>4, RemoveTurns
<1>10. Decisive(buf[Len(buf)]) /\ (\A i \in 1 .. Len(buf) : buf[i].doc = op.doc)
       /\ Len(buf) # 0
  BY <1>4 DEF Decisive
<1> QED
  BY <1>1, <1>2, <1>3, <1>8, <1>9, <1>10, FlushAgree

(* All an insert writes is about its document. *)
LEMMA SpelledDoc ==
  ASSUME NEW recs, NEW k \in 0 .. 1, NEW d, NEW c, c.splits \in Nat, NEW seq,
         Spells(recs, k, d, c, seq), NEW i \in 1 .. Len(recs)
  PROVE  recs[i].doc = d
<1>1. PICK N \in Nat : N = c.splits
  OBVIOUS
<1>2. i \in 1 .. k + 2 * N + 1
  BY <1>1 DEF Spells
<1>3. CASE i <= k
  <2>1. k = 1 /\ i = 1
    BY <1>2, <1>3
  <2> QED
    BY <2>1 DEF Spells, DeleteRecord
<1>4. CASE k < i /\ i <= k + N
  <2>1. PICK j \in 1 .. N : i = k + j
    <3>1. i - k \in 1 .. N /\ i = k + (i - k)
      BY <1>2, <1>4
    <3> QED
      BY <3>1
  <2>2. \E s : recs[i] = SummaryRecord(s, d, j)
    BY <1>1, <2>1 DEF Spells
  <2> QED
    BY <2>2 DEF SummaryRecord
<1>5. CASE k + N < i /\ i <= k + 2 * N
  <2>1. PICK j \in 1 .. N : i = k + N + j
    <3>1. i - (k + N) \in 1 .. N /\ i = k + N + (i - (k + N))
      BY <1>2, <1>5
    <3> QED
      BY <3>1
  <2>2. \E s : recs[i] = SplitRecord(s, d, j)
    BY <1>1, <2>1 DEF Spells
  <2> QED
    BY <2>2 DEF SplitRecord
<1>6. CASE k + 2 * N < i
  <2>1. i = k + 2 * N + 1
    BY <1>2, <1>6
  <2>2. \E s : recs[i] = DocRecord(s, d, c)
    BY <1>1, <2>1 DEF Spells
  <2> QED
    BY <2>2 DEF DocRecord
<1> QED
  BY <1>2, <1>3, <1>4, <1>5, <1>6

LEMMA InsertCommitAgree ==
  ASSUME SegmentsSafe, LogInv, SeqInv, OwnInv, AgreeInv, LogInv', SegmentsSafe', InsertCommit
  PROVE  AgreeInv'
<1>0. PICK freed : freed = FreedIn(op.doc, FALSE)
  OBVIOUS
<1>1. /\ op.step = "insert" /\ man' = man /\ snap' = snap /\ active' = active
      /\ files' = Flushed /\ buf' = <<>> /\ op' = AfterWrite /\ lastSeq' = lastSeq
      /\ m' = IF op.doc \in DOMAIN maps.docs THEN [m EXCEPT !.tombstones = @ + freed] ELSE m
      /\ \E entry, sl, ml :
           /\ maps' = PutDoc(RemoveDoc(maps, op.doc), op.doc, entry, sl, ml)
           /\ entry.loc = [seg |-> active, off |-> ActiveLen]
  BY <1>0 DEF InsertCommit
<1>2. op'.step \in {"idle", "seal"} /\ Up
  BY <1>1, AfterWriteStep DEF Up
<1>3. m'.sealed = m.sealed
  <2>1. m = [f \in ManifestFields |-> m[f]]
    BY DEF SegmentsSafe, WellFormed
  <2> QED
    BY <1>1, <2>1, Zenon DEF ManifestFields
<1>4. PICK d, c : d = op.doc /\ c = op.content
  OBVIOUS
<1>5. PICK N \in Nat : N = c.splits
  BY <1>1, <1>4, ContentsAssumption DEF LogInv, OpTypes
<1>6. PICK j \in 0 .. 1 : Spells(buf, j, d, c, op.rewindSeq)
  BY <1>1, <1>4 DEF SeqInv, Written
<1>7. PICK n \in Nat : n = Len(buf) /\ n = j + 2 * N + 1
  BY <1>5, <1>6 DEF Spells
<1>8. buf[n].kind = "Doc"
  <2>1. \E s : buf[n] = DocRecord(s, d, c)
    BY <1>5, <1>6, <1>7 DEF Spells
  <2> QED
    BY <2>1 DEF DocRecord
<1>9. PICK L \in Nat : L = Len(files[active].recs)
  BY <1>2, ActiveFacts
<1>10. PICK k \in Nat, a \in Nat : k = L + n /\ a = active
  <2>1. active \in Nat
    BY <1>2, ActiveFacts
  <2>2. L + n \in Nat
    OBVIOUS
  <2> QED
    BY <2>1, <2>2
<1>11. PICK x \in Locs : x = [seg |-> a, off |-> k]
  BY DEF Locs
<1>12. x.seg = active /\ x.off = Len(files[active].recs) + Len(buf)
  BY <1>7, <1>9, <1>10, <1>11
<1>13. x = [seg |-> active, off |-> ActiveLen]
  BY <1>7, <1>9, <1>10, <1>11 DEF ActiveLen
<1>14. Turned(maps', maps, d, buf[Len(buf)].kind, x)
  <2>1. PICK entry, sl, ml : /\ maps' = PutDoc(RemoveDoc(maps, d), d, entry, sl, ml)
                             /\ entry.loc = x
    BY <1>1, <1>4, <1>13
  <2>2. Turned(PutDoc(RemoveDoc(maps, d), d, entry, sl, ml), maps, d, "Doc", entry.loc)
    BY PutTurns
  <2> QED
    BY <1>7, <1>8, <2>1, <2>2
<1>15. Decisive(buf[Len(buf)]) /\ Len(buf) # 0
  BY <1>7, <1>8 DEF Decisive
<1>16. \A i \in 1 .. Len(buf) : buf[i].doc = d
  BY <1>5, <1>6, SpelledDoc
<1> QED
  BY <1>1, <1>2, <1>3, <1>12, <1>14, <1>15, <1>16, FlushAgree

-----------------------------------------------------------------------------
(* The steps of a closed store *)

LEMMA ClosedAgree ==
  ASSUME ~ Up', Rising(files', man'.sealed), m'.sealed = man'.sealed, Covered',
         snap'.exists => Agrees(files', UpTo(files', Log', snap'.seq), snap'.maps)
  PROVE  AgreeInv'
<1>1. op'.step \notin {"sealPublish", "compactUnsnap", "compactPublish"}
  BY DEF Up
<1>2. Latest' /\ Apart' /\ Chosen'
  BY <1>1 DEF Latest, Apart, Chosen
<1> QED
  BY <1>2 DEF AgreeInv

(* A crash leaves behind the log no more than a part of what was buffered, *)
(* which no snapshot covers.                                               *)
LEMMA CrashAgree ==
  ASSUME SegmentsSafe, LogInv, SeqInv, OwnInv, AgreeInv, Crash
  PROVE  AgreeInv'
<1>1. man' = man /\ snap' = snap /\ m' = man /\ op' = At("down")
  BY DEF Crash, Forget
<1>2. ~ Up'
  BY <1>1 DEF At, Up
<1>3. PICK tail : Behind(files', files, active, tail) /\ Remains(tail)
  BY CrashLeaves
<1>4. PICK n, k \in Nat : n = Len(buf) /\ k = Len(tail)
  <2>1. Len(buf) \in Nat
    BY LenProperties DEF LogInv, MemoryTypes
  <2>2. Len(tail) \in Nat
    BY <1>3 DEF Behind
  <2> QED
    BY <2>1, <2>2
<1>5. k <= n /\ \A i \in 1 .. k : IsTorn(tail[i]) \/ tail[i] = buf[i]
  BY <1>3, <1>4 DEF Remains
<1>6. ASSUME NEW i \in 1 .. k, ~ IsTorn(tail[i]) PROVE ~ tail[i].seq <= SnapSeq
  <2>1. op.step \in {"insert", "delete"}
    <3>1. op.step \notin {"insert", "delete"} => n = 0
      BY <1>4 DEF LogInv, OpTypes
    <3> QED
      BY <1>5, <1>6, <3>1
  <2>2. Up
    BY <2>1 DEF Up
  <2>3. PICK q \in Int : q = FirstFree
    BY SlotsTyped
  <2>4. buf[i].seq = q + i - 1
    <3>1. i \in 1 .. n
      BY <1>5
    <3>2. i \in 1 .. Len(buf)
      BY <1>4, <3>1
    <3> QED
      BY <2>2, <2>3, <3>2 DEF SeqInv, Numbering
  <2>5. PICK s \in Nat : s = SnapSeq
    BY SnapSeqTyped
  <2>6. s < q
    BY <2>2, <2>3, <2>5 DEF OwnInv, Groups
  <2>7. tail[i] = buf[i] /\ i \in Nat /\ i >= 1
    BY <1>5, <1>6
  <2>8. tail[i].seq = q + i - 1
    BY <2>4, <2>7
  <2> QED
    BY <2>5, <2>6, <2>7, <2>8
<1>7. \A i \in 1 .. Len(tail) : ~ IsTorn(tail[i]) => ~ tail[i].seq <= SnapSeq
  BY <1>4, <1>6
<1>8. /\ Rising(files', man.sealed) /\ Covered'
      /\ snap.exists => Agrees(files', UpTo(files', Log', snap.seq), snap.maps)
  BY <1>1, <1>3, <1>7, SnapshotBehind
<1> QED
  BY <1>1, <1>2, <1>8, ClosedAgree

(* A power loss takes back only records that no snapshot covers. *)
LEMMA PowerLossAgree ==
  ASSUME SegmentsSafe, LogInv, SeqInv, AgreeInv, LogInv', PowerLoss
  PROVE  AgreeInv'
<1>1. op.step = "down" /\ man' = man /\ snap' = snap /\ op' = op /\ m' = m
  BY DEF PowerLoss, memory
<1>2. ~ Up' /\ m = man
  BY <1>1 DEF Up, SegmentsSafe, ManifestsAgree
<1>3. PICK fs, gs, a, ids : fs = files /\ gs = files' /\ a = man.active /\ ids = LogIds
  OBVIOUS
<1>4. Shortened(gs, fs, a) /\ Keeps(fs, gs, man.nextSegmentId)
  BY <1>3, PowerLossLeaves
<1>5. /\ ids \in SUBSET DOMAIN fs /\ a \in ids /\ DOMAIN gs = DOMAIN fs
      /\ a < man.nextSegmentId
  BY <1>3, <1>4, LogThere DEF LogIds, Shortened, SegmentsSafe, WellFormed
<1>6. \A id \in DOMAIN fs : id # a => gs[id] = fs[id]
  BY <1>4 DEF Shortened
<1>7. \A i \in Slots(gs, a) : i \in Slots(fs, a) /\ gs[a].recs[i] = fs[a].recs[i]
  BY <1>4 DEF Shortened, Slots
<1>8. ASSUME NEW i \in Slots(fs, a), i <= fs[a].synced
      PROVE  i \in Slots(gs, a) /\ gs[a].recs[i] = fs[a].recs[i]
  <2>1. i \in DOMAIN fs[a].recs /\ ~ IsTorn(fs[a].recs[i])
    BY <1>8 DEF Slots
  <2>2. a \in DOMAIN gs
    BY <1>5
  <2>3. i \in DOMAIN gs[a].recs /\ gs[a].recs[i] = fs[a].recs[i]
    BY <1>4, <1>5, <1>8, <2>1, <2>2 DEF Keeps
  <2> QED
    BY <2>1, <2>3 DEF Slots
<1>9. Rising(gs, man.sealed)
  <2>1. PICK S : S = SealedIds(man)
    OBVIOUS
  <2>2. \A id \in S : id \in DOMAIN fs /\ id # a
    BY <1>3, <2>1, SlotsTyped DEF SegmentsSafe, WellFormed
  <2>3. \A id \in S : gs[id].recs = fs[id].recs
    BY <1>6, <2>2
  <2>4. SameLog(fs, gs, S)
    BY <2>3, SameRecs
  <2>5. \A i \in 1 .. Len(man.sealed) : man.sealed[i].id \in S
    BY <2>1, SealedIdIn DEF SegmentsSafe
  <2> QED
    BY <1>3, <2>4, <2>5, RisingUnmoved DEF AgreeInv
<1>10. ASSUME snap.exists PROVE Agrees(gs, UpTo(gs, LogOf(gs, ids), snap.seq), snap.maps)
  <2>1. PICK s, mp, P, Q : /\ s = snap.seq /\ mp = snap.maps /\ P = UpTo(fs, LogOf(fs, ids), s)
                           /\ Q = UpTo(gs, LogOf(gs, ids), s)
    OBVIOUS
  <2>2. ASSUME NEW x \in P PROVE x \in Q /\ RecOf(gs, x) = RecOf(fs, x)
    <3>1. x \in LogOf(fs, ids) /\ RecOf(fs, x).seq <= s
      BY <2>1 DEF UpTo
    <3>2. x \in Locs /\ x.seg \in ids /\ x.off \in Slots(fs, x.seg)
      BY <3>1 DEF LogOf
    <3>3. x.off \in Slots(gs, x.seg) /\ RecOf(gs, x) = RecOf(fs, x)
      <4>1. CASE x.seg = a
        <5>1. SeqAt(fs, a, x.off) <= s
          BY <3>1, <4>1 DEF RecOf, SeqAt
        <5>2. x.off <= fs[a].synced
          BY <1>3, <1>10, <2>1, <3>2, <4>1, <5>1 DEF AgreeInv, Covered
        <5> QED
          BY <1>8, <3>2, <4>1, <5>2 DEF RecOf
      <4>2. CASE x.seg # a
        <5>1. gs[x.seg] = fs[x.seg]
          BY <1>5, <1>6, <3>2, <4>2
        <5> QED
          BY <3>2, <5>1 DEF RecOf, Slots
      <4> QED
        BY <4>1, <4>2
    <3>4. x \in LogOf(gs, ids)
      BY <3>2, <3>3 DEF LogOf
    <3> QED
      BY <2>1, <3>1, <3>3, <3>4 DEF UpTo
  <2>3. ASSUME NEW x \in Q PROVE x \in P /\ RecOf(gs, x) = RecOf(fs, x)
    <3>1. x \in LogOf(gs, ids) /\ RecOf(gs, x).seq <= s
      BY <2>1 DEF UpTo
    <3>2. x \in Locs /\ x.seg \in ids /\ x.off \in Slots(gs, x.seg)
      BY <3>1 DEF LogOf
    <3>3. x.off \in Slots(fs, x.seg) /\ RecOf(gs, x) = RecOf(fs, x)
      <4>1. CASE x.seg = a
        BY <1>7, <3>2, <4>1 DEF RecOf
      <4>2. CASE x.seg # a
        <5>1. gs[x.seg] = fs[x.seg]
          BY <1>5, <1>6, <3>2, <4>2
        <5> QED
          BY <3>2, <5>1 DEF RecOf, Slots
      <4> QED
        BY <4>1, <4>2
    <3>4. x \in LogOf(fs, ids)
      BY <3>2, <3>3 DEF LogOf
    <3> QED
      BY <2>1, <3>1, <3>3, <3>4 DEF UpTo
  <2>4. Kept(fs, P, gs, Q) /\ Kept(gs, Q, fs, P)
    BY <2>2, <2>3 DEF Kept
  <2>5. Agrees(fs, P, mp)
    BY <1>3, <1>10, <2>1 DEF AgreeInv, Log
  <2> QED
    BY <2>1, <2>4, <2>5, AgreesSame
<1>11. Covered'
  <2>1. gs[a].synced = Len(gs[a].recs)
    BY <1>4 DEF Shortened
  <2>2. a \in DOMAIN gs
    BY <1>5
  <2>3. PICK S, q : S = LogRecords \cup {Torn} /\ q = gs[a].recs /\ q \in Seq(S)
    BY <1>3, <2>2 DEF LogInv, DiskTypes, FilesTyped, Segments
  <2>4. ASSUME NEW i \in Slots(gs, a) PROVE i <= Len(gs[a].recs)
    BY <2>3, LenProperties DEF Slots
  <2> QED
    BY <1>1, <1>3, <2>1, <2>4 DEF Covered
<1>12. Log' = LogOf(gs, ids)
  BY <1>1, <1>3 DEF Log, LogIds
<1> QED
  BY <1>1, <1>2, <1>3, <1>9, <1>10, <1>11, <1>12, ClosedAgree

(* An open keeps the segments of the log as they are. *)
LEMMA OpenBeginAgree ==
  ASSUME SegmentsSafe, LogInv, SeqInv, AgreeInv, OpenBegin
  PROVE  AgreeInv'
<1>1. op.step = "down" /\ man' = man /\ m' = m
  BY DEF OpenBegin, memory
<1>2. LogIds \subseteq DOMAIN files /\ SealedIds(man) \subseteq DOMAIN files /\ m = man
  BY <1>1, LogThere, SlotsTyped DEF SegmentsSafe, ManifestsAgree
<1>3. PICK kept : kept = [id \in DOMAIN files \cap (SealedIds(man) \cup {man.active}) |-> files[id]]
  OBVIOUS
<1>4. \A id \in LogIds : id \in DOMAIN kept /\ kept[id] = files[id]
  BY <1>2, <1>3 DEF LogIds
<1>5. man.active \in DOMAIN kept
  BY <1>4 DEF LogIds
<1>6. PICK rejected \in BOOLEAN :
        /\ files' = kept
        /\ snap' = (IF rejected THEN NoSnapshot ELSE snap)
        /\ op' = At(IF rejected THEN "reject" ELSE "replay")
  <2> DEFINE opened == IF man.active \in DOMAIN kept THEN kept
                       ELSE Put(kept, man.active, EmptySegment)
             rejected == snap.exists /\ ~ SnapshotAccepted(opened)
  <2>1. /\ files' = opened
        /\ snap' = (IF rejected THEN NoSnapshot ELSE snap)
        /\ op' = At(IF rejected THEN "reject" ELSE "replay")
    BY <1>2, <1>3 DEF OpenBegin
  <2>2. opened = kept
    BY <1>5
  <2> HIDE DEF opened
  <2> QED
    BY <2>1, <2>2
<1>7. op'.step = IF rejected THEN "reject" ELSE "replay"
  BY <1>6 DEF At
<1>8. ~ Up'
  BY <1>7 DEF Up
<1>9. snap' = snap \/ ~ snap'.exists
  <2>1. NoSnapshot.exists = FALSE
    BY Zenon DEF NoSnapshot
  <2>2. CASE rejected
    BY <1>6, <2>1, <2>2
  <2>3. CASE ~ rejected
    BY <1>6, <2>3
  <2> QED
    BY <2>2, <2>3
<1>10. PICK fs, gs, ids, P : fs = files /\ gs = files' /\ ids = LogIds /\ P = LogOf(files, LogIds)
  OBVIOUS
<1>11. SameLog(fs, gs, ids)
  BY <1>4, <1>6, <1>10, SameRecs
<1>12. LogOf(gs, ids) = P /\ \A x \in P : RecOf(gs, x) = RecOf(fs, x)
  BY <1>10, <1>11, LogUnmoved
<1>13. Rising(gs, man.sealed)
  <2>1. \A i \in 1 .. Len(man.sealed) : man.sealed[i].id \in ids
    BY <1>10, SealedIdIn DEF SegmentsSafe, LogIds
  <2> QED
    BY <1>10, <1>11, <2>1, RisingUnmoved DEF AgreeInv
<1>14. Log = P /\ Log' = P
  BY <1>1, <1>10, <1>12 DEF Log, LogIds
<1>15. ASSUME snap.exists PROVE Agrees(gs, UpTo(gs, P, snap.seq), snap.maps)
  <2>1. PICK R : R = UpTo(fs, P, snap.seq) /\ R = UpTo(gs, P, snap.seq)
    BY <1>12 DEF UpTo
  <2>2. Agrees(fs, R, snap.maps)
    BY <1>10, <1>14, <1>15, <2>1 DEF AgreeInv
  <2>3. \A x \in R : x \in P
    BY <2>1 DEF UpTo
  <2>4. Kept(fs, R, gs, R) /\ Kept(gs, R, fs, R)
    BY <1>12, <2>3 DEF Kept
  <2> QED
    BY <2>1, <2>2, <2>4, AgreesSame
<1>16. Covered'
  <2>1. files'[man.active] = files[man.active]
    BY <1>4, <1>6 DEF LogIds
  <2> QED
    BY <1>1, <1>9, <2>1 DEF AgreeInv, Covered, Slots, SeqAt
<1>17. snap'.exists => Agrees(files', UpTo(files', Log', snap'.seq), snap'.maps)
  BY <1>9, <1>10, <1>14, <1>15
<1> QED
  BY <1>1, <1>2, <1>8, <1>10, <1>13, <1>16, <1>17, ClosedAgree

LEMMA OpenRejectAgree ==
  ASSUME SegmentsSafe, SeqInv, OwnInv, AgreeInv, OpenReject
  PROVE  AgreeInv'
<1>1. /\ op.step = "reject" /\ op' = At("replay") /\ files' = files /\ snap' = snap
      /\ man' = [man EXCEPT !.snapshotSeq = 0] /\ m' = man'
  BY DEF OpenReject
<1>2. ~ Up'
  BY <1>1 DEF At, Up
<1>3. ~ snap.exists
  BY <1>1 DEF OwnInv, Judged
<1>4. man'.sealed = man.sealed
  <2>1. man = [f \in ManifestFields |-> man[f]]
    BY DEF SegmentsSafe, WellFormed
  <2> QED
    BY <1>1, <2>1, Zenon DEF ManifestFields
<1>5. Rising(files', man'.sealed)
  BY <1>1, <1>4 DEF AgreeInv
<1>6. Covered'
  BY <1>1, <1>3 DEF Covered
<1> QED
  BY <1>1, <1>2, <1>3, <1>5, <1>6, ClosedAgree

(* An open serves what the whole log says, having started from a snapshot   *)
(* that said the same of what it covers; the cut tail held no record.       *)
LEMMA OpenReplayAgree ==
  ASSUME SegmentsSafe, LogInv, SeqInv, OwnInv, AgreeInv, OpenReplay
  PROVE  AgreeInv'
<1>1. op.step = "replay" /\ man' = man /\ snap' = snap /\ buf' = buf
  BY DEF OpenReplay
<1>2. /\ man.active \in DOMAIN files /\ buf = <<>>
      /\ FilesTyped /\ files = [id \in DOMAIN files |-> files[id]]
      /\ TornTailOnly(files[man.active].recs)
  BY <1>1 DEF SegmentsSafe, SeqInv, Placed, LogInv, OpTypes, TornAtTail, DiskTypes
<1>3. PICK f, a, next, g :
        f = files[man.active] /\ a = man.active /\ next = RecoveredNextSeq /\ g = Truncated(f)
  OBVIOUS
<1>4. /\ maps' = Recovered /\ m' = [man EXCEPT !.nextSeq = next] /\ active' = a
      /\ op' = At("idle") /\ files' = [files EXCEPT ![a] = g] /\ lastSeq' = LastSeq(f.recs)
  BY <1>1, <1>2, <1>3, NeverDamaged DEF OpenReplay
<1>5. f \in Segments /\ f.synced <= Len(f.recs) /\ f.recs \in Seq(LogRecords \cup {Torn})
  BY <1>2, <1>3 DEF FilesTyped, Segments
<1>6. PICK fs, gs, ids, P : fs = files /\ gs = files' /\ ids = LogIds /\ P = LogOf(files, LogIds)
  OBVIOUS
<1>7. /\ gs[a] = g /\ fs[a] = f /\ a \in DOMAIN fs
      /\ \A id \in DOMAIN fs : id # a => gs[id] = fs[id]
  <2>1. gs = [fs EXCEPT ![a] = g] /\ fs = [id \in DOMAIN fs |-> fs[id]] /\ a \in DOMAIN fs
    BY <1>2, <1>3, <1>4, <1>6
  <2> QED
    BY <1>3, <1>6, <2>1
<1>8. /\ \A i \in DOMAIN f.recs : ~ IsTorn(f.recs[i]) =>
           /\ i \in DOMAIN g.recs /\ g.recs[i] = f.recs[i]
           /\ i <= f.synced => i <= g.synced
      /\ \A i \in DOMAIN g.recs :
           i \in DOMAIN f.recs /\ ~ IsTorn(f.recs[i]) /\ g.recs[i] = f.recs[i]
  BY <1>2, <1>3, <1>5, TruncatedKeeps
<1>9. SameLog(fs, gs, ids)
  <2>1. /\ Slots(gs, a) = Slots(fs, a)
        /\ \A i \in Slots(fs, a) : gs[a].recs[i] = fs[a].recs[i]
    BY <1>7, <1>8 DEF Slots
  <2>2. ASSUME NEW id \in ids, id # a PROVE gs[id].recs = fs[id].recs
    BY <1>6, <1>7, <2>2, LogThere
  <2> QED
    BY <2>1, <2>2 DEF SameLog, Slots
<1>10. LogOf(gs, ids) = P /\ \A x \in P : RecOf(gs, x) = RecOf(fs, x)
  BY <1>6, <1>9, LogUnmoved
<1>11. Log = P /\ Log' = P
  BY <1>1, <1>6, <1>10 DEF Log, LogIds
<1>12. m'.sealed = man.sealed /\ op'.step = "idle"
  <2>1. man = [x \in ManifestFields |-> man[x]]
    BY DEF SegmentsSafe, WellFormed
  <2>2. m'.sealed = man.sealed
    BY <1>4, <2>1, Zenon DEF ManifestFields
  <2> QED
    BY <1>4, <2>2 DEF At
<1>13. Rising(gs, man.sealed)
  <2>1. \A i \in 1 .. Len(man.sealed) : man.sealed[i].id \in ids
    BY <1>6, SealedIdIn DEF SegmentsSafe, LogIds
  <2> QED
    BY <1>6, <1>9, <2>1, RisingUnmoved DEF AgreeInv
<1>14. Rising(files', man'.sealed) /\ Rising(files', m'.sealed)
  BY <1>1, <1>6, <1>12, <1>13
<1>15. ASSUME NEW R, NEW mp, \A x \in R : x \in P, Agrees(fs, R, mp)
       PROVE  Agrees(gs, R, mp)
  <2>1. Kept(fs, R, gs, R) /\ Kept(gs, R, fs, R)
    BY <1>10, <1>15 DEF Kept
  <2> QED
    BY <1>15, <2>1, AgreesSame
<1>16. Agrees(files', Log', maps')
  <2>1. Reads(ReplayFrom(SnapshotBase))
    BY SnapshotFits, ReplayReads
  <2>2. Agrees(files, Log, ReplayFrom(SnapshotBase))
    BY <2>1 DEF Reads
  <2>3. Agrees(fs, P, maps')
    BY <1>4, <1>6, <1>11, <2>2 DEF Recovered
  <2> QED
    BY <1>6, <1>11, <1>15, <2>3
<1>17. ASSUME snap'.exists PROVE Agrees(files', UpTo(files', Log', snap'.seq), snap'.maps)
  <2>1. PICK R : R = UpTo(fs, P, snap.seq) /\ R = UpTo(gs, P, snap.seq)
    BY <1>10 DEF UpTo
  <2>2. Agrees(fs, R, snap.maps)
    BY <1>1, <1>6, <1>11, <1>17, <2>1 DEF AgreeInv
  <2>3. \A x \in R : x \in P
    BY <2>1 DEF UpTo
  <2>4. Agrees(gs, R, snap.maps)
    BY <1>15, <2>2, <2>3
  <2> QED
    BY <1>1, <1>6, <1>11, <2>1, <2>4
<1>18. Covered'
  <2>1. \A i \in Slots(fs, a) : i <= fs[a].synced => i <= gs[a].synced
    BY <1>7, <1>8 DEF Slots
  <2>2. a \in ids
    BY <1>3, <1>6 DEF LogIds
  <2> QED
    BY <1>1, <1>3, <1>6, <1>9, <2>1, <2>2, CoveredStays
<1>19. Latest'
  <2>1. ASSUME NEW i \in Slots(gs, a) PROVE SeqAt(gs, a, i) <= LastSeq(f.recs)
    <3>1. i \in DOMAIN f.recs /\ ~ IsTorn(f.recs[i]) /\ SeqAt(gs, a, i) = f.recs[i].seq
      BY <1>7, <1>8, <2>1 DEF Slots, SeqAt
    <3>2. \A x, y \in DOMAIN f.recs :
            ~ IsTorn(f.recs[x]) /\ ~ IsTorn(f.recs[y]) /\ x < y => f.recs[x].seq < f.recs[y].seq
      BY <1>3, <1>6, <1>7 DEF SeqInv, Numbering, Numbered, Slots, SeqAt
    <3>3. f.recs[i].seq <= LastSeq(f.recs)
      BY <1>2, <1>3, <1>5, <3>1, <3>2, LastIsLargest
    <3> QED
      BY <3>1, <3>3
  <2>2. Len(buf') = 0
    BY <1>1, <1>2
  <2>3. \A i \in 1 .. Len(buf') : FALSE
    BY <2>2
  <2>4. \A i \in Slots(files', active') : SeqAt(files', active', i) <= lastSeq'
    BY <1>4, <1>6, <2>1
  <2> QED
    BY <2>3, <2>4 DEF Latest
<1>20. SealedIds(m') = SealedIds(man')
  BY <1>1, <1>12 DEF SealedIds
<1>21. Apart' /\ Chosen'
  BY <1>12, <1>20 DEF Apart, Chosen
<1> QED
  BY <1>14, <1>16, <1>17, <1>18, <1>19, <1>21 DEF AgreeInv

LEMMA InitAgree ==
  ASSUME Init
  PROVE  AgreeInv
<1>1. /\ files = [id \in {0} |-> EmptySegment] /\ m = NewManifest /\ man = NewManifest
      /\ snap = NoSnapshot /\ buf = <<>> /\ maps = EmptyMaps /\ op = At("idle") /\ active = 0
  BY DEF Init
<1>2. snap.exists = FALSE
  BY <1>1, Zenon DEF NoSnapshot
<1>3. /\ op.step = "idle" /\ m.sealed = <<>> /\ man.sealed = <<>> /\ man.active = 0
  BY <1>1 DEF At, NewManifest
<1>4. PICK q : q = <<>> /\ m.sealed = q /\ man.sealed = q /\ buf = q
  BY <1>1, <1>3
<1>5. Len(q) = 0 /\ DOMAIN q = {}
  BY <1>4
<1>6. SealedIds(man) = {} /\ SealedIds(m) = {}
  BY <1>4, <1>5 DEF SealedIds
<1>7. LogIds = {0}
  BY <1>3, <1>6 DEF LogIds
<1>8. files[0].recs = q
  BY <1>1, <1>4 DEF EmptySegment
<1>9. Slots(files, 0) = {}
  BY <1>5, <1>8 DEF Slots
<1>10. \A x : x \notin Log
  BY <1>7, <1>9 DEF Log, LogOf
<1>11. DOMAIN maps.docs = {}
  BY <1>1 DEF EmptyMaps
<1>12. Agrees(files, Log, maps)
  BY <1>10, <1>11 DEF Agrees, Final, LastOn
<1>13. Rising(files, q)
  BY <1>5 DEF Rising
<1>14. Latest
  BY <1>1, <1>4, <1>5, <1>9 DEF Latest
<1>15. Apart /\ Chosen
  BY <1>3, <1>6 DEF Apart, Chosen
<1>16. Covered
  BY <1>2 DEF Covered
<1> QED
  BY <1>2, <1>4, <1>12, <1>13, <1>14, <1>15, <1>16, Zenon DEF AgreeInv

LEMMA NextAgree ==
  ASSUME SegmentsSafe, LogInv, SeqInv, OwnInv, Deleting, AgreeInv, LogInv', SegmentsSafe',
         [Next]_vars
  PROVE  AgreeInv'
<1>1. CASE Next
  BY <1>1, AppendDocumentAgree, InsertRewindAgree, InsertCommitAgree, AppendDeleteAgree,
     DeleteCommitAgree, SealActiveAgree, SealPublishAgree, FsyncAgree, SnapshotWriteAgree,
     SnapshotPublishAgree, CompactWriteAgree, CompactFailsAgree, CompactUnsnapAgree,
     CompactPublishAgree, CompactRemoveAgree, CrashAgree, PowerLossAgree, OpenBeginAgree,
     OpenRejectAgree, OpenReplayAgree DEF Next
<1>2. CASE UNCHANGED vars
  <2>1. /\ files' = files /\ man' = man /\ snap' = snap /\ m' = m /\ active' = active
        /\ buf' = buf /\ maps' = maps /\ op' = op /\ lastSeq' = lastSeq
    BY <1>2 DEF vars
  <2>2. Up' = Up /\ Log' = Log
    BY <2>1 DEF Up, Log, LogIds, SealedIds
  <2>3. SealedIds(m') = SealedIds(m) /\ SealedIds(man') = SealedIds(man)
    BY <2>1
  <2>4. Latest' /\ Covered'
    BY <2>1, <2>2 DEF AgreeInv, Latest, Covered
  <2>5. Apart' /\ Chosen'
    BY <2>1, <2>2, <2>3 DEF AgreeInv, Apart, Chosen
  <2>6. Rising(files', man'.sealed) /\ Rising(files', m'.sealed)
    BY <2>1 DEF AgreeInv
  <2>7. /\ Up' => Agrees(files', Log', maps')
        /\ snap'.exists => Agrees(files', UpTo(files', Log', snap'.seq), snap'.maps)
    BY <2>1, <2>2 DEF AgreeInv
  <2> QED
    BY <2>4, <2>5, <2>6, <2>7 DEF AgreeInv
<1> QED
  BY <1>1, <1>2

LEMMA AgreeInvariant == Spec => []AgreeInv
<1>1. SegmentsSafe /\ LogInv /\ SeqInv /\ OwnInv /\ Deleting /\ AgreeInv /\ LogInv'
      /\ SegmentsSafe' /\ [Next]_vars => AgreeInv'
  BY NextAgree
<1>2. Init => AgreeInv
  BY InitAgree
<1> QED
  BY <1>1, <1>2, SegmentsStaySafe, LogInvariant, SeqInvariant, OwnInvariant,
     DeletingInvariant, PTL DEF Spec

(* Where the maps are what the log decides, a replay gives them again. *)
LEMMA AgreeingReplays == SegmentsSafe /\ LogInv /\ SeqInv /\ OwnInv /\ AgreeInv => ReplayAgrees
<1>1. ASSUME SegmentsSafe, LogInv, SeqInv, OwnInv, AgreeInv, op.step = "idle"
      PROVE  ReplayAgrees
  <2>1. Up
    BY <1>1 DEF Up
  <2>2. Reads(maps)
    <3>1. maps \in AllMaps
      BY <1>1 DEF LogInv, MemoryTypes
    <3>2. Resolve(files, maps, man.nextSegmentId)
      BY <1>1, <2>1 DEF SeqInv, References
    <3>3. Owns(files, maps) /\ Agrees(files, Log, maps)
      BY <1>1, <2>1 DEF OwnInv, AgreeInv
    <3> QED
      BY <3>1, <3>2, <3>3 DEF Reads
  <2>3. PICK whole, kept : whole = [maps |-> EmptyMaps, seq |-> 0] /\ kept = SnapshotBase
    OBVIOUS
  <2>4. Reads(ReplayFrom(whole))
    BY <1>1, <2>3, NothingFits, ReplayReads
  <2>5. Reads(ReplayFrom(kept))
    <3>1. Fit(kept)
      BY <1>1, <2>3, SnapshotFits
    <3> QED
      BY <1>1, <3>1, ReplayReads
  <2>6. DocView(ReplayFrom(whole)) = DocView(maps) /\ DocView(ReplayFrom(kept)) = DocView(maps)
    BY <1>1, <2>2, <2>4, <2>5, OneView
  <2> QED
    BY <2>3, <2>6 DEF ReplayAgrees, FullReplay, Recovered
<1> QED
  BY <1>1 DEF ReplayAgrees

(* What all of the above keep, and a step of a store that may fail keeps    *)
(* until something has failed.                                              *)
Agreeing == SegmentsSafe /\ LogInv /\ SeqInv /\ OwnInv /\ Deleting /\ AgreeInv

LEMMA NextAgreeing == ASSUME Agreeing, [Next]_vars PROVE Agreeing'
<1>1. SegmentsSafe /\ LogInv /\ SeqInv /\ OwnInv /\ Deleting /\ AgreeInv
  BY DEF Agreeing
<1>2. SegmentsSafe'
  BY <1>1, NextSafe DEF StepSafe
<1>3. LogInv'
  BY <1>1, NextTyped
<1>4. SeqInv'
  BY <1>1, NextSeqs
<1>5. OwnInv'
  BY <1>1, <1>3, NextOwn
<1>6. Deleting'
  BY <1>1, NextDeleting
<1>7. AgreeInv'
  BY <1>1, <1>2, <1>3, NextAgree
<1> QED
  BY <1>2, <1>3, <1>4, <1>5, <1>6, <1>7 DEF Agreeing

LEMMA InitAgreeing == Init => Agreeing
<1>1. Init => SegmentsSafe /\ LogInv /\ SeqInv
  BY InitSafe, InitTyped, InitSeqs
<1>2. Init => OwnInv /\ AgreeInv
  BY InitOwn, InitAgree
<1>3. Init => Deleting
  BY DEF Init, Deleting, At
<1> QED
  BY <1>1, <1>2, <1>3 DEF Agreeing

(* In the store whose flushes, rewinds, seals and compactions may fail, and *)
(* until the first of them does: at every boundary an open would serve the  *)
(* documents the maps hold, the same versions with the same parts at the    *)
(* same places, whether it started from the snapshot that the manifest      *)
(* names or read the whole log, after any history of writes, rewound        *)
(* inserts, replacements, seals, snapshots, compactions, crashes, power     *)
(* losses, torn tails and opens (store.rs:272-274: the maps never hold what *)
(* a replay would not reproduce; compact.rs:5: a compacted segment replays  *)
(* like the log it replaces).  The condition is needed: after a rewind      *)
(* that fails (store.rs:285-290), or a seal (store.rs:561), it is false.    *)
THEOREM StoreReplayAgrees == FaultSpec => [](faults = 0 => ReplayAgrees)
<1>1. Init /\ faults = 0 => (faults = 0 => Agreeing)
  BY InitAgreeing
<1>2. (faults = 0 => Agreeing) /\ [FaultNext]_faultVars => (faults = 0 => Agreeing)'
  <2> SUFFICES ASSUME faults = 0 => Agreeing, [FaultNext]_faultVars, faults' = 0
               PROVE  Agreeing'
    OBVIOUS
  <2>1. CASE Next /\ UNCHANGED faults
    BY <2>1, NextAgreeing
  <2>2. CASE LeftoversFlushed /\ UNCHANGED faults
    <3>1. LogInv
      BY <2>2 DEF Agreeing
    <3> QED
      BY <2>2, <3>1 DEF LeftoversFlushed, Leftovers, LogInv, MemoryTypes, OpTypes
  <2>3. CASE UNCHANGED faultVars
    BY <2>3, NextAgreeing DEF faultVars
  <2> QED
    BY <2>1, <2>2, <2>3 DEF FaultNext
<1>3. (faults = 0 => Agreeing) => (faults = 0 => ReplayAgrees)
  BY AgreeingReplays DEF Agreeing
<1> QED
  BY <1>1, <1>2, <1>3, PTL DEF FaultSpec

-----------------------------------------------------------------------------
(* What an open may recover: the invariant *)

(* Of the places P, those that are left when segment a is cut behind k. *)
CutAt(P, a, k) == {x \in P : x.seg = a => x.off <= k}

(* A cut of segment a behind k takes no record that was synced. *)
CutsLate(fs, a, k) == \A i \in Slots(fs, a) : i <= fs[a].synced => i <= k

(* The records at P say that the documents are the versions v. *)
Says(fs, P, v) ==
  /\ v = [d \in Docs |-> v[d]]
  /\ \A d \in Docs :
       \/ v[d] = 0 /\ \A x \in P : ~ Final(fs, P, d, x)
       \/ \E x \in P : Final(fs, P, d, x) /\ v[d] = RecOf(fs, x).seq

(* They say what one of the states S does. *)
SaysOne(fs, P, S) == \E s \in S : Says(fs, P, s.docs)

(* Whatever a power loss may leave of the log is among the states promised. *)
Backed ==
  \A k \in Nat :
    CutsLate(files, man.active, k) => SaysOne(files, CutAt(Log, man.active, k), since)

(* What is left of the log after a crash is what an open may recover. *)
Expected == op.step \in {"down", "reject", "replay"} => SaysOne(files, Log, expect)

PromiseInv == Backed /\ Expected

-----------------------------------------------------------------------------
(* What records say *)

LEMMA SaysUnique ==
  ASSUME NEW fs, NEW P, Counted(fs, P), NEW v, NEW w, Says(fs, P, v), Says(fs, P, w)
  PROVE  v = w
<1>1. ASSUME NEW d \in Docs PROVE v[d] = w[d]
  <2>1. \/ v[d] = 0 /\ \A x \in P : ~ Final(fs, P, d, x)
        \/ \E x \in P : Final(fs, P, d, x) /\ v[d] = RecOf(fs, x).seq
    BY DEF Says
  <2>2. \/ w[d] = 0 /\ \A x \in P : ~ Final(fs, P, d, x)
        \/ \E x \in P : Final(fs, P, d, x) /\ w[d] = RecOf(fs, x).seq
    BY DEF Says
  <2>3. \A x, y : Final(fs, P, d, x) /\ Final(fs, P, d, y) => x = y
    BY LastUnique DEF Final
  <2> QED
    BY <2>1, <2>2, <2>3
<1>2. v = [d \in Docs |-> v[d]] /\ w = [d \in Docs |-> w[d]]
  BY DEF Says
<1> QED
  BY <1>1, <1>2

(* The same deciding records say the same. *)
LEMMA SaysSame ==
  ASSUME NEW fs, NEW gs, NEW P, NEW Q, NEW v, Says(fs, P, v),
         Kept(fs, P, gs, Q), Kept(gs, Q, fs, P)
  PROVE  Says(gs, Q, v)
<1>1. ASSUME NEW d, NEW x, Final(fs, P, d, x)
      PROVE  x \in Q /\ Final(gs, Q, d, x) /\ RecOf(gs, x) = RecOf(fs, x)
  <2>1. LastOn(gs, Q, d, x) /\ RecOf(gs, x) = RecOf(fs, x)
    BY <1>1, LastKept DEF Final
  <2> QED
    BY <1>1, <2>1 DEF Final, LastOn
<1>2. ASSUME NEW d, NEW x, Final(gs, Q, d, x) PROVE x \in P /\ Final(fs, P, d, x)
  <2>1. LastOn(fs, P, d, x) /\ RecOf(gs, x) = RecOf(fs, x)
    BY <1>2, LastKept DEF Final
  <2> QED
    BY <1>2, <2>1 DEF Final, LastOn
<1>3. ASSUME NEW d \in Docs
      PROVE  \/ v[d] = 0 /\ \A x \in Q : ~ Final(gs, Q, d, x)
             \/ \E x \in Q : Final(gs, Q, d, x) /\ v[d] = RecOf(gs, x).seq
  <2>1. CASE v[d] = 0 /\ \A x \in P : ~ Final(fs, P, d, x)
    BY <1>2, <2>1
  <2>2. CASE \E x \in P : Final(fs, P, d, x) /\ v[d] = RecOf(fs, x).seq
    BY <1>1, <2>2
  <2> QED
    BY <2>1, <2>2 DEF Says
<1> QED
  BY <1>3 DEF Says

LEMMA SaysOneSame ==
  ASSUME NEW fs, NEW gs, NEW P, NEW Q, NEW S, SaysOne(fs, P, S),
         Kept(fs, P, gs, Q), Kept(gs, Q, fs, P)
  PROVE  SaysOne(gs, Q, S)
  BY SaysSame DEF SaysOne

(* Maps that agree with records say what these do. *)
LEMMA AgreesSays ==
  ASSUME NEW fs, NEW P, NEW mp, Agrees(fs, P, mp),
         \A d \in DOMAIN mp.docs : RecOf(fs, mp.docs[d].loc).seq = mp.docs[d].seq
  PROVE  Says(fs, P, Versions(mp))
<1>1. PICK v : v = Versions(mp)
  OBVIOUS
<1>2. v = [d \in Docs |-> v[d]]
  BY <1>1 DEF Versions
<1>3. ASSUME NEW d \in Docs
      PROVE  \/ v[d] = 0 /\ \A x \in P : ~ Final(fs, P, d, x)
             \/ \E x \in P : Final(fs, P, d, x) /\ v[d] = RecOf(fs, x).seq
  <2>1. CASE d \in DOMAIN mp.docs
    <3>1. v[d] = mp.docs[d].seq
      BY <1>1, <2>1 DEF Versions
    <3>2. Final(fs, P, d, mp.docs[d].loc)
      BY <2>1 DEF Agrees
    <3>3. mp.docs[d].loc \in P
      BY <3>2 DEF Final, LastOn
    <3> QED
      BY <2>1, <3>1, <3>2, <3>3
  <2>2. CASE d \notin DOMAIN mp.docs
    <3>1. v[d] = 0
      BY <1>1, <2>2 DEF Versions
    <3> QED
      BY <2>2, <3>1 DEF Agrees
  <2> QED
    BY <2>1, <2>2
<1> QED
  BY <1>1, <1>2, <1>3 DEF Says

(* A document's entry has the number of the record it points at. *)
LEMMA EntrySeq ==
  ASSUME NEW fs, NEW mp, NEW n, Resolve(fs, mp, n), NEW d \in DOMAIN mp.docs,
         mp.docs[d].loc.seg \in DOMAIN fs
  PROVE  RecOf(fs, mp.docs[d].loc).seq = mp.docs[d].seq
<1>1. PICK x : x = Ref("Doc", d, mp.docs[d].seq, mp.docs[d].loc)
  OBVIOUS
<1>2. x \in Refs(mp)
  BY <1>1 DEF Refs, DocRefs
<1>3. x.kind = "Doc" /\ x.mark = mp.docs[d].seq /\ x.loc = mp.docs[d].loc
  BY <1>1 DEF Ref
<1>4. Meant(x, fs[x.loc.seg].recs[x.loc.off])
  BY <1>2, <1>3 DEF Resolve, Right
<1> QED
  BY <1>3, <1>4 DEF Meant, RecOf

(* What a reader of the log may use says what the log does. *)
LEMMA LogSays ==
  ASSUME SegmentsSafe, LogInv, SeqInv, NEW mp, Agrees(files, Log, mp),
         Resolve(files, mp, man.nextSegmentId)
  PROVE  Says(files, Log, Versions(mp))
<1>1. ASSUME NEW d \in DOMAIN mp.docs
      PROVE  RecOf(files, mp.docs[d].loc).seq = mp.docs[d].seq
  <2>1. mp.docs[d].loc \in Log
    BY DEF Agrees, Final, LastOn
  <2>2. mp.docs[d].loc.seg \in DOMAIN files
    BY <2>1, LogThere, LogIn DEF Log
  <2> QED
    BY <2>2, EntrySeq
<1> QED
  BY <1>1, AgreesSays

LEMMA MapsSay ==
  ASSUME SegmentsSafe, LogInv, SeqInv, AgreeInv, Up
  PROVE  Says(files, Log, Versions(maps))
  BY LogSays DEF AgreeInv, SeqInv, References

-----------------------------------------------------------------------------
(* Steps that leave the log alone *)

LEMMA CutSame ==
  ASSUME NEW fs, NEW gs, NEW ids, SameLog(fs, gs, ids), NEW a, NEW k
  PROVE  /\ Kept(fs, CutAt(LogOf(fs, ids), a, k), gs, CutAt(LogOf(gs, ids), a, k))
         /\ Kept(gs, CutAt(LogOf(gs, ids), a, k), fs, CutAt(LogOf(fs, ids), a, k))
<1>1. /\ LogOf(gs, ids) = LogOf(fs, ids)
      /\ \A x \in LogOf(fs, ids) : RecOf(gs, x) = RecOf(fs, x)
  BY LogUnmoved
<1> QED
  BY <1>1 DEF Kept, CutAt

LEMMA LogSame ==
  ASSUME NEW fs, NEW gs, NEW ids, SameLog(fs, gs, ids)
  PROVE  /\ Kept(fs, LogOf(fs, ids), gs, LogOf(gs, ids))
         /\ Kept(gs, LogOf(gs, ids), fs, LogOf(fs, ids))
  BY LogUnmoved DEF Kept

(* A cut behind everything takes nothing. *)
LEMMA CutNothing ==
  ASSUME NEW fs, NEW ids, NEW a, NEW k, \A i \in Slots(fs, a) : i <= k
  PROVE  CutAt(LogOf(fs, ids), a, k) = LogOf(fs, ids)
<1>1. ASSUME NEW x \in LogOf(fs, ids), x.seg = a PROVE x.off <= k
  BY <1>1, LogIn
<1> QED
  BY <1>1 DEF CutAt

(* The log as it is is among the states promised. *)
LEMMA LogPromised ==
  ASSUME SegmentsSafe, LogInv, SeqInv, Backed
  PROVE  SaysOne(files, Log, since)
<1>1. PICK a, ids : a = man.active /\ ids = LogIds
  OBVIOUS
<1>2. a \in DOMAIN files
  BY <1>1, LogThere DEF LogIds
<1>3. files[a].recs \in Seq(LogRecords \cup {Torn})
  BY <1>2 DEF LogInv, DiskTypes, FilesTyped, Segments
<1>4. PICK k \in Nat : k = Len(files[a].recs) /\ DOMAIN files[a].recs = 1 .. k
  BY <1>3, LenProperties
<1>5. \A i \in Slots(files, a) : i <= k
  BY <1>4 DEF Slots
<1>6. CutsLate(files, man.active, k)
  BY <1>1, <1>5 DEF CutsLate
<1>7. CutAt(LogOf(files, ids), a, k) = LogOf(files, ids)
  BY <1>5, CutNothing
<1> QED
  BY <1>1, <1>6, <1>7 DEF Backed, Log

LEMMA QuietBacked ==
  ASSUME LogIds' = LogIds, man'.active = man.active, SameLog(files, files', LogIds),
         \A i \in Slots(files, man.active) :
           i <= files[man.active].synced => i <= files'[man.active].synced,
         since' = since, Backed
  PROVE  Backed'
<1>1. PICK fs, gs, ids, a, S : /\ fs = files /\ gs = files' /\ ids = LogIds /\ a = man.active
                               /\ S = since
  OBVIOUS
<1>2. SameLog(fs, gs, ids) /\ a \in ids
  BY <1>1 DEF LogIds
<1>3. ASSUME NEW k \in Nat, CutsLate(gs, a, k) PROVE SaysOne(gs, CutAt(LogOf(gs, ids), a, k), S)
  <2>1. CutsLate(fs, a, k)
    BY <1>1, <1>2, <1>3 DEF CutsLate, SameLog
  <2>2. SaysOne(fs, CutAt(LogOf(fs, ids), a, k), S)
    BY <1>1, <2>1 DEF Backed, Log
  <2> QED
    BY <1>2, <2>2, CutSame, SaysOneSame
<1> QED
  BY <1>1, <1>3 DEF Backed, Log

LEMMA ClosedExpected ==
  ASSUME LogIds' = LogIds, SameLog(files, files', LogIds), expect' = expect,
         op.step \in {"down", "reject", "replay"}, Expected
  PROVE  Expected'
<1>1. PICK fs, gs, ids, S : fs = files /\ gs = files' /\ ids = LogIds /\ S = expect
  OBVIOUS
<1>2. SaysOne(fs, LogOf(fs, ids), S) /\ SameLog(fs, gs, ids)
  BY <1>1 DEF Expected, Log
<1>3. SaysOne(gs, LogOf(gs, ids), S)
  BY <1>2, LogSame, SaysOneSame
<1> QED
  BY <1>1, <1>3 DEF Expected, Log

(* After a sync nothing of the log can be lost: what it says is all there is *)
(* to promise.                                                              *)
LEMMA SyncedBacked ==
  ASSUME SegmentsSafe, LogInv, SeqInv, AgreeInv, Up, LogIds' = LogIds,
         man'.active = man.active, SameLog(files, files', LogIds),
         \A i \in Slots(files, man.active) : i <= files'[man.active].synced,
         since' = {Whole(Versions(maps))}
  PROVE  Backed'
<1>1. PICK fs, gs, ids, a, v : /\ fs = files /\ gs = files' /\ ids = LogIds /\ a = man.active
                               /\ v = Versions(maps)
  OBVIOUS
<1>2. SameLog(fs, gs, ids) /\ a \in ids
  BY <1>1 DEF LogIds
<1>3. Says(fs, LogOf(fs, ids), v)
  BY <1>1, MapsSay DEF Log
<1>4. Says(gs, LogOf(gs, ids), v)
  BY <1>2, <1>3, LogSame, SaysSame
<1>5. Whole(v).docs = v
  BY DEF Whole
<1>6. SaysOne(gs, LogOf(gs, ids), {Whole(v)})
  BY <1>4, <1>5 DEF SaysOne
<1>7. ASSUME NEW k \in Nat, CutsLate(gs, a, k)
      PROVE  SaysOne(gs, CutAt(LogOf(gs, ids), a, k), {Whole(v)})
  <2>1. \A i \in Slots(gs, a) : i <= k
    BY <1>1, <1>2, <1>7 DEF CutsLate, SameLog
  <2>2. CutAt(LogOf(gs, ids), a, k) = LogOf(gs, ids)
    BY <2>1, CutNothing
  <2> QED
    BY <1>6, <2>2
<1> QED
  BY <1>1, <1>7 DEF Backed, Log

(* Steps of an open store that leave the log alone. *)
LEMMA QuietPromise ==
  ASSUME PromiseInv, SealedIds(man') = SealedIds(man), man'.active = man.active,
         \A id \in LogIds : files'[id] = files[id], since' = since,
         op'.step \notin {"down", "reject", "replay"}
  PROVE  PromiseInv'
<1>1. LogIds' = LogIds
  BY DEF LogIds
<1>2. SameLog(files, files', LogIds)
  <2>1. PICK fs, gs, ids : fs = files /\ gs = files' /\ ids = LogIds
    OBVIOUS
  <2> QED
    BY <2>1, SameRecs
<1>3. files'[man.active] = files[man.active]
  BY DEF LogIds
<1>4. Backed'
  BY <1>1, <1>2, <1>3, QuietBacked DEF PromiseInv
<1> QED
  BY <1>4 DEF PromiseInv, Expected

(* A step of an open store that ends in a synced log. *)
LEMMA SyncedPromise ==
  ASSUME SegmentsSafe, LogInv, SeqInv, AgreeInv, Up, op.step # "sealPublish",
         man' = man, \A id \in DOMAIN files : files'[id].recs = files[id].recs,
         files'[active].synced = Len(files'[active].recs),
         since' = {Whole(Versions(maps))}, op'.step \notin {"down", "reject", "replay"}
  PROVE  PromiseInv'
<1>1. LogIds' = LogIds /\ LogIds \subseteq DOMAIN files /\ man.active = active
  BY LogThere DEF LogIds
<1>2. SameLog(files, files', LogIds)
  <2>1. PICK fs, gs, ids : fs = files /\ gs = files' /\ ids = LogIds
    OBVIOUS
  <2> QED
    BY <1>1, <2>1, SameRecs
<1>3. files'[active].recs = files[active].recs
  BY <1>1 DEF LogIds
<1>4. \A i \in Slots(files, man.active) : i <= files'[man.active].synced
  BY <1>1, <1>3, ActiveFacts, SlotsTyped
<1>5. Backed'
  BY <1>1, <1>2, <1>4, SyncedBacked
<1> QED
  BY <1>5 DEF PromiseInv, Expected

LEMMA AppendDocumentPromise ==
  ASSUME PromiseInv, NEW d \in Docs, NEW c \in Contents, AppendDocument(d, c)
  PROVE  PromiseInv'
<1>1. /\ files' = files /\ man' = man /\ since' = since
      /\ op' = [step |-> "insert", doc |-> d, content |-> c, rewindSeq |-> m.nextSeq]
  BY DEF AppendDocument, disk, promise
<1>2. op'.step = "insert"
  BY <1>1
<1> QED
  BY <1>1, <1>2, QuietPromise

LEMMA InsertRewindPromise == ASSUME PromiseInv, InsertRewind PROVE PromiseInv'
<1>1. files' = files /\ man' = man /\ since' = since /\ op' = At("idle")
  BY DEF InsertRewind, disk, promise
<1>2. op'.step = "idle"
  BY <1>1 DEF At
<1> QED
  BY <1>1, <1>2, QuietPromise

LEMMA AppendDeletePromise ==
  ASSUME PromiseInv, NEW d \in Docs, AppendDelete(d)
  PROVE  PromiseInv'
<1>1. files' = files /\ man' = man /\ since' = since /\ op' = [step |-> "delete", doc |-> d]
  BY DEF AppendDelete, disk, promise
<1>2. op'.step = "delete"
  BY <1>1
<1> QED
  BY <1>1, <1>2, QuietPromise

LEMMA CompactFailsPromise == ASSUME PromiseInv, CompactFails PROVE PromiseInv'
<1>1. files' = files /\ man' = man /\ since' = since /\ op' = op /\ op.step = "idle"
  BY DEF CompactFails, disk, promise
<1> QED
  BY <1>1, QuietPromise

LEMMA CompactUnsnapPromise == ASSUME PromiseInv, CompactUnsnap PROVE PromiseInv'
<1>1. /\ files' = files /\ man' = man /\ since' = since
      /\ op' = [step |-> "compactPublish", seg |-> op.seg, order |-> op.order]
  BY DEF CompactUnsnap, promise
<1>2. op'.step = "compactPublish"
  BY <1>1
<1> QED
  BY <1>1, <1>2, QuietPromise

LEMMA CompactWritePromise ==
  ASSUME SegmentsSafe, LogInv, SeqInv, PromiseInv, CompactWrite
  PROVE  PromiseInv'
<1>1. PICK new, s, r : /\ new = m.nextSegmentId /\ s = CopyOrder
                       /\ r = [i \in DOMAIN CopyOrder |-> RecordAt(CopyOrder[i])]
  OBVIOUS
<1>2. /\ man' = man /\ since' = since
      /\ op' = [step |-> "compactUnsnap", seg |-> new, order |-> s]
  BY <1>1 DEF CompactWrite, promise
<1>3. op'.step = "compactUnsnap"
  BY <1>2
<1>4. CompactAdds(new, r)
  BY <1>1, CompactAddsFile
<1>5. \A id \in LogIds : files'[id] = files[id]
  BY <1>4, LogThere DEF CompactAdds
<1> QED
  BY <1>2, <1>3, <1>5, QuietPromise

LEMMA CompactRemovePromise ==
  ASSUME SegmentsSafe, LogInv, SeqInv, PromiseInv, CompactRemove
  PROVE  PromiseInv'
<1>1. /\ op.step = "compactRemove" /\ op' = At("snapshot") /\ man' = man /\ since' = since
      /\ files' = [id \in DOMAIN files \cap (SealedIds(m) \cup {active}) |-> files[id]]
  BY DEF CompactRemove, promise
<1>2. op'.step = "snapshot"
  BY <1>1 DEF At
<1>3. LogIds \subseteq DOMAIN files /\ man.active = active /\ m = man
  BY <1>1, LogThere DEF SegmentsSafe, ManifestsAgree
<1>4. \A id \in LogIds : files'[id] = files[id]
  BY <1>1, <1>3 DEF LogIds
<1> QED
  BY <1>1, <1>2, <1>4, QuietPromise

LEMMA SnapshotPublishPromise ==
  ASSUME SegmentsSafe, LogInv, SeqInv, AgreeInv, PromiseInv, SnapshotPublish
  PROVE  PromiseInv'
<1>1. /\ op.step = "snapshotPublish" /\ m' = [m EXCEPT !.snapshotSeq = SnapshotSeq]
      /\ op' = At("idle") /\ files' = files /\ man' = m' /\ since' = since
  BY DEF SnapshotPublish, promise
<1>2. Up /\ op'.step = "idle"
  BY <1>1 DEF Up, At
<1>3. m'.sealed = m.sealed /\ m'.active = m.active
  <2>1. m = [f \in ManifestFields |-> m[f]]
    BY DEF SegmentsSafe, WellFormed
  <2> QED
    BY <1>1, <2>1, Zenon DEF ManifestFields
<1>4. man'.active = man.active
  BY <1>1, <1>3, LogThere DEF SegmentsSafe, ActiveApart
<1>5. SealedIds(man') = SealedIds(man)
  <2>1. SealedIds(m) = SealedIds(man)
    BY <1>1, <1>2 DEF AgreeInv, Apart
  <2>2. SealedIds(man') = SealedIds(m)
    BY <1>1, <1>3 DEF SealedIds
  <2> QED
    BY <2>1, <2>2
<1> QED
  BY <1>1, <1>2, <1>4, <1>5, QuietPromise

LEMMA FsyncPromise ==
  ASSUME SegmentsSafe, LogInv, SeqInv, AgreeInv, Fsync
  PROVE  PromiseInv'
<1>1. /\ op.step = "idle" /\ man' = man /\ op' = op /\ since' = {Whole(Versions(maps))}
      /\ files' = [files EXCEPT ![active] = Synced(@)]
  BY DEF Fsync
<1>2. Up
  BY <1>1 DEF Up
<1>3. /\ \A id \in DOMAIN files : files'[id].recs = files[id].recs
      /\ files'[active].synced = Len(files'[active].recs)
  BY <1>1, <1>2, SyncGrows
<1> QED
  BY <1>1, <1>2, <1>3, SyncedPromise

LEMMA SnapshotWritePromise ==
  ASSUME SegmentsSafe, LogInv, SeqInv, AgreeInv, SnapshotWrite
  PROVE  PromiseInv'
<1>1. /\ op.step \in {"idle", "snapshot"} /\ man' = man /\ op' = At("snapshotPublish")
      /\ since' = {Whole(Versions(maps))}
      /\ files' = [files EXCEPT ![active] = Synced(@)]
  BY DEF SnapshotWrite
<1>2. Up /\ op'.step = "snapshotPublish"
  BY <1>1 DEF Up, At
<1>3. /\ \A id \in DOMAIN files : files'[id].recs = files[id].recs
      /\ files'[active].synced = Len(files'[active].recs)
  BY <1>1, <1>2, SyncGrows
<1> QED
  BY <1>1, <1>2, <1>3, SyncedPromise

LEMMA SealActivePromise ==
  ASSUME SegmentsSafe, LogInv, SeqInv, AgreeInv, SealActive
  PROVE  PromiseInv'
<1>1. /\ op.step \in {"idle", "seal"} /\ op' = At("sealPublish") /\ man' = man
      /\ since' = {Whole(Versions(maps))}
  BY DEF SealActive
<1>2. Up /\ op'.step = "sealPublish"
  BY <1>1 DEF Up, At
<1>3. /\ \A id \in DOMAIN files : files'[id].recs = files[id].recs
      /\ files'[active].synced = Len(files[active].recs)
      /\ files'[active].recs = files[active].recs
  BY SealSwaps
<1>4. files'[active].synced = Len(files'[active].recs)
  BY <1>3
<1> QED
  BY <1>1, <1>2, <1>3, <1>4, SyncedPromise

(* The segment a seal publishes is empty: there is nothing in it to lose. *)
LEMMA SealPublishPromise ==
  ASSUME SegmentsSafe, LogInv, SeqInv, AgreeInv, PromiseInv, SealPublish
  PROVE  PromiseInv'
<1>1. /\ op.step = "sealPublish" /\ op' = At("idle") /\ files' = files /\ man' = m
      /\ since' = since
  BY DEF SealPublish, promise
<1>2. Up /\ op'.step = "idle" /\ m.active = active
  BY <1>1 DEF Up, At, SegmentsSafe, ActiveApart
<1>3. files[active] = EmptySegment /\ SealedIds(m) = LogIds
  BY <1>1 DEF SeqInv, Placed, AgreeInv, Apart, LogIds
<1>4. Slots(files, active) = {}
  BY <1>3 DEF Slots, EmptySegment
<1>5. LogIds' = LogIds \cup {active}
  BY <1>1, <1>2, <1>3 DEF LogIds
<1>6. LogOf(files, LogIds \cup {active}) = LogOf(files, LogIds)
  <2>1. ASSUME NEW x PROVE x \in LogOf(files, LogIds \cup {active}) <=> x \in LogOf(files, LogIds)
    BY <1>4, LogIn
  <2> QED
    BY <2>1
<1>7. PICK fs, ids, a : fs = files /\ ids = LogIds \cup {active} /\ a = active
  OBVIOUS
<1>8. SaysOne(fs, LogOf(fs, ids), since)
  BY <1>6, <1>7, LogPromised DEF PromiseInv, Log
<1>9. ASSUME NEW k \in Nat PROVE SaysOne(fs, CutAt(LogOf(fs, ids), a, k), since)
  <2>1. CutAt(LogOf(fs, ids), a, k) = LogOf(fs, ids)
    BY <1>4, <1>7, CutNothing
  <2> QED
    BY <1>8, <2>1
<1>10. Backed'
  BY <1>1, <1>2, <1>5, <1>7, <1>9 DEF Backed, Log
<1> QED
  BY <1>2, <1>10 DEF PromiseInv, Expected

-----------------------------------------------------------------------------
(* Power losses and opens *)

(* What a power loss leaves is a cut of the log behind what was synced, and *)
(* is all there is to lose after it.                                        *)
LEMMA PowerLossPromise ==
  ASSUME SegmentsSafe, LogInv, SeqInv, AgreeInv, PromiseInv, LogInv', PowerLoss
  PROVE  PromiseInv'
<1>1. op.step = "down" /\ man' = man /\ since' = since /\ expect' = since
  BY DEF PowerLoss, memory
<1>2. PICK fs, gs, a, ids, S : /\ fs = files /\ gs = files' /\ a = man.active /\ ids = LogIds
                               /\ S = since
  OBVIOUS
<1>3. Shortened(gs, fs, a) /\ Keeps(fs, gs, man.nextSegmentId)
  BY <1>2, PowerLossLeaves
<1>4. /\ ids \in SUBSET DOMAIN fs /\ a \in ids /\ DOMAIN gs = DOMAIN fs
      /\ a < man.nextSegmentId
  BY <1>2, <1>3, LogThere DEF LogIds, Shortened, SegmentsSafe, WellFormed
<1>5. PICK j \in Nat :
        /\ \A i \in 1 .. j : /\ i \in DOMAIN gs[a].recs /\ i \in DOMAIN fs[a].recs
                             /\ gs[a].recs[i] = fs[a].recs[i]
        /\ \A i \in DOMAIN gs[a].recs :
             i \in Nat \ {0} /\ (IsTorn(gs[a].recs[i]) \/ i \in 1 .. j)
  BY <1>3 DEF Shortened
<1>6. \A i \in Slots(gs, a) :
        i \in Slots(fs, a) /\ gs[a].recs[i] = fs[a].recs[i] /\ i <= j
  BY <1>5 DEF Slots
<1>7. \A i \in Slots(fs, a) : i <= j => i \in Slots(gs, a) /\ gs[a].recs[i] = fs[a].recs[i]
  <2>1. \A i \in Slots(fs, a) : i \in Nat \ {0}
    BY <1>2, <1>4, SlotsTyped
  <2> QED
    BY <1>5, <2>1 DEF Slots
<1>8. CutsLate(fs, a, j)
  <2>1. ASSUME NEW i \in Slots(fs, a), i <= fs[a].synced PROVE i <= j
    <3>1. i \in DOMAIN fs[a].recs /\ ~ IsTorn(fs[a].recs[i])
      BY <2>1 DEF Slots
    <3>2. a \in DOMAIN gs
      BY <1>4
    <3>3. i \in DOMAIN gs[a].recs /\ gs[a].recs[i] = fs[a].recs[i]
      BY <1>3, <1>4, <2>1, <3>1, <3>2 DEF Keeps
    <3> QED
      BY <1>6, <3>1, <3>3 DEF Slots
  <2> QED
    BY <2>1 DEF CutsLate
<1>9. \A id \in DOMAIN fs : id # a => gs[id] = fs[id]
  BY <1>3 DEF Shortened
<1>10. PICK P, Q : P = CutAt(LogOf(fs, ids), a, j) /\ Q = LogOf(gs, ids)
  OBVIOUS
<1>11. ASSUME NEW x \in P PROVE x \in Q /\ RecOf(gs, x) = RecOf(fs, x)
  <2>1. x \in LogOf(fs, ids) /\ (x.seg = a => x.off <= j)
    BY <1>10 DEF CutAt
  <2>2. x \in Locs /\ x.seg \in ids /\ x.off \in Slots(fs, x.seg)
    BY <2>1 DEF LogOf
  <2>3. x.off \in Slots(gs, x.seg) /\ RecOf(gs, x) = RecOf(fs, x)
    <3>1. CASE x.seg = a
      BY <1>7, <2>1, <2>2, <3>1 DEF RecOf
    <3>2. CASE x.seg # a
      <4>1. gs[x.seg] = fs[x.seg]
        BY <1>4, <1>9, <2>2, <3>2
      <4> QED
        BY <2>2, <4>1 DEF RecOf, Slots
    <3> QED
      BY <3>1, <3>2
  <2> QED
    BY <1>10, <2>2, <2>3 DEF LogOf
<1>12. ASSUME NEW x \in Q PROVE x \in P /\ RecOf(gs, x) = RecOf(fs, x)
  <2>1. x \in Locs /\ x.seg \in ids /\ x.off \in Slots(gs, x.seg)
    BY <1>10 DEF LogOf
  <2>2. x.off \in Slots(fs, x.seg) /\ RecOf(gs, x) = RecOf(fs, x) /\ (x.seg = a => x.off <= j)
    <3>1. CASE x.seg = a
      BY <1>6, <2>1, <3>1 DEF RecOf
    <3>2. CASE x.seg # a
      <4>1. gs[x.seg] = fs[x.seg]
        BY <1>4, <1>9, <2>1, <3>2
      <4> QED
        BY <2>1, <3>2, <4>1 DEF RecOf, Slots
    <3> QED
      BY <3>1, <3>2
  <2>3. x \in LogOf(fs, ids)
    BY <2>1, <2>2 DEF LogOf
  <2> QED
    BY <1>10, <2>2, <2>3 DEF CutAt
<1>13. SaysOne(gs, Q, S)
  <2>1. SaysOne(fs, P, S)
    BY <1>2, <1>8, <1>10 DEF PromiseInv, Backed, Log
  <2>2. Kept(fs, P, gs, Q) /\ Kept(gs, Q, fs, P)
    BY <1>11, <1>12 DEF Kept
  <2> QED
    BY <2>1, <2>2, SaysOneSame
<1>14. Log' = Q /\ LogIds' = ids
  BY <1>1, <1>2, <1>10 DEF Log, LogIds
<1>15. Expected'
  BY <1>1, <1>2, <1>13, <1>14 DEF Expected
<1>16. ASSUME NEW k \in Nat, CutsLate(gs, a, k) PROVE SaysOne(gs, CutAt(Q, a, k), S)
  <2>1. gs[a].synced = Len(gs[a].recs) /\ a \in DOMAIN gs
    BY <1>3, <1>4 DEF Shortened
  <2>2. PICK T, q : T = LogRecords \cup {Torn} /\ q = gs[a].recs /\ q \in Seq(T)
    BY <1>2, <2>1 DEF LogInv, DiskTypes, FilesTyped, Segments
  <2>3. \A i \in Slots(gs, a) : i <= k
    BY <1>16, <2>1, <2>2, LenProperties DEF CutsLate, Slots
  <2>4. CutAt(Q, a, k) = Q
    BY <1>10, <2>3, CutNothing
  <2> QED
    BY <1>13, <2>4
<1>17. Backed'
  BY <1>1, <1>2, <1>14, <1>16 DEF Backed
<1> QED
  BY <1>15, <1>17 DEF PromiseInv

LEMMA OpenBeginPromise ==
  ASSUME SegmentsSafe, LogInv, SeqInv, PromiseInv, OpenBegin
  PROVE  PromiseInv'
<1>1. op.step = "down" /\ man' = man /\ since' = since /\ expect' = expect
  BY DEF OpenBegin, promise
<1>2. LogIds \subseteq DOMAIN files /\ SealedIds(man) \subseteq DOMAIN files
  BY <1>1, LogThere, SlotsTyped DEF SegmentsSafe
<1>3. PICK kept : kept = [id \in DOMAIN files \cap (SealedIds(man) \cup {man.active}) |-> files[id]]
  OBVIOUS
<1>4. \A id \in LogIds : id \in DOMAIN kept /\ kept[id] = files[id]
  BY <1>2, <1>3 DEF LogIds
<1>5. man.active \in LogIds
  BY DEF LogIds
<1>6. files' = IF man.active \in DOMAIN kept THEN kept
               ELSE Put(kept, man.active, EmptySegment)
  BY <1>2, <1>3 DEF OpenBegin
<1>7. files' = kept
  BY <1>4, <1>5, <1>6
<1>8. PICK fs, gs, ids : fs = files /\ gs = files' /\ ids = LogIds
  OBVIOUS
<1>9. SameLog(fs, gs, ids)
  BY <1>4, <1>7, <1>8, SameRecs
<1>10. LogIds' = LogIds
  BY <1>1 DEF LogIds
<1>11. files'[man.active] = files[man.active]
  BY <1>4, <1>5, <1>7
<1>12. Backed'
  BY <1>1, <1>8, <1>9, <1>10, <1>11, QuietBacked DEF PromiseInv
<1>13. Expected'
  BY <1>1, <1>8, <1>9, <1>10, ClosedExpected DEF PromiseInv
<1> QED
  BY <1>12, <1>13 DEF PromiseInv

LEMMA OpenRejectPromise ==
  ASSUME SegmentsSafe, PromiseInv, OpenReject
  PROVE  PromiseInv'
<1>1. /\ op.step = "reject" /\ op' = At("replay") /\ files' = files
      /\ man' = [man EXCEPT !.snapshotSeq = 0] /\ since' = since /\ expect' = expect
  BY DEF OpenReject, promise
<1>2. man'.sealed = man.sealed /\ man'.active = man.active
  <2>1. man = [f \in ManifestFields |-> man[f]]
    BY DEF SegmentsSafe, WellFormed
  <2> QED
    BY <1>1, <2>1, Zenon DEF ManifestFields
<1>3. LogIds' = LogIds
  BY <1>2 DEF LogIds, SealedIds
<1>4. SameLog(files, files', LogIds)
  BY <1>1 DEF SameLog
<1>5. Backed'
  BY <1>1, <1>2, <1>3, <1>4, QuietBacked DEF PromiseInv
<1>6. Expected'
  BY <1>1, <1>3, <1>4, ClosedExpected DEF PromiseInv
<1> QED
  BY <1>5, <1>6 DEF PromiseInv

LEMMA OpenReplayPromise ==
  ASSUME SegmentsSafe, LogInv, SeqInv, PromiseInv, OpenReplay
  PROVE  PromiseInv'
<1>1. op.step = "replay" /\ man' = man /\ since' = since
  BY DEF OpenReplay
<1>2. /\ man.active \in DOMAIN files
      /\ FilesTyped /\ files = [id \in DOMAIN files |-> files[id]]
      /\ TornTailOnly(files[man.active].recs)
  BY <1>1 DEF SegmentsSafe, SeqInv, Placed, LogInv, TornAtTail, DiskTypes
<1>3. PICK f, a, g : f = files[man.active] /\ a = man.active /\ g = Truncated(f)
  OBVIOUS
<1>4. op' = At("idle") /\ files' = [files EXCEPT ![a] = g]
  BY <1>1, <1>2, <1>3, NeverDamaged DEF OpenReplay
<1>5. f \in Segments /\ f.synced <= Len(f.recs) /\ f.recs \in Seq(LogRecords \cup {Torn})
  BY <1>2, <1>3 DEF FilesTyped, Segments
<1>6. PICK fs, gs, ids : fs = files /\ gs = files' /\ ids = LogIds
  OBVIOUS
<1>7. /\ gs[a] = g /\ fs[a] = f /\ a \in DOMAIN fs
      /\ \A id \in DOMAIN fs : id # a => gs[id] = fs[id]
  <2>1. gs = [fs EXCEPT ![a] = g] /\ fs = [id \in DOMAIN fs |-> fs[id]] /\ a \in DOMAIN fs
    BY <1>2, <1>3, <1>4, <1>6
  <2> QED
    BY <1>3, <1>6, <2>1
<1>8. /\ \A i \in DOMAIN f.recs : ~ IsTorn(f.recs[i]) =>
           /\ i \in DOMAIN g.recs /\ g.recs[i] = f.recs[i]
           /\ i <= f.synced => i <= g.synced
      /\ \A i \in DOMAIN g.recs :
           i \in DOMAIN f.recs /\ ~ IsTorn(f.recs[i]) /\ g.recs[i] = f.recs[i]
  BY <1>2, <1>3, <1>5, TruncatedKeeps
<1>9. SameLog(fs, gs, ids)
  <2>1. /\ Slots(gs, a) = Slots(fs, a)
        /\ \A i \in Slots(fs, a) : gs[a].recs[i] = fs[a].recs[i]
    BY <1>7, <1>8 DEF Slots
  <2>2. ASSUME NEW id \in ids, id # a PROVE gs[id].recs = fs[id].recs
    BY <1>6, <1>7, <2>2, LogThere
  <2> QED
    BY <2>1, <2>2 DEF SameLog, Slots
<1>10. \A i \in Slots(fs, a) : i <= fs[a].synced => i <= gs[a].synced
  BY <1>7, <1>8 DEF Slots
<1>11. LogIds' = LogIds /\ op'.step = "idle"
  BY <1>1, <1>4 DEF LogIds, At
<1>12. Backed'
  BY <1>1, <1>3, <1>6, <1>9, <1>10, <1>11, QuietBacked DEF PromiseInv
<1> QED
  BY <1>11, <1>12 DEF PromiseInv, Expected

-----------------------------------------------------------------------------
(* What a part of a write leaves *)

(* The last word on d changes what the records say of d, and of d only. *)
LEMMA LastSays ==
  ASSUME NEW fs, NEW gs, NEW P, NEW Q, NEW v, NEW d, NEW x, Says(fs, P, v),
         Turns(fs, P, gs, Q, d), Counted(gs, Q), LastOn(gs, Q, d, x)
  PROVE  /\ RecOf(gs, x).kind = "Doc" => Says(gs, Q, [v EXCEPT ![d] = RecOf(gs, x).seq])
         /\ RecOf(gs, x).kind # "Doc" => Says(gs, Q, [v EXCEPT ![d] = 0])
<1>1. v = [c \in Docs |-> v[c]]
  BY DEF Says
<1>2. ASSUME NEW w, \A c \in Docs : c # d => w[c] = v[c], NEW c \in Docs, c # d
      PROVE  \/ w[c] = 0 /\ \A y \in Q : ~ Final(gs, Q, c, y)
             \/ \E y \in Q : Final(gs, Q, c, y) /\ w[c] = RecOf(gs, y).seq
  <2>1. w[c] = v[c]
    BY <1>2
  <2>2. CASE v[c] = 0 /\ \A y \in P : ~ Final(fs, P, c, y)
    <3>1. ASSUME NEW y \in Q, Final(gs, Q, c, y) PROVE FALSE
      <4>1. LastOn(fs, P, c, y) /\ RecOf(gs, y) = RecOf(fs, y)
        BY <1>2, <3>1, LastElsewhere DEF Final
      <4>2. Final(fs, P, c, y) /\ y \in P
        BY <3>1, <4>1 DEF Final, LastOn
      <4> QED
        BY <2>2, <4>2
    <3> QED
      BY <2>1, <2>2, <3>1
  <2>3. CASE \E y \in P : Final(fs, P, c, y) /\ v[c] = RecOf(fs, y).seq
    <3>1. PICK y \in P : Final(fs, P, c, y) /\ v[c] = RecOf(fs, y).seq
      BY <2>3
    <3>2. LastOn(gs, Q, c, y) /\ RecOf(gs, y) = RecOf(fs, y)
      BY <1>2, <3>1, LastElsewhere DEF Final
    <3>3. Final(gs, Q, c, y) /\ y \in Q
      BY <3>1, <3>2 DEF Final, LastOn
    <3> QED
      BY <2>1, <3>1, <3>2, <3>3
  <2> QED
    BY <2>2, <2>3 DEF Says
<1>3. ASSUME RecOf(gs, x).kind = "Doc"
      PROVE  Says(gs, Q, [v EXCEPT ![d] = RecOf(gs, x).seq])
  <2>1. PICK n, w : n = RecOf(gs, x).seq /\ w = [v EXCEPT ![d] = n]
    OBVIOUS
  <2>2. /\ w = [c \in Docs |-> w[c]] /\ (d \in Docs => w[d] = n)
        /\ \A c \in Docs : c # d => w[c] = v[c]
    BY <1>1, <2>1
  <2>3. Final(gs, Q, d, x) /\ x \in Q
    BY <1>3 DEF Final, LastOn
  <2>4. ASSUME NEW c \in Docs
        PROVE  \/ w[c] = 0 /\ \A y \in Q : ~ Final(gs, Q, c, y)
               \/ \E y \in Q : Final(gs, Q, c, y) /\ w[c] = RecOf(gs, y).seq
    <3>1. CASE c = d
      BY <2>1, <2>2, <2>3, <3>1
    <3>2. CASE c # d
      BY <1>2, <2>2, <3>2
    <3> QED
      BY <3>1, <3>2
  <2>5. Says(gs, Q, w)
    BY <2>2, <2>4 DEF Says
  <2> QED
    BY <2>1, <2>5
<1>4. ASSUME RecOf(gs, x).kind # "Doc" PROVE Says(gs, Q, [v EXCEPT ![d] = 0])
  <2>1. PICK w : w = [v EXCEPT ![d] = 0]
    OBVIOUS
  <2>2. /\ w = [c \in Docs |-> w[c]] /\ (d \in Docs => w[d] = 0)
        /\ \A c \in Docs : c # d => w[c] = v[c]
    BY <1>1, <2>1
  <2>3. ASSUME NEW y \in Q, Final(gs, Q, d, y) PROVE FALSE
    <3>1. y = x
      BY <2>3, LastUnique DEF Final
    <3> QED
      BY <1>4, <2>3, <3>1 DEF Final
  <2>4. ASSUME NEW c \in Docs
        PROVE  \/ w[c] = 0 /\ \A y \in Q : ~ Final(gs, Q, c, y)
               \/ \E y \in Q : Final(gs, Q, c, y) /\ w[c] = RecOf(gs, y).seq
    <3>1. CASE c = d
      BY <2>2, <2>3, <3>1
    <3>2. CASE c # d
      BY <1>2, <2>2, <3>2
    <3> QED
      BY <3>1, <3>2
  <2>5. Says(gs, Q, w)
    BY <2>2, <2>4 DEF Says
  <2> QED
    BY <2>1, <2>5
<1> QED
  BY <1>3, <1>4

(* Only the first record of an insert and its last decide. *)
LEMMA SpelledDecisive ==
  ASSUME NEW recs, NEW k \in 0 .. 1, NEW d, NEW c, c.splits \in Nat, NEW seq,
         Spells(recs, k, d, c, seq), NEW i \in 1 .. Len(recs), Decisive(recs[i])
  PROVE  \/ i = Len(recs) /\ recs[i].kind = "Doc"
         \/ i = 1 /\ recs[i].kind = "DeleteDoc"
<1>1. PICK N \in Nat : N = c.splits
  OBVIOUS
<1>2. i \in 1 .. k + 2 * N + 1 /\ Len(recs) = k + 2 * N + 1
  BY <1>1 DEF Spells
<1>3. CASE i <= k
  <2>1. k = 1 /\ i = 1
    BY <1>2, <1>3
  <2> QED
    BY <2>1 DEF Spells, DeleteRecord
<1>4. CASE k < i /\ i <= k + N
  <2>1. PICK j \in 1 .. N : i = k + j
    <3>1. i - k \in 1 .. N /\ i = k + (i - k)
      BY <1>2, <1>4
    <3> QED
      BY <3>1
  <2>2. \E s : recs[i] = SummaryRecord(s, d, j)
    BY <1>1, <2>1 DEF Spells
  <2> QED
    BY <2>2 DEF SummaryRecord, Decisive
<1>5. CASE k + N < i /\ i <= k + 2 * N
  <2>1. PICK j \in 1 .. N : i = k + N + j
    <3>1. i - (k + N) \in 1 .. N /\ i = k + N + (i - (k + N))
      BY <1>2, <1>5
    <3> QED
      BY <3>1
  <2>2. \E s : recs[i] = SplitRecord(s, d, j)
    BY <1>1, <2>1 DEF Spells
  <2> QED
    BY <2>2 DEF SplitRecord, Decisive
<1>6. CASE k + 2 * N < i
  <2>1. i = k + 2 * N + 1
    BY <1>2, <1>6
  <2>2. \E s : recs[i] = DocRecord(s, d, c)
    BY <1>1, <2>1 DEF Spells
  <2> QED
    BY <1>2, <2>1, <2>2 DEF DocRecord
<1> QED
  BY <1>2, <1>3, <1>4, <1>5, <1>6

(* What is buffered is about the document of the operation in progress, and *)
(* its last record decides.                                                 *)
LEMMA WriteDecides ==
  ASSUME LogInv, SeqInv, Deleting, op.step \in {"insert", "delete"}
  PROVE  /\ Len(buf) \in Nat /\ Len(buf) # 0
         /\ op.step = "insert" => buf[Len(buf)].kind = "Doc"
         /\ \A i \in 1 .. Len(buf) :
              /\ buf[i].doc = op.doc /\ buf[i] \in LogRecords
              /\ Decisive(buf[i]) =>
                   \/ i = Len(buf) /\ op.step = "insert" /\ buf[i].kind = "Doc"
                   \/ i = Len(buf) /\ op.step = "delete" /\ buf[i].kind = "DeleteDoc"
                   \/ i = 1 /\ op.step = "insert" /\ buf[i].kind = "DeleteDoc"
<1>1. buf \in Seq(LogRecords)
  BY DEF LogInv, MemoryTypes
<1>2. Len(buf) \in Nat /\ \A i \in 1 .. Len(buf) : buf[i] \in LogRecords
  BY <1>1, LenProperties, ElementOfSeq
<1>3. CASE op.step = "insert"
  <2>1. PICK d, c : d = op.doc /\ c = op.content
    OBVIOUS
  <2>2. c.splits \in Nat
    BY <1>3, <2>1, ContentsAssumption DEF LogInv, OpTypes
  <2>3. PICK k \in 0 .. 1 : Spells(buf, k, d, c, op.rewindSeq)
    BY <1>3, <2>1 DEF SeqInv, Written
  <2>4. Len(buf) # 0 /\ buf[Len(buf)].kind = "Doc"
    <3>1. \E s : buf[k + 2 * c.splits + 1] = DocRecord(s, d, c)
      BY <2>3 DEF Spells
    <3>2. Len(buf) = k + 2 * c.splits + 1
      BY <2>3 DEF Spells
    <3> QED
      BY <2>2, <3>1, <3>2 DEF DocRecord
  <2>5. \A i \in 1 .. Len(buf) : buf[i].doc = d
    BY <2>2, <2>3, SpelledDoc
  <2>6. \A i \in 1 .. Len(buf) : Decisive(buf[i]) =>
          \/ i = Len(buf) /\ buf[i].kind = "Doc"
          \/ i = 1 /\ buf[i].kind = "DeleteDoc"
    BY <2>2, <2>3, SpelledDecisive
  <2> QED
    BY <1>2, <1>3, <2>1, <2>4, <2>5, <2>6
<1>4. CASE op.step = "delete"
  <2>1. Len(buf) = 1 /\ buf[1].kind = "DeleteDoc" /\ buf[1].doc = op.doc
    BY <1>4 DEF Deleting
  <2>2. \A i \in 1 .. Len(buf) : i = 1
    BY <2>1
  <2> QED
    BY <1>2, <1>4, <2>1, <2>2
<1> QED
  BY <1>3, <1>4

(* A place behind the log that holds the record j of the buffer. *)
HoldsBuffered(gs, a, n, y, j) == y.seg = a /\ y.off = n + j /\ RecOf(gs, y) = buf[j]

(* With a part of the write behind it the log says what it said before, or  *)
(* what the write may leave.                                                *)
LEMMA WriterSays ==
  ASSUME SegmentsSafe, LogInv, SeqInv, AgreeInv, Deleting, op.step \in {"insert", "delete"},
         NEW tail, Behind(files', files, active, tail), Remains(tail), NEW k \in Nat,
         Len(files[active].recs) <= k, NEW S, SaysOne(files, Log, S)
  PROVE  SaysOne(files', CutAt(LogOf(files', LogIds), active, k), S \cup InFlight)
<1>1. Up /\ man.active = active /\ op.step \notin {"sealPublish", "compactPublish"}
  BY LogThere DEF Up
<1>2. PICK fs, gs, a, ids, P, R, Q, d, now :
        /\ fs = files /\ gs = files' /\ a = active /\ ids = LogIds
        /\ P = LogOf(files, LogIds) /\ R = LogOf(files', LogIds)
        /\ Q = CutAt(LogOf(files', LogIds), active, k) /\ d = op.doc /\ now = Versions(maps)
  OBVIOUS
<1>3. Behind(gs, fs, a, tail) /\ ids \in SUBSET DOMAIN fs /\ a \in ids
  BY <1>1, <1>2, LogThere DEF LogIds
<1>4. PICK L, n, N \in Nat : L = Len(fs[a].recs) /\ n = Len(tail) /\ N = Len(buf)
  <2>1. Len(fs[a].recs) \in Nat /\ Len(tail) \in Nat
    BY <1>3 DEF Behind
  <2>2. Len(buf) \in Nat
    BY WriteDecides
  <2> QED
    BY <2>1, <2>2
<1>5. n <= N /\ (\A i \in 1 .. n : IsTorn(tail[i]) \/ tail[i] = buf[i]) /\ L <= k
  BY <1>2, <1>4 DEF Remains
<1>6. PICK q \in Int : q = FirstFree /\ \A i \in 1 .. N : buf[i].seq = q + i - 1
  <2>1. FirstFree \in Int
    BY SlotsTyped
  <2> QED
    BY <1>1, <1>4, <2>1 DEF SeqInv, Numbering
<1>7. \A i \in 1 .. N : buf[i].doc = d /\ buf[i].seq \in Nat
  <2>1. \A i \in 1 .. N : buf[i].doc = d /\ buf[i] \in LogRecords
    BY <1>2, <1>4, WriteDecides
  <2> QED
    BY <2>1 DEF LogRecords, PartRecords, DeleteRecords, DocRecords
<1>8. ASSUME NEW y \in P
      PROVE  /\ y \in Q /\ RecOf(gs, y) = RecOf(fs, y) /\ RecOf(fs, y).seq < q
             /\ RecOf(fs, y).seq \in Nat
  <2>1. y \in R /\ RecOf(gs, y) = RecOf(fs, y)
    BY <1>2, <1>3, BehindPlaces
  <2>2. y.seg = a => y.off <= k
    <3>1. y.off \in Slots(fs, y.seg)
      BY <1>2, LogIn
    <3>2. y.seg = a => y.off \in 1 .. L
      BY <1>3, <1>4, <3>1 DEF Behind, Slots
    <3> QED
      BY <1>5, <3>2
  <2>3. RecOf(fs, y).seq < q /\ RecOf(fs, y).seq \in Nat
    BY <1>1, <1>2, <1>6, LogBelow DEF Log
  <2> QED
    BY <1>2, <2>1, <2>2, <2>3 DEF CutAt
<1>9. ASSUME NEW y \in Q
      PROVE  \/ y \in P /\ RecOf(gs, y) = RecOf(fs, y)
             \/ \E j \in 1 .. N : HoldsBuffered(gs, a, L, y, j)
  <2>1. y \in R
    BY <1>2 DEF CutAt
  <2>2. R = LogOf(gs, ids) /\ P = LogOf(fs, ids) /\ Len(tail) = n /\ Len(fs[a].recs) = L
    BY <1>2, <1>4
  <2>3. y \in LogOf(gs, ids) =>
          \/ y \in LogOf(fs, ids) /\ RecOf(gs, y) = RecOf(fs, y)
          \/ \E j \in 1 .. Len(tail) :
               /\ y.seg = a /\ y.off = Len(fs[a].recs) + j
               /\ RecOf(gs, y) = tail[j] /\ ~ IsTorn(tail[j])
    BY <1>3, BehindPlaces
  <2>4. \/ y \in P /\ RecOf(gs, y) = RecOf(fs, y)
        \/ \E j \in 1 .. n : /\ y.seg = a /\ y.off = L + j
                             /\ RecOf(gs, y) = tail[j] /\ ~ IsTorn(tail[j])
    BY <2>1, <2>2, <2>3
  <2> QED
    BY <1>5, <2>4 DEF HoldsBuffered
<1>10. Turns(fs, P, gs, Q, d)
  <2>1. ASSUME NEW y \in Q, RecOf(gs, y).doc # d PROVE y \in P /\ RecOf(fs, y) = RecOf(gs, y)
    BY <1>7, <1>9, <2>1 DEF HoldsBuffered
  <2> QED
    BY <1>8, <2>1 DEF Turns, Kept
<1>11. Counted(gs, Q)
  BY <1>7, <1>8, <1>9 DEF Counted, HoldsBuffered
<1>12. ASSUME NEW x \in Q, NEW j \in 1 .. N, HoldsBuffered(gs, a, L, x, j), Decisive(buf[j]),
              \A y \in Q, i \in 1 .. N :
                HoldsBuffered(gs, a, L, y, i) /\ Decisive(buf[i]) => i <= j
       PROVE  LastOn(gs, Q, d, x)
  <2>1. RecOf(gs, x) = buf[j] /\ RecOf(gs, x).seq = q + j - 1 /\ Decides(gs, x, d)
    BY <1>6, <1>7, <1>12 DEF HoldsBuffered, Decides
  <2>2. ASSUME NEW y \in Q, Decides(gs, y, d)
        PROVE  y = x \/ RecOf(gs, y).seq < RecOf(gs, x).seq
    <3>1. CASE y \in P /\ RecOf(gs, y) = RecOf(fs, y)
      <4>1. RecOf(fs, y).seq < q /\ RecOf(fs, y).seq \in Nat
        BY <1>8, <3>1
      <4> QED
        BY <2>1, <3>1, <4>1
    <3>2. CASE \E i \in 1 .. N : HoldsBuffered(gs, a, L, y, i)
      <4>1. PICK i \in 1 .. N : HoldsBuffered(gs, a, L, y, i)
        BY <3>2
      <4>2. Decisive(buf[i])
        BY <2>2, <4>1 DEF HoldsBuffered, Decides
      <4>3. i <= j
        BY <1>12, <4>1, <4>2
      <4>4. CASE i = j
        <5>1. x \in Locs /\ y \in Locs
          BY <1>2, LogIn DEF CutAt
        <5>2. y.seg = x.seg /\ y.off = x.off
          BY <1>12, <4>1, <4>4 DEF HoldsBuffered
        <5> QED
          BY <5>1, <5>2, LocEqual
      <4>5. CASE i < j
        <5>1. RecOf(gs, y).seq = q + i - 1
          BY <1>6, <4>1 DEF HoldsBuffered
        <5> QED
          BY <2>1, <4>5, <5>1
      <4> QED
        BY <4>3, <4>4, <4>5
    <3> QED
      BY <1>9, <3>1, <3>2
  <2> QED
    BY <2>1, <2>2 DEF LastOn
<1>13. Says(fs, P, now)
  BY <1>1, <1>2, MapsSay DEF Log
<1>14. \A j \in 1 .. N : Decisive(buf[j]) =>
         \/ j = N /\ op.step = "insert" /\ buf[j].kind = "Doc"
         \/ j = N /\ op.step = "delete" /\ buf[j].kind = "DeleteDoc"
         \/ j = 1 /\ op.step = "insert" /\ buf[j].kind = "DeleteDoc"
  BY <1>4, WriteDecides
<1>15. \A v : Whole(v).docs = v /\ TornOff(v).docs = v
  BY DEF Whole, TornOff
<1>16. SaysOne(gs, Q, S \cup InFlight)
  <2>1. CASE \E x \in Q : HoldsBuffered(gs, a, L, x, N) /\ Decisive(buf[N])
    <3>1. PICK x \in Q : HoldsBuffered(gs, a, L, x, N) /\ Decisive(buf[N])
      BY <2>1
    <3>2. N \in 1 .. N
      BY <1>4, WriteDecides
    <3>3. LastOn(gs, Q, d, x) /\ RecOf(gs, x) = buf[N]
      BY <1>12, <3>1, <3>2 DEF HoldsBuffered
    <3>4. CASE op.step = "insert"
      <4>1. buf[N].kind = "Doc"
        <5>1. N = Len(buf) /\ buf[Len(buf)].kind = "Doc"
          BY <1>4, <3>4, WriteDecides
        <5> QED
          BY <5>1
      <4>2. Says(gs, Q, [now EXCEPT ![d] = buf[N].seq])
        BY <1>10, <1>11, <1>13, <3>3, <4>1, LastSays
      <4>3. Whole([now EXCEPT ![d] = buf[N].seq]) \in InFlight
        BY <1>2, <1>4, <3>4 DEF InFlight
      <4> QED
        BY <1>15, <4>2, <4>3 DEF SaysOne
    <3>5. CASE op.step = "delete"
      <4>1. buf[N].kind # "Doc"
        BY <1>14, <3>1, <3>2, <3>5
      <4>2. Says(gs, Q, [now EXCEPT ![d] = 0])
        BY <1>10, <1>11, <1>13, <3>3, <4>1, LastSays
      <4>3. Whole([now EXCEPT ![d] = 0]) \in InFlight
        BY <1>2, <3>5 DEF InFlight
      <4> QED
        BY <1>15, <4>2, <4>3 DEF SaysOne
    <3> QED
      BY <3>4, <3>5
  <2>2. CASE /\ ~ \E x \in Q : HoldsBuffered(gs, a, L, x, N) /\ Decisive(buf[N])
             /\ \E x \in Q, j \in 1 .. N : HoldsBuffered(gs, a, L, x, j) /\ Decisive(buf[j])
    <3>1. PICK x \in Q, j \in 1 .. N : HoldsBuffered(gs, a, L, x, j) /\ Decisive(buf[j])
      BY <2>2
    <3>2. \A y \in Q, i \in 1 .. N : HoldsBuffered(gs, a, L, y, i) /\ Decisive(buf[i]) =>
            i = 1 /\ op.step = "insert" /\ buf[i].kind = "DeleteDoc"
      BY <1>14, <2>2
    <3>3. j = 1 /\ op.step = "insert" /\ buf[j].kind = "DeleteDoc"
      BY <3>1, <3>2
    <3>4. LastOn(gs, Q, d, x) /\ RecOf(gs, x).kind # "Doc"
      <4>1. \A y \in Q, i \in 1 .. N :
              HoldsBuffered(gs, a, L, y, i) /\ Decisive(buf[i]) => i <= j
        BY <3>2, <3>3
      <4> QED
        BY <1>12, <3>1, <3>3, <4>1 DEF HoldsBuffered
    <3>5. Says(gs, Q, [now EXCEPT ![d] = 0])
      BY <1>10, <1>11, <1>13, <3>4, LastSays
    <3>6. CASE d \in DOMAIN maps.docs
      <4>1. TornOff([now EXCEPT ![d] = 0]) \in InFlight
        BY <1>2, <3>3, <3>6 DEF InFlight
      <4> QED
        BY <1>15, <3>5, <4>1 DEF SaysOne
    <3>7. CASE d \notin DOMAIN maps.docs
      <4>1. now = [c \in Docs |-> now[c]]
        BY <1>13 DEF Says
      <4>2. d \in Docs => now[d] = 0
        BY <1>2, <3>7 DEF Versions
      <4>3. [now EXCEPT ![d] = 0] = now
        BY <4>1, <4>2
      <4>4. PICK s \in S : Says(fs, P, s.docs)
        BY <1>2 DEF SaysOne, Log
      <4>5. Counted(fs, P)
        BY <1>8 DEF Counted
      <4>6. s.docs = now
        BY <1>13, <4>4, <4>5, SaysUnique
      <4> QED
        BY <3>5, <4>3, <4>4, <4>6 DEF SaysOne
    <3> QED
      BY <3>6, <3>7
  <2>3. CASE ~ \E x \in Q, j \in 1 .. N : HoldsBuffered(gs, a, L, x, j) /\ Decisive(buf[j])
    <3>1. Kept(fs, P, gs, Q)
      BY <1>8 DEF Kept
    <3>2. ASSUME NEW y \in Q, Decisive(RecOf(gs, y)) PROVE y \in P /\ RecOf(fs, y) = RecOf(gs, y)
      <4>1. ASSUME NEW j \in 1 .. N, HoldsBuffered(gs, a, L, y, j) PROVE FALSE
        BY <2>3, <3>2, <4>1 DEF HoldsBuffered
      <4> QED
        BY <1>9, <4>1
    <3>3. Kept(gs, Q, fs, P)
      BY <3>2 DEF Kept
    <3>4. SaysOne(fs, P, S)
      BY <1>2 DEF Log
    <3>5. SaysOne(gs, Q, S)
      BY <3>1, <3>3, <3>4, SaysOneSame
    <3> QED
      BY <3>5 DEF SaysOne
  <2>4. N \in 1 .. N
    BY <1>4, WriteDecides
  <2> QED
    BY <2>1, <2>2, <2>3, <2>4
<1> QED
  BY <1>2, <1>16

(* A part of a write behind the log: a shorter cut takes all of it, any     *)
(* other leaves what the write may leave.                                   *)
LEMMA WriteBacked ==
  ASSUME SegmentsSafe, LogInv, SeqInv, AgreeInv, Deleting, PromiseInv,
         op.step \in {"insert", "delete"}, NEW tail, Behind(files', files, active, tail),
         Remains(tail), man' = man, since' = since \cup InFlight
  PROVE  Backed'
<1>1. man.active = active
  BY LogThere
<1>2. PICK fs, gs, a, ids, S, T :
        /\ fs = files /\ gs = files' /\ a = active /\ ids = LogIds /\ S = since
        /\ T = since \cup InFlight
  OBVIOUS
<1>3. Behind(gs, fs, a, tail) /\ ids \in SUBSET DOMAIN fs
  BY <1>2, LogThere
<1>4. PICK L, n \in Nat : L = Len(fs[a].recs) /\ n = Len(tail)
  BY <1>3 DEF Behind
<1>5. ASSUME NEW k \in Nat, CutsLate(gs, a, k) PROVE SaysOne(gs, CutAt(LogOf(gs, ids), a, k), T)
  <2>1. CASE L <= k
    BY <1>2, <1>4, <2>1, LogPromised, WriterSays DEF PromiseInv
  <2>2. CASE k < L
    <3>1. CutsLate(fs, a, k)
      <4>1. gs[a].synced = fs[a].synced
        BY <1>3 DEF Behind
      <4> QED
        BY <1>3, <1>5, <4>1, BehindSlots DEF CutsLate
    <3>2. PICK P, Q : P = CutAt(LogOf(fs, ids), a, k) /\ Q = CutAt(LogOf(gs, ids), a, k)
      OBVIOUS
    <3>3. SaysOne(fs, P, S)
      BY <1>1, <1>2, <3>1, <3>2 DEF PromiseInv, Backed, Log
    <3>4. ASSUME NEW y \in P PROVE y \in Q /\ RecOf(gs, y) = RecOf(fs, y)
      BY <1>3, <3>2, BehindPlaces DEF CutAt
    <3>5. ASSUME NEW y \in Q PROVE y \in P /\ RecOf(fs, y) = RecOf(gs, y)
      <4>1. y \in LogOf(gs, ids) /\ (y.seg = a => y.off <= k)
        BY <3>2 DEF CutAt
      <4>2. ASSUME NEW j \in 1 .. Len(tail), y.seg = a, y.off = Len(fs[a].recs) + j PROVE FALSE
        BY <1>4, <2>2, <4>1, <4>2
      <4>3. y \in LogOf(fs, ids) /\ RecOf(gs, y) = RecOf(fs, y)
        BY <1>3, <4>1, <4>2, BehindPlaces
      <4> QED
        BY <3>2, <4>1, <4>3 DEF CutAt
    <3>6. Kept(fs, P, gs, Q) /\ Kept(gs, Q, fs, P)
      BY <3>4, <3>5 DEF Kept
    <3>7. SaysOne(gs, Q, S)
      BY <3>3, <3>6, SaysOneSame
    <3> QED
      BY <1>2, <3>2, <3>7 DEF SaysOne
  <2> QED
    BY <1>4, <2>1, <2>2
<1>6. LogIds' = LogIds
  BY DEF LogIds
<1> QED
  BY <1>1, <1>2, <1>5, <1>6 DEF Backed, Log

(* A write is buffered, then flushed whole. *)
LEMMA FlushPromise ==
  ASSUME SegmentsSafe, LogInv, SeqInv, AgreeInv, Deleting, PromiseInv,
         op.step \in {"insert", "delete"}, files' = Flushed, man' = man,
         since' = since \cup InFlight, op' = AfterWrite
  PROVE  PromiseInv'
<1>1. Up
  BY DEF Up
<1>2. Behind(files', files, active, buf)
  BY <1>1, FlushBehind
<1>3. Remains(buf)
  <2>1. Len(buf) \in Nat
    BY WriteDecides
  <2> QED
    BY <2>1 DEF Remains
<1>4. Backed'
  BY <1>2, <1>3, WriteBacked
<1>5. op'.step \in {"idle", "seal"}
  BY AfterWriteStep
<1> QED
  BY <1>4, <1>5 DEF PromiseInv, Expected

LEMMA InsertCommitPromise ==
  ASSUME SegmentsSafe, LogInv, SeqInv, AgreeInv, Deleting, PromiseInv, InsertCommit
  PROVE  PromiseInv'
<1>1. /\ op.step = "insert" /\ files' = Flushed /\ man' = man
      /\ since' = since \cup InFlight /\ op' = AfterWrite
  BY DEF InsertCommit
<1> QED
  BY <1>1, FlushPromise

LEMMA DeleteCommitPromise ==
  ASSUME SegmentsSafe, LogInv, SeqInv, AgreeInv, Deleting, PromiseInv, DeleteCommit
  PROVE  PromiseInv'
<1>1. /\ op.step = "delete" /\ files' = Flushed /\ man' = man
      /\ since' = since \cup InFlight /\ op' = AfterWrite
  BY DEF DeleteCommit
<1> QED
  BY <1>1, FlushPromise

(* A process that dies with nothing buffered leaves the log as it is. *)
LEMMA NothingBehind ==
  ASSUME SegmentsSafe, LogInv, SeqInv, op.step \notin {"insert", "delete"},
         NEW tail, Behind(files', files, active, tail), Remains(tail)
  PROVE  SameLog(files, files', LogIds)
<1>1. buf = <<>> /\ LogIds \subseteq DOMAIN files
  BY LogThere DEF LogInv, OpTypes
<1>2. Len(tail) = 0
  <2>1. PICK e : e = buf
    OBVIOUS
  <2>2. Len(e) = 0
    BY <1>1, <2>1
  <2> QED
    BY <2>1, <2>2 DEF Behind, Remains
<1>3. PICK fs, gs, a, ids : fs = files /\ gs = files' /\ a = active /\ ids = LogIds
  OBVIOUS
<1>4. Behind(gs, fs, a, tail)
  BY <1>3
<1>5. /\ \A i \in Slots(fs, a) : i \in Slots(gs, a) /\ gs[a].recs[i] = fs[a].recs[i]
      /\ \A i \in Slots(gs, a) : i \in Slots(fs, a)
  <2>1. \A i \in 1 .. Len(tail) : FALSE
    BY <1>2
  <2> QED
    BY <1>4, <2>1, BehindSlots
<1>6. \A id \in ids : id # a => gs[id] = fs[id]
  BY <1>1, <1>3, <1>4 DEF Behind
<1>7. Slots(gs, a) = Slots(fs, a)
  BY <1>5
<1>8. ASSUME NEW id \in ids
      PROVE  /\ Slots(gs, id) = Slots(fs, id)
             /\ \A i \in Slots(fs, id) : gs[id].recs[i] = fs[id].recs[i]
  <2>1. CASE id = a
    BY <1>5, <1>7, <2>1
  <2>2. CASE id # a
    BY <1>6, <2>2 DEF Slots
  <2> QED
    BY <2>1, <2>2
<1> QED
  BY <1>3, <1>8 DEF SameLog

(* A dying process leaves the log and perhaps a part of the write in        *)
(* progress.                                                                *)
LEMMA CrashPromise ==
  ASSUME SegmentsSafe, LogInv, SeqInv, AgreeInv, Deleting, PromiseInv, Crash
  PROVE  PromiseInv'
<1>1. /\ op.step \notin {"down", "broken"} /\ man' = man /\ op' = At("down")
      /\ since' = since \cup InFlight
      /\ expect' = IF Up THEN {Whole(Versions(maps))} \cup InFlight ELSE expect
  BY DEF Crash
<1>2. PICK tail : Behind(files', files, active, tail) /\ Remains(tail)
  BY CrashLeaves
<1>3. LogIds' = LogIds /\ LogIds \subseteq DOMAIN files
  BY <1>1, LogThere DEF LogIds
<1>4. PICK v : v = Versions(maps) /\ Whole(v).docs = v
  BY DEF Whole
<1>5. CASE op.step \in {"insert", "delete"}
  <2>1. Backed'
    BY <1>1, <1>2, <1>5, WriteBacked
  <2>2. Up /\ man.active = active
    BY <1>5, LogThere DEF Up
  <2>3. SaysOne(files, Log, {Whole(v)})
    BY <1>4, <2>2, MapsSay DEF SaysOne
  <2>4. PICK fs, gs, a, ids, T : /\ fs = files /\ gs = files' /\ a = active /\ ids = LogIds
                                 /\ T = {Whole(v)} \cup InFlight
    OBVIOUS
  <2>5. Behind(gs, fs, a, tail)
    BY <1>2, <2>4
  <2>6. PICK L, n \in Nat : L = Len(fs[a].recs) /\ n = Len(tail)
    BY <2>5 DEF Behind
  <2>7. SaysOne(files', CutAt(LogOf(files', LogIds), active, L + n), {Whole(v)} \cup InFlight)
    <3>1. L + n \in Nat /\ L <= L + n
      OBVIOUS
    <3>2. Len(files[active].recs) <= L + n
      BY <2>4, <2>6, <3>1
    <3> QED
      BY <1>2, <1>5, <2>3, <3>1, <3>2, WriterSays
  <2>8. CutAt(LogOf(gs, ids), a, L + n) = LogOf(gs, ids)
    <3>1. \A i \in Slots(gs, a) : i <= L + n
      BY <2>5, <2>6 DEF Behind, Slots
    <3> QED
      BY <3>1, CutNothing
  <2>9. SaysOne(gs, LogOf(gs, ids), T)
    BY <2>4, <2>7, <2>8
  <2>10. Expected'
    BY <1>1, <1>3, <1>4, <2>2, <2>4, <2>9 DEF Expected, Log
  <2> QED
    BY <2>1, <2>10 DEF PromiseInv
<1>6. CASE op.step \notin {"insert", "delete"}
  <2>1. InFlight = {}
    BY <1>6 DEF InFlight
  <2>2. SameLog(files, files', LogIds)
    BY <1>2, <1>6, NothingBehind
  <2>3. PICK fs, gs, ids : fs = files /\ gs = files' /\ ids = LogIds
    OBVIOUS
  <2>4. SameLog(fs, gs, ids)
    BY <2>2, <2>3
  <2>5. files'[man.active].synced = files[man.active].synced
    <3>1. man.active \in DOMAIN files
      BY <1>3 DEF LogIds
    <3> QED
      BY <1>2, <3>1 DEF Behind
  <2>6. Backed'
    BY <1>1, <1>3, <2>1, <2>2, <2>5, QuietBacked DEF PromiseInv
  <2>7. Expected'
    <3>1. CASE Up
      <4>1. Says(fs, LogOf(fs, ids), v)
        BY <1>4, <2>3, <3>1, MapsSay DEF Log
      <4>2. Says(gs, LogOf(gs, ids), v)
        BY <2>4, <4>1, LogSame, SaysSame
      <4>3. SaysOne(gs, LogOf(gs, ids), {Whole(v)})
        BY <1>4, <4>2 DEF SaysOne
      <4>4. expect' = {Whole(v)}
        BY <1>1, <1>4, <2>1, <3>1
      <4> QED
        BY <1>3, <2>3, <4>3, <4>4 DEF Expected, Log
    <3>2. CASE ~ Up
      BY <1>1, <1>3, <2>2, <3>2, ClosedExpected DEF Up, PromiseInv
    <3> QED
      BY <3>1, <3>2
  <2> QED
    BY <2>6, <2>7 DEF PromiseInv
<1> QED
  BY <1>5, <1>6

-----------------------------------------------------------------------------
(* Compactions *)

(* The versions whose last record is in the active segment. *)
Here == {files[active].recs[i].seq : i \in DOMAIN files[active].recs}

LEMMA DroppedDocs ==
  ASSUME NEW s
  PROVE  AfterDropping(s).docs =
           [d \in Docs |-> IF s.docs[d] \in Here \cup {Versions(maps)[d]} THEN s.docs[d] ELSE 0]
<1>1. PICK here, left :
        /\ here = {RecordAt([seg |-> active, off |-> i]).seq : i \in DOMAIN files[active].recs}
        /\ left = [d \in Docs |-> IF s.docs[d] \in here \cup {Versions(maps)[d]}
                                  THEN s.docs[d] ELSE 0]
  OBVIOUS
<1>2. AfterDropping(s) = IF left = s.docs THEN s ELSE [docs |-> left, lost |-> "dropped"]
  BY <1>1 DEF AfterDropping
<1>3. AfterDropping(s).docs = left
  BY <1>2
<1>4. here = Here
  BY <1>1 DEF Here, RecordAt
<1> QED
  BY <1>1, <1>3, <1>4

(* What moved is the same record where it moved to, outside the active      *)
(* segment if it was.                                                       *)
LEMMA MovedRecord ==
  ASSUME SegmentsSafe, LogInv, SeqInv, CompactPublish, NEW loc
  PROVE  /\ RecOf(files, Relocate(loc)) = RecOf(files, loc)
         /\ loc.seg # active => Relocate(loc).seg # active
<1>1. op.step = "compactPublish"
  BY DEF CompactPublish
<1>2. CASE Relocate(loc) = loc
  BY <1>2
<1>3. CASE \E i \in 1 .. Len(op.order) :
             op.order[i] = loc /\ Relocate(loc).seg = op.seg /\ Relocate(loc).off = i
  <2>1. PICK i \in 1 .. Len(op.order) :
          op.order[i] = loc /\ Relocate(loc).seg = op.seg /\ Relocate(loc).off = i
    BY <1>3
  <2>2. files[op.seg].recs[i] = files[loc.seg].recs[loc.off]
    BY <1>1, <2>1 DEF SeqInv, Copied
  <2>3. op.order # <<>>
    <3>1. PICK e : e = op.order
      OBVIOUS
    <3>2. e # <<>>
      BY <2>1, <3>1
    <3> QED
      BY <3>1, <3>2
  <2>4. op.seg # active
    BY <1>1, <2>3 DEF SeqInv, Copied
  <2> QED
    BY <2>1, <2>2, <2>4 DEF RecOf
<1> QED
  BY <1>1, <1>2, <1>3, RelocateTo

(* A cut of the log that a compaction publishes says of each document what  *)
(* the same cut of the old log said, but for those the log had taken leave  *)
(* of: their old versions are gone.                                         *)
LEMMA PublishSays ==
  ASSUME SegmentsSafe, LogInv, SeqInv, OwnInv, AgreeInv, CompactPublish, NEW k \in Nat, NEW s,
         Says(files, CutAt(Log, active, k), s.docs)
  PROVE  Says(files, CutAt(LogOf(files, SealedIds(m) \cup {active}), active, k),
              AfterDropping(s).docs)
<1>1. op.step = "compactPublish" /\ Up /\ man.active = active
  BY LogThere DEF CompactPublish, Up
<1>2. PICK fs, a, P, Q, C, D, v, w, now :
        /\ fs = files /\ a = active /\ P = Log /\ Q = LogOf(files, SealedIds(m) \cup {active})
        /\ C = CutAt(P, a, k) /\ D = CutAt(Q, a, k) /\ v = s.docs
        /\ w = AfterDropping(s).docs /\ now = Versions(maps)
  OBVIOUS
<1>3. w = [d \in Docs |-> IF v[d] \in Here \cup {now[d]} THEN v[d] ELSE 0]
  BY <1>2, DroppedDocs
<1>4. \A y : y \in Q <=> y \in Locs /\ y.seg \in SealedIds(m) \cup {a} /\ y.off \in Slots(fs, y.seg)
  BY <1>2, LogIn
<1>5. \A y : y \in P <=>
        y \in Locs /\ y.seg \in SealedIds(man) \cup {a} /\ y.off \in Slots(fs, y.seg)
  BY <1>1, <1>2, LogIn DEF Log, LogIds
<1>6. \A y : /\ y \in C <=> y \in P /\ (y.seg = a => y.off <= k)
             /\ y \in D <=> y \in Q /\ (y.seg = a => y.off <= k)
  BY <1>2 DEF CutAt
<1>7. \A y : y.seg = a => (y \in C <=> y \in D)
  BY <1>4, <1>5, <1>6
<1>8. ASSUME NEW y \in C, NEW z \in C, y.seg # a, z.seg = a
      PROVE  RecOf(fs, y).seq < RecOf(fs, z).seq
  <2>1. Numbered(fs, SealedIds(man), a, man.nextSeq)
    BY <1>1, <1>2 DEF SeqInv, Numbering
  <2>2. y.seg \in SealedIds(man) /\ y.off \in Slots(fs, y.seg) /\ z.off \in Slots(fs, a)
    BY <1>5, <1>6, <1>8
  <2> QED
    BY <1>8, <2>1, <2>2 DEF Numbered, SeqAt, RecOf
<1>9. ASSUME NEW y \in D, NEW z \in D, y.seg # a, z.seg = a
      PROVE  RecOf(fs, y).seq < RecOf(fs, z).seq
  <2>1. Numbered(fs, SealedIds(m), a, FirstFree)
    BY <1>1, <1>2 DEF SeqInv, Numbering
  <2>2. y.seg \in SealedIds(m) /\ y.off \in Slots(fs, y.seg) /\ z.off \in Slots(fs, a)
    BY <1>4, <1>6, <1>9
  <2> QED
    BY <1>9, <2>1, <2>2 DEF Numbered, SeqAt, RecOf
<1>10. LogIds \in SUBSET DOMAIN files
  BY LogThere
<1>11. Counted(fs, C)
  <2>1. Counted(files, LogOf(files, LogIds))
    BY <1>10, LogCounted
  <2> QED
    BY <1>2, <1>6, <2>1 DEF Counted, Log
<1>12. \A d \in DOMAIN maps.docs : Final(fs, P, d, maps.docs[d].loc)
  BY <1>1, <1>2 DEF AgreeInv, Agrees
<1>13. ASSUME NEW d, NEW y \in D, Decides(fs, y, d), y.seg # a
       PROVE  d \in DOMAIN maps.docs /\ Final(fs, C, d, maps.docs[d].loc)
  <2>1. PICK t, ord : t = op.seg /\ ord = op.order
    OBVIOUS
  <2>2. SealedIds(m) = IF ord = <<>> THEN {} ELSE {t}
    BY <1>1, <2>1 DEF AgreeInv, Apart
  <2>3. y.seg = t /\ ord # <<>> /\ y.off \in Slots(fs, t)
    BY <1>4, <1>6, <1>13, <2>2
  <2>4. y.off \in 1 .. Len(ord)
    <3>1. t \in DOMAIN fs /\ Len(fs[t].recs) = Len(ord)
      BY <1>1, <1>2, <2>1, <2>3 DEF SeqInv, Copied
    <3> QED
      BY <1>2, <2>3, <3>1, SlotsTyped
  <2>5. Decisive(fs[t].recs[y.off]) /\ fs[t].recs[y.off].doc = d
    BY <1>13, <2>3, Zenon DEF Decides, RecOf
  <2>6. d \in DOMAIN maps.docs /\ maps.docs[d].loc = ord[y.off]
    BY <1>1, <1>2, <2>1, <2>4, <2>5, CopiedMeant
  <2>7. PICK e : e = maps.docs[d].loc
    OBVIOUS
  <2>8. e.seg # a
    BY <1>1, <1>2, <2>1, <2>4, <2>6, <2>7 DEF SeqInv, Copied
  <2>9. Final(fs, P, d, e)
    BY <1>12, <2>6, <2>7
  <2>10. e \in C
    BY <1>6, <2>8, <2>9 DEF Final, LastOn
  <2>11. \A z \in C : z \in P
    BY <1>6
  <2> QED
    BY <2>6, <2>7, <2>9, <2>10, <2>11 DEF Final, LastOn
<1>14. ASSUME NEW d \in Docs
       PROVE  \/ w[d] = 0 /\ \A y \in D : ~ Final(fs, D, d, y)
              \/ \E y \in D : Final(fs, D, d, y) /\ w[d] = RecOf(fs, y).seq
  <2>1. CASE v[d] = 0 /\ \A x \in C : ~ Final(fs, C, d, x)
    <3>1. w[d] = 0
      BY <1>3, <2>1
    <3>2. ASSUME NEW y \in D, Final(fs, D, d, y) PROVE FALSE
      <4>1. Decides(fs, y, d) /\ RecOf(fs, y).kind = "Doc"
        BY <3>2 DEF Final, LastOn
      <4>2. CASE y.seg = a
        <5>1. y \in C
          BY <1>7, <4>2
        <5>2. ASSUME NEW z \in C, Decides(fs, z, d)
              PROVE  z = y \/ RecOf(fs, z).seq < RecOf(fs, y).seq
          BY <1>7, <1>8, <3>2, <4>2, <5>1, <5>2 DEF Final, LastOn
        <5>3. Final(fs, C, d, y)
          BY <4>1, <5>1, <5>2 DEF Final, LastOn
        <5> QED
          BY <2>1, <5>1, <5>3
      <4>3. CASE y.seg # a
        <5>1. Final(fs, C, d, maps.docs[d].loc)
          BY <1>13, <4>1, <4>3
        <5> QED
          BY <2>1, <5>1 DEF Final, LastOn
      <4> QED
        BY <4>2, <4>3
    <3> QED
      BY <3>1, <3>2
  <2>2. CASE \E x \in C : Final(fs, C, d, x) /\ v[d] = RecOf(fs, x).seq
    <3>1. PICK x \in C : Final(fs, C, d, x) /\ v[d] = RecOf(fs, x).seq
      BY <2>2
    <3>2. Decides(fs, x, d) /\ RecOf(fs, x).kind = "Doc"
      BY <3>1 DEF Final, LastOn
    <3>3. CASE x.seg = a
      <4>1. x \in D
        BY <1>7, <3>3
      <4>2. v[d] \in Here
        <5>1. x.off \in DOMAIN fs[a].recs
          BY <1>5, <1>6, <3>3 DEF Slots
        <5> QED
          BY <1>2, <3>1, <3>3, <5>1 DEF Here, RecOf
      <4>3. w[d] = v[d]
        BY <1>3, <4>2
      <4>4. ASSUME NEW z \in D, Decides(fs, z, d)
            PROVE  z = x \/ RecOf(fs, z).seq < RecOf(fs, x).seq
        BY <1>7, <1>9, <3>1, <3>3, <4>1, <4>4 DEF Final, LastOn
      <4>5. Final(fs, D, d, x)
        BY <3>2, <4>1, <4>4 DEF Final, LastOn
      <4> QED
        BY <3>1, <4>1, <4>3, <4>5
    <3>4. CASE x.seg # a
      <4>1. ASSUME NEW y \in C, Decides(fs, y, d), y.seg = a PROVE FALSE
        <5>1. RecOf(fs, x).seq < RecOf(fs, y).seq
          BY <1>8, <3>4, <4>1
        <5>2. y = x \/ RecOf(fs, y).seq < RecOf(fs, x).seq
          BY <3>1, <4>1 DEF Final, LastOn
        <5>3. RecOf(fs, x).seq \in Nat /\ RecOf(fs, y).seq \in Nat
          BY <1>11 DEF Counted
        <5> QED
          BY <3>4, <4>1, <5>1, <5>2, <5>3
      <4>2. ASSUME NEW y \in D, Decides(fs, y, d) PROVE y.seg # a
        BY <1>7, <4>1, <4>2
      <4>3. CASE d \in DOMAIN maps.docs /\ maps.docs[d].loc = x
        <5>1. PICK new : new = Relocate(x)
          OBVIOUS
        <5>2. Final(fs, Q, d, new)
          BY <1>2, <4>3, <5>1, PublishFinal
        <5>3. RecOf(fs, new) = RecOf(fs, x) /\ new.seg # a
          BY <1>2, <3>4, <5>1, MovedRecord
        <5>4. new \in D
          BY <1>6, <5>2, <5>3 DEF Final, LastOn
        <5>5. \A z \in D : z \in Q
          BY <1>6
        <5>6. Final(fs, D, d, new)
          BY <5>2, <5>4, <5>5 DEF Final, LastOn
        <5>7. now[d] = v[d]
          <6>1. x.seg \in DOMAIN fs
            BY <1>2, <1>5, <1>6, <1>10, <3>4, SlotsTyped
          <6>2. RecOf(fs, x).seq = maps.docs[d].seq
            <7>1. Resolve(files, maps, man.nextSegmentId)
              BY <1>1 DEF SeqInv, References
            <7> QED
              BY <1>2, <4>3, <6>1, <7>1, EntrySeq
          <6> QED
            BY <1>2, <3>1, <4>3, <6>2 DEF Versions
        <5>8. w[d] = v[d]
          BY <1>3, <5>7
        <5> QED
          BY <3>1, <5>3, <5>4, <5>6, <5>8
      <4>4. CASE ~ (d \in DOMAIN maps.docs /\ maps.docs[d].loc = x)
        <5>1. ASSUME NEW y \in D, Final(fs, D, d, y) PROVE FALSE
          <6>1. Decides(fs, y, d)
            BY <5>1 DEF Final, LastOn
          <6>2. d \in DOMAIN maps.docs /\ Final(fs, C, d, maps.docs[d].loc)
            BY <1>13, <4>2, <6>1
          <6>3. maps.docs[d].loc = x
            BY <1>11, <3>1, <6>2, LastUnique DEF Final
          <6> QED
            BY <4>4, <6>2, <6>3
        <5>2. PICK n \in Nat \ {0} : n = v[d]
          <6>1. x.seg \in DOMAIN fs /\ x.off \in Slots(fs, x.seg)
            BY <1>2, <1>5, <1>6, <1>10, <3>4, SlotsTyped
          <6>2. fs[x.seg].recs \in Seq(LogRecords \cup {Torn})
            BY <1>2, <6>1 DEF LogInv, DiskTypes, FilesTyped, Segments
          <6>3. RecOf(fs, x) \in LogRecords
            <7>1. x.off \in 1 .. Len(fs[x.seg].recs)
              BY <6>1, <6>2, LenProperties DEF Slots
            <7>2. RecOf(fs, x) \in LogRecords \cup {Torn}
              BY <6>2, <7>1, ElementOfSeq DEF RecOf
            <7>3. ~ IsTorn(RecOf(fs, x))
              BY <6>1 DEF Slots, RecOf
            <7> QED
              BY <7>2, <7>3 DEF IsTorn, Torn
          <6>4. RecOf(fs, x).seq \in Nat \ {0}
            BY <6>3 DEF LogRecords, PartRecords, DeleteRecords, DocRecords
          <6> QED
            BY <3>1, <6>4
        <5>3. v[d] \notin Here
          <6>1. ASSUME NEW i \in DOMAIN fs[a].recs PROVE n # fs[a].recs[i].seq
            <7>1. fs[a].recs \in Seq(LogRecords) /\ a \in Nat
              BY <1>1, <1>2, ActiveFacts
            <7>2. i \in 1 .. Len(fs[a].recs)
              BY <7>1, LenProperties
            <7>3. fs[a].recs[i] \in LogRecords
              BY <7>1, <7>2, ElementOfSeq
            <7>4. i \in Slots(fs, a) /\ fs[a].recs[i].seq \in Nat
              BY <7>3 DEF Slots, IsTorn, LogRecords, PartRecords, DeleteRecords, DocRecords
            <7>5. Numbered(fs, SealedIds(man), a, man.nextSeq)
              BY <1>1, <1>2 DEF SeqInv, Numbering
            <7>6. x.seg \in SealedIds(man) /\ x.off \in Slots(fs, x.seg)
              BY <1>5, <1>6, <3>4
            <7>7. RecOf(fs, x).seq < fs[a].recs[i].seq
              BY <7>4, <7>5, <7>6 DEF Numbered, SeqAt, RecOf
            <7> QED
              BY <3>1, <5>2, <7>4, <7>7
          <6> QED
            BY <1>2, <5>2, <6>1 DEF Here
        <5>4. v[d] # now[d]
          <6>1. CASE d \notin DOMAIN maps.docs
            BY <1>2, <5>2, <6>1 DEF Versions
          <6>2. CASE d \in DOMAIN maps.docs
            <7>1. PICK e : e = maps.docs[d].loc /\ e # x
              BY <4>4, <6>2
            <7>2. Final(fs, P, d, e)
              BY <1>12, <6>2, <7>1
            <7>3. e \in P /\ x \in P
              BY <1>6, <7>2 DEF Final, LastOn
            <7>4. RecOf(fs, x).seq < RecOf(fs, e).seq
              BY <3>2, <7>1, <7>2, <7>3 DEF Final, LastOn
            <7>5. e.seg \in DOMAIN fs
              BY <1>1, <1>2, <1>5, <1>10, <7>3 DEF LogIds
            <7>6. RecOf(fs, e).seq = maps.docs[d].seq
              <8>1. Resolve(files, maps, man.nextSegmentId)
                BY <1>1 DEF SeqInv, References
              <8> QED
                BY <1>2, <6>2, <7>1, <7>5, <8>1, EntrySeq
            <7>7. now[d] = RecOf(fs, e).seq
              BY <1>2, <6>2, <7>6 DEF Versions
            <7>8. RecOf(fs, e).seq \in Nat
              <8>1. Counted(files, LogOf(files, LogIds))
                BY <1>10, LogCounted
              <8> QED
                BY <1>2, <7>3, <8>1 DEF Counted, Log
            <7> QED
              BY <3>1, <5>2, <7>4, <7>7, <7>8
          <6> QED
            BY <6>1, <6>2
        <5>5. w[d] = 0
          BY <1>3, <5>3, <5>4
        <5> QED
          BY <5>1, <5>5
      <4> QED
        BY <4>3, <4>4
    <3> QED
      BY <3>3, <3>4
  <2>3. Says(fs, C, v)
    BY <1>2
  <2> QED
    BY <2>1, <2>2, <2>3 DEF Says
<1>15. w = [d \in Docs |-> w[d]]
  BY <1>3
<1>16. Says(fs, D, w)
  BY <1>14, <1>15 DEF Says
<1> QED
  BY <1>2, <1>16

LEMMA CompactPublishPromise ==
  ASSUME SegmentsSafe, LogInv, SeqInv, OwnInv, AgreeInv, PromiseInv, CompactPublish
  PROVE  PromiseInv'
<1>1. /\ op.step = "compactPublish" /\ op' = At("compactRemove") /\ man' = m /\ files' = files
      /\ since' = {AfterDropping(s) : s \in since}
  BY DEF CompactPublish
<1>2. /\ op'.step = "compactRemove" /\ man.active = active /\ m.active = active
  BY <1>1, LogThere DEF At, SegmentsSafe, ActiveApart
<1>3. PICK Q : Q = LogOf(files, SealedIds(m) \cup {active})
  OBVIOUS
<1>4. Log' = Q /\ man'.active = active
  BY <1>1, <1>2, <1>3 DEF Log, LogIds
<1>5. ASSUME NEW k \in Nat, CutsLate(files, active, k)
      PROVE  SaysOne(files, CutAt(Q, active, k), since')
  <2>1. PICK s \in since : Says(files, CutAt(Log, active, k), s.docs)
    BY <1>2, <1>5 DEF PromiseInv, Backed, SaysOne
  <2>2. Says(files, CutAt(Q, active, k), AfterDropping(s).docs)
    BY <1>3, <2>1, PublishSays
  <2>3. AfterDropping(s) \in since'
    BY <1>1
  <2> QED
    BY <2>2, <2>3 DEF SaysOne
<1>6. Backed'
  BY <1>1, <1>4, <1>5 DEF Backed
<1> QED
  BY <1>2, <1>6 DEF PromiseInv, Expected

-----------------------------------------------------------------------------
(* What an open may recover: the theorem *)

LEMMA InitPromise ==
  ASSUME Init
  PROVE  PromiseInv
<1>1. /\ files = [id \in {0} |-> EmptySegment] /\ man = NewManifest /\ op = At("idle")
      /\ since = {Whole([d \in Docs |-> 0])}
  BY DEF Init
<1>2. /\ op.step = "idle" /\ man.sealed = <<>> /\ man.active = 0
  BY <1>1 DEF At, NewManifest
<1>3. PICK q : q = <<>> /\ man.sealed = q
  BY <1>2
<1>4. Len(q) = 0 /\ DOMAIN q = {}
  BY <1>3
<1>5. SealedIds(man) = {}
  BY <1>3, <1>4 DEF SealedIds
<1>6. LogIds = {0}
  BY <1>2, <1>5 DEF LogIds
<1>7. files[0].recs = q
  BY <1>1, <1>3 DEF EmptySegment
<1>8. Slots(files, 0) = {}
  BY <1>4, <1>7 DEF Slots
<1>9. \A x : x \notin Log
  BY <1>6, <1>8 DEF Log, LogOf
<1>10. PICK v : v = [d \in Docs |-> 0]
  OBVIOUS
<1>11. PICK s : s = Whole(v)
  OBVIOUS
<1>12. s \in since /\ s.docs = v
  BY <1>1, <1>10, <1>11 DEF Whole
<1>13. ASSUME NEW k \in Nat PROVE Says(files, CutAt(Log, man.active, k), s.docs)
  <2>1. \A x : x \notin CutAt(Log, man.active, k)
    BY <1>9 DEF CutAt
  <2>2. v = [d \in Docs |-> v[d]] /\ \A d \in Docs : v[d] = 0
    BY <1>10
  <2>3. Says(files, CutAt(Log, man.active, k), v)
    BY <2>1, <2>2 DEF Says
  <2> QED
    BY <1>12, <2>3
<1> QED
  BY <1>2, <1>12, <1>13 DEF PromiseInv, Backed, Expected, SaysOne

LEMMA NextPromise ==
  ASSUME SegmentsSafe, LogInv, SeqInv, OwnInv, Deleting, AgreeInv, PromiseInv, LogInv',
         [Next]_vars
  PROVE  PromiseInv'
<1>1. CASE Next
  BY <1>1, AppendDocumentPromise, InsertRewindPromise, InsertCommitPromise,
     AppendDeletePromise, DeleteCommitPromise, SealActivePromise, SealPublishPromise,
     FsyncPromise, SnapshotWritePromise, SnapshotPublishPromise, CompactWritePromise,
     CompactFailsPromise, CompactUnsnapPromise, CompactPublishPromise,
     CompactRemovePromise, CrashPromise, PowerLossPromise, OpenBeginPromise,
     OpenRejectPromise, OpenReplayPromise DEF Next
<1>2. CASE UNCHANGED vars
  <2>1. /\ files' = files /\ man' = man /\ op' = op /\ since' = since /\ expect' = expect
    BY <1>2 DEF vars
  <2>2. Log' = Log
    BY <2>1 DEF Log, LogIds, SealedIds
  <2>3. Backed'
    BY <2>1, <2>2 DEF PromiseInv, Backed
  <2>4. Expected'
    BY <2>1, <2>2 DEF PromiseInv, Expected
  <2> QED
    BY <2>3, <2>4 DEF PromiseInv
<1> QED
  BY <1>1, <1>2

LEMMA PromiseInvariant == Spec => []PromiseInv
<1>1. SegmentsSafe /\ LogInv /\ SeqInv /\ OwnInv /\ Deleting /\ AgreeInv /\ PromiseInv
      /\ LogInv' /\ [Next]_vars => PromiseInv'
  BY NextPromise
<1>2. Init => PromiseInv
  BY InitPromise
<1> QED
  BY <1>1, <1>2, SegmentsStaySafe, LogInvariant, SeqInvariant, OwnInvariant,
     DeletingInvariant, AgreeInvariant, PTL DEF Spec

(* What an open recovers after a crash or a power loss, at any point of any *)
(* operation or of the open itself, is one of the states promised: the      *)
(* process dying costs nothing acknowledged, a power loss takes back whole  *)
(* operations, latest first, and none that a sync covered (store.rs:587),   *)
(* with the two things given up that the property names.                    *)
THEOREM StoreRecoveryKeepsPromise == Spec => []RecoveryKeepsPromise
<1>1. ASSUME SegmentsSafe, LogInv, SeqInv, OwnInv, AgreeInv, PromiseInv,
             op.step \in {"down", "reject", "replay"}
      PROVE  \E s \in expect : Versions(Recovered) = s.docs
  <2>1. PICK base : base = SnapshotBase
    OBVIOUS
  <2>2. Fit(base)
    BY <1>1, <2>1, SnapshotFits
  <2>3. Reads(ReplayFrom(base))
    BY <1>1, <2>2, ReplayReads
  <2>4. PICK mp : mp = Recovered
    OBVIOUS
  <2>5. Reads(mp)
    BY <2>1, <2>3, <2>4 DEF Recovered
  <2>6. Says(files, Log, Versions(mp))
    BY <1>1, <2>5, LogSays DEF Reads
  <2>7. PICK s \in expect : Says(files, Log, s.docs)
    BY <1>1 DEF PromiseInv, Expected, SaysOne
  <2>8. Counted(files, Log)
    <3>1. LogIds \in SUBSET DOMAIN files
      BY <1>1, LogThere
    <3>2. Counted(files, LogOf(files, LogIds))
      BY <1>1, <3>1, LogCounted
    <3> QED
      BY <3>2 DEF Log
  <2>9. Versions(mp) = s.docs
    BY <2>6, <2>7, <2>8, SaysUnique
  <2> QED
    BY <2>4, <2>7, <2>9
<1>2. SegmentsSafe /\ LogInv /\ SeqInv /\ OwnInv /\ AgreeInv /\ PromiseInv
      => RecoveryKeepsPromise
  BY <1>1 DEF RecoveryKeepsPromise
<1> QED
  BY <1>2, SegmentsStaySafe, LogInvariant, SeqInvariant, OwnInvariant, AgreeInvariant,
     PromiseInvariant, PTL

-----------------------------------------------------------------------------
(* The documents a store stands for *)

(* What the store stands for is what its log says. *)
Standing == Says(files, Log, Stands) /\ Counted(files, Log)

LEMMA StandingInvariant == Spec => []Standing
<1>1. ASSUME SegmentsSafe, LogInv, SeqInv, OwnInv, AgreeInv PROVE Says(files, Log, Stands)
  <2>1. CASE Up
    BY <1>1, <2>1, MapsSay DEF Stands
  <2>2. CASE ~ Up
    <3>1. PICK base : base = SnapshotBase
      OBVIOUS
    <3>2. Fit(base)
      BY <1>1, <3>1, SnapshotFits
    <3>3. Reads(ReplayFrom(base))
      BY <1>1, <3>2, ReplayReads
    <3>4. PICK mp : mp = Recovered
      OBVIOUS
    <3>5. Reads(mp)
      BY <3>1, <3>3, <3>4 DEF Recovered
    <3>6. Says(files, Log, Versions(mp))
      BY <1>1, <3>5, LogSays DEF Reads
    <3> QED
      BY <2>2, <3>4, <3>6 DEF Stands
  <2> QED
    BY <2>1, <2>2
<1>2. ASSUME SegmentsSafe, LogInv, SeqInv PROVE Counted(files, Log)
  <2>1. LogIds \in SUBSET DOMAIN files
    BY <1>2, LogThere
  <2>2. Counted(files, LogOf(files, LogIds))
    BY <1>2, <2>1, LogCounted
  <2> QED
    BY <2>2 DEF Log
<1>3. SegmentsSafe /\ LogInv /\ SeqInv /\ OwnInv /\ AgreeInv => Standing
  BY <1>1, <1>2 DEF Standing
<1> QED
  BY <1>3, SegmentsStaySafe, LogInvariant, SeqInvariant, OwnInvariant, AgreeInvariant, PTL

(* A write that is in progress was given numbers within the bound. *)
Budget == op.step = "insert" => m.nextSeq <= MaxSeq + 1

LEMMA BudgetInvariant == Spec => []Budget
<1>1. Init => Budget
  BY DEF Init, Budget, At
<1>2. ASSUME SegmentsSafe, LogInv, Budget, [Next]_vars PROVE Budget'
  <2>1. ASSUME NEW d \in Docs, NEW c \in Contents, AppendDocument(d, c) PROVE Budget'
    <3>1. PICK n : n = Len(DocumentRecords(d, c, m.nextSeq))
      OBVIOUS
    <3>2. m.nextSeq + n <= MaxSeq + 1 /\ m' = [m EXCEPT !.nextSeq = @ + n]
      BY <2>1, <3>1 DEF AppendDocument
    <3>3. m'.nextSeq = m.nextSeq + n
      <4>1. m = [f \in ManifestFields |-> m[f]]
        BY <1>2 DEF SegmentsSafe, WellFormed
      <4> QED
        BY <3>2, <4>1, Zenon DEF ManifestFields
    <3> QED
      BY <3>2, <3>3 DEF Budget
  <2>2. ASSUME op' = op, m' = m PROVE Budget'
    BY <1>2, <2>2 DEF Budget
  <2>3. ASSUME op'.step # "insert" PROVE Budget'
    BY <2>3 DEF Budget
  <2>4. ASSUME Next, \A d \in Docs, c \in Contents : ~ AppendDocument(d, c)
        PROVE  op'.step # "insert"
    <3>1. CASE InsertRewind \/ InsertCommit \/ DeleteCommit
      <4>1. op' = At("idle") \/ op' = AfterWrite
        BY <3>1 DEF InsertRewind, InsertCommit, DeleteCommit
      <4> QED
        BY <4>1, AfterWriteStep DEF At
    <3>2. CASE \E d \in Docs : AppendDelete(d)
      BY <3>2 DEF AppendDelete
    <3>3. CASE SealActive \/ SealPublish \/ SnapshotWrite \/ SnapshotPublish
      BY <3>3 DEF SealActive, SealPublish, SnapshotWrite, SnapshotPublish, At
    <3>4. CASE Fsync
      BY <3>4 DEF Fsync
    <3>5. CASE CompactFails
      BY <3>5 DEF CompactFails
    <3>6. CASE CompactWrite \/ CompactUnsnap
      BY <3>6 DEF CompactWrite, CompactUnsnap
    <3>7. CASE CompactPublish \/ CompactRemove
      BY <3>7 DEF CompactPublish, CompactRemove, At
    <3>8. CASE Crash
      BY <3>8 DEF Crash, At
    <3>9. CASE PowerLoss
      BY <3>9 DEF PowerLoss
    <3>10. CASE OpenBegin
      BY <3>10 DEF OpenBegin, At
    <3>11. CASE OpenReject \/ OpenReplay
      BY <3>11 DEF OpenReject, OpenReplay, At
    <3> QED
      BY <2>4, <3>1, <3>2, <3>3, <3>4, <3>5, <3>6, <3>7, <3>8, <3>9, <3>10, <3>11 DEF Next
  <2>5. CASE UNCHANGED vars
    BY <2>2, <2>5 DEF vars
  <2> QED
    BY <1>2, <2>1, <2>3, <2>4, <2>5
<1> QED
  BY <1>1, <1>2, SegmentsStaySafe, LogInvariant, PTL DEF Spec
-----------------------------------------------------------------------------
(* Steps that change no document *)

(* The auxiliary variable says what the store stands for, and so after the *)
(* step.                                                                   *)
Told == docs = Stands /\ docs' = Stands'

LEMMA UnmovedStands ==
  ASSUME UNCHANGED vars
  PROVE  Stands' = Stands /\ Up' = Up
  BY DEF vars, Stands, Up, Recovered, ReplayFrom, SnapshotBase, SnapshotAccepted,
         LocationsFit, Fits

LEMMA OpenStands ==
  ASSUME Told, Up, Up'
  PROVE  docs = Versions(maps) /\ docs' = Versions(maps')
  BY DEF Told, Stands

LEMMA StaysOpen ==
  ASSUME Told, Up, Up', maps' = maps, since' = since
  PROVE  UNCHANGED Abstract!vars
<1>1. docs' = docs
  BY OpenStands
<1>2. Promised' = Promised
  BY DEF Promised
<1> QED
  BY <1>1, <1>2 DEF Abstract!vars

LEMMA SyncsOpen ==
  ASSUME Told, Up, Up', maps' = maps, since' = {Whole(Versions(maps))}
  PROVE  Abstract!Sync
<1>1. docs' = docs /\ docs = Versions(maps)
  BY OpenStands
<1>2. Promised' = {docs}
  BY <1>1 DEF Promised, Whole
<1> QED
  BY <1>1, <1>2 DEF Abstract!Sync

(* Records that stay as they are say the same of a closed store. *)
LEMMA StaysClosed ==
  ASSUME Told, ~ Up, ~ Up', Standing, Standing', LogIds' = LogIds,
         SameLog(files, files', LogIds), since' = since
  PROVE  UNCHANGED Abstract!vars
<1>1. PICK fs, gs, ids, P, Q, v, w :
        /\ fs = files /\ gs = files' /\ ids = LogIds /\ P = LogOf(files, LogIds)
        /\ Q = LogOf(files', LogIds) /\ v = Stands /\ w = Stands'
  OBVIOUS
<1>2. Says(fs, P, v)
  BY <1>1 DEF Standing, Log
<1>3. Says(gs, Q, w) /\ Counted(gs, Q)
  BY <1>1 DEF Standing, Log
<1>4. SameLog(fs, gs, ids) /\ P = LogOf(fs, ids) /\ Q = LogOf(gs, ids)
  BY <1>1
<1>5. Kept(fs, P, gs, Q) /\ Kept(gs, Q, fs, P)
  BY <1>4, LogSame
<1>6. Says(gs, Q, v)
  BY <1>2, <1>5, SaysSame
<1>7. v = w
  BY <1>3, <1>6, SaysUnique
<1>8. docs' = docs
  BY <1>1, <1>7 DEF Told
<1>9. Promised' = Promised /\ Up' = Up
  BY DEF Promised, Up
<1> QED
  BY <1>8, <1>9 DEF Abstract!vars

-----------------------------------------------------------------------------
(* Writes *)

LEMMA VersionsRemoved ==
  ASSUME NEW mp, NEW d \in Docs
  PROVE  Versions(RemoveDoc(mp, d)) = [Versions(mp) EXCEPT ![d] = 0]
<1>1. PICK new : new = RemoveDoc(mp, d)
  OBVIOUS
<1>2. CASE d \notin DOMAIN mp.docs
  <2>1. new = mp
    BY <1>1, <1>2 DEF RemoveDoc
  <2>2. Versions(mp)[d] = 0
    BY <1>2 DEF Versions
  <2> QED
    BY <1>1, <2>1, <2>2 DEF Versions
<1>3. CASE d \in DOMAIN mp.docs
  <2>1. new.docs = Without(mp.docs, {d})
    BY <1>1, <1>3 DEF RemoveDoc
  <2>2. /\ \A e : e \in DOMAIN new.docs <=> e \in DOMAIN mp.docs /\ e # d
        /\ \A e \in DOMAIN new.docs : new.docs[e] = mp.docs[e]
    BY <2>1 DEF Without
  <2> QED
    BY <1>1, <2>2 DEF Versions
<1> QED
  BY <1>2, <1>3

LEMMA VersionsPut ==
  ASSUME NEW mp, NEW d \in Docs, NEW e, NEW sl, NEW ml
  PROVE  Versions(PutDoc(RemoveDoc(mp, d), d, e, sl, ml)) = [Versions(mp) EXCEPT ![d] = e.seq]
<1>1. PICK left, new : left = RemoveDoc(mp, d) /\ new = PutDoc(left, d, e, sl, ml)
  OBVIOUS
<1>2. new.docs = Put(left.docs, d, e)
  BY <1>1 DEF PutDoc
<1>3. /\ DOMAIN new.docs = DOMAIN left.docs \cup {d} /\ new.docs[d] = e
      /\ \A x \in DOMAIN left.docs : x # d => new.docs[x] = left.docs[x]
  BY <1>2 DEF Put
<1>4. Versions(new) = [Versions(left) EXCEPT ![d] = e.seq]
  BY <1>3 DEF Versions
<1>5. Versions(left) = [Versions(mp) EXCEPT ![d] = 0]
  BY <1>1, VersionsRemoved
<1>6. PICK v : v = Versions(mp)
  OBVIOUS
<1>7. [[v EXCEPT ![d] = 0] EXCEPT ![d] = e.seq] = [v EXCEPT ![d] = e.seq]
  OBVIOUS
<1> QED
  BY <1>1, <1>4, <1>5, <1>6, <1>7

(* In the middle of a write, a document's stamp is the number of a record   *)
(* that was there before it.                                                *)
LEMMA StampsBelow ==
  ASSUME SegmentsSafe, LogInv, SeqInv, AgreeInv, op.step \in {"insert", "delete"},
         NEW e \in Docs
  PROVE  /\ Versions(maps)[e] \in Nat /\ Versions(maps)[e] < FirstFree
         /\ Versions(maps)[e] = 0 <=> e \notin DOMAIN maps.docs
         /\ 1 <= FirstFree
<1>1. Up /\ op.step \notin {"sealPublish", "compactPublish"}
  BY DEF Up
<1>2. FirstFree \in Int /\ man.nextSeq \in Nat \ {0} /\ man.nextSeq <= FirstFree
  BY <1>1, SlotsTyped DEF SeqInv, Numbering, LogInv, DiskTypes, Counters
<1>3. CASE e \notin DOMAIN maps.docs
  <2>1. Versions(maps)[e] = 0
    BY <1>3 DEF Versions
  <2> QED
    BY <1>2, <1>3, <2>1
<1>4. CASE e \in DOMAIN maps.docs
  <2>1. PICK x, v : x = maps.docs[e].loc /\ v = maps.docs[e].seq
    OBVIOUS
  <2>2. Versions(maps)[e] = v
    BY <1>4, <2>1 DEF Versions
  <2>3. x \in Log
    BY <1>1, <1>4, <2>1 DEF AgreeInv, Agrees, Final, LastOn
  <2>4. x.seg \in LogIds /\ x.off \in Slots(files, x.seg) /\ x.seg \in DOMAIN files
    BY <2>3, LogIn, LogThere DEF Log
  <2>5. RecOf(files, x).seq = v
    BY <1>1, <1>4, <2>1, <2>4, EntrySeq DEF SeqInv, References
  <2>6. x.seg \in SealedIds(m) \cup {active}
    BY <1>1, <2>4, LogThere DEF LogIds, AgreeInv, Apart
  <2>7. SeqAt(files, x.seg, x.off) < FirstFree
    BY <1>1, <2>4, <2>6, BelowFree
  <2>8. v < FirstFree
    BY <2>5, <2>7 DEF SeqAt, RecOf
  <2>9. files[x.seg].recs[x.off] \in LogRecords
    BY <2>4, SlotTyped DEF LogInv, DiskTypes
  <2>10. v \in Nat /\ v # 0
    BY <2>5, <2>9, RecordKinds DEF RecOf
  <2> QED
    BY <1>2, <1>4, <2>2, <2>8, <2>10
<1> QED
  BY <1>3, <1>4

(* The number of a replacement's or an insert's Doc record. *)
LEMMA NewStamp ==
  ASSUME SegmentsSafe, LogInv, SeqInv, AgreeInv, Budget, op.step = "insert"
  PROVE  /\ buf[Len(buf)].seq = m.nextSeq - 1
         /\ FirstFree <= m.nextSeq - 1
         /\ m.nextSeq - 1 \in 1 .. MaxSeq
<1>1. Up
  BY DEF Up
<1>2. Len(buf) \in Nat /\ Len(buf) # 0
  <2>1. op.content \in Contents /\ Len(buf) >= 2 * op.content.splits + 1
    BY DEF LogInv, OpTypes
  <2>2. op.content.splits \in Nat
    BY <2>1, ContentsAssumption
  <2>3. Len(buf) \in Nat
    BY SlotsTyped
  <2> QED
    BY <2>1, <2>2, <2>3
<1>3. m.nextSeq \in Nat /\ FirstFree = m.nextSeq - Len(buf)
  BY SlotsTyped DEF FirstFree
<1>4. \A i \in 1 .. Len(buf) : buf[i].seq = FirstFree + i - 1
  BY <1>1 DEF SeqInv, Numbering
<1>5. 1 <= FirstFree
  <2>1. man.nextSeq \in Nat \ {0} /\ man.nextSeq <= FirstFree
    BY <1>1 DEF SeqInv, Numbering, LogInv, DiskTypes, Counters
  <2> QED
    BY <1>2, <1>3, <2>1
<1>6. m.nextSeq <= MaxSeq + 1 /\ MaxSeq \in Nat
  BY StoreAssumption DEF Budget
<1>7. PICK n, f, q : n = Len(buf) /\ f = FirstFree /\ q = m.nextSeq
  OBVIOUS
<1>8. buf[n].seq = f + n - 1
  BY <1>2, <1>4, <1>7
<1> QED
  BY <1>2, <1>3, <1>5, <1>6, <1>7, <1>8

(* What a write in progress may leave is what the abstract write may. *)
LEMMA WriteInFlight ==
  ASSUME SegmentsSafe, LogInv, SeqInv, AgreeInv, Budget, op.step \in {"insert", "delete"},
         docs = Versions(maps), NEW d, d = op.doc,
         NEW v, v = IF op.step = "insert" THEN buf[Len(buf)].seq ELSE 0
  PROVE  /\ d \in Docs /\ v \in 1 .. MaxSeq \cup {0}
         /\ Abstract!IsWrite(d, v)
         /\ {s.docs : s \in InFlight} = Abstract!Outcomes(d, v)
<1>1. \A e \in Docs : /\ docs[e] \in Nat /\ docs[e] < FirstFree
                      /\ docs[e] = 0 <=> e \notin DOMAIN maps.docs
  BY StampsBelow
<1>2. CASE op.step = "insert"
  <2>1. d \in Docs
    BY <1>2 DEF LogInv, OpTypes
  <2>2. v = buf[Len(buf)].seq
    BY <1>2
  <2>3. v \in 1 .. MaxSeq /\ FirstFree <= v
    BY <1>2, <2>2, NewStamp
  <2>4. FirstFree \in Int
    BY SlotsTyped
  <2>5. v # 0 /\ \A e \in Docs : docs[e] # v
    BY <1>1, <2>3, <2>4
  <2>6. Abstract!IsWrite(d, v)
    BY <2>5 DEF Abstract!IsWrite, Abstract!Absent
  <2>7. InFlight = {Whole([docs EXCEPT ![d] = v])}
                   \cup (IF d \in DOMAIN maps.docs
                         THEN {TornOff([docs EXCEPT ![d] = 0])} ELSE {})
    BY <1>2, <2>2 DEF InFlight
  <2>8. {s.docs : s \in InFlight} = Abstract!Outcomes(d, v)
    <3>1. PICK done, half : done = [docs EXCEPT ![d] = v] /\ half = [docs EXCEPT ![d] = 0]
      OBVIOUS
    <3>2. Whole(done).docs = done /\ TornOff(half).docs = half
      BY DEF Whole, TornOff
    <3>3. Abstract!Outcomes(d, v) = {done} \cup (IF docs[d] = 0 THEN {} ELSE {half})
      BY <3>1 DEF Abstract!Outcomes, Abstract!With, Abstract!Absent
    <3>4. CASE d \in DOMAIN maps.docs
      <4>1. InFlight = {Whole(done), TornOff(half)}
        BY <2>7, <3>1, <3>4
      <4>2. Abstract!Outcomes(d, v) = {done, half}
        BY <1>1, <2>1, <3>3, <3>4
      <4> QED
        BY <3>2, <4>1, <4>2
    <3>5. CASE d \notin DOMAIN maps.docs
      <4>1. InFlight = {Whole(done)}
        BY <2>7, <3>1, <3>5
      <4>2. Abstract!Outcomes(d, v) = {done}
        BY <1>1, <2>1, <3>3, <3>5
      <4> QED
        BY <3>2, <4>1, <4>2
    <3> QED
      BY <3>4, <3>5
  <2> QED
    BY <2>1, <2>3, <2>6, <2>8
<1>3. CASE op.step = "delete"
  <2>1. d \in DOMAIN maps.docs /\ v = 0
    BY <1>3 DEF LogInv, OpTypes
  <2>2. d \in Docs
    <3>1. maps \in AllMaps
      BY DEF LogInv, MemoryTypes
    <3>2. DOMAIN maps.docs \in FiniteDocs
      BY <3>1, DocMapFacts DEF AllMaps
    <3> QED
      BY <2>1, <3>2 DEF FiniteDocs
  <2>3. docs[d] # 0
    BY <1>1, <2>1, <2>2
  <2>4. Abstract!IsWrite(d, v)
    BY <2>1, <2>3 DEF Abstract!IsWrite, Abstract!Absent
  <2>5. InFlight = {Whole([docs EXCEPT ![d] = 0])}
    BY <1>3 DEF InFlight
  <2>6. {s.docs : s \in InFlight} = Abstract!Outcomes(d, v)
    BY <2>1, <2>3, <2>5 DEF Whole, Abstract!Outcomes, Abstract!With, Abstract!Absent
  <2> QED
    BY <2>1, <2>2, <2>4, <2>6
<1> QED
  BY <1>2, <1>3

(* A flushed write is done at once. *)
LEMMA FlushWrites ==
  ASSUME SegmentsSafe, LogInv, SeqInv, AgreeInv, Budget, op.step \in {"insert", "delete"},
         Told, Up', since' = since \cup InFlight, NEW d, d = op.doc,
         NEW v, v = IF op.step = "insert" THEN buf[Len(buf)].seq ELSE 0,
         Versions(maps') = [Versions(maps) EXCEPT ![d] = v]
  PROVE  Abstract!Next
<1>1. Up /\ docs = Versions(maps) /\ docs' = [docs EXCEPT ![d] = v]
  BY OpenStands DEF Up
<1>2. /\ d \in Docs /\ v \in 1 .. MaxSeq \cup {0}
      /\ Abstract!IsWrite(d, v)
      /\ {s.docs : s \in InFlight} = Abstract!Outcomes(d, v)
  BY <1>1, WriteInFlight
<1>3. Promised' = Promised \cup Abstract!Outcomes(d, v)
  BY <1>2 DEF Promised
<1>4. Up' = Up
  BY <1>1 DEF Up
<1>5. Abstract!Write(d, v)
  BY <1>1, <1>2, <1>3, <1>4 DEF Abstract!Write, Abstract!With
<1> QED
  BY <1>2, <1>5 DEF Abstract!Next, Abstract!Absent

LEMMA InsertCommitWrites ==
  ASSUME SegmentsSafe, LogInv, SeqInv, AgreeInv, Budget, Told, InsertCommit
  PROVE  Abstract!Next
<1>1. op.step = "insert" /\ since' = since \cup InFlight /\ op' = AfterWrite
  BY DEF InsertCommit
<1>2. op.doc \in Docs
  BY <1>1 DEF LogInv, OpTypes
<1>3. PICK e, sl, ml :
        /\ maps' = PutDoc(RemoveDoc(maps, op.doc), op.doc, e, sl, ml)
        /\ e.seq = buf[Len(buf)].seq
  BY DEF InsertCommit
<1>4. PICK d, v, mp : d = op.doc /\ v = buf[Len(buf)].seq /\ mp = maps
  OBVIOUS
<1>5. Versions(PutDoc(RemoveDoc(mp, d), d, e, sl, ml)) = [Versions(mp) EXCEPT ![d] = e.seq]
  BY <1>2, <1>4, VersionsPut
<1>6. Versions(maps') = [Versions(maps) EXCEPT ![d] = v]
  BY <1>3, <1>4, <1>5
<1>7. op'.step \in {"idle", "seal"}
  BY <1>1, AfterWriteStep
<1>8. Up'
  BY <1>7 DEF Up
<1> QED
  BY <1>1, <1>4, <1>6, <1>8, FlushWrites

LEMMA DeleteCommitWrites ==
  ASSUME SegmentsSafe, LogInv, SeqInv, AgreeInv, Budget, Told, DeleteCommit
  PROVE  Abstract!Next
<1>1. /\ op.step = "delete" /\ since' = since \cup InFlight /\ op' = AfterWrite
      /\ maps' = RemoveDoc(maps, op.doc)
  BY DEF DeleteCommit
<1>2. PICK d, mp : d = op.doc /\ mp = maps
  OBVIOUS
<1>3. d \in Docs
  <2>1. d \in DOMAIN maps.docs /\ maps \in AllMaps
    BY <1>1, <1>2 DEF LogInv, OpTypes, MemoryTypes
  <2>2. DOMAIN maps.docs \in FiniteDocs
    BY <2>1, DocMapFacts DEF AllMaps
  <2> QED
    BY <2>1, <2>2 DEF FiniteDocs
<1>4. Versions(RemoveDoc(mp, d)) = [Versions(mp) EXCEPT ![d] = 0]
  BY <1>3, VersionsRemoved
<1>5. Versions(maps') = [Versions(maps) EXCEPT ![d] = 0]
  BY <1>1, <1>2, <1>4
<1>6. op'.step \in {"idle", "seal"}
  BY <1>1, AfterWriteStep
<1>7. Up'
  BY <1>6 DEF Up
<1> QED
  BY <1>1, <1>2, <1>5, <1>7, FlushWrites

-----------------------------------------------------------------------------
(* Compactions, crashes and power losses *)

(* A compaction moves records, and no document changes by it. *)
LEMMA CompactPublishFades ==
  ASSUME Told, CompactPublish
  PROVE  Abstract!Compact
<1>1. /\ op.step = "compactPublish" /\ op' = At("compactRemove")
      /\ since' = {AfterDropping(s) : s \in since}
  BY DEF CompactPublish
<1>2. Up /\ Up'
  BY <1>1 DEF Up, At
<1>3. /\ DOMAIN maps'.docs = DOMAIN maps.docs
      /\ \A d \in DOMAIN maps.docs : maps'.docs[d].seq = maps.docs[d].seq
  BY DEF CompactPublish
<1>4. Versions(maps') = Versions(maps)
  BY <1>3 DEF Versions
<1>5. docs = Versions(maps) /\ docs' = docs
  BY <1>2, <1>4, OpenStands
<1>6. ASSUME NEW s \in since PROVE Abstract!Faded(s.docs, AfterDropping(s).docs)
  <2>1. AfterDropping(s).docs =
          [d \in Docs |-> IF s.docs[d] \in Here \cup {docs[d]} THEN s.docs[d] ELSE 0]
    BY <1>5, DroppedDocs
  <2> QED
    BY <2>1 DEF Abstract!Faded, Abstract!Absent
<1>7. \A s \in Promised : \E t \in Promised' : Abstract!Faded(s, t)
  <2>1. ASSUME NEW s \in since
        PROVE  \E t \in Promised' : Abstract!Faded(s.docs, t)
    <3>1. AfterDropping(s).docs \in Promised'
      BY <1>1 DEF Promised
    <3> QED
      BY <1>6, <3>1
  <2> QED
    BY <2>1 DEF Promised
<1>8. \A t \in Promised' : \E s \in Promised : Abstract!Faded(s, t)
  <2>1. ASSUME NEW s \in since
        PROVE  \E r \in Promised : Abstract!Faded(r, AfterDropping(s).docs)
    BY <1>6 DEF Promised
  <2> QED
    BY <1>1, <2>1 DEF Promised
<1>9. Up' = Up
  BY <1>2 DEF Up
<1> QED
  BY <1>2, <1>5, <1>7, <1>8, <1>9 DEF Abstract!Compact

(* What a dying process leaves of an open store is what the abstract one's *)
(* death does.                                                             *)
LEMMA CrashDies ==
  ASSUME SegmentsSafe, LogInv, SeqInv, AgreeInv, Budget, RecoveryKeepsPromise', Told, Up, Crash
  PROVE  Abstract!Crash
<1>1. /\ op' = At("down") /\ since' = since \cup InFlight
      /\ expect' = {Whole(Versions(maps))} \cup InFlight
  BY DEF Crash
<1>2. op'.step = "down"
  BY <1>1 DEF At
<1>3. ~ Up'
  BY <1>2 DEF Up
<1>4. docs = Versions(maps)
  BY DEF Told, Stands
<1>5. docs' = Versions(Recovered)'
  BY <1>3 DEF Told, Stands
<1>6. \E s \in expect' : Versions(Recovered)' = s.docs
  BY <1>2 DEF RecoveryKeepsPromise
<1>7. docs' \in {docs} \cup {s.docs : s \in InFlight}
  <2>1. Whole(docs).docs = docs
    BY DEF Whole
  <2> QED
    BY <1>1, <1>4, <1>5, <1>6, <2>1
<1>8. Promised' = Promised \cup {s.docs : s \in InFlight}
  BY <1>1 DEF Promised
<1>9. Up' = FALSE
  BY <1>3 DEF Up
<1>10. CASE op.step \in {"insert", "delete"}
  <2>1. PICK d, v : d = op.doc /\ v = IF op.step = "insert" THEN buf[Len(buf)].seq ELSE 0
    OBVIOUS
  <2>2. /\ d \in Docs /\ v \in 1 .. MaxSeq \cup {0}
        /\ Abstract!IsWrite(d, v)
        /\ {s.docs : s \in InFlight} = Abstract!Outcomes(d, v)
    BY <1>4, <1>10, <2>1, WriteInFlight
  <2>3. docs' \in Abstract!Outcomes(d, v) \cup {docs}
    BY <1>7, <2>2
  <2>4. Promised' = Promised \cup Abstract!Outcomes(d, v)
    BY <1>8, <2>2
  <2> QED
    BY <1>9, <2>2, <2>3, <2>4 DEF Abstract!Crash, Abstract!Absent
<1>11. CASE op.step \notin {"insert", "delete"}
  <2>1. InFlight = {}
    BY <1>11 DEF InFlight
  <2>2. docs' = docs /\ Promised' = Promised
    BY <1>7, <1>8, <2>1
  <2> QED
    BY <1>9, <2>2 DEF Abstract!Crash
<1> QED
  BY <1>10, <1>11

(* A process that dies while opening leaves the log as it is. *)
LEMMA CrashAgain ==
  ASSUME SegmentsSafe, LogInv, SeqInv, Standing, Standing', Told, ~ Up, Crash
  PROVE  UNCHANGED Abstract!vars
<1>1. /\ op' = At("down") /\ since' = since \cup InFlight /\ man' = man
  BY DEF Crash
<1>2. op'.step = "down"
  BY <1>1 DEF At
<1>3. ~ Up'
  BY <1>2 DEF Up
<1>4. op.step \notin {"insert", "delete"}
  BY DEF Up
<1>5. InFlight = {} /\ since' = since
  BY <1>1, <1>4 DEF InFlight
<1>6. PICK tail : Behind(files', files, active, tail) /\ Remains(tail)
  BY CrashLeaves
<1>7. LogIds' = LogIds /\ LogIds \subseteq DOMAIN files
  BY <1>1, LogThere DEF LogIds
<1>8. SameLog(files, files', LogIds)
  BY <1>4, <1>6, NothingBehind
<1> QED
  BY <1>3, <1>5, <1>7, <1>8, StaysClosed

(* A power loss falls back to a state that was promised. *)
LEMMA PowerLossFalls ==
  ASSUME RecoveryKeepsPromise', Told, PowerLoss
  PROVE  Abstract!PowerLoss
<1>1. op.step = "down" /\ op' = op /\ since' = since /\ expect' = since
  BY DEF PowerLoss
<1>2. ~ Up /\ ~ Up' /\ Up' = Up
  BY <1>1 DEF Up
<1>3. docs' = Versions(Recovered)'
  BY <1>2 DEF Told, Stands
<1>4. \E s \in since : Versions(Recovered)' = s.docs
  BY <1>1 DEF RecoveryKeepsPromise
<1>5. docs' \in Promised
  BY <1>3, <1>4 DEF Promised
<1>6. Promised' = Promised
  BY <1>1 DEF Promised
<1> QED
  BY <1>2, <1>5, <1>6 DEF Abstract!PowerLoss

-----------------------------------------------------------------------------
(* Opens *)

(* An open's first part takes away only what the log does not name. *)
LEMMA OpenBeginStays ==
  ASSUME SegmentsSafe, LogInv, SeqInv, Standing, Standing', Told, OpenBegin
  PROVE  UNCHANGED Abstract!vars
<1>1. op.step = "down" /\ man' = man /\ since' = since
  BY DEF OpenBegin, promise
<1>2. LogIds \subseteq DOMAIN files /\ SealedIds(man) \subseteq DOMAIN files
  BY LogThere, SlotsTyped
<1>3. op'.step \in {"reject", "replay"}
  BY <1>2 DEF OpenBegin, At
<1>4. ~ Up /\ ~ Up' /\ LogIds' = LogIds
  BY <1>1, <1>3 DEF Up, LogIds
<1>5. PICK kept : kept = [id \in DOMAIN files \cap (SealedIds(man) \cup {man.active}) |-> files[id]]
  OBVIOUS
<1>6. \A id \in LogIds : id \in DOMAIN kept /\ kept[id] = files[id]
  BY <1>2, <1>5 DEF LogIds
<1>7. files' = IF man.active \in DOMAIN kept THEN kept
               ELSE Put(kept, man.active, EmptySegment)
  BY <1>2, <1>5 DEF OpenBegin
<1>8. files' = kept
  BY <1>6, <1>7 DEF LogIds
<1>9. SameLog(files, files', LogIds)
  <2>1. PICK fs, gs, ids : fs = files /\ gs = files' /\ ids = LogIds
    OBVIOUS
  <2> QED
    BY <1>6, <1>8, <2>1, SameRecs
<1> QED
  BY <1>1, <1>4, <1>9, StaysClosed

LEMMA OpenRejectStays ==
  ASSUME SegmentsSafe, Standing, Standing', Told, OpenReject
  PROVE  UNCHANGED Abstract!vars
<1>1. /\ op.step = "reject" /\ op' = At("replay") /\ files' = files
      /\ man' = [man EXCEPT !.snapshotSeq = 0] /\ since' = since
  BY DEF OpenReject, promise
<1>2. man'.sealed = man.sealed /\ man'.active = man.active
  <2>1. man = [f \in ManifestFields |-> man[f]]
    BY DEF SegmentsSafe, WellFormed
  <2> QED
    BY <1>1, <2>1, Zenon DEF ManifestFields
<1>3. LogIds' = LogIds
  BY <1>2 DEF LogIds, SealedIds
<1>4. SameLog(files, files', LogIds)
  BY <1>1 DEF SameLog
<1>5. op'.step = "replay"
  BY <1>1 DEF At
<1>6. ~ Up /\ ~ Up'
  BY <1>1, <1>5 DEF Up
<1> QED
  BY <1>1, <1>3, <1>4, <1>6, StaysClosed

LEMMA OpenReplayOpens ==
  ASSUME SegmentsSafe, LogInv, SeqInv, Told, OpenReplay
  PROVE  Abstract!Open
<1>1. op.step = "replay" /\ since' = since
  BY DEF OpenReplay
<1>2. man.active \in DOMAIN files
  BY DEF SeqInv, Placed
<1>3. Undamaged
  BY <1>2, NeverDamaged
<1>4. maps' = Recovered /\ op' = At("idle")
  BY <1>3 DEF OpenReplay
<1>5. op'.step = "idle"
  BY <1>4 DEF At
<1>6. ~ Up /\ Up' = TRUE
  BY <1>1, <1>5 DEF Up
<1>7. docs = Versions(Recovered) /\ docs' = Versions(maps')
  BY <1>6 DEF Told, Stands
<1>8. docs' = docs /\ Promised' = Promised
  BY <1>1, <1>4, <1>7 DEF Promised
<1> QED
  BY <1>6, <1>8 DEF Abstract!Open

-----------------------------------------------------------------------------
(* The refinement *)

LEMMA SyncingStep ==
  ASSUME Told, SealActive \/ Fsync \/ SnapshotWrite
  PROVE  Abstract!Next
<1>1. /\ op.step \in {"idle", "seal", "snapshot"} /\ maps' = maps
      /\ since' = {Whole(Versions(maps))}
      /\ op' \in {At("sealPublish"), op, At("snapshotPublish")}
  BY DEF SealActive, Fsync, SnapshotWrite, memory
<1>2. op'.step \in {"idle", "seal", "snapshot", "sealPublish", "snapshotPublish"}
  BY <1>1 DEF At
<1>3. Up /\ Up'
  BY <1>1, <1>2 DEF Up
<1> QED
  BY <1>1, <1>3, SyncsOpen DEF Abstract!Next

LEMMA QuietStep ==
  ASSUME Told,
         \/ \E d \in Docs, c \in Contents : AppendDocument(d, c)
         \/ InsertRewind
         \/ \E d \in Docs : AppendDelete(d)
         \/ SealPublish \/ SnapshotPublish
         \/ CompactWrite \/ CompactFails \/ CompactUnsnap \/ CompactRemove
  PROVE  UNCHANGED Abstract!vars
<1>1. maps' = maps /\ since' = since
  BY DEF AppendDocument, InsertRewind, AppendDelete, SealPublish, SnapshotPublish, CompactWrite,
         CompactFails, CompactUnsnap, CompactRemove, memory, promise
<1>2. Up
  BY DEF AppendDocument, InsertRewind, AppendDelete, SealPublish, SnapshotPublish, CompactWrite,
         CompactFails, CompactUnsnap, CompactRemove, Up
<1>3. Up'
  <2>1. CASE \E d \in Docs, c \in Contents : AppendDocument(d, c)
    BY <2>1 DEF AppendDocument, Up
  <2>2. CASE \E d \in Docs : AppendDelete(d)
    BY <2>2 DEF AppendDelete, Up
  <2>3. CASE InsertRewind \/ SealPublish \/ SnapshotPublish \/ CompactRemove
    <3>1. op' \in {At("idle"), At("snapshot")}
      BY <2>3 DEF InsertRewind, SealPublish, SnapshotPublish, CompactRemove
    <3>2. op'.step \in {"idle", "snapshot"}
      BY <3>1 DEF At
    <3> QED
      BY <3>2 DEF Up
  <2>4. CASE CompactWrite \/ CompactUnsnap
    <3>1. op'.step \in {"compactUnsnap", "compactPublish"}
      BY <2>4 DEF CompactWrite, CompactUnsnap
    <3> QED
      BY <3>1 DEF Up
  <2>5. CASE CompactFails
    BY <2>5 DEF CompactFails, Up
  <2> QED
    BY <2>1, <2>2, <2>3, <2>4, <2>5
<1> QED
  BY <1>1, <1>2, <1>3, StaysOpen

LEMMA NextImplements ==
  ASSUME SegmentsSafe, LogInv, SeqInv, AgreeInv, Budget, Standing, Standing',
         RecoveryKeepsPromise', Told, [Next]_vars
  PROVE  [Abstract!Next]_Abstract!vars
<1>1. CASE InsertCommit \/ DeleteCommit
  BY <1>1, InsertCommitWrites, DeleteCommitWrites
<1>2. CASE SealActive \/ Fsync \/ SnapshotWrite
  BY <1>2, SyncingStep
<1>3. CASE CompactPublish
  BY <1>3, CompactPublishFades DEF Abstract!Next
<1>4. CASE Crash
  <2>1. CASE Up
    BY <1>4, <2>1, CrashDies DEF Abstract!Next
  <2>2. CASE ~ Up
    BY <1>4, <2>2, CrashAgain
  <2> QED
    BY <2>1, <2>2
<1>5. CASE PowerLoss
  BY <1>5, PowerLossFalls DEF Abstract!Next
<1>6. CASE OpenReplay
  BY <1>6, OpenReplayOpens DEF Abstract!Next
<1>7. CASE OpenBegin \/ OpenReject
  BY <1>7, OpenBeginStays, OpenRejectStays
<1>8. CASE \/ \E d \in Docs, c \in Contents : AppendDocument(d, c)
           \/ InsertRewind
           \/ \E d \in Docs : AppendDelete(d)
           \/ SealPublish \/ SnapshotPublish
           \/ CompactWrite \/ CompactFails \/ CompactUnsnap \/ CompactRemove
  BY <1>8, QuietStep
<1>9. CASE UNCHANGED vars
  <2>1. Stands' = Stands /\ Up' = Up /\ since' = since
    BY <1>9, UnmovedStands DEF vars
  <2> QED
    BY <2>1 DEF Told, Promised, Abstract!vars
<1>10. CASE Next
  BY <1>1, <1>2, <1>3, <1>4, <1>5, <1>6, <1>7, <1>8, <1>10 DEF Next
<1> QED
  BY <1>9, <1>10

LEMMA InitImplements ==
  ASSUME Init, docs = Stands
  PROVE  Abstract!Init
<1>1. Up /\ maps = EmptyMaps /\ since = {Whole([d \in Docs |-> 0])}
  BY DEF Init, Up, At
<1>2. DOMAIN maps.docs = {}
  BY <1>1 DEF EmptyMaps
<1>3. docs = [d \in Docs |-> 0]
  BY <1>1, <1>2 DEF Stands, Versions
<1>4. Promised = {docs} /\ Up = TRUE
  BY <1>1, <1>3 DEF Promised, Whole, Up
<1> QED
  BY <1>3, <1>4 DEF Abstract!Init

(* The record store is the set of documents that DocStore says it is: every *)
(* write happens at one step of insert or delete or at the crash that stops *)
(* it, syncs and compactions bound what a power loss takes back, and an     *)
(* open serves exactly what is on disk (store.rs:262-274, 452, 587,         *)
(* lib.rs:9-10).                                                            *)
THEOREM StoreImplementsDocStore == RefinementSpec => ImplementsDocStore
<1>1. RefinementSpec => Spec
  <2>1. RefinementInit => Init
    BY DEF RefinementInit
  <2>2. [RefinementNext]_<<vars, docs>> => [Next]_vars
    BY DEF RefinementNext, vars
  <2> QED
    BY <2>1, <2>2, PTL DEF RefinementSpec, Spec
<1>2. RefinementSpec => [](docs = Stands)
  <2>1. RefinementInit => docs = Stands
    BY DEF RefinementInit
  <2>2. docs = Stands /\ [RefinementNext]_<<vars, docs>> => (docs = Stands)'
    <3>1. CASE RefinementNext
      BY <3>1 DEF RefinementNext
    <3>2. CASE UNCHANGED <<vars, docs>>
      <4>1. UNCHANGED vars /\ docs' = docs
        BY <3>2
      <4>2. Stands' = Stands
        BY <4>1, UnmovedStands
      <4> QED
        BY <4>1, <4>2
    <3> QED
      BY <3>1, <3>2
  <2> QED
    BY <2>1, <2>2, PTL DEF RefinementSpec
<1>3. RefinementInit => Abstract!Init
  BY InitImplements DEF RefinementInit
<1>4. /\ SegmentsSafe /\ LogInv /\ SeqInv /\ AgreeInv /\ Budget /\ Standing /\ Standing'
      /\ RecoveryKeepsPromise' /\ docs = Stands /\ (docs = Stands)'
      /\ [RefinementNext]_<<vars, docs>>
      => [Abstract!Next]_Abstract!vars
  <2>1. [RefinementNext]_<<vars, docs>> => [Next]_vars
    BY DEF RefinementNext, vars
  <2> QED
    BY <2>1, NextImplements DEF Told
<1> QED
  BY <1>1, <1>2, <1>3, <1>4, SegmentsStaySafe, LogInvariant, SeqInvariant, AgreeInvariant,
     BudgetInvariant, StandingInvariant, StoreRecoveryKeepsPromise, PTL
     DEF RefinementSpec, ImplementsDocStore, Abstract!Spec

=============================================================================
