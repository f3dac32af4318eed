--------------------------- MODULE MigrationProofs ---------------------------
(***************************************************************************)
(* Proofs about module Migration: what a run that exits with success has   *)
(* done, for any source, workspaces and documents, and any runs before it. *)
(***************************************************************************)
EXTENDS Migration, NatSets

-----------------------------------------------------------------------------
(* The invariant *)

(* The documents of the source that read, and what each reads as. *)
Readable == {d \in Docs : Reads(d)}
Copies == [d \in Docs |-> ReadDocument(d)]

Contents == {Absent, Served} \cup {Copies[d] : d \in Docs}
Shards == [Docs -> Contents]

ShardTypes ==
  /\ db \in Sources
  /\ dest \in [Workspaces -> Shards]
  /\ back \in [Workspaces -> SUBSET Shards]

RunFields == {"step", "exit", "dry", "spaces", "space", "docs", "failures", "error",
              "census", "read", "written"}

(* The program works through the workspaces and documents that rows name,  *)
(* and nobody else writes while it runs.                                   *)
Underway ==
  /\ run.step \in {"idle", "spaces", "docs"}
  /\ run.step # "idle" =>
       /\ DOMAIN run = RunFields
       /\ run.spaces \subseteq NamedSpaces
       /\ touched = {}
  /\ run.step = "docs" =>
       /\ run.space \in run.spaces
       /\ run.docs \subseteq Docs
       /\ \A d \in run.docs : <<run.space, d>> \in Pairs

Handled(p) ==
  \/ p[1] \notin run.spaces
  \/ run.step = "docs" /\ p[1] = run.space /\ p[2] \notin run.docs

(* What it has been through is copied or reported. *)
Copied ==
  run.step # "idle" /\ ~ run.dry =>
    \A p \in Pairs : Handled(p) =>
      \/ p \in run.failures
      \/ p[2] \in Readable /\ dest[p[1]][p[2]] = Copies[p[2]]

(* A shard it has been through is still to be snapshotted, or was.         *)
Snapshotted ==
  run.step # "idle" /\ ~ run.dry =>
    /\ run.step = "docs" => run.space \in loaded
    /\ \A w \in NamedSpaces \ run.spaces :
         w \in loaded \/ run.error \/ (run.spaces = {} /\ back[w] = {dest[w]})

Succeeded ==
  run.step = "idle" /\ run.exit = "success" /\ ~ run.dry =>
    \A p \in Pairs \ touched : \A s \in back[p[1]] \cup {dest[p[1]]} :
      p[2] \in Readable /\ s[p[2]] = Copies[p[2]]

(* No state of a shard, current or to fall back to, has a document of the  *)
(* source that no row puts there.                                          *)
Unnamed ==
  \A w \in Workspaces, d \in Docs : <<w, d>> \notin Pairs =>
    \A s \in back[w] \cup {dest[w]} : s[d] \in {Absent, Served}

MigrationInv ==
  ShardTypes /\ Underway /\ Copied /\ Snapshotted /\ Succeeded /\ Unnamed

-----------------------------------------------------------------------------
(* What the source says *)

(* The source never changes, and with it what is read from it. *)
LEMMA SourceFrame ==
  ASSUME db' = db
  PROVE  /\ Readable' = Readable /\ Copies' = Copies /\ Shards' = Shards
         /\ Pairs' = Pairs /\ NamedSpaces' = NamedSpaces
<1>1. Readable' = Readable
  BY DEF Readable, Reads, SplitReads, SummaryReads, HasEmbedding
<1>2. Copies' = Copies
  BY DEF Copies, ReadDocument
<1>3. Shards' = Shards
  BY <1>2 DEF Shards, Contents
<1>4. Pairs' = Pairs /\ NamedSpaces' = NamedSpaces
  BY DEF Pairs, NamedSpaces
<1> QED
  BY <1>1, <1>2, <1>3, <1>4

(* The rows name workspaces and documents. *)
LEMMA PairsNamed ==
  ASSUME db \in Sources
  PROVE  /\ Pairs \subseteq Workspaces \X Docs
         /\ NamedSpaces \subseteq Workspaces
         /\ \A p \in Pairs : p[1] \in NamedSpaces
         /\ \A w, d : d \in Named(w) <=> <<w, d>> \in Pairs
<1>1. \A r \in Range(db.rows) : r.doc \in Docs /\ r.space \in Workspaces
  BY MigrationAssumption
<1>2. Pairs \subseteq Workspaces \X Docs
  BY <1>1 DEF Pairs
<1>3. NamedSpaces \subseteq Workspaces
  BY <1>1 DEF NamedSpaces
<1>4. \A p \in Pairs : p[1] \in NamedSpaces
  BY DEF Pairs, NamedSpaces
<1>5. ASSUME NEW w, NEW d PROVE d \in Named(w) <=> <<w, d>> \in Pairs
  BY DEF Named, Pairs
<1> QED
  BY <1>2, <1>3, <1>4, <1>5

LEMMA MinChosen ==
  ASSUME NEW S, S \subseteq Nat, S # {}
  PROVE  Min(S) \in S
<1>1. \E x \in S : \A y \in S : x =< y
  BY LeastNumber
<1> QED
  BY <1>1 DEF Min

(* What Put does to a shard and to the states it may fall back to. *)
LEMMA PutFacts ==
  ASSUME ShardTypes, NEW w \in Workspaces, NEW d \in Docs, NEW dto \in Contents, Put(w, d, dto)
  PROVE  /\ dest' \in [Workspaces -> Shards] /\ back' \in [Workspaces -> SUBSET Shards]
         /\ \A v \in Workspaces \ {w} : dest'[v] = dest[v] /\ back'[v] = back[v]
         /\ dest'[w][d] = dto
         /\ \A e \in Docs \ {d} : dest'[w][e] = dest[w][e]
         /\ \A s \in back'[w] :
              s \in back[w] \/ (s[d] \in {dto, Absent} /\ \A e \in Docs \ {d} : s[e] = dest[w][e])
<1> DEFINE put == [dest[w] EXCEPT ![d] = dto]
           lost == [dest[w] EXCEPT ![d] = Absent]
<1>1. dest[w] \in Shards
  BY DEF ShardTypes
<1>2. Absent \in Contents
  BY DEF Contents
<1>3. /\ put \in Shards /\ put[d] = dto /\ \A e \in Docs \ {d} : put[e] = dest[w][e]
      /\ lost \in Shards /\ lost[d] = Absent /\ \A e \in Docs \ {d} : lost[e] = dest[w][e]
  BY <1>1, <1>2 DEF Shards
<1>4. dest' = [dest EXCEPT ![w] = put]
  BY DEF Put
<1>5. dest'[w] = put
  BY <1>4 DEF ShardTypes
<1>6. back' = [back EXCEPT ![w] = @ \cup {put, lost}]
  BY <1>5 DEF Put
<1> HIDE DEF put, lost
<1>7. back'[w] = back[w] \cup {put, lost}
  BY <1>6 DEF ShardTypes
<1>8. dest' \in [Workspaces -> Shards] /\ back' \in [Workspaces -> SUBSET Shards]
  BY <1>3, <1>4, <1>6 DEF ShardTypes
<1>9. \A v \in Workspaces \ {w} : dest'[v] = dest[v] /\ back'[v] = back[v]
  BY <1>4, <1>6 DEF ShardTypes
<1> QED
  BY <1>3, <1>5, <1>7, <1>8, <1>9

(* A document of the source put where a row names it, or Served or Absent  *)
(* anywhere, leaves nothing of the source where no row names it.           *)
LEMMA UnnamedPut ==
  ASSUME ShardTypes, Unnamed, db' = db, NEW w \in Workspaces, NEW d \in Docs,
         NEW dto \in Contents, Put(w, d, dto), <<w, d>> \in Pairs \/ dto \in {Absent, Served}
  PROVE  Unnamed'
<1>1. Pairs' = Pairs
  BY SourceFrame
<1>2. ASSUME NEW v \in Workspaces, NEW e \in Docs, <<v, e>> \notin Pairs,
             NEW s \in back'[v] \cup {dest'[v]}
      PROVE  s[e] \in {Absent, Served}
  <2>1. \A x \in back[v] \cup {dest[v]} : x[e] \in {Absent, Served}
    BY <1>2 DEF Unnamed
  <2>2. CASE v # w
    BY <2>1, <2>2, PutFacts
  <2>3. CASE v = w /\ e # d
    <3>1. dest'[w][e] = dest[w][e]
      BY <2>3, PutFacts
    <3>2. s \in back'[w] => s \in back[w] \/ s[e] = dest[w][e]
      BY <2>3, PutFacts
    <3> QED
      BY <2>1, <2>3, <3>1, <3>2
  <2>4. CASE v = w /\ e = d
    <3>1. dto \in {Absent, Served}
      BY <1>2, <2>4
    <3>2. dest'[w][d] = dto
      BY PutFacts
    <3>3. s \in back'[w] => s \in back[w] \/ s[d] \in {dto, Absent}
      BY PutFacts
    <3> QED
      BY <2>1, <2>4, <3>1, <3>2, <3>3
  <2> QED
    BY <2>2, <2>3, <2>4
<1> QED
  BY <1>1, <1>2 DEF Unnamed

-----------------------------------------------------------------------------
(* The steps *)

(* A step that leaves the shards alone. *)
LEMMA ShardsFrame ==
  ASSUME MigrationInv, db' = db, dest' = dest, back' = back
  PROVE  ShardTypes' /\ Unnamed'
<1>1. Shards' = Shards /\ Pairs' = Pairs
  BY SourceFrame
<1>2. ShardTypes'
  BY <1>1 DEF MigrationInv, ShardTypes
<1>3. Unnamed'
  BY <1>1 DEF MigrationInv, Unnamed
<1> QED
  BY <1>2, <1>3

LEMMA BeginSafe ==
  ASSUME MigrationInv, NEW dry \in BOOLEAN, Begin(dry)
  PROVE  MigrationInv'
<1>1. /\ run'.step = "spaces" /\ run'.spaces = NamedSpaces /\ DOMAIN run' = RunFields
      /\ touched' = {} /\ loaded' = {} /\ db' = db /\ dest' = dest /\ back' = back
  BY DEF Begin, shards, RunFields
<1>2. /\ Pairs' = Pairs /\ NamedSpaces' = NamedSpaces
  BY <1>1, SourceFrame
<1>3. ShardTypes' /\ Unnamed'
  BY <1>1, ShardsFrame
<1>4. Underway'
  BY <1>1, <1>2 DEF Underway
<1>5. \A p \in Pairs : p[1] \in NamedSpaces
  BY PairsNamed DEF MigrationInv, ShardTypes
<1>6. Copied'
  BY <1>1, <1>2, <1>5 DEF Copied, Handled
<1>7. Snapshotted'
  BY <1>1, <1>2 DEF Snapshotted
<1>8. Succeeded'
  BY <1>1 DEF Succeeded
<1> QED
  BY <1>3, <1>4, <1>6, <1>7, <1>8 DEF MigrationInv

(* The least workspace, and the least document, that are left. *)
LEMMA NextChosen ==
  ASSUME MigrationInv, run.step # "idle"
  PROVE  /\ run.spaces # {} => Min(run.spaces) \in run.spaces
         /\ run.step = "docs" /\ run.docs # {} =>
              /\ Doc \in run.docs /\ Doc \in Docs /\ <<run.space, Doc>> \in Pairs
              /\ run.space \in Workspaces
<1>1. NamedSpaces \subseteq Workspaces
  BY PairsNamed DEF MigrationInv, ShardTypes
<1>2. Workspaces \subseteq Nat /\ Docs \subseteq Nat
  BY MigrationAssumption
<1>3. run.spaces \subseteq Nat /\ run.spaces \subseteq Workspaces
  BY <1>1, <1>2 DEF MigrationInv, Underway
<1>4. ASSUME run.step = "docs", run.docs # {}
      PROVE  Doc \in run.docs
  <2>1. run.docs \subseteq Nat
    BY <1>2, <1>4 DEF MigrationInv, Underway
  <2> QED
    BY <1>4, <2>1, MinChosen DEF Doc
<1>5. run.spaces # {} => Min(run.spaces) \in run.spaces
  BY <1>3, MinChosen
<1> QED
  BY <1>3, <1>4, <1>5 DEF MigrationInv, Underway

LEMMA NextSpaceSafe ==
  ASSUME MigrationInv, NextSpace
  PROVE  MigrationInv'
<1> DEFINE w == Min(run.spaces)
<1>1. /\ run.step = "spaces" /\ run.spaces # {}
      /\ run' = [run EXCEPT !.step = "docs", !.space = w, !.docs = Named(w)]
      /\ loaded' = IF run.dry THEN loaded ELSE loaded \cup {w}
      /\ db' = db /\ dest' = dest /\ back' = back /\ touched' = touched
  BY DEF NextSpace, outside, shards
<1>2. w \in run.spaces
  BY <1>1, NextChosen
<1>3. /\ Pairs' = Pairs /\ NamedSpaces' = NamedSpaces /\ Readable' = Readable
      /\ Copies' = Copies
  BY <1>1, SourceFrame
<1>4. DOMAIN run = RunFields
  BY <1>1 DEF MigrationInv, Underway
<1> HIDE DEF w
<1>5. /\ run'.step = "docs" /\ run'.space = w /\ run'.docs = Named(w)
      /\ run'.spaces = run.spaces /\ run'.dry = run.dry /\ run'.failures = run.failures
      /\ run'.error = run.error /\ DOMAIN run' = RunFields
  BY <1>1, <1>4 DEF RunFields
<1>6. ShardTypes' /\ Unnamed'
  BY <1>1, ShardsFrame
<1>7. \A d : d \in Named(w) <=> <<w, d>> \in Pairs
  BY PairsNamed DEF MigrationInv, ShardTypes
<1>8. Pairs \subseteq Workspaces \X Docs
  BY PairsNamed DEF MigrationInv, ShardTypes
<1>9. Underway'
  <2>1. ASSUME NEW d \in Named(w)
        PROVE  d \in Docs /\ <<w, d>> \in Pairs
    <3>1. <<w, d>> \in Pairs
      BY <1>7
    <3>2. <<w, d>> \in Workspaces \X Docs
      BY <1>8, <3>1
    <3> QED
      BY <3>1, <3>2
  <2>2. run.spaces \subseteq NamedSpaces /\ touched = {}
    BY <1>1 DEF MigrationInv, Underway
  <2>3. run'.docs \subseteq Docs /\ \A d \in run'.docs : <<w, d>> \in Pairs
    BY <1>5, <2>1
  <2>4. touched' = {} /\ run'.spaces \subseteq NamedSpaces' /\ w \in run'.spaces
    BY <1>1, <1>2, <1>3, <1>5, <2>2
  <2> QED
    BY <1>3, <1>5, <2>3, <2>4 DEF Underway
<1>10. Copied'
  <2>1. ASSUME NEW p \in Pairs, p[1] \notin run.spaces \/ (p[1] = w /\ p[2] \notin Named(w))
        PROVE  p[1] \notin run.spaces
    <3>1. p = <<p[1], p[2]>>
      BY <1>8
    <3> QED
      BY <1>7, <2>1, <3>1
  <2> QED
    BY <1>1, <1>3, <1>5, <2>1 DEF MigrationInv, Copied, Handled
<1>11. Snapshotted'
  BY <1>1, <1>2, <1>3, <1>5 DEF MigrationInv, Snapshotted
<1>12. Succeeded'
  BY <1>5 DEF Succeeded
<1> QED
  BY <1>6, <1>9, <1>10, <1>11, <1>12 DEF MigrationInv

(* A step that ends the run without success. *)
LEMMA EndedSafe ==
  ASSUME MigrationInv, db' = db, ShardTypes', Unnamed',
         run'.step = "idle", run'.exit # "success"
  PROVE  MigrationInv'
  BY DEF MigrationInv, Underway, Copied, Snapshotted, Succeeded

LEMMA AbortSafe ==
  ASSUME MigrationInv, Abort
  PROVE  MigrationInv'
<1>1. /\ db' = db /\ dest' = dest /\ back' = back
      /\ run'.step = "idle" /\ run'.exit = "aborted"
  BY DEF Abort, Idle, outside, shards
<1>2. ShardTypes' /\ Unnamed'
  BY <1>1, ShardsFrame
<1> QED
  BY <1>1, <1>2, EndedSafe

LEMMA KillSafe ==
  ASSUME MigrationInv, Kill
  PROVE  MigrationInv'
<1>1. /\ run.step # "idle" /\ db' = db /\ run'.step = "idle" /\ run'.exit = "killed"
      /\ back' = [w \in Workspaces |-> back[w] \cup {dest'[w]}]
  BY DEF Kill, Idle, outside
<1>2. Shards' = Shards /\ Pairs' = Pairs
  BY <1>1, SourceFrame
<1>3. /\ dest' \in [Workspaces -> Shards]
      /\ \A w \in Workspaces, d \in Docs : dest'[w][d] \in {dest[w][d], Absent}
  <2>1. CASE dest' = dest
    BY <2>1 DEF MigrationInv, ShardTypes
  <2>2. CASE /\ run.step = "docs" /\ run.docs # {}
             /\ dest' = [dest EXCEPT ![run.space][Doc] = Absent]
    <3>1. Doc \in Docs /\ run.space \in Workspaces
      BY <2>2, NextChosen
    <3>2. Absent \in Contents
      BY DEF Contents
    <3> QED
      BY <2>2, <3>1, <3>2 DEF MigrationInv, ShardTypes, Shards
  <2> QED
    BY <2>1, <2>2 DEF Kill
<1>4. ShardTypes'
  BY <1>1, <1>2, <1>3 DEF MigrationInv, ShardTypes
<1>5. Unnamed'
  BY <1>1, <1>2, <1>3 DEF MigrationInv, Unnamed
<1> QED
  BY <1>1, <1>4, <1>5, EndedSafe

LEMMA ExitSafe ==
  ASSUME MigrationInv, Exit
  PROVE  MigrationInv'
<1>1. /\ run.step = "spaces" /\ run.spaces = {} /\ loaded = {}
      /\ db' = db /\ dest' = dest /\ back' = back /\ touched' = touched
      /\ run'.step = "idle" /\ run'.dry = run.dry
      /\ run'.exit = "success" => ~ run.error /\ run.failures = {}
  BY DEF Exit, Idle, outside, shards
<1>2. ShardTypes' /\ Unnamed'
  BY <1>1, ShardsFrame
<1>3. /\ Pairs' = Pairs /\ Readable' = Readable /\ Copies' = Copies
  BY <1>1, SourceFrame
<1>4. \A p \in Pairs : p[1] \in NamedSpaces
  BY PairsNamed DEF MigrationInv, ShardTypes
<1>5. Succeeded'
  <2>1. ASSUME run'.exit = "success", ~ run.dry, NEW p \in Pairs,
               NEW s \in back[p[1]] \cup {dest[p[1]]}
        PROVE  p[2] \in Readable /\ s[p[2]] = Copies[p[2]]
    <3>1. s = dest[p[1]]
      BY <1>1, <1>4, <2>1 DEF MigrationInv, Snapshotted
    <3>2. p[2] \in Readable /\ dest[p[1]][p[2]] = Copies[p[2]]
      BY <1>1, <2>1 DEF MigrationInv, Copied, Handled
    <3> QED
      BY <3>1, <3>2
  <2> QED
    BY <1>1, <1>3, <2>1 DEF Succeeded
<1>6. Underway' /\ Copied' /\ Snapshotted'
  BY <1>1 DEF Underway, Copied, Snapshotted
<1> QED
  BY <1>2, <1>5, <1>6 DEF MigrationInv

LEMMA SpaceDoneSafe ==
  ASSUME MigrationInv, SpaceDone
  PROVE  MigrationInv'
<1>1. /\ run.step = "docs" /\ run.docs = {}
      /\ db' = db /\ dest' = dest /\ back' = back /\ touched' = touched /\ loaded' = loaded
  BY DEF SpaceDone, outside, shards
<1>2. DOMAIN run = RunFields /\ run.space \in run.spaces
  BY <1>1 DEF MigrationInv, Underway
<1>3. /\ run'.step = "spaces" /\ run'.spaces = run.spaces \ {run.space}
      /\ run'.dry = run.dry /\ run'.failures = run.failures
      /\ run'.error = run.error /\ DOMAIN run' = RunFields
  BY <1>2 DEF SpaceDone, RunFields
<1>4. /\ Pairs' = Pairs /\ NamedSpaces' = NamedSpaces /\ Readable' = Readable
      /\ Copies' = Copies
  BY <1>1, SourceFrame
<1>5. ShardTypes' /\ Unnamed'
  BY <1>1, ShardsFrame
<1>6. Underway'
  BY <1>1, <1>3, <1>4 DEF MigrationInv, Underway
<1>7. Copied'
  BY <1>1, <1>3, <1>4 DEF MigrationInv, Copied, Handled
<1>8. Snapshotted'
  BY <1>1, <1>2, <1>3, <1>4 DEF MigrationInv, Snapshotted
<1>9. Succeeded'
  BY <1>3 DEF Succeeded
<1> QED
  BY <1>5, <1>6, <1>7, <1>8, <1>9 DEF MigrationInv

(* The next document is dealt with: put into its shard, or left.           *)
LEMMA DocumentSafe ==
  ASSUME MigrationInv, run.step = "docs", run.docs # {}, db' = db,
         touched' = touched, loaded' = loaded,
         DOMAIN run' = RunFields, run'.step = "docs", run'.docs = run.docs \ {Doc},
         run'.spaces = run.spaces, run'.space = run.space, run'.dry = run.dry,
         run'.error = run.error, run.failures \subseteq run'.failures,
         UNCHANGED shards \/ (Reads(Doc) /\ Put(run.space, Doc, ReadDocument(Doc))),
         ~ run.dry => \/ <<run.space, Doc>> \in run'.failures
                      \/ Reads(Doc) /\ Put(run.space, Doc, ReadDocument(Doc))
  PROVE  MigrationInv'
<1> DEFINE w == run.space
           d == Doc
<1>1. d \in Docs /\ w \in Workspaces /\ <<w, d>> \in Pairs /\ w \in run.spaces
  BY NextChosen DEF MigrationInv, Underway
<1>2. /\ Pairs' = Pairs /\ NamedSpaces' = NamedSpaces /\ Readable' = Readable
      /\ Copies' = Copies /\ Shards' = Shards
  BY SourceFrame
<1>3. ReadDocument(Doc) = Copies[d] /\ Copies[d] \in Contents
  BY <1>1 DEF Copies, Contents
<1>4. Reads(Doc) => d \in Readable
  BY <1>1 DEF Readable
<1>5. Pairs \subseteq Workspaces \X Docs
  BY PairsNamed DEF MigrationInv, ShardTypes
<1>6. Put(w, d, Copies[d]) =>
        /\ dest' \in [Workspaces -> Shards] /\ back' \in [Workspaces -> SUBSET Shards]
        /\ \A v \in Workspaces \ {w} : dest'[v] = dest[v] /\ back'[v] = back[v]
        /\ dest'[w][d] = Copies[d]
        /\ \A e \in Docs \ {d} : dest'[w][e] = dest[w][e]
  <2>1. ShardTypes
    BY DEF MigrationInv
  <2> HIDE DEF w, d
  <2> QED
    BY <1>1, <1>3, <2>1, PutFacts
<1>7. UNCHANGED shards \/ (d \in Readable /\ Put(w, d, Copies[d]))
  BY <1>3, <1>4
<1>8. ~ run.dry => <<w, d>> \in run'.failures \/ (d \in Readable /\ Put(w, d, Copies[d]))
  BY <1>3, <1>4
<1> HIDE DEF w, d
<1>9. ShardTypes'
  BY <1>2, <1>6, <1>7 DEF MigrationInv, ShardTypes, shards
<1>10. Unnamed'
  <2>1. CASE UNCHANGED shards
    BY <2>1, ShardsFrame DEF shards
  <2>2. CASE Put(w, d, Copies[d])
    BY <1>1, <1>3, <2>2, UnnamedPut DEF MigrationInv
  <2> QED
    BY <1>7, <2>1, <2>2
<1>11. Underway'
  BY <1>2 DEF MigrationInv, Underway
<1>12. Copied'
  <2>1. ASSUME ~ run.dry, NEW p \in Pairs, Handled(p)'
        PROVE  \/ p \in run'.failures
               \/ p[2] \in Readable /\ dest'[p[1]][p[2]] = Copies[p[2]]
    <3>1. p[1] \in Workspaces /\ p[2] \in Docs /\ p = <<p[1], p[2]>>
      BY <1>5
    <3>2. CASE p = <<w, d>>
      BY <1>6, <1>8, <2>1, <3>2
    <3>3. CASE p # <<w, d>>
      <4>1. Handled(p)
        BY <2>1, <3>1, <3>3 DEF Handled, w, d
      <4>2. p \in run.failures \/ (p[2] \in Readable /\ dest[p[1]][p[2]] = Copies[p[2]])
        BY <2>1, <4>1 DEF MigrationInv, Copied
      <4>3. dest'[p[1]][p[2]] = dest[p[1]][p[2]]
        <5>1. CASE UNCHANGED shards
          BY <5>1 DEF shards
        <5>2. CASE Put(w, d, Copies[d])
          BY <1>6, <3>1, <3>3, <5>2
        <5> QED
          BY <1>7, <5>1, <5>2
      <4> QED
        BY <4>2, <4>3
    <3> QED
      BY <3>2, <3>3
  <2> QED
    BY <1>2, <2>1 DEF Copied
<1>13. Snapshotted'
  BY <1>1, <1>2 DEF MigrationInv, Snapshotted
<1>14. Succeeded'
  BY DEF Succeeded
<1> QED
  BY <1>9, <1>10, <1>11, <1>12, <1>13, <1>14 DEF MigrationInv

LEMMA CopyFailsSafe ==
  ASSUME MigrationInv, CopyFails
  PROVE  MigrationInv'
<1>1. /\ run.step = "docs" /\ run.docs # {}
      /\ run' = [run EXCEPT !.docs = @ \ {Doc}, !.failures = @ \cup {<<run.space, Doc>>}]
      /\ db' = db /\ touched' = touched /\ loaded' = loaded
      /\ UNCHANGED shards \/ (Reads(Doc) /\ Put(run.space, Doc, ReadDocument(Doc)))
  BY DEF CopyFails, outside
<1>2. DOMAIN run = RunFields
  BY <1>1 DEF MigrationInv, Underway
<1>3. /\ DOMAIN run' = RunFields /\ run'.step = "docs" /\ run'.docs = run.docs \ {Doc}
      /\ run'.spaces = run.spaces /\ run'.space = run.space /\ run'.dry = run.dry
      /\ run'.error = run.error /\ run'.failures = run.failures \cup {<<run.space, Doc>>}
  BY <1>1, <1>2 DEF RunFields
<1> QED
  BY <1>1, <1>3, DocumentSafe

LEMMA CopySafe ==
  ASSUME MigrationInv, Copy
  PROVE  MigrationInv'
<1>1. /\ run.step = "docs" /\ run.docs # {} /\ Reads(Doc)
      /\ run' = [run EXCEPT !.docs = @ \ {Doc},
                            !.read[run.space] = CountRead(@, ReadDocument(Doc))]
      /\ db' = db /\ touched' = touched /\ loaded' = loaded
      /\ UNCHANGED shards \/ Put(run.space, Doc, ReadDocument(Doc))
      /\ ~ run.dry => Put(run.space, Doc, ReadDocument(Doc))
  BY DEF Copy, outside
<1>2. DOMAIN run = RunFields
  BY <1>1 DEF MigrationInv, Underway
<1>3. /\ DOMAIN run' = RunFields /\ run'.step = "docs" /\ run'.docs = run.docs \ {Doc}
      /\ run'.spaces = run.spaces /\ run'.space = run.space /\ run'.dry = run.dry
      /\ run'.error = run.error /\ run'.failures = run.failures
  BY <1>1, <1>2 DEF RunFields
<1> QED
  BY <1>1, <1>3, DocumentSafe

(* A shard is snapshotted, or fails to be, at the end of the run.          *)
LEMMA SnapshotSafe ==
  ASSUME MigrationInv, NEW w \in Workspaces, Snapshot(w)
  PROVE  MigrationInv'
<1>1. /\ run.step = "spaces" /\ run.spaces = {} /\ run' = run
      /\ loaded' = loaded \ {w} /\ back' = [back EXCEPT ![w] = {dest[w]}]
      /\ db' = db /\ dest' = dest /\ touched' = touched
  BY DEF Snapshot, outside
<1>2. /\ Pairs' = Pairs /\ NamedSpaces' = NamedSpaces /\ Readable' = Readable
      /\ Copies' = Copies /\ Shards' = Shards
  BY <1>1, SourceFrame
<1>3. \A v \in Workspaces : back'[v] = IF v = w THEN {dest[w]} ELSE back[v]
  BY <1>1 DEF MigrationInv, ShardTypes
<1>4. ShardTypes'
  BY <1>1, <1>2 DEF MigrationInv, ShardTypes
<1>5. Unnamed'
  BY <1>1, <1>2, <1>3 DEF MigrationInv, Unnamed
<1>6. Underway'
  BY <1>1, <1>2 DEF MigrationInv, Underway
<1>7. Copied'
  BY <1>1, <1>2 DEF MigrationInv, Copied, Handled
<1>8. Snapshotted'
  <2>1. NamedSpaces \subseteq Workspaces
    BY PairsNamed DEF MigrationInv, ShardTypes
  <2> QED
    BY <1>1, <1>2, <1>3, <2>1 DEF MigrationInv, Snapshotted
<1>9. Succeeded'
  BY <1>1 DEF Succeeded
<1> QED
  BY <1>4, <1>5, <1>6, <1>7, <1>8, <1>9 DEF MigrationInv

LEMMA SnapshotFailsSafe ==
  ASSUME MigrationInv, NEW w \in Workspaces, SnapshotFails(w)
  PROVE  MigrationInv'
<1>1. /\ run.step = "spaces" /\ run.spaces = {} /\ run' = [run EXCEPT !.error = TRUE]
      /\ loaded' = loaded \ {w}
      /\ db' = db /\ dest' = dest /\ back' = back /\ touched' = touched
  BY DEF SnapshotFails, outside, shards
<1>2. DOMAIN run = RunFields
  BY <1>1 DEF MigrationInv, Underway
<1>3. /\ run'.step = "spaces" /\ run'.spaces = {} /\ run'.dry = run.dry
      /\ run'.failures = run.failures /\ DOMAIN run' = RunFields
  BY <1>1, <1>2 DEF RunFields
<1>4. run'.error
  BY <1>1, <1>2, Zenon DEF RunFields
<1>5. /\ Pairs' = Pairs /\ NamedSpaces' = NamedSpaces /\ Readable' = Readable
      /\ Copies' = Copies
  BY <1>1, SourceFrame
<1>6. ShardTypes' /\ Unnamed'
  BY <1>1, ShardsFrame
<1>7. Underway'
  BY <1>1, <1>3, <1>5 DEF MigrationInv, Underway
<1>8. Copied'
  BY <1>1, <1>3, <1>5 DEF MigrationInv, Copied, Handled
<1>9. Snapshotted'
  BY <1>3, <1>4 DEF Snapshotted
<1>10. Succeeded'
  BY <1>3 DEF Succeeded
<1> QED
  BY <1>6, <1>7, <1>8, <1>9, <1>10 DEF MigrationInv

(* Between runs a power loss leaves one of the states a shard may fall     *)
(* back to, and the server writes documents of its own.                    *)
LEMMA PowerLossSafe ==
  ASSUME MigrationInv, PowerLoss
  PROVE  MigrationInv'
<1> PICK w \in Workspaces : \E s \in back[w] :
      dest' = [dest EXCEPT ![w] = s] /\ back' = [back EXCEPT ![w] = {s}]
  BY DEF PowerLoss
<1>1. PICK s \in back[w] : dest' = [dest EXCEPT ![w] = s] /\ back' = [back EXCEPT ![w] = {s}]
  OBVIOUS
<1>2. run.step = "idle" /\ run' = run /\ db' = db /\ touched' = touched
  BY DEF PowerLoss, outside
<1>3. /\ Pairs' = Pairs /\ Readable' = Readable /\ Copies' = Copies /\ Shards' = Shards
  BY <1>2, SourceFrame
<1>4. s \in Shards
  BY DEF MigrationInv, ShardTypes
<1>5. ShardTypes'
  BY <1>1, <1>2, <1>3, <1>4 DEF MigrationInv, ShardTypes
<1>6. \A v \in Workspaces : back'[v] \cup {dest'[v]} \subseteq back[v] \cup {dest[v]}
  BY <1>1 DEF MigrationInv, ShardTypes
<1>7. Unnamed'
  BY <1>3, <1>6 DEF MigrationInv, Unnamed
<1>8. Succeeded'
  <2>1. ASSUME NEW p \in Pairs PROVE p[1] \in Workspaces
    BY PairsNamed DEF MigrationInv, ShardTypes
  <2> QED
    BY <1>2, <1>3, <1>6, <2>1 DEF MigrationInv, Succeeded
<1>9. Underway' /\ Copied' /\ Snapshotted'
  BY <1>2 DEF Underway, Copied, Snapshotted
<1> QED
  BY <1>5, <1>7, <1>8, <1>9 DEF MigrationInv

LEMMA ServeSafe ==
  ASSUME MigrationInv, NEW w \in Workspaces, NEW d \in Docs, Serve(w, d)
  PROVE  MigrationInv'
<1>1. PICK dto \in {Served, Absent} : Put(w, d, dto)
  BY DEF Serve
<1>2. run.step = "idle" /\ run' = run /\ db' = db /\ touched' = touched \cup {<<w, d>>}
  BY DEF Serve
<1>3. /\ Pairs' = Pairs /\ Readable' = Readable /\ Copies' = Copies /\ Shards' = Shards
  BY <1>2, SourceFrame
<1>4. dto \in Contents /\ ShardTypes
  BY DEF Contents, MigrationInv
<1>5. ShardTypes'
  <2>1. dest' \in [Workspaces -> Shards] /\ back' \in [Workspaces -> SUBSET Shards]
    BY <1>1, <1>4, PutFacts
  <2> QED
    BY <1>2, <1>3, <1>4, <2>1 DEF ShardTypes
<1>6. Unnamed'
  BY <1>1, <1>2, <1>4, UnnamedPut DEF MigrationInv
<1>7. Succeeded'
  <2>1. ASSUME run.exit = "success", ~ run.dry, NEW p \in Pairs \ touched',
               NEW s \in back'[p[1]] \cup {dest'[p[1]]}
        PROVE  p[2] \in Readable /\ s[p[2]] = Copies[p[2]]
    <3>1. p[1] \in Workspaces /\ p[2] \in Docs /\ p = <<p[1], p[2]>>
      BY <2>1, PairsNamed DEF MigrationInv, ShardTypes
    <3>2. p \in Pairs \ touched /\ p # <<w, d>>
      BY <1>2, <2>1
    <3>3. \A x \in back[p[1]] \cup {dest[p[1]]} :
            p[2] \in Readable /\ x[p[2]] = Copies[p[2]]
      BY <1>2, <2>1, <3>2 DEF MigrationInv, Succeeded
    <3>4. CASE p[1] # w
      <4>1. dest'[p[1]] = dest[p[1]] /\ back'[p[1]] = back[p[1]]
        BY <1>1, <1>4, <3>1, <3>4, PutFacts
      <4> QED
        BY <2>1, <3>3, <4>1
    <3>5. CASE p[1] = w
      <4>1. p[2] \in Docs \ {d}
        BY <3>1, <3>2, <3>5
      <4>2. dest'[w][p[2]] = dest[w][p[2]]
        BY <1>1, <1>4, <4>1, PutFacts
      <4>3. s \in back'[w] => s \in back[w] \/ s[p[2]] = dest[w][p[2]]
        BY <1>1, <1>4, <4>1, PutFacts
      <4> QED
        BY <2>1, <3>3, <3>5, <4>2, <4>3
    <3> QED
      BY <3>4, <3>5
  <2> QED
    BY <1>2, <1>3, <2>1 DEF Succeeded
<1>8. Underway' /\ Copied' /\ Snapshotted'
  BY <1>2 DEF Underway, Copied, Snapshotted
<1> QED
  BY <1>5, <1>6, <1>7, <1>8 DEF MigrationInv

LEMMA StutterSafe ==
  ASSUME MigrationInv, UNCHANGED vars
  PROVE  MigrationInv'
<1>1. /\ db' = db /\ dest' = dest /\ back' = back /\ run' = run /\ loaded' = loaded
      /\ touched' = touched
  BY DEF vars
<1>2. /\ Pairs' = Pairs /\ NamedSpaces' = NamedSpaces /\ Readable' = Readable
      /\ Copies' = Copies
  BY <1>1, SourceFrame
<1>3. ShardTypes' /\ Unnamed'
  BY <1>1, ShardsFrame
<1>4. Underway' /\ Snapshotted'
  BY <1>1, <1>2 DEF MigrationInv, Underway, Snapshotted
<1>5. Copied'
  BY <1>1, <1>2 DEF MigrationInv, Copied, Handled
<1>6. Succeeded'
  BY <1>1, <1>2 DEF MigrationInv, Succeeded
<1> QED
  BY <1>3, <1>4, <1>5, <1>6 DEF MigrationInv

LEMMA MigrationBegins ==
  ASSUME Init
  PROVE  MigrationInv
<1> DEFINE empty == [d \in Docs |-> Absent]
<1>1. /\ db \in Sources /\ dest = [w \in Workspaces |-> empty]
      /\ back = [w \in Workspaces |-> {dest[w]}]
      /\ run.step = "idle" /\ run.exit = "none"
  BY DEF Init
<1>2. empty \in Shards /\ \A d \in Docs : empty[d] = Absent
  BY DEF Shards, Contents
<1> HIDE DEF empty
<1>3. ShardTypes
  BY <1>1, <1>2 DEF ShardTypes
<1>4. Unnamed
  BY <1>1, <1>2 DEF Unnamed
<1>5. Underway /\ Copied /\ Snapshotted /\ Succeeded
  BY <1>1 DEF Underway, Copied, Snapshotted, Succeeded
<1> QED
  BY <1>3, <1>4, <1>5 DEF MigrationInv

(* Every state of every behaviour satisfies the invariant. *)
LEMMA MigrationInvariant == Spec => []MigrationInv
<1>1. MigrationInv /\ [Next]_vars => MigrationInv'
  <2> SUFFICES ASSUME MigrationInv, [Next]_vars PROVE MigrationInv'
    OBVIOUS
  <2> QED
    BY BeginSafe, NextSpaceSafe, AbortSafe, CopyFailsSafe, CopySafe, SpaceDoneSafe,
       SnapshotFailsSafe, SnapshotSafe, ExitSafe, KillSafe, PowerLossSafe, ServeSafe,
       StutterSafe DEF Next
<1> QED
  BY <1>1, MigrationBegins, PTL DEF Spec

-----------------------------------------------------------------------------
(* The theorem *)

(* A migration that exits with success has put every document a filter row *)
(* names into every workspace that names it, where no power loss takes it  *)
(* away, whatever runs were killed, failed or followed by the server       *)
(* before it; and no run puts a document of the source where no row names  *)
(* it (run of bin/migrate_rocksdb.rs, migrate of migrate.rs).              *)
THEOREM SuccessIsMigration == Spec => []SuccessMeansMigrated
<1>1. ASSUME MigrationInv PROVE SuccessMeansMigrated
  <2>1. /\ Pairs \subseteq Workspaces \X Docs
        /\ \A w, d : d \in Named(w) <=> <<w, d>> \in Pairs
    BY <1>1, PairsNamed DEF MigrationInv, ShardTypes
  <2>2. ASSUME Ended({"success"}), ~ run.dry, NEW p \in Pairs \ touched,
               NEW s \in back[p[1]] \cup {dest[p[1]]}
        PROVE  Reads(p[2]) /\ s[p[2]] = ReadDocument(p[2])
    <3>1. p[2] \in Docs
      BY <2>1, <2>2
    <3>2. p[2] \in Readable /\ s[p[2]] = Copies[p[2]]
      BY <1>1, <2>2 DEF MigrationInv, Succeeded, Ended
    <3> QED
      BY <3>1, <3>2 DEF Readable, Copies
  <2>3. ASSUME NEW w \in Workspaces, NEW d \in Docs \ Named(w)
        PROVE  dest[w][d] \in {Absent, Served}
    BY <1>1, <2>1, <2>3 DEF MigrationInv, Unnamed
  <2> QED
    BY <2>2, <2>3 DEF SuccessMeansMigrated
<1> QED
  BY <1>1, MigrationInvariant, PTL

=============================================================================
