------------------------------ MODULE Migration ------------------------------
(***************************************************************************)
(* The migration of a RocksDB store into shards (embedding-store:          *)
(* migrate.rs and bin/migrate_rocksdb.rs): a copy that goes on past        *)
(* documents it cannot read or store, may be killed at any point, and is   *)
(* then run again over what it left.                                       *)
(*                                                                         *)
(* The source is a record of its column families.  Documents, splits and   *)
(* summaries name each other by id; an embedding is the model it is from;  *)
(* a filter row, under the id of a vector, names the document and the      *)
(* workspace of that vector.  A source record that cannot be unpacked is   *)
(* as good as missing.                                                     *)
(*                                                                         *)
(* A destination shard is what module DocStore says a store is: documents, *)
(* and the states a power loss may fall back to.                           *)
(***************************************************************************)
EXTENDS Integers, FiniteSets, Sequences, SequencesExt

CONSTANTS Workspaces, Docs,
          Sources,    \* the stores there may be to migrate
          MaxRuns,    \* bound: runs of the program
          MaxServed   \* bound: documents the server writes in between

ASSUME MigrationAssumption ==
  /\ Workspaces \subseteq Nat /\ Docs \subseteq Nat
  /\ MaxRuns \in Nat /\ MaxServed \in Nat
  /\ \A s \in Sources : Range(s.rows) \subseteq [doc : Docs, space : Workspaces]

VARIABLES
  db,       \* the source
  dest,     \* workspace -> document -> what its shard holds, or Absent
  back,     \* workspace -> the states a power loss may leave
  run,      \* the program: where it is, and its report
  loaded,   \* the shards the pool of this run has open
  runs, served,   \* bound counters
  before,   \* history: dest when this run began
  touched   \* history: what the server wrote since the last run began

vars == <<db, dest, back, run, loaded, runs, served, before, touched>>
shards == <<dest, back>>
outside == <<db, runs, served, before, touched>>

Absent == [splits |-> <<>>, summaries |-> <<>>]
Served == [splits |-> <<[id |-> 0, summaries |-> <<>>]>>, summaries |-> <<>>]
ThisModel == "this"

-----------------------------------------------------------------------------
(* Reading the source *)

(* scan_workspaces: the documents of each workspace, and the pairs of them. *)
Named(w) == {r.doc : r \in {x \in Range(db.rows) : x.space = w}}
NamedSpaces == {r.space : r \in Range(db.rows)}
NamedDocs == {r.doc : r \in Range(db.rows)}
Pairs == {<<r.space, r.doc>> : r \in Range(db.rows)}

SharedDocuments == {d \in NamedDocs : Cardinality({w \in NamedSpaces : d \in Named(w)}) > 1}
OrphanDocuments == DOMAIN db.docs \ NamedDocs
Census == [distinct |-> Cardinality(NamedDocs), shared |-> Cardinality(SharedDocuments),
           orphans |-> Cardinality(OrphanDocuments)]

HasEmbedding(id) == id \in DOMAIN db.embeddings
SummaryReads(id) == id \in db.summaries /\ HasEmbedding(id)

SplitReads(id) ==
  /\ id \in DOMAIN db.splits
  /\ \A m \in Range(db.splits[id]) : SummaryReads(m)
  /\ HasEmbedding(id)

Reads(d) ==
  /\ d \in DOMAIN db.docs
  /\ \A s \in Range(db.docs[d].splits) : SplitReads(s)
  /\ \A m \in Range(db.docs[d].summaries) : SummaryReads(m)

(* read_document of one that reads. *)
ReadDocument(d) ==
  LET doc == db.docs[d]
  IN  [splits |-> [i \in DOMAIN doc.splits |->
                    [id |-> doc.splits[i], summaries |-> db.splits[doc.splits[i]]]],
       summaries |-> doc.summaries]

SplitIds(dto) == {s.id : s \in Range(dto.splits)}
SummaryIds(dto) == Range(dto.summaries) \cup UNION {Range(s.summaries) : s \in Range(dto.splits)}

(* Store::validate. *)
Accepted(dto) == \A id \in SplitIds(dto) \cup SummaryIds(dto) : db.embeddings[id] = ThisModel

-----------------------------------------------------------------------------
(* Counting *)

Nothing == [docs |-> 0, splits |-> 0, summaries |-> 0]

MutDistinctSummaries(dto) ==
  Len(dto.summaries) + Len(FlattenSeq([i \in DOMAIN dto.splits |-> dto.splits[i].summaries]))
DistinctSummaries(dto) == Cardinality(SummaryIds(dto))

CountRead(counts, dto) ==
  [docs |-> counts.docs + 1,
   splits |-> counts.splits + Len(dto.splits),
   summaries |-> counts.summaries + DistinctSummaries(dto)]

(* shard.stats: the sizes of the maps. *)
Stats(w) ==
  LET held == {d \in Docs : dest[w][d] # Absent}
  IN  [docs |-> Cardinality(held),
       splits |-> Cardinality(UNION {SplitIds(dest[w][d]) : d \in held}),
       summaries |-> Cardinality(UNION {SummaryIds(dest[w][d]) : d \in held})]

-----------------------------------------------------------------------------
(* The destination *)

(* A document is stored, and may be lost half way when it replaces one. *)
Put(w, d, dto) ==
  /\ dest' = [dest EXCEPT ![w][d] = dto]
  /\ back' = [back EXCEPT ![w] = @ \cup {dest'[w], [dest[w] EXCEPT ![d] = Absent]}]

-----------------------------------------------------------------------------
(* The program *)

Idle(exit) == [step |-> "idle", exit |-> exit, dry |-> run.dry, failures |-> run.failures,
               read |-> run.read, written |-> run.written]

Init ==
  /\ db \in Sources
  /\ dest = [w \in Workspaces |-> [d \in Docs |-> Absent]]
  /\ back = [w \in Workspaces |-> {dest[w]}]
  /\ run = [step |-> "idle", exit |-> "none", dry |-> FALSE, failures |-> {},
            read |-> [w \in Workspaces |-> Nothing], written |-> [w \in Workspaces |-> Nothing]]
  /\ loaded = {}
  /\ runs = 0 /\ served = 0
  /\ before = dest
  /\ touched = {}

Begin(dry) ==
  /\ run.step = "idle"
  /\ runs < MaxRuns
  /\ run' = [step |-> "spaces", exit |-> "none", dry |-> dry, spaces |-> NamedSpaces,
             space |-> 0, docs |-> {}, failures |-> {}, error |-> FALSE, census |-> Census,
             read |-> [w \in Workspaces |-> Nothing],
             written |-> [w \in Workspaces |-> Nothing]]
  /\ loaded' = {}
  /\ runs' = runs + 1
  /\ before' = dest
  /\ touched' = {}
  /\ UNCHANGED <<db, shards, served>>

(* The next workspace, in order: pool.get, and its documents. *)
NextSpace ==
  /\ run.step = "spaces"
  /\ run.spaces # {}
  /\ LET w == Min(run.spaces)
     IN  /\ run' = [run EXCEPT !.step = "docs", !.space = w, !.docs = Named(w)]
         /\ loaded' = IF run.dry THEN loaded ELSE loaded \cup {w}
  /\ UNCHANGED <<outside, shards>>

(* The source cannot be scanned, or a shard does not open: migrate returns *)
(* the error, and nothing is snapshotted.                                  *)
Abort ==
  /\ run.step = "spaces"
  /\ run.spaces # {}
  /\ ~ run.dry \/ run.spaces = NamedSpaces
  /\ run' = Idle("aborted")
  /\ loaded' = {}
  /\ UNCHANGED <<outside, shards>>

Doc == Min(run.docs)

(* The document does not read, or the shard refuses it: a failure, and the *)
(* next one.  A refusal may come after the store has it.                   *)
CopyFails ==
  /\ run.step = "docs"
  /\ run.docs # {}
  /\ run' = [run EXCEPT !.docs = @ \ {Doc}, !.failures = @ \cup {<<run.space, Doc>>}]
  /\ \/ ~ Reads(Doc) /\ UNCHANGED shards
     \/ Reads(Doc) /\ ~ run.dry /\ UNCHANGED shards
     \/ /\ Reads(Doc) /\ ~ run.dry /\ Accepted(ReadDocument(Doc))
        /\ Put(run.space, Doc, ReadDocument(Doc))
  /\ UNCHANGED <<outside, loaded>>

Copy ==
  /\ run.step = "docs"
  /\ run.docs # {}
  /\ Reads(Doc)
  /\ LET dto == ReadDocument(Doc)
     IN  /\ run' = [run EXCEPT !.docs = @ \ {Doc}, !.read[run.space] = CountRead(@, dto)]
         /\ IF run.dry THEN UNCHANGED shards
            ELSE Accepted(dto) /\ Put(run.space, Doc, dto)
  /\ UNCHANGED <<outside, loaded>>

SpaceDone ==
  /\ run.step = "docs"
  /\ run.docs = {}
  /\ run' = [run EXCEPT !.step = "spaces", !.spaces = @ \ {run.space},
                        !.written[run.space] = IF run.dry THEN @ ELSE Stats(run.space)]
  /\ UNCHANGED <<outside, shards, loaded>>

(* snapshot_all goes on past a shard that fails and returns the first      *)
(* error.                                                                  *)
MutSnapshotFails(w) ==
  /\ run.step = "spaces" /\ run.spaces = {} /\ w \in loaded
  /\ loaded' = loaded \ {w}
  /\ UNCHANGED <<outside, shards, run>>
SnapshotFails(w) ==
  /\ run.step = "spaces" /\ run.spaces = {} /\ w \in loaded
  /\ loaded' = loaded \ {w}
  /\ run' = [run EXCEPT !.error = TRUE]
  /\ UNCHANGED <<outside, shards>>

Snapshot(w) ==
  /\ run.step = "spaces" /\ run.spaces = {} /\ w \in loaded
  /\ loaded' = loaded \ {w}
  /\ back' = [back EXCEPT ![w] = {dest[w]}]
  /\ UNCHANGED <<outside, dest, run>>

Exit ==
  /\ run.step = "spaces" /\ run.spaces = {} /\ loaded = {}
  /\ run' = Idle(CASE run.error -> "aborted"
                   [] ~ run.error /\ run.failures # {} -> "failures"
                   [] ~ run.error /\ run.failures = {} -> "success")
  /\ UNCHANGED <<outside, shards, loaded>>

-----------------------------------------------------------------------------
(* What happens to it *)

(* The process is killed, perhaps in the middle of replacing a document. *)
Kill ==
  /\ run.step # "idle"
  /\ run' = Idle("killed")
  /\ loaded' = {}
  /\ \/ UNCHANGED dest
     \/ /\ run.step = "docs" /\ ~ run.dry /\ run.docs # {}
        /\ Reads(Doc) /\ Accepted(ReadDocument(Doc))
        /\ dest' = [dest EXCEPT ![run.space][Doc] = Absent]
  /\ back' = [w \in Workspaces |-> back[w] \cup {dest'[w]}]
  /\ UNCHANGED outside

PowerLoss ==
  /\ run.step = "idle"
  /\ \E w \in Workspaces : \E s \in back[w] :
       /\ dest' = [dest EXCEPT ![w] = s]
       /\ back' = [back EXCEPT ![w] = {s}]
  /\ UNCHANGED <<outside, run, loaded>>

(* Between two runs the server may use the shards. *)
Serve(w, d) ==
  /\ run.step = "idle"
  /\ served < MaxServed
  /\ \E dto \in {Served, Absent} : Put(w, d, dto)
  /\ served' = served + 1
  /\ touched' = touched \cup {<<w, d>>}
  /\ UNCHANGED <<db, run, loaded, runs, before>>

Next ==
  \/ \E dry \in BOOLEAN : Begin(dry)
  \/ NextSpace \/ Abort \/ CopyFails \/ Copy \/ SpaceDone
  \/ \E w \in Workspaces : SnapshotFails(w) \/ Snapshot(w)
  \/ Exit \/ Kill \/ PowerLoss
  \/ \E w \in Workspaces, d \in Docs : Serve(w, d)

Spec == Init /\ [][Next]_vars

-----------------------------------------------------------------------------
(* Properties *)

Ended(exits) == run.step = "idle" /\ run.exit \in exits

(* A migration that exits with success has put every document a filter row *)
(* names, whole, into every workspace that names it, where no power loss   *)
(* takes it away, whatever runs were killed or failed before it; and no    *)
(* run puts a document where no row names it (migrate.rs:8-18,             *)
(* migrate_rocksdb.rs:8-9).                                                *)
SuccessMeansMigrated ==
  /\ Ended({"success"}) /\ ~ run.dry =>
       \A p \in Pairs \ touched : \A s \in back[p[1]] \cup {dest[p[1]]} :
         Reads(p[2]) /\ s[p[2]] = ReadDocument(p[2])
  /\ \A w \in Workspaces : \A d \in Docs \ Named(w) : dest[w][d] \in {Absent, Served}

(* When a run gets to the end of its work, its report accounts for every   *)
(* document: a named one is reported as failed or is in the shard as the   *)
(* source has it; one that cannot be read or is of another model is        *)
(* reported, and what the shard had of it is left alone; a dry run changes *)
(* nothing.  When nothing failed, a shard that was empty holds what was    *)
(* read, and each document of the source is in one shard, is counted as    *)
(* shared, or is counted as left behind (migrate.rs:88-110).               *)
ReportAccounts ==
  [][Exit =>
       /\ \A p \in Pairs :
            LET w == p[1]
                d == p[2]
                good == Reads(d) /\ (run.dry \/ Accepted(ReadDocument(d)))
            IN  /\ p \notin run.failures => good
                /\ p \notin run.failures /\ ~ run.dry => dest[w][d] = ReadDocument(d)
                /\ run.dry \/ ~ good => dest[w][d] = before[w][d]
       /\ \A w \in NamedSpaces :
            LET failed == {p \in run.failures : p[1] = w}
            IN  /\ run.read[w].docs = Cardinality(Named(w)) - Cardinality(failed)
                /\ ~ run.dry /\ failed = {} /\ before[w] = [d \in Docs |-> Absent]
                     => run.written[w] = run.read[w]
       /\ ~ run.dry /\ run.failures = {} =>
            LET homes(d) == Cardinality({w \in Workspaces : dest[w][d] = ReadDocument(d)})
                with(Test(_)) == Cardinality({d \in DOMAIN db.docs : Test(homes(d))})
            IN  run.census = [distinct |-> with(LAMBDA n : n > 0),
                              shared |-> with(LAMBDA n : n > 1),
                              orphans |-> with(LAMBDA n : n = 0)]]_vars
=============================================================================
