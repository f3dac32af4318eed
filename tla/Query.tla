-------------------------------- MODULE Query --------------------------------
(***************************************************************************)
(* One query over several workspaces (embedding-server: api/query.rs),     *)
(* with the searches and loads of a shard that it calls (embedding-store:  *)
(* shard.rs), while other requests insert, replace and delete documents.   *)
(* Every call of the pool or of a shard is a step, made under that shard's *)
(* read lock: between any two of them documents may change, and ids of a   *)
(* document's splits are the same in all its versions.                     *)
(*                                                                         *)
(* A shard maps each document to the version it stores.  Its indexes have  *)
(* exactly the vectors of its log, as module Shard shows, and the search   *)
(* of the usearch graph, which is outside the repository, is taken to be   *)
(* exact, with ties in any order.  A hit list is a sequence in the order   *)
(* of the code's IndexMap.                                                 *)
(***************************************************************************)
EXTENDS Pipeline

CONSTANTS Workspaces, Docs, Texts,
          Before,         \* <<workspace, document, text>>: what was inserted earlier
          Requests,       \* the requests a client may make
          BruteForceMax,  \* ShardOptions.brute_force_max
          MaxWrites       \* bound: insertions and deletions

ASSUME QueryAssumption ==
  /\ Docs \subseteq Nat /\ MaxWrites \in Nat /\ BruteForceMax \in Nat

VARIABLES
  shards,  \* workspace -> document -> the version stored, or NoVersion
  made,    \* the workspaces with a directory
  writes,  \* bound counter
  q,       \* the query: its step and its local variables
  lived,   \* history: what each shard held at some moment of the query
  quiet    \* history: no write overlapped the query

vars == <<shards, made, writes, q, lived, quiet>>

NoVersion == [source |-> <<>>, splits |-> <<>>]
Kinds == {"summaries", "splits"}
NoHits == [k \in Kinds |-> <<>>]

Live == {<<w, d, shards[w][d]>> : w \in Workspaces, d \in Docs}

Inserted(w, d) ==
  UNION {ProcessDocument(d, b[3], {}) : b \in {x \in Before : x[1] = w /\ x[2] = d}}

Init ==
  /\ shards = [w \in Workspaces |-> [d \in Docs |->
                IF Inserted(w, d) = {} THEN NoVersion ELSE CHOOSE v \in Inserted(w, d) : TRUE]]
  /\ made = {b[1] : b \in Before}
  /\ writes = 0
  /\ q = [step |-> "done", failed |-> FALSE, answers |-> <<>>, req |-> <<>>, open |-> <<>>]
  /\ lived = {}
  /\ quiet = FALSE

-----------------------------------------------------------------------------
(* Writing *)

Store(w, d, version) ==
  /\ writes < MaxWrites
  /\ shards' = [shards EXCEPT ![w][d] = version]
  /\ writes' = writes + 1
  /\ lived' = IF q.step = "done" THEN lived ELSE lived \cup {<<w, d, version>>}
  /\ quiet' = FALSE
  /\ UNCHANGED q

(* What an insertion may make of a document, whichever texts and failures. *)
Versions == [d \in Docs |->
  UNION {UNION {ProcessDocument(d, text, lost) : lost \in SUBSET DOMAIN text} : text \in Texts}]

Insert(w, d) ==
  /\ \E version \in Versions[d] : Store(w, d, version)
  /\ made' = made \cup {w}

Delete(w, d) ==
  /\ shards[w][d] # NoVersion
  /\ Store(w, d, NoVersion)
  /\ UNCHANGED made

-----------------------------------------------------------------------------
(* Searching one shard *)

Entities(kind, version) ==
  IF kind = "splits" THEN version.splits ELSE DocSummaries(version)

(* The vectors of these documents, as the search sees them. *)
Candidates(kind, w, docs) ==
  {[id |-> e.id, dist |-> e.vec.dist] :
     e \in UNION {ToSet(Entities(kind, shards[w][d])) : d \in docs}}

(* The k nearest of a set of hits, ascending: all the ways to break ties. *)
GraphSearch(hits, k) ==
  {s \in [1 .. Min({k, Cardinality(hits)}) -> hits] :
     /\ IsInjective(s)
     /\ \A i, j \in DOMAIN s : i < j => s[i].dist <= s[j].dist
     /\ \A h \in hits \ ToSet(s), i \in DOMAIN s : s[i].dist <= h.dist}

IdLess(a, b) == \E n \in DOMAIN a : a[n] < b[n] /\ \A i \in 1 .. n - 1 : a[i] = b[i]

BruteForce(hits, k) ==
  LET scored == SetToSortSeq(hits, LAMBDA a, b :
                  a.dist < b.dist \/ (a.dist = b.dist /\ IdLess(a.id, b.id)))
  IN  SubSeq(scored, 1, Min({k, Len(scored)}))

CandidateCount(kind, w, docs) ==
  MapThenSumSet(LAMBDA d : Len(Entities(kind, shards[w][d])), docs)

Search(kind, w, k, filter) ==
  LET count == CandidateCount(kind, w, filter)
  IN  IF k = 0 THEN {<<>>}
      ELSE IF filter = {} THEN GraphSearch(Candidates(kind, w, Docs), k)
      ELSE IF count = 0 THEN {<<>>}
      ELSE IF count <= BruteForceMax THEN {BruteForce(Candidates(kind, w, filter), k)}
      ELSE GraphSearch(Candidates(kind, w, filter), k)

-----------------------------------------------------------------------------
(* Helpers on sequences: what IndexMap and the stable sort do *)

StableSort(s, Dist(_)) ==
  LET before(i, j) == Dist(s[i]) < Dist(s[j]) \/ (Dist(s[i]) = Dist(s[j]) /\ i < j)
      order == SortSeq([i \in DOMAIN s |-> i], before)
  IN  [n \in DOMAIN s |-> s[order[n]]]

(* The keys, each where it first occurs. *)
Keys(s) ==
  LET first == SelectSeq([i \in DOMAIN s |-> i], LAMBDA i : \A j \in 1 .. i - 1 : s[j] # s[i])
  IN  [n \in DOMAIN first |-> s[first[n]]]

Ids(hits) == [i \in DOMAIN hits |-> hits[i].id]
DistanceOf(hits, id) == (CHOOSE h \in ToSet(hits) : h.id = id).dist

-----------------------------------------------------------------------------
(* The query *)

(* keep_nearest cuts the lists of all shards to the k nearest of them all. *)
KeepNearest(lists, k) ==
  LET all == FlattenSeq([i \in DOMAIN lists |->
               [n \in DOMAIN lists[i] |-> [at |-> i, hit |-> lists[i][n]]]])
      kept == SubSeq(StableSort(all, LAMBDA h : h.hit.dist), 1, k)
  IN  IF Len(all) <= k THEN lists
      ELSE [i \in DOMAIN lists |->
             SelectSeq(lists[i], LAMBDA h : [at |-> i, hit |-> h] \in ToSet(kept))]

(* rerank_summaries keeps the summaries that got a rank.  When there is    *)
(* none to rank the service's answer is an error, and so is the query's.   *)
RerankSummaries(summaries) ==
  LET ranked == SelectSeq(summaries, LAMBDA s : s.part.text.ranks)
  IN  IF ~ q.req.rerank \/ summaries = <<>> THEN {summaries}
      ELSE IF ranked = <<>> THEN {} ELSE {ranked}

(* What a shard has under an id: nothing, when it is gone. *)
Find(kind, w, id) == {e \in ToSet(Entities(kind, shards[w][id[1]])) : e.id = id}

Running(step) == q.step = step
QueryOnly == UNCHANGED <<shards, made, writes, lived, quiet>>

Receive(req) ==
  /\ Running("done")
  /\ q' = [step |-> "search", failed |-> FALSE, req |-> req, asked |-> 0, open |-> <<>>,
           hits |-> NoHits, at |-> 0, found |-> <<>>, todo |-> <<>>, answers |-> <<>>]
  /\ lived' = Live
  /\ quiet' = TRUE
  /\ UNCHANGED <<shards, made, writes>>

(* pool.get_existing of one workspace after the other. *)
OpenNext ==
  /\ Running("search")
  /\ q.asked < Len(q.req.spaces)
  /\ LET w == q.req.spaces[q.asked + 1]
     IN  q' = [q EXCEPT !.asked = @ + 1, !.open = IF w \in made THEN Append(@, w) ELSE @]
  /\ QueryOnly

(* All shards have been searched, or this kind is not asked for. *)
Searched(kind) ==
  /\ q.asked = Len(q.req.spaces)
  /\ kind \in q.req.mode => Len(q.hits[kind]) = Len(q.open)

(* search_summaries or search_splits of the next shard; after the last one *)
(* the lists are cut.                                                      *)
SearchNext(kind) ==
  /\ Running("search")
  /\ q.asked = Len(q.req.spaces)
  /\ ~ Searched(kind)
  /\ kind = "splits" => Searched("summaries")
  /\ \E hits \in Search(kind, q.open[Len(q.hits[kind]) + 1], q.req.topK, q.req.docs) :
       LET lists == Append(q.hits[kind], hits)
       IN  q' = [q EXCEPT !.hits[kind] = IF Len(lists) = Len(q.open)
                                         THEN KeepNearest(lists, q.req.topK) ELSE lists]
  /\ QueryOnly

Shard == q.open[q.at]
HitsAt(kind, i) == IF kind \in q.req.mode THEN q.hits[kind][i] ELSE <<>>

(* Between two shards of the loop that loads. *)
BetweenShards ==
  \/ Running("search") /\ \A kind \in Kinds : Searched(kind)
  \/ Running("loadDocs") /\ q.todo = <<>>

(* Shard::load_summaries: what the hits name, each at its distance; those   *)
(* that are gone are skipped.                                               *)
LoadedSummaries(w, hits) ==
  FlattenSeq([i \in DOMAIN hits |->
    SetToSeq({[part |-> m, dist |-> hits[i].dist] : m \in Find("summaries", w, hits[i].id)})])

LoadSummaries ==
  /\ BetweenShards
  /\ q.at < Len(q.open)
  /\ \E summaries \in RerankSummaries(LoadedSummaries(q.open[q.at + 1],
                                                      HitsAt("summaries", q.at + 1))) :
       q' = [q EXCEPT !.step = "loadSplits", !.at = @ + 1, !.found = summaries]
  /\ QueryOnly

(* split_summary_map and splits_min_distances of the summaries loaded. *)
HitSummaries(id) == SelectSeq(q.found, LAMBDA s : s.part.split = id)
SplitHits == HitsAt("splits", q.at)
IsDirect(id) == id \in ToSet(Ids(SplitHits))
MutSplitDistance(id) ==
  Min({s.dist : s \in ToSet(HitSummaries(id))}
      \cup (IF IsDirect(id) THEN {DistanceOf(SplitHits, id)} ELSE {}))
SplitDistance(id) ==
  IF IsDirect(id) THEN DistanceOf(SplitHits, id)
  ELSE Min({s.dist : s \in ToSet(HitSummaries(id))})

NoDistance == -1

(* Shard::load_splits: the splits under these ids, each with its own        *)
(* distance, if it was hit itself, and the summaries that were hit.         *)
LoadedSplits(ids) ==
  LET own(id) == IF IsDirect(id) THEN DistanceOf(SplitHits, id) ELSE NoDistance
      loaded(id) == SetToSeq({[id |-> id, text |-> s.text, vec |-> s.vec, dist |-> own(id),
                               summaries |-> HitSummaries(id)] : s \in Find("splits", Shard, id)})
  IN  FlattenSeq([i \in DOMAIN ids |-> loaded(ids[i])])

(* final_split_ids: the splits of the summaries, then those hit themselves, *)
(* nearest first.                                                           *)
FinalSplitIds ==
  StableSort(Keys([i \in DOMAIN q.found |-> q.found[i].part.split] \o Ids(SplitHits)),
             SplitDistance)

LoadSplits ==
  /\ Running("loadSplits")
  /\ LET splits == LoadedSplits(FinalSplitIds)
         docs == Keys([i \in DOMAIN splits |-> splits[i].id[1]])
         of(d) == SelectSeq(splits, LAMBDA s : s.id[1] = d)
     IN  q' = [q EXCEPT !.step = "loadDocs",
                        !.todo = [i \in DOMAIN docs |->
                                   [doc |-> docs[i], splits |-> of(docs[i]),
                                    dist |-> SplitDistance(of(docs[i])[1].id)]]]
  /\ QueryOnly

(* load_doc has nothing under the id: deleted since the search. *)
MutVanished(version) == FALSE
Vanished(version) == version = NoVersion

(* Shard::load_doc adds the document's own list, without distances. *)
OwnSummaries(version) ==
  [i \in DOMAIN DocSummaries(version) |->
    [part |-> DocSummaries(version)[i], dist |-> NoDistance]]

(* The next document; one that is gone is left out. *)
LoadDoc ==
  /\ Running("loadDocs")
  /\ q.todo # <<>>
  /\ LET next == Head(q.todo)
         version == shards[Shard][next.doc]
         answer(summaries) == [at |-> q.at, doc |-> next.doc, dist |-> next.dist,
                               splits |-> next.splits, summaries |-> summaries]
     IN  IF Vanished(version) THEN q' = [q EXCEPT !.todo = Tail(@)]
         ELSE \E summaries \in RerankSummaries(OwnSummaries(version)) :
                q' = [q EXCEPT !.todo = Tail(@), !.answers = Append(@, answer(summaries))]
  /\ QueryOnly

(* The documents of all shards, by the distance of their best split. *)
Respond ==
  /\ BetweenShards
  /\ q.at = Len(q.open)
  /\ q' = [step |-> "done", failed |-> FALSE, req |-> q.req, open |-> q.open,
           answers |-> StableSort(q.answers, LAMBDA a : a.dist)]
  /\ QueryOnly

(* The embedding of the query, a search, a load or a reranking fails: the  *)
(* response is the error.                                                  *)
Fail ==
  /\ ~ Running("done")
  /\ q' = [step |-> "done", failed |-> TRUE, req |-> q.req, open |-> <<>>, answers |-> <<>>]
  /\ QueryOnly

Next ==
  \/ \E w \in Workspaces, d \in Docs : Insert(w, d) \/ Delete(w, d)
  \/ \E req \in Requests : Receive(req)
  \/ OpenNext
  \/ \E kind \in Kinds : SearchNext(kind)
  \/ LoadSummaries \/ LoadSplits \/ LoadDoc \/ Respond \/ Fail

Spec == Init /\ [][Next]_vars

-----------------------------------------------------------------------------
(* Properties *)

(* Every split and every summary that is stored has the text of its own    *)
(* position in the document, and the vector of that text: whatever texts   *)
(* the service leaves out of its answer, and whichever splits fail         *)
(* (embedding_worker.rs:143, splits.rs:34-42, documents.rs:28-31).         *)
PartsInPlace ==
  \A w \in Workspaces, d \in Docs :
    \A s \in ToSet(shards[w][d].splits) :
      LET source == shards[w][d].source[s.seq + 1]
      IN  /\ s.text = source.whole /\ s.vec = s.text
          /\ \A m \in ToSet(s.summaries) :
               m.text = GetSentences(source)[m.seq + 1] /\ m.vec = m.text

Done == q.step = "done" /\ ~ q.failed
Wanted == IF q.req.docs = {} THEN Docs ELSE q.req.docs

(* Whatever is inserted, replaced or deleted while a query runs, all that  *)
(* it answers with was in the workspace at some moment of the query: each  *)
(* split and summary, the distance each was found at, and the document's   *)
(* own summaries, as one version had them; and all of it is in a workspace *)
(* and a document that was asked for (query.rs:185-194).                   *)
AnswersWereLive ==
  Done =>
    \A n \in DOMAIN q.answers :
      LET a == q.answers[n]
          versions == {l[3] : l \in {x \in lived : /\ x[1] = q.open[a.at] /\ x[2] = a.doc
                                                 /\ x[3] # NoVersion}}
          some(kind, Test(_)) == \E v \in versions : \E e \in ToSet(Entities(kind, v)) : Test(e)
          own == [i \in DOMAIN a.summaries |-> a.summaries[i].part]
      IN  /\ q.open[a.at] \in ToSet(q.req.spaces) /\ a.doc \in Wanted
          /\ \E v \in versions :
               own = IF q.req.rerank THEN SelectSeq(DocSummaries(v), LAMBDA m : m.text.ranks)
                     ELSE DocSummaries(v)
          /\ \A s \in ToSet(a.splits) :
               /\ some("splits", LAMBDA e : e.id = s.id /\ e.text = s.text /\ e.vec = s.vec)
               /\ s.dist # NoDistance =>
                    some("splits", LAMBDA e : e.id = s.id /\ e.vec.dist = s.dist)
               /\ s.dist # NoDistance \/ s.summaries # <<>>
               /\ \A m \in ToSet(s.summaries) :
                    /\ m.part.split = s.id
                    /\ some("summaries", LAMBDA e : e = m.part)
                    /\ some("summaries", LAMBDA e : e.id = m.part.id /\ e.vec.dist = m.dist)

(* The k nearest vectors of one kind, of all shards together. *)
Nearest(kind) ==
  LET found(i) == {[at |-> i, hit |-> h] : h \in Candidates(kind, q.open[i], Wanted)}
      all == UNION {found(i) : i \in DOMAIN q.open}
  IN  IF kind \notin q.req.mode THEN {{}}
      ELSE {T \in SUBSET all :
             /\ Cardinality(T) = Min({q.req.topK, Cardinality(all)})
             /\ \A x \in T, y \in all \ T : x.hit.dist <= y.hit.dist}

(* What a query over shards that stand still should answer with, from the  *)
(* nearest summaries and splits. *)
Expected(summaries, splits) ==
  LET ranks(m) == \A e \in Find("summaries", q.open[m.at], m.hit.id) : e.text.ranks
      used == {m \in summaries : q.req.rerank => ranks(m)}
      keys == {[at |-> s.at, id |-> s.hit.id] : s \in splits}
              \cup {[at |-> m.at, id |-> SubSeq(m.hit.id, 1, 2)] : m \in used}
      direct(k) == {s.hit.dist : s \in {x \in splits : x.at = k.at /\ x.hit.id = k.id}}
      through(k) == {m.hit : m \in {x \in used : x.at = k.at /\ SubSeq(x.hit.id, 1, 2) = k.id}}
      best(k) == IF direct(k) # {} THEN Min(direct(k)) ELSE Min({h.dist : h \in through(k)})
      of(i, d) == {k \in keys : k.at = i /\ k.id[1] = d}
  IN  {[at |-> i, doc |-> d, dist |-> Min({best(k) : k \in of(i, d)}),
        splits |-> {[id |-> k.id, dist |-> direct(k), summaries |-> through(k)] : k \in of(i, d)}] :
          <<i, d>> \in {<<k.at, k.id[1]>> : k \in keys}}

Answered(a) ==
  [at |-> a.at, doc |-> a.doc, dist |-> a.dist,
   splits |-> {[id |-> s.id,
                dist |-> {s.dist} \ {NoDistance},
                summaries |-> {[id |-> m.part.id, dist |-> m.dist] : m \in ToSet(s.summaries)}] :
                  s \in ToSet(a.splits)}]

(* With no write in between, a query answers with exactly the documents    *)
(* that the k nearest splits and the k nearest summaries of all workspaces *)
(* lead to, once for each mention of a workspace, with those splits and    *)
(* summaries, nearest document first (query.rs:73-79).                     *)
QuietExact ==
  Done /\ quiet =>
    /\ q.open = SelectSeq(q.req.spaces, LAMBDA w : w \in made)
    /\ \A i, j \in DOMAIN q.answers : i < j => q.answers[i].dist <= q.answers[j].dist
    /\ \E summaries \in Nearest("summaries"), splits \in Nearest("splits") :
         LET expected == Expected(summaries, splits)
         IN  /\ {Answered(a) : a \in ToSet(q.answers)} = expected
             /\ Len(q.answers) = Cardinality(expected)
=============================================================================
