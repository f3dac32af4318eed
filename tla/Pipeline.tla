------------------------------ MODULE Pipeline -------------------------------
(***************************************************************************)
(* How the text of a document becomes the splits and summaries that are    *)
(* stored (embedding-processing: documents.rs, splits.rs, summaries.rs),   *)
(* as operators.  The embedding service answers with a list of vectors     *)
(* that is shorter when a text could not be read, and everything after it  *)
(* goes by position in that list.                                          *)
(*                                                                         *)
(* A text is a record: its tokens (tok), how far its vector is from the    *)
(* query (dist), whether the model's tokenizer takes it (reads), and       *)
(* whether it is short enough to be ranked (ranks).  A vector is the text  *)
(* it was computed from.  A document's text is the sequence of its splits, *)
(* each a text (whole) with its sentences.  Ids are the tuples that the    *)
(* code hashes, taken to be injective.                                     *)
(*                                                                         *)
(* An operator that may go one of several ways is the set of its results;  *)
(* an empty one is an error.                                               *)
(***************************************************************************)
EXTENDS Integers, FiniteSets, Sequences, SequencesExt

MinTokens == 4

(* get_sentences: positions count the sentences that are long enough. *)
GetSentences(split) == SelectSeq(split.sentences, LAMBDA s : s.tok >= MinTokens)

(* What the embedding service sends back for these texts. *)
GetEmbeddings(texts) == SelectSeq(texts, LAMBDA t : t.reads)

(* The best sentences, at most two, in any order of preference.  The      *)
(* library takes as many vectors as sentences, and nothing else.          *)
MutLexRank(vectors, sentences) ==
  LET n == Min({Len(vectors), Len(sentences)})
  IN  {r \in [1 .. Min({2, n}) -> 1 .. n] : IsInjective(r)}
LexRank(vectors, sentences) ==
  LET n == Len(sentences)
  IN  IF Len(vectors) # n THEN {}
      ELSE {r \in [1 .. Min({2, n}) -> 1 .. n] : IsInjective(r)}

ProcessSummaries(splitId, sentences, vectors) ==
  IF sentences = <<>> THEN {<<>>}
  ELSE {[n \in DOMAIN r |->
          [id |-> splitId \o <<r[n] - 1, sentences[r[n]].tok>>,
           split |-> splitId,
           seq |-> r[n] - 1,
           text |-> sentences[r[n]],
           vec |-> vectors[r[n]]]] : r \in LexRank(vectors, sentences)}

(* process_split of the split at a position of a document. *)
ProcessSplit(doc, seq, split) ==
  LET id == <<doc, seq>>
      sentences == GetSentences(split)
      vectors == GetEmbeddings(<<split.whole>> \o sentences)
  IN  IF vectors = <<>> THEN {}
      ELSE {[id |-> id, seq |-> seq, text |-> split.whole, vec |-> Head(vectors),
             summaries |-> summaries] :
               summaries \in ProcessSummaries(id, sentences, Tail(vectors))}

(* process_document: a split in error is left out, and so is one whose call *)
(* of the embedding service failed or timed out (lost); the others keep     *)
(* their positions.                                                         *)
ProcessDocument(doc, text, lost) ==
  LET results(i) == IF i \in lost THEN {} ELSE ProcessSplit(doc, i - 1, text[i])
      kept == SelectSeq([i \in DOMAIN text |-> i], LAMBDA i : results(i) # {})
      chosen == {c \in [DOMAIN kept -> UNION {results(i) : i \in ToSet(kept)}] :
                  \A n \in DOMAIN kept : c[n] \in results(kept[n])}
  IN  {[source |-> text, splits |-> c] : c \in chosen}

(* A document's own summary list is that of its splits, one after the other. *)
DocSummaries(version) ==
  FlattenSeq([i \in DOMAIN version.splits |-> version.splits[i].summaries])
=============================================================================
