----------------------------- MODULE MCMigration -----------------------------
(* Sources of two documents in two workspaces: whole, and with each kind of *)
(* damage.                                                                  *)
EXTENDS Migration

Row(d, w) == [doc |-> d, space |-> w]

(* Document 1 has two splits, the first with a summary that the document   *)
(* lists too; the rows of its vectors name two workspaces.  Document 2 has *)
(* a split without summaries.                                              *)
Whole ==
  [docs |-> 1 :> [splits |-> <<11, 12>>, summaries |-> <<13>>]
            @@ 2 :> [splits |-> <<21>>, summaries |-> <<>>],
   splits |-> 11 :> <<13>> @@ 12 :> <<>> @@ 21 :> <<>>,
   summaries |-> {13},
   embeddings |-> [id \in {11, 12, 13, 21} |-> ThisModel],
   rows |-> 11 :> Row(1, 1) @@ 12 :> Row(1, 1) @@ 13 :> Row(1, 2) @@ 21 :> Row(2, 2)]

OtherIds(f, id) == [i \in DOMAIN f \ {id} |-> f[i]]

SomeSources ==
  {Whole,
   [Whole EXCEPT !.docs = OtherIds(@, 2)],
   [Whole EXCEPT !.rows = OtherIds(@, 21)],
   [Whole EXCEPT !.splits = OtherIds(@, 12)],
   [Whole EXCEPT !.summaries = {}],
   [Whole EXCEPT !.embeddings = OtherIds(@, 13)],
   [Whole EXCEPT !.embeddings[21] = "other"]}
=============================================================================
