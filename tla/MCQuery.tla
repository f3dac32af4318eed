------------------------------- MODULE MCQuery -------------------------------
(* Small texts and requests for the query. *)
EXTENDS Query

Text(tok, dist, reads, ranks) == [tok |-> tok, dist |-> dist, reads |-> reads, ranks |-> ranks]
Split(whole, sentences) == [whole |-> whole, sentences |-> sentences]

(* A near split between two sentences; a split with a short sentence, then *)
(* one whose short sentence cannot be read; one that cannot be ranked.     *)
Near == <<Split(Text(9, 2, TRUE, TRUE), <<Text(5, 1, TRUE, TRUE), Text(4, 3, TRUE, TRUE)>>)>>
Far == <<Split(Text(9, 1, FALSE, TRUE), <<Text(2, 0, FALSE, TRUE), Text(7, 4, TRUE, TRUE)>>),
         Split(Text(8, 3, TRUE, TRUE), <<Text(3, 0, TRUE, TRUE), Text(5, 2, TRUE, FALSE)>>)>>

SomeTexts == {Near, Far}
TwoDocs == {<<"a", 1, Near>>, <<"a", 2, Far>>}

Request(spaces, mode, topK, docs, rerank) ==
  [spaces |-> spaces, mode |-> mode, topK |-> topK, docs |-> docs, rerank |-> rerank]

SomeRequests ==
  {Request(<<"a", "b">>, Kinds, 2, {}, FALSE),
   Request(<<"b", "a">>, Kinds, 1, {}, TRUE),
   Request(<<"a", "a">>, {"splits"}, 3, {}, FALSE),
   Request(<<"a", "b">>, {"summaries"}, 2, {1, 2}, FALSE),
   Request(<<"a">>, Kinds, 1, {1}, TRUE),
   Request(<<"a">>, Kinds, 0, {}, FALSE)}
=============================================================================
