---------------------------- MODULE MCModelWorker ----------------------------
(* ModelWorker for TLC.  With NCtx = 10, two sequences of five tokens fill   *)
(* a batch, six and five do not fit into one, and a text of eleven exceeds   *)
(* the context.  A pair with a query of one token is five tokens longer than *)
(* its text, so that a text of five just fits and one of six does not.       *)
EXTENDS ModelWorker

Asks(query, texts) == [wellFormed |-> TRUE, query |-> query, texts |-> texts]

MCRequests ==
  [s \in {"embed", "rerank"} |->
     IF s = "embed"
     THEN {Asks(0, <<5, 5, 6>>), Asks(0, <<11, 5>>), Asks(0, <<6, Unreadable, 5>>),
           Asks(0, <<0>>), NoRequest}
     ELSE {Asks(1, <<0, 0, 5>>), Asks(1, <<6, 0>>), Asks(1, <<Unreadable, 0, 0>>),
           Asks(9, <<0>>), Asks(0, <<0>>), NoRequest}]

=============================================================================
