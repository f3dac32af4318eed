--------------------------- MODULE MCStoreFaults -----------------------------
(* Small instances of StoreFaults for TLC. *)
EXTENDS StoreFaults

OneSplit == {[splits |-> 1, listed |-> TRUE]}

=============================================================================
