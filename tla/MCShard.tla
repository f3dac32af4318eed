------------------------------- MODULE MCShard -------------------------------
(* The shard on a few documents and threads. *)
EXTENDS Shard, TLC

Symmetry == Permutations(Threads)
=============================================================================
