----------------------------- MODULE MCShardPool -----------------------------
(* The shard pool on small sets of threads and workspaces. *)
EXTENDS ShardPool, TLC

(* Threads and workspaces are interchangeable: no action tells two apart. *)
Symmetry == Permutations(Threads) \cup Permutations(Workspaces)
=============================================================================
