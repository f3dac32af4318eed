-------------------------- MODULE MCStoreRefinement --------------------------
(* The store beside the documents it stands for, on small instances. *)
EXTENDS StoreRefinement

(* Documents of two sizes, with and without a summary list of their own. *)
Shapes == {[splits |-> 1, listed |-> TRUE], [splits |-> 2, listed |-> FALSE]}

(* RefinementSpec, in a form in which TLC reads the next disk only once: a *)
(* replay of given files is quick to evaluate, one of primed variables is  *)
(* not.                                                                    *)
Disk(files_, man_, snap_) ==
  INSTANCE Store WITH files <- files_, man <- man_, snap <- snap_

RefinementStep ==
  /\ Next
  /\ IF Up'
     THEN docs' = Versions(maps')
     ELSE \E f \in {files'}, n \in {man'}, s \in {snap'} :
            docs' = Versions(Disk(f, n, s)!Recovered)

RefinementRuns == RefinementInit /\ [][RefinementStep]_<<vars, docs>>
=============================================================================
