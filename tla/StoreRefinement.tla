--------------------------- MODULE StoreRefinement ---------------------------
(***************************************************************************)
(* The record store implements DocStore.  The documents a store stands for *)
(* are those of its maps while it is open; while it is closed they are     *)
(* what a replay of its files would give.  They are kept in an auxiliary   *)
(* variable, which no action reads.                                        *)
(***************************************************************************)
EXTENDS Store

VARIABLE docs   \* auxiliary: the documents this state stands for

Stands == Versions(IF Up THEN maps ELSE Recovered)

RefinementInit == Init /\ docs = Stands

RefinementNext == Next /\ docs' = Stands'

RefinementSpec == RefinementInit /\ [][RefinementNext]_<<vars, docs>>

(* The states that a power loss may leave. *)
Promised == {s.docs : s \in since}

Abstract ==
  INSTANCE DocStore WITH
    back <- Promised,
    up <- Up,
    Stamps <- 1 .. MaxSeq

(* The log, its snapshots, seals and compactions are a set of documents in *)
(* which every write happens at once, at one step of insert or delete or   *)
(* at the crash that stops it; every other step, each of an open's among   *)
(* them, changes no document (store.rs:262-274, 452, 587, lib.rs:9-10).    *)
ImplementsDocStore == Abstract!Spec
=============================================================================
