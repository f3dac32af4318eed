------------------------------ MODULE DocStore -------------------------------
(***************************************************************************)
(* What one workspace's record store promises its shard, without a log:    *)
(* a set of documents in which a write happens at once or not at all.      *)
(*                                                                         *)
(* A process that dies keeps everything, and may have done the write it    *)
(* was at.  A machine that dies falls back to a state the documents were   *)
(* in since the last sync.  Two ways to lose more are part of the promise, *)
(* because the store has them: a replacement stopped half way leaves its   *)
(* document gone, and until it syncs a compaction lets a fall back miss    *)
(* the old version of a document that was deleted or replaced.             *)
(***************************************************************************)
EXTENDS Integers

CONSTANTS Docs,
          Stamps   \* what tells one write of a document from another

VARIABLES docs,    \* document -> the stamp of the write it is from, 0 when absent
          back,    \* the states a power loss may fall back to
          up       \* a process has the store open

vars == <<docs, back, up>>

Init ==
  /\ docs = [d \in Docs |-> 0]
  /\ back = {docs}
  /\ up = TRUE

Absent == 0
With(d, v) == [docs EXCEPT ![d] = v]

(* What a write that is stopped may leave, beside what was there: the      *)
(* write, or a replacement's first half.                                   *)
Outcomes(d, v) == {With(d, v)} \cup (IF docs[d] = Absent THEN {} ELSE {With(d, Absent)})

(* An insert stamps the document anew; a delete takes it away. *)
IsWrite(d, v) ==
  IF v = Absent THEN docs[d] # Absent ELSE \A e \in Docs : docs[e] # v

Write(d, v) ==
  /\ up
  /\ IsWrite(d, v)
  /\ docs' = With(d, v)
  /\ back' = back \cup Outcomes(d, v)
  /\ up' = up

(* fsync, and whatever else syncs the log: no fall back beyond here. *)
Sync ==
  /\ up
  /\ back' = {docs}
  /\ UNCHANGED <<docs, up>>

(* A compaction is published: an old version may be out of reach of a fall  *)
(* back, a current one never is.                                            *)
Faded(s, t) == \A d \in Docs : t[d] = s[d] \/ (t[d] = Absent /\ s[d] # docs[d])

Compact ==
  /\ up
  /\ \A s \in back : \E t \in back' : Faded(s, t)
  /\ \A t \in back' : \E s \in back : Faded(s, t)
  /\ UNCHANGED <<docs, up>>

(* The process dies, between two writes or in the middle of one. *)
Crash ==
  /\ up
  /\ up' = FALSE
  /\ \/ UNCHANGED <<docs, back>>
     \/ \E d \in Docs, v \in Stamps \cup {Absent} :
          /\ IsWrite(d, v)
          /\ docs' \in Outcomes(d, v) \cup {docs}
          /\ back' = back \cup Outcomes(d, v)

PowerLoss ==
  /\ ~ up
  /\ docs' \in back
  /\ UNCHANGED <<back, up>>

(* An open serves exactly what there is. *)
Open ==
  /\ ~ up
  /\ up' = TRUE
  /\ UNCHANGED <<docs, back>>

Next ==
  \/ \E d \in Docs, v \in Stamps \cup {Absent} : Write(d, v)
  \/ Sync \/ Compact \/ Crash \/ PowerLoss \/ Open

Spec == Init /\ [][Next]_vars
=============================================================================
