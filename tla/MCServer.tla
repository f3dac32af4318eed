------------------------------ MODULE MCServer -------------------------------
(* Server for TLC.  Two threads and two workspaces, one of which may refuse  *)
(* to sync, are what the races and the failing pass need; one document is    *)
(* inserted, deleted and read, and the other workspace is written to.        *)
EXTENDS Server

CONSTANTS a, b, d

Ask(kind, w) == [kind |-> kind, ws |-> w, doc |-> d]

MCRequests ==
  {Ask("insert", a), Ask("delete", a), Ask("retrieve", a), Ask("insert", b),
   [kind |-> "bad"]}

=============================================================================
