------------------------------- MODULE Server --------------------------------
(***************************************************************************)
(* The server process (embedding-server): worker threads that serve        *)
(* insertions, deletions and retrievals, the maintenance thread, and the   *)
(* shutdown on a signal (api/, zmq/server_worker.rs, maintenance.rs,       *)
(* main.rs).                                                               *)
(*                                                                         *)
(* The shards are taken as modules Store and Shard show them: a workspace  *)
(* is the log of the writes it accepted, a prefix of which is on the       *)
(* device; a write is one entry, known by its request.  The process dying  *)
(* keeps the log, a power loss may take what is not on the device.  Every  *)
(* call of a shard is one action, since it runs under the shard's lock.    *)
(* In the workspaces of Failing the device refuses to sync, at any time or *)
(* at every time.                                                          *)
(***************************************************************************)
EXTENDS Integers, Sequences, FiniteSets

CONSTANTS Threads, Workspaces, Docs, Failing,
          Requests,      \* what clients ask for
          Policies,      \* the fsync policies to run under: "request", "timer"
          MaxRequests, MaxRestarts

ASSUME ServerAssumption ==
  /\ Failing \subseteq Workspaces
  /\ Requests \subseteq
       [kind : {"insert", "delete", "retrieve"}, ws : Workspaces, doc : Docs]
         \cup {[kind |-> "bad"]}
  /\ Policies \subseteq {"request", "timer"}
  /\ MaxRequests \in Nat /\ MaxRestarts \in Nat

Ids == 1 .. MaxRequests
None == 0

VARIABLES
  policy,    \* sync_on_write ("request"), or left to the timer
  log,       \* workspace -> the accepted writes
  synced,    \* workspace -> how many of them are on the device
  made,      \* the workspaces with a directory
  loaded,    \* the workspaces whose shard the pool has open
  asked,     \* id -> the request
  count,     \* how many requests have arrived
  reply,     \* id -> the responses sent
  pc, job,   \* thread -> its step and its request
  pass,      \* the shards the maintenance pass still has to do
  main, handler, claimed,   \* the shutdown: main, handler, SHUTTING_DOWN
  left,      \* the shards the handler still has to snapshot
  late,      \* a timeout of await_shutdown ran out
  up, restarts

store == <<log, synced, made>>
clients == <<asked, count, reply>>
threads == <<pc, job>>
shutdown == <<main, handler, claimed, left, late, up>>
vars == <<policy, log, synced, made, loaded, asked, count, reply, pc, job, pass,
          main, handler, claimed, left, late, up, restarts>>

NoRequest == [kind |-> "none"]

Init ==
  /\ policy \in Policies
  /\ log = [w \in Workspaces |-> <<>>]
  /\ synced = [w \in Workspaces |-> 0]
  /\ made = {}
  /\ loaded = {}
  /\ asked = [r \in Ids |-> NoRequest]
  /\ count = 0
  /\ reply = [r \in Ids |-> <<>>]
  /\ pc = [t \in Threads |-> "recv"]
  /\ job = [t \in Threads |-> None]
  /\ pass = {}
  /\ main = "proxy" /\ handler = "idle" /\ claimed = FALSE
  /\ left = {} /\ late = FALSE
  /\ up = TRUE /\ restarts = 0

-----------------------------------------------------------------------------
(* The shards, as the handlers see them *)

Request(t) == asked[job[t]]

(* The document is there: the last write about it is an insertion. *)
Present(w, d) ==
  \E i \in DOMAIN log[w] :
    /\ asked[log[w][i]].doc = d /\ asked[log[w][i]].kind = "insert"
    /\ \A j \in DOMAIN log[w] : j > i => asked[log[w][j]].doc # d

Accept(w, r) == log' = [log EXCEPT ![w] = Append(@, r)]

(* Store::fsync puts the whole log on the device. *)
SyncShard(w) == synced' = [synced EXCEPT ![w] = Len(log[w])]

Respond(t, outcome) ==
  /\ reply' = [reply EXCEPT ![job[t]] = Append(@, outcome)]
  /\ pc' = [pc EXCEPT ![t] = "recv"]
  /\ job' = [job EXCEPT ![t] = None]
  /\ UNCHANGED <<asked, count>>

Goto(t, step) ==
  /\ pc' = [pc EXCEPT ![t] = step]
  /\ UNCHANGED <<clients, job>>

-----------------------------------------------------------------------------
(* worker_routine and the handlers *)

FirstStep(kind) ==
  CASE kind = "insert" -> "embed"
    [] kind \in {"delete", "retrieve"} -> "find"
    [] kind = "bad" -> "refuse"

(* recv_multipart, and the dispatch on the message type. *)
Receive(t, q) ==
  /\ up /\ pc[t] = "recv" /\ count < MaxRequests
  /\ count' = count + 1
  /\ asked' = [asked EXCEPT ![count + 1] = q]
  /\ pc' = [pc EXCEPT ![t] = FirstStep(q.kind)]
  /\ job' = [job EXCEPT ![t] = count + 1]
  /\ UNCHANGED <<policy, store, loaded, reply, pass, shutdown, restarts>>

(* A header, type or body the handlers cannot use. *)
MutRefuse(t) ==
  /\ up /\ pc[t] = "refuse"
  /\ pc' = [pc EXCEPT ![t] = "recv"]
  /\ job' = [job EXCEPT ![t] = None]
  /\ UNCHANGED <<policy, store, loaded, clients, pass, shutdown, restarts>>
Refuse(t) ==
  /\ up /\ pc[t] = "refuse"
  /\ Respond(t, "error")
  /\ UNCHANGED <<policy, store, loaded, pass, shutdown, restarts>>

(* process_document fails.  It does so when the text cannot be split; a    *)
(* split without an embedding is left out of the document.                 *)
EmbedFails(t) ==
  /\ up /\ pc[t] = "embed"
  /\ Respond(t, "error")
  /\ UNCHANGED <<policy, store, loaded, pass, shutdown, restarts>>

(* It succeeds, and pool.get brings the workspace into being; an open that *)
(* fails has made the directory all the same.                              *)
OpenShard(t) ==
  LET w == Request(t).ws
  IN  /\ up /\ pc[t] = "embed"
      /\ made' = made \cup {w}
      /\ \/ loaded' = loaded \cup {w} /\ Goto(t, "write")
         \/ w \notin loaded /\ Respond(t, "error") /\ UNCHANGED loaded
      /\ UNCHANGED <<policy, log, synced, pass, shutdown, restarts>>

(* pool.get_existing: None for a workspace nothing was ever written to. *)
MutFindShard(t) ==
  LET w == Request(t).ws
  IN  /\ up /\ pc[t] = "find"
      /\ made' = made \cup {w}
      /\ loaded' = loaded \cup {w}
      /\ Goto(t, IF Request(t).kind = "delete" THEN "write" ELSE "read")
      /\ UNCHANGED <<policy, log, synced, pass, shutdown, restarts>>
FindShard(t) ==
  LET w == Request(t).ws
  IN  /\ up /\ pc[t] = "find"
      /\ \/ w \notin made /\ Respond(t, "missing") /\ UNCHANGED loaded
         \/ /\ w \in made
            /\ loaded' = loaded \cup {w}
            /\ Goto(t, IF Request(t).kind = "delete" THEN "write" ELSE "read")
         \/ w \in made \ loaded /\ Respond(t, "error") /\ UNCHANGED loaded
      /\ UNCHANGED <<policy, store, pass, shutdown, restarts>>

(* get_doc, which may fail to read the record. *)
Read(t) ==
  /\ up /\ pc[t] = "read"
  /\ \/ Respond(t, IF Present(Request(t).ws, Request(t).doc) THEN "ok" ELSE "missing")
     \/ Respond(t, "error")
  /\ UNCHANGED <<policy, store, loaded, pass, shutdown, restarts>>

(* A deletion of what is not there. *)
DeleteNothing(t) ==
  /\ up /\ pc[t] = "write"
  /\ Request(t).kind = "delete" /\ ~ Present(Request(t).ws, Request(t).doc)
  /\ Respond(t, "missing")
  /\ UNCHANGED <<policy, store, loaded, pass, shutdown, restarts>>

(* Shard::insert or Shard::delete accepts the write; under the per-request *)
(* policy the answer has to wait for the device.                           *)
MutWrite(t) ==
  LET w == Request(t).ws
  IN  /\ up /\ pc[t] = "write"
      /\ Request(t).kind = "delete" => Present(w, Request(t).doc)
      /\ Accept(w, job[t])
      /\ IF policy = "request" /\ Request(t).kind = "insert"
         THEN Goto(t, "sync") ELSE Respond(t, "ok")
      /\ UNCHANGED <<policy, synced, made, loaded, pass, shutdown, restarts>>
Write(t) ==
  LET w == Request(t).ws
  IN  /\ up /\ pc[t] = "write"
      /\ Request(t).kind = "delete" => Present(w, Request(t).doc)
      /\ Accept(w, job[t])
      /\ IF policy = "request" THEN Goto(t, "sync") ELSE Respond(t, "ok")
      /\ UNCHANGED <<policy, synced, made, loaded, pass, shutdown, restarts>>

(* The shard's error, before the log took the write or, when an index      *)
(* update fails, after it.                                                 *)
WriteFails(t) ==
  LET w == Request(t).ws
  IN  /\ up /\ pc[t] = "write"
      /\ Request(t).kind = "delete" => Present(w, Request(t).doc)
      /\ Accept(w, job[t]) \/ UNCHANGED log
      /\ Respond(t, "error")
      /\ UNCHANGED <<policy, synced, made, loaded, pass, shutdown, restarts>>

(* shard.fsync before the acknowledgement. *)
Sync(t) ==
  /\ up /\ pc[t] = "sync"
  /\ SyncShard(Request(t).ws)
  /\ Respond(t, "ok")
  /\ UNCHANGED <<policy, log, made, loaded, pass, shutdown, restarts>>

MutSyncFails(t) ==
  /\ up /\ pc[t] = "sync"
  /\ Request(t).ws \in Failing
  /\ reply' = [reply EXCEPT ![job[t]] = @ \o <<"error", "ok">>]
  /\ pc' = [pc EXCEPT ![t] = "recv"]
  /\ job' = [job EXCEPT ![t] = None]
  /\ UNCHANGED <<policy, store, loaded, asked, count, pass, shutdown, restarts>>
SyncFails(t) ==
  /\ up /\ pc[t] = "sync"
  /\ Request(t).ws \in Failing
  /\ Respond(t, "error")
  /\ UNCHANGED <<policy, store, loaded, pass, shutdown, restarts>>

-----------------------------------------------------------------------------
(* The maintenance thread *)

(* maintenance_pass walks the loaded shards, with fsync_all under the timer *)
(* and with snapshot_all when one is due; to the log, both are a sync.      *)
(* Compaction and the budget are the pool's.                                *)
PassBegin ==
  /\ up /\ pass = {} /\ loaded # {}
  /\ pass' = loaded
  /\ UNCHANGED <<policy, store, loaded, clients, threads, shutdown, restarts>>

PassShard(w) ==
  /\ up /\ w \in pass
  /\ SyncShard(w)
  /\ pass' = pass \ {w}
  /\ UNCHANGED <<policy, log, made, loaded, clients, threads, shutdown, restarts>>

(* for_each_loaded: a shard that fails is logged and passed over. *)
MutPassShardFails(w) ==
  /\ up /\ w \in pass /\ w \in Failing
  /\ pass' = {}
  /\ UNCHANGED <<policy, store, loaded, clients, threads, shutdown, restarts>>
PassShardFails(w) ==
  /\ up /\ w \in pass /\ w \in Failing
  /\ pass' = pass \ {w}
  /\ UNCHANGED <<policy, store, loaded, clients, threads, shutdown, restarts>>

-----------------------------------------------------------------------------
(* Shutdown, crash and restart *)

(* The process is gone, and with it everything but the files. *)
Gone ==
  /\ up' = FALSE
  /\ main' = "proxy" /\ handler' = "idle"
  /\ loaded' = {}
  /\ pc' = [t \in Threads |-> "recv"]
  /\ job' = [t \in Threads |-> None]
  /\ pass' = {}

NoShutdown == claimed' = FALSE /\ left' = {} /\ late' = FALSE

(* SIGINT, SIGTERM or SIGHUP wakes the handler's thread if it is not at     *)
(* work, and interrupts the proxy if it is the main thread that takes it.   *)
Signal ==
  /\ up
  /\ handler' = IF handler = "idle" THEN "woken" ELSE handler
  /\ main' \in {main} \cup {step \in {"claim"} : main = "proxy"}
  /\ UNCHANGED <<policy, store, loaded, clients, threads, pass, claimed, left, late,
                 up, restarts>>

(* The handler claims the shutdown before anything else. *)
HandlerClaim ==
  /\ up /\ handler = "woken"
  /\ claimed' = TRUE
  /\ handler' = "snapshot"
  /\ left' = loaded
  /\ UNCHANGED <<policy, store, loaded, clients, threads, pass, main, late, up, restarts>>

(* snapshot_all: every shard is attempted. *)
HandlerShard(w) ==
  /\ up /\ handler = "snapshot" /\ w \in left
  /\ SyncShard(w) \/ (w \in Failing /\ UNCHANGED synced)
  /\ left' = left \ {w}
  /\ UNCHANGED <<policy, log, made, loaded, clients, threads, pass, main, handler,
                 claimed, late, up, restarts>>

HandlerExit ==
  /\ up /\ handler = "snapshot" /\ left = {}
  /\ Gone
  /\ UNCHANGED <<policy, store, clients, claimed, left, late, restarts>>

(* await_shutdown sees the claim ... *)
MainClaimed ==
  /\ up /\ main = "claim" /\ claimed
  /\ main' = "wait"
  /\ UNCHANGED <<policy, store, loaded, clients, threads, pass, handler, claimed, left,
                 late, up, restarts>>

(* ... or does not, in time; or waits for the handler's exit in vain.  Then *)
(* main returns, which ends the process.                                    *)
MutMainTimeout ==
  /\ up /\ main \in {"claim", "wait"}
  /\ Gone
  /\ UNCHANGED <<policy, store, clients, claimed, left, late, restarts>>
MainTimeout ==
  /\ up
  /\ (main = "claim" /\ ~ claimed) \/ main = "wait"
  /\ late' = TRUE
  /\ Gone
  /\ UNCHANGED <<policy, store, clients, claimed, left, restarts>>

(* The process is killed: what it had written stays in the files. *)
Kill ==
  /\ up
  /\ Gone
  /\ NoShutdown
  /\ UNCHANGED <<policy, store, clients, restarts>>

(* The machine stops: any write that is not on the device may be gone. *)
PowerLoss ==
  /\ \E kept \in [Workspaces -> 0 .. MaxRequests] :
       /\ \A w \in Workspaces : synced[w] <= kept[w] /\ kept[w] <= Len(log[w])
       /\ log' = [w \in Workspaces |-> SubSeq(log[w], 1, kept[w])]
       /\ synced' = kept
  /\ Gone
  /\ NoShutdown
  /\ UNCHANGED <<policy, made, clients, restarts>>

Restart ==
  /\ ~ up /\ restarts < MaxRestarts
  /\ up' = TRUE
  /\ restarts' = restarts + 1
  /\ NoShutdown
  /\ UNCHANGED <<policy, store, loaded, clients, threads, pass, main, handler>>

-----------------------------------------------------------------------------
Step(t) ==
  \/ Refuse(t) \/ EmbedFails(t) \/ OpenShard(t) \/ FindShard(t) \/ Read(t)
  \/ DeleteNothing(t) \/ Write(t) \/ WriteFails(t)
  \/ Sync(t) \/ SyncFails(t)

Maintain ==
  \/ PassBegin
  \/ \E w \in Workspaces : PassShard(w) \/ PassShardFails(w)

Handle ==
  \/ HandlerClaim \/ HandlerExit
  \/ \E w \in Workspaces : HandlerShard(w)

Next ==
  \/ \E t \in Threads, q \in Requests : Receive(t, q)
  \/ \E t \in Threads : Step(t)
  \/ Maintain
  \/ Signal \/ Handle \/ MainClaimed \/ MainTimeout
  \/ Kill \/ PowerLoss \/ Restart

Spec == Init /\ [][Next]_vars

(* Threads that have something to do go on with it.  No request, signal,   *)
(* timeout, failure or restart need happen.                                *)
FairSpec ==
  /\ Spec
  /\ \A t \in Threads : WF_vars(Step(t))
  /\ WF_vars(Maintain)
  /\ WF_vars(Handle)

-----------------------------------------------------------------------------
(* Properties *)

Written(r) == asked[r].kind \in {"insert", "delete"}
Acknowledged(r) == Written(r) /\ \E i \in DOMAIN reply[r] : reply[r][i] = "ok"
Logged(r) == Written(r) /\ \E i \in DOMAIN log[asked[r].ws] : log[asked[r].ws][i] = r
OnDevice(r) ==
  Written(r) /\ \E i \in 1 .. synced[asked[r].ws] : log[asked[r].ws][i] = r

(* Every variable keeps its type, a workspace has a directory before it has *)
(* a log or a shard, and only an insertion has made one (get, get_existing). *)
TypeOK ==
  /\ policy \in Policies
  /\ log \in [Workspaces -> Seq(Ids)]
  /\ \A w \in Workspaces : synced[w] \in 0 .. Len(log[w])
  /\ count \in 0 .. MaxRequests
  /\ made \subseteq {asked[r].ws : r \in {x \in Ids : asked[x].kind = "insert"}}
  /\ \A w \in Workspaces : log[w] # <<>> \/ w \in loaded => w \in made
  /\ \A t \in Threads : pc[t] # "recv" => job[t] \in 1 .. count
  /\ up \in BOOLEAN /\ pass \subseteq Workspaces /\ left \subseteq Workspaces

(* With fsync on every request, a client that is told its document is       *)
(* stored or deleted finds it so after a power loss at any later moment,    *)
(* whatever other requests, passes, kills and restarts came between         *)
(* (process_document_insertion_request, process_document_deletion_request). *)
AckedDurable ==
  policy = "request" => \A r \in Ids : Acknowledged(r) => OnDevice(r)

(* A request has one outcome: nobody is sent an error and then a success,   *)
(* and a request is answered only when its handler is through with it (the  *)
(* returns after send_exception_response).                                  *)
OneOutcome ==
  /\ \A r \in Ids : Len(reply[r]) <= 1
  /\ \A t \in Threads : job[t] # None => reply[job[t]] = <<>>

(* A signal does not end the process in the middle of the final snapshots:  *)
(* every shard loaded at the claim has been attempted, unless one of the    *)
(* two timeouts ran out or the process was killed (await_shutdown).         *)
NoEarlyExit ==
  ~ up /\ claimed /\ ~ late => left = {}

(* With the timer, an acknowledged write that a loaded shard has reaches    *)
(* the device if the process goes on, also when the pass keeps failing on   *)
(* some other shard (maintenance_pass, for_each_loaded).                    *)
AckedSynced ==
  \A r \in Ids :
    Acknowledged(r) /\ asked[r].ws \in loaded \ Failing /\ Logged(r)
      ~> OnDevice(r) \/ ~ up

(* A request that a thread takes is answered, if the process goes on        *)
(* (worker_routine).                                                        *)
RequestsAnswered ==
  \A r \in Ids :
    (\E t \in Threads : job[t] = r) ~> reply[r] # <<>> \/ ~ up

=============================================================================
