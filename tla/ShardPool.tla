------------------------------ MODULE ShardPool ------------------------------
(***************************************************************************)
(* The pool of open shards (embedding-store: pool.rs): which workspace has *)
(* a Shard, who may open one, and what is demoted when the indexes exceed  *)
(* the memory budget.                                                      *)
(*                                                                         *)
(* Threads run requests, the maintenance pass and the explicit evict and   *)
(* close calls.  Everything done under one hold of the pool lock is one    *)
(* action; opening, snapshotting and demoting a shard happen without it    *)
(* and are actions of their own.  An Arc is membership in arcs[t], and an  *)
(* Arc's strong count is the number of such memberships plus the map's.    *)
(*                                                                         *)
(* A Shard is known by its instance, and an instance by the directory it   *)
(* has open; ids of dropped shards and gates are handed out again, lowest  *)
(* first.  The last_used clock is kept as an order, lru, oldest first.  A  *)
(* resident shard costs one unit of budget, a mapped ("viewed") one none.  *)
(***************************************************************************)
EXTENDS Integers, Sequences, FiniteSets

CONSTANTS Threads, Workspaces,
          Insts,        \* ids for Shard values
          Gates,        \* ids for the per-workspace open mutexes
          Budget,       \* budget_bytes, in resident shards
          Calls         \* which of the pool's operations the callers use

None == 0

ASSUME PoolAssumption ==
  /\ Insts \subseteq Nat \ {0} /\ Gates \subseteq Nat \ {0}
  /\ None \notin Threads /\ None \notin Workspaces
  /\ IsFiniteSet(Threads) /\ IsFiniteSet(Workspaces)
  /\ Budget \in Nat
  /\ Calls \subseteq {"get", "read", "pass", "evict", "close", "walk", "stats"}

VARIABLES
  shards,   \* Inner.shards: workspace -> instance
  bytes,    \* Entry.bytes, 0 where there is no entry
  lru,      \* the workspaces in shards by last_used
  opening,  \* Inner.opening: workspace -> gate
  holder,   \* gate -> the thread that has it locked
  dir,      \* instance -> the workspace directory it has open
  viewed,   \* instance -> its graphs are mapped, not resident
  made,     \* the workspaces with a directory
  pc, ws, task,
  gate,     \* thread -> its Arc of a gate
  arcs,     \* thread -> the instances it has an Arc of
  target,   \* thread -> the instance it is demoting or closing
  skip      \* thread -> enforce_budget's skip

pool == <<shards, bytes, lru, opening>>
disk == <<dir, viewed, made>>
vars == <<shards, bytes, lru, opening, holder, dir, viewed, made, pc, ws, task,
          gate, arcs, target, skip>>

Init ==
  /\ shards = [w \in Workspaces |-> None]
  /\ bytes = [w \in Workspaces |-> 0]
  /\ lru = <<>>
  /\ opening = [w \in Workspaces |-> None]
  /\ holder = [g \in Gates |-> None]
  /\ dir = [i \in Insts |-> None]
  /\ viewed = [i \in Insts |-> FALSE]
  /\ made \in SUBSET Workspaces
  /\ pc = [t \in Threads |-> "idle"]
  /\ ws = [t \in Threads |-> None]
  /\ task = [t \in Threads |-> "none"]
  /\ gate = [t \in Threads |-> None]
  /\ arcs = [t \in Threads |-> {}]
  /\ target = [t \in Threads |-> None]
  /\ skip = [t \in Threads |-> {}]

-----------------------------------------------------------------------------
(* Helpers *)

Loaded(w) == shards[w] # None
Mapped(i) == \E w \in Workspaces : shards[w] = i
Holders(i) == {t \in Threads : i \in arcs[t]}
StrongCount(i) == Cardinality(Holders(i)) + (IF Mapped(i) THEN 1 ELSE 0)

(* The order without w, which has one place in it or none. *)
Dropped(w) ==
  IF \E k \in DOMAIN lru : lru[k] = w
  THEN LET k == CHOOSE k \in DOMAIN lru : lru[k] = w
       IN  SubSeq(lru, 1, k - 1) \o SubSeq(lru, k + 1, Len(lru))
  ELSE lru
(* Inner::touch, as far as recency goes. *)
MutTouched(w) == Append(lru, w)
Touched(w) == Append(Dropped(w), w)

Least(S, i) == i \in S /\ \A j \in S : i <= j
FreeInst(i) == Least({j \in Insts : dir[j] = None}, i)
FreeGate(g) ==
  Least({h \in Gates : /\ \A w \in Workspaces : opening[w] # h
                       /\ \A t \in Threads : gate[t] # h}, g)

Goto(t, step) == pc' = [pc EXCEPT ![t] = step]

(* The thread's request is over: its locals are dropped. *)
Return(t) ==
  /\ Goto(t, "idle")
  /\ ws' = [ws EXCEPT ![t] = None]
  /\ task' = [task EXCEPT ![t] = "none"]
  /\ gate' = [gate EXCEPT ![t] = None]
  /\ arcs' = [arcs EXCEPT ![t] = {}]
  /\ target' = [target EXCEPT ![t] = None]
  /\ skip' = [skip EXCEPT ![t] = {}]

-----------------------------------------------------------------------------
(* get and get_existing *)

(* peek finds the shard loaded. *)
GetHit(t, w) ==
  /\ pc[t] = "idle"
  /\ Loaded(w)
  /\ lru' = Touched(w)
  /\ arcs' = [arcs EXCEPT ![t] = {shards[w]}]
  /\ task' = [task EXCEPT ![t] = "get"]
  /\ ws' = [ws EXCEPT ![t] = w]
  /\ Goto(t, "use")
  /\ UNCHANGED <<shards, bytes, opening, holder, disk, gate, target, skip>>

(* peek misses.  A read goes on only when the directory is there, and asks *)
(* for mapped graphs.                                                      *)
GetMiss(t, w, kind) ==
  /\ pc[t] = "idle"
  /\ ~ Loaded(w)
  /\ kind = "read" => w \in made
  /\ task' = [task EXCEPT ![t] = kind]
  /\ ws' = [ws EXCEPT ![t] = w]
  /\ Goto(t, "slow")
  /\ UNCHANGED <<pool, holder, disk, gate, arcs, target, skip>>

(* get_with's slow path, under the pool lock: look again, or take the      *)
(* workspace's gate, creating it when there is none.                       *)
SlowHit(t) ==
  /\ pc[t] = "slow"
  /\ Loaded(ws[t])
  /\ lru' = Touched(ws[t])
  /\ arcs' = [arcs EXCEPT ![t] = {shards[ws[t]]}]
  /\ Goto(t, "use")
  /\ UNCHANGED <<shards, bytes, opening, holder, disk, ws, task, gate, target, skip>>

TakeGate(t) ==
  /\ pc[t] = "slow"
  /\ ~ Loaded(ws[t])
  /\ \E g \in Gates :
       /\ IF opening[ws[t]] = None THEN FreeGate(g) ELSE g = opening[ws[t]]
       /\ opening' = [opening EXCEPT ![ws[t]] = g]
       /\ gate' = [gate EXCEPT ![t] = g]
  /\ Goto(t, "gate")
  /\ UNCHANGED <<shards, bytes, lru, holder, disk, ws, task, arcs, target, skip>>

LockGate(t) ==
  /\ pc[t] = "gate"
  /\ holder[gate[t]] = None
  /\ holder' = [holder EXCEPT ![gate[t]] = t]
  /\ Goto(t, "opener")
  /\ UNCHANGED <<pool, disk, ws, task, gate, arcs, target, skip>>

(* open_and_insert: whoever held the gate before may have done the work ... *)
OpenerHit(t) ==
  /\ pc[t] = "opener"
  /\ Loaded(ws[t])
  /\ lru' = Touched(ws[t])
  /\ arcs' = [arcs EXCEPT ![t] = {shards[ws[t]]}]
  /\ Goto(t, "release")
  /\ UNCHANGED <<shards, bytes, opening, holder, disk, ws, task, gate, target, skip>>

(* ... or Shard::open_with starts, ... *)
MutOpenShard(t) ==
  /\ pc[t] = "opener"
  /\ \E i \in Insts :
       /\ FreeInst(i)
       /\ dir' = [dir EXCEPT ![i] = ws[t]]
       /\ arcs' = [arcs EXCEPT ![t] = {i}]
  /\ made' = made \cup {ws[t]}
  /\ Goto(t, "opening")
  /\ UNCHANGED <<pool, holder, viewed, ws, task, gate, target, skip>>
OpenShard(t) ==
  /\ pc[t] = "opener"
  /\ ~ Loaded(ws[t])
  /\ \E i \in Insts :
       /\ FreeInst(i)
       /\ dir' = [dir EXCEPT ![i] = ws[t]]
       /\ arcs' = [arcs EXCEPT ![t] = {i}]
  /\ made' = made \cup {ws[t]}
  /\ Goto(t, "opening")
  /\ UNCHANGED <<pool, holder, viewed, ws, task, gate, target, skip>>

(* ... succeeds and is published, with its graphs mapped only if that was   *)
(* asked for and there were usable files, ...                               *)
OpenDone(t) ==
  /\ pc[t] = "opening"
  /\ \E i \in arcs[t], v \in {FALSE, task[t] = "read"} :
       /\ shards' = [shards EXCEPT ![ws[t]] = i]
       /\ viewed' = [viewed EXCEPT ![i] = v]
       /\ bytes' = [bytes EXCEPT ![ws[t]] = IF v THEN 0 ELSE 1]
  /\ lru' = Touched(ws[t])
  /\ Goto(t, "release")
  /\ UNCHANGED <<opening, holder, dir, made, ws, task, gate, arcs, target, skip>>

(* ... or fails. *)
MutOpenFail(t) ==
  /\ pc[t] = "opening"
  /\ dir' = [i \in Insts |-> IF i \in arcs[t] THEN None ELSE dir[i]]
  /\ arcs' = [arcs EXCEPT ![t] = {}]
  /\ Goto(t, "opener")
  /\ UNCHANGED <<pool, holder, viewed, made, ws, task, gate, target, skip>>
OpenFail(t) ==
  /\ pc[t] = "opening"
  /\ dir' = [i \in Insts |-> IF i \in arcs[t] THEN None ELSE dir[i]]
  /\ arcs' = [arcs EXCEPT ![t] = {}]
  /\ Goto(t, "release")
  /\ UNCHANGED <<pool, holder, viewed, made, ws, task, gate, target, skip>>

(* drop(opening). *)
UnlockGate(t) ==
  /\ pc[t] = "release"
  /\ holder' = [holder EXCEPT ![gate[t]] = None]
  /\ Goto(t, "retire")
  /\ UNCHANGED <<pool, disk, ws, task, gate, arcs, target, skip>>

(* retire_gates keeps the gates with a second Arc.  The caller's own local *)
(* still counts: it lives until get_with returns.                          *)
MutRetired == [w \in Workspaces |-> None]
Retired ==
  [w \in Workspaces |->
     IF \E t \in Threads : gate[t] = opening[w] THEN opening[w] ELSE None]

RetireGates(t) ==
  /\ pc[t] = "retire"
  /\ opening' = Retired
  /\ IF arcs[t] = {}
     THEN Return(t)
     ELSE Goto(t, "budget") /\ UNCHANGED <<ws, task, gate, arcs, target, skip>>
  /\ UNCHANGED <<shards, bytes, lru, holder, disk>>

(* A write through a held shard promotes it; so does compaction. *)
Promote(i) ==
  /\ viewed[i]
  /\ viewed' = [viewed EXCEPT ![i] = FALSE]

Write(t) ==
  /\ pc[t] = "use"
  /\ \E i \in arcs[t] : Promote(i)
  /\ UNCHANGED <<pool, holder, dir, made, pc, ws, task, gate, arcs, target, skip>>

(* The request is served and its Arc dropped. *)
DropShard(t) ==
  /\ pc[t] = "use"
  /\ Return(t)
  /\ UNCHANGED <<pool, holder, disk>>

-----------------------------------------------------------------------------
(* enforce_budget, demote, evict *)

(* Another thread may be inside the shard, so that try_stats gives up. *)
Busy(i, t) == \E u \in Holders(i) \ {t} : pc[u] \in {"use", "demote", "closing", "walk"}

Residency(w) == IF Loaded(w) /\ ~ viewed[shards[w]] THEN 1 ELSE 0

(* refresh_bytes: a shard that is busy may keep its old figure. *)
Refreshed(stale) ==
  [w \in Workspaces |-> IF w \in stale THEN bytes[w] ELSE Residency(w)]
MayBeStale(t) == {w \in Workspaces : Loaded(w) /\ Busy(shards[w], t)}

TotalBytes(b) == Cardinality({w \in Workspaces : b[w] = 1})

(* The shards the budget loop may pick, and the one it does pick. *)
Candidates(t) ==
  {w \in Workspaces : Loaded(w) /\ w \notin skip[t] /\ StrongCount(shards[w]) = 1}

Older(v, w) == \E j, k \in DOMAIN lru : j <= k /\ lru[j] = v /\ lru[k] = w

Victim(t, w) == w \in Candidates(t) /\ \A v \in Candidates(t) : Older(w, v)

(* enforce_budget returns; get_with goes on to return the shard. *)
LeaveBudget(t) ==
  IF task[t] = "pass" THEN Return(t)
  ELSE /\ Goto(t, "use")
       /\ gate' = [gate EXCEPT ![t] = None]
       /\ arcs' = [arcs EXCEPT ![t] = @ \ {target[t]}]
       /\ target' = [target EXCEPT ![t] = None]
       /\ skip' = [skip EXCEPT ![t] = {}]
       /\ UNCHANGED <<ws, task>>

(* The maintenance pass calls enforce_budget on its own. *)
BudgetPass(t) ==
  /\ pc[t] = "idle"
  /\ task' = [task EXCEPT ![t] = "pass"]
  /\ Goto(t, "budget")
  /\ UNCHANGED <<pool, holder, disk, ws, gate, arcs, target, skip>>

BudgetDone(t) ==
  /\ pc[t] = "budget"
  /\ \E stale \in SUBSET MayBeStale(t) :
       /\ bytes' = Refreshed(stale)
       /\ TotalBytes(bytes') <= Budget \/ Candidates(t) = {}
  /\ LeaveBudget(t)
  /\ UNCHANGED <<shards, lru, opening, holder, disk>>

BudgetPick(t) ==
  /\ pc[t] = "budget"
  /\ \E stale \in SUBSET MayBeStale(t) :
       /\ bytes' = Refreshed(stale)
       /\ TotalBytes(bytes') > Budget
  /\ \E w \in Workspaces :
       /\ Victim(t, w)
       /\ target' = [target EXCEPT ![t] = shards[w]]
       /\ arcs' = [arcs EXCEPT ![t] = @ \cup {shards[w]}]
  /\ Goto(t, "demote")
  /\ UNCHANGED <<shards, lru, opening, holder, disk, ws, task, gate, skip>>

(* evict: claim_for_eviction, then demote. *)
Evict(t, w) ==
  /\ pc[t] = "idle"
  /\ Loaded(w) /\ StrongCount(shards[w]) = 1
  /\ target' = [target EXCEPT ![t] = shards[w]]
  /\ arcs' = [arcs EXCEPT ![t] = {shards[w]}]
  /\ task' = [task EXCEPT ![t] = "evict"]
  /\ Goto(t, "demote")
  /\ UNCHANGED <<pool, holder, disk, ws, gate, skip>>

(* demote is over; a false tells the budget loop to skip the workspace. *)
MutSkipped(t) == skip[t]
Skipped(t) == skip[t] \cup {dir[target[t]]}

AfterDemote(t, newSkip) ==
  IF task[t] = "evict" THEN Return(t)
  ELSE /\ Goto(t, "budget")
       /\ skip' = [skip EXCEPT ![t] = newSkip]
       /\ arcs' = [arcs EXCEPT ![t] = @ \ {target[t]}]
       /\ target' = [target EXCEPT ![t] = None]
       /\ UNCHANGED <<ws, task, gate>>

(* demote finds the shard viewed already. *)
DemoteNothing(t) ==
  /\ pc[t] = "demote"
  /\ viewed[target[t]]
  /\ AfterDemote(t, Skipped(t))
  /\ UNCHANGED <<pool, holder, disk>>

(* Shard::demote succeeds ... *)
DemoteShard(t) ==
  /\ pc[t] = "demote"
  /\ ~ viewed[target[t]]
  /\ viewed' = [viewed EXCEPT ![target[t]] = TRUE]
  /\ Goto(t, "demoted")
  /\ UNCHANGED <<pool, holder, dir, made, ws, task, gate, arcs, target, skip>>

(* ... and the budget's figure is refreshed, unless the shard is busy. *)
DemoteMeasure(t) ==
  LET w == dir[target[t]]
  IN  /\ pc[t] = "demoted"
      /\ \E b \in {Residency(w)} \cup (IF Busy(target[t], t) THEN {bytes[w]} ELSE {}) :
           bytes' = [bytes EXCEPT ![w] = b]
      /\ AfterDemote(t, skip[t])
      /\ UNCHANGED <<shards, lru, opening, holder, disk>>

(* Shard::demote fails: enforce_budget gives up, get_with only warns. *)
DemoteFail(t) ==
  /\ pc[t] = "demote"
  /\ ~ viewed[target[t]]
  /\ IF task[t] = "evict" THEN Return(t) ELSE LeaveBudget(t)
  /\ UNCHANGED <<pool, holder, disk>>

-----------------------------------------------------------------------------
(* close, and the walks over every loaded shard *)

CloseClaim(t, w) ==
  /\ pc[t] = "idle"
  /\ Loaded(w) /\ StrongCount(shards[w]) = 1
  /\ target' = [target EXCEPT ![t] = shards[w]]
  /\ arcs' = [arcs EXCEPT ![t] = {shards[w]}]
  /\ task' = [task EXCEPT ![t] = "close"]
  /\ ws' = [ws EXCEPT ![t] = w]
  /\ Goto(t, "closing")
  /\ UNCHANGED <<pool, holder, disk, gate, skip>>

(* The snapshot failed, or a caller took the shard meanwhile. *)
CloseRefused(t) ==
  /\ pc[t] = "closing"
  /\ Return(t)
  /\ UNCHANGED <<pool, holder, disk>>

(* The entry goes; the claimed Arc is a local that outlives the pool lock. *)
MutCloseRemove(t) ==
  /\ pc[t] = "closing"
  /\ shards' = [shards EXCEPT ![ws[t]] = None]
  /\ bytes' = [bytes EXCEPT ![ws[t]] = 0]
  /\ lru' = Dropped(ws[t])
  /\ Goto(t, "closed")
  /\ UNCHANGED <<opening, holder, disk, ws, task, gate, arcs, target, skip>>
CloseRemove(t) ==
  /\ pc[t] = "closing"
  /\ Loaded(ws[t]) /\ StrongCount(shards[ws[t]]) <= 2
  /\ shards' = [shards EXCEPT ![ws[t]] = None]
  /\ bytes' = [bytes EXCEPT ![ws[t]] = 0]
  /\ lru' = Dropped(ws[t])
  /\ Goto(t, "closed")
  /\ UNCHANGED <<opening, holder, disk, ws, task, gate, arcs, target, skip>>

(* The last Arc is dropped, and the Shard with it. *)
CloseDrop(t) ==
  /\ pc[t] = "closed"
  /\ dir' = [dir EXCEPT ![target[t]] = None]
  /\ viewed' = [viewed EXCEPT ![target[t]] = FALSE]
  /\ Return(t)
  /\ UNCHANGED <<pool, holder, made>>

(* loaded(): fsync_all, snapshot_all and compact_if_needed pin every shard *)
(* and work through them one by one.                                       *)
WalkAll(t) ==
  /\ pc[t] = "idle"
  /\ \E w \in Workspaces : Loaded(w)
  /\ arcs' = [arcs EXCEPT ![t] = {shards[w] : w \in {x \in Workspaces : Loaded(x)}}]
  /\ task' = [task EXCEPT ![t] = "walk"]
  /\ Goto(t, "walk")
  /\ UNCHANGED <<pool, holder, disk, ws, gate, target, skip>>

WalkOne(t) ==
  /\ pc[t] = "walk"
  /\ \E i \in arcs[t] :
       /\ \/ Promote(i)
          \/ UNCHANGED viewed
       /\ arcs' = [arcs EXCEPT ![t] = @ \ {i}]
  /\ UNCHANGED <<pool, holder, dir, made, pc, ws, task, gate, target, skip>>

WalkDone(t) ==
  /\ pc[t] = "walk"
  /\ arcs[t] = {}
  /\ Return(t)
  /\ UNCHANGED <<pool, holder, disk>>

(* stats re-measures on its way. *)
Stats(t) ==
  /\ pc[t] = "idle"
  /\ \E stale \in SUBSET MayBeStale(t) : bytes' = Refreshed(stale)
  /\ UNCHANGED <<shards, lru, opening, holder, disk, pc, ws, task, gate, arcs,
                 target, skip>>

-----------------------------------------------------------------------------
(* A call arrives on an idle thread. *)
Call(t) ==
  \/ \E w \in Workspaces : GetHit(t, w)
  \/ \E w \in Workspaces, kind \in {"get", "read"} \cap Calls : GetMiss(t, w, kind)
  \/ "pass" \in Calls /\ BudgetPass(t)
  \/ "evict" \in Calls /\ \E w \in Workspaces : Evict(t, w)
  \/ "close" \in Calls /\ \E w \in Workspaces : CloseClaim(t, w)
  \/ "walk" \in Calls /\ WalkAll(t)
  \/ "stats" \in Calls /\ Stats(t)

(* A thread goes on with its call. *)
Step(t) ==
  \/ SlowHit(t) \/ TakeGate(t)
  \/ OpenerHit(t) \/ OpenShard(t) \/ OpenDone(t) \/ OpenFail(t)
  \/ UnlockGate(t) \/ RetireGates(t)
  \/ DropShard(t)
  \/ BudgetDone(t) \/ BudgetPick(t)
  \/ DemoteNothing(t) \/ DemoteShard(t) \/ DemoteMeasure(t) \/ DemoteFail(t)
  \/ CloseRefused(t) \/ CloseRemove(t) \/ CloseDrop(t)
  \/ WalkOne(t) \/ WalkDone(t)

Next == \E t \in Threads : Call(t) \/ LockGate(t) \/ Write(t) \/ Step(t)

Spec == Init /\ [][Next]_vars

(* A thread in the middle of a call keeps running, and a mutex that keeps  *)
(* coming free is granted to every waiter in the end.  No call need arrive *)
(* and no held shard need be written to.                                   *)
FairSpec ==
  Spec /\ \A t \in Threads : WF_vars(Step(t)) /\ SF_vars(LockGate(t))

-----------------------------------------------------------------------------
(* Properties *)

Positions ==
  {"idle", "slow", "gate", "opener", "opening", "release", "retire", "budget",
   "use", "demote", "demoted", "closing", "closed", "walk"}

(* Every variable keeps its type; lru holds the loaded workspaces, once    *)
(* each, and only they have a figure (Inner, Entry).                       *)
TypeOK ==
  /\ shards \in [Workspaces -> Insts \cup {None}]
  /\ bytes \in [Workspaces -> {0, 1}]
  /\ {lru[k] : k \in DOMAIN lru} = {w \in Workspaces : Loaded(w)}
  /\ Len(lru) = Cardinality({w \in Workspaces : Loaded(w)})
  /\ \A w \in Workspaces : Loaded(w) \/ bytes[w] = 0
  /\ opening \in [Workspaces -> Gates \cup {None}]
  /\ holder \in [Gates -> Threads \cup {None}]
  /\ dir \in [Insts -> Workspaces \cup {None}]
  /\ viewed \in [Insts -> BOOLEAN]
  /\ made \subseteq Workspaces
  /\ pc \in [Threads -> Positions]
  /\ ws \in [Threads -> Workspaces \cup {None}]
  /\ task \in [Threads -> {"none", "get", "read", "pass", "evict", "close", "walk"}]
  /\ gate \in [Threads -> Gates \cup {None}]
  /\ arcs \in [Threads -> SUBSET Insts]
  /\ target \in [Threads -> Insts \cup {None}]
  /\ skip \in [Threads -> SUBSET Workspaces]

(* A thread with an Arc of a gate has the one its workspace is registered  *)
(* under, no two workspaces share one, and from "opener" to "release" the  *)
(* thread is the one that has it locked (get_with, retire_gates).          *)
GateExclusive ==
  /\ \A t \in Threads :
       gate[t] # None => ws[t] \in Workspaces /\ opening[ws[t]] = gate[t]
  /\ \A v, w \in Workspaces : opening[v] = opening[w] => v = w \/ opening[v] = None
  /\ \A t \in Threads :
       pc[t] \in {"gate", "opener", "opening", "release", "retire"} => gate[t] # None
  /\ \A t \in Threads :
       pc[t] \in {"opener", "opening", "release"} => holder[gate[t]] = t
  /\ \A t \in Threads :
       pc[t] \in {"idle", "slow", "use", "closing", "closed", "walk"} => gate[t] = None

(* Instance i of workspace w can still be written to: the map has it, or a *)
(* thread that has not closed it.                                          *)
Usable(i, w) ==
  /\ dir[i] = w
  /\ Mapped(i) \/ \E t \in Holders(i) : pc[t] # "closed"

(* Two shards on one log would each own the active segment: no workspace   *)
(* ever has two Shards that can be written to, whatever opens, closes,     *)
(* evictions and failures interleave (get_with, open_and_insert, close).   *)
OneUsableShard ==
  \A i, j \in Insts, w \in Workspaces : Usable(i, w) /\ Usable(j, w) => i = j

(* A shard a request holds is the one the map has for its directory, so    *)
(* that a write through it is never lost to a shard opened later (peek,    *)
(* demote, close).                                                         *)
HeldIsMapped ==
  \A t \in Threads : \A i \in arcs[t] :
    pc[t] \notin {"opening", "closed"} => dir[i] # None /\ shards[dir[i]] = i

(* A shard being opened is reached by nobody else, and its workspace has no*)
(* other; a shard taken out of the map has its closer's Arc and no other.  *)
OpeningApart ==
  \A t \in Threads : pc[t] = "opening" =>
    /\ ~ Loaded(ws[t])
    /\ \A i \in arcs[t] : dir[i] = ws[t] /\ arcs[t] = {i}

ClosingApart ==
  \A t \in Threads : pc[t] \in {"closing", "closed"} =>
    /\ ws[t] \in Workspaces
    /\ arcs[t] = {target[t]}
    /\ dir[target[t]] = ws[t]
    /\ pc[t] = "closed" =>
         /\ ~ Mapped(target[t])
         /\ \A u \in Threads \ {t} : target[t] \notin arcs[u]

(* What every step of the pool keeps, and OneUsableShard rests on: the     *)
(* gates admit one opener per workspace, and the map, the held Arcs, the   *)
(* opens and the closes in flight agree about which shard is which         *)
(* (get_with, open_and_insert, retire_gates, close).                       *)
PoolSafe ==
  /\ GateExclusive
  /\ \A t \in Threads : pc[t] = "slow" => ws[t] \in Workspaces
  /\ \A w \in Workspaces : Loaded(w) => dir[shards[w]] = w
  /\ HeldIsMapped
  /\ OpeningApart
  /\ ClosingApart

(* Nobody waits for a gate for ever: a call that misses gets its shard or  *)
(* its error, whatever the other threads go on doing (get_with).           *)
OpensServed ==
  \A t \in Threads :
    pc[t] \in {"slow", "gate", "opener", "opening", "release", "retire"}
      ~> pc[t] \in {"idle", "use", "budget"}

(* A shard is opened resident or promoted. *)
BecomesResident == \E w \in Workspaces : Residency(w) = 0 /\ Residency(w)' = 1

(* Every call returns, unless shards keep becoming resident without end    *)
(* (enforce_budget): what the loop cannot demote it skips.                 *)
CallsReturn ==
  \/ []<><<BecomesResident>>_vars
  \/ \A t \in Threads : pc[t] # "idle" ~> pc[t] = "idle"

=============================================================================
