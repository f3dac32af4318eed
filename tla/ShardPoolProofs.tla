--------------------------- MODULE ShardPoolProofs ---------------------------
(***************************************************************************)
(* No workspace ever has two Shards that can be written to, for any number *)
(* of threads and workspaces.                                              *)
(*                                                                         *)
(* PoolInv is inductive: the types of the variables the argument reads,    *)
(* and PoolSafe.  The recency order, the byte figures, the residency and   *)
(* the task take no part in it.  Most actions leave the map, the gates and *)
(* the directories alone and only move one thread; Quiet and its variants  *)
(* deal with those once.  The opens, the gates and close get a lemma each. *)
(* The last part adds what PoolInv leaves out, for TypeOK.                 *)
(***************************************************************************)
EXTENDS ShardPool, FiniteSetTheorems, SequenceTheorems, TLAPS

PoolTypes ==
  /\ shards \in [Workspaces -> Insts \cup {None}]
  /\ opening \in [Workspaces -> Gates \cup {None}]
  /\ holder \in [Gates -> Threads \cup {None}]
  /\ dir \in [Insts -> Workspaces \cup {None}]
  /\ pc \in [Threads -> Positions]
  /\ ws \in [Threads -> Workspaces \cup {None}]
  /\ gate \in [Threads -> Gates \cup {None}]
  /\ arcs \in [Threads -> SUBSET Insts]
  /\ target \in [Threads -> Insts \cup {None}]

PoolInv == PoolTypes /\ PoolSafe

-----------------------------------------------------------------------------
(* Steps that only move one thread *)

(* One thread moves outside the opens and the closes, giving up Arcs or     *)
(* taking ones from the map.                                                *)
LEMMA QuietSafe ==
  ASSUME PoolInv, NEW t \in Threads, PoolTypes',
         UNCHANGED <<shards, opening, holder, dir>>,
         \A u \in Threads \ {t} :
           /\ pc'[u] = pc[u] /\ ws'[u] = ws[u] /\ gate'[u] = gate[u]
           /\ arcs'[u] = arcs[u] /\ target'[u] = target[u],
         pc'[t] \in {"idle", "budget", "use", "demote", "demoted", "walk"},
         gate'[t] # None =>
           /\ pc'[t] \in {"budget", "demote", "demoted"}
           /\ gate'[t] = gate[t] /\ ws'[t] = ws[t],
         \A i \in arcs'[t] : dir[i] # None /\ shards[dir[i]] = i
  PROVE  PoolInv'
<1>1. GateExclusive'
  BY DEF PoolInv, PoolSafe, GateExclusive
<1>2. HeldIsMapped'
  BY DEF PoolInv, PoolSafe, HeldIsMapped
<1>3. OpeningApart'
  BY DEF PoolInv, PoolSafe, OpeningApart, Loaded
<1>4. ClosingApart'
  <2>1. \A i \in arcs'[t] : Mapped(i)
    BY DEF PoolTypes, Mapped
  <2>2. \A u \in Threads : pc'[u] = "closed" => target'[u] \notin arcs'[t]
    BY <2>1 DEF PoolInv, PoolSafe, ClosingApart
  <2> QED
    BY <2>2 DEF PoolInv, PoolSafe, ClosingApart, Mapped
<1>5. (\A w \in Workspaces : Loaded(w) => dir[shards[w]] = w)'
  BY DEF PoolInv, PoolSafe, Loaded
<1>6. (\A u \in Threads : pc[u] = "slow" => ws[u] \in Workspaces)'
  BY DEF PoolInv, PoolSafe
<1> QED
  BY <1>1, <1>2, <1>3, <1>4, <1>5, <1>6 DEF PoolInv, PoolSafe

(* A thread lets go of everything it has. *)
LEMMA ReturnSafe ==
  ASSUME PoolInv, NEW t \in Threads, Return(t),
         UNCHANGED <<shards, opening, holder, dir>>
  PROVE  PoolInv'
  BY PoolAssumption DEF PoolInv, PoolTypes, PoolSafe, GateExclusive,
      HeldIsMapped, OpeningApart, ClosingApart, Loaded, Mapped, Positions,
      None, Goto, Return

(* enforce_budget gives the caller back its shard. *)
LEMMA LeaveBudgetSafe ==
  ASSUME PoolInv, NEW t \in Threads, LeaveBudget(t),
         pc[t] \in {"budget", "demote"},
         UNCHANGED <<shards, opening, holder, dir>>
  PROVE  PoolInv'
<1>1. CASE task[t] = "pass"
  BY <1>1, ReturnSafe DEF LeaveBudget
<1>2. CASE task[t] # "pass"
  <2>1. PoolTypes'
    BY <1>2 DEF PoolInv, PoolTypes, LeaveBudget, Goto, Positions
  <2>2. \A i \in arcs'[t] : i \in arcs[t]
    BY <1>2 DEF PoolInv, PoolTypes, LeaveBudget
  <2>3. \A i \in arcs[t] : dir[i] # None /\ shards[dir[i]] = i
    BY DEF PoolInv, PoolSafe, HeldIsMapped
  <2> QED
    BY <1>2, <2>1, <2>2, <2>3, QuietSafe DEF PoolInv, PoolTypes, LeaveBudget, Goto
<1> QED
  BY <1>1, <1>2

(* demote is over: back to the budget loop, or evict returns. *)
LEMMA AfterDemoteSafe ==
  ASSUME PoolInv, NEW t \in Threads, NEW S, AfterDemote(t, S),
         pc[t] \in {"demote", "demoted"},
         UNCHANGED <<shards, opening, holder, dir>>
  PROVE  PoolInv'
<1>1. CASE task[t] = "evict"
  BY <1>1, ReturnSafe DEF AfterDemote
<1>2. CASE task[t] # "evict"
  <2>1. PoolTypes'
    BY <1>2 DEF PoolInv, PoolTypes, AfterDemote, Goto, Positions
  <2>2. \A i \in arcs'[t] : i \in arcs[t]
    BY <1>2 DEF PoolInv, PoolTypes, AfterDemote
  <2>3. \A i \in arcs[t] : dir[i] # None /\ shards[dir[i]] = i
    BY DEF PoolInv, PoolSafe, HeldIsMapped
  <2> QED
    BY <1>2, <2>1, <2>2, <2>3, QuietSafe DEF PoolInv, PoolTypes, AfterDemote, Goto
<1> QED
  BY <1>1, <1>2

LEMMA GetHitSafe ==
  ASSUME PoolInv, NEW t \in Threads, NEW w \in Workspaces, GetHit(t, w)
  PROVE  PoolInv'
  BY PoolAssumption DEF PoolInv, PoolTypes, PoolSafe, GateExclusive,
      HeldIsMapped, OpeningApart, ClosingApart, Loaded, Mapped, Positions,
      None, Goto, pool, disk, GetHit

LEMMA GetMissSafe ==
  ASSUME PoolInv, NEW t \in Threads, NEW w \in Workspaces, NEW k, GetMiss(t, w, k)
  PROVE  PoolInv'
  BY PoolAssumption DEF PoolInv, PoolTypes, PoolSafe, GateExclusive,
      HeldIsMapped, OpeningApart, ClosingApart, Loaded, Mapped, Positions,
      None, Goto, pool, disk, GetMiss

LEMMA SlowHitSafe ==
  ASSUME PoolInv, NEW t \in Threads, SlowHit(t)
  PROVE  PoolInv'
  BY PoolAssumption DEF PoolInv, PoolTypes, PoolSafe, GateExclusive,
      HeldIsMapped, OpeningApart, ClosingApart, Loaded, Mapped, Positions,
      None, Goto, pool, disk, SlowHit

LEMMA OpenerHitSafe ==
  ASSUME PoolInv, NEW t \in Threads, OpenerHit(t)
  PROVE  PoolInv'
  BY PoolAssumption DEF PoolInv, PoolTypes, PoolSafe, GateExclusive,
      HeldIsMapped, OpeningApart, ClosingApart, Loaded, Mapped, Positions,
      None, Goto, pool, disk, OpenerHit

LEMMA WriteSafe ==
  ASSUME PoolInv, NEW t \in Threads, Write(t)
  PROVE  PoolInv'
  BY PoolAssumption DEF PoolInv, PoolTypes, PoolSafe, GateExclusive,
      HeldIsMapped, OpeningApart, ClosingApart, Loaded, Mapped, Positions,
      None, Goto, pool, disk, Write, Promote

LEMMA DropShardSafe ==
  ASSUME PoolInv, NEW t \in Threads, DropShard(t)
  PROVE  PoolInv'
  BY ReturnSafe DEF DropShard, pool, disk

LEMMA BudgetPassSafe ==
  ASSUME PoolInv, NEW t \in Threads, BudgetPass(t)
  PROVE  PoolInv'
  BY PoolAssumption DEF PoolInv, PoolTypes, PoolSafe, GateExclusive,
      HeldIsMapped, OpeningApart, ClosingApart, Loaded, Mapped, Positions,
      None, Goto, pool, disk, BudgetPass

LEMMA BudgetDoneSafe ==
  ASSUME PoolInv, NEW t \in Threads, BudgetDone(t)
  PROVE  PoolInv'
  BY LeaveBudgetSafe DEF BudgetDone, disk

LEMMA BudgetPickSafe ==
  ASSUME PoolInv, NEW t \in Threads, BudgetPick(t)
  PROVE  PoolInv'
<1>1. PICK w \in Workspaces :
        /\ Loaded(w)
        /\ target' = [target EXCEPT ![t] = shards[w]]
        /\ arcs' = [arcs EXCEPT ![t] = @ \cup {shards[w]}]
  BY DEF BudgetPick, Victim, Candidates
<1>2. /\ pc[t] = "budget" /\ pc' = [pc EXCEPT ![t] = "demote"]
      /\ UNCHANGED <<shards, opening, holder, dir, ws, gate>>
  BY DEF BudgetPick, Goto, disk
<1>3. shards[w] \in Insts /\ dir[shards[w]] = w /\ w # None
  BY <1>1, PoolAssumption DEF PoolInv, PoolTypes, PoolSafe, Loaded
<1>4. PoolTypes'
  BY <1>1, <1>2, <1>3 DEF PoolInv, PoolTypes, Positions
<1>5. \A i \in arcs'[t] : dir[i] # None /\ shards[dir[i]] = i
  BY <1>1, <1>2, <1>3 DEF PoolInv, PoolTypes, PoolSafe, HeldIsMapped
<1> QED
  BY <1>1, <1>2, <1>4, <1>5, QuietSafe DEF PoolInv, PoolTypes

LEMMA EvictSafe ==
  ASSUME PoolInv, NEW t \in Threads, NEW w \in Workspaces, Evict(t, w)
  PROVE  PoolInv'
  BY PoolAssumption DEF PoolInv, PoolTypes, PoolSafe, GateExclusive,
      HeldIsMapped, OpeningApart, ClosingApart, Loaded, Mapped, Positions,
      None, Goto, pool, disk, Evict

LEMMA DemoteNothingSafe ==
  ASSUME PoolInv, NEW t \in Threads, DemoteNothing(t)
  PROVE  PoolInv'
  BY AfterDemoteSafe DEF DemoteNothing, pool, disk

LEMMA DemoteShardSafe ==
  ASSUME PoolInv, NEW t \in Threads, DemoteShard(t)
  PROVE  PoolInv'
  BY PoolAssumption DEF PoolInv, PoolTypes, PoolSafe, GateExclusive,
      HeldIsMapped, OpeningApart, ClosingApart, Loaded, Mapped, Positions,
      None, Goto, pool, disk, DemoteShard

LEMMA DemoteMeasureSafe ==
  ASSUME PoolInv, NEW t \in Threads, DemoteMeasure(t)
  PROVE  PoolInv'
  BY AfterDemoteSafe DEF DemoteMeasure, disk

LEMMA DemoteFailSafe ==
  ASSUME PoolInv, NEW t \in Threads, DemoteFail(t)
  PROVE  PoolInv'
  BY ReturnSafe, LeaveBudgetSafe DEF DemoteFail, pool, disk

LEMMA CloseClaimSafe ==
  ASSUME PoolInv, NEW t \in Threads, NEW w \in Workspaces, CloseClaim(t, w)
  PROVE  PoolInv'
  BY PoolAssumption DEF PoolInv, PoolTypes, PoolSafe, GateExclusive,
      HeldIsMapped, OpeningApart, ClosingApart, Loaded, Mapped, Positions,
      None, Goto, pool, disk, CloseClaim

LEMMA CloseRefusedSafe ==
  ASSUME PoolInv, NEW t \in Threads, CloseRefused(t)
  PROVE  PoolInv'
  BY ReturnSafe DEF CloseRefused, pool, disk

LEMMA WalkDoneSafe ==
  ASSUME PoolInv, NEW t \in Threads, WalkDone(t)
  PROVE  PoolInv'
  BY ReturnSafe DEF WalkDone, pool, disk

LEMMA WalkAllSafe ==
  ASSUME PoolInv, NEW t \in Threads, WalkAll(t)
  PROVE  PoolInv'
<1>1. arcs'[t] \subseteq Insts /\ \A i \in arcs'[t] : dir[i] # None /\ shards[dir[i]] = i
  BY PoolAssumption DEF PoolInv, PoolTypes, PoolSafe, Loaded, WalkAll, None
<1>2. /\ arcs' = [arcs EXCEPT ![t] = arcs'[t]]
      /\ pc[t] = "idle" /\ pc' = [pc EXCEPT ![t] = "walk"]
      /\ UNCHANGED <<shards, opening, holder, dir, ws, gate, target>>
  BY DEF WalkAll, PoolInv, PoolTypes, Goto, pool, disk
<1>3. PoolTypes' /\ gate[t] = None
  BY <1>1, <1>2 DEF PoolInv, PoolTypes, PoolSafe, GateExclusive, Positions
<1> QED
  BY <1>1, <1>2, <1>3, QuietSafe DEF PoolInv, PoolTypes

LEMMA WalkOneSafe ==
  ASSUME PoolInv, NEW t \in Threads, WalkOne(t)
  PROVE  PoolInv'
  BY PoolAssumption DEF PoolInv, PoolTypes, PoolSafe, GateExclusive,
      HeldIsMapped, OpeningApart, ClosingApart, Loaded, Mapped, Positions,
      None, Goto, pool, disk, WalkOne, Promote

LEMMA StatsSafe ==
  ASSUME PoolInv, NEW t \in Threads, Stats(t)
  PROVE  PoolInv'
  BY PoolAssumption DEF PoolInv, PoolTypes, PoolSafe, GateExclusive,
      HeldIsMapped, OpeningApart, ClosingApart, Loaded, Mapped, Positions,
      None, Goto, pool, disk, Stats

-----------------------------------------------------------------------------
(* Gates *)

LEMMA TakeGateSafe ==
  ASSUME PoolInv, NEW t \in Threads, TakeGate(t)
  PROVE  PoolInv'
  BY PoolAssumption DEF PoolInv, PoolTypes, PoolSafe, GateExclusive,
      HeldIsMapped, OpeningApart, ClosingApart, Loaded, Mapped, Positions,
      None, Goto, pool, disk, TakeGate, FreeGate, Least

LEMMA LockGateSafe ==
  ASSUME PoolInv, NEW t \in Threads, LockGate(t)
  PROVE  PoolInv'
  BY PoolAssumption DEF PoolInv, PoolTypes, PoolSafe, GateExclusive,
      HeldIsMapped, OpeningApart, ClosingApart, Loaded, Mapped, Positions,
      None, Goto, pool, disk, LockGate

LEMMA UnlockGateSafe ==
  ASSUME PoolInv, NEW t \in Threads, UnlockGate(t)
  PROVE  PoolInv'
  BY PoolAssumption DEF PoolInv, PoolTypes, PoolSafe, GateExclusive,
      HeldIsMapped, OpeningApart, ClosingApart, Loaded, Mapped, Positions,
      None, Goto, pool, disk, UnlockGate

(* Dropping gates nobody has an Arc of takes none from a thread. *)
LEMMA RetireGatesSafe ==
  ASSUME PoolInv, NEW t \in Threads, RetireGates(t)
  PROVE  PoolInv'
<1>1. /\ opening' \in [Workspaces -> Gates \cup {None}]
      /\ \A w \in Workspaces : opening'[w] \in {None, opening[w]}
      /\ \A u \in Threads : gate[u] # None => opening'[ws[u]] = gate[u]
  BY DEF RetireGates, Retired, PoolInv, PoolTypes, PoolSafe, GateExclusive
<1>2. /\ PoolTypes'
      /\ pc[t] = "retire" /\ pc'[t] \in {"idle", "budget"}
      /\ gate'[t] # None => pc'[t] = "budget" /\ gate'[t] = gate[t] /\ ws'[t] = ws[t]
      /\ arcs'[t] \subseteq arcs[t]
      /\ UNCHANGED <<shards, holder, dir>>
      /\ \A u \in Threads \ {t} :
           /\ pc'[u] = pc[u] /\ ws'[u] = ws[u] /\ gate'[u] = gate[u]
           /\ arcs'[u] = arcs[u] /\ target'[u] = target[u]
  <2>1. CASE arcs[t] = {}
    BY <1>1, <2>1 DEF RetireGates, Return, Goto, disk, PoolInv, PoolTypes, Positions
  <2>2. CASE arcs[t] # {}
    BY <1>1, <2>2 DEF RetireGates, Goto, disk, PoolInv, PoolTypes, Positions
  <2> QED
    BY <2>1, <2>2
<1>3. GateExclusive'
  BY <1>1, <1>2 DEF PoolInv, PoolSafe, GateExclusive
<1>4. HeldIsMapped'
  BY <1>2 DEF PoolInv, PoolSafe, HeldIsMapped
<1>5. OpeningApart'
  BY <1>2 DEF PoolInv, PoolSafe, OpeningApart, Loaded
<1>6. ClosingApart'
  BY <1>2 DEF PoolInv, PoolSafe, ClosingApart, Mapped
<1>7. (\A w \in Workspaces : Loaded(w) => dir[shards[w]] = w)'
  BY <1>2 DEF PoolInv, PoolSafe, Loaded
<1>8. (\A u \in Threads : pc[u] = "slow" => ws[u] \in Workspaces)'
  BY <1>2 DEF PoolInv, PoolSafe
<1> QED
  BY <1>2, <1>3, <1>4, <1>5, <1>6, <1>7, <1>8 DEF PoolInv, PoolSafe

-----------------------------------------------------------------------------
(* Opening *)

(* Two threads opening the same workspace would both have its gate locked. *)
LEMMA OneOpener ==
  ASSUME PoolInv, NEW t \in Threads, NEW u \in Threads,
         pc[t] = "opening", pc[u] = "opening", ws[t] = ws[u]
  PROVE  t = u
  BY DEF PoolInv, PoolSafe, GateExclusive

(* The shard a thread is opening is reached by nobody else. *)
LEMMA OpeningUnshared ==
  ASSUME PoolInv, NEW t \in Threads, pc[t] = "opening", NEW i \in arcs[t]
  PROVE  /\ i \in Insts /\ dir[i] = ws[t] /\ ws[t] \in Workspaces
         /\ ~ Mapped(i)
         /\ \A u \in Threads \ {t} : i \notin arcs[u]
<1>1. i \in Insts /\ dir[i] = ws[t] /\ ws[t] \in Workspaces /\ ~ Loaded(ws[t])
  BY DEF PoolInv, PoolTypes, PoolSafe, GateExclusive, OpeningApart
<1>2. ~ Mapped(i)
  BY <1>1, PoolAssumption DEF PoolInv, PoolTypes, PoolSafe, Mapped, Loaded, None
<1>3. ASSUME NEW u \in Threads \ {t}, i \in arcs[u] PROVE FALSE
  <2>1. CASE pc[u] = "opening"
    BY <1>1, <1>3, <2>1, OneOpener DEF PoolInv, PoolSafe, OpeningApart
  <2>2. CASE pc[u] = "closed"
    BY <1>3, <2>2 DEF PoolInv, PoolSafe, ClosingApart
  <2>3. CASE pc[u] \notin {"opening", "closed"}
    BY <1>1, <1>3, <2>3, PoolAssumption DEF PoolInv, PoolSafe, HeldIsMapped, Loaded, None
  <2> QED
    BY <2>1, <2>2, <2>3
<1> QED
  BY <1>1, <1>2, <1>3

LEMMA OpenShardSafe ==
  ASSUME PoolInv, NEW t \in Threads, OpenShard(t)
  PROVE  PoolInv'
  BY PoolAssumption DEF PoolInv, PoolTypes, PoolSafe, GateExclusive,
      HeldIsMapped, OpeningApart, ClosingApart, Loaded, Mapped, Positions,
      None, Goto, pool, disk, OpenShard, FreeInst, Least

LEMMA OpenDoneSafe ==
  ASSUME PoolInv, NEW t \in Threads, OpenDone(t)
  PROVE  PoolInv'
  BY PoolAssumption DEF PoolInv, PoolTypes, PoolSafe, GateExclusive,
      HeldIsMapped, OpeningApart, ClosingApart, Loaded, Mapped, Positions,
      None, Goto, pool, disk, OpenDone

LEMMA OpenFailSafe ==
  ASSUME PoolInv, NEW t \in Threads, OpenFail(t)
  PROVE  PoolInv'
<1>1. /\ arcs' = [arcs EXCEPT ![t] = {}]
      /\ pc[t] = "opening" /\ pc' = [pc EXCEPT ![t] = "release"]
      /\ dir' = [i \in Insts |-> IF i \in arcs[t] THEN None ELSE dir[i]]
      /\ UNCHANGED <<shards, opening, holder, ws, gate, target>>
  BY DEF OpenFail, Goto, pool
<1>2. /\ \A i \in Insts : Mapped(i) => dir'[i] = dir[i]
      /\ \A u \in Threads \ {t} : \A i \in arcs[u] : i \in Insts /\ dir'[i] = dir[i]
  BY <1>1, OpeningUnshared DEF PoolInv, PoolTypes
<1>3. PoolTypes'
  BY <1>1 DEF PoolInv, PoolTypes, Positions
<1>4. GateExclusive'
  BY <1>1 DEF PoolInv, PoolTypes, PoolSafe, GateExclusive
<1>5. (\A w \in Workspaces : Loaded(w) => dir[shards[w]] = w)'
  <2>1. ASSUME NEW w \in Workspaces, shards[w] # None PROVE dir'[shards[w]] = w
    <3>1. shards[w] \in Insts /\ Mapped(shards[w]) /\ dir[shards[w]] = w
      BY <2>1 DEF PoolInv, PoolTypes, PoolSafe, Loaded, Mapped
    <3> QED
      BY <1>2, <3>1
  <2> QED
    BY <1>1, <2>1 DEF Loaded
<1>6. HeldIsMapped'
  <2>1. ASSUME NEW u \in Threads \ {t}, NEW i \in arcs[u], pc[u] \notin {"opening", "closed"}
        PROVE  dir'[i] # None /\ shards[dir'[i]] = i
    BY <1>2, <2>1 DEF PoolInv, PoolSafe, HeldIsMapped
  <2>2. arcs'[t] = {} /\ \A u \in Threads \ {t} : arcs'[u] = arcs[u] /\ pc'[u] = pc[u]
    BY <1>1 DEF PoolInv, PoolTypes
  <2> QED
    BY <1>1, <2>1, <2>2 DEF HeldIsMapped
<1>7. OpeningApart'
  BY <1>1, <1>2 DEF PoolInv, PoolTypes, PoolSafe, OpeningApart, Loaded
<1>8. ClosingApart'
  <2>1. /\ pc'[t] = "release" /\ arcs'[t] = {}
        /\ \A u \in Threads \ {t} : arcs'[u] = arcs[u] /\ pc'[u] = pc[u]
    BY <1>1 DEF PoolInv, PoolTypes
  <2>2. \A u \in Threads \ {t} : arcs[u] = {target[u]} => dir'[target[u]] = dir[target[u]]
    BY <1>2
  <2>3. UNCHANGED <<shards, ws, target>>
    BY <1>1
  <2> QED
    BY <2>1, <2>2, <2>3 DEF PoolInv, PoolSafe, ClosingApart, Mapped
<1>9. (\A u \in Threads : pc[u] = "slow" => ws[u] \in Workspaces)'
  BY <1>1 DEF PoolInv, PoolTypes, PoolSafe
<1> QED
  BY <1>3, <1>4, <1>5, <1>6, <1>7, <1>8, <1>9 DEF PoolInv, PoolSafe

-----------------------------------------------------------------------------
(* Closing *)

(* A strong count of two is the map's Arc and the closer's: nobody else    *)
(* has one.                                                                *)
LEMMA SoleHolder ==
  ASSUME NEW t \in Threads, NEW i \in arcs[t], Mapped(i), StrongCount(i) <= 2
  PROVE  \A u \in Threads \ {t} : i \notin arcs[u]
<1>1. SUFFICES ASSUME NEW u \in Threads \ {t}, i \in arcs[u] PROVE FALSE
  OBVIOUS
<1>2. IsFiniteSet(Holders(i)) /\ {t, u} \subseteq Holders(i)
  BY <1>1, PoolAssumption, FS_Subset DEF Holders
<1>3. Cardinality({t, u}) <= Cardinality(Holders(i)) /\ Cardinality(Holders(i)) \in Nat
  BY <1>2, FS_Subset, FS_CardinalityType
<1>4. Cardinality({t, u}) = 2
  <2>1. IsFiniteSet({t}) /\ Cardinality({t}) = 1
    BY FS_Singleton
  <2>2. Cardinality({t} \cup {u}) = Cardinality({t}) + 1
    BY <1>1, <2>1, FS_AddElement
  <2>3. {t} \cup {u} = {t, u}
    OBVIOUS
  <2> QED
    BY <2>1, <2>2, <2>3
<1> QED
  BY <1>3, <1>4 DEF StrongCount

LEMMA CloseRemoveSafe ==
  ASSUME PoolInv, NEW t \in Threads, CloseRemove(t)
  PROVE  PoolInv'
<1>1. /\ pc[t] = "closing" /\ pc' = [pc EXCEPT ![t] = "closed"]
      /\ shards' = [shards EXCEPT ![ws[t]] = None]
      /\ UNCHANGED <<opening, holder, dir, ws, gate, arcs, target>>
  BY DEF CloseRemove, Goto, disk
<1>2. /\ ws[t] \in Workspaces /\ target[t] \in Insts /\ arcs[t] = {target[t]}
      /\ dir[target[t]] = ws[t] /\ shards[ws[t]] = target[t]
  BY <1>1 DEF PoolInv, PoolTypes, PoolSafe, ClosingApart, HeldIsMapped
<1>3. \A u \in Threads \ {t} : target[t] \notin arcs[u]
  BY <1>2, SoleHolder DEF CloseRemove, Mapped
<1>4. ~ Mapped(target[t])'
  BY <1>1, <1>2, PoolAssumption DEF PoolInv, PoolTypes, PoolSafe, Mapped, Loaded, None
<1>5. PoolTypes'
  BY <1>1, <1>2 DEF PoolInv, PoolTypes, Positions
<1>6. GateExclusive'
  BY <1>1 DEF PoolInv, PoolTypes, PoolSafe, GateExclusive
<1>7. (\A w \in Workspaces : Loaded(w) => dir[shards[w]] = w)'
  BY <1>1, <1>2 DEF PoolInv, PoolTypes, PoolSafe, Loaded
<1>8. HeldIsMapped'
  <2>1. ASSUME NEW u \in Threads, NEW i \in arcs[u], pc'[u] \notin {"opening", "closed"}
        PROVE  dir[i] # None /\ shards'[dir[i]] = i
    <3>1. u # t /\ i \in Insts /\ i # target[t] /\ dir[i] # None /\ shards[dir[i]] = i
      BY <1>1, <1>3, <2>1 DEF PoolInv, PoolTypes, PoolSafe, HeldIsMapped
    <3> QED
      BY <1>1, <1>2, <3>1 DEF PoolInv, PoolTypes
  <2> QED
    BY <1>1, <2>1 DEF HeldIsMapped
<1>9. OpeningApart'
  BY <1>1, <1>2 DEF PoolInv, PoolTypes, PoolSafe, OpeningApart, GateExclusive, Loaded
<1>10. ClosingApart'
  <2>1. ASSUME NEW u \in Threads, pc[u] = "closed" PROVE ~ Mapped(target[u])'
    BY <1>1, <1>2, <2>1, PoolAssumption
    DEF PoolInv, PoolTypes, PoolSafe, ClosingApart, Mapped, None
  <2> QED
    BY <1>1, <1>2, <1>3, <1>4, <2>1 DEF PoolInv, PoolTypes, PoolSafe, ClosingApart
<1>11. (\A u \in Threads : pc[u] = "slow" => ws[u] \in Workspaces)'
  BY <1>1 DEF PoolInv, PoolTypes, PoolSafe
<1> QED
  BY <1>5, <1>6, <1>7, <1>8, <1>9, <1>10, <1>11 DEF PoolInv, PoolSafe

LEMMA CloseDropSafe ==
  ASSUME PoolInv, NEW t \in Threads, CloseDrop(t)
  PROVE  PoolInv'
  BY PoolAssumption DEF PoolInv, PoolTypes, PoolSafe, GateExclusive,
      HeldIsMapped, OpeningApart, ClosingApart, Loaded, Mapped, Positions,
      None, Goto, pool, disk, CloseDrop, Return

-----------------------------------------------------------------------------

LEMMA CallSafe ==
  ASSUME PoolInv, NEW t \in Threads, Call(t)
  PROVE  PoolInv'
  BY GetHitSafe, GetMissSafe, BudgetPassSafe, EvictSafe, CloseClaimSafe, WalkAllSafe,
     StatsSafe
  DEF Call

LEMMA StepSafe ==
  ASSUME PoolInv, NEW t \in Threads, Step(t)
  PROVE  PoolInv'
  BY SlowHitSafe, TakeGateSafe, OpenerHitSafe, OpenShardSafe, OpenDoneSafe, OpenFailSafe,
     UnlockGateSafe, RetireGatesSafe, DropShardSafe, BudgetDoneSafe, BudgetPickSafe,
     DemoteNothingSafe, DemoteShardSafe, DemoteMeasureSafe, DemoteFailSafe,
     CloseRefusedSafe, CloseRemoveSafe, CloseDropSafe, WalkOneSafe, WalkDoneSafe
  DEF Step

(* A held shard, an opening one and a mapped one of the same workspace are *)
(* the same shard.                                                         *)
LEMMA SafeIsOne ==
  ASSUME PoolInv
  PROVE  OneUsableShard
<1>1. ASSUME NEW i \in Insts, NEW w \in Workspaces, Usable(i, w)
      PROVE  \/ shards[w] = i
             \/ \E t \in Threads : pc[t] = "opening" /\ ws[t] = w /\ arcs[t] = {i}
                                 /\ ~ Loaded(w)
  <2>1. CASE Mapped(i)
    BY <1>1, <2>1, PoolAssumption DEF PoolInv, PoolSafe, Usable, Mapped, Loaded, None
  <2>2. ASSUME NEW t \in Holders(i), pc[t] # "closed"
        PROVE  shards[w] = i \/ (pc[t] = "opening" /\ ws[t] = w /\ arcs[t] = {i} /\ ~ Loaded(w))
    BY <1>1, <2>2 DEF PoolInv, PoolSafe, HeldIsMapped, OpeningApart, Usable, Holders
  <2> QED
    BY <1>1, <2>1, <2>2 DEF Usable, Holders
<1>2. ASSUME NEW i \in Insts, NEW j \in Insts, NEW w \in Workspaces,
             Usable(i, w), Usable(j, w)
      PROVE  i = j
  <2>1. None \notin Insts
    BY PoolAssumption DEF None
  <2>2. ASSUME NEW t \in Threads, NEW u \in Threads, pc[t] = "opening",
               pc[u] = "opening", ws[t] = w, ws[u] = w
        PROVE  t = u
    BY <2>2, OneOpener
  <2> QED
    BY <1>1, <1>2, <2>1, <2>2 DEF Loaded
<1> QED
  BY <1>2 DEF OneUsableShard

(* The invariant holds in every reachable state of the pool. *)
LEMMA PoolInvariant == Spec => []PoolInv
<1>1. Init => PoolInv
  BY DEF Init, PoolInv, PoolTypes, PoolSafe, GateExclusive, HeldIsMapped,
         OpeningApart, ClosingApart, Loaded, Positions
<1>2. PoolInv /\ [Next]_vars => PoolInv'
  <2>1. CASE Next
    BY <2>1, CallSafe, StepSafe, LockGateSafe, WriteSafe DEF Next
  <2>2. CASE UNCHANGED vars
    BY <2>2 DEF PoolInv, PoolTypes, PoolSafe, GateExclusive, HeldIsMapped,
        OpeningApart, ClosingApart, Loaded, Mapped, Positions, vars
  <2> QED
    BY <2>1, <2>2
<1> QED
  BY <1>1, <1>2, PTL DEF Spec

(* The exclusion behind the pool, for any threads and workspaces: one thread *)
(* at a time is past the opening gate of a workspace, a request holds the    *)
(* shard of the map, and a shard being opened or closed is in nobody else's  *)
(* hands (get_with, open_and_insert, close, demote).                         *)
THEOREM PoolStaysSafe == Spec => []PoolSafe
<1>1. PoolInv => PoolSafe
  BY DEF PoolInv
<1> QED
  BY <1>1, PoolInvariant, PTL

(* For any threads and workspaces, no interleaving of opens, failed opens, *)
(* evictions, closes and writes gives a workspace two Shards that can be   *)
(* written to (get_with, open_and_insert, close).                          *)
THEOREM OneShardPerWorkspace == Spec => []OneUsableShard
  BY PoolInvariant, SafeIsOne, PTL

(* A write through a held Arc goes to the shard the map has, the one every *)
(* later request is given (peek, demote, close).                           *)
THEOREM HeldShardIsTheMaps == Spec => []HeldIsMapped
<1>1. PoolInv => HeldIsMapped
  BY DEF PoolInv, PoolSafe
<1> QED
  BY <1>1, PoolInvariant, PTL

-----------------------------------------------------------------------------
(* The entries of the map: recency, figures and residency *)

(* Taking an element out of a list without repetitions, and putting one in  *)
(* at the end, keeps it without repetitions.                                *)
Distinct(s) == \A j, k \in 1 .. Len(s) : s[j] = s[k] => j = k
Elems(s) == {s[j] : j \in 1 .. Len(s)}

LEMMA RemovedAt ==
  ASSUME NEW S, NEW s \in Seq(S), Distinct(s), NEW k \in 1 .. Len(s), NEW r,
         r = SubSeq(s, 1, k - 1) \o SubSeq(s, k + 1, Len(s))
  PROVE  /\ r \in Seq(S) /\ Distinct(r)
         /\ Elems(r) = Elems(s) \ {s[k]}
<1> DEFINE n == Len(s)
<1>1. n \in Nat /\ k \in Nat /\ 1 <= k /\ k <= n
  OBVIOUS
<1>2. /\ SubSeq(s, 1, k - 1) \in Seq(S) /\ SubSeq(s, k + 1, n) \in Seq(S)
      /\ Len(SubSeq(s, 1, k - 1)) = k - 1 /\ Len(SubSeq(s, k + 1, n)) = n - k
      /\ \A j \in 1 .. k - 1 : SubSeq(s, 1, k - 1)[j] = s[j]
      /\ \A j \in 1 .. n - k : SubSeq(s, k + 1, n)[j] = s[k + j]
  OBVIOUS
<1> DEFINE a == SubSeq(s, 1, k - 1)
           b == SubSeq(s, k + 1, n)
<1>3. /\ a \in Seq(S) /\ b \in Seq(S) /\ Len(a) = k - 1 /\ Len(b) = n - k
      /\ \A j \in 1 .. k - 1 : a[j] = s[j]
      /\ \A j \in 1 .. n - k : b[j] = s[k + j]
      /\ r = a \o b
  BY <1>2
<1> HIDE DEF a, b
<1>4. /\ r \in Seq(S) /\ Len(r) = n - 1
      /\ \A j \in 1 .. n - 1 : r[j] = IF j <= k - 1 THEN a[j] ELSE b[j - (k - 1)]
  <2> HIDE DEF n
  <2>1. /\ r \in Seq(S) /\ Len(r) = Len(a) + Len(b)
        /\ \A j \in 1 .. Len(a) + Len(b) :
             r[j] = IF j <= Len(a) THEN a[j] ELSE b[j - Len(a)]
    <3>1. /\ a \o b \in Seq(S) /\ Len(a \o b) = Len(a) + Len(b)
          /\ \A j \in 1 .. Len(a) + Len(b) :
               (a \o b)[j] = IF j <= Len(a) THEN a[j] ELSE b[j - Len(a)]
      BY <1>3, ConcatProperties
    <3> QED
      BY <1>3, <3>1
  <2>2. Len(a) + Len(b) = n - 1
    BY <1>1, <1>3
  <2> QED
    BY <1>3, <2>1, <2>2
<1>5. ASSUME NEW j \in 1 .. n - 1
      PROVE  r[j] = IF j < k THEN s[j] ELSE s[j + 1]
  <2> HIDE DEF n
  <2>1. CASE j < k
    <3>1. j \in 1 .. k - 1 /\ j <= k - 1
      BY <1>1, <2>1
    <3> QED
      BY <1>3, <1>4, <2>1, <3>1
  <2>2. CASE ~ (j < k)
    <3>1. j - (k - 1) \in 1 .. n - k /\ k + (j - (k - 1)) = j + 1 /\ ~ (j <= k - 1)
      BY <1>1, <2>2
    <3> QED
      BY <1>3, <1>4, <2>2, <3>1
  <2> QED
    BY <2>1, <2>2
<1>6. Distinct(r)
  <2>1. SUFFICES ASSUME NEW i \in 1 .. n - 1, NEW j \in 1 .. n - 1, r[i] = r[j] PROVE i = j
    BY <1>4 DEF Distinct
  <2>2. \A x, y \in 1 .. n : s[x] = s[y] => x = y
    BY DEF Distinct
  <2> HIDE DEF n
  <2>3. i \in 1 .. n /\ i + 1 \in 1 .. n /\ j \in 1 .. n /\ j + 1 \in 1 .. n
    BY <1>1
  <2>4. /\ r[i] = IF i < k THEN s[i] ELSE s[i + 1]
        /\ r[j] = IF j < k THEN s[j] ELSE s[j + 1]
    BY <1>5
  <2>5. CASE i < k /\ j < k
    BY <2>1, <2>2, <2>3, <2>4, <2>5
  <2>6. CASE i < k /\ ~ (j < k)
    <3>1. i # j + 1
      BY <1>1, <2>3, <2>6
    <3> QED
      BY <2>1, <2>2, <2>3, <2>4, <2>6, <3>1
  <2>7. CASE ~ (i < k) /\ j < k
    <3>1. j # i + 1
      BY <1>1, <2>3, <2>7
    <3> QED
      BY <2>1, <2>2, <2>3, <2>4, <2>7, <3>1
  <2>8. CASE ~ (i < k) /\ ~ (j < k)
    <3>1. i + 1 = j + 1
      BY <2>1, <2>2, <2>3, <2>4, <2>8
    <3> QED
      BY <3>1
  <2> QED
    BY <2>5, <2>6, <2>7, <2>8
<1>7. ASSUME NEW j \in 1 .. n - 1 PROVE r[j] \in {s[i] : i \in 1 .. n} \ {s[k]}
  <2>1. \A x, y \in 1 .. n : s[x] = s[y] => x = y
    BY DEF Distinct
  <2> HIDE DEF n
  <2>2. j \in 1 .. n /\ j + 1 \in 1 .. n /\ k \in 1 .. n
    BY <1>1
  <2>3. CASE j < k
    <3>1. j # k
      BY <1>1, <2>3
    <3>2. r[j] = s[j]
      BY <1>5, <2>3
    <3> QED
      BY <2>1, <2>2, <3>1, <3>2
  <2>4. CASE ~ (j < k)
    <3>1. j + 1 # k
      BY <1>1, <2>4
    <3> QED
      BY <1>5, <2>1, <2>2, <2>4, <3>1
  <2> QED
    BY <2>3, <2>4
<1>8. ASSUME NEW i \in 1 .. n, s[i] # s[k] PROVE \E j \in 1 .. n - 1 : r[j] = s[i]
  <2> HIDE DEF n
  <2>1. CASE i < k
    <3>1. i \in 1 .. n - 1
      BY <1>1, <2>1
    <3> QED
      BY <1>5, <2>1, <3>1
  <2>2. CASE ~ (i < k)
    <3>1. i # k
      BY <1>8
    <3>2. i - 1 \in 1 .. n - 1 /\ ~ (i - 1 < k) /\ (i - 1) + 1 = i
      BY <1>1, <2>2, <3>1
    <3>3. r[i - 1] = s[(i - 1) + 1]
      BY <1>5, <3>2
    <3> QED
      BY <3>2, <3>3
  <2> QED
    BY <2>1, <2>2
<1>9. Elems(r) = Elems(s) \ {s[k]}
  <2> HIDE DEF n
  <2>1. {r[j] : j \in 1 .. n - 1} \subseteq {s[j] : j \in 1 .. n} \ {s[k]}
    BY <1>7
  <2>2. {s[j] : j \in 1 .. n} \ {s[k]} \subseteq {r[j] : j \in 1 .. n - 1}
    BY <1>8
  <2> QED
    BY <1>4, <2>1, <2>2 DEF n, Elems
<1> QED
  BY <1>4, <1>6, <1>9

LEMMA AppendedTo ==
  ASSUME NEW S, NEW s \in Seq(S), Distinct(s), NEW x \in S,
         x \notin Elems(s), NEW r \in Seq(S), Len(r) = Len(s) + 1, r[Len(s) + 1] = x,
         \A j \in 1 .. Len(s) : r[j] = s[j]
  PROVE  /\ r \in Seq(S) /\ Distinct(r)
         /\ Elems(r) = Elems(s) \cup {x}
<1> DEFINE n == Len(s)
<1>1. n \in Nat /\ r \in Seq(S) /\ Len(r) = n + 1 /\ r[n + 1] = x
      /\ \A j \in 1 .. n : r[j] = s[j]
  OBVIOUS
<1>2. \A j \in 1 .. n : s[j] # x
  BY DEF Elems
<1>3. \A i, j \in 1 .. n : s[i] = s[j] => i = j
  BY DEF Distinct
<1>4. Elems(r) = Elems(s) \cup {x}
  <2>1. Elems(r) = {r[j] : j \in 1 .. n + 1} /\ Elems(s) = {s[j] : j \in 1 .. n}
    BY <1>1 DEF Elems
  <2> HIDE DEF n
  <2>2. \A j \in 1 .. n + 1 : j \in 1 .. n \/ j = n + 1
    BY <1>1
  <2>3. (\A j \in 1 .. n : j \in 1 .. n + 1) /\ n + 1 \in 1 .. n + 1
    BY <1>1
  <2> QED
    BY <1>1, <2>1, <2>2, <2>3
<1>5. Distinct(r)
  <2> HIDE DEF n
  <2>1. \A j \in 1 .. n + 1 : j \in 1 .. n \/ j = n + 1
    BY <1>1
  <2> QED
    BY <1>1, <1>2, <1>3, <2>1 DEF Distinct
<1> QED
  BY <1>1, <1>4, <1>5

(* What TypeOK says beyond PoolTypes.  skip takes the workspace of a shard  *)
(* that was not demoted, so its target has to be one the thread holds.      *)
Recency ==
  /\ lru \in Seq(Workspaces) /\ Distinct(lru)
  /\ Elems(lru) = {w \in Workspaces : Loaded(w)}

Figures ==
  /\ bytes \in [Workspaces -> {0, 1}]
  /\ \A w \in Workspaces : Loaded(w) \/ bytes[w] = 0

Locals ==
  /\ viewed \in [Insts -> BOOLEAN]
  /\ made \subseteq Workspaces
  /\ task \in [Threads -> {"none", "get", "read", "pass", "evict", "close", "walk"}]
  /\ skip \in [Threads -> SUBSET Workspaces]
  /\ \A t \in Threads : pc[t] = "demote" => target[t] \in arcs[t]

LEMMA DroppedRight ==
  ASSUME Recency, NEW w
  PROVE  /\ Dropped(w) \in Seq(Workspaces) /\ Distinct(Dropped(w))
         /\ Elems(Dropped(w)) = {v \in Workspaces : Loaded(v)} \ {w}
<1>1. lru \in Seq(Workspaces) /\ Distinct(lru) /\ DOMAIN lru = 1 .. Len(lru)
      /\ Elems(lru) = {v \in Workspaces : Loaded(v)}
  BY DEF Recency
<1>2. CASE \E k \in DOMAIN lru : lru[k] = w
  <2> DEFINE k == CHOOSE k \in DOMAIN lru : lru[k] = w
  <2>1. k \in 1 .. Len(lru) /\ lru[k] = w
    BY <1>1, <1>2
  <2>2. Dropped(w) = SubSeq(lru, 1, k - 1) \o SubSeq(lru, k + 1, Len(lru))
    BY <1>2 DEF Dropped
  <2> HIDE DEF k
  <2>3. PICK r : r = Dropped(w)
    OBVIOUS
  <2>4. /\ r \in Seq(Workspaces) /\ Distinct(r)
        /\ Elems(r) = Elems(lru) \ {lru[k]}
    BY <1>1, <2>1, <2>2, <2>3, RemovedAt
  <2> QED
    BY <1>1, <2>1, <2>3, <2>4
<1>3. CASE ~ \E k \in DOMAIN lru : lru[k] = w
  <2>1. Dropped(w) = lru
    BY <1>3 DEF Dropped
  <2>2. w \notin Elems(lru)
    BY <1>1, <1>3 DEF Elems
  <2>3. Elems(lru) = {v \in Workspaces : Loaded(v)} \ {w}
    BY <1>1, <2>2
  <2> QED
    BY <1>1, <2>1, <2>3
<1> QED
  BY <1>2, <1>3

(* The order after a workspace was touched, loaded before the step or by it. *)
LEMMA TouchedRight ==
  ASSUME Recency, NEW w \in Workspaces, lru' = Touched(w),
         {v \in Workspaces : Loaded(v)'} = {v \in Workspaces : Loaded(v)} \cup {w}
  PROVE  Recency'
<1>1. PICK d : d = Dropped(w)
  OBVIOUS
<1>2. /\ d \in Seq(Workspaces) /\ Distinct(d)
      /\ Elems(d) = {v \in Workspaces : Loaded(v)} \ {w}
  BY <1>1, DroppedRight
<1>3. PICK r : r = Append(d, w)
  OBVIOUS
<1>4. w \notin Elems(d)
  BY <1>2
<1>5. /\ r \in Seq(Workspaces) /\ Distinct(r)
      /\ Elems(r) = Elems(d) \cup {w}
  <2>1. /\ r \in Seq(Workspaces) /\ Len(r) = Len(d) + 1 /\ r[Len(d) + 1] = w
        /\ \A j \in 1 .. Len(d) : r[j] = d[j]
    BY <1>2, <1>3
  <2> QED
    BY <1>2, <1>4, <2>1, AppendedTo
<1>6. lru' = r
  BY <1>1, <1>3 DEF Touched
<1>7. Elems(r) = {v \in Workspaces : Loaded(v)'}
  BY <1>2, <1>5
<1> QED
  BY <1>5, <1>6, <1>7 DEF Recency, Distinct

(* A loaded workspace is touched and the map stays. *)
LEMMA TouchKeeps ==
  ASSUME Recency, NEW w \in Workspaces, Loaded(w), lru' = Touched(w), shards' = shards
  PROVE  Recency'
<1>1. {v \in Workspaces : Loaded(v)'} = {v \in Workspaces : Loaded(v)} \cup {w}
  BY DEF Loaded
<1> QED
  BY <1>1, TouchedRight

LEMMA RecencyStutters ==
  ASSUME Recency, lru' = lru, shards' = shards
  PROVE  Recency'
  BY DEF Recency, Distinct, Loaded

(* Each step keeps the order of the loaded workspaces. *)
LEMMA RecencyStep ==
  ASSUME PoolInv, Recency, NEW t \in Threads, Call(t) \/ LockGate(t) \/ Write(t) \/ Step(t)
  PROVE  Recency'
<1>1. CASE \E w \in Workspaces : GetHit(t, w)
  BY <1>1, TouchKeeps DEF GetHit
<1>2. CASE SlowHit(t)
  <2>1. ws[t] \in Workspaces
    BY <1>2 DEF SlowHit, PoolInv, PoolSafe
  <2> QED
    BY <1>2, <2>1, TouchKeeps DEF SlowHit
<1>3. CASE OpenerHit(t)
  <2>1. ws[t] \in Workspaces
    BY <1>3 DEF OpenerHit, PoolInv, PoolSafe, GateExclusive
  <2> QED
    BY <1>3, <2>1, TouchKeeps DEF OpenerHit
<1>4. CASE OpenDone(t)
  <2>1. ws[t] \in Workspaces
    BY <1>4 DEF OpenDone, PoolInv, PoolSafe, GateExclusive
  <2>2. PICK i \in arcs[t] : shards' = [shards EXCEPT ![ws[t]] = i]
    BY <1>4 DEF OpenDone
  <2>3. i \in Insts /\ i # None /\ shards \in [Workspaces -> Insts \cup {None}]
    BY PoolAssumption DEF PoolInv, PoolTypes, None
  <2>4. {v \in Workspaces : Loaded(v)'} = {v \in Workspaces : Loaded(v)} \cup {ws[t]}
    BY <2>1, <2>2, <2>3 DEF Loaded
  <2>5. lru' = Touched(ws[t])
    BY <1>4 DEF OpenDone
  <2>6. PICK w \in Workspaces : w = ws[t]
    BY <2>1
  <2> QED
    BY <2>4, <2>5, <2>6, TouchedRight
<1>5. CASE CloseRemove(t)
  <2>1. PICK w \in Workspaces : w = ws[t]
    BY <1>5 DEF CloseRemove, PoolInv, PoolSafe, ClosingApart
  <2>2. shards' = [shards EXCEPT ![w] = None] /\ lru' = Dropped(w)
    BY <1>5, <2>1 DEF CloseRemove
  <2>3. shards \in [Workspaces -> Insts \cup {None}]
    BY DEF PoolInv, PoolTypes
  <2>4. {v \in Workspaces : Loaded(v)'} = {v \in Workspaces : Loaded(v)} \ {w}
    BY <2>2, <2>3 DEF Loaded
  <2>5. PICK d : d = Dropped(w)
    OBVIOUS
  <2>6. /\ d \in Seq(Workspaces) /\ Distinct(d)
        /\ Elems(d) = {v \in Workspaces : Loaded(v)} \ {w}
    BY <2>5, DroppedRight
  <2>7. Elems(d) = {v \in Workspaces : Loaded(v)'}
    BY <2>4, <2>6
  <2>8. lru' = d
    BY <2>2, <2>5
  <2> QED
    BY <2>6, <2>7, <2>8 DEF Recency, Distinct
<1>6. CASE lru' = lru /\ shards' = shards
  BY <1>6, RecencyStutters
<1>7. Call(t) => (\E w \in Workspaces : GetHit(t, w)) \/ (lru' = lru /\ shards' = shards)
  BY DEF Call, GetMiss, BudgetPass, Evict, CloseClaim, WalkAll, Stats, pool
<1>8. LockGate(t) \/ Write(t) => lru' = lru /\ shards' = shards
  BY DEF LockGate, Write, pool
<1>9. Step(t) =>
        \/ SlowHit(t) \/ OpenerHit(t) \/ OpenDone(t) \/ CloseRemove(t)
        \/ lru' = lru /\ shards' = shards
  BY DEF Step, TakeGate, OpenShard, OpenFail, UnlockGate, RetireGates, DropShard,
      BudgetDone, BudgetPick, DemoteNothing, DemoteShard, DemoteMeasure, DemoteFail,
      CloseRefused, CloseDrop, WalkOne, WalkDone, pool
<1> QED
  BY <1>1, <1>2, <1>3, <1>4, <1>5, <1>6, <1>7, <1>8, <1>9

(* Each step keeps the figures: only loaded workspaces have one. *)
LEMMA FiguresStep ==
  ASSUME PoolInv, Figures, NEW t \in Threads, Call(t) \/ LockGate(t) \/ Write(t) \/ Step(t)
  PROVE  Figures'
<1>1. \A w : Residency(w) \in {0, 1} /\ (Loaded(w) \/ Residency(w) = 0)
  BY DEF Residency
<1>2. CASE bytes' = bytes /\ shards' = shards
  BY <1>2 DEF Figures, Loaded
<1>3. CASE (\E stale : bytes' = Refreshed(stale)) /\ shards' = shards
  BY <1>1, <1>3 DEF Figures, Refreshed, Loaded
<1>4. CASE OpenDone(t)
  <2>1. ws[t] \in Workspaces /\ shards \in [Workspaces -> Insts \cup {None}]
    BY <1>4 DEF OpenDone, PoolInv, PoolSafe, PoolTypes, GateExclusive
  <2>2. PICK i \in arcs[t], b \in {0, 1} : /\ shards' = [shards EXCEPT ![ws[t]] = i]
                                           /\ bytes' = [bytes EXCEPT ![ws[t]] = b]
    BY <1>4 DEF OpenDone
  <2>3. i \in Insts /\ i # None
    BY PoolAssumption DEF PoolInv, PoolTypes, None
  <2> QED
    BY <2>1, <2>2, <2>3 DEF Figures, Loaded
<1>5. CASE CloseRemove(t)
  <2>1. ws[t] \in Workspaces /\ shards \in [Workspaces -> Insts \cup {None}]
    BY <1>5 DEF CloseRemove, PoolInv, PoolSafe, PoolTypes, ClosingApart
  <2> QED
    BY <1>5, <2>1 DEF CloseRemove, Figures, Loaded
<1>6. CASE DemoteMeasure(t)
  <2>1. PICK b \in {Residency(dir[target[t]]), bytes[dir[target[t]]]} :
          bytes' = [bytes EXCEPT ![dir[target[t]]] = b]
    BY <1>6 DEF DemoteMeasure
  <2>2. shards' = shards
    BY <1>6 DEF DemoteMeasure
  <2> QED
    BY <1>1, <2>1, <2>2 DEF Figures, Loaded
<1>7. Call(t) => (bytes' = bytes \/ \E stale : bytes' = Refreshed(stale)) /\ shards' = shards
  BY DEF Call, GetHit, GetMiss, BudgetPass, Evict, CloseClaim, WalkAll, Stats, pool
<1>8. LockGate(t) \/ Write(t) => bytes' = bytes /\ shards' = shards
  BY DEF LockGate, Write, pool
<1>9. Step(t) =>
        \/ OpenDone(t) \/ CloseRemove(t) \/ DemoteMeasure(t)
        \/ (bytes' = bytes \/ \E stale : bytes' = Refreshed(stale)) /\ shards' = shards
  BY DEF Step, SlowHit, OpenerHit, TakeGate, OpenShard, OpenFail, UnlockGate, RetireGates,
      DropShard, BudgetDone, BudgetPick, DemoteNothing, DemoteShard, DemoteFail,
      CloseRefused, CloseDrop, WalkOne, WalkDone, pool
<1> QED
  BY <1>2, <1>3, <1>4, <1>5, <1>6, <1>7, <1>8, <1>9

(* Each step keeps the residency of the shards and the locals of the calls. *)
LEMMA ResidencyStep ==
  ASSUME Locals, NEW t \in Threads, Call(t) \/ LockGate(t) \/ Write(t) \/ Step(t)
  PROVE  viewed' \in [Insts -> BOOLEAN]
<1>1. viewed \in [Insts -> BOOLEAN]
  BY DEF Locals
<1>2. ASSUME NEW i, NEW v \in BOOLEAN PROVE [viewed EXCEPT ![i] = v] \in [Insts -> BOOLEAN]
  BY <1>1, Zenon
<1>3. Call(t) \/ LockGate(t) => viewed' = viewed
  BY DEF Call, GetHit, GetMiss, BudgetPass, Evict, CloseClaim, WalkAll, Stats, LockGate, disk
<1> DEFINE OneSet == \E i : \E v \in BOOLEAN : viewed' = [viewed EXCEPT ![i] = v]
<1>4. Write(t) => OneSet
  BY DEF Write, Promote
<1>5. OpenDone(t) => OneSet
  <2>1. (task[t] = "read") \in BOOLEAN
    OBVIOUS
  <2> QED
    BY <2>1, Zenon DEF OpenDone
<1>6. DemoteShard(t) \/ CloseDrop(t) => OneSet
  BY DEF DemoteShard, CloseDrop
<1>7. WalkOne(t) => OneSet \/ viewed' = viewed
  BY DEF WalkOne, Promote
<1>8. Step(t) => OpenDone(t) \/ DemoteShard(t) \/ CloseDrop(t) \/ WalkOne(t) \/ viewed' = viewed
  BY DEF Step, SlowHit, OpenerHit, TakeGate, OpenShard, OpenFail, UnlockGate, RetireGates,
      DropShard, BudgetDone, BudgetPick, DemoteNothing, DemoteMeasure, DemoteFail,
      CloseRefused, CloseRemove, WalkDone, disk
<1> QED
  BY <1>1, <1>2, <1>3, <1>4, <1>5, <1>6, <1>7, <1>8

LEMMA LocalsStep ==
  ASSUME PoolInv, Locals, NEW t \in Threads, Call(t) \/ LockGate(t) \/ Write(t) \/ Step(t)
  PROVE  Locals'
<1>1. viewed' \in [Insts -> BOOLEAN]
  BY ResidencyStep
<1> DEFINE Tasks == {"none", "get", "read", "pass", "evict", "close", "walk"}
<1>2. /\ made \subseteq Workspaces /\ task \in [Threads -> Tasks]
      /\ skip \in [Threads -> SUBSET Workspaces]
      /\ \A u \in Threads : pc[u] = "demote" => target[u] \in arcs[u]
      /\ pc \in [Threads -> Positions] /\ arcs \in [Threads -> SUBSET Insts]
      /\ target \in [Threads -> Insts \cup {None}]
  BY DEF Locals, PoolInv, PoolTypes
<1>3. made' \subseteq Workspaces
  <2>1. CASE OpenShard(t)
    BY <1>2, <2>1 DEF OpenShard, PoolInv, PoolSafe, GateExclusive
  <2>2. Call(t) \/ LockGate(t) \/ Write(t) => made' = made
    BY DEF Call, GetHit, GetMiss, BudgetPass, Evict, CloseClaim, WalkAll, Stats, LockGate,
        Write, disk
  <2>3. Step(t) => OpenShard(t) \/ made' = made
    BY DEF Step, SlowHit, OpenerHit, TakeGate, OpenDone, OpenFail, UnlockGate, RetireGates,
        DropShard, BudgetDone, BudgetPick, DemoteNothing, DemoteShard, DemoteMeasure,
        DemoteFail, CloseRefused, CloseRemove, CloseDrop, WalkOne, WalkDone, disk
  <2> QED
    BY <1>2, <2>1, <2>2, <2>3
<1>4. task' = task \/ \E x \in Tasks : task' = [task EXCEPT ![t] = x]
  <2>1. Call(t) \/ LockGate(t) \/ Write(t) => <1>4!:
    BY DEF Call, GetHit, GetMiss, BudgetPass, Evict, CloseClaim, WalkAll, Stats, LockGate,
        Write
  <2>2. Step(t) => <1>4!:
    BY DEF Step, SlowHit, OpenerHit, TakeGate, OpenShard, OpenDone, OpenFail, UnlockGate,
        RetireGates, DropShard, BudgetDone, BudgetPick, DemoteNothing, DemoteShard,
        DemoteMeasure, DemoteFail, CloseRefused, CloseRemove, CloseDrop, WalkOne, WalkDone,
        Return, LeaveBudget, AfterDemote
  <2> QED
    BY <2>1, <2>2
<1>5. skip' = skip \/ \E x \in SUBSET Workspaces : skip' = [skip EXCEPT ![t] = x]
  <2>1. CASE DemoteNothing(t)
    <3>1. target[t] \in arcs[t] /\ pc[t] = "demote"
      BY <1>2, <2>1 DEF DemoteNothing
    <3>2. target[t] \in Insts /\ dir[target[t]] # None
      BY <1>2, <3>1 DEF PoolInv, PoolSafe, HeldIsMapped
    <3>3. dir[target[t]] \in Workspaces
      BY <3>2 DEF PoolInv, PoolTypes
    <3>4. Skipped(t) \in SUBSET Workspaces
      BY <1>2, <3>3 DEF Skipped
    <3> QED
      BY <2>1, <3>4 DEF DemoteNothing, AfterDemote, Return
  <2>2. CASE DemoteMeasure(t)
    BY <1>2, <2>2 DEF DemoteMeasure, AfterDemote, Return
  <2>3. Call(t) \/ LockGate(t) \/ Write(t) => skip' = skip
    BY DEF Call, GetHit, GetMiss, BudgetPass, Evict, CloseClaim, WalkAll, Stats, LockGate,
        Write
  <2>4. Step(t) => \/ DemoteNothing(t) \/ DemoteMeasure(t) \/ skip' = skip
                   \/ skip' = [skip EXCEPT ![t] = {}]
    BY DEF Step, SlowHit, OpenerHit, TakeGate, OpenShard, OpenDone, OpenFail, UnlockGate,
        RetireGates, DropShard, BudgetDone, BudgetPick, DemoteShard, DemoteFail,
        CloseRefused, CloseRemove, CloseDrop, WalkOne, WalkDone, Return, LeaveBudget
  <2> QED
    BY <2>1, <2>2, <2>3, <2>4
<1>6. \A u \in Threads : pc'[u] = "demote" => target'[u] \in arcs'[u]
  <2>1. Call(t) \/ LockGate(t) \/ Write(t) => <1>6!:
    BY <1>2 DEF Call, GetHit, GetMiss, BudgetPass, Evict, CloseClaim, WalkAll, Stats, LockGate,
        Write, Goto
  <2>2. Step(t) => <1>6!:
    BY <1>2 DEF Step, SlowHit, OpenerHit, TakeGate, OpenShard, OpenDone, OpenFail, UnlockGate,
        RetireGates, DropShard, BudgetDone, BudgetPick, DemoteNothing, DemoteShard,
        DemoteMeasure, DemoteFail, CloseRefused, CloseRemove, CloseDrop, WalkOne, WalkDone,
        Return, LeaveBudget, AfterDemote, Goto
  <2> QED
    BY <2>1, <2>2
<1>7. task' \in [Threads -> Tasks] /\ skip' \in [Threads -> SUBSET Workspaces]
  BY <1>2, <1>4, <1>5
<1> QED
  BY <1>1, <1>3, <1>6, <1>7 DEF Locals

(* A list without repetitions is as long as its elements are many. *)
LEMMA DistinctLength ==
  ASSUME NEW S, NEW s \in Seq(S), Distinct(s)
  PROVE  Len(s) = Cardinality(Elems(s))
<1> DEFINE n == Len(s)
<1>1. n \in Nat /\ s \in [1 .. n -> Elems(s)]
  BY DEF Elems
<1>2. s \in Bijection(1 .. n, Elems(s))
  <2>1. \A x \in Elems(s) : \E j \in 1 .. n : s[j] = x
    BY DEF Elems
  <2>2. \A j, k \in 1 .. n : s[j] = s[k] => j = k
    BY DEF Distinct
  <2> HIDE DEF n
  <2> QED
    BY <1>1, <2>1, <2>2 DEF Bijection, Injection, Surjection, IsInjective
<1>3. IsFiniteSet(1 .. n) /\ Cardinality(1 .. n) = n
  BY <1>1, FS_Interval
<1>4. ExistsBijection(1 .. n, Elems(s))
  BY <1>2 DEF ExistsBijection
<1> QED
  BY <1>3, <1>4, FS_Bijection

EntryInv == PoolInv /\ Recency /\ Figures /\ Locals

(* For any threads and workspaces every variable of the pool keeps its type: *)
(* the recency order has the loaded workspaces, each once, only they have a  *)
(* figure, and what the budget loop skips are workspaces (Inner, touch,      *)
(* refresh_bytes, enforce_budget).                                           *)
THEOREM PoolTypesHold == Spec => []TypeOK
<1>1. Init => EntryInv
  <2> SUFFICES ASSUME Init PROVE EntryInv
    OBVIOUS
  <2>1. PoolInv
    BY DEF Init, PoolInv, PoolTypes, PoolSafe, GateExclusive, HeldIsMapped,
           OpeningApart, ClosingApart, Loaded, Positions
  <2>2. Recency
    BY DEF Init, Recency, Distinct, Elems, Loaded
  <2>3. Figures
    BY DEF Init, Figures
  <2>4. Locals
    BY DEF Init, Locals
  <2> QED
    BY <2>1, <2>2, <2>3, <2>4 DEF EntryInv
<1>2. EntryInv /\ [Next]_vars => EntryInv'
  <2> SUFFICES ASSUME EntryInv, [Next]_vars PROVE EntryInv'
    OBVIOUS
  <2>1. CASE Next
    BY <2>1, CallSafe, StepSafe, LockGateSafe, WriteSafe, RecencyStep, FiguresStep, LocalsStep
    DEF Next, EntryInv
  <2>2. CASE UNCHANGED vars
    <3>1. PoolInv'
      BY <2>2 DEF EntryInv, PoolInv, PoolTypes, PoolSafe, GateExclusive, HeldIsMapped,
          OpeningApart, ClosingApart, Loaded, Mapped, Positions, vars
    <3>2. Recency' /\ Figures' /\ Locals'
      BY <2>2, RecencyStutters DEF EntryInv, Figures, Locals, Loaded, vars
    <3> QED
      BY <3>1, <3>2 DEF EntryInv
  <2> QED
    BY <2>1, <2>2
<1>3. EntryInv => TypeOK
  <2> SUFFICES ASSUME EntryInv PROVE TypeOK
    OBVIOUS
  <2>1. lru \in Seq(Workspaces) /\ Distinct(lru) /\ Elems(lru) = {w \in Workspaces : Loaded(w)}
    BY DEF EntryInv, Recency
  <2>2. {lru[k] : k \in DOMAIN lru} = {w \in Workspaces : Loaded(w)}
    BY <2>1 DEF Elems
  <2>3. Len(lru) = Cardinality({w \in Workspaces : Loaded(w)})
    BY <2>1, DistinctLength
  <2> QED
    BY <2>2, <2>3 DEF EntryInv, PoolInv, PoolTypes, Figures, Locals, TypeOK
<1> QED
  BY <1>1, <1>2, <1>3, PTL DEF Spec

=============================================================================
