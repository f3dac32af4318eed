----------------------------- MODULE ServerProofs -----------------------------
(***************************************************************************)
(* Theorems about module Server, for any number of threads, workspaces,    *)
(* requests and restarts: under the per-request policy an acknowledged     *)
(* write is on the device, and every request has one outcome.              *)
(***************************************************************************)
EXTENDS Server, TLAPS

Steps == {"recv", "refuse", "embed", "find", "read", "write", "sync"}
Outcomes == {"ok", "missing", "error"}

(* The part of the state the invariant speaks about. *)
relevant == <<policy, log, synced, asked, count, reply, pc, job>>

StoreTypes ==
  /\ log \in [Workspaces -> Seq(Ids)]
  /\ synced \in [Workspaces -> Nat]
  /\ \A w \in Workspaces : synced[w] <= Len(log[w])

ClientTypes ==
  /\ count \in 0 .. MaxRequests
  /\ asked \in [Ids -> Requests \cup {NoRequest}]
  /\ reply \in [Ids -> Seq(Outcomes)]
  /\ pc \in [Threads -> Steps]
  /\ job \in [Threads -> 0 .. count]
  /\ \A t \in Threads : pc[t] # "recv" => job[t] # None
  /\ \A r \in Ids : r > count => reply[r] = <<>> /\ asked[r] = NoRequest

(* A thread's step goes with its request, and a write that waits for the   *)
(* device is in its log.                                                   *)
StepsMatch ==
  \A t \in Threads :
    /\ pc[t] = "embed" => asked[job[t]].kind = "insert"
    /\ pc[t] = "find" => asked[job[t]].kind \in {"delete", "retrieve"}
    /\ pc[t] = "read" => asked[job[t]].kind = "retrieve"
    /\ pc[t] = "write" => asked[job[t]].kind \in {"insert", "delete"}
    /\ pc[t] = "sync" => Logged(job[t])

JobsApart ==
  \A t, u \in Threads : t # u /\ job[t] # None => job[t] # job[u]

IInv == StoreTypes /\ ClientTypes /\ StepsMatch /\ JobsApart /\ AckedDurable /\ OneOutcome

-----------------------------------------------------------------------------
(* Sequences and requests *)

(* What Append does to the length and the elements of a log. *)
LEMMA AppendFacts ==
  ASSUME NEW S, NEW s \in Seq(S), NEW e \in S
  PROVE  /\ Append(s, e) \in Seq(S)
         /\ Len(Append(s, e)) = Len(s) + 1
         /\ \A i \in 1 .. Len(s) : Append(s, e)[i] = s[i]
         /\ Append(s, e)[Len(s) + 1] = e
         /\ Len(s) \in Nat
  OBVIOUS

(* A prefix of a log has the elements of the log. *)
LEMMA PrefixFacts ==
  ASSUME NEW S, NEW s \in Seq(S), NEW n \in 0 .. Len(s)
  PROVE  /\ SubSeq(s, 1, n) \in Seq(S)
         /\ Len(SubSeq(s, 1, n)) = n
         /\ \A i \in 1 .. n : SubSeq(s, 1, n)[i] = s[i]
  OBVIOUS

(* A request that names a workspace names one of Workspaces. *)
LEMMA RequestFacts ==
  ASSUME NEW q \in Requests \cup {NoRequest}
  PROVE  /\ q.kind \in {"insert", "delete", "retrieve", "bad", "none"}
         /\ q.kind \in {"insert", "delete", "retrieve"} => q.ws \in Workspaces
         /\ q.kind = "none" <=> q = NoRequest
  BY ServerAssumption DEF NoRequest

-----------------------------------------------------------------------------
(* The initial state satisfies the invariant. *)
LEMMA InitSafe == Init => IInv
  <1> SUFFICES ASSUME Init PROVE IInv
    OBVIOUS
  <1>1. StoreTypes
    BY DEF Init, StoreTypes
  <1>2. ClientTypes
    BY ServerAssumption DEF Init, ClientTypes, Ids, None, Steps
  <1>3. StepsMatch /\ JobsApart
    BY DEF Init, StepsMatch, JobsApart
  <1>4. AckedDurable /\ OneOutcome
    BY DEF Init, AckedDurable, OneOutcome, Acknowledged, Written
  <1> QED
    BY <1>1, <1>2, <1>3, <1>4 DEF IInv

(* A step that leaves the relevant state alone preserves the invariant. *)
LEMMA StutterSafe ==
  ASSUME IInv, UNCHANGED relevant
  PROVE  IInv'
  BY DEF IInv, relevant, StoreTypes, ClientTypes, StepsMatch, JobsApart, AckedDurable,
         OneOutcome, Acknowledged, Written, Logged, OnDevice

-----------------------------------------------------------------------------
(* The store only grows, except in a power loss *)

StoreGrows ==
  /\ StoreTypes'
  /\ \A w \in Workspaces :
       /\ synced[w] <= synced'[w] /\ Len(log[w]) <= Len(log'[w])
       /\ \A i \in 1 .. Len(log[w]) : log'[w][i] = log[w][i]

(* A step that leaves the store alone counts as growth. *)
LEMMA SameStoreGrows ==
  ASSUME StoreTypes, UNCHANGED <<log, synced>>
  PROVE  StoreGrows
  <1>1. \A w \in Workspaces : Len(log[w]) \in Nat
    BY DEF StoreTypes
  <1> QED
    BY <1>1 DEF StoreGrows, StoreTypes

(* Accepting a write extends one log by it. *)
LEMMA AcceptGrows ==
  ASSUME StoreTypes, NEW w \in Workspaces, NEW r \in Ids, Accept(w, r), synced' = synced
  PROVE  /\ StoreGrows
         /\ Len(log[w]) + 1 \in DOMAIN log'[w] /\ log'[w][Len(log[w]) + 1] = r
  <1> DEFINE new == Append(log[w], r)
  <1>1. /\ new \in Seq(Ids) /\ Len(new) = Len(log[w]) + 1
        /\ \A i \in 1 .. Len(log[w]) : new[i] = log[w][i]
        /\ new[Len(log[w]) + 1] = r
        /\ Len(log[w]) \in Nat
    BY AppendFacts DEF StoreTypes
  <1>2. log' = [log EXCEPT ![w] = new]
    BY DEF Accept
  <1>3. log'[w] = new /\ \A v \in Workspaces \ {w} : log'[v] = log[v]
    BY <1>2 DEF StoreTypes
  <1>4. \A v \in Workspaces : Len(log[v]) \in Nat
    BY DEF StoreTypes
  <1>5. log' \in [Workspaces -> Seq(Ids)]
    BY <1>1, <1>2 DEF StoreTypes
  <1> HIDE DEF new
  <1>6. \A v \in Workspaces :
          /\ synced'[v] <= Len(log'[v])
          /\ synced[v] <= synced'[v] /\ Len(log[v]) <= Len(log'[v])
          /\ \A i \in 1 .. Len(log[v]) : log'[v][i] = log[v][i]
    BY <1>1, <1>3, <1>4 DEF StoreTypes
  <1>7. Len(log[w]) + 1 \in DOMAIN log'[w]
    BY <1>1, <1>3
  <1>8. StoreTypes'
    BY <1>5, <1>6 DEF StoreTypes
  <1> QED
    BY <1>1, <1>3, <1>6, <1>7, <1>8 DEF StoreGrows

(* A sync puts the whole of one log on the device. *)
LEMMA SyncGrows ==
  ASSUME StoreTypes, NEW w \in Workspaces, SyncShard(w), log' = log
  PROVE  StoreGrows /\ synced'[w] = Len(log[w])
  <1>1. \A v \in Workspaces : Len(log[v]) \in Nat
    BY DEF StoreTypes
  <1>2. /\ synced' \in [Workspaces -> Nat]
        /\ synced'[w] = Len(log[w])
        /\ \A v \in Workspaces \ {w} : synced'[v] = synced[v]
    BY <1>1 DEF StoreTypes, SyncShard
  <1>3. ASSUME NEW v \in Workspaces
        PROVE  synced[v] <= synced'[v] /\ synced'[v] <= Len(log[v])
    <2>1. synced[v] \in Nat /\ synced[v] <= Len(log[v]) /\ Len(log[v]) \in Nat
      BY <1>1 DEF StoreTypes
    <2>2. synced'[v] = Len(log[v]) \/ synced'[v] = synced[v]
      BY <1>2
    <2> QED
      BY <2>1, <2>2
  <1>4. StoreTypes'
    BY <1>2, <1>3 DEF StoreTypes
  <1> QED
    BY <1>1, <1>2, <1>3, <1>4 DEF StoreGrows

(* What is logged, and what is on the device, stays so while the store grows. *)
LEMMA GrowthKeeps ==
  ASSUME StoreTypes, ClientTypes, StoreGrows, asked' = asked, NEW r \in Ids
  PROVE  /\ Written(r)' <=> Written(r)
         /\ Logged(r) => Logged(r)'
         /\ OnDevice(r) => OnDevice(r)'
  <1>1. Written(r)' <=> Written(r)
    BY DEF Written
  <1>2. ASSUME Written(r) PROVE asked[r].ws \in Workspaces /\ asked'[r].ws = asked[r].ws
    BY <1>2, RequestFacts DEF Written, ClientTypes
  <1>3. \A w \in Workspaces : /\ Len(log[w]) \in Nat /\ Len(log'[w]) \in Nat
                              /\ DOMAIN log[w] = 1 .. Len(log[w])
                              /\ DOMAIN log'[w] = 1 .. Len(log'[w])
                              /\ synced[w] \in Nat /\ synced'[w] \in Nat
    BY DEF StoreTypes, StoreGrows
  <1>4. Logged(r) => Logged(r)'
    BY <1>1, <1>2, <1>3 DEF Logged, StoreGrows
  <1>5. ASSUME OnDevice(r) PROVE OnDevice(r)'
    <2> DEFINE w == asked[r].ws
    <2>1. Written(r) /\ w \in Workspaces /\ asked'[r].ws = w
      BY <1>2, <1>5 DEF OnDevice
    <2>2. PICK i \in 1 .. synced[w] : log[w][i] = r
      BY <1>5 DEF OnDevice
    <2> HIDE DEF w
    <2>3. i \in 1 .. synced'[w] /\ i \in 1 .. Len(log[w])
      BY <1>3, <2>1, <2>2 DEF StoreGrows, StoreTypes
    <2>4. log'[w][i] = r
      BY <2>1, <2>2, <2>3 DEF StoreGrows
    <2> QED
      BY <1>1, <2>1, <2>3, <2>4 DEF OnDevice
  <1> QED
    BY <1>1, <1>4, <1>5

(* A thread at work has one of the requests that arrived. *)
LEMMA JobFacts ==
  ASSUME ClientTypes, NEW t \in Threads
  PROVE  /\ job[t] # None => job[t] \in Ids /\ job[t] <= count
         /\ pc[t] # "recv" => job[t] # None
  BY ServerAssumption DEF ClientTypes, Ids, None

-----------------------------------------------------------------------------
(* The ways a step changes the relevant state *)

(* Only the store changes. *)
LEMMA StoreStepSafe ==
  ASSUME IInv, StoreGrows, UNCHANGED <<policy, asked, count, reply, pc, job>>
  PROVE  IInv'
  <1>1. ClientTypes' /\ JobsApart' /\ OneOutcome'
    BY DEF IInv, ClientTypes, JobsApart, OneOutcome
  <1>2. StoreTypes'
    BY DEF StoreGrows
  <1>3. \A t \in Threads : pc[t] = "sync" => job[t] \in Ids
    BY JobFacts DEF IInv
  <1>4. StepsMatch'
    BY <1>3, GrowthKeeps DEF IInv, StepsMatch
  <1>5. AckedDurable'
    BY GrowthKeeps DEF IInv, AckedDurable, Acknowledged
  <1> QED
    BY <1>1, <1>2, <1>4, <1>5 DEF IInv

(* A thread goes on to its handler's next step. *)
LEMMA GotoSafe ==
  ASSUME IInv, StoreGrows, policy' = policy, NEW t \in Threads, pc[t] # "recv",
         NEW step \in Steps \ {"recv"}, Goto(t, step),
         step \notin {"embed", "find", "refuse"},
         step = "read" => asked[job[t]].kind = "retrieve",
         step = "write" => asked[job[t]].kind \in {"insert", "delete"},
         step = "sync" => Logged(job[t])'
  PROVE  IInv'
  <1>1. /\ UNCHANGED <<asked, count, reply, job>>
        /\ pc' = [pc EXCEPT ![t] = step]
    BY DEF Goto, clients
  <1>2. ClientTypes' /\ JobsApart' /\ OneOutcome'
    BY <1>1 DEF IInv, ClientTypes, JobsApart, OneOutcome
  <1>3. StoreTypes'
    BY DEF StoreGrows
  <1>4. \A u \in Threads : pc[u] = "sync" => job[u] \in Ids
    BY JobFacts DEF IInv
  <1>5. \A u \in Threads \ {t} : pc'[u] = pc[u]
    BY <1>1 DEF IInv, ClientTypes
  <1>6. pc'[t] = step
    BY <1>1 DEF IInv, ClientTypes
  <1>7. \A u \in Threads : pc[u] = "sync" => Logged(job[u])'
    BY <1>1, <1>4, GrowthKeeps DEF IInv, StepsMatch
  <1>8. StepsMatch'
    BY <1>1, <1>5, <1>6, <1>7 DEF IInv, StepsMatch
  <1>9. AckedDurable'
    BY <1>1, GrowthKeeps DEF IInv, AckedDurable, Acknowledged
  <1> QED
    BY <1>2, <1>3, <1>8, <1>9 DEF IInv

(* A thread answers its request: under the per-request policy, a write only *)
(* when it is on the device.                                                *)
LEMMA RespondSafe ==
  ASSUME IInv, StoreGrows, policy' = policy, NEW t \in Threads, pc[t] # "recv",
         NEW outcome \in Outcomes, Respond(t, outcome),
         NEW me, me = job[t],
         outcome = "ok" /\ policy = "request" /\ Written(me) => OnDevice(me)'
  PROVE  IInv'
  <1>1. /\ UNCHANGED <<asked, count>>
        /\ reply' = [reply EXCEPT ![job[t]] = Append(reply[job[t]], outcome)]
        /\ pc' = [pc EXCEPT ![t] = "recv"]
        /\ job' = [job EXCEPT ![t] = None]
    BY DEF Respond
  <1>2. job[t] \in Ids /\ job[t] <= count /\ job[t] # None
    BY JobFacts DEF IInv
  <1>3. reply[job[t]] = <<>>
    BY <1>2 DEF IInv, OneOutcome
  <1>4. Append(reply[job[t]], outcome) = <<outcome>>
    BY <1>3
  <1>5. /\ reply'[job[t]] = <<outcome>>
        /\ \A r \in Ids \ {job[t]} : reply'[r] = reply[r]
        /\ reply' \in [Ids -> Seq(Outcomes)]
    BY <1>1, <1>2, <1>4 DEF IInv, ClientTypes
  <1>6. /\ pc'[t] = "recv" /\ job'[t] = None
        /\ \A u \in Threads \ {t} : pc'[u] = pc[u] /\ job'[u] = job[u]
        /\ pc' \in [Threads -> Steps] /\ job' \in [Threads -> 0 .. count]
    BY <1>1 DEF IInv, ClientTypes, Steps, None
  <1>7. ClientTypes'
    BY <1>1, <1>2, <1>5, <1>6 DEF IInv, ClientTypes
  <1>8. JobsApart'
    BY <1>6 DEF IInv, JobsApart
  <1>9. OneOutcome'
    <2>1. ASSUME NEW r \in Ids PROVE Len(reply'[r]) <= 1
      <3>1. CASE r = job[t]
        <4>1. Len(<<outcome>>) = 1
          OBVIOUS
        <4>2. reply'[r] = <<outcome>>
          BY <1>5, <3>1
        <4>3. Len(reply'[r]) = 1
          BY <4>1, <4>2, Zenon
        <4> QED
          BY <4>3
      <3>2. CASE r # job[t]
        BY <1>5, <3>2 DEF IInv, OneOutcome
      <3> QED
        BY <3>1, <3>2
    <2>2. ASSUME NEW u \in Threads, job'[u] # None PROVE reply'[job'[u]] = <<>>
      <3>1. u # t /\ job'[u] = job[u]
        BY <1>6, <2>2
      <3>2. job[u] # job[t] /\ job[u] \in Ids
        BY <1>2, <2>2, <3>1, JobFacts DEF IInv, JobsApart
      <3> QED
        BY <1>5, <2>2, <3>1, <3>2 DEF IInv, OneOutcome
    <2> QED
      BY <2>1, <2>2 DEF OneOutcome
  <1>10. StoreTypes'
    BY DEF StoreGrows
  <1>11. \A u \in Threads : pc[u] = "sync" => job[u] \in Ids
    BY JobFacts DEF IInv
  <1>12. StepsMatch'
    BY <1>1, <1>6, <1>11, GrowthKeeps DEF IInv, StepsMatch
  <1>13. AckedDurable'
    <2> SUFFICES ASSUME policy = "request", NEW r \in Ids, Acknowledged(r)'
                 PROVE  OnDevice(r)'
      BY DEF AckedDurable
    <2>1. Written(r)
      BY GrowthKeeps, <1>1 DEF Acknowledged, IInv
    <2>2. CASE r = job[t]
      <3>1. outcome = "ok"
        BY <1>5, <2>2 DEF Acknowledged
      <3> QED
        BY <2>1, <2>2, <3>1 DEF Written
    <2>3. CASE r # job[t]
      <3>1. Acknowledged(r)
        BY <1>5, <2>1, <2>3 DEF Acknowledged
      <3> QED
        BY <1>1, <3>1, GrowthKeeps DEF IInv, AckedDurable
    <2> QED
      BY <2>2, <2>3
  <1> QED
    BY <1>7, <1>8, <1>9, <1>10, <1>12, <1>13 DEF IInv

(* The process is gone: no thread is at work any more, and what was on the *)
(* device is on it still.                                                  *)
LEMMA GoneSafe ==
  ASSUME IInv, Gone, StoreTypes', UNCHANGED <<policy, asked, count, reply>>,
         \A r \in Ids : OnDevice(r) => OnDevice(r)'
  PROVE  IInv'
  <1>1. /\ pc' = [t \in Threads |-> "recv"]
        /\ job' = [t \in Threads |-> None]
    BY DEF Gone
  <1>2. ClientTypes'
    BY <1>1, ServerAssumption DEF IInv, ClientTypes, Steps, None
  <1>3. StepsMatch' /\ JobsApart'
    BY <1>1 DEF StepsMatch, JobsApart
  <1>4. OneOutcome'
    BY <1>1 DEF IInv, OneOutcome
  <1>5. AckedDurable'
    BY DEF IInv, AckedDurable, Acknowledged, Written
  <1> QED
    BY <1>2, <1>3, <1>4, <1>5 DEF IInv

(* The process ends with the files as they are. *)
LEMMA ExitSafe ==
  ASSUME IInv, Gone, UNCHANGED <<policy, log, synced, asked, count, reply>>
  PROVE  IInv'
  <1>1. StoreTypes'
    BY DEF IInv, StoreTypes
  <1>2. \A r \in Ids : OnDevice(r) => OnDevice(r)'
    BY DEF OnDevice, Written
  <1> QED
    BY <1>1, <1>2, GoneSafe

(* A power loss keeps what is on the device. *)
LEMMA PowerLossSafe ==
  ASSUME IInv, PowerLoss
  PROVE  IInv'
  <1>1. PICK kept \in [Workspaces -> 0 .. MaxRequests] :
          /\ \A w \in Workspaces : synced[w] <= kept[w] /\ kept[w] <= Len(log[w])
          /\ log' = [w \in Workspaces |-> SubSeq(log[w], 1, kept[w])]
          /\ synced' = kept
    BY DEF PowerLoss
  <1>2. ASSUME NEW w \in Workspaces
        PROVE  /\ log[w] \in Seq(Ids) /\ synced[w] \in Nat
               /\ kept[w] \in Nat /\ kept[w] \in 0 .. Len(log[w])
    BY <1>1, ServerAssumption DEF IInv, StoreTypes
  <1>3. ASSUME NEW w \in Workspaces
        PROVE  /\ log'[w] \in Seq(Ids) /\ Len(log'[w]) = kept[w]
               /\ \A i \in 1 .. kept[w] : log'[w][i] = log[w][i]
    BY <1>1, <1>2, PrefixFacts
  <1>4. StoreTypes'
    BY <1>1, <1>2, <1>3 DEF StoreTypes
  <1>5. ASSUME NEW r \in Ids, OnDevice(r) PROVE OnDevice(r)'
    <2> DEFINE w == asked[r].ws
    <2>1. asked' = asked
      BY DEF PowerLoss, clients
    <2>2. Written(r) /\ Written(r)'
      BY <1>5, <2>1 DEF OnDevice, Written
    <2>3. w \in Workspaces
      BY <2>2, RequestFacts DEF Written, IInv, ClientTypes
    <2>4. PICK i \in 1 .. synced[w] : log[w][i] = r
      BY <1>5 DEF OnDevice
    <2>5. asked'[r].ws = w
      BY <2>1
    <2> HIDE DEF w
    <2>6. i \in 1 .. synced'[w] /\ log'[w][i] = r
      BY <1>1, <1>2, <1>3, <2>3, <2>4
    <2> QED
      BY <2>2, <2>5, <2>6 DEF OnDevice
  <1>6. Gone /\ UNCHANGED <<policy, asked, count, reply>>
    BY DEF PowerLoss, clients
  <1> QED
    BY <1>4, <1>5, <1>6, GoneSafe

(* A request arrives at an idle thread. *)
LEMMA ReceiveSafe ==
  ASSUME IInv, NEW t \in Threads, NEW q \in Requests, Receive(t, q)
  PROVE  IInv'
  <1> DEFINE n == count + 1
  <1>1. /\ count' = n
        /\ asked' = [asked EXCEPT ![n] = q]
        /\ pc' = [pc EXCEPT ![t] = FirstStep(q.kind)]
        /\ job' = [job EXCEPT ![t] = n]
        /\ UNCHANGED <<policy, log, synced, reply>>
    BY DEF Receive, store
  <1>2. /\ count \in Nat /\ n \in Ids /\ n # None /\ n > count /\ n <= MaxRequests
        /\ n \in 0 .. MaxRequests
    BY ServerAssumption DEF Receive, IInv, ClientTypes, Ids, None
  <1>3. reply[n] = <<>> /\ asked[n] = NoRequest
    BY <1>2 DEF IInv, ClientTypes
  <1>4. ASSUME NEW u \in Threads
        PROVE  job[u] # n /\ (job[u] # None => job[u] \in Ids)
    BY <1>2, JobFacts DEF IInv, None, ClientTypes
  <1>5. /\ asked'[n] = q
        /\ \A r \in Ids \ {n} : asked'[r] = asked[r]
        /\ asked' \in [Ids -> Requests \cup {NoRequest}]
    BY <1>1, <1>2 DEF IInv, ClientTypes
  <1>6. q.kind \in {"insert", "delete", "retrieve", "bad"}
    BY ServerAssumption
  <1>7. /\ q.kind = "insert" => FirstStep(q.kind) = "embed"
        /\ q.kind \in {"delete", "retrieve"} => FirstStep(q.kind) = "find"
        /\ q.kind = "bad" => FirstStep(q.kind) = "refuse"
    BY DEF FirstStep
  <1> HIDE DEF n
  <1>8. /\ pc'[t] = FirstStep(q.kind) /\ job'[t] = n
        /\ \A u \in Threads \ {t} : pc'[u] = pc[u] /\ job'[u] = job[u]
        /\ pc' \in [Threads -> Steps] /\ job' \in [Threads -> 0 .. count']
    <2>1. FirstStep(q.kind) \in Steps
      BY <1>6, <1>7 DEF Steps
    <2>2. \A u \in Threads : job[u] \in 0 .. n
      BY <1>2 DEF IInv, ClientTypes, n
    <2> QED
      BY <1>1, <1>2, <2>1, <2>2 DEF IInv, ClientTypes
  <1>9. ClientTypes'
    <2>1. \A r \in Ids : r > n => r # n /\ r > count
      BY <1>2 DEF Ids
    <2>2. \A r \in Ids : r > n => reply'[r] = <<>> /\ asked'[r] = NoRequest
      BY <1>1, <1>5, <2>1 DEF IInv, ClientTypes
    <2>3. \A u \in Threads : pc'[u] # "recv" => job'[u] # None
      BY <1>2, <1>8 DEF IInv, ClientTypes
    <2> QED
      BY <1>1, <1>2, <1>5, <1>8, <2>2, <2>3 DEF IInv, ClientTypes
  <1>10. JobsApart'
    BY <1>2, <1>4, <1>8 DEF IInv, JobsApart
  <1>11. OneOutcome'
    BY <1>1, <1>3, <1>8 DEF IInv, OneOutcome
  <1>12. ASSUME NEW r \in Ids
         PROVE  /\ Logged(r) => Logged(r)'
                /\ OnDevice(r) => OnDevice(r)'
    <2>1. Written(r) => asked'[r] = asked[r]
      BY <1>3, <1>5 DEF Written, NoRequest
    <2> QED
      BY <1>1, <2>1 DEF Logged, OnDevice, Written
  <1>13. AckedDurable'
    <2> SUFFICES ASSUME policy = "request", NEW r \in Ids, Acknowledged(r)'
                 PROVE  OnDevice(r)'
      BY <1>1 DEF AckedDurable
    <2>1. r # n
      BY <1>1, <1>3 DEF Acknowledged
    <2>2. Acknowledged(r)
      BY <1>1, <1>5, <2>1 DEF Acknowledged, Written
    <2> QED
      BY <1>12, <2>2 DEF IInv, AckedDurable
  <1>14. StepsMatch'
    <2> SUFFICES ASSUME NEW u \in Threads
                 PROVE  /\ pc'[u] = "embed" => asked'[job'[u]].kind = "insert"
                        /\ pc'[u] = "find" => asked'[job'[u]].kind \in {"delete", "retrieve"}
                        /\ pc'[u] = "read" => asked'[job'[u]].kind = "retrieve"
                        /\ pc'[u] = "write" => asked'[job'[u]].kind \in {"insert", "delete"}
                        /\ pc'[u] = "sync" => Logged(job[u])'
      BY DEF StepsMatch
    <2>1. CASE u = t
      BY <1>5, <1>6, <1>7, <1>8, <2>1
    <2>2. CASE u # t
      <3>1. pc'[u] = pc[u] /\ job'[u] = job[u]
        BY <1>8, <2>2
      <3>2. pc[u] # "recv" => job[u] \in Ids /\ asked'[job[u]] = asked[job[u]]
        BY <1>4, <1>5, JobFacts DEF IInv
      <3>3. pc[u] = "sync" => Logged(job[u])'
        BY <1>12, <3>1, <3>2 DEF IInv, StepsMatch
      <3> QED
        BY <3>1, <3>2, <3>3 DEF IInv, StepsMatch
    <2> QED
      BY <2>1, <2>2
  <1>15. StoreTypes'
    BY <1>1 DEF IInv, StoreTypes
  <1> QED
    BY <1>9, <1>10, <1>11, <1>13, <1>14, <1>15 DEF IInv

-----------------------------------------------------------------------------
(* The steps of a thread *)

(* Every step of a handler preserves the invariant. *)
LEMMA StepSafe ==
  ASSUME IInv, NEW t \in Threads, Step(t)
  PROVE  IInv'
  <1> DEFINE r == job[t]
             w == Request(t).ws
  <1>1. StoreTypes /\ ClientTypes
    BY DEF IInv
  <1>2. pc[t] # "recv" /\ policy' = policy
    BY DEF Step, Refuse, EmbedFails, OpenShard, FindShard, Read, DeleteNothing, Write,
           WriteFails, Sync, SyncFails
  <1>3. r \in Ids
    BY <1>1, <1>2, JobFacts
  <1>4. asked[r].kind \in {"insert", "delete", "retrieve"} => w \in Workspaces
    BY <1>1, <1>3, RequestFacts DEF Request, ClientTypes
  <1>5. UNCHANGED <<log, synced>> => StoreGrows
    BY <1>1, SameStoreGrows
  <1>6. {"ok", "missing", "error"} \subseteq Outcomes
    BY DEF Outcomes
  <1>7. {"read", "write", "sync"} \subseteq Steps \ {"recv"}
    BY DEF Steps
  <1>8. CASE Refuse(t) \/ EmbedFails(t) \/ DeleteNothing(t) \/ SyncFails(t)
    <2>1. \E outcome \in {"missing", "error"} : Respond(t, outcome)
      BY <1>8 DEF Refuse, EmbedFails, DeleteNothing, SyncFails
    <2>2. UNCHANGED <<log, synced>>
      BY <1>8 DEF Refuse, EmbedFails, DeleteNothing, SyncFails, store
    <2> QED
      BY <1>2, <1>5, <1>6, <2>1, <2>2, RespondSafe
  <1>9. CASE OpenShard(t)
    <2>1. UNCHANGED <<log, synced>>
      BY <1>9 DEF OpenShard
    <2>2. CASE Respond(t, "error")
      BY <1>2, <1>5, <1>6, <2>1, <2>2, RespondSafe
    <2>3. CASE Goto(t, "write")
      <3>1. asked[r].kind = "insert"
        BY <1>9 DEF OpenShard, IInv, StepsMatch
      <3> QED
        BY <1>2, <1>5, <1>7, <2>1, <2>3, <3>1, GotoSafe
    <2> QED
      BY <1>9, <2>2, <2>3 DEF OpenShard
  <1>10. CASE FindShard(t)
    <2>1. UNCHANGED <<log, synced>>
      BY <1>10 DEF FindShard, store
    <2>2. CASE \E outcome \in {"missing", "error"} : Respond(t, outcome)
      BY <1>2, <1>5, <1>6, <2>1, <2>2, RespondSafe
    <2>3. CASE Goto(t, IF Request(t).kind = "delete" THEN "write" ELSE "read")
      <3>1. asked[r].kind \in {"delete", "retrieve"} /\ Request(t) = asked[r]
        BY <1>10 DEF FindShard, IInv, StepsMatch, Request
      <3>2. CASE asked[r].kind = "delete"
        <4>1. Goto(t, "write")
          BY <2>3, <3>1, <3>2
        <4> QED
          BY <1>2, <1>5, <1>7, <2>1, <3>2, <4>1, GotoSafe
      <3>3. CASE asked[r].kind = "retrieve"
        <4>1. Goto(t, "read")
          BY <2>3, <3>1, <3>3
        <4> QED
          BY <1>2, <1>5, <1>7, <2>1, <3>3, <4>1, GotoSafe
      <3> QED
        BY <3>1, <3>2, <3>3
    <2> QED
      BY <1>10, <2>2, <2>3 DEF FindShard
  <1>11. CASE Read(t)
    <2>1. UNCHANGED <<log, synced>>
      BY <1>11 DEF Read, store
    <2>2. ~ Written(r)
      BY <1>11 DEF Read, IInv, StepsMatch, Written
    <2>3. \E outcome \in {"ok", "missing", "error"} : Respond(t, outcome)
      BY <1>11 DEF Read
    <2> QED
      BY <1>2, <1>5, <1>6, <2>1, <2>2, <2>3, RespondSafe
  <1>12. CASE Write(t)
    <2>1. asked[r].kind \in {"insert", "delete"} /\ w \in Workspaces
      BY <1>4, <1>12 DEF Write, IInv, StepsMatch
    <2>2. Accept(w, r) /\ UNCHANGED <<synced, policy>>
      BY <1>12 DEF Write
    <2>3. /\ StoreGrows
          /\ Len(log[w]) + 1 \in DOMAIN log'[w] /\ log'[w][Len(log[w]) + 1] = r
      BY <1>1, <1>3, <2>1, <2>2, AcceptGrows
    <2>4. CASE policy = "request"
      <3>1. Goto(t, "sync")
        BY <1>12, <2>4 DEF Write
      <3>2. UNCHANGED <<asked, job>>
        BY <3>1 DEF Goto, clients
      <3>3. asked[r].ws = w
        BY DEF Request
      <3>4. Logged(job[t])'
        BY <2>1, <2>3, <3>2, <3>3 DEF Logged, Written
      <3> QED
        BY <1>2, <1>7, <2>3, <3>1, <3>4, GotoSafe
    <2>5. CASE policy # "request"
      <3>1. Respond(t, "ok")
        BY <1>12, <2>5 DEF Write
      <3> QED
        BY <1>2, <1>6, <2>3, <2>5, <3>1, RespondSafe
    <2> QED
      BY <2>4, <2>5
  <1>13. CASE WriteFails(t)
    <2>1. asked[r].kind \in {"insert", "delete"} /\ w \in Workspaces
      BY <1>4, <1>13 DEF WriteFails, IInv, StepsMatch
    <2>2. (Accept(w, r) \/ log' = log) /\ synced' = synced /\ Respond(t, "error")
      BY <1>13 DEF WriteFails
    <2>3. StoreGrows
      BY <1>1, <1>3, <1>5, <2>1, <2>2, AcceptGrows
    <2> QED
      BY <1>2, <1>6, <2>2, <2>3, RespondSafe
  <1>14. CASE Sync(t)
    <2>1. SyncShard(w) /\ log' = log /\ Respond(t, "ok")
      BY <1>14 DEF Sync
    <2>2. Logged(r) /\ asked' = asked
      BY <1>14 DEF Sync, IInv, StepsMatch, Respond
    <2>3. w \in Workspaces /\ asked[r].ws = w
      BY <1>4, <2>2 DEF Logged, Written, Request
    <2>4. StoreGrows /\ synced'[w] = Len(log[w])
      BY <1>1, <2>1, <2>3, SyncGrows
    <2>5. DOMAIN log[w] = 1 .. Len(log[w])
      BY <1>1, <2>3 DEF StoreTypes
    <2>6. ASSUME NEW me, me = job[t] PROVE OnDevice(me)'
      <3>1. PICK i \in DOMAIN log[w] : log[w][i] = me
        BY <2>2, <2>3, <2>6 DEF Logged
      <3>2. Written(me) /\ asked'[me].ws = w
        BY <2>2, <2>3, <2>6 DEF Logged
      <3> QED
        BY <2>1, <2>2, <2>4, <2>5, <3>1, <3>2 DEF OnDevice, Written
    <2> QED
      BY <1>2, <1>6, <2>1, <2>4, <2>6, RespondSafe
  <1> QED
    BY <1>8, <1>9, <1>10, <1>11, <1>12, <1>13, <1>14 DEF Step

-----------------------------------------------------------------------------
(* Every step of the server preserves the invariant. *)
LEMMA NextSafe ==
  ASSUME IInv, [Next]_vars
  PROVE  IInv'
  <1>1. StoreTypes /\ ClientTypes
    BY DEF IInv
  <1>2. CASE \E t \in Threads, q \in Requests : Receive(t, q)
    BY <1>2, ReceiveSafe
  <1>3. CASE \E t \in Threads : Step(t)
    BY <1>3, StepSafe
  <1>4. CASE PassBegin \/ HandlerClaim \/ Signal \/ MainClaimed \/ Restart \/ UNCHANGED vars
             \/ \E w \in Workspaces : PassShardFails(w)
    <2>1. UNCHANGED relevant
      BY <1>4 DEF PassBegin, HandlerClaim, Signal, MainClaimed, Restart, vars, PassShardFails,
                  relevant, store, clients, threads
    <2> QED
      BY <2>1, StutterSafe
  <1>5. ASSUME NEW w \in Workspaces, PassShard(w) \/ HandlerShard(w)
        PROVE  IInv'
    <2>1. /\ SyncShard(w) \/ synced' = synced
          /\ UNCHANGED <<policy, log, asked, count, reply, pc, job>>
      BY <1>5 DEF PassShard, HandlerShard, clients, threads
    <2>2. StoreGrows
      BY <1>1, <2>1, SyncGrows, SameStoreGrows
    <2> QED
      BY <2>1, <2>2, StoreStepSafe
  <1>6. CASE HandlerExit \/ MainTimeout \/ Kill
    <2>1. Gone /\ UNCHANGED <<policy, log, synced, asked, count, reply>>
      BY <1>6 DEF HandlerExit, MainTimeout, Kill, store, clients
    <2> QED
      BY <2>1, ExitSafe
  <1>7. CASE PowerLoss
    BY <1>7, PowerLossSafe
  <1> QED
    BY <1>2, <1>3, <1>4, <1>5, <1>6, <1>7 DEF Next, Maintain, Handle

(* Under the per-request policy, a write that was acknowledged is on the    *)
(* device, for any number of threads, workspaces, requests and crashes      *)
(* (process_document_insertion_request, process_document_deletion_request). *)
THEOREM AcknowledgedIsDurable == Spec => []AckedDurable
  <1>1. Init => IInv
    BY InitSafe
  <1>2. IInv /\ [Next]_vars => IInv'
    BY NextSafe
  <1>3. IInv => AckedDurable
    BY DEF IInv
  <1> QED
    BY <1>1, <1>2, <1>3, PTL DEF Spec

(* No request is answered twice, and none before its handler is through     *)
(* with it, for any number of threads (send_exception_response and the      *)
(* returns behind it).                                                      *)
THEOREM RequestsHaveOneOutcome == Spec => []OneOutcome
  <1>1. Init => IInv
    BY InitSafe
  <1>2. IInv /\ [Next]_vars => IInv'
    BY NextSafe
  <1>3. IInv => OneOutcome
    BY DEF IInv
  <1> QED
    BY <1>1, <1>2, <1>3, PTL DEF Spec

-----------------------------------------------------------------------------
(* Directories, passes and the shutdown *)

(* A directory was made for an insertion that had arrived; a shard that is *)
(* open, a log with something in it and a write about to happen have one.  *)
DirectoriesMade ==
  /\ made \subseteq {asked[r].ws : r \in {x \in Ids : asked[x].kind = "insert"}}
  /\ \A w \in Workspaces : log[w] # <<>> \/ w \in loaded => w \in made
  /\ loaded \subseteq Workspaces
  /\ \A t \in Threads : pc[t] = "write" => asked[job[t]].ws \in made

WalksTyped ==
  /\ policy \in Policies
  /\ up \in BOOLEAN /\ pass \subseteq Workspaces /\ left \subseteq Workspaces

DirInv == IInv /\ DirectoriesMade /\ WalksTyped

(* What a walk over the shards, a signal or an exit does to the types. *)
LEMMA WalksSafe ==
  ASSUME DirInv, [Next]_vars
  PROVE  WalksTyped'
  <1>1. loaded \subseteq Workspaces /\ policy \in Policies /\ pass \subseteq Workspaces
        /\ left \subseteq Workspaces
    BY DEF DirInv, DirectoriesMade, WalksTyped
  <1>2. policy' \in Policies /\ pass' \subseteq Workspaces /\ left' \subseteq Workspaces
    <2>1. CASE \E t \in Threads, q \in Requests : Receive(t, q)
      BY <1>1, <2>1 DEF Receive, shutdown
    <2>2. CASE \E t \in Threads : Step(t)
      BY <1>1, <2>2 DEF Step, Refuse, EmbedFails, OpenShard, FindShard, Read, DeleteNothing,
         Write, WriteFails, Sync, SyncFails, shutdown
    <2>3. CASE Maintain
      BY <1>1, <2>3 DEF Maintain, PassBegin, PassShard, PassShardFails, shutdown
    <2>4. CASE Handle
      BY <1>1, <2>4 DEF Handle, HandlerClaim, HandlerExit, HandlerShard, Gone
    <2>5. CASE Signal \/ MainClaimed \/ MainTimeout \/ UNCHANGED vars
      BY <1>1, <2>5 DEF Signal, MainClaimed, MainTimeout, Gone, vars
    <2>6. CASE Kill \/ PowerLoss \/ Restart
      BY <1>1, <2>6 DEF Kill, PowerLoss, Restart, Gone, NoShutdown
    <2> QED
      BY <2>1, <2>2, <2>3, <2>4, <2>5, <2>6 DEF Next
  <1>3. up' \in BOOLEAN
    BY DEF DirInv, WalksTyped, Next, Step, Maintain, Handle, Receive, Refuse, EmbedFails,
       OpenShard, FindShard, Read, DeleteNothing, Write, WriteFails, Sync, SyncFails,
       PassBegin, PassShard, PassShardFails, HandlerClaim, HandlerExit, HandlerShard, Signal,
       MainClaimed, MainTimeout, Kill, PowerLoss, Restart, Gone, shutdown, vars
  <1> QED
    BY <1>2, <1>3 DEF WalksTyped

(* A step that makes no directory, opens no shard and takes no write. *)
LEMMA NothingMade ==
  ASSUME DirInv, made' = made, loaded' \subseteq loaded, asked' = asked,
         \A w \in Workspaces : log'[w] # <<>> => log[w] # <<>>,
         \A t \in Threads : pc'[t] = "write" => pc[t] = "write" /\ job'[t] = job[t]
  PROVE  DirectoriesMade'
  BY DEF DirInv, DirectoriesMade

(* A request that arrives was not there before. *)
LEMMA ReceiveMakes ==
  ASSUME DirInv, NEW t \in Threads, NEW q \in Requests, Receive(t, q)
  PROVE  DirectoriesMade'
  <1> DEFINE n == count + 1
  <1>1. /\ asked' = [asked EXCEPT ![n] = q] /\ n \in Ids
        /\ pc' = [pc EXCEPT ![t] = FirstStep(q.kind)] /\ job' = [job EXCEPT ![t] = n]
        /\ UNCHANGED <<made, loaded, log>>
    <2>1. count < MaxRequests /\ count \in 0 .. MaxRequests
      BY DEF Receive, DirInv, IInv, ClientTypes
    <2>2. n \in Ids
      BY <2>1, ServerAssumption DEF Ids
    <2> QED
      BY <2>2 DEF Receive, store
  <1>2. asked[n].kind = "none"
    BY <1>1 DEF DirInv, IInv, ClientTypes, NoRequest
  <1>3. \A r \in Ids : asked[r].kind = "insert" => asked'[r] = asked[r]
    BY <1>1, <1>2 DEF DirInv, IInv, ClientTypes
  <1>4. FirstStep(q.kind) # "write"
    <2>1. q.kind \in {"insert", "delete", "retrieve", "bad"}
      BY ServerAssumption
    <2> QED
      BY <2>1 DEF FirstStep
  <1>5. \A u \in Threads : pc'[u] = "write" =>
          pc[u] = "write" /\ job'[u] = job[u] /\ asked'[job[u]] = asked[job[u]]
    <2>1. \A u \in Threads : pc[u] = "write" => job[u] # n
      BY JobFacts DEF DirInv, IInv, ClientTypes
    <2>2. \A u \in Threads : pc'[u] = "write" => u # t
      BY <1>1, <1>4 DEF DirInv, IInv, ClientTypes
    <2>3. \A u \in Threads \ {t} : pc'[u] = pc[u] /\ job'[u] = job[u]
      BY <1>1 DEF DirInv, IInv, ClientTypes
    <2>4. \A u \in Threads : pc[u] = "write" => job[u] \in Ids
      BY JobFacts DEF DirInv, IInv
    <2>5. \A r \in Ids \ {n} : asked'[r] = asked[r]
      BY <1>1 DEF DirInv, IInv, ClientTypes
    <2> QED
      BY <2>1, <2>2, <2>3, <2>4, <2>5
  <1>6. made' \subseteq {asked'[r].ws : r \in {x \in Ids : asked'[x].kind = "insert"}}
    BY <1>1, <1>3 DEF DirInv, DirectoriesMade
  <1> QED
    BY <1>1, <1>5, <1>6 DEF DirInv, DirectoriesMade

(* A handler's step makes a directory for an insertion only. *)
LEMMA StepMakes ==
  ASSUME DirInv, NEW t \in Threads, Step(t)
  PROVE  DirectoriesMade'
  <1> DEFINE r == job[t]
             w == asked[r].ws
  <1>1. pc[t] # "recv" /\ asked' = asked /\ r \in Ids
    BY JobFacts DEF Step, Refuse, EmbedFails, OpenShard, FindShard, Read, DeleteNothing, Write,
       WriteFails, Sync, SyncFails, Respond, Goto, clients, DirInv, IInv
  <1>2. asked[r].kind \in {"insert", "delete", "retrieve"} => w \in Workspaces
    BY <1>1, RequestFacts DEF DirInv, IInv, ClientTypes
  <1>3. \A outcome : Respond(t, outcome) =>
          \A u \in Threads : pc'[u] = "write" => pc[u] = "write" /\ job'[u] = job[u]
    BY DEF Respond, DirInv, IInv, ClientTypes
  <1>4. \A step : Goto(t, step) =>
          /\ job' = job /\ pc'[t] = step
          /\ \A u \in Threads \ {t} : pc'[u] = pc[u]
    BY DEF Goto, DirInv, IInv, ClientTypes
  <1>5. CASE Refuse(t) \/ EmbedFails(t) \/ Read(t) \/ DeleteNothing(t) \/ Sync(t) \/ SyncFails(t)
    <2>1. UNCHANGED <<made, loaded, log>> /\ \E outcome : Respond(t, outcome)
      BY <1>5 DEF Refuse, EmbedFails, Read, DeleteNothing, Sync, SyncFails, store
    <2> QED
      BY <1>1, <1>3, <2>1, NothingMade
  <1>6. CASE OpenShard(t)
    <2>1. asked[r].kind = "insert" /\ w \in Workspaces
      BY <1>2, <1>6 DEF OpenShard, DirInv, IInv, StepsMatch
    <2>2. made' = made \cup {w} /\ loaded' \subseteq loaded \cup {w} /\ log' = log
      BY <1>6 DEF OpenShard, Request
    <2>3. w \in {asked[x].ws : x \in {y \in Ids : asked[y].kind = "insert"}}
      BY <1>1, <2>1
    <2>4. made' \subseteq {asked'[x].ws : x \in {y \in Ids : asked'[y].kind = "insert"}}
      BY <1>1, <2>2, <2>3 DEF DirInv, DirectoriesMade
    <2>5. \A u \in Threads : pc'[u] = "write" => asked[job'[u]].ws \in made'
      <3>1. CASE Goto(t, "write")
        BY <1>4, <2>2, <3>1 DEF DirInv, DirectoriesMade
      <3>2. CASE Respond(t, "error")
        BY <1>3, <2>2, <3>2 DEF DirInv, DirectoriesMade
      <3> QED
        BY <1>6, <3>1, <3>2 DEF OpenShard
    <2> QED
      BY <1>1, <2>1, <2>2, <2>4, <2>5 DEF DirInv, DirectoriesMade
  <1>7. CASE FindShard(t)
    <2>1. UNCHANGED <<made, log>> /\ w \in Workspaces
      BY <1>2, <1>7 DEF FindShard, store, DirInv, IInv, StepsMatch
    <2>2. CASE loaded' = loaded /\ \E outcome : Respond(t, outcome)
      BY <1>1, <1>3, <2>1, <2>2, NothingMade
    <2>3. CASE /\ w \in made /\ loaded' = loaded \cup {w}
               /\ Goto(t, IF Request(t).kind = "delete" THEN "write" ELSE "read")
      <3>1. \A u \in Threads : pc'[u] = "write" => asked[job'[u]].ws \in made'
        BY <1>4, <2>1, <2>3 DEF DirInv, DirectoriesMade
      <3> QED
        BY <1>1, <2>1, <2>3, <3>1 DEF DirInv, DirectoriesMade
    <2> QED
      BY <1>7, <2>2, <2>3 DEF FindShard, Request
  <1>8. CASE Write(t) \/ WriteFails(t)
    <2>1. /\ w \in made /\ w \in Workspaces /\ UNCHANGED <<made, loaded>>
          /\ Accept(w, r) \/ log' = log
      BY <1>2, <1>8 DEF Write, WriteFails, Request, DirInv, DirectoriesMade, IInv, StepsMatch
    <2>2. \A v \in Workspaces \ {w} : log'[v] = log[v]
      BY <2>1 DEF Accept, DirInv, IInv, StoreTypes
    <2>3. \A u \in Threads : pc'[u] = "write" => pc[u] = "write" /\ job'[u] = job[u]
      <3>1. CASE \E outcome : Respond(t, outcome)
        BY <1>3, <3>1
      <3>2. CASE Goto(t, "sync")
        BY <1>4, <3>2
      <3> QED
        BY <1>8, <3>1, <3>2 DEF Write, WriteFails
    <2> QED
      BY <1>1, <2>1, <2>2, <2>3 DEF DirInv, DirectoriesMade
  <1> QED
    BY <1>5, <1>6, <1>7, <1>8 DEF Step

(* Every step keeps the directories, the passes and the shutdown in order. *)
LEMMA DirSafe ==
  ASSUME DirInv, [Next]_vars
  PROVE  DirInv'
  <1>1. IInv' /\ WalksTyped'
    BY NextSafe, WalksSafe DEF DirInv
  <1>2. CASE \E t \in Threads, q \in Requests : Receive(t, q)
    BY <1>1, <1>2, ReceiveMakes DEF DirInv
  <1>3. CASE \E t \in Threads : Step(t)
    BY <1>1, <1>3, StepMakes DEF DirInv
  <1>4. CASE Maintain \/ Handle \/ Signal \/ MainClaimed \/ MainTimeout \/ Kill \/ Restart
             \/ UNCHANGED vars
    <2>1. /\ UNCHANGED <<made, asked, log>> /\ loaded' \subseteq loaded
          /\ \/ UNCHANGED <<pc, job>>
             \/ pc' = [t \in Threads |-> "recv"]
      BY <1>4 DEF Maintain, PassBegin, PassShard, PassShardFails, Handle, HandlerClaim,
         HandlerShard, HandlerExit, Signal, MainClaimed, MainTimeout, Kill, Restart, Gone,
         store, clients, threads, vars
    <2> QED
      BY <1>1, <2>1, NothingMade DEF DirInv
  <1>5. CASE PowerLoss
    <2>1. /\ UNCHANGED <<made, asked>> /\ loaded' = {} /\ pc' = [t \in Threads |-> "recv"]
      BY <1>5 DEF PowerLoss, Gone, clients
    <2>2. ASSUME NEW w \in Workspaces, log[w] = <<>> PROVE log'[w] = <<>>
      <3>1. PICK kept \in [Workspaces -> 0 .. MaxRequests] :
              /\ kept[w] <= Len(log[w])
              /\ log' = [v \in Workspaces |-> SubSeq(log[v], 1, kept[v])]
        BY <1>5 DEF PowerLoss
      <3>2. kept[w] \in Nat /\ kept[w] = 0
        BY <2>2, <3>1, ServerAssumption
      <3>3. log'[w] \in Seq(Ids) /\ Len(log'[w]) = 0
        BY <2>2, <3>1, <3>2
      <3> QED
        BY <3>3
    <2>3. DirectoriesMade'
      BY <2>1, <2>2, NothingMade
    <2> QED
      BY <1>1, <2>3 DEF DirInv
  <1> QED
    BY <1>2, <1>3, <1>4, <1>5 DEF Next

(* Every variable keeps its type, and a workspace's directory was made by   *)
(* an insertion before the workspace has a log or a shard                   *)
(* (ShardPool::get, ShardPool::get_existing).                               *)
THEOREM ServerTypes == Spec => []TypeOK
  <1>1. ASSUME Init PROVE DirInv
    <2>1. DirectoriesMade
      BY <1>1 DEF Init, DirectoriesMade
    <2>2. WalksTyped
      BY <1>1 DEF Init, WalksTyped
    <2> QED
      BY <1>1, <2>1, <2>2, InitSafe DEF DirInv
  <1>2. DirInv /\ [Next]_vars => DirInv'
    BY DirSafe
  <1>3. ASSUME DirInv PROVE TypeOK
    <2>1. \A w \in Workspaces : synced[w] \in 0 .. Len(log[w])
      BY <1>3 DEF DirInv, IInv, StoreTypes
    <2>2. \A t \in Threads : pc[t] # "recv" => job[t] \in 1 .. count
      BY <1>3, JobFacts DEF DirInv, IInv, ClientTypes, None
    <2>3. log \in [Workspaces -> Seq(Ids)] /\ count \in 0 .. MaxRequests
      BY <1>3 DEF DirInv, IInv, StoreTypes, ClientTypes
    <2>4. up \in BOOLEAN
      BY <1>3 DEF DirInv, WalksTyped
    <2> QED
      BY <1>3, <2>1, <2>2, <2>3, <2>4 DEF TypeOK, DirInv, DirectoriesMade, WalksTyped
  <1> QED
    BY <1>1, <1>2, <1>3, PTL DEF Spec

(* The process does not end with shards still to be snapshotted, unless a   *)
(* timeout ran out or it was killed (await_shutdown, main.rs).              *)
THEOREM SignalWaitsForSnapshots == Spec => []NoEarlyExit
  <1>1. Init => NoEarlyExit
    BY DEF Init, NoEarlyExit
  <1>2. ASSUME NoEarlyExit, [Next]_vars PROVE NoEarlyExit'
    <2>1. \/ UNCHANGED <<up, claimed, late, left>>
          \/ up /\ up' = up
          \/ HandlerExit \/ MainTimeout \/ Kill \/ PowerLoss \/ Restart
      <3>1. CASE \E t \in Threads, q \in Requests : Receive(t, q)
        BY <3>1 DEF Receive, shutdown
      <3>2. CASE \E t \in Threads : Step(t)
        BY <3>2 DEF Step, Refuse, EmbedFails, OpenShard, FindShard, Read, DeleteNothing,
           Write, WriteFails, Sync, SyncFails, shutdown
      <3>3. CASE Maintain
        BY <3>3 DEF Maintain, PassBegin, PassShard, PassShardFails, shutdown
      <3>4. CASE Handle \/ Signal \/ MainClaimed
        BY <3>4 DEF Handle, HandlerClaim, HandlerShard, Signal, MainClaimed
      <3>5. CASE UNCHANGED vars
        BY <3>5 DEF vars
      <3> QED
        BY <1>2, <3>1, <3>2, <3>3, <3>4, <3>5 DEF Next
    <2>2. CASE UNCHANGED <<up, claimed, late, left>>
      BY <1>2, <2>2 DEF NoEarlyExit
    <2>3. CASE up /\ up' = up
      BY <2>3 DEF NoEarlyExit
    <2>4. CASE HandlerExit
      BY <2>4 DEF HandlerExit, NoEarlyExit
    <2>5. CASE MainTimeout
      BY <2>5 DEF MainTimeout, NoEarlyExit
    <2>6. CASE Kill \/ PowerLoss \/ Restart
      BY <2>6 DEF Kill, PowerLoss, Restart, NoShutdown, NoEarlyExit
    <2> QED
      BY <2>1, <2>2, <2>3, <2>4, <2>5, <2>6
  <1> QED
    BY <1>1, <1>2, PTL DEF Spec

=============================================================================
