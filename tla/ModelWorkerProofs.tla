-------------------------- MODULE ModelWorkerProofs --------------------------
(***************************************************************************)
(* Proofs about module ModelWorker: what a batch holds, and whose texts an *)
(* answer is computed from, for any workers, calls, requests and context.  *)
(***************************************************************************)
EXTENDS ModelWorker, NatSets

Texts == Seq(Nat \cup {Unreadable})

-----------------------------------------------------------------------------
(* Kept *)

(* f collects the positions of the texts that fit, one position at a time. *)
Collects(f, r) ==
  /\ f[0] = <<>>
  /\ \A n \in 1 .. Len(r.texts) :
       f[n] = IF Fits(r, n) THEN Append(f[n - 1], n) ELSE f[n - 1]

(* The recursive function inside Kept satisfies its equation. *)
LEMMA KeptEquation ==
  ASSUME NEW r, r.texts \in Texts
  PROVE  \E f : Collects(f, r) /\ Kept(r) = f[Len(r.texts)]
<1> DEFINE N == Len(r.texts)
           kept[n \in 0 .. Len(r.texts)] ==
             IF n = 0 THEN <<>>
             ELSE IF Fits(r, n) THEN Append(kept[n - 1], n) ELSE kept[n - 1]
           S == Seq(Nat)
           zero == <<>>
           step == [n \in 1 .. N |->
                      [s \in S |-> IF Fits(r, n) THEN Append(s, n) ELSE s]]
<1>1. N \in Nat
  BY LenProperties DEF Texts
<1>2. step \in [1 .. N -> [S -> S]]
  BY <1>1, AppendProperties
<1>3. zero \in S
  OBVIOUS
<1>4. PICK f \in [0 .. N -> S] : Follows(f, N, zero, step)
  <2> HIDE DEF step, S, N, zero
  <2> QED
    BY <1>1, <1>2, <1>3, SetRecursion
<1>5. ASSUME NEW n \in 1 .. N
      PROVE  f[n] = IF Fits(r, n) THEN Append(f[n - 1], n) ELSE f[n - 1]
  <2>1. n - 1 \in 0 .. N
    BY <1>1
  <2>2. f[n - 1] \in S
    BY <2>1
  <2>3. f[n] = step[n][f[n - 1]]
    BY <1>4 DEF Follows
  <2> QED
    BY <2>2, <2>3
<1>6. f = [n \in 0 .. N |->
             IF n = 0 THEN <<>>
             ELSE IF Fits(r, n) THEN Append(f[n - 1], n) ELSE f[n - 1]]
  <2>1. \A n \in 0 .. N : n = 0 \/ n \in 1 .. N
    BY <1>1
  <2>2. f[0] = <<>>
    BY <1>4 DEF Follows
  <2> HIDE DEF step
  <2> QED
    BY <1>5, <2>1, <2>2
<1>7. kept = [n \in 0 .. N |->
                IF n = 0 THEN <<>>
                ELSE IF Fits(r, n) THEN Append(kept[n - 1], n) ELSE kept[n - 1]]
  BY <1>6
<1>8. Kept(r) = kept[N]
  BY DEF Kept
<1> HIDE DEF kept
<1>9. kept[0] = <<>>
  BY <1>1, <1>7
<1>10. ASSUME NEW n \in 1 .. N
       PROVE  kept[n] = IF Fits(r, n) THEN Append(kept[n - 1], n) ELSE kept[n - 1]
  <2>1. n \in 0 .. N /\ n # 0
    BY <1>1
  <2> QED
    BY <1>7, <2>1
<1>11. Collects(kept, r)
  BY <1>9, <1>10 DEF Collects
<1> QED
  BY <1>8, <1>11

(* Kept names texts that fit, each once and in order. *)
LEMMA KeptProperties ==
  ASSUME NEW r, r.texts \in Texts
  PROVE  /\ Kept(r) \in Seq(1 .. Len(r.texts))
         /\ \A k \in 1 .. Len(Kept(r)) : Fits(r, Kept(r)[k])
         /\ \A j, k \in 1 .. Len(Kept(r)) : j < k => Kept(r)[j] < Kept(r)[k]
<1> DEFINE N == Len(r.texts)
           Good(s, n) == /\ s \in Seq(1 .. n)
                         /\ \A k \in 1 .. Len(s) : Fits(r, s[k])
                         /\ \A j, k \in 1 .. Len(s) : j < k => s[j] < s[k]
<1>1. N \in Nat
  BY LenProperties DEF Texts
<1>2. PICK f : Collects(f, r) /\ Kept(r) = f[N]
  BY KeptEquation
<1> DEFINE T == {n \in Nat : n <= N => Good(f[n], n)}
<1>3. 0 \in T
  <2>1. f[0] = <<>>
    BY <1>2 DEF Collects
  <2>2. <<>> \in Seq(1 .. 0) /\ Len(<<>>) = 0
    OBVIOUS
  <2>3. Good(f[0], 0)
    BY <2>1, <2>2
  <2> HIDE DEF Good
  <2> QED
    BY <2>3
<1>4. ASSUME NEW n \in Nat, n \in T PROVE n + 1 \in T
  <2>1. SUFFICES ASSUME n + 1 <= N PROVE Good(f[n + 1], n + 1)
    OBVIOUS
  <2>2. Good(f[n], n)
    <3> HIDE DEF Good
    <3> QED
      BY <1>1, <1>4, <2>1
  <2>3. f[n + 1] = IF Fits(r, n + 1) THEN Append(f[n], n + 1) ELSE f[n]
    <3>1. n + 1 \in 1 .. N /\ (n + 1) - 1 = n
      BY <1>1, <2>1
    <3> HIDE DEF N
    <3> QED
      BY <1>2, <3>1 DEF Collects, N
  <2>4. /\ f[n] \in Seq(1 .. n + 1)
        /\ Len(f[n]) \in Nat
        /\ \A k \in 1 .. Len(f[n]) : f[n][k] \in 1 .. n
    <3>1. Seq(1 .. n) \subseteq Seq(1 .. n + 1)
      BY SeqMonotonic
    <3> QED
      BY <2>2, <3>1, LenProperties, ElementOfSeq
  <2>5. CASE ~ Fits(r, n + 1)
    BY <2>2, <2>3, <2>4, <2>5
  <2>6. CASE Fits(r, n + 1)
    <3> DEFINE s == Append(f[n], n + 1)
               L == Len(f[n])
    <3>1. /\ s \in Seq(1 .. n + 1)
          /\ Len(s) = L + 1
          /\ \A k \in 1 .. L : s[k] = f[n][k]
          /\ s[L + 1] = n + 1
      BY <2>4, AppendProperties
    <3>2. \A k \in 1 .. L + 1 : k = L + 1 \/ k \in 1 .. L
      <4>1. L \in Nat
        BY <2>4
      <4> HIDE DEF L
      <4> QED
        BY <4>1
    <3>3. f[n + 1] = s
      BY <2>3, <2>6
    <3> HIDE DEF s
    <3>4. \A k \in 1 .. Len(s) : Fits(r, s[k])
      <4>1. ASSUME NEW k \in 1 .. L PROVE Fits(r, s[k])
        BY <2>2, <3>1
      <4> QED
        BY <2>6, <3>1, <3>2, <4>1
    <3>5. \A j, k \in 1 .. Len(s) : j < k => s[j] < s[k]
      <4>1. ASSUME NEW j \in 1 .. Len(s), NEW k \in 1 .. Len(s), j < k PROVE s[j] < s[k]
        <5>1. j \in 1 .. L /\ s[j] = f[n][j] /\ f[n][j] \in 1 .. n
          BY <2>4, <3>1, <4>1
        <5>2. CASE k = L + 1
          BY <3>1, <5>1, <5>2
        <5>3. CASE k \in 1 .. L
          <6>1. f[n][j] < f[n][k]
            BY <2>2, <4>1, <5>1, <5>3
          <6> QED
            BY <3>1, <5>1, <5>3, <6>1
        <5> QED
          BY <3>1, <3>2, <5>2, <5>3
      <4> QED
        BY <4>1
    <3> QED
      BY <3>1, <3>3, <3>4, <3>5
  <2> QED
    BY <2>5, <2>6
<1>5. N \in T
  <2> HIDE DEF T
  <2> QED
    BY <1>1, <1>3, <1>4, SetInduction
<1>6. Good(Kept(r), N)
  <2> HIDE DEF Good
  <2> QED
    BY <1>1, <1>2, <1>5
<1> QED
  BY <1>6

-----------------------------------------------------------------------------
(* Tokens *)

Batched == [src : Calls \X Nat, len : Nat, seq : Nat]

(* What a batch is made of. *)
LEMMA BatchedLengths ==
  ASSUME NEW b \in Seq(Batched)
  PROVE  Len(b) \in Nat /\ \A k \in 1 .. Len(b) : b[k] \in Batched /\ b[k].len \in Nat
<1>1. \A k \in 1 .. Len(b) : b[k] \in Batched
  BY ElementOfSeq
<1>2. \A x \in Batched : x.len \in Nat
  BY DEF Batched
<1> QED
  BY <1>1, <1>2, LenProperties

(* f adds up the lengths of the sequences of batch b. *)
AddsUp(f, b) ==
  /\ f[0] = 0
  /\ \A k \in 1 .. Len(b) : f[k] = f[k - 1] + b[k].len

(* The recursive function inside Tokens satisfies its equation. *)
LEMMA TokensEquation ==
  ASSUME NEW b \in Seq(Batched)
  PROVE  \E f : AddsUp(f, b) /\ Tokens(b) = f[Len(b)]
<1> DEFINE N == Len(b)
           sum[k \in 0 .. Len(b)] == IF k = 0 THEN 0 ELSE sum[k - 1] + b[k].len
           step == [k \in 1 .. N |-> [n \in Nat |-> n + b[k].len]]
<1>1. N \in Nat /\ \A k \in 1 .. N : b[k].len \in Nat
  BY BatchedLengths
<1>2. step \in [1 .. N -> [Nat -> Nat]]
  <2>1. ASSUME NEW k \in 1 .. N, NEW n \in Nat PROVE n + b[k].len \in Nat
    BY <1>1
  <2> HIDE DEF N
  <2> QED
    BY <2>1
<1>3. PICK f \in [0 .. N -> Nat] : Follows(f, N, 0, step)
  <2> HIDE DEF step, N
  <2> QED
    BY <1>1, <1>2, SetRecursion
<1>4. ASSUME NEW k \in 1 .. N PROVE f[k] = f[k - 1] + b[k].len
  <2>1. k - 1 \in 0 .. N
    BY <1>1
  <2>2. f[k - 1] \in Nat
    BY <2>1
  <2>3. f[k] = step[k][f[k - 1]]
    BY <1>3 DEF Follows
  <2> QED
    BY <2>2, <2>3
<1>5. f = [k \in 0 .. N |-> IF k = 0 THEN 0 ELSE f[k - 1] + b[k].len]
  <2>1. \A k \in 0 .. N : k = 0 \/ k \in 1 .. N
    BY <1>1
  <2>2. f[0] = 0
    BY <1>3 DEF Follows
  <2> HIDE DEF step
  <2> QED
    BY <1>4, <2>1, <2>2
<1>6. sum = [k \in 0 .. N |-> IF k = 0 THEN 0 ELSE sum[k - 1] + b[k].len]
  BY <1>5
<1>7. Tokens(b) = sum[N]
  BY DEF Tokens
<1> HIDE DEF sum
<1>8. sum[0] = 0
  BY <1>1, <1>6
<1>9. ASSUME NEW k \in 1 .. N PROVE sum[k] = sum[k - 1] + b[k].len
  <2>1. k \in 0 .. N /\ k # 0
    BY <1>1
  <2> QED
    BY <1>6, <2>1
<1>10. AddsUp(sum, b)
  BY <1>8, <1>9 DEF AddsUp
<1> QED
  BY <1>7, <1>10

(* Two sums that agree on what they add agree. *)
LEMMA SumsAgree ==
  ASSUME NEW b \in Seq(Batched), NEW d \in Seq(Batched), NEW f, NEW g,
         AddsUp(f, b), AddsUp(g, d), Len(b) <= Len(d),
         \A k \in 1 .. Len(b) : b[k] = d[k]
  PROVE  f[Len(b)] = g[Len(b)] /\ f[Len(b)] \in Nat
<1> DEFINE T == {n \in Nat : n <= Len(b) => f[n] = g[n] /\ f[n] \in Nat}
<1>1. Len(b) \in Nat /\ Len(d) \in Nat /\ \A k \in 1 .. Len(b) : b[k].len \in Nat
  BY BatchedLengths
<1>2. 0 \in T
  BY DEF AddsUp
<1>3. ASSUME NEW n \in Nat, n \in T PROVE n + 1 \in T
  <2>1. SUFFICES ASSUME n + 1 <= Len(b) PROVE f[n + 1] = g[n + 1] /\ f[n + 1] \in Nat
    OBVIOUS
  <2>2. n + 1 \in 1 .. Len(b) /\ n + 1 \in 1 .. Len(d) /\ (n + 1) - 1 = n
    BY <1>1, <2>1
  <2>3. f[n] = g[n] /\ f[n] \in Nat
    BY <1>1, <1>3, <2>1
  <2>4. f[n + 1] = f[n] + b[n + 1].len /\ g[n + 1] = g[n] + d[n + 1].len
    <3>1. f[n + 1] = f[n] + b[n + 1].len
      BY <2>2 DEF AddsUp
    <3>2. g[n + 1] = g[n] + d[n + 1].len
      BY <2>2 DEF AddsUp
    <3> QED
      BY <3>1, <3>2
  <2>5. b[n + 1] = d[n + 1] /\ b[n + 1].len \in Nat
    BY <1>1, <2>2
  <2> QED
    BY <2>3, <2>4, <2>5
<1>4. Len(b) \in T
  <2> HIDE DEF T
  <2> QED
    BY <1>1, <1>2, <1>3, SetInduction
<1> QED
  BY <1>1, <1>4

(* What Tokens adds up when a batch is cleared, and when it grows. *)
LEMMA TokensProperties ==
  /\ Tokens(<<>>) = 0
  /\ \A b \in Seq(Batched) : Tokens(b) \in Nat
  /\ \A b \in Seq(Batched), x \in Batched : Tokens(Append(b, x)) = Tokens(b) + x.len
<1>1. Tokens(<<>>) = 0
  <2>1. <<>> \in Seq(Batched) /\ Len(<<>>) = 0
    OBVIOUS
  <2> QED
    BY <2>1, TokensEquation DEF AddsUp
<1>2. ASSUME NEW b \in Seq(Batched) PROVE Tokens(b) \in Nat
  <2>1. PICK f : AddsUp(f, b) /\ Tokens(b) = f[Len(b)]
    BY TokensEquation
  <2>2. Len(b) <= Len(b)
    BY LenProperties
  <2> QED
    BY <2>1, <2>2, SumsAgree
<1>3. ASSUME NEW b \in Seq(Batched), NEW x \in Batched
      PROVE  Tokens(Append(b, x)) = Tokens(b) + x.len
  <2> DEFINE d == Append(b, x)
  <2>1. /\ d \in Seq(Batched)
        /\ Len(d) = Len(b) + 1
        /\ \A k \in 1 .. Len(b) : b[k] = d[k]
        /\ d[Len(b) + 1] = x
    BY AppendProperties
  <2>2. Len(b) \in Nat
    BY LenProperties
  <2> HIDE DEF d
  <2>3. PICK f : AddsUp(f, b) /\ Tokens(b) = f[Len(b)]
    BY TokensEquation
  <2>4. PICK g : AddsUp(g, d) /\ Tokens(d) = g[Len(d)]
    BY <2>1, TokensEquation
  <2>5. f[Len(b)] = g[Len(b)]
    <3>1. Len(b) <= Len(d)
      BY <2>1, <2>2
    <3> QED
      BY <2>1, <2>3, <2>4, <3>1, SumsAgree
  <2>6. g[Len(b) + 1] = g[Len(b)] + d[Len(b) + 1].len
    <3>1. Len(b) + 1 \in 1 .. Len(d) /\ (Len(b) + 1) - 1 = Len(b)
      BY <2>1, <2>2
    <3> QED
      BY <2>4, <3>1 DEF AddsUp
  <2> QED
    BY <2>1, <2>3, <2>4, <2>5, <2>6 DEF d
<1> QED
  BY <1>1, <1>2, <1>3

-----------------------------------------------------------------------------
(* The reranker's sort *)

Scored == Scores \cup {NaN}

(* Where the stable sort has element j in front of element i. *)
Ahead(score, j, i) ==
  \/ Before(score[j], score[i])
  \/ ~ Before(score[i], score[j]) /\ j < i

InFront(score, i) == {j \in DOMAIN score : Ahead(score, j, i)}

(* The comparator is a weak order. *)
LEMMA BeforeOrders ==
  ASSUME NEW x \in Int, NEW y \in Int, NEW z \in Int
  PROVE  /\ Before(x, y) => ~ Before(y, x)
         /\ Before(x, y) /\ ~ Before(z, y) => Before(x, z)
         /\ ~ Before(y, x) /\ Before(y, z) => Before(x, z)
         /\ ~ Before(y, x) /\ ~ Before(z, y) => ~ Before(z, x)
  BY DEF Before, NaN

LEMMA ScoredInt == Scored \subseteq Int
<1>1. Scores \subseteq Int
  BY ModelAssumption, Zenon
<1>2. NaN \in Int
  BY DEF NaN
<1> QED
  BY <1>1, <1>2 DEF Scored

(* The sort orders the elements totally. *)
LEMMA AheadOrders ==
  ASSUME NEW n \in Nat, NEW score \in [1 .. n -> Scored],
         NEW i \in 1 .. n, NEW j \in 1 .. n
  PROVE  /\ ~ Ahead(score, i, i)
         /\ i # j => Ahead(score, i, j) \/ Ahead(score, j, i)
         /\ \A k \in 1 .. n : Ahead(score, i, j) /\ Ahead(score, j, k) => Ahead(score, i, k)
<1>1. \A k \in 1 .. n : score[k] \in Int
  BY ScoredInt
<1>2. ~ Ahead(score, i, i)
  BY <1>1 DEF Ahead, Before
<1>3. i # j => Ahead(score, i, j) \/ Ahead(score, j, i)
  BY DEF Ahead
<1>4. ASSUME NEW k \in 1 .. n, Ahead(score, i, j), Ahead(score, j, k)
      PROVE  Ahead(score, i, k)
  <2> DEFINE x == score[i]
             y == score[j]
             z == score[k]
  <2>1. x \in Int /\ y \in Int /\ z \in Int
    BY <1>1
  <2>2. /\ Before(x, y) \/ (~ Before(y, x) /\ i < j)
        /\ Before(y, z) \/ (~ Before(z, y) /\ j < k)
    BY <1>4 DEF Ahead
  <2> HIDE DEF x, y, z
  <2>3. Before(y, z) => ~ Before(z, y)
    BY <2>1, BeforeOrders
  <2>4. Before(x, z) \/ (~ Before(z, x) /\ i < j /\ j < k)
    BY <2>1, <2>2, <2>3, BeforeOrders
  <2>5. Before(x, z) \/ (~ Before(z, x) /\ i < k)
    BY <2>4
  <2> QED
    BY <2>5 DEF Ahead, x, z
<1> QED
  BY <1>2, <1>3, <1>4

(* What is in front has the smaller place. *)
LEMMA PlaceRises ==
  ASSUME NEW n \in Nat, NEW score \in [1 .. n -> Scored], NEW i \in 1 .. n
  PROVE  /\ Place(score, i) \in 1 .. n
         /\ \A j \in 1 .. n : Ahead(score, j, i) => Place(score, j) < Place(score, i)
<1>1. ASSUME NEW j \in 1 .. n
      PROVE  /\ InFront(score, j) \subseteq 1 .. n /\ j \notin InFront(score, j)
             /\ IsFiniteSet(InFront(score, j)) /\ Cardinality(InFront(score, j)) \in Nat
             /\ Place(score, j) = 1 + Cardinality(InFront(score, j))
  <2>1. InFront(score, j) \subseteq 1 .. n /\ j \notin InFront(score, j)
    BY AheadOrders DEF InFront
  <2>2. IsFiniteSet(1 .. n)
    BY FS_Interval
  <2>3. IsFiniteSet(InFront(score, j))
    BY <2>1, <2>2, FS_Subset
  <2>4. Cardinality(InFront(score, j)) \in Nat
    BY <2>3, FS_CardinalityType
  <2>5. Place(score, j) = 1 + Cardinality(InFront(score, j))
    BY DEF Place, InFront, Ahead
  <2> QED
    BY <2>1, <2>3, <2>4, <2>5
<1>2. ASSUME NEW j \in 1 .. n
      PROVE  /\ IsFiniteSet(InFront(score, j) \cup {j})
             /\ Cardinality(InFront(score, j) \cup {j}) = Place(score, j)
  <2>1. /\ IsFiniteSet(InFront(score, j) \cup {j})
        /\ Cardinality(InFront(score, j) \cup {j}) = Cardinality(InFront(score, j)) + 1
    BY <1>1, FS_AddElement
  <2> QED
    BY <1>1, <2>1
<1>3. Place(score, i) \in 1 .. n
  <2>1. IsFiniteSet(1 .. n) /\ Cardinality(1 .. n) = n
    BY FS_Interval
  <2>2. InFront(score, i) \cup {i} \subseteq 1 .. n
    BY <1>1
  <2>3. Place(score, i) <= n
    BY <1>2, <2>1, <2>2, FS_Subset
  <2> QED
    BY <1>1, <2>3
<1>4. ASSUME NEW j \in 1 .. n, Ahead(score, j, i)
      PROVE  Place(score, j) < Place(score, i)
  <2>1. InFront(score, j) \cup {j} \subseteq InFront(score, i)
    <3>1. ASSUME NEW k \in 1 .. n, Ahead(score, k, j) PROVE Ahead(score, k, i)
      BY <1>4, <3>1, AheadOrders
    <3> QED
      BY <1>4, <3>1 DEF InFront
  <2>2. Cardinality(InFront(score, j) \cup {j}) <= Cardinality(InFront(score, i))
    <3>1. IsFiniteSet(InFront(score, i))
      BY <1>1
    <3> QED
      BY <2>1, <3>1, FS_Subset
  <2>3. /\ Place(score, i) = 1 + Cardinality(InFront(score, i))
        /\ Cardinality(InFront(score, i)) \in Nat
    BY <1>1
  <2>4. Cardinality(InFront(score, j) \cup {j}) = Place(score, j)
    BY <1>2
  <2>5. Place(score, j) \in Nat
    BY <1>1
  <2> QED
    BY <2>2, <2>3, <2>4, <2>5
<1> QED
  BY <1>3, <1>4

(* The places of n elements are 1 .. n, each taken once. *)
LEMMA PlacesTaken ==
  ASSUME NEW n \in Nat, NEW score \in [1 .. n -> Scored]
  PROVE  /\ \A k \in 1 .. n : \E j \in 1 .. n : Place(score, j) = k
         /\ \A i, j \in 1 .. n : Place(score, i) = Place(score, j) => i = j
<1> DEFINE place == [i \in 1 .. n |-> Place(score, i)]
<1>1. ASSUME NEW i \in 1 .. n, NEW j \in 1 .. n, i # j
      PROVE  Place(score, i) # Place(score, j)
  <2>1. Place(score, i) \in Nat /\ Place(score, j) \in Nat
    BY PlaceRises
  <2>2. Ahead(score, i, j) \/ Ahead(score, j, i)
    BY <1>1, AheadOrders
  <2>3. Place(score, i) < Place(score, j) \/ Place(score, j) < Place(score, i)
    BY <2>2, PlaceRises
  <2> QED
    BY <2>1, <2>3
<1>2. place \in Injection(1 .. n, 1 .. n)
  <2>1. place \in [1 .. n -> 1 .. n]
    BY PlaceRises
  <2>2. IsInjective(place)
    BY <1>1 DEF IsInjective
  <2> QED
    BY <2>1, <2>2 DEF Injection
<1>3. place \in Surjection(1 .. n, 1 .. n)
  <2>1. IsFiniteSet(1 .. n)
    BY FS_Interval
  <2> HIDE DEF place
  <2> QED
    BY <1>2, <2>1, FS_Injection
<1>4. \A k \in 1 .. n : \E j \in 1 .. n : Place(score, j) = k
  BY <1>3 DEF Surjection
<1> QED
  BY <1>1, <1>4

-----------------------------------------------------------------------------
(* The invariant *)

Sources == SUBSET (Calls \X Nat)
Items == Sources \cup [index : Nat, score : Scored, of : Sources]
Answers == [ok : BOOLEAN, items : Seq(Items)]
Pieces == [src : Calls \X Nat, len : Nat]

CallTypes ==
  /\ service \in {"embed", "rerank"}
  /\ request \in [Calls -> Requests[service] \cup {NoRequest}]
  /\ call \in [Calls -> {"new", "waiting", "done", "failed"}]
  /\ mail \in [Calls -> Seq(Answers)]
  /\ result \in [Calls -> Answers]

WorkTypes ==
  /\ inbox \in [Workers -> Seq(Calls)]
  /\ pc \in [Workers -> {"recv", "refuse", "fill", "stopped"}]
  /\ job \in [Workers -> Calls \cup {None}]
  /\ todo \in [Workers -> Seq(Pieces)]
  /\ batch \in [Workers -> Seq(Batched)]
  /\ seqs \in [Workers -> Nat]
  /\ output \in [Workers -> Seq(Sources)]

(* A call that has not been sent is known to nobody: its request may still *)
(* change.                                                                 *)
Unsent ==
  \A c \in Calls : call[c] = "new" =>
    /\ mail[c] = <<>>
    /\ \A w \in Workers : job[w] # c /\ \A k \in 1 .. Len(inbox[w]) : inbox[w][k] # c

(* Between two requests a worker has nothing but its inbox. *)
AtRest(w) == batch[w] = <<>> /\ seqs[w] = 0 /\ output[w] = <<>>

(* Where the k-th sequence of a request comes from. *)
Source(c, k) == <<c, Kept(request[c])[k]>>

(* Within one, what is decoded, what is in the batch and what is still to  *)
(* be batched are, in this order, the sequences of the request.            *)
Filling(w) ==
  /\ job[w] \in Calls
  /\ Len(output[w]) + Len(batch[w]) + Len(todo[w]) = Len(Kept(request[job[w]]))
  /\ \A k \in 1 .. Len(output[w]) : output[w][k] = {Source(job[w], k)}
  /\ \A k \in 1 .. Len(batch[w]) :
       /\ batch[w][k].src = Source(job[w], Len(output[w]) + k)
       /\ batch[w][k].seq = k - 1
  /\ \A k \in 1 .. Len(todo[w]) :
       /\ todo[w][k].src = Source(job[w], Len(output[w]) + Len(batch[w]) + k)
       /\ todo[w][k].len <= NCtx
  /\ seqs[w] = Len(batch[w])
  /\ Tokens(batch[w]) <= NCtx

WorksAt(w) ==
  /\ pc[w] = "fill" => Filling(w)
  /\ pc[w] # "fill" => AtRest(w)
  /\ pc[w] = "refuse" => job[w] \in Calls

Working == \A w \in Workers : WorksAt(w)

(* An answer that is not an error has an item for every sequence of the    *)
(* request, made from that sequence alone and, when ranked, in order.      *)
Embedded(c, items) ==
  \A k \in 1 .. Len(Kept(request[c])) : items[k] = {Source(c, k)}

Ranked(c, items) ==
  LET n == Len(Kept(request[c]))
  IN  /\ \A k \in 1 .. n : items[k].of = {<<c, items[k].index>>}
      /\ \A k \in 1 .. n : \E i \in 1 .. n : items[k].index = Kept(request[c])[i]
      /\ \A i \in 1 .. n : \E k \in 1 .. n : items[k].index = Kept(request[c])[i]
      /\ \A j, k \in 1 .. n : j < k =>
           \/ items[j].score # NaN /\ items[k].score = NaN
           \/ items[j].score # NaN /\ items[j].score > items[k].score
           \/ items[j].score = items[k].score /\ items[j].index < items[k].index

RightAnswers(c) ==
  {answer \in Answers : answer.ok =>
     /\ Len(answer.items) = Len(Kept(request[c]))
     /\ service = "embed" => Embedded(c, answer.items)
     /\ service = "rerank" => Ranked(c, answer.items)}

AnsweredAt(c) ==
  /\ mail[c] \in Seq(RightAnswers(c))
  /\ call[c] = "done" => result[c].ok /\ result[c] \in RightAnswers(c)

Answered == \A c \in Calls : AnsweredAt(c)

WorkerInv == CallTypes /\ WorkTypes /\ Unsent /\ Working /\ Answered

-----------------------------------------------------------------------------
(* What a step leaves alone *)

LEMMA KeptFrame ==
  ASSUME NEW c, service' = service, request'[c] = request[c]
  PROVE  Kept(request[c])' = Kept(request[c])
<1>1. ASSUME NEW i PROVE Fits(request[c], i)' <=> Fits(request[c], i)
  BY DEF Fits
<1> QED
  BY DEF Kept, Fits

LEMMA TokensFrame ==
  ASSUME NEW w, batch'[w] = batch[w]
  PROVE  Tokens(batch[w])' = Tokens(batch[w])
  BY DEF Tokens

LEMMA AnswersFrame ==
  ASSUME NEW c, service' = service, request'[c] = request[c]
  PROVE  RightAnswers(c)' = RightAnswers(c)
<1>1. Kept(request[c])' = Kept(request[c])
  BY KeptFrame
<1> QED
  BY <1>1 DEF RightAnswers, Embedded, Ranked, Source

(* A worker whose variables and whose request stay as they are. *)
LEMMA WorksFrame ==
  ASSUME NEW v \in Workers, WorksAt(v), service' = service,
         pc'[v] = pc[v], job'[v] = job[v], todo'[v] = todo[v], batch'[v] = batch[v],
         seqs'[v] = seqs[v], output'[v] = output[v],
         job[v] \in Calls => request'[job[v]] = request[job[v]]
  PROVE  WorksAt(v)'
<1>1. CASE pc[v] = "fill"
  <2>1. job[v] \in Calls
    BY <1>1 DEF WorksAt, Filling
  <2>2. Kept(request[job[v]])' = Kept(request[job[v]])
    <3>1. PICK c : c = job[v]
      OBVIOUS
    <3>2. Kept(request[c])' = Kept(request[c])
      BY <2>1, <3>1, KeptFrame
    <3> QED
      BY <3>1, <3>2
  <2>3. Tokens(batch[v])' = Tokens(batch[v])
    BY TokensFrame
  <2> QED
    BY <1>1, <2>2, <2>3 DEF WorksAt, Filling, Source
<1>2. CASE pc[v] # "fill"
  BY <1>2 DEF WorksAt, AtRest
<1> QED
  BY <1>1, <1>2

(* A call whose request stays as it is, and that is given nothing. *)
LEMMA AnsweredFrame ==
  ASSUME NEW c \in Calls, AnsweredAt(c), service' = service,
         request'[c] = request[c], mail'[c] = mail[c], result'[c] = result[c],
         call'[c] = "done" => call[c] = "done"
  PROVE  AnsweredAt(c)'
<1>1. RightAnswers(c)' = RightAnswers(c)
  BY AnswersFrame
<1> QED
  BY <1>1 DEF AnsweredAt

-----------------------------------------------------------------------------
(* The sequences of a request *)

LEMMA RequestShape ==
  ASSUME CallTypes, NEW c \in Calls
  PROVE  /\ request[c].texts \in Texts
         /\ request[c].query \in Nat \cup {Unreadable}
<1>1. \/ request[c] = NoRequest
      \/ request[c] \in Requests[service] /\ service \in {"embed", "rerank"}
  BY DEF CallTypes
<1>2. CASE request[c] = NoRequest
  BY <1>2 DEF NoRequest, Texts
<1>3. CASE request[c] \in Requests[service] /\ service \in {"embed", "rerank"}
  BY <1>3, ModelAssumption DEF Texts
<1> QED
  BY <1>1, <1>2, <1>3

LEMMA SequencesShape ==
  ASSUME CallTypes, NEW c \in Calls
  PROVE  /\ Kept(request[c]) \in Seq(Nat)
         /\ Len(Kept(request[c])) \in Nat
         /\ \A k \in 1 .. Len(Kept(request[c])) : Kept(request[c])[k] \in Nat
         /\ Sequences(c, request[c]) \in Seq(Pieces)
         /\ Len(Sequences(c, request[c])) = Len(Kept(request[c]))
         /\ \A k \in 1 .. Len(Kept(request[c])) :
              /\ Sequences(c, request[c])[k].src = Source(c, k)
              /\ Sequences(c, request[c])[k].len <= NCtx
<1> DEFINE r == request[c]
           kept == Kept(r)
           N == Len(kept)
<1>1. r.texts \in Texts /\ r.query \in Nat \cup {Unreadable}
  BY RequestShape
<1>2. /\ kept \in Seq(1 .. Len(r.texts))
      /\ \A k \in 1 .. N : Fits(r, kept[k])
  BY <1>1, KeptProperties
<1>3. N \in Nat /\ DOMAIN kept = 1 .. N /\ \A k \in 1 .. N : kept[k] \in 1 .. Len(r.texts)
  BY <1>2, LenProperties, ElementOfSeq
<1>4. kept \in Seq(Nat)
  <2>1. 1 .. Len(r.texts) \subseteq Nat
    BY <1>1, LenProperties DEF Texts
  <2> QED
    BY <1>2, <2>1, SeqMonotonic
<1>5. ASSUME NEW k \in 1 .. N PROVE Length(r, kept[k]) \in Nat /\ Length(r, kept[k]) <= NCtx
  <2> DEFINE t == r.texts[kept[k]]
  <2>1. t \in Nat \cup {Unreadable}
    BY <1>1, <1>3, ElementOfSeq DEF Texts
  <2>2. Fits(r, kept[k]) /\ t # Unreadable
    BY <1>2 DEF Fits
  <2>3. NCtx \in Nat
    BY ModelAssumption
  <2>4. CASE service = "embed"
    BY <2>1, <2>2, <2>3, <2>4 DEF Fits, Length
  <2>5. CASE service = "rerank"
    <3>1. t + r.query + 4 <= NCtx
      BY <2>2, <2>5 DEF Fits
    <3>2. Length(r, kept[k]) = t + r.query + 4
      BY <2>5 DEF Length
    <3>3. t \in Nat /\ r.query \in Int /\ r.query >= -1
      BY <1>1, <2>1, <2>2 DEF Unreadable
    <3> HIDE DEF t, r, kept
    <3> QED
      BY <3>1, <3>2, <3>3
  <2> QED
    BY <2>4, <2>5 DEF CallTypes
<1>6. ASSUME NEW k \in 1 .. N
      PROVE  [src |-> <<c, kept[k]>>, len |-> Length(r, kept[k])] \in Pieces
  BY <1>3, <1>4, <1>5, ElementOfSeq DEF Pieces
<1>7. Sequences(c, r) = [k \in 1 .. N |-> [src |-> <<c, kept[k]>>, len |-> Length(r, kept[k])]]
  BY <1>3 DEF Sequences
<1>8. Sequences(c, r) \in [1 .. N -> Pieces]
  BY <1>6, <1>7
<1>9. Sequences(c, r) \in Seq(Pieces) /\ Len(Sequences(c, r)) = N
  <2> DEFINE s == Sequences(c, r)
  <2>1. s \in [1 .. N -> Pieces] /\ N \in Nat
    BY <1>3, <1>8
  <2> HIDE DEF N, s
  <2>2. s \in Seq(Pieces) /\ Len(s) = N
    BY <2>1, FunctionIsSeq
  <2> QED
    BY <2>2 DEF s
<1> QED
  BY <1>3, <1>4, <1>5, <1>7, <1>9, ElementOfSeq DEF Source

-----------------------------------------------------------------------------
(* The steps of a call *)

LEMMA SendSafe ==
  ASSUME WorkerInv, NEW c \in Calls, Send(c)
  PROVE  WorkerInv'
<1> USE DEF WorkerInv
<1>1. PICK r \in Requests[service], v \in Workers :
        /\ call[c] = "new"
        /\ request' = [request EXCEPT ![c] = r]
        /\ inbox' = [inbox EXCEPT ![v] = Append(@, c)]
        /\ call' = [call EXCEPT ![c] = "waiting"]
        /\ service' = service /\ mail' = mail /\ result' = result /\ pc' = pc
        /\ job' = job /\ todo' = todo /\ batch' = batch /\ seqs' = seqs /\ output' = output
  BY DEF Send, Deliver, work
<1>2. CallTypes'
  BY <1>1 DEF CallTypes
<1>3. WorkTypes'
  <2>1. inbox' \in [Workers -> Seq(Calls)]
    BY <1>1, AppendProperties DEF WorkTypes
  <2> QED
    BY <1>1, <2>1 DEF WorkTypes
<1>4. Unsent'
  <2>1. ASSUME NEW d \in Calls, call'[d] = "new"
        PROVE  /\ mail'[d] = <<>>
               /\ \A w \in Workers : job'[w] # d /\ \A k \in 1 .. Len(inbox'[w]) : inbox'[w][k] # d
    <3>1. d # c /\ call[d] = "new"
      BY <1>1, <2>1 DEF CallTypes
    <3>2. ASSUME NEW w \in Workers, NEW k \in 1 .. Len(inbox'[w]) PROVE inbox'[w][k] # d
      <4>1. inbox[w] \in Seq(Calls) /\ \A i \in 1 .. Len(inbox[w]) : inbox[w][i] # d
        BY <3>1 DEF WorkTypes, Unsent
      <4>2. CASE w = v
        <5>1. inbox'[w] = Append(inbox[w], c)
          BY <1>1, <4>2 DEF WorkTypes
        <5> QED
          BY <3>1, <4>1, <5>1, AppendProperties
      <4>3. CASE w # v
        BY <1>1, <3>2, <4>1, <4>3 DEF WorkTypes
      <4> QED
        BY <4>2, <4>3
    <3> QED
      BY <1>1, <3>1, <3>2 DEF Unsent
  <2> QED
    BY <2>1 DEF Unsent
<1>5. Working'
  <2>1. ASSUME NEW w \in Workers PROVE WorksAt(w)'
    <3>1. job[w] # c
      BY <1>1 DEF Unsent
    <3>2. job[w] \in Calls => request'[job[w]] = request[job[w]]
      BY <1>1, <3>1 DEF CallTypes
    <3>3. WorksAt(w)
      BY DEF Working
    <3> QED
      BY <1>1, <3>2, <3>3, WorksFrame
  <2> QED
    BY <2>1 DEF Working
<1>6. Answered'
  <2>1. ASSUME NEW d \in Calls PROVE AnsweredAt(d)'
    <3>1. CASE d = c
      <4>1. mail'[d] = <<>> /\ call'[d] = "waiting"
        BY <1>1, <3>1 DEF Unsent, CallTypes
      <4>2. <<>> \in Seq(RightAnswers(d)')
        OBVIOUS
      <4> QED
        BY <4>1, <4>2 DEF AnsweredAt
    <3>2. CASE d # c
      <4>1. request'[d] = request[d] /\ call'[d] = call[d]
        BY <1>1, <3>2 DEF CallTypes
      <4>2. AnsweredAt(d)
        BY DEF Answered
      <4> QED
        BY <1>1, <4>1, <4>2, AnsweredFrame
    <3> QED
      BY <3>1, <3>2
  <2> QED
    BY <2>1 DEF Answered
<1> QED
  BY <1>2, <1>3, <1>4, <1>5, <1>6

(* A step of the callers that leaves every worker alone. *)
LEMMA WorkersIdle ==
  ASSUME WorkerInv, UNCHANGED <<service, request, inbox, pc, job, work>>
  PROVE  WorkTypes' /\ Working'
<1>1. WorkTypes'
  BY DEF WorkerInv, WorkTypes, work
<1>2. ASSUME NEW w \in Workers PROVE WorksAt(w)'
  <2>1. WorksAt(w)
    BY DEF WorkerInv, Working
  <2> QED
    BY <2>1, WorksFrame DEF work
<1> QED
  BY <1>1, <1>2 DEF Working

LEMMA TimeOutSafe ==
  ASSUME WorkerInv, NEW c \in Calls, TimeOut(c)
  PROVE  WorkerInv'
<1>1. /\ call[c] = "waiting" /\ call' = [call EXCEPT ![c] = "failed"]
      /\ UNCHANGED <<service, request, mail, result, inbox, pc, job, work>>
  BY DEF TimeOut
<1>2. CallTypes'
  BY <1>1 DEF WorkerInv, CallTypes
<1>3. WorkTypes' /\ Working'
  BY <1>1, WorkersIdle
<1>4. Unsent'
  BY <1>1 DEF WorkerInv, Unsent, CallTypes
<1>5. ASSUME NEW d \in Calls PROVE AnsweredAt(d)'
  <2>1. call'[d] = "done" => call[d] = "done"
    BY <1>1 DEF WorkerInv, CallTypes
  <2>2. AnsweredAt(d)
    BY DEF WorkerInv, Answered
  <2> QED
    BY <1>1, <2>1, <2>2, AnsweredFrame
<1> QED
  BY <1>2, <1>3, <1>4, <1>5 DEF WorkerInv, Answered

LEMMA TakeAnswerSafe ==
  ASSUME WorkerInv, NEW c \in Calls, TakeAnswer(c)
  PROVE  WorkerInv'
<1> DEFINE answer == Head(mail[c])
<1>1. /\ call[c] = "waiting" /\ mail[c] # <<>>
      /\ result' = [result EXCEPT ![c] = answer]
      /\ call' = [call EXCEPT ![c] = IF answer.ok THEN "done" ELSE "failed"]
      /\ mail' = [mail EXCEPT ![c] = Tail(@)]
      /\ UNCHANGED <<service, request, inbox, pc, job, work>>
  BY DEF TakeAnswer, Identity
<1>2. mail[c] \in Seq(RightAnswers(c))
  BY DEF WorkerInv, Answered, AnsweredAt
<1>3. answer \in RightAnswers(c) /\ Tail(mail[c]) \in Seq(RightAnswers(c))
  <2> HIDE DEF answer
  <2> QED
    BY <1>1, <1>2, HeadTailProperties DEF answer
<1>4. answer \in Answers /\ Tail(mail[c]) \in Seq(Answers)
  <2>1. mail[c] \in Seq(Answers)
    BY DEF WorkerInv, CallTypes
  <2> QED
    BY <1>1, <2>1, HeadTailProperties
<1>5. CallTypes'
  BY <1>1, <1>4 DEF WorkerInv, CallTypes
<1>6. WorkTypes' /\ Working'
  BY <1>1, WorkersIdle
<1>7. Unsent'
  BY <1>1 DEF WorkerInv, Unsent, CallTypes
<1>8. ASSUME NEW d \in Calls PROVE AnsweredAt(d)'
  <2>1. AnsweredAt(d)
    BY DEF WorkerInv, Answered
  <2>2. CASE d # c
    <3>1. mail'[d] = mail[d] /\ result'[d] = result[d] /\ call'[d] = call[d]
      BY <1>1, <2>2 DEF WorkerInv, CallTypes
    <3> QED
      BY <1>1, <2>1, <3>1, AnsweredFrame
  <2>3. CASE d = c
    <3>1. RightAnswers(d)' = RightAnswers(d)
      BY <1>1, AnswersFrame
    <3>2. /\ mail'[d] = Tail(mail[c]) /\ result'[d] = answer
          /\ call'[d] = IF answer.ok THEN "done" ELSE "failed"
      BY <1>1, <2>3 DEF WorkerInv, CallTypes
    <3> HIDE DEF answer
    <3> QED
      BY <1>3, <2>3, <3>1, <3>2 DEF AnsweredAt
  <2> QED
    BY <2>2, <2>3
<1> QED
  BY <1>5, <1>6, <1>7, <1>8 DEF WorkerInv, Answered

-----------------------------------------------------------------------------
(* The steps of a worker *)

(* The end of a request, whatever its answer. *)
LEMMA AnswerSafe ==
  ASSUME WorkerInv, NEW w \in Workers, pc[w] \in {"fill", "refuse"},
         NEW answer \in RightAnswers(job[w]), Answer(w, answer),
         batch' = [batch EXCEPT ![w] = <<>>]
  PROVE  WorkerInv'
<1> DEFINE c == job[w]
<1>1. c \in Calls
  BY DEF WorkerInv, Working, WorksAt, Filling
<1>2. /\ mail' = [mail EXCEPT ![c] = Append(@, answer)]
      /\ pc' = [pc EXCEPT ![w] = "recv"]
      /\ job' = [job EXCEPT ![w] = None]
      /\ todo' = [todo EXCEPT ![w] = <<>>]
      /\ seqs' = [seqs EXCEPT ![w] = 0]
      /\ output' = [output EXCEPT ![w] = <<>>]
      /\ service' = service /\ request' = request /\ call' = call /\ result' = result
      /\ inbox' = inbox
  BY DEF Answer, SendTo, Identity, callers
<1>3. answer \in Answers
  BY DEF RightAnswers
<1>4. CallTypes'
  <2>1. mail' \in [Calls -> Seq(Answers)]
    BY <1>1, <1>2, <1>3, AppendProperties DEF WorkerInv, CallTypes
  <2> QED
    BY <1>2, <2>1 DEF WorkerInv, CallTypes
<1>5. WorkTypes'
  BY <1>2 DEF WorkerInv, WorkTypes, None
<1>6. Unsent'
  <2>1. call[c] # "new"
    BY <1>1 DEF WorkerInv, Unsent
  <2>2. None \notin Calls
    BY ModelAssumption
  <2>3. ASSUME NEW d \in Calls, call'[d] = "new"
        PROVE  /\ mail'[d] = <<>>
               /\ \A v \in Workers : job'[v] # d /\ \A k \in 1 .. Len(inbox'[v]) : inbox'[v][k] # d
    <3>1. d # c /\ call[d] = "new"
      BY <1>2, <2>1, <2>3
    <3>2. mail'[d] = mail[d]
      BY <1>2, <3>1 DEF WorkerInv, CallTypes
    <3>3. ASSUME NEW v \in Workers PROVE job'[v] \in {job[v], None}
      BY <1>2 DEF WorkerInv, WorkTypes
    <3> QED
      BY <1>2, <2>2, <3>1, <3>2, <3>3 DEF WorkerInv, Unsent
  <2> QED
    BY <2>3 DEF Unsent
<1>7. ASSUME NEW v \in Workers PROVE WorksAt(v)'
  <2>1. CASE v = w
    <3>1. pc'[v] = "recv" /\ batch'[v] = <<>> /\ seqs'[v] = 0 /\ output'[v] = <<>>
      BY <1>2, <2>1 DEF WorkerInv, WorkTypes
    <3> QED
      BY <3>1 DEF WorksAt, AtRest
  <2>2. CASE v # w
    <3>1. /\ pc'[v] = pc[v] /\ job'[v] = job[v] /\ todo'[v] = todo[v] /\ batch'[v] = batch[v]
          /\ seqs'[v] = seqs[v] /\ output'[v] = output[v]
      BY <1>2, <2>2 DEF WorkerInv, WorkTypes
    <3>2. WorksAt(v)
      BY DEF WorkerInv, Working
    <3> QED
      BY <1>2, <3>1, <3>2, WorksFrame
  <2> QED
    BY <2>1, <2>2
<1>8. ASSUME NEW d \in Calls PROVE AnsweredAt(d)'
  <2>1. AnsweredAt(d)
    BY DEF WorkerInv, Answered
  <2>2. CASE d # c
    <3>1. mail'[d] = mail[d]
      BY <1>2, <2>2 DEF WorkerInv, CallTypes
    <3> QED
      BY <1>2, <2>1, <3>1, AnsweredFrame
  <2>3. CASE d = c
    <3>1. RightAnswers(d)' = RightAnswers(d)
      BY <1>2, AnswersFrame
    <3>2. mail'[d] = Append(mail[d], answer)
      BY <1>2, <2>3 DEF WorkerInv, CallTypes
    <3>3. mail'[d] \in Seq(RightAnswers(d))
      <4>1. answer \in RightAnswers(d)
        BY <2>3
      <4>2. mail[d] \in Seq(RightAnswers(d))
        BY <2>1 DEF AnsweredAt
      <4> QED
        BY <3>2, <4>1, <4>2, AppendProperties
    <3> QED
      BY <1>2, <2>1, <3>1, <3>3 DEF AnsweredAt
  <2> QED
    BY <2>2, <2>3
<1> QED
  BY <1>4, <1>5, <1>6, <1>7, <1>8 DEF WorkerInv, Working, Answered

(* An error is an answer to any request. *)
LEMMA ErrorRight == ASSUME NEW c PROVE Error \in RightAnswers(c)
  BY DEF RightAnswers, Error, Answers

LEMMA RefuseSafe ==
  ASSUME WorkerInv, NEW w \in Workers, Refuse(w)
  PROVE  WorkerInv'
<1>1. pc[w] = "refuse" /\ Answer(w, Error) /\ batch' = batch
  BY DEF Refuse
<1>2. batch' = [batch EXCEPT ![w] = <<>>]
  BY <1>1 DEF WorkerInv, WorkTypes, Working, WorksAt, AtRest
<1>3. Error \in RightAnswers(job[w])
  BY ErrorRight
<1> QED
  BY <1>1, <1>2, <1>3, AnswerSafe

LEMMA DecodeFailsSafe ==
  ASSUME WorkerInv, NEW w \in Workers, DecodeFails(w)
  PROVE  WorkerInv'
<1>1. pc[w] = "fill" /\ Answer(w, Error) /\ batch' = [batch EXCEPT ![w] = <<>>]
  BY DEF DecodeFails, ClearBatch
<1>2. Error \in RightAnswers(job[w])
  BY ErrorRight
<1> QED
  BY <1>1, <1>2, AnswerSafe

(* A step of worker w that neither calls nor answers. *)
LEMMA LocalSafe ==
  ASSUME WorkerInv, NEW w \in Workers, UNCHANGED <<service, callers, mail>>,
         WorkTypes', Unsent', WorksAt(w)',
         \A v \in Workers \ {w} :
           /\ pc'[v] = pc[v] /\ job'[v] = job[v] /\ todo'[v] = todo[v] /\ batch'[v] = batch[v]
           /\ seqs'[v] = seqs[v] /\ output'[v] = output[v]
  PROVE  WorkerInv'
<1>1. service' = service /\ request' = request /\ call' = call /\ result' = result /\ mail' = mail
  BY DEF callers
<1>2. CallTypes'
  BY <1>1 DEF WorkerInv, CallTypes
<1>3. ASSUME NEW v \in Workers PROVE WorksAt(v)'
  <2>1. CASE v # w
    <3>1. WorksAt(v)
      BY DEF WorkerInv, Working
    <3> QED
      BY <1>1, <2>1, <3>1, WorksFrame
  <2>2. CASE v = w
    BY <2>2
  <2> QED
    BY <2>1, <2>2
<1>4. ASSUME NEW c \in Calls PROVE AnsweredAt(c)'
  <2>1. AnsweredAt(c)
    BY DEF WorkerInv, Answered
  <2> QED
    BY <1>1, <2>1, AnsweredFrame
<1> QED
  BY <1>2, <1>3, <1>4 DEF WorkerInv, Working, Answered

LEMMA StopSafe ==
  ASSUME WorkerInv, NEW w \in Workers, Stop(w)
  PROVE  WorkerInv'
<1>1. /\ pc[w] = "recv" /\ pc' = [pc EXCEPT ![w] = "stopped"]
      /\ service' = service /\ request' = request /\ call' = call /\ result' = result
      /\ mail' = mail /\ inbox' = inbox /\ job' = job /\ todo' = todo /\ batch' = batch
      /\ seqs' = seqs /\ output' = output
  BY DEF Stop, callers, work
<1>2. WorkTypes'
  BY <1>1 DEF WorkerInv, WorkTypes
<1>3. Unsent'
  BY <1>1 DEF WorkerInv, Unsent
<1>4. WorksAt(w)'
  BY <1>1 DEF WorkerInv, WorkTypes, Working, WorksAt, AtRest
<1>5. \A v \in Workers \ {w} : pc'[v] = pc[v]
  BY <1>1 DEF WorkerInv, WorkTypes
<1> QED
  BY <1>1, <1>2, <1>3, <1>4, <1>5, LocalSafe DEF callers

LEMMA ReceiveSafe ==
  ASSUME WorkerInv, NEW w \in Workers, Receive(w)
  PROVE  WorkerInv'
<1> DEFINE c == Head(inbox[w])
<1>1. /\ pc[w] = "recv" /\ inbox[w] # <<>>
      /\ job' = [job EXCEPT ![w] = c]
      /\ pc' = [pc EXCEPT ![w] = IF Refused(request[c]) THEN "refuse" ELSE "fill"]
      /\ todo' = [todo EXCEPT ![w] = Sequences(c, request[c])]
      /\ inbox' = [inbox EXCEPT ![w] = Tail(@)]
      /\ service' = service /\ request' = request /\ call' = call /\ result' = result
      /\ mail' = mail /\ batch' = batch /\ seqs' = seqs /\ output' = output
  BY DEF Receive, callers
<1>2. inbox[w] \in Seq(Calls)
  BY DEF WorkerInv, WorkTypes
<1>3. /\ c \in Calls /\ Len(inbox[w]) \in Nat /\ Len(inbox[w]) > 0 /\ c = inbox[w][1]
      /\ Tail(inbox[w]) \in Seq(Calls) /\ Len(Tail(inbox[w])) = Len(inbox[w]) - 1
      /\ \A k \in 1 .. Len(Tail(inbox[w])) : Tail(inbox[w])[k] = inbox[w][k + 1]
  BY <1>1, <1>2, HeadTailProperties, LenProperties
<1>4. /\ Sequences(c, request[c]) \in Seq(Pieces)
      /\ Len(Sequences(c, request[c])) = Len(Kept(request[c]))
      /\ Len(Kept(request[c])) \in Nat
      /\ \A k \in 1 .. Len(Kept(request[c])) :
           /\ Sequences(c, request[c])[k].src = Source(c, k)
           /\ Sequences(c, request[c])[k].len <= NCtx
  <2> HIDE DEF c
  <2> QED
    BY <1>3, SequencesShape DEF WorkerInv
<1> HIDE DEF c
<1>5. WorkTypes'
  BY <1>1, <1>3, <1>4 DEF WorkerInv, WorkTypes
<1>6. Unsent'
  <2>1. ASSUME NEW d \in Calls, call'[d] = "new"
        PROVE  /\ mail'[d] = <<>>
               /\ \A v \in Workers : job'[v] # d /\ \A k \in 1 .. Len(inbox'[v]) : inbox'[v][k] # d
    <3>1. /\ mail[d] = <<>>
          /\ \A v \in Workers : job[v] # d /\ \A k \in 1 .. Len(inbox[v]) : inbox[v][k] # d
      BY <1>1, <2>1 DEF WorkerInv, Unsent
    <3>2. c # d
      BY <1>3, <3>1
    <3>3. ASSUME NEW v \in Workers PROVE job'[v] # d
      BY <1>1, <3>1, <3>2 DEF WorkerInv, WorkTypes
    <3>4. ASSUME NEW v \in Workers, NEW k \in 1 .. Len(inbox'[v]) PROVE inbox'[v][k] # d
      <4>1. CASE v = w
        <5>1. inbox'[v] = Tail(inbox[w])
          BY <1>1, <4>1 DEF WorkerInv, WorkTypes
        <5>2. k \in 1 .. Len(Tail(inbox[w])) /\ k + 1 \in 1 .. Len(inbox[w])
          BY <1>3, <5>1
        <5> QED
          BY <1>3, <3>1, <5>1, <5>2
      <4>2. CASE v # w
        <5>1. inbox'[v] = inbox[v]
          BY <1>1, <4>2 DEF WorkerInv, WorkTypes
        <5> QED
          BY <3>1, <5>1
      <4> QED
        BY <4>1, <4>2
    <3> QED
      BY <1>1, <3>1, <3>3, <3>4
  <2> QED
    BY <2>1 DEF Unsent
<1>7. WorksAt(w)'
  <2>1. batch[w] = <<>> /\ seqs[w] = 0 /\ output[w] = <<>>
    BY <1>1 DEF WorkerInv, Working, WorksAt, AtRest
  <2>2. /\ job'[w] = c /\ todo'[w] = Sequences(c, request[c])
        /\ batch'[w] = <<>> /\ seqs'[w] = 0 /\ output'[w] = <<>>
        /\ pc'[w] \in {"refuse", "fill"}
    BY <1>1, <2>1 DEF WorkerInv, WorkTypes
  <2>3. Kept(request[job[w]])' = Kept(request[c])
    <3>1. PICK d : d = c
      OBVIOUS
    <3>2. Kept(request[d])' = Kept(request[d])
      BY <1>1, KeptFrame
    <3> QED
      BY <2>2, <3>1, <3>2
  <2>4. Tokens(batch[w])' = 0
    <3>1. Tokens(batch[w]) = 0
      BY <2>1, TokensProperties
    <3> QED
      BY <1>1, <3>1, TokensFrame
  <2>5. Len(<<>>) = 0 /\ NCtx \in Nat
    BY ModelAssumption
  <2>6. Filling(w)'
    BY <1>3, <1>4, <2>2, <2>3, <2>4, <2>5 DEF Filling, Source
  <2>7. AtRest(w)'
    BY <2>2 DEF AtRest
  <2> QED
    BY <1>3, <2>2, <2>6, <2>7 DEF WorksAt
<1>8. \A v \in Workers \ {w} : pc'[v] = pc[v] /\ job'[v] = job[v] /\ todo'[v] = todo[v]
  BY <1>1 DEF WorkerInv, WorkTypes
<1> QED
  BY <1>1, <1>5, <1>6, <1>7, <1>8, LocalSafe DEF callers

(* What a decode appends to the output: the sources of the batch, one by   *)
(* one, since its sequences are numbered apart.                            *)
LEMMA DecodedShape ==
  ASSUME WorkerInv, NEW w \in Workers, pc[w] = "fill"
  PROVE  /\ Decoded(w) \in Seq(Sources)
         /\ Len(Decoded(w)) = Len(output[w]) + Len(batch[w])
         /\ \A k \in 1 .. Len(output[w]) + Len(batch[w]) :
              Decoded(w)[k] = {Source(job[w], k)}
<1> DEFINE o == Len(output[w])
           b == Len(batch[w])
           tail == [i \in 1 .. seqs[w] |-> Pooled(batch[w], i - 1)]
<1>1. Filling(w)
  BY DEF WorkerInv, Working, WorksAt
<1>2. output[w] \in Seq(Sources) /\ batch[w] \in Seq(Batched) /\ seqs[w] = b
  BY <1>1 DEF WorkerInv, WorkTypes, Filling
<1>3. o \in Nat /\ b \in Nat /\ DOMAIN batch[w] = 1 .. b
  BY <1>2, LenProperties
<1>4. ASSUME NEW i \in 1 .. b
      PROVE  Pooled(batch[w], i - 1) = {Source(job[w], o + i)} /\ Pooled(batch[w], i - 1) \in Sources
  <2>1. \A k \in 1 .. b : batch[w][k].seq = k - 1
    BY <1>1 DEF Filling
  <2>2. {j \in DOMAIN batch[w] : batch[w][j].seq = i - 1} = {i}
    BY <1>3, <2>1
  <2>3. Pooled(batch[w], i - 1) = {batch[w][i].src}
    BY <2>2 DEF Pooled
  <2>4. batch[w][i].src = Source(job[w], o + i)
    BY <1>1 DEF Filling
  <2>5. batch[w][i].src \in Calls \X Nat
    <3>1. batch[w][i] \in Batched
      BY <1>2, BatchedLengths
    <3> QED
      BY <3>1 DEF Batched
  <2> QED
    BY <2>3, <2>4, <2>5 DEF Sources
<1>5. tail \in Seq(Sources) /\ Len(tail) = b /\ \A i \in 1 .. b : tail[i] = {Source(job[w], o + i)}
  <2>1. tail \in [1 .. b -> Sources] /\ \A i \in 1 .. b : tail[i] = {Source(job[w], o + i)}
    BY <1>2, <1>4
  <2> HIDE DEF tail, b, o
  <2>2. tail \in Seq(Sources) /\ Len(tail) = b
    BY <1>3, <2>1, FunctionIsSeq
  <2> QED
    BY <2>1, <2>2
<1>6. Decoded(w) = output[w] \o tail
  BY DEF Decoded
<1> HIDE DEF tail
<1>7. /\ Decoded(w) \in Seq(Sources) /\ Len(Decoded(w)) = o + b
      /\ \A k \in 1 .. o + b : Decoded(w)[k] = IF k <= o THEN output[w][k] ELSE tail[k - o]
  <2>1. /\ output[w] \o tail \in Seq(Sources)
        /\ Len(output[w] \o tail) = Len(output[w]) + Len(tail)
        /\ \A k \in 1 .. Len(output[w]) + Len(tail) :
             (output[w] \o tail)[k] = IF k <= Len(output[w]) THEN output[w][k]
                                      ELSE tail[k - Len(output[w])]
    <3>1. PICK x, y : x = output[w] /\ y = tail /\ x \in Seq(Sources) /\ y \in Seq(Sources)
      BY <1>2, <1>5
    <3> QED
      BY <3>1, ConcatProperties, Zenon
  <2> QED
    BY <1>5, <1>6, <2>1
<1>8. ASSUME NEW k \in 1 .. o + b PROVE Decoded(w)[k] = {Source(job[w], k)}
  <2>1. CASE k <= o
    <3>1. k \in 1 .. o
      BY <1>3, <2>1
    <3>2. output[w][k] = {Source(job[w], k)}
      BY <1>1, <3>1 DEF Filling
    <3> QED
      BY <1>7, <2>1, <3>2
  <2>2. CASE ~ (k <= o)
    <3>1. k - o \in 1 .. b /\ o + (k - o) = k
      <4> HIDE DEF o, b
      <4> QED
        BY <1>3, <2>2
    <3>2. tail[k - o] = {Source(job[w], k)}
      BY <1>5, <3>1
    <3> QED
      BY <1>7, <2>2, <3>2
  <2> QED
    BY <2>1, <2>2
<1> QED
  BY <1>7, <1>8

LEMMA FlushSafe ==
  ASSUME WorkerInv, NEW w \in Workers, Flush(w)
  PROVE  WorkerInv'
<1>1. /\ pc[w] = "fill"
      /\ output' = [output EXCEPT ![w] = Decoded(w)]
      /\ batch' = [batch EXCEPT ![w] = <<>>]
      /\ seqs' = [seqs EXCEPT ![w] = 0]
      /\ service' = service /\ request' = request /\ call' = call /\ result' = result
      /\ mail' = mail /\ inbox' = inbox /\ pc' = pc /\ job' = job /\ todo' = todo
  BY DEF Flush, ClearBatch, callers
<1>2. /\ Decoded(w) \in Seq(Sources)
      /\ Len(Decoded(w)) = Len(output[w]) + Len(batch[w])
      /\ \A k \in 1 .. Len(output[w]) + Len(batch[w]) : Decoded(w)[k] = {Source(job[w], k)}
  BY <1>1, DecodedShape
<1>3. WorkTypes'
  BY <1>1, <1>2 DEF WorkerInv, WorkTypes
<1>4. Unsent'
  BY <1>1 DEF WorkerInv, Unsent
<1>5. Filling(w)
  BY <1>1 DEF WorkerInv, Working, WorksAt
<1>6. Filling(w)'
  <2>1. /\ job'[w] = job[w] /\ todo'[w] = todo[w] /\ output'[w] = Decoded(w)
        /\ batch'[w] = <<>> /\ seqs'[w] = 0
    BY <1>1 DEF WorkerInv, WorkTypes
  <2>2. Kept(request[job[w]])' = Kept(request[job[w]])
    <3>1. PICK c : c = job[w]
      OBVIOUS
    <3>2. Kept(request[c])' = Kept(request[c])
      BY <1>1, KeptFrame
    <3> QED
      BY <1>1, <3>1, <3>2
  <2>3. Tokens(batch[w])' = 0
    <3>1. PICK e : e = <<>>
      OBVIOUS
    <3>2. Tokens(e) = 0
      BY <3>1, TokensProperties
    <3> QED
      BY <2>1, <3>1, <3>2
  <2>4. Len(<<>>) = 0 /\ NCtx \in Nat
    BY ModelAssumption
  <2>5. Len(output[w]) \in Nat /\ Len(batch[w]) \in Nat /\ Len(todo[w]) \in Nat
    BY LenProperties DEF WorkerInv, WorkTypes
  <2>6. \A k \in 1 .. Len(Decoded(w)) : Decoded(w)[k] = {<<job[w], Kept(request[job[w]])[k]>>}
    BY <1>2 DEF Source
  <2>7. \A k \in 1 .. Len(todo[w]) :
          /\ todo[w][k].src
               = <<job[w], Kept(request[job[w]])[Len(Decoded(w)) + Len(<<>>) + k]>>
          /\ todo[w][k].len <= NCtx
    <3>1. Len(Decoded(w)) + Len(<<>>) = Len(output[w]) + Len(batch[w])
      BY <1>2, <2>4, <2>5
    <3> QED
      BY <1>5, <3>1 DEF Filling, Source
  <2>8. Len(Decoded(w)) + Len(<<>>) + Len(todo[w]) = Len(Kept(request[job[w]]))
    <3>1. Len(output[w]) + Len(batch[w]) + Len(todo[w]) = Len(Kept(request[job[w]]))
      BY <1>5 DEF Filling
    <3>2. Len(Decoded(w)) + Len(<<>>) = Len(output[w]) + Len(batch[w])
      BY <1>2, <2>4, <2>5
    <3> QED
      BY <3>1, <3>2
  <2>9. 1 .. Len(<<>>) = {}
    BY <2>4
  <2>10. job[w] \in Calls
    BY <1>5 DEF Filling
  <2>11. \A k \in 1 .. Len(output'[w]) : output'[w][k] = {Source(job[w], k)'}
    BY <2>1, <2>2, <2>6 DEF Source
  <2>12. \A k \in 1 .. Len(todo'[w]) :
           /\ todo'[w][k].src = Source(job[w], Len(output[w]) + Len(batch[w]) + k)'
           /\ todo'[w][k].len <= NCtx
    BY <2>1, <2>2, <2>7 DEF Source
  <2>13. Len(output'[w]) + Len(batch'[w]) + Len(todo'[w]) = Len(Kept(request[job[w]])')
    BY <2>1, <2>2, <2>8
  <2> QED
    BY <2>1, <2>3, <2>4, <2>9, <2>10, <2>11, <2>12, <2>13 DEF Filling
<1>7. WorksAt(w)'
  BY <1>1, <1>6 DEF WorksAt
<1>8. \A v \in Workers \ {w} : output'[v] = output[v] /\ batch'[v] = batch[v] /\ seqs'[v] = seqs[v]
  BY <1>1 DEF WorkerInv, WorkTypes
<1> QED
  BY <1>1, <1>3, <1>4, <1>7, <1>8, LocalSafe DEF callers

LEMMA AddSequenceSafe ==
  ASSUME WorkerInv, NEW w \in Workers, AddSequence(w)
  PROVE  WorkerInv'
<1> DEFINE x == [src |-> Head(todo[w]).src, len |-> Head(todo[w]).len, seq |-> seqs[w]]
           o == Len(output[w])
           b == Len(batch[w])
           t == Len(todo[w])
<1>1. pc[w] = "fill" /\ todo[w] # <<>>
  BY DEF AddSequence
<1>2. CASE MustFlush(w)
  <2>1. Answer(w, Error) /\ batch' = [batch EXCEPT ![w] = <<>>]
    BY <1>2 DEF AddSequence, ClearBatch
  <2>2. Error \in RightAnswers(job[w])
    BY ErrorRight
  <2> QED
    BY <1>1, <2>1, <2>2, AnswerSafe
<1>3. CASE ~ MustFlush(w)
  <2>1. /\ batch' = [batch EXCEPT ![w] = Append(@, x)]
        /\ seqs' = [seqs EXCEPT ![w] = @ + 1]
        /\ todo' = [todo EXCEPT ![w] = Tail(@)]
        /\ service' = service /\ request' = request /\ call' = call /\ result' = result
        /\ mail' = mail /\ inbox' = inbox /\ pc' = pc /\ job' = job /\ output' = output
    BY <1>3 DEF AddSequence, callers
  <2>2. /\ output[w] \in Seq(Sources) /\ batch[w] \in Seq(Batched) /\ todo[w] \in Seq(Pieces)
        /\ seqs[w] \in Nat
    BY DEF WorkerInv, WorkTypes
  <2>3. Filling(w)
    BY <1>1 DEF WorkerInv, Working, WorksAt
  <2>4. o \in Nat /\ b \in Nat /\ t \in Nat /\ t > 0
    BY <1>1, <2>2, LenProperties, EmptySeq
  <2>5. /\ Head(todo[w]) = todo[w][1] /\ Head(todo[w]) \in Pieces
        /\ Tail(todo[w]) \in Seq(Pieces) /\ Len(Tail(todo[w])) = t - 1
        /\ \A k \in 1 .. t - 1 : Tail(todo[w])[k] = todo[w][k + 1]
    BY <1>1, <2>2, <2>4, HeadTailProperties
  <2>6. x \in Batched
    BY <2>2, <2>5 DEF Batched, Pieces
  <2>7. x.src = todo[w][1].src /\ x.len = todo[w][1].len /\ x.seq = seqs[w]
    BY <2>5
  <2> HIDE DEF x
  <2>8. /\ Append(batch[w], x) \in Seq(Batched) /\ Len(Append(batch[w], x)) = b + 1
        /\ \A k \in 1 .. b : Append(batch[w], x)[k] = batch[w][k]
        /\ Append(batch[w], x)[b + 1] = x
    BY <2>2, <2>6, AppendProperties
  <2>9. WorkTypes'
    BY <2>1, <2>2, <2>5, <2>8 DEF WorkerInv, WorkTypes
  <2>10. Unsent'
    BY <2>1 DEF WorkerInv, Unsent
  <2>11. /\ job'[w] = job[w] /\ todo'[w] = Tail(todo[w]) /\ output'[w] = output[w]
         /\ batch'[w] = Append(batch[w], x) /\ seqs'[w] = seqs[w] + 1
    BY <2>1 DEF WorkerInv, WorkTypes
  <2>12. Kept(request[job[w]])' = Kept(request[job[w]])
    <3>1. PICK c : c = job[w]
      OBVIOUS
    <3>2. Kept(request[c])' = Kept(request[c])
      BY <2>1, KeptFrame
    <3> QED
      BY <2>1, <3>1, <3>2
  <2>13. Tokens(batch[w])' <= NCtx
    <3>1. PICK e : e = Append(batch[w], x)
      OBVIOUS
    <3>2. Tokens(e) = Tokens(batch[w]) + x.len
      BY <2>2, <2>6, <3>1, TokensProperties
    <3>3. Tokens(batch[w]) + Head(todo[w]).len <= NCtx
      <4>1. Tokens(batch[w]) \in Nat /\ Head(todo[w]).len \in Nat /\ NCtx \in Nat
        BY <2>2, <2>5, TokensProperties, ModelAssumption DEF Pieces
      <4> QED
        BY <1>1, <1>3, <4>1 DEF MustFlush
    <3> QED
      BY <2>5, <2>7, <2>11, <3>1, <3>2, <3>3
  <2>14. seqs'[w] = Len(batch'[w]) /\ seqs[w] = b
    BY <2>3, <2>8, <2>11 DEF Filling
  <2>15. \A k \in 1 .. Len(output'[w]) : output'[w][k] = {Source(job[w], k)'}
    BY <2>3, <2>11, <2>12 DEF Filling, Source
  <2>16. ASSUME NEW k \in 1 .. b + 1
         PROVE  /\ batch'[w][k].src = <<job[w], Kept(request[job[w]])[o + k]>>
                /\ batch'[w][k].seq = k - 1
    <3>1. CASE k \in 1 .. b
      BY <2>3, <2>8, <2>11, <3>1 DEF Filling, Source
    <3>2. CASE k = b + 1
      <4>1. todo[w][1].src = <<job[w], Kept(request[job[w]])[o + b + 1]>>
        <5>1. 1 \in 1 .. t
          BY <2>4
        <5> QED
          BY <2>3, <5>1 DEF Filling, Source
      <4>2. o + k = o + b + 1 /\ k - 1 = b
        <5> HIDE DEF o, b
        <5> QED
          BY <2>4, <3>2
      <4> QED
        BY <2>7, <2>8, <2>11, <2>14, <3>2, <4>1, <4>2
    <3>3. k \in 1 .. b \/ k = b + 1
      <4> HIDE DEF b
      <4> QED
        BY <2>4
    <3> QED
      BY <3>1, <3>2, <3>3
  <2>17. ASSUME NEW k \in 1 .. t - 1
         PROVE  /\ todo'[w][k].src = <<job[w], Kept(request[job[w]])[o + (b + 1) + k]>>
                /\ todo'[w][k].len <= NCtx
    <3>1. k + 1 \in 1 .. t /\ o + b + (k + 1) = o + (b + 1) + k
      <4> HIDE DEF b, o, t
      <4> QED
        BY <2>4
    <3>2. todo'[w][k] = todo[w][k + 1]
      BY <2>5, <2>11
    <3>3. /\ todo[w][k + 1].src = <<job[w], Kept(request[job[w]])[o + b + (k + 1)]>>
          /\ todo[w][k + 1].len <= NCtx
      BY <2>3, <3>1 DEF Filling, Source
    <3> QED
      BY <3>1, <3>2, <3>3
  <2>18. o + (b + 1) + (t - 1) = Len(Kept(request[job[w]]))
    <3>1. o + b + t = Len(Kept(request[job[w]]))
      BY <2>3 DEF Filling
    <3> HIDE DEF o, b, t
    <3> QED
      BY <2>4, <3>1
  <2>19. job'[w] \in Calls
    BY <2>3, <2>11 DEF Filling
  <2>20. \A k \in 1 .. Len(batch'[w]) :
           /\ batch'[w][k].src = Source(job[w], Len(output[w]) + k)'
           /\ batch'[w][k].seq = k - 1
    BY <2>8, <2>11, <2>12, <2>16 DEF Source
  <2>21. \A k \in 1 .. Len(todo'[w]) :
           /\ todo'[w][k].src = Source(job[w], Len(output[w]) + Len(batch[w]) + k)'
           /\ todo'[w][k].len <= NCtx
    BY <2>5, <2>8, <2>11, <2>12, <2>17 DEF Source
  <2>22. Len(output'[w]) + Len(batch'[w]) + Len(todo'[w]) = Len(Kept(request[job[w]])')
    BY <2>5, <2>8, <2>11, <2>12, <2>18
  <2>23. Filling(w)'
    BY <2>13, <2>14, <2>15, <2>19, <2>20, <2>21, <2>22 DEF Filling
  <2>24. WorksAt(w)'
    BY <1>1, <2>1, <2>23 DEF WorksAt
  <2>25. \A v \in Workers \ {w} : todo'[v] = todo[v] /\ batch'[v] = batch[v] /\ seqs'[v] = seqs[v]
    BY <2>1 DEF WorkerInv, WorkTypes
  <2> QED
    BY <2>1, <2>9, <2>10, <2>24, <2>25, LocalSafe DEF callers
<1> QED
  BY <1>2, <1>3

(* The sorted ranks: every sequence once, with its own score and text, in  *)
(* the comparator's order and, where that is silent, in the texts' order.  *)
LEMMA RanksRight ==
  ASSUME CallTypes, NEW c \in Calls, NEW n \in Nat, n = Len(Kept(request[c])),
         NEW out \in [1 .. n -> Sources], \A k \in 1 .. n : out[k] = {Source(c, k)},
         NEW score \in [1 .. n -> Scored]
  PROVE  /\ Ranks(request[c], out, score) \in Seq(Items)
         /\ Len(Ranks(request[c], out, score)) = n
         /\ Ranked(c, Ranks(request[c], out, score))
<1> DEFINE kept == Kept(request[c])
           at(k) == CHOOSE j \in DOMAIN score : Place(score, j) = k
           items == Ranks(request[c], out, score)
<1>1. /\ kept \in Seq(Nat) /\ \A k \in 1 .. n : kept[k] \in Nat
      /\ \A j, k \in 1 .. n : j < k => kept[j] < kept[k]
  BY SequencesShape, RequestShape, KeptProperties
<1>2. ASSUME NEW k \in 1 .. n PROVE at(k) \in 1 .. n /\ Place(score, at(k)) = k
  <2>1. DOMAIN score = 1 .. n
    OBVIOUS
  <2>2. \E j \in DOMAIN score : Place(score, j) = k
    BY <2>1, PlacesTaken
  <2> QED
    BY <2>1, <2>2
<1>3. items = [k \in 1 .. n |->
                 [index |-> kept[at(k)], score |-> score[at(k)], of |-> out[at(k)]]]
  BY DEF Ranks
<1> HIDE DEF items, at
<1>4. ASSUME NEW k \in 1 .. n
      PROVE  /\ items[k].index = kept[at(k)]
             /\ items[k].score = score[at(k)]
             /\ items[k].of = out[at(k)]
             /\ items[k] \in Items
  <2>1. items[k] = [index |-> kept[at(k)], score |-> score[at(k)], of |-> out[at(k)]]
    BY <1>3
  <2>2. kept[at(k)] \in Nat /\ score[at(k)] \in Scored /\ out[at(k)] \in Sources
    BY <1>1, <1>2
  <2> QED
    BY <2>1, <2>2 DEF Items
<1>5. items \in Seq(Items) /\ Len(items) = n
  <2>1. items \in [1 .. n -> Items]
    BY <1>3, <1>4
  <2> QED
    BY <2>1, FunctionIsSeq
<1>6. ASSUME NEW k \in 1 .. n PROVE items[k].of = {<<c, items[k].index>>}
  BY <1>2, <1>4 DEF Source
<1>7. ASSUME NEW i \in 1 .. n PROVE \E k \in 1 .. n : items[k].index = kept[i]
  <2>1. Place(score, i) \in 1 .. n
    BY PlaceRises
  <2>2. at(Place(score, i)) = i
    <3>1. PICK k \in 1 .. n : k = Place(score, i)
      BY <2>1
    <3>2. at(k) \in 1 .. n /\ Place(score, at(k)) = Place(score, i)
      BY <1>2, <3>1
    <3>3. at(k) = i
      BY <3>2, PlacesTaken
    <3> QED
      BY <3>1, <3>3
  <2> QED
    BY <1>4, <2>1, <2>2
<1>8. ASSUME NEW j \in 1 .. n, NEW k \in 1 .. n, j < k
      PROVE  \/ items[j].score # NaN /\ items[k].score = NaN
             \/ items[j].score # NaN /\ items[j].score > items[k].score
             \/ items[j].score = items[k].score /\ items[j].index < items[k].index
  <2> DEFINE a == at(j)
             b == at(k)
             x == score[a]
             y == score[b]
  <2>1. a \in 1 .. n /\ b \in 1 .. n /\ Place(score, a) = j /\ Place(score, b) = k
    BY <1>2
  <2> HIDE DEF a, b
  <2>2. a # b /\ ~ Ahead(score, b, a)
    <3>1. Ahead(score, b, a) => Place(score, b) < Place(score, a)
      BY <2>1, PlaceRises
    <3>2. ~ (k < j) /\ j # k
      BY <1>8
    <3> QED
      BY <2>1, <3>1, <3>2
  <2>3. Ahead(score, a, b)
    BY <2>1, <2>2, AheadOrders
  <2>4. Before(x, y) \/ (~ Before(x, y) /\ ~ Before(y, x) /\ a < b)
    BY <2>3 DEF Ahead
  <2>5. x \in Int /\ y \in Int
    <3>1. Scored \subseteq Int
      BY ScoredInt
    <3> QED
      BY <2>1, <3>1
  <2>6. CASE Before(x, y)
    <3>1. (x # NaN /\ y = NaN) \/ (x # NaN /\ x > y)
      BY <2>6 DEF Before
    <3> QED
      BY <1>4, <3>1 DEF a, b
  <2>7. CASE ~ Before(x, y) /\ ~ Before(y, x) /\ a < b
    <3>1. x = y
      <4> HIDE DEF x, y
      <4> QED
        BY <2>5, <2>7 DEF Before
    <3>2. kept[a] < kept[b]
      BY <1>1, <2>1, <2>7
    <3> QED
      BY <1>4, <3>1, <3>2 DEF a, b
  <2> QED
    BY <2>4, <2>6, <2>7
<1>9. Ranked(c, items)
  <2>1. \A k \in 1 .. n : \E i \in 1 .. n : items[k].index = kept[i]
    BY <1>2, <1>4
  <2> QED
    BY <1>6, <1>7, <1>8, <2>1 DEF Ranked
<1> QED
  BY <1>5, <1>9 DEF items

LEMMA FinishSafe ==
  ASSUME WorkerInv, NEW w \in Workers, Finish(w)
  PROVE  WorkerInv'
<1> DEFINE c == job[w]
           n == Len(Kept(request[c]))
           out == Decoded(w)
<1>1. pc[w] = "fill" /\ todo[w] = <<>> /\ batch' = [batch EXCEPT ![w] = <<>>]
  BY DEF Finish, ClearBatch
<1>2. Filling(w)
  BY <1>1 DEF WorkerInv, Working, WorksAt
<1>3. c \in Calls /\ n \in Nat
  <2>1. c \in Calls
    BY <1>2 DEF Filling
  <2> QED
    BY <2>1, SequencesShape DEF WorkerInv
<1>4. Len(output[w]) + Len(batch[w]) = n
  <2>1. Len(output[w]) + Len(batch[w]) + Len(todo[w]) = n
    BY <1>2 DEF Filling
  <2>2. Len(todo[w]) = 0
    BY <1>1
  <2>3. Len(output[w]) \in Nat /\ Len(batch[w]) \in Nat
    BY LenProperties DEF WorkerInv, WorkTypes
  <2>4. \A x, y \in Nat : x + y + 0 = x + y
    OBVIOUS
  <2>5. Len(output[w]) + Len(batch[w]) + 0 = n
    BY <2>1, <2>2, Zenon
  <2> QED
    BY <2>3, <2>4, <2>5, Zenon
<1>5. out \in Seq(Sources) /\ Len(out) = n /\ \A k \in 1 .. n : out[k] = {Source(c, k)}
  BY <1>1, <1>4, DecodedShape
<1>6. out \in [1 .. n -> Sources] /\ DOMAIN out = 1 .. n
  BY <1>5, LenProperties
<1>7. CASE service = "embed"
  <2> DEFINE answer == [ok |-> TRUE, items |-> out]
  <2>1. Answer(w, answer)
    BY <1>7 DEF Finish
  <2>2. Seq(Sources) \subseteq Seq(Items)
    BY SeqMonotonic DEF Items
  <2>3. answer \in Answers
    BY <1>5, <2>2 DEF Answers
  <2>4. Embedded(c, out)
    BY <1>5 DEF Embedded
  <2>5. answer \in RightAnswers(job[w])
    BY <1>5, <1>7, <2>3, <2>4 DEF RightAnswers
  <2> HIDE DEF answer
  <2> QED
    BY <1>1, <2>1, <2>5, AnswerSafe
<1>8. CASE service = "rerank"
  <2>1. PICK score \in [DOMAIN out -> Scores \cup {NaN}] :
          Answer(w, [ok |-> TRUE, items |-> Ranks(request[job[w]], out, score)])
    BY <1>8 DEF Finish
  <2> DEFINE items == Ranks(request[c], out, score)
             answer == [ok |-> TRUE, items |-> items]
  <2>2. score \in [1 .. n -> Scored]
    BY <1>6, <2>1 DEF Scored
  <2>3. items \in Seq(Items) /\ Len(items) = n /\ Ranked(c, items)
    <3> HIDE DEF n, c, out
    <3>1. n = Len(Kept(request[c]))
      BY DEF n
    <3> QED
      BY <1>3, <1>5, <1>6, <2>2, <3>1, RanksRight DEF WorkerInv
  <2> HIDE DEF items
  <2>4. answer \in Answers
    BY <2>3 DEF Answers
  <2>5. answer \in RightAnswers(job[w])
    BY <1>8, <2>3, <2>4 DEF RightAnswers
  <2>6. Answer(w, answer)
    BY <2>1 DEF items
  <2> HIDE DEF answer
  <2> QED
    BY <1>1, <2>5, <2>6, AnswerSafe
<1> QED
  BY <1>7, <1>8 DEF WorkerInv, CallTypes

-----------------------------------------------------------------------------
(* The theorems *)

LEMMA WorkerInvariant == Spec => []WorkerInv
<1>1. ASSUME Init PROVE WorkerInv
  <2>1. /\ service \in {"embed", "rerank"}
        /\ request = [c \in Calls |-> NoRequest]
        /\ call = [c \in Calls |-> "new"]
        /\ mail = [c \in Calls |-> <<>>]
        /\ result = [c \in Calls |-> Error]
        /\ inbox = [w \in Workers |-> <<>>]
        /\ pc = [w \in Workers |-> "recv"]
        /\ job = [w \in Workers |-> None]
        /\ todo = [w \in Workers |-> <<>>]
        /\ batch = [w \in Workers |-> <<>>]
        /\ seqs = [w \in Workers |-> 0]
        /\ output = [w \in Workers |-> <<>>]
    BY <1>1 DEF Init, InitWorkers
  <2>2. CallTypes
    BY <2>1 DEF CallTypes, Answers, Error
  <2>3. WorkTypes
    BY <2>1 DEF WorkTypes
  <2>4. Unsent
    BY <2>1, ModelAssumption DEF Unsent
  <2>5. Working
    BY <2>1 DEF Working, WorksAt, AtRest
  <2>6. Answered
    BY <2>1 DEF Answered, AnsweredAt
  <2> QED
    BY <2>2, <2>3, <2>4, <2>5, <2>6 DEF WorkerInv
<1>2. ASSUME WorkerInv, [Next]_vars PROVE WorkerInv'
  <2>1. CASE Next
    BY <1>2, <2>1, SendSafe, TakeAnswerSafe, TimeOutSafe, ReceiveSafe, RefuseSafe, FlushSafe,
       AddSequenceSafe, DecodeFailsSafe, FinishSafe, StopSafe DEF Next, Step
  <2>2. CASE UNCHANGED vars
    <3>1. UNCHANGED <<service, request, inbox, pc, job, work>> /\ mail' = mail /\ call' = call
          /\ result' = result
      BY <2>2 DEF vars, work
    <3>2. WorkTypes' /\ Working'
      BY <1>2, <3>1, WorkersIdle
    <3>3. CallTypes' /\ Unsent'
      BY <1>2, <3>1 DEF WorkerInv, CallTypes, Unsent
    <3>4. ASSUME NEW c \in Calls PROVE AnsweredAt(c)'
      <4>1. AnsweredAt(c)
        BY <1>2 DEF WorkerInv, Answered
      <4> QED
        BY <3>1, <4>1, AnsweredFrame
    <3> QED
      BY <3>2, <3>3, <3>4 DEF WorkerInv, Answered
  <2> QED
    BY <1>2, <2>1, <2>2
<1> QED
  BY <1>1, <1>2, PTL DEF Spec

(* Every variable of the services keeps its type, and max_seq_id_batch       *)
(* counts the sequences of the batch, for any number of workers and callers. *)
THEOREM ModelTypes == Spec => []TypeOK
<1>1. ASSUME WorkerInv PROVE TypeOK
  <2>1. ASSUME NEW w \in Workers
        PROVE  /\ pc[w] \in {"recv", "refuse", "fill", "stopped"}
               /\ job[w] \in Calls \cup {None}
               /\ pc[w] = "fill" => seqs[w] = Len(batch[w])
               /\ \A k \in DOMAIN batch[w] : batch[w][k].seq = k - 1
    <3>1. DOMAIN batch[w] = 1 .. Len(batch[w])
      BY <1>1, LenProperties DEF WorkerInv, WorkTypes
    <3>2. WorksAt(w) /\ pc[w] \in {"recv", "refuse", "fill", "stopped"} /\ job[w] \in Calls \cup {None}
      BY <1>1 DEF WorkerInv, Working, WorkTypes
    <3>3. CASE pc[w] = "fill"
      BY <3>1, <3>2, <3>3 DEF WorksAt, Filling
    <3>4. CASE pc[w] # "fill"
      <4>1. batch[w] = <<>>
        BY <3>2, <3>4 DEF WorksAt, AtRest
      <4>2. DOMAIN batch[w] = {}
        BY <4>1
      <4> QED
        BY <3>2, <3>4, <4>2
    <3> QED
      BY <3>3, <3>4
  <2> QED
    BY <1>1, <2>1 DEF TypeOK, WorkerInv, CallTypes
<1> QED
  BY <1>1, WorkerInvariant, PTL

(* No request leaves tokens in the batch for the next, on any path out of  *)
(* the loop (batch_decode, send_error).                                    *)
THEOREM BatchStaysClean == Spec => []BatchClean
<1>1. WorkerInv => BatchClean
  BY DEF WorkerInv, Working, WorksAt, AtRest, BatchClean
<1> QED
  BY <1>1, WorkerInvariant, PTL

(* For any context size and any texts, what the tokenizing loops let in    *)
(* fits an empty batch, and the batch never holds more than it can         *)
(* (add_sequence).                                                         *)
THEOREM BatchNeverOverflows == Spec => []SequencesFit
<1>1. ASSUME WorkerInv PROVE SequencesFit
  <2>1. ASSUME NEW w \in Workers, pc[w] = "fill"
        PROVE  Tokens(batch[w]) <= NCtx /\ \A k \in DOMAIN todo[w] : todo[w][k].len <= NCtx
    <3>1. DOMAIN todo[w] = 1 .. Len(todo[w])
      BY <1>1, LenProperties DEF WorkerInv, WorkTypes
    <3>2. Filling(w)
      BY <1>1, <2>1 DEF WorkerInv, Working, WorksAt
    <3> QED
      BY <3>1, <3>2 DEF Filling
  <2> QED
    BY <2>1 DEF SequencesFit
<1> QED
  BY <1>1, WorkerInvariant, PTL

(* The answer of a finished call. *)
LEMMA DoneRight ==
  ASSUME WorkerInv, NEW c \in Calls, call[c] = "done"
  PROVE  /\ Len(Kept(request[c])) \in Nat
         /\ Len(result[c].items) = Len(Kept(request[c]))
         /\ DOMAIN result[c].items = 1 .. Len(Kept(request[c]))
         /\ DOMAIN Kept(request[c]) = 1 .. Len(Kept(request[c]))
         /\ service = "embed" => Embedded(c, result[c].items)
         /\ service = "rerank" => Ranked(c, result[c].items)
<1>1. result[c].ok /\ result[c] \in RightAnswers(c)
  BY DEF WorkerInv, Answered, AnsweredAt
<1>2. result[c].items \in Seq(Items)
  BY <1>1 DEF RightAnswers, Answers
<1>3. Kept(request[c]) \in Seq(Nat) /\ Len(Kept(request[c])) \in Nat
  BY SequencesShape DEF WorkerInv
<1>4. Len(result[c].items) = Len(Kept(request[c]))
  BY <1>1 DEF RightAnswers
<1>5. DOMAIN result[c].items = 1 .. Len(Kept(request[c]))
  BY <1>2, <1>4, LenProperties
<1>6. DOMAIN Kept(request[c]) = 1 .. Len(Kept(request[c]))
  BY <1>3, LenProperties
<1>7. /\ service = "embed" => Embedded(c, result[c].items)
      /\ service = "rerank" => Ranked(c, result[c].items)
  BY <1>1 DEF RightAnswers
<1> QED
  BY <1>3, <1>4, <1>5, <1>6, <1>7

(* However texts are batched, whatever failed before and whichever answers *)
(* came late, a call is answered from its own texts, one item for each     *)
(* that became a sequence (get_embeddings, get_rerankings, batch_decode).  *)
THEOREM CallsGetTheirOwn == Spec => []AnswersOwnTexts
<1>1. ASSUME WorkerInv PROVE AnswersOwnTexts
  <2>1. ASSUME NEW c \in Calls, call[c] = "done", service = "rerank"
        PROVE  /\ \A k \in DOMAIN result[c].items :
                    result[c].items[k].of = {<<c, result[c].items[k].index>>}
               /\ {result[c].items[k].index : k \in DOMAIN result[c].items}
                    = {Kept(request[c])[k] : k \in DOMAIN Kept(request[c])}
    <3> DEFINE n == Len(Kept(request[c]))
               items == result[c].items
               kept == Kept(request[c])
    <3>1. Ranked(c, items) /\ DOMAIN items = 1 .. n /\ DOMAIN kept = 1 .. n
      BY <1>1, <2>1, DoneRight
    <3>2. /\ \A k \in 1 .. n : items[k].of = {<<c, items[k].index>>}
          /\ \A k \in 1 .. n : \E i \in 1 .. n : items[k].index = kept[i]
          /\ \A i \in 1 .. n : \E k \in 1 .. n : items[k].index = kept[i]
      BY <3>1 DEF Ranked
    <3> HIDE DEF n, items, kept
    <3>3. {items[k].index : k \in DOMAIN items} = {kept[k] : k \in DOMAIN kept}
      <4>1. ASSUME NEW k \in 1 .. n PROVE items[k].index \in {kept[i] : i \in 1 .. n}
        BY <3>2
      <4>2. ASSUME NEW i \in 1 .. n PROVE kept[i] \in {items[k].index : k \in 1 .. n}
        BY <3>2
      <4> QED
        BY <3>1, <4>1, <4>2
    <3>4. \A k \in DOMAIN items : items[k].of = {<<c, items[k].index>>}
      BY <3>1, <3>2
    <3> QED
      BY <3>3, <3>4 DEF items, kept
  <2>2. ASSUME NEW c \in Calls, call[c] = "done"
        PROVE  Len(result[c].items) = Len(Kept(request[c]))
    BY <1>1, <2>2, DoneRight
  <2>3. ASSUME NEW c \in Calls, call[c] = "done", service = "embed"
        PROVE  \A k \in DOMAIN result[c].items :
                 result[c].items[k] = {<<c, Kept(request[c])[k]>>}
    BY <1>1, <2>3, DoneRight DEF Embedded, Source
  <2> QED
    BY <2>1, <2>2, <2>3 DEF AnswersOwnTexts
<1> QED
  BY <1>1, WorkerInvariant, PTL

(* The ranks of a finished call are in descending order of score, NaN last *)
(* and ties in the order of the texts, for any scores (the reranker's      *)
(* sort).                                                                  *)
THEOREM RanksStayOrdered == Spec => []RanksOrdered
<1>1. ASSUME WorkerInv PROVE RanksOrdered
  <2>1. ASSUME NEW c \in Calls, call[c] = "done", service = "rerank",
               NEW j \in DOMAIN result[c].items, NEW k \in DOMAIN result[c].items, j < k
        PROVE  LET items == result[c].items
               IN  \/ items[j].score # NaN /\ items[k].score = NaN
                   \/ items[j].score # NaN /\ items[j].score > items[k].score
                   \/ items[j].score = items[k].score /\ items[j].index < items[k].index
    BY <1>1, <2>1, DoneRight DEF Ranked
  <2> QED
    BY <2>1 DEF RanksOrdered
<1> QED
  BY <1>1, WorkerInvariant, PTL

=============================================================================
