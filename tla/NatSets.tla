------------------------------- MODULE NatSets -------------------------------
(***************************************************************************)
(* Induction over the natural numbers for a predicate given as the set of  *)
(* the numbers that satisfy it.  The proofs about recursive functions and  *)
(* sequences of the other modules rest on it.                              *)
(***************************************************************************)
EXTENDS Integers, FiniteSetTheorems, WellFoundedInduction, SequenceTheorems, TLAPS

(* A set that contains zero, and with a number the next one, contains them *)
(* all.  A least number outside it would make the interval below it        *)
(* minimal, for inclusion, among the finite sets 1 .. n with n outside.    *)
LEMMA SetInduction ==
  ASSUME NEW T, 0 \in T, \A n \in Nat : n \in T => n + 1 \in T
  PROVE  \A n \in Nat : n \in T
<1> DEFINE Out == {n \in Nat : n \notin T}
           Below == {1 .. n : n \in Out}
<1>1. SUFFICES ASSUME Out # {} PROVE FALSE
  OBVIOUS
<1>2. Below \subseteq FiniteSubsetsOf(Nat) /\ Below # {}
  <2>1. ASSUME NEW n \in Out PROVE 1 .. n \in FiniteSubsetsOf(Nat)
    <3>1. IsFiniteSet(1 .. n)
      BY FS_Interval
    <3>2. 1 .. n \subseteq Nat
      OBVIOUS
    <3> QED
      BY <3>1, <3>2 DEF FiniteSubsetsOf
  <2> QED
    BY <1>1, <2>1
<1>3. PICK x \in Below : \A y \in Below : ~ (<<y, x>> \in StrictSubsetOrdering(Nat))
  <2> HIDE DEF Below
  <2> QED
    BY <1>2, FS_StrictSubsetOrderingWellFounded, WFMin
<1>4. PICK n \in Out : x = 1 .. n
  BY <1>3
<1>5. n # 0 /\ n - 1 \in Out
  OBVIOUS
<1>6. 1 .. (n - 1) \in Below
  BY <1>5
<1>7. <<1 .. (n - 1), x>> \in StrictSubsetOrdering(Nat)
  BY <1>4, <1>5 DEF StrictSubsetOrdering
<1> QED
  BY <1>3, <1>6, <1>7

(* The recursion along 0 .. N from zero by step has solution f. *)
Follows(f, N, zero, step) ==
  f[0] = zero /\ \A n \in 1 .. N : f[n] = step[n][f[n - 1]]

(* Recursion along 0 .. N with a step that stays in S has a solution in S. *)
LEMMA SetRecursion ==
  ASSUME NEW N \in Nat, NEW S, NEW zero \in S, NEW step \in [1 .. N -> [S -> S]]
  PROVE  \E f \in [0 .. N -> S] : Follows(f, N, zero, step)
<1> DEFINE Solves(f, m) == /\ f \in [0 .. m -> S]
                           /\ f[0] = zero
                           /\ \A n \in 1 .. m : f[n] = step[n][f[n - 1]]
           T == {m \in Nat : m <= N => \E f : Solves(f, m)}
<1>1. 0 \in T
  <2>1. Solves([n \in 0 .. 0 |-> zero], 0)
    OBVIOUS
  <2> QED
    BY <2>1
<1>2. ASSUME NEW m \in Nat, m \in T PROVE m + 1 \in T
  <2>1. SUFFICES ASSUME m + 1 <= N PROVE \E f : Solves(f, m + 1)
    OBVIOUS
  <2>2. PICK g : Solves(g, m)
    BY <1>2, <2>1
  <2> DEFINE h == [n \in 0 .. m + 1 |-> IF n = m + 1 THEN step[n][g[m]] ELSE g[n]]
  <2>3. g[m] \in S /\ step[m + 1][g[m]] \in S
    BY <2>1, <2>2
  <2>4. h \in [0 .. m + 1 -> S] /\ h[0] = zero
    BY <2>2, <2>3
  <2>5. ASSUME NEW n \in 1 .. m + 1 PROVE h[n] = step[n][h[n - 1]]
    <3>1. h[n - 1] = g[n - 1]
      OBVIOUS
    <3>2. CASE n = m + 1
      BY <3>1, <3>2
    <3>3. CASE n # m + 1
      <4>1. n \in 1 .. m /\ h[n] = g[n]
        BY <3>3
      <4> QED
        BY <2>2, <3>1, <4>1
    <3> QED
      BY <3>2, <3>3
  <2>6. Solves(h, m + 1)
    BY <2>4, <2>5
  <2> HIDE DEF Solves
  <2> QED
    BY <2>6
<1>3. N \in T
  <2> HIDE DEF T
  <2> QED
    BY <1>1, <1>2, SetInduction
<1>4. PICK f : Solves(f, N)
  BY <1>3
<1> QED
  BY <1>4 DEF Follows

(* A function on 1 .. n is a sequence. *)
LEMMA FunctionIsSeq ==
  ASSUME NEW S, NEW n \in Nat, NEW s \in [1 .. n -> S]
  PROVE  s \in Seq(S) /\ Len(s) = n
<1>1. s \in Seq(S)
  BY SeqDef
<1> QED
  BY <1>1, LenProperties

(* A set of numbers that is not empty has a least one. *)
LEMMA LeastNumber ==
  ASSUME NEW S, S \subseteq Nat, S # {}
  PROVE  \E x \in S : \A y \in S : x <= y
<1> DEFINE T == {n \in Nat : \A y \in S : n <= y}
<1>1. SUFFICES ASSUME \A x \in S : x \notin T PROVE FALSE
  OBVIOUS
<1>2. 0 \in T
  OBVIOUS
<1>3. ASSUME NEW n \in Nat, n \in T PROVE n + 1 \in T
  <2>1. n \notin S
    BY <1>1, <1>3
  <2> QED
    BY <1>3, <2>1
<1>4. \A n \in Nat : n \in T
  <2> HIDE DEF T
  <2> QED
    BY <1>2, <1>3, SetInduction
<1>5. PICK x \in S : TRUE
  OBVIOUS
<1> QED
  BY <1>1, <1>4, <1>5

(* What holds at zero and carries from each number to the next, up to N.   *)
LEMMA RecursionIn ==
  ASSUME NEW N \in Nat, NEW S, NEW f, f[0] \in S,
         \A n \in 1 .. N : f[n - 1] \in S => f[n] \in S
  PROVE  \A n \in 0 .. N : f[n] \in S
<1> DEFINE T == {n \in Nat : n <= N => f[n] \in S}
<1>1. 0 \in T
  OBVIOUS
<1>2. ASSUME NEW n \in Nat, n \in T PROVE n + 1 \in T
  <2>1. SUFFICES ASSUME n + 1 <= N PROVE f[n + 1] \in S
    OBVIOUS
  <2>2. f[n] \in S /\ n + 1 \in 1 .. N /\ (n + 1) - 1 = n
    BY <1>2, <2>1
  <2>3. f[(n + 1) - 1] \in S => f[n + 1] \in S
    BY <2>2
  <2> QED
    BY <2>2, <2>3
<1>3. \A n \in Nat : n \in T
  <2> HIDE DEF T
  <2> QED
    BY <1>1, <1>2, SetInduction
<1> QED
  BY <1>3

(* A finite set of numbers that is not empty has a largest one. *)
LEMMA LargestNumber ==
  ASSUME NEW S, S \subseteq Nat, S # {}, IsFiniteSet(S)
  PROVE  \E x \in S : \A y \in S : y <= x
<1> DEFINE Has(R) == \E x \in R : \A y \in R : y <= x
           T == {n \in Nat : \A R \in SUBSET Nat :
                   IsFiniteSet(R) /\ Cardinality(R) = n /\ R # {} => Has(R)}
<1>1. 0 \in T
  BY FS_EmptySet
<1>2. ASSUME NEW n \in Nat, n \in T PROVE n + 1 \in T
  <2>1. SUFFICES ASSUME NEW R \in SUBSET Nat, IsFiniteSet(R), Cardinality(R) = n + 1, R # {}
                 PROVE  Has(R)
    OBVIOUS
  <2>2. PICK x \in R : TRUE
    BY <2>1
  <2>3. IsFiniteSet(R \ {x}) /\ Cardinality(R \ {x}) = n
    <3>1. /\ IsFiniteSet(R \ {x})
          /\ Cardinality(R \ {x}) = IF x \in R THEN Cardinality(R) - 1 ELSE Cardinality(R)
      BY <2>1, FS_RemoveElement
    <3> QED
      BY <2>1, <3>1
  <2>4. CASE R \ {x} = {}
    <3>1. \A y \in R : y <= x
      BY <2>4
    <3> QED
      BY <3>1
  <2>5. CASE R \ {x} # {}
    <3>1. Has(R \ {x})
      BY <1>2, <2>3, <2>5
    <3>2. PICK z \in R \ {x} : \A y \in R \ {x} : y <= z
      BY <3>1
    <3>3. CASE x <= z
      BY <3>2, <3>3
    <3>4. CASE ~ (x <= z)
      <4>1. \A y \in R : y <= x
        BY <3>2, <3>4
      <4> QED
        BY <4>1
    <3> QED
      BY <3>3, <3>4
  <2> QED
    BY <2>4, <2>5
<1>3. Cardinality(S) \in Nat
  BY FS_CardinalityType
<1>4. \A n \in Nat : n \in T
  <2> HIDE DEF T
  <2> QED
    BY <1>1, <1>2, SetInduction
<1> QED
  BY <1>3, <1>4

(* A finite set of numbers can be listed in ascending order. *)
LEMMA SortedListing ==
  ASSUME NEW S, S \subseteq Nat, IsFiniteSet(S)
  PROVE  \E s \in [1 .. Cardinality(S) -> S] :
           \A i, j \in 1 .. Cardinality(S) : i < j => s[i] < s[j]
<1> DEFINE Has(R, n) == \E s \in [1 .. n -> R] : \A i, j \in 1 .. n : i < j => s[i] < s[j]
           T == {n \in Nat : \A R \in SUBSET Nat :
                   IsFiniteSet(R) /\ Cardinality(R) = n => Has(R, n)}
<1>1. 0 \in T
  <2>1. SUFFICES ASSUME NEW R PROVE Has(R, 0)
    OBVIOUS
  <2>2. <<>> \in [1 .. 0 -> R]
    OBVIOUS
  <2>3. \A i, j \in 1 .. 0 : i < j => <<>>[i] < <<>>[j]
    OBVIOUS
  <2> QED
    BY <2>2, <2>3
<1>2. ASSUME NEW n \in Nat, n \in T PROVE n + 1 \in T
  <2>1. SUFFICES ASSUME NEW R \in SUBSET Nat, IsFiniteSet(R), Cardinality(R) = n + 1
                 PROVE  Has(R, n + 1)
    OBVIOUS
  <2>2. R # {}
    BY <2>1, FS_EmptySet
  <2>3. PICK z \in R : \A y \in R : y <= z
    BY <2>1, <2>2, LargestNumber
  <2>4. IsFiniteSet(R \ {z}) /\ Cardinality(R \ {z}) = n
    <3>1. /\ IsFiniteSet(R \ {z})
          /\ Cardinality(R \ {z}) = IF z \in R THEN Cardinality(R) - 1 ELSE Cardinality(R)
      BY <2>1, FS_RemoveElement
    <3> QED
      BY <2>1, <3>1
  <2>5. Has(R \ {z}, n)
    BY <1>2, <2>4
  <2>6. PICK s \in [1 .. n -> R \ {z}] : \A i, j \in 1 .. n : i < j => s[i] < s[j]
    BY <2>5
  <2> DEFINE t == [i \in 1 .. n + 1 |-> IF i = n + 1 THEN z ELSE s[i]]
  <2>7. t \in [1 .. n + 1 -> R]
    <3>1. ASSUME NEW i \in 1 .. n + 1, i # n + 1 PROVE i \in 1 .. n
      BY <3>1
    <3> QED
      BY <3>1
  <2>8. ASSUME NEW i \in 1 .. n + 1, NEW j \in 1 .. n + 1, i < j PROVE t[i] < t[j]
    <3>1. i \in 1 .. n /\ t[i] = s[i] /\ s[i] \in R \ {z}
      BY <2>8
    <3>2. CASE j = n + 1
      <4>1. s[i] <= z /\ s[i] # z /\ s[i] \in Nat /\ z \in Nat
        BY <2>3, <3>1
      <4> QED
        BY <3>1, <3>2, <4>1
    <3>3. CASE j # n + 1
      <4>1. j \in 1 .. n /\ t[j] = s[j]
        BY <3>3
      <4> QED
        BY <2>6, <2>8, <3>1, <4>1
    <3> QED
      BY <3>2, <3>3
  <2> HIDE DEF t
  <2> QED
    BY <2>7, <2>8
<1>3. Cardinality(S) \in Nat
  BY FS_CardinalityType
<1>4. \A n \in Nat : n \in T
  <2> HIDE DEF T
  <2> QED
    BY <1>1, <1>2, SetInduction
<1>5. Has(S, Cardinality(S))
  BY <1>3, <1>4
<1> QED
  BY <1>5

(* A function takes finitely many values on a finite set. *)
LEMMA FiniteValues ==
  ASSUME NEW D, IsFiniteSet(D), NEW f, NEW V, V = {f[x] : x \in D}
  PROVE  IsFiniteSet(V)
<1> DEFINE g == [x \in D |-> f[x]]
<1>1. g \in [D -> V] /\ \A v \in V : \E x \in D : g[x] = v
  OBVIOUS
<1> HIDE DEF g
<1>2. g \in Surjection(D, V)
  BY <1>1 DEF Surjection
<1> QED
  BY <1>2, FS_Surjection

=============================================================================
