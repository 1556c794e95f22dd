---------------------------- MODULE DataProofs ----------------------------
(***************************************************************************)
(* Facts about finite sets and sums that the proofs about the models cite: *)
(* induction over the subsets of a finite set, the least of a set of       *)
(* numbers, and sums as the community modules compute them: an element is  *)
(* chosen, and the rest is summed.                                         *)
(***************************************************************************)
EXTENDS Integers, FiniteSetsExt, FiniteSetTheorems, Lists, TLAPS

(***************************************************************************)
(* Induction over the subsets of a finite set.  The set H is the           *)
(* hypothesis: a set, not an operator, so that provers can instantiate it. *)
(***************************************************************************)
LEMMA SmallerFirst ==
    ASSUME NEW S, IsFiniteSet(S), NEW H,
           \A T \in SUBSET S : (\A U \in SUBSET T : U # T => U \in H) => T \in H
    PROVE  \A T \in SUBSET S : T \in H
<1> DEFINE Bad == {T \in SUBSET S : T \notin H}
<1> SUFFICES ASSUME Bad # {} PROVE FALSE
  OBVIOUS
<1>1. IsWellFoundedOn(StrictSubsetOrdering(S), SUBSET S)
  <2>1. IsWellFoundedOn(StrictSubsetOrdering(S), FiniteSubsetsOf(S))
    BY FS_StrictSubsetOrderingWellFounded
  <2>2. FiniteSubsetsOf(S) = SUBSET S
    BY FS_FiniteSubsetsOfFinite
  <2> QED BY <2>1, <2>2
<1>2. Bad \subseteq SUBSET S
  OBVIOUS
<1> HIDE DEF Bad
<1>3. PICK T \in Bad : \A U \in Bad : ~(<<U, T>> \in StrictSubsetOrdering(S))
  BY <1>1, <1>2, WFMin
<1>4. ASSUME NEW U \in SUBSET T, U # T PROVE U \in H
  <2>1. <<U, T>> \in StrictSubsetOrdering(S)
    BY <1>2, <1>3, <1>4 DEF StrictSubsetOrdering
  <2> QED BY <1>2, <1>3, <2>1 DEF Bad
<1> QED BY <1>3, <1>4 DEF Bad

LEMMA OneByOne ==
    ASSUME NEW S, IsFiniteSet(S), NEW H, {} \in H,
           \A T \in SUBSET S : \A x \in S \ T : T \in H => T \cup {x} \in H
    PROVE  S \in H
<1>1. ASSUME NEW T \in SUBSET S, \A U \in SUBSET T : U # T => U \in H
      PROVE  T \in H
  <2>1. CASE T = {}
    BY <2>1
  <2>2. CASE T # {}
    <3>1. PICK x \in T : TRUE
      BY <2>2
    <3>2. /\ T \ {x} \in SUBSET T /\ T \ {x} # T
          /\ x \in S \ (T \ {x}) /\ (T \ {x}) \cup {x} = T
      BY <3>1
    <3>3. T \ {x} \in H
      BY <1>1, <3>2
    <3>4. (T \ {x}) \cup {x} \in H
      BY <3>2, <3>3
    <3> QED BY <3>2, <3>4
  <2> QED BY <2>1, <2>2
<1> QED BY <1>1, SmallerFirst

LEMMA LeastExists ==
    ASSUME NEW S \in SUBSET Int, IsFiniteSet(S), S # {}
    PROVE  Min(S) \in S /\ \A y \in S : Min(S) <= y
<1> DEFINE H == {T \in SUBSET S : T # {} => \E x \in T : \A y \in T : x <= y}
<1>1. ASSUME NEW T \in SUBSET S, NEW x \in S \ T, T \in H
      PROVE  T \cup {x} \in H
  <2>1. CASE T = {}
    BY <2>1
  <2>2. CASE T # {}
    <3>1. PICK z \in T : \A y \in T : z <= y
      BY <1>1, <2>2
    <3>2. CASE z <= x
      BY <3>1, <3>2
    <3>3. CASE ~(z <= x)
      <4>1. \A y \in T \cup {x} : x <= y
        BY <3>1, <3>3
      <4> QED BY <4>1
    <3> QED BY <3>2, <3>3
  <2> QED BY <2>1, <2>2
<1>2. {} \in H
  OBVIOUS
<1> HIDE DEF H
<1>3. S \in H
  BY <1>1, <1>2, OneByOne
<1> QED BY <1>3 DEF H, Min

LEMMA ImageIsFinite ==
    ASSUME NEW S, IsFiniteSet(S), NEW f
    PROVE  IsFiniteSet({f[x] : x \in S})
<1> DEFINE g == [x \in S |-> f[x]]
<1>1. g \in Surjection(S, {f[x] : x \in S})
  BY DEF Surjection
<1> QED BY <1>1, FS_Surjection

LEMMA GreatestExists ==
    ASSUME NEW S \in SUBSET Int, IsFiniteSet(S), S # {}
    PROVE  Max(S) \in S /\ \A y \in S : Max(S) >= y
<1> DEFINE H == {Q \in SUBSET S : Q # {} => \E x \in Q : \A y \in Q : x >= y}
<1>1. ASSUME NEW Q \in SUBSET S, NEW x \in S \ Q, Q \in H
      PROVE  Q \cup {x} \in H
  <2>1. CASE Q = {}
    BY <2>1
  <2>2. CASE Q # {}
    <3>1. PICK z \in Q : \A y \in Q : z >= y
      BY <1>1, <2>2
    <3>2. CASE z >= x
      BY <3>1, <3>2
    <3>3. CASE ~(z >= x)
      <4>1. \A y \in Q \cup {x} : x >= y
        BY <3>1, <3>3
      <4> QED BY <4>1
    <3> QED BY <3>2, <3>3
  <2> QED BY <2>1, <2>2
<1>2. {} \in H
  OBVIOUS
<1> HIDE DEF H
<1>3. S \in H
  BY <1>1, <1>2, OneByOne
<1>4. \E x \in S : \A y \in S : x >= y
  BY <1>3 DEF H
<1> QED BY <1>4 DEF Max

-----------------------------------------------------------------------------
(* The places of a finite set of numbers, and sets that are put in order.  *)

LEMMA NthExists ==
    ASSUME NEW P \in SUBSET Int, IsFiniteSet(P), NEW k \in 1 .. Cardinality(P)
    PROVE  \E i \in P : Cardinality({j \in P : j <= i}) = k
<1> DEFINE H == {Q \in SUBSET P : \A n \in 1 .. Cardinality(Q) : \E i \in Q : Cardinality({j \in Q : j <= i}) = n}
<1>1. ASSUME NEW T \in SUBSET P, \A U \in SUBSET T : U # T => U \in H, NEW n \in 1 .. Cardinality(T)
      PROVE  \E i \in T : Cardinality({j \in T : j <= i}) = n
  <2>1. IsFiniteSet(T) /\ Cardinality(T) \in Nat /\ T # {}
    <3>1. IsFiniteSet(T) /\ Cardinality(T) \in Nat
      BY FS_Subset, FS_CardinalityType
    <3>2. Cardinality(T) # 0
      BY <1>1, <3>1
    <3> QED BY <3>1, <3>2, FS_EmptySet
  <2>2. PICK m : m = Max(T)
    OBVIOUS
  <2>3. m \in T /\ \A y \in T : m >= y
    BY <2>1, <2>2, GreatestExists
  <2>4. PICK U : U = T \ {m}
    OBVIOUS
  <2>5. U \in SUBSET T /\ U # T /\ Cardinality(U) = Cardinality(T) - 1
    BY <2>1, <2>3, <2>4, FS_RemoveElement
  <2>6. CASE n = Cardinality(T)
    <3>1. {j \in T : j <= m} = T
      BY <2>3
    <3> QED BY <2>3, <2>6, <3>1
  <2>7. CASE n # Cardinality(T)
    <3>1. n \in 1 .. Cardinality(U)
      BY <2>1, <2>5, <2>7
    <3>2. U \in H
      BY <1>1, <2>5
    <3>3. PICK i \in U : Cardinality({j \in U : j <= i}) = n
      BY <3>1, <3>2
    <3>4. i \in T /\ i \in Int /\ m \in Int /\ ~(m <= i)
      BY <2>3, <2>4, <3>3
    <3>5. {j \in T : j <= i} = {j \in U : j <= i}
      BY <2>4, <3>4
    <3> QED BY <3>3, <3>4, <3>5
  <2> QED BY <2>6, <2>7
<1>2. \A T \in SUBSET P : (\A U \in SUBSET T : U # T => U \in H) => T \in H
  BY <1>1
<1> HIDE DEF H
<1>3. P \in H
  BY <1>2, SmallerFirst
<1> QED BY <1>3 DEF H

LEMMA NthIsOnly ==
    ASSUME NEW P \in SUBSET Int, IsFiniteSet(P), NEW i \in P, NEW k \in P, i < k
    PROVE  Cardinality({j \in P : j <= i}) # Cardinality({j \in P : j <= k})
<1>1. PICK A, B : A = {j \in P : j <= i} /\ B = {j \in P : j <= k}
  OBVIOUS
<1>2. A \in SUBSET B /\ k \in B /\ k \notin A /\ B \in SUBSET P
  <2>1. \A j \in P : j \in Int /\ (j <= i => j <= k) /\ k <= k /\ ~(k <= i)
    OBVIOUS
  <2> QED BY <1>1, <2>1
<1>3. IsFiniteSet(B)
  BY <1>2, FS_Subset
<1>4. Cardinality(B) = Cardinality(A) => B = A
  BY <1>2, <1>3, FS_Subset
<1> QED BY <1>1, <1>2, <1>4

\* q lists S once each, by growing f.
Sorts(q, f, S) ==
    /\ q \in [1 .. Cardinality(S) -> S]
    /\ \A i, j \in 1 .. Cardinality(S) : i # j => q[i] # q[j]
    /\ \A i, j \in 1 .. Cardinality(S) : i < j => f[q[i]] <= f[q[j]]

LEMMA SortedExists ==
    ASSUME NEW S, IsFiniteSet(S), NEW f \in [S -> Int]
    PROVE  \E q : Sorts(q, f, S)
<1> DEFINE H == {Q \in SUBSET S : \E q : Sorts(q, f, Q)}
<1>1. ASSUME NEW T \in SUBSET S, \A U \in SUBSET T : U # T => U \in H
      PROVE  \E q : Sorts(q, f, T)
  <2>1. IsFiniteSet(T) /\ Cardinality(T) \in Nat
    BY FS_Subset, FS_CardinalityType
  <2>2. CASE T = {}
    <3>1. Cardinality(T) = 0
      BY <2>2, FS_EmptySet
    <3>2. PICK n : n = Cardinality(T)
      OBVIOUS
    <3>3. 1 .. n = {}
      BY <3>1, <3>2
    <3>4. Sorts([i \in 1 .. n |-> i], f, T)
      BY <3>2, <3>3 DEF Sorts
    <3> QED BY <3>4
  <2>3. CASE T # {}
    <3>1. PICK V : V = {f[x] : x \in T}
      OBVIOUS
    <3>2. V \in SUBSET Int /\ IsFiniteSet(V) /\ V # {}
      BY <2>1, <2>3, <3>1, ImageIsFinite
    <3>3. Max(V) \in V /\ \A y \in V : Max(V) >= y
      BY <3>2, GreatestExists
    <3>4. PICK x \in T : f[x] = Max(V)
      BY <3>1, <3>3
    <3>5. \A y \in T : f[y] <= f[x] /\ f[y] \in Int
      BY <3>1, <3>2, <3>3, <3>4
    <3>6. PICK U : U = T \ {x}
      OBVIOUS
    <3>7. U \in SUBSET T /\ U # T /\ Cardinality(U) = Cardinality(T) - 1
      BY <2>1, <3>4, <3>6, FS_RemoveElement
    <3>8. U \in H
      BY <1>1, <3>7
    <3>9. PICK q : Sorts(q, f, U)
      BY <3>8
    <3>10. PICK n \in Nat : n = Cardinality(U) /\ Cardinality(T) = n + 1
      <4>1. Cardinality(U) \in Nat
        BY <2>1, <3>7, FS_Subset, FS_CardinalityType
      <4> QED BY <2>1, <3>7, <4>1
    <3> DEFINE r == [i \in 1 .. n + 1 |-> IF i = n + 1 THEN x ELSE q[i]]
    <3>11. \A i \in 1 .. n : q[i] \in U /\ r[i] = q[i] /\ i \in 1 .. n + 1
      BY <3>9, <3>10 DEF Sorts
    <3>12. r[n + 1] = x /\ \A i \in 1 .. n + 1 : i # n + 1 => i \in 1 .. n
      OBVIOUS
    <3>13. r \in [1 .. n + 1 -> T]
      BY <3>6, <3>11, <3>12
    <3>14. \A i, j \in 1 .. n : (i # j => q[i] # q[j]) /\ (i < j => f[q[i]] <= f[q[j]])
      BY <3>9, <3>10 DEF Sorts
    <3> HIDE DEF r
    <3>15. \A i, j \in 1 .. n + 1 : i # j => r[i] # r[j]
      BY <3>6, <3>11, <3>12, <3>14
    <3>16. ASSUME NEW i \in 1 .. n + 1, NEW j \in 1 .. n + 1, i < j PROVE f[r[i]] <= f[r[j]]
      <4>1. i \in 1 .. n
        BY <3>16
      <4>2. CASE j = n + 1
        BY <3>5, <3>12, <3>13, <4>1, <4>2
      <4>3. CASE j # n + 1
        BY <3>11, <3>12, <3>14, <3>16, <4>1, <4>3
      <4> QED BY <4>2, <4>3
    <3>17. Sorts(r, f, T)
      BY <3>10, <3>13, <3>15, <3>16 DEF Sorts
    <3> QED BY <3>17
  <2> QED BY <2>2, <2>3
<1>2. \A T \in SUBSET S : (\A U \in SUBSET T : U # T => U \in H) => T \in H
  BY <1>1
<1> HIDE DEF H
<1>3. S \in H
  BY <1>2, SmallerFirst
<1> QED BY <1>3 DEF H

LEMMA SortedIsAll ==
    ASSUME NEW S, IsFiniteSet(S), NEW f, NEW q, Sorts(q, f, S), NEW x \in S
    PROVE  \E k \in 1 .. Cardinality(S) : q[k] = x
<1>1. PICK n \in Nat : n = Cardinality(S)
  BY FS_CardinalityType
<1>2. q \in Injection(1 .. n, S)
  BY <1>1 DEF Sorts, Injection, IsInjective
<1>3. Cardinality(1 .. n) = n
  BY FS_Interval
<1>4. q \in Surjection(1 .. n, S)
  BY <1>1, <1>2, <1>3, FS_Injection
<1> QED BY <1>1, <1>4 DEF Surjection

-----------------------------------------------------------------------------
(* Lists, and what is picked of one. *)

IsList(s) == \E R : s \in Seq(R)

LEMMA CountedIsList ==
    ASSUME NEW n \in Nat, NEW s, s = [k \in 1 .. n |-> s[k]]
    PROVE  IsList(s) /\ Len(s) = n
<1>1. PICK R : R = {s[k] : k \in 1 .. n}
  OBVIOUS
<1>2. s \in [1 .. n -> R]
  BY <1>1
<1>3. s \in Seq(R) /\ Len(s) = n
  BY <1>2
<1> QED BY <1>3 DEF IsList

PlaceIn(P, i) == Cardinality({j \in P : j <= i})

\* The positions and their places in the list correspond, in order.
LEMMA PlacesInOrder ==
    ASSUME NEW P \in SUBSET Int, IsFiniteSet(P), NEW c, c = Cardinality(P)
    PROVE  /\ c \in Nat
           /\ \A k \in 1 .. c : Nth(P, k) \in P /\ PlaceIn(P, Nth(P, k)) = k
           /\ \A i \in P : PlaceIn(P, i) \in 1 .. c /\ Nth(P, PlaceIn(P, i)) = i
           /\ \A i, j \in P : i < j => PlaceIn(P, i) < PlaceIn(P, j)
<1>1. c \in Nat
  BY FS_CardinalityType
<1>2. ASSUME NEW k \in 1 .. c PROVE Nth(P, k) \in P /\ PlaceIn(P, Nth(P, k)) = k
  <2>1. \E i \in P : Cardinality({j \in P : j <= i}) = k
    BY NthExists
  <2> QED BY <2>1 DEF Nth, PlaceIn
<1>3. ASSUME NEW i \in P PROVE PlaceIn(P, i) \in 1 .. c
  <2>1. PICK A : A = {j \in P : j <= i}
    OBVIOUS
  <2>2. A \in SUBSET P /\ i \in A
    BY <2>1
  <2>3. IsFiniteSet(A) /\ Cardinality(A) <= c /\ Cardinality(A) \in Nat
    BY <2>2, FS_Subset, FS_CardinalityType
  <2>4. Cardinality(A) # 0
    BY <2>2, <2>3, FS_EmptySet
  <2> QED BY <1>1, <2>1, <2>3, <2>4 DEF PlaceIn
<1>4. ASSUME NEW i \in P, NEW j \in P, i < j PROVE PlaceIn(P, i) < PlaceIn(P, j)
  <2>1. PICK A, B : A = {k \in P : k <= i} /\ B = {k \in P : k <= j}
    OBVIOUS
  <2>2. A \in SUBSET B /\ B \in SUBSET P
    <3>1. \A k \in P : k \in Int /\ (k <= i => k <= j)
      BY <1>4
    <3> QED BY <2>1, <3>1
  <2>3. IsFiniteSet(B) /\ IsFiniteSet(A) /\ Cardinality(A) <= Cardinality(B)
    BY <2>2, FS_Subset
  <2>4. Cardinality(A) # Cardinality(B)
    BY <1>4, <2>1, NthIsOnly
  <2>5. Cardinality(A) \in Nat /\ Cardinality(B) \in Nat
    BY <2>3, FS_CardinalityType
  <2> QED BY <2>1, <2>3, <2>4, <2>5 DEF PlaceIn
<1>5. ASSUME NEW i \in P PROVE Nth(P, PlaceIn(P, i)) = i
  <2>1. PICK k \in 1 .. c : k = PlaceIn(P, i)
    BY <1>3
  <2>2. Nth(P, k) \in P /\ PlaceIn(P, Nth(P, k)) = k
    BY <1>2
  <2>3. PICK j \in P : j = Nth(P, k)
    BY <2>2
  <2>4. PlaceIn(P, j) = k /\ PlaceIn(P, i) = k /\ i \in Int /\ j \in Int /\ k \in Int
    BY <2>1, <2>2, <2>3
  <2>5. ~(i < j) /\ ~(j < i)
    BY <1>4, <2>4
  <2> QED BY <2>1, <2>3, <2>4, <2>5
<1> QED BY <1>1, <1>2, <1>3, <1>4, <1>5

\* Positions without a gap keep their distance.
LEMMA NextPlace ==
    ASSUME NEW P \in SUBSET Int, IsFiniteSet(P), NEW i \in P, NEW n \in Nat, \A m \in 1 .. n : i + m \in P
    PROVE  PlaceIn(P, i + n) = PlaceIn(P, i) + n
<1>1. PICK A, B, C : A = {j \in P : j <= i} /\ B = i + 1 .. i + n /\ C = {j \in P : j <= i + n}
  OBVIOUS
<1>2. i \in Int /\ B \in SUBSET P
  <2>1. ASSUME NEW j \in B PROVE j \in P
    <3>1. j - i \in 1 .. n /\ i + (j - i) = j
      BY <1>1, <2>1
    <3> QED BY <3>1
  <2> QED BY <2>1
<1>3. C = A \cup B
  <2>1. ASSUME NEW j \in C PROVE j \in A \cup B
    <3>1. j \in P /\ j \in Int /\ j <= i + n
      BY <1>1, <2>1
    <3>2. CASE j <= i
      BY <1>1, <3>1, <3>2
    <3>3. CASE ~(j <= i)
      <4>1. j \in i + 1 .. i + n
        BY <1>2, <3>1, <3>3
      <4> QED BY <1>1, <4>1
    <3> QED BY <3>2, <3>3
  <2>2. ASSUME NEW j \in A PROVE j \in C
    <3>1. j \in P /\ j \in Int /\ j <= i
      BY <1>1, <2>2
    <3>2. j <= i + n
      BY <1>2, <3>1
    <3> QED BY <1>1, <3>1, <3>2
  <2>3. ASSUME NEW j \in B PROVE j \in C
    <3>1. j \in P /\ j \in i + 1 .. i + n
      BY <1>1, <1>2, <2>3
    <3>2. j <= i + n
      BY <1>2, <3>1
    <3> QED BY <1>1, <3>1, <3>2
  <2> QED BY <2>1, <2>2, <2>3
<1>4. A \cap B = {}
  <2>1. ASSUME NEW j \in A, j \in B PROVE FALSE
    <3>1. j <= i /\ j \in i + 1 .. i + n
      BY <1>1, <2>1
    <3> QED BY <1>2, <3>1
  <2> QED BY <2>1
<1>5. IsFiniteSet(A) /\ IsFiniteSet(B) /\ Cardinality(B) = n
  <2>1. A \in SUBSET P
    BY <1>1
  <2>2. PICK a \in Int, b \in Int : a = i + 1 /\ b = i + n
    BY <1>2
  <2>3. IsFiniteSet(a .. b) /\ Cardinality(a .. b) = IF a > b THEN 0 ELSE b - a + 1
    BY FS_Interval
  <2>4. (IF a > b THEN 0 ELSE b - a + 1) = n
    BY <1>2, <2>2
  <2> QED BY <1>1, <2>1, <2>2, <2>3, <2>4, FS_Subset
<1>6. Cardinality(A \cap B) = 0 /\ Cardinality(A) \in Nat
  BY <1>5, <1>4, FS_EmptySet, FS_CardinalityType
<1>7. Cardinality(A \cup B) = Cardinality(A) + n
  <2>1. Cardinality(A \cup B) = Cardinality(A) + Cardinality(B) - Cardinality(A \cap B)
    BY <1>5, FS_Union
  <2> QED BY <1>5, <1>6, <2>1
<1>8. Cardinality(C) = Cardinality(A) + n
  BY <1>3, <1>7
<1>9. PlaceIn(P, i) = Cardinality(A) /\ PlaceIn(P, i + n) = Cardinality(C)
  BY <1>1, Zenon DEF PlaceIn
<1> QED BY <1>8, <1>9

PickedOf(s, P, picked) ==
    /\ IsList(picked) /\ Len(picked) = Cardinality(P) /\ Len(picked) \in Nat
    /\ \A k \in 1 .. Len(picked) : Nth(P, k) \in P /\ picked[k] = s[Nth(P, k)]
    /\ \A i \in P : PlaceIn(P, i) \in 1 .. Len(picked) /\ picked[PlaceIn(P, i)] = s[i]
    /\ 1 \in P => Len(picked) >= 1 /\ picked[1] = s[1]

\* What is picked of a list is what stands at the places, and its first stays first.
LEMMA PickedIsThere ==
    ASSUME NEW s, IsList(s), NEW P \in SUBSET DOMAIN s, NEW picked, picked = Picked(s, P)
    PROVE  PickedOf(s, P, picked) /\ IsFiniteSet(P) /\ P \in SUBSET Int
<1>1. DOMAIN s = 1 .. Len(s) /\ Len(s) \in Nat
  BY DEF IsList
<1>2. P \in SUBSET Int /\ IsFiniteSet(P)
  <2>1. IsFiniteSet(DOMAIN s)
    BY <1>1, FS_Interval
  <2> QED BY <1>1, <2>1, FS_Subset
<1>3. PICK c : c = Cardinality(P)
  OBVIOUS
<1>4. /\ c \in Nat
      /\ \A k \in 1 .. c : Nth(P, k) \in P /\ PlaceIn(P, Nth(P, k)) = k
      /\ \A i \in P : PlaceIn(P, i) \in 1 .. c /\ Nth(P, PlaceIn(P, i)) = i
  BY <1>2, <1>3, PlacesInOrder
<1>5. picked = [k \in 1 .. c |-> s[Nth(P, k)]]
  BY <1>3 DEF Picked
<1>6. IsList(picked) /\ Len(picked) = c
  <2>1. picked = [k \in 1 .. c |-> picked[k]]
    BY <1>5
  <2> QED BY <1>4, <2>1, CountedIsList
<1>7. \A k \in 1 .. c : picked[k] = s[Nth(P, k)]
  BY <1>5
<1>8. \A i \in P : picked[PlaceIn(P, i)] = s[i]
  BY <1>4, <1>7
<1>9. ASSUME 1 \in P PROVE c >= 1 /\ picked[1] = s[1]
  <2>1. {j \in P : j <= 1} = {1}
    BY <1>1, <1>9
  <2>2. PlaceIn(P, 1) = 1
    BY <2>1, FS_Singleton DEF PlaceIn
  <2> QED BY <1>4, <1>8, <1>9, <2>2
<1> QED BY <1>2, <1>3, <1>4, <1>6, <1>7, <1>8, <1>9 DEF PickedOf

-----------------------------------------------------------------------------
(* The function that SumFunctionOnSet is defined by exists and is unique. *)

Pick(S) == CHOOSE x \in S : TRUE

Adds(w, S, f) ==
    f = [T \in SUBSET S |-> IF T = {} THEN 0 ELSE w[Pick(T)] + f[T \ {Pick(T)}]]

Adding(w, S) == CHOOSE f : Adds(w, S, f)

LEMMA SumIsAdding ==
    ASSUME NEW w, NEW S
    PROVE  SumFunctionOnSet(w, S) = Adding(w, S)[S]
BY DEF SumFunctionOnSet, FoldFunctionOnSet, MapThenFoldSet, Adding, Adds, Pick

LEMMA AddsAgree ==
    ASSUME NEW w, NEW S, IsFiniteSet(S), NEW f, Adds(w, S, f), NEW R, NEW g, Adds(w, R, g)
    PROVE  \A T \in SUBSET S : T \in SUBSET R => f[T] = g[T]
<1> DEFINE H == {T \in SUBSET S : T \in SUBSET R => f[T] = g[T]}
<1>1. ASSUME NEW T \in SUBSET S, \A U \in SUBSET T : U # T => U \in H, T \in SUBSET R
      PROVE  f[T] = g[T]
  <2>1. CASE T = {}
    BY <1>1, <2>1 DEF Adds
  <2>2. CASE T # {}
    <3>1. Pick(T) \in T
      BY <2>2 DEF Pick
    <3> DEFINE U == T \ {Pick(T)}
    <3>2. U \in SUBSET T /\ U # T /\ U \in SUBSET R
      BY <1>1, <3>1
    <3>3. f[U] = g[U]
      BY <1>1, <3>2
    <3>4. f[T] = w[Pick(T)] + f[U] /\ g[T] = w[Pick(T)] + g[U]
      BY <1>1, <2>2 DEF Adds
    <3> QED BY <3>3, <3>4
  <2> QED BY <2>1, <2>2
<1>2. \A T \in SUBSET S : (\A U \in SUBSET T : U # T => U \in H) => T \in H
  BY <1>1
<1> HIDE DEF H
<1>3. \A T \in SUBSET S : T \in H
  BY <1>2, SmallerFirst
<1> QED BY <1>3 DEF H

LEMMA AddingAdds ==
    ASSUME NEW w, NEW S, IsFiniteSet(S)
    PROVE  Adds(w, S, Adding(w, S))
<1> DEFINE H == {T \in SUBSET S : Adds(w, T, Adding(w, T))}
<1>1. ASSUME NEW T \in SUBSET S, \A U \in SUBSET T : U # T => U \in H
      PROVE  T \in H
  <2> DEFINE rest == IF T = {} THEN 0 ELSE w[Pick(T)] + Adding(w, T \ {Pick(T)})[T \ {Pick(T)}]
             f == [U \in SUBSET T |-> IF U = T THEN rest ELSE Adding(w, U)[U]]
  <2>1. ASSUME NEW U \in SUBSET T
        PROVE  f[U] = IF U = {} THEN 0 ELSE w[Pick(U)] + f[U \ {Pick(U)}]
    <3>1. CASE U = {}
      <4>1. CASE T = {}
        BY <3>1, <4>1
      <4>2. CASE T # {}
        <5>1. Adds(w, U, Adding(w, U))
          BY <1>1, <3>1, <4>2
        <5>2. Adding(w, U)[U] = 0
          BY <5>1, <3>1 DEF Adds
        <5> QED BY <5>2, <3>1, <4>2
      <4> QED BY <4>1, <4>2
    <3>2. CASE U # {}
      <4> DEFINE V == U \ {Pick(U)}
      <4>1. Pick(U) \in U
        BY <3>2 DEF Pick
      <4>2. V \in SUBSET U /\ V # U /\ V \in SUBSET T /\ V # T
        BY <4>1
      <4>3. f[V] = Adding(w, V)[V]
        BY <4>2
      <4>4. CASE U = T
        BY <3>2, <4>3, <4>4
      <4>5. CASE U # T
        <5>1. Adds(w, U, Adding(w, U)) /\ Adds(w, V, Adding(w, V))
          BY <1>1, <4>2, <4>5
        <5>2. IsFiniteSet(V)
          BY <4>2, FS_Subset
        <5>3. V \in SUBSET V
          OBVIOUS
        <5> HIDE DEF V
        <5>4. Adding(w, V)[V] = Adding(w, U)[V]
          BY <5>1, <5>2, <5>3, <4>2, AddsAgree
        <5>5. Adding(w, U)[U] = w[Pick(U)] + Adding(w, U)[V]
          BY <5>1, <3>2 DEF Adds, V
        <5> QED BY <3>2, <4>3, <4>5, <5>4, <5>5 DEF V
      <4> QED BY <4>4, <4>5
    <3> QED BY <3>1, <3>2
  <2>2. DOMAIN f = SUBSET T /\ f = [U \in SUBSET T |-> f[U]]
    OBVIOUS
  <2> HIDE DEF f
  <2>3. f = [U \in SUBSET T |-> IF U = {} THEN 0 ELSE w[Pick(U)] + f[U \ {Pick(U)}]]
    BY <2>1, <2>2
  <2>4. Adds(w, T, f)
    BY <2>3 DEF Adds
  <2>5. Adds(w, T, Adding(w, T))
    BY <2>4 DEF Adding
  <2> QED BY <2>5
<1> HIDE DEF H
<1>2. S \in H
  BY <1>1, SmallerFirst
<1> QED BY <1>2 DEF H

LEMMA SumStep ==
    ASSUME NEW w, NEW S, IsFiniteSet(S)
    PROVE  SumFunctionOnSet(w, S) =
             IF S = {} THEN 0 ELSE w[Pick(S)] + SumFunctionOnSet(w, S \ {Pick(S)})
<1>1. CASE S = {}
  <2>1. Adds(w, S, Adding(w, S)) /\ S \in SUBSET S
    BY AddingAdds
  <2>2. Adding(w, S)[S] = 0
    BY <1>1, <2>1 DEF Adds
  <2> QED BY <1>1, <2>2, SumIsAdding
<1>2. CASE S # {}
  <2> DEFINE T == S \ {Pick(S)}
  <2>1. T \in SUBSET S /\ T \in SUBSET T /\ IsFiniteSet(T)
    BY FS_Subset
  <2>2. Adds(w, S, Adding(w, S)) /\ Adds(w, T, Adding(w, T))
    BY <2>1, AddingAdds
  <2>3. Adding(w, S)[S] = w[Pick(S)] + Adding(w, S)[T]
    <3>1. S \in SUBSET S
      OBVIOUS
    <3> QED BY <1>2, <2>2, <3>1 DEF Adds
  <2> HIDE DEF T
  <2>4. Adding(w, T)[T] = Adding(w, S)[T]
    BY <2>1, <2>2, AddsAgree
  <2> QED BY <1>2, <2>3, <2>4, SumIsAdding DEF T
<1> QED BY <1>1, <1>2

-----------------------------------------------------------------------------
(* What the models use. *)

LEMMA SumOfNothing == ASSUME NEW w PROVE SumFunctionOnSet(w, {}) = 0
BY SumStep, FS_EmptySet

LEMMA SumIsInt ==
    ASSUME NEW D, NEW w \in [D -> Int], NEW S \in SUBSET D, IsFiniteSet(S)
    PROVE  SumFunctionOnSet(w, S) \in Int
<1> DEFINE H == {T \in SUBSET S : SumFunctionOnSet(w, T) \in Int}
<1>1. ASSUME NEW T \in SUBSET S, \A U \in SUBSET T : U # T => U \in H
      PROVE  T \in H
  <2>1. IsFiniteSet(T)
    BY FS_Subset
  <2>2. CASE T = {}
    BY <2>2, SumOfNothing
  <2>3. CASE T # {}
    <3>1. Pick(T) \in T
      BY <2>3 DEF Pick
    <3>2. SumFunctionOnSet(w, T \ {Pick(T)}) \in Int
      BY <1>1, <3>1
    <3>3. w[Pick(T)] \in Int
      BY <3>1
    <3> QED BY <2>1, <2>3, <3>2, <3>3, SumStep
  <2> QED BY <2>2, <2>3
<1> HIDE DEF H
<1>2. S \in H
  BY <1>1, SmallerFirst
<1> QED BY <1>2 DEF H

\* One element more adds its own term, whichever element is chosen first.
LEMMA SumWithOneMore ==
    ASSUME NEW D, NEW w \in [D -> Int], NEW S \in SUBSET D, IsFiniteSet(S), NEW x \in D, x \notin S
    PROVE  SumFunctionOnSet(w, S \cup {x}) = SumFunctionOnSet(w, S) + w[x]
<1> DEFINE Sum(T) == SumFunctionOnSet(w, T)
           H == {T \in SUBSET S : \A y \in D \ T : Sum(T \cup {y}) = Sum(T) + w[y]}
<1>1. ASSUME NEW T \in SUBSET S, \A U \in SUBSET T : U # T => U \in H, NEW y \in D, y \notin T
      PROVE  Sum(T \cup {y}) = Sum(T) + w[y]
  <2> DEFINE p == Pick(T \cup {y})
             U == T \ {p}
  <2>1. IsFiniteSet(T) /\ IsFiniteSet(T \cup {y})
    BY FS_Subset, FS_AddElement
  <2>2. p \in T \cup {y}
    BY DEF Pick
  <2> HIDE DEF p
  <2>3. Sum(T \cup {y}) = w[p] + Sum((T \cup {y}) \ {p})
    BY <2>1, SumStep DEF p
  <2>4. Sum(T) \in Int /\ w[y] \in Int /\ w[p] \in Int
    BY <1>1, <2>1, <2>2, SumIsInt
  <2>5. CASE p = y
    <3>1. (T \cup {y}) \ {p} = T
      BY <1>1, <2>5
    <3>2. Sum((T \cup {y}) \ {p}) = Sum(T)
      BY <3>1
    <3>3. w[p] = w[y]
      BY <2>5
    <3> HIDE DEF Sum
    <3> QED BY <2>3, <2>4, <3>2, <3>3
  <2>6. CASE p # y
    <3>1. U \in SUBSET T /\ U # T /\ p \in D \ U /\ y \in D \ U /\ U \cup {p} = T
      BY <1>1, <2>2, <2>6
    <3>2. Sum(U \cup {p}) = Sum(U) + w[p] /\ Sum(U \cup {y}) = Sum(U) + w[y]
      BY <1>1, <3>1
    <3>3. (T \cup {y}) \ {p} = U \cup {y}
      BY <2>6
    <3>4. Sum(U) \in Int
      BY <2>1, <3>1, FS_Subset, SumIsInt
    <3>5. Sum((T \cup {y}) \ {p}) = Sum(U \cup {y}) /\ Sum(U \cup {p}) = Sum(T)
      BY <3>1, <3>3
    <3> HIDE DEF U, Sum
    <3> QED BY <2>3, <2>4, <3>2, <3>4, <3>5
  <2> QED BY <2>5, <2>6
<1>2. \A T \in SUBSET S : (\A U \in SUBSET T : U # T => U \in H) => T \in H
  BY <1>1
<1> HIDE DEF H
<1>3. S \in H
  BY <1>2, SmallerFirst
<1> QED BY <1>3 DEF H

LEMMA SumIsNat ==
    ASSUME NEW D, IsFiniteSet(D), NEW w \in [D -> Nat]
    PROVE  SumFunctionOnSet(w, D) \in Nat
<1> DEFINE H == {T \in SUBSET D : SumFunctionOnSet(w, T) \in Nat}
<1>1. w \in [D -> Int]
  OBVIOUS
<1>2. {} \in H
  BY SumOfNothing
<1>3. ASSUME NEW T \in SUBSET D, NEW x \in D \ T, T \in H
      PROVE  T \cup {x} \in H
  <2>1. SumFunctionOnSet(w, T \cup {x}) = SumFunctionOnSet(w, T) + w[x]
    BY <1>1, FS_Subset, SumWithOneMore
  <2> QED BY <1>3, <2>1
<1> HIDE DEF H
<1>4. D \in H
  BY <1>2, <1>3, OneByOne
<1> QED BY <1>4 DEF H

LEMMA SumWithoutOne ==
    ASSUME NEW D, NEW w \in [D -> Int], NEW S \in SUBSET D, IsFiniteSet(S), NEW x \in S
    PROVE  SumFunctionOnSet(w, S) = SumFunctionOnSet(w, S \ {x}) + w[x]
<1>1. S \ {x} \in SUBSET D /\ x \in D /\ x \notin S \ {x} /\ (S \ {x}) \cup {x} = S
  OBVIOUS
<1>2. IsFiniteSet(S \ {x})
  BY FS_RemoveElement
<1> QED BY <1>1, <1>2, SumWithOneMore

\* Nothing but the terms of S counts.
LEMMA SumOfSameTerms ==
    ASSUME NEW D, NEW v \in [D -> Int], NEW E, NEW w \in [E -> Int],
           NEW S \in SUBSET D, S \in SUBSET E, IsFiniteSet(S),
           \A x \in S : v[x] = w[x]
    PROVE  SumFunctionOnSet(v, S) = SumFunctionOnSet(w, S)
<1> DEFINE H == {T \in SUBSET S : SumFunctionOnSet(v, T) = SumFunctionOnSet(w, T)}
<1>1. {} \in H
  BY SumOfNothing
<1>2. ASSUME NEW T \in SUBSET S, NEW x \in S \ T, T \in H
      PROVE  T \cup {x} \in H
  <2>1. IsFiniteSet(T)
    BY FS_Subset
  <2>2. /\ SumFunctionOnSet(v, T \cup {x}) = SumFunctionOnSet(v, T) + v[x]
        /\ SumFunctionOnSet(w, T \cup {x}) = SumFunctionOnSet(w, T) + w[x]
    BY <2>1, SumWithOneMore
  <2> QED BY <1>2, <2>2
<1> HIDE DEF H
<1>3. S \in H
  BY <1>1, <1>2, OneByOne
<1> QED BY <1>3 DEF H

\* Some terms, taken out of a function.
LEMMA SumOfTheseTerms ==
    ASSUME NEW S, IsFiniteSet(S), NEW v \in [S -> Int], NEW E, NEW w \in [E -> Int], S \in SUBSET E,
           \A x \in S : w[x] = v[x]
    PROVE  SumFunctionOnSet(v, S) = SumFunctionOnSet(w, S)
BY SumOfSameTerms

\* One term replaced changes the sum by the difference.
LEMMA SumWithOneChanged ==
    ASSUME NEW D, NEW v \in [D -> Int], NEW w \in [D -> Int], IsFiniteSet(D), NEW x \in D,
           \A y \in D \ {x} : v[y] = w[y]
    PROVE  SumFunctionOnSet(v, D) = SumFunctionOnSet(w, D) - w[x] + v[x]
<1>1. IsFiniteSet(D \ {x})
  BY FS_RemoveElement
<1>2. SumFunctionOnSet(v, D \ {x}) = SumFunctionOnSet(w, D \ {x})
  BY <1>1, SumOfSameTerms
<1>3. /\ SumFunctionOnSet(v, D) = SumFunctionOnSet(v, D \ {x}) + v[x]
      /\ SumFunctionOnSet(w, D) = SumFunctionOnSet(w, D \ {x}) + w[x]
  BY SumWithoutOne
<1>4. SumFunctionOnSet(w, D \ {x}) \in Int
  BY <1>1, SumIsInt
<1> QED BY <1>2, <1>3, <1>4

LEMMA SumOfSomeIsNat ==
    ASSUME NEW D, IsFiniteSet(D), NEW w \in [D -> Nat], NEW S \in SUBSET D
    PROVE  SumFunctionOnSet(w, S) \in Nat
<1> DEFINE v == [x \in S |-> w[x]]
<1>1. v \in [S -> Nat] /\ v \in [S -> Int] /\ w \in [D -> Int] /\ IsFiniteSet(S)
  BY FS_Subset
<1>2. \A x \in S : w[x] = v[x]
  OBVIOUS
<1> HIDE DEF v
<1>3. SumFunctionOnSet(v, S) \in Nat
  BY <1>1, SumIsNat
<1>4. SumFunctionOnSet(w, S) = SumFunctionOnSet(v, S)
  BY <1>1, <1>2, SumOfSameTerms
<1> QED BY <1>3, <1>4

LEMMA SumOfZeros ==
    ASSUME NEW D, IsFiniteSet(D), NEW w \in [D -> Int], \A x \in D : w[x] = 0
    PROVE  SumFunctionOnSet(w, D) = 0
<1> DEFINE H == {T \in SUBSET D : SumFunctionOnSet(w, T) = 0}
<1>1. {} \in H
  BY SumOfNothing
<1>2. ASSUME NEW T \in SUBSET D, NEW x \in D \ T, T \in H
      PROVE  T \cup {x} \in H
  BY <1>2, FS_Subset, SumWithOneMore
<1> HIDE DEF H
<1>3. D \in H
  BY <1>1, <1>2, OneByOne
<1> QED BY <1>3 DEF H

\* Terms that are zero outside S add up over S.
LEMMA SumOfSome ==
    ASSUME NEW D, IsFiniteSet(D), NEW w \in [D -> Int], NEW S \in SUBSET D,
           \A x \in D \ S : w[x] = 0
    PROVE  SumFunctionOnSet(w, D) = SumFunctionOnSet(w, S)
<1> DEFINE Sum(T) == SumFunctionOnSet(w, T)
           H == {T \in SUBSET D : Sum(T) = Sum(T \cap S)}
<1>1. {} \in H
  <2>1. {} \cap S = {}
    OBVIOUS
  <2> QED BY <2>1
<1>2. ASSUME NEW T \in SUBSET D, NEW x \in D \ T, T \in H
      PROVE  T \cup {x} \in H
  <2>1. Sum(T \cup {x}) = Sum(T) + w[x] /\ Sum(T) = Sum(T \cap S)
    BY <1>2, FS_Subset, SumWithOneMore
  <2>2. CASE x \in S
    <3>1. (T \cup {x}) \cap S = (T \cap S) \cup {x} /\ x \notin T \cap S
      BY <1>2, <2>2
    <3>2. Sum((T \cap S) \cup {x}) = Sum(T \cap S) + w[x]
      BY <1>2, <3>1, FS_Subset, SumWithOneMore
    <3> QED BY <2>1, <3>1, <3>2
  <2>3. CASE x \notin S
    <3>1. (T \cup {x}) \cap S = T \cap S /\ w[x] = 0
      BY <1>2, <2>3
    <3>2. Sum(T) \in Int
      BY FS_Subset, SumIsInt
    <3>3. Sum(T \cup {x}) = Sum(T \cap S)
      BY <2>1, <3>1, <3>2
    <3> QED BY <3>1, <3>3
  <2> QED BY <2>2, <2>3
<1> HIDE DEF H
<1>3. D \in H
  BY <1>1, <1>2, OneByOne
<1>4. D \cap S = S
  OBVIOUS
<1> QED BY <1>3, <1>4 DEF H

\* Larger terms have no smaller sum.
LEMMA SumGrows ==
    ASSUME NEW D, IsFiniteSet(D), NEW v \in [D -> Int], NEW w \in [D -> Int],
           \A x \in D : v[x] <= w[x]
    PROVE  SumFunctionOnSet(v, D) <= SumFunctionOnSet(w, D)
<1> DEFINE H == {T \in SUBSET D : SumFunctionOnSet(v, T) <= SumFunctionOnSet(w, T)}
<1>1. {} \in H
  BY SumOfNothing
<1>2. ASSUME NEW T \in SUBSET D, NEW x \in D \ T, T \in H
      PROVE  T \cup {x} \in H
  <2>1. /\ SumFunctionOnSet(v, T \cup {x}) = SumFunctionOnSet(v, T) + v[x]
        /\ SumFunctionOnSet(w, T \cup {x}) = SumFunctionOnSet(w, T) + w[x]
    BY FS_Subset, SumWithOneMore
  <2>2. /\ SumFunctionOnSet(v, T) \in Int /\ SumFunctionOnSet(w, T) \in Int
        /\ v[x] \in Int /\ w[x] \in Int /\ v[x] <= w[x]
    BY FS_Subset, SumIsInt
  <2> QED BY <1>2, <2>1, <2>2
<1> HIDE DEF H
<1>3. D \in H
  BY <1>1, <1>2, OneByOne
<1> QED BY <1>3 DEF H

LEMMA SumsAdd ==
    ASSUME NEW D, IsFiniteSet(D), NEW u \in [D -> Int], NEW v \in [D -> Int], NEW w \in [D -> Int],
           \A x \in D : w[x] = u[x] + v[x]
    PROVE  SumFunctionOnSet(w, D) = SumFunctionOnSet(u, D) + SumFunctionOnSet(v, D)
<1> DEFINE H == {T \in SUBSET D : SumFunctionOnSet(w, T) = SumFunctionOnSet(u, T) + SumFunctionOnSet(v, T)}
<1>1. {} \in H
  BY SumOfNothing
<1>2. ASSUME NEW T \in SUBSET D, NEW x \in D \ T, T \in H
      PROVE  T \cup {x} \in H
  <2>1. IsFiniteSet(T)
    BY FS_Subset
  <2>2. /\ SumFunctionOnSet(w, T \cup {x}) = SumFunctionOnSet(w, T) + w[x]
        /\ SumFunctionOnSet(u, T \cup {x}) = SumFunctionOnSet(u, T) + u[x]
        /\ SumFunctionOnSet(v, T \cup {x}) = SumFunctionOnSet(v, T) + v[x]
    BY <1>2, <2>1, SumWithOneMore
  <2>3. SumFunctionOnSet(u, T) \in Int /\ SumFunctionOnSet(v, T) \in Int
    BY <2>1, SumIsInt
  <2> QED BY <1>2, <2>2, <2>3
<1> HIDE DEF H
<1>3. D \in H
  BY <1>1, <1>2, OneByOne
<1> QED BY <1>3 DEF H

\* A sum is the sum of the sums over its parts.
Parts(s, w, D, part, B) == s = [b \in B |-> SumFunctionOnSet(w, {x \in D : part[x] = b})]

LEMMA SumByParts ==
    ASSUME NEW D, IsFiniteSet(D), NEW w \in [D -> Int], NEW B, IsFiniteSet(B), NEW part \in [D -> B],
           NEW s, Parts(s, w, D, part, B)
    PROVE  SumFunctionOnSet(s, B) = SumFunctionOnSet(w, D)
<1> DEFINE Of(T) == [b \in B |-> SumFunctionOnSet(w, {x \in T : part[x] = b})]
           H == {T \in SUBSET D : SumFunctionOnSet(Of(T), B) = SumFunctionOnSet(w, T)}
<1>1. ASSUME NEW T \in SUBSET D PROVE Of(T) \in [B -> Int] /\ IsFiniteSet(T)
  <2>1. ASSUME NEW b \in B PROVE SumFunctionOnSet(w, {x \in T : part[x] = b}) \in Int
    <3>1. {x \in T : part[x] = b} \in SUBSET D /\ IsFiniteSet({x \in T : part[x] = b})
      BY FS_Subset
    <3> QED BY <3>1, SumIsInt
  <2> QED BY <2>1, FS_Subset
<1>2. {} \in H
  <2>1. \A b \in B : Of({})[b] = 0
    <3>1. ASSUME NEW b \in B PROVE {x \in {} : part[x] = b} = {}
      OBVIOUS
    <3> QED BY <3>1, SumOfNothing
  <2>2. SumFunctionOnSet(Of({}), B) = 0
    BY <1>1, <2>1, SumOfZeros
  <2> QED BY <2>2, SumOfNothing
<1>3. ASSUME NEW T \in SUBSET D, NEW x \in D \ T, T \in H
      PROVE  T \cup {x} \in H
  <2>1. T \cup {x} \in SUBSET D
    BY <1>3
  <2>2. ASSUME NEW b \in B \ {part[x]} PROVE Of(T \cup {x})[b] = Of(T)[b]
    <3>1. {y \in T \cup {x} : part[y] = b} = {y \in T : part[y] = b}
      BY <2>2
    <3> QED BY <3>1
  <2>3. Of(T \cup {x})[part[x]] = Of(T)[part[x]] + w[x]
    <3> DEFINE A == {y \in T : part[y] = part[x]}
    <3>1. {y \in T \cup {x} : part[y] = part[x]} = A \cup {x}
      OBVIOUS
    <3>2. A \in SUBSET D /\ IsFiniteSet(A) /\ x \notin A
      BY <1>1, <1>3, FS_Subset
    <3>3. SumFunctionOnSet(w, A \cup {x}) = SumFunctionOnSet(w, A) + w[x]
      BY <1>3, <3>2, SumWithOneMore
    <3>4. part[x] \in B
      BY <1>3
    <3> QED BY <3>1, <3>3, <3>4
  <2>4. Of(T) \in [B -> Int] /\ Of(T \cup {x}) \in [B -> Int] /\ part[x] \in B
    BY <1>1, <1>3, <2>1
  <2> HIDE DEF Of
  <2>5. SumFunctionOnSet(Of(T \cup {x}), B)
          = SumFunctionOnSet(Of(T), B) - Of(T)[part[x]] + Of(T \cup {x})[part[x]]
    <3>1. PICK p, u, v : p = part[x] /\ u = Of(T) /\ v = Of(T \cup {x})
      OBVIOUS
    <3>2. \A b \in B \ {p} : v[b] = u[b]
      BY <2>2, <3>1
    <3>3. p \in B /\ u \in [B -> Int] /\ v \in [B -> Int]
      BY <2>4, <3>1
    <3>4. SumFunctionOnSet(v, B) = SumFunctionOnSet(u, B) - u[p] + v[p]
      BY <3>2, <3>3, SumWithOneChanged
    <3> QED BY <3>1, <3>4
  <2>6. SumFunctionOnSet(w, T \cup {x}) = SumFunctionOnSet(w, T) + w[x]
    BY <1>1, <1>3, SumWithOneMore
  <2>7. SumFunctionOnSet(Of(T), B) = SumFunctionOnSet(w, T)
    BY <1>3
  <2>8. SumFunctionOnSet(w, T) \in Int /\ Of(T)[part[x]] \in Int /\ w[x] \in Int
    BY <1>1, <1>3, <2>4, SumIsInt
  <2> QED BY <2>1, <2>3, <2>5, <2>6, <2>7, <2>8
<1> HIDE DEF H
<1>4. D \in H
  BY <1>2, <1>3, OneByOne
<1>5. s = Of(D)
  BY DEF Parts
<1> QED BY <1>4, <1>5 DEF H

LEMMA SumOfTwo ==
    ASSUME NEW D, NEW w \in [D -> Int], NEW S \in SUBSET D, NEW T \in SUBSET D,
           IsFiniteSet(S), IsFiniteSet(T), S \cap T = {}
    PROVE  SumFunctionOnSet(w, S \cup T) = SumFunctionOnSet(w, S) + SumFunctionOnSet(w, T)
<1> DEFINE H == {U \in SUBSET T : SumFunctionOnSet(w, S \cup U) = SumFunctionOnSet(w, S) + SumFunctionOnSet(w, U)}
<1>1. SumFunctionOnSet(w, S) \in Int
  BY SumIsInt
<1>2. {} \in H
  <2>1. S \cup {} = S
    OBVIOUS
  <2> QED BY <1>1, <2>1, SumOfNothing
<1>3. ASSUME NEW U \in SUBSET T, NEW x \in T \ U, U \in H
      PROVE  U \cup {x} \in H
  <2>1. /\ IsFiniteSet(U) /\ IsFiniteSet(S \cup U) /\ S \cup U \in SUBSET D /\ x \notin S \cup U
        /\ S \cup (U \cup {x}) = (S \cup U) \cup {x} /\ x \in D
    BY <1>3, FS_Subset, FS_Union
  <2>2. SumFunctionOnSet(w, (S \cup U) \cup {x}) = SumFunctionOnSet(w, S \cup U) + w[x]
    BY <2>1, SumWithOneMore
  <2>3. SumFunctionOnSet(w, U \cup {x}) = SumFunctionOnSet(w, U) + w[x]
    BY <1>3, <2>1, SumWithOneMore
  <2>4. SumFunctionOnSet(w, U) \in Int /\ w[x] \in Int
    BY <1>3, <2>1, SumIsInt
  <2>5. SumFunctionOnSet(w, S \cup U) = SumFunctionOnSet(w, S) + SumFunctionOnSet(w, U)
    BY <1>3
  <2>6. PICK V : V = U \cup {x}
    OBVIOUS
  <2>7. V \in SUBSET T /\ S \cup V = (S \cup U) \cup {x}
    BY <1>3, <2>1, <2>6
  <2>8. SumFunctionOnSet(w, S \cup V) = SumFunctionOnSet(w, S) + SumFunctionOnSet(w, V)
    <3>1. /\ SumFunctionOnSet(w, S \cup V) = SumFunctionOnSet(w, S \cup U) + w[x]
          /\ SumFunctionOnSet(w, V) = SumFunctionOnSet(w, U) + w[x]
      BY <2>2, <2>3, <2>6, <2>7
    <3> QED BY <1>1, <2>4, <2>5, <3>1
  <2> QED BY <2>6, <2>7, <2>8
<1> HIDE DEF H
<1>4. T \in H
  BY <1>2, <1>3, OneByOne
<1> QED BY <1>4 DEF H

-----------------------------------------------------------------------------
(* Folds: the function a fold is defined by exists, when each step stays   *)
(* in a set of values.  Steps and picks are functions, for the same reason *)
(* as above.                                                               *)

Folds(f, S, X, base, pick, step) ==
    /\ f \in [SUBSET S -> X]
    /\ \A T \in SUBSET S : f[T] = IF T = {} THEN base ELSE step[pick[T]][f[T \ {pick[T]}]]

LEMMA FoldsAgree ==
    ASSUME NEW S, IsFiniteSet(S), NEW X, NEW base, NEW pick, NEW step,
           \A T \in SUBSET S : T # {} => pick[T] \in T,
           NEW f, NEW A \in SUBSET S, Folds(f, A, X, base, pick, step),
           NEW g, NEW B \in SUBSET S, Folds(g, B, X, base, pick, step)
    PROVE  \A T \in SUBSET S : T \in SUBSET A /\ T \in SUBSET B => f[T] = g[T]
<1> DEFINE H == {T \in SUBSET S : T \in SUBSET A /\ T \in SUBSET B => f[T] = g[T]}
<1>1. ASSUME NEW T \in SUBSET S, \A U \in SUBSET T : U # T => U \in H,
             T \in SUBSET A, T \in SUBSET B
      PROVE  f[T] = g[T]
  <2>1. CASE T = {}
    BY <1>1, <2>1 DEF Folds
  <2>2. CASE T # {}
    <3> DEFINE U == T \ {pick[T]}
    <3>1. U \in SUBSET T /\ U # T /\ U \in SUBSET A /\ U \in SUBSET B
      BY <1>1, <2>2
    <3>2. f[U] = g[U]
      BY <1>1, <3>1
    <3>3. f[T] = step[pick[T]][f[U]] /\ g[T] = step[pick[T]][g[U]]
      BY <1>1, <2>2 DEF Folds
    <3> QED BY <3>2, <3>3
  <2> QED BY <2>1, <2>2
<1>2. \A T \in SUBSET S : (\A U \in SUBSET T : U # T => U \in H) => T \in H
  BY <1>1
<1> HIDE DEF H
<1>3. \A T \in SUBSET S : T \in H
  BY <1>2, SmallerFirst
<1> QED BY <1>3 DEF H

LEMMA FoldExists ==
    ASSUME NEW S, IsFiniteSet(S), NEW X, NEW base \in X, NEW pick, NEW step,
           \A T \in SUBSET S : T # {} => pick[T] \in T,
           \A x \in S : \A v \in X : step[x][v] \in X
    PROVE  \E f : Folds(f, S, X, base, pick, step)
<1> DEFINE Of(T) == CHOOSE f : Folds(f, T, X, base, pick, step)
           H == {T \in SUBSET S : Folds(Of(T), T, X, base, pick, step)}
<1>1. ASSUME NEW T \in SUBSET S, \A U \in SUBSET T : U # T => U \in H
      PROVE  T \in H
  <2> DEFINE P == T \ {pick[T]}
             last == IF T = {} THEN base ELSE step[pick[T]][Of(P)[P]]
             f == [U \in SUBSET T |-> IF U = T THEN last ELSE Of(U)[U]]
  <2>0. ASSUME NEW U \in SUBSET T, U # T
        PROVE  Folds(Of(U), U, X, base, pick, step) /\ Of(U)[U] \in X
    BY <1>1, <2>0 DEF Folds
  <2>1. last \in X
    <3>1. CASE T = {}
      BY <3>1
    <3>2. CASE T # {}
      <4>1. pick[T] \in T /\ P \in SUBSET T /\ P # T
        BY <3>2
      <4>2. Of(P)[P] \in X
        BY <2>0, <4>1
      <4> QED BY <3>2, <4>1, <4>2
    <3> QED BY <3>1, <3>2
  <2>2. f \in [SUBSET T -> X]
    <3> HIDE DEF last, Of
    <3>1. \A U \in SUBSET T : (IF U = T THEN last ELSE Of(U)[U]) \in X
      BY <2>0, <2>1
    <3> QED BY <3>1
  <2>3. ASSUME NEW U \in SUBSET T
        PROVE  f[U] = IF U = {} THEN base ELSE step[pick[U]][f[U \ {pick[U]}]]
    <3> DEFINE V == U \ {pick[U]}
    <3>1. CASE U = {}
      <4>1. CASE T = {}
        BY <3>1, <4>1
      <4>2. CASE T # {}
        <5>1. Folds(Of(U), U, X, base, pick, step) /\ f[U] = Of(U)[U]
          BY <2>0, <3>1, <4>2
        <5>2. Of(U)[U] = base
          BY <5>1, <3>1 DEF Folds
        <5> QED BY <5>1, <5>2, <3>1
      <4> QED BY <4>1, <4>2
    <3>2. CASE U # {}
      <4>1. pick[U] \in U /\ V \in SUBSET U /\ V # U /\ V \in SUBSET T /\ V # T /\ V \in SUBSET S /\ U \in SUBSET S
        BY <3>2
      <4>2. f[V] = Of(V)[V]
        BY <4>1
      <4>3. CASE U = T
        BY <3>2, <4>2, <4>3
      <4>4. CASE U # T
        <5>1. Folds(Of(U), U, X, base, pick, step) /\ Folds(Of(V), V, X, base, pick, step)
          BY <2>0, <4>1, <4>4
        <5>2. V \in SUBSET V
          OBVIOUS
        <5>3. Of(U)[U] = step[pick[U]][Of(U)[V]]
          BY <5>1, <3>2 DEF Folds
        <5>4. f[U] = Of(U)[U]
          BY <4>4
        <5> HIDE DEF V, Of, f
        <5>5. Of(U)[V] = Of(V)[V]
          BY <5>1, <5>2, <4>1, FoldsAgree
        <5> QED BY <3>2, <4>2, <5>3, <5>4, <5>5 DEF V
      <4> QED BY <4>3, <4>4
    <3> QED BY <3>1, <3>2
  <2> HIDE DEF f
  <2>4. Folds(f, T, X, base, pick, step)
    BY <2>2, <2>3 DEF Folds
  <2>5. Folds(Of(T), T, X, base, pick, step)
    BY <2>4
  <2> QED BY <2>5
<1> HIDE DEF H
<1>2. S \in H
  BY <1>1, SmallerFirst
<1> QED BY <1>2 DEF H
=============================================================================
