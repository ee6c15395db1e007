------------------------------ MODULE SeqFacts ------------------------------
(***************************************************************************)
(* Facts about numbers and sequences that the proofs about the components  *)
(* share.  Induction over the naturals is stated about sets of numbers,    *)
(* not about predicates, so that it can be cited.                          *)
(***************************************************************************)
EXTENDS Subsequences, SequencesExt, WellFoundedInduction, FiniteSetTheorems,
        SequenceTheorems, TLAPS

(* Every set of naturals has a least element.                              *)
LEMMA LeastNatural ==
  ASSUME NEW T \in SUBSET Nat, T # {}
  PROVE  \E x \in T : \A y \in T : x <= y
<1> DEFINE R == OpToRel(<, Nat)
<1>1. \E x \in T : \A y \in T : ~(<<y, x>> \in R)
  <2>1. IsWellFoundedOn(R, Nat)
    BY NatLessThanWellFounded
  <2> HIDE DEF R
  <2> QED BY <2>1, WFMin
<1>2. \A x, y \in Nat : <<y, x>> \in R <=> y < x
  BY DEF OpToRel
<1>3. PICK x \in T : \A y \in T : ~(<<y, x>> \in R)
  BY <1>1, Zenon
<1>4. \A y \in T : ~(y < x)
  <2> TAKE y \in T
  <2>1. ~(<<y, x>> \in R)
    BY <1>3
  <2>2. x \in Nat /\ y \in Nat
    OBVIOUS
  <2> QED BY <1>2, <2>1, <2>2
<1> QED BY <1>4

(* Induction: a set that holds 0 and, with each number, the next one, is   *)
(* the set of all naturals.                                                *)
LEMMA InductiveSet ==
  ASSUME NEW S \in SUBSET Nat, 0 \in S, \A n \in S : n + 1 \in S
  PROVE  S = Nat
<1> SUFFICES ASSUME Nat \ S # {} PROVE FALSE
  OBVIOUS
<1>1. PICK x \in Nat \ S : \A y \in Nat \ S : x <= y
  BY LeastNatural
<1>2. x - 1 \in Nat
  OBVIOUS
<1>3. x - 1 \in S
  BY <1>1, <1>2
<1> QED BY <1>2, <1>3

-----------------------------------------------------------------------------
(* The last element of a sequence and the others.                          *)
LEMMA FrontLast ==
  ASSUME NEW S, NEW s \in Seq(S), s # <<>>
  PROVE  /\ Len(s) \in Nat /\ Len(s) # 0
         /\ Front(s) \in Seq(S)
         /\ Len(Front(s)) = Len(s) - 1
         /\ DOMAIN Front(s) = 1..Len(s) - 1
         /\ \A i \in 1..Len(s) - 1 : Front(s)[i] = s[i]
         /\ Last(s) = s[Len(s)] /\ Last(s) \in S
<1>1. Len(s) \in Nat /\ Len(s) # 0
  OBVIOUS
<1>2. \A i \in 1..Len(s) - 1 : s[i] \in S
  OBVIOUS
<1>3. /\ SubSeq(s, 1, Len(s) - 1) \in Seq(S)
      /\ Len(SubSeq(s, 1, Len(s) - 1)) = IF 1 <= Len(s) - 1 THEN Len(s) - 1 - 1 + 1 ELSE 0
      /\ \A i \in 1..Len(s) - 1 - 1 + 1 : SubSeq(s, 1, Len(s) - 1)[i] = s[1 + i - 1]
  BY <1>1, <1>2, SubSeqProperties
<1>4. Front(s) \in Seq(S) /\ Len(Front(s)) = Len(s) - 1
  <2>1. Front(s) \in Seq(S)
    BY <1>3 DEF Front
  <2>2. CASE 1 <= Len(s) - 1
    BY <1>1, <1>3, <2>1, <2>2 DEF Front
  <2>3. CASE ~(1 <= Len(s) - 1)
    <3>1. \A n \in Nat : n # 0 /\ ~(1 <= n - 1) => n - 1 = 0
      OBVIOUS
    <3>2. Len(s) - 1 = 0
      BY ONLY <1>1, <2>3, <3>1
    <3> QED BY <1>3, <2>1, <2>3, <3>2 DEF Front
  <2> QED BY <2>1, <2>2, <2>3
<1>5. \A i \in 1..Len(s) - 1 : Front(s)[i] = s[i]
  BY <1>1, <1>3 DEF Front
<1>6. DOMAIN Front(s) = 1..Len(Front(s))
  BY <1>4
<1>7. Last(s) = s[Len(s)] /\ Last(s) \in S
  BY <1>1 DEF Last
<1> QED BY <1>1, <1>4, <1>5, <1>6, <1>7

(* A sequence of at most one element that is not empty.                    *)
LEMMA OneElement ==
  ASSUME NEW S, NEW s \in Seq(S), s # <<>>, Len(s) <= 1
  PROVE  /\ Len(s) = 1 /\ s = <<s[1]>> /\ s[1] \in S
         /\ Head(s) = s[1] /\ Last(s) = s[1]
         /\ Tail(s) = <<>> /\ Front(s) = <<>>
<1>1. Len(s) \in Nat /\ Len(s) # 0
  OBVIOUS
<1>2. Len(s) = 1
  BY <1>1
<1>3. s = <<s[1]>> /\ s[1] \in S /\ Head(s) = s[1]
  BY <1>2
<1>4. Tail(s) = <<>>
  <2>1. Tail(s) \in Seq(S) /\ Len(Tail(s)) = Len(s) - 1
    BY HeadTailProperties
  <2>2. Len(Tail(s)) = 0
    BY <1>2, <2>1
  <2> QED BY <2>1, <2>2
<1>5. SubSeq(s, 1, Len(s) - 1) = <<>>
  BY <1>2
<1> QED BY <1>2, <1>3, <1>4, <1>5 DEF Last, Front

(* Two sequences of the same length with the same elements are equal.      *)
LEMMA SameSeq ==
  ASSUME NEW S, NEW s \in Seq(S), NEW t \in Seq(S), Len(s) = Len(t),
         \A i \in 1..Len(s) : s[i] = t[i]
  PROVE  s = t
BY SeqEqual

-----------------------------------------------------------------------------
(* Positions and their ranks.  Ranks increase with the positions and take  *)
(* every value from 1 to the number of positions.                          *)
LEMMA RankMonotone ==
  ASSUME NEW n \in Nat, NEW P \in SUBSET (1..n)
  PROVE  /\ IsFiniteSet(P) /\ Cardinality(P) \in Nat
         /\ \A j \in P : Rank(P, j) \in 1..Cardinality(P)
         /\ \A j, k \in P : j < k => Rank(P, j) < Rank(P, k)
<1> DEFINE U(j) == {l \in P : l <= j}
<1> \A j \in P : j \in Nat
  OBVIOUS
<1>1. IsFiniteSet(P) /\ Cardinality(P) \in Nat
  <2>1. IsFiniteSet(1..n)
    BY FS_Interval
  <2>2. IsFiniteSet(P)
    BY <2>1, FS_Subset
  <2> QED BY <2>2, FS_CardinalityType
<1>2. \A j \in P : IsFiniteSet(U(j)) /\ Cardinality(U(j)) \in Nat /\ Cardinality(U(j)) <= Cardinality(P)
  <2> TAKE j \in P
  <2>1. U(j) \in SUBSET P
    OBVIOUS
  <2> QED BY <1>1, <2>1, FS_Subset, FS_CardinalityType
<1>3. \A j \in P : Cardinality(U(j)) # 0
  <2> TAKE j \in P
  <2>1. U(j) # {}
    BY DEF U
  <2> QED BY <1>2, <2>1, FS_EmptySet
<1>4. \A j \in P : Cardinality(U(j)) \in 1..Cardinality(P)
  BY <1>1, <1>2, <1>3
<1>5. \A j, k \in P : j < k => Cardinality(U(j)) < Cardinality(U(k))
  <2> SUFFICES ASSUME NEW j \in P, NEW k \in P, j < k
               PROVE  Cardinality(U(j)) < Cardinality(U(k))
    OBVIOUS
  <2>1. U(j) \in SUBSET U(k)
    <3> SUFFICES ASSUME NEW l \in P, l <= j PROVE l <= k
      OBVIOUS
    <3>1. l \in Nat /\ j \in Nat /\ k \in Nat
      OBVIOUS
    <3> QED BY <3>1
  <2>2. k \in U(k) /\ k \notin U(j)
    OBVIOUS
  <2>3. U(k) # U(j)
    BY <2>2
  <2>4. Cardinality(U(j)) <= Cardinality(U(k)) /\ Cardinality(U(j)) # Cardinality(U(k))
    <3> HIDE DEF U
    <3> QED BY <1>2, <2>1, <2>3, FS_Subset
  <2> QED BY <1>2, <2>4
<1> QED BY <1>1, <1>4, <1>5 DEF Rank

LEMMA RankInjective ==
  ASSUME NEW n \in Nat, NEW P \in SUBSET (1..n)
  PROVE  \A j, k \in P : Rank(P, j) = Rank(P, k) => j = k
<1> SUFFICES ASSUME NEW j \in P, NEW k \in P, j # k PROVE Rank(P, j) # Rank(P, k)
  OBVIOUS
<1>1. \A i \in P : Rank(P, i) \in 1..Cardinality(P)
  BY RankMonotone
<1>2. \A h, i \in P : h < i => Rank(P, h) < Rank(P, i)
  BY RankMonotone
<1>3. Rank(P, j) \in Nat /\ Rank(P, k) \in Nat
  BY <1>1
<1>4. j < k \/ k < j
  OBVIOUS
<1> QED BY <1>2, <1>3, <1>4

LEMMA RankOnto ==
  ASSUME NEW n \in Nat, NEW P \in SUBSET (1..n)
  PROVE  \A m \in 1..Cardinality(P) : Nth(P, m) \in P /\ Rank(P, Nth(P, m)) = m
<1> DEFINE r == [j \in P |-> Rank(P, j)]
           c == Cardinality(P)
<1>1. c \in Nat /\ IsFiniteSet(P)
  BY RankMonotone
<1>2. r \in [P -> 1..c]
  BY RankMonotone
<1>3. \A j, k \in P : r[j] = r[k] => j = k
  <2> SUFFICES ASSUME NEW j \in P, NEW k \in P, j # k PROVE r[j] # r[k]
    OBVIOUS
  <2>1. Rank(P, j) # Rank(P, k)
    BY RankInjective
  <2> QED BY <2>1
<1>4. r \in Injection(P, 1..c)
  BY <1>2, <1>3 DEF Injection, IsInjective
<1>5. IsFiniteSet(1..c) /\ Cardinality(1..c) = c
  BY <1>1, FS_Interval
<1>6. r \in Surjection(P, 1..c)
  <2> HIDE DEF r
  <2> QED BY <1>1, <1>4, <1>5, FS_Injection
<1>7. \A m \in 1..c : \E j \in P : r[j] = m
  BY <1>6 DEF Surjection
<1>8. \A m \in 1..c : \E j \in P : Rank(P, j) = m
  BY <1>7
<1> QED BY <1>8 DEF Nth

(* At picks the elements in the order of their positions, each once.       *)
LEMMA AtProperties ==
  ASSUME NEW S, NEW s \in Seq(S), NEW P \in SUBSET (1..Len(s))
  PROVE  /\ At(s, P) \in Seq(S)
         /\ Len(At(s, P)) = Cardinality(P) /\ Cardinality(P) \in Nat
         /\ DOMAIN At(s, P) = 1..Cardinality(P)
         /\ \A m \in 1..Cardinality(P) : Nth(P, m) \in P /\ At(s, P)[m] = s[Nth(P, m)]
         /\ \A j \in P : Rank(P, j) \in 1..Cardinality(P) /\ Nth(P, Rank(P, j)) = j
         /\ \A l, m \in 1..Cardinality(P) : l < m => Nth(P, l) < Nth(P, m)
<1> DEFINE c == Cardinality(P)
<1>1. Len(s) \in Nat
  OBVIOUS
<1>2. c \in Nat
  BY <1>1, RankMonotone
<1>3. \A m \in 1..c : Nth(P, m) \in P /\ Rank(P, Nth(P, m)) = m
  BY <1>1, RankOnto
<1>4. \A m \in 1..c : s[Nth(P, m)] \in S
  <2>1. \A j \in P : s[j] \in S
    OBVIOUS
  <2> HIDE DEF c
  <2> QED BY <1>3, <2>1
<1>5. At(s, P) \in [1..c -> S]
  BY <1>4 DEF At
<1>6. At(s, P) \in Seq(S) /\ Len(At(s, P)) = c /\ DOMAIN At(s, P) = 1..c
  BY <1>2, <1>5
<1>7. \A j, k \in P : Rank(P, j) = Rank(P, k) => j = k
  BY <1>1, RankInjective
<1>8. \A j \in P : Rank(P, j) \in 1..c /\ Nth(P, Rank(P, j)) = j
  <2> TAKE j \in P
  <2>1. Rank(P, j) \in 1..c
    BY <1>1, RankMonotone
  <2> QED BY <1>3, <1>7, <2>1
<1>9. \A l, m \in 1..c : l < m => Nth(P, l) < Nth(P, m)
  <2> SUFFICES ASSUME NEW l \in 1..c, NEW m \in 1..c, l < m, ~(Nth(P, l) < Nth(P, m))
               PROVE  FALSE
    OBVIOUS
  <2>1. Nth(P, l) \in P /\ Nth(P, m) \in P /\ Rank(P, Nth(P, l)) = l /\ Rank(P, Nth(P, m)) = m
    BY <1>3
  <2>2. \A h, i \in P : h < i => Rank(P, h) < Rank(P, i)
    BY <1>1, RankMonotone
  <2>3. \A j \in P : j \in Nat
    OBVIOUS
  <2>4. Nth(P, l) = Nth(P, m) \/ Nth(P, m) < Nth(P, l)
    <3>1. \A h, i \in Nat : ~(h < i) => h = i \/ i < h
      OBVIOUS
    <3> QED BY ONLY <2>1, <2>3, <3>1, ~(Nth(P, l) < Nth(P, m))
  <2>5. m = l \/ m < l
    BY <2>1, <2>2, <2>4
  <2> QED BY <2>5
<1> QED BY <1>2, <1>3, <1>6, <1>8, <1>9 DEF At

(* A position at the end is picked last.                                   *)
LEMMA AtAppend ==
  ASSUME NEW S, NEW s \in Seq(S), NEW e \in S, NEW P \in SUBSET (1..Len(s))
  PROVE  /\ At(Append(s, e), P) = At(s, P)
         /\ At(Append(s, e), P \cup {Len(s) + 1}) = Append(At(s, P), e)
<1> DEFINE n == Len(s)
           t == Append(s, e)
           Q == P \cup {n + 1}
           c == Cardinality(P)
<1>1. n \in Nat /\ n + 1 \in Nat
  OBVIOUS
<1>2. t \in Seq(S) /\ Len(t) = n + 1 /\ t[n + 1] = e /\ \A i \in 1..n : t[i] = s[i]
  OBVIOUS
<1>3. P \in SUBSET (1..Len(t)) /\ Q \in SUBSET (1..Len(t)) /\ n + 1 \notin P
  <2>1. 1..n \subseteq 1..n + 1 /\ n + 1 \in 1..n + 1 /\ n + 1 \notin 1..n
    BY <1>1
  <2> HIDE DEF n, t
  <2> QED BY <1>2, <2>1 DEF n
<1> HIDE DEF n, t
<1>a. /\ At(s, P) \in Seq(S)
      /\ Len(At(s, P)) = c /\ c \in Nat
      /\ \A m \in 1..c : Nth(P, m) \in P /\ At(s, P)[m] = s[Nth(P, m)]
      /\ \A j \in P : Rank(P, j) \in 1..c
  BY AtProperties
<1>b. /\ At(t, P) \in Seq(S)
      /\ Len(At(t, P)) = c
      /\ \A m \in 1..c : At(t, P)[m] = t[Nth(P, m)]
  BY <1>2, <1>3, AtProperties
<1>c. /\ At(t, Q) \in Seq(S)
      /\ Len(At(t, Q)) = Cardinality(Q)
      /\ \A m \in 1..Cardinality(Q) : At(t, Q)[m] = t[Nth(Q, m)]
      /\ \A j \in Q : Nth(Q, Rank(Q, j)) = j
  <2>1. t \in Seq(S) /\ Q \in SUBSET (1..Len(t))
    BY <1>2, <1>3
  <2> HIDE DEF Q
  <2>2. /\ At(t, Q) \in Seq(S)
        /\ Len(At(t, Q)) = Cardinality(Q)
        /\ \A m \in 1..Cardinality(Q) : At(t, Q)[m] = t[Nth(Q, m)]
    BY ONLY <2>1, AtProperties
  <2>3. \A j \in Q : Nth(Q, Rank(Q, j)) = j
    BY ONLY <2>1, AtProperties
  <2> QED BY ONLY <2>2, <2>3
<1>d. Cardinality(Q) = c + 1
  <2>1. IsFiniteSet(P)
    BY <1>1, <1>2, <1>3, RankMonotone
  <2> QED BY <1>3, <2>1, FS_AddElement
<1>4. At(t, P) = At(s, P)
  <2>1. \A m \in 1..c : At(t, P)[m] = At(s, P)[m]
    <3> TAKE m \in 1..c
    <3>1. Nth(P, m) \in 1..n
      BY <1>a DEF n
    <3> QED BY <1>a, <1>b, <1>2, <3>1
  <2> HIDE DEF c
  <2> QED BY <1>a, <1>b, <2>1, SameSeq
<1>5. \A m \in 1..c : Nth(Q, m) = Nth(P, m)
  <2> TAKE m \in 1..c
  <2> DEFINE j == Nth(P, m)
  <2>1. j \in P /\ j \in Q /\ j \in 1..n
    BY <1>a DEF n
  <2>2. Rank(P, j) = m
    BY <1>1, RankOnto DEF n
  <2>3. {l \in Q : l <= j} = {l \in P : l <= j}
    <3>1. ~(n + 1 <= j)
      BY <1>1, <2>1
    <3> HIDE DEF j
    <3> QED BY <3>1
  <2>4. Rank(Q, j) = m
    BY <2>2, <2>3 DEF Rank
  <2> HIDE DEF j, Q
  <2>5. Nth(Q, Rank(Q, j)) = j
    BY <1>c, <2>1
  <2> QED BY <2>4, <2>5 DEF j
<1>6. Nth(Q, c + 1) = n + 1
  <2>1. {l \in Q : l <= n + 1} = Q
    <3>1. \A l \in Q : l <= n + 1
      BY <1>1, <1>2, <1>3
    <3> HIDE DEF Q
    <3> QED BY <3>1
  <2>2. Rank(Q, n + 1) = c + 1
    BY <1>d, <2>1 DEF Rank
  <2>3. n + 1 \in Q
    OBVIOUS
  <2> HIDE DEF Q
  <2> QED BY <1>c, <2>2, <2>3
<1>7. At(t, Q) = Append(At(s, P), e)
  <2> DEFINE v == Append(At(s, P), e)
  <2> HIDE DEF Q, c
  <2>1. v \in Seq(S) /\ Len(v) = c + 1 /\ v[c + 1] = e /\ \A i \in 1..c : v[i] = At(s, P)[i]
    BY <1>a
  <2>2. \A m \in 1..c + 1 : At(t, Q)[m] = v[m]
    <3> TAKE m \in 1..c + 1
    <3>0. At(t, Q)[m] = t[Nth(Q, m)]
      BY <1>c, <1>d
    <3>1. CASE m = c + 1
      BY <3>0, <3>1, <1>6, <1>2, <2>1
    <3>2. CASE m \in 1..c
      <4>1. Nth(Q, m) = Nth(P, m) /\ Nth(P, m) \in 1..n
        BY <1>a, <1>5, <3>2 DEF n
      <4>2. t[Nth(Q, m)] = s[Nth(P, m)]
        BY <1>2, <4>1
      <4> QED BY <3>0, <3>2, <4>2, <1>a, <2>1
    <3>3. m = c + 1 \/ m \in 1..c
      BY <1>a
    <3> QED BY <3>1, <3>2, <3>3
  <2> HIDE DEF v
  <2>3. v = At(t, Q)
    BY <1>c, <1>d, <2>1, <2>2, SameSeq
  <2> QED BY <2>3 DEF v
<1> QED BY <1>4, <1>7 DEF n, t

-----------------------------------------------------------------------------
(* Functions defined by iteration: they exist, and what each step          *)
(* preserves holds of every element.                                       *)
Iterates(f, n, b, G) == f = [k \in 0..n |-> IF k = 0 THEN b ELSE G[k][f[k - 1]]]

LEMMA IterationExists ==
  ASSUME NEW n \in Nat, NEW b, NEW G
  PROVE  \E f : Iterates(f, n, b, G)
<1> DEFINE S == {m \in Nat : \E f : Iterates(f, m, b, G)}
<1>1. 0 \in S
  <2> DEFINE f == [k \in 0..0 |-> b]
  <2>1. \A k \in 0..0 : (IF k = 0 THEN b ELSE G[k][f[k - 1]]) = b
    OBVIOUS
  <2>2. Iterates(f, 0, b, G)
    BY <2>1 DEF Iterates
  <2> HIDE DEF f
  <2> QED BY <2>2
<1>2. ASSUME NEW m \in S PROVE m + 1 \in S
  <2>1. m \in Nat /\ m + 1 \in Nat
    OBVIOUS
  <2>2. PICK f : Iterates(f, m, b, G)
    OBVIOUS
  <2> DEFINE g == [k \in 0..m + 1 |-> IF k = m + 1 THEN G[m + 1][f[m]] ELSE f[k]]
  <2>3. \A k \in 0..m : f[k] = IF k = 0 THEN b ELSE G[k][f[k - 1]]
    BY <2>2 DEF Iterates
  <2>4. \A k \in 0..m : g[k] = f[k]
    BY <2>1
  <2>5. g[m + 1] = G[m + 1][f[m]]
    BY <2>1
  <2>6. \A k \in 0..m + 1 : g[k] = IF k = 0 THEN b ELSE G[k][g[k - 1]]
    <3> TAKE k \in 0..m + 1
    <3> HIDE DEF g
    <3>1. CASE k = 0
      <4>1. 0 \in 0..m
        BY <2>1
      <4> QED BY <2>3, <2>4, <3>1, <4>1
    <3>2. CASE k \in 1..m
      <4>1. k \in 0..m /\ k - 1 \in 0..m /\ k # 0
        BY <2>1, <3>2
      <4> QED BY <2>3, <2>4, <4>1
    <3>3. CASE k = m + 1
      <4>1. k - 1 = m /\ k # 0 /\ m \in 0..m
        BY <2>1, <3>3
      <4> QED BY <2>4, <2>5, <3>3, <4>1
    <3>4. k = 0 \/ k \in 1..m \/ k = m + 1
      BY <2>1
    <3> QED BY <3>1, <3>2, <3>3, <3>4
  <2>7. g = [k \in 0..m + 1 |-> g[k]]
    OBVIOUS
  <2>8. Iterates(g, m + 1, b, G)
    <3> HIDE DEF g
    <3> QED BY <2>6, <2>7 DEF Iterates
  <2> HIDE DEF g
  <2> QED BY <2>1, <2>8
<1>3. S = Nat
  <2> HIDE DEF S
  <2>1. S \in SUBSET Nat
    BY DEF S
  <2> QED BY <1>1, <1>2, <2>1, InductiveSet
<1> QED BY <1>3

LEMMA EachStage ==
  ASSUME NEW n \in Nat, NEW f, NEW T, f[0] \in T[0],
         \A k \in 1..n : f[k - 1] \in T[k - 1] => f[k] \in T[k]
  PROVE  \A k \in 0..n : f[k] \in T[k]
<1> DEFINE S == {m \in Nat : m <= n => f[m] \in T[m]}
<1>1. 0 \in S
  OBVIOUS
<1>2. ASSUME NEW m \in S PROVE m + 1 \in S
  <2> SUFFICES ASSUME m + 1 <= n PROVE f[m + 1] \in T[m + 1]
    OBVIOUS
  <2>1. m \in Nat /\ m <= n /\ m + 1 \in 1..n /\ (m + 1) - 1 = m
    OBVIOUS
  <2> QED BY <2>1
<1>3. S = Nat
  <2> HIDE DEF S
  <2>1. S \in SUBSET Nat
    BY DEF S
  <2> QED BY <1>1, <1>2, <2>1, InductiveSet
<1> QED BY <1>3

(* The elements of a finite set in some order.                             *)
LEMMA Enumeration ==
  ASSUME NEW S, IsFiniteSet(S)
  PROVE  /\ SetToSeq(S) \in Seq(S)
         /\ \A x \in S : \E k \in 1..Len(SetToSeq(S)) : SetToSeq(S)[k] = x
<1> DEFINE c == Cardinality(S)
           q == SetToSeq(S)
<1>1. c \in Nat /\ ExistsBijection(1..c, S)
  BY FS_CardinalityType
<1>2. \E f \in [1..c -> S] : IsInjective(f)
  BY <1>1 DEF ExistsBijection, Bijection, Injection
<1>3. q \in [1..c -> S] /\ IsInjective(q)
  BY <1>2 DEF SetToSeq
<1>4. q \in Injection(1..c, S)
  BY <1>3 DEF Injection
<1>5. IsFiniteSet(1..c) /\ Cardinality(1..c) = c
  BY <1>1, FS_Interval
<1>6. q \in Surjection(1..c, S)
  <2> HIDE DEF q
  <2> QED BY <1>4, <1>5, FS_Injection
<1>7. q \in Seq(S) /\ Len(q) = c
  <2> HIDE DEF q, c
  <2> QED BY <1>1, <1>3
<1>8. \A x \in S : \E k \in 1..c : q[k] = x
  <2> HIDE DEF q, c
  <2> QED BY <1>6 DEF Surjection
<1> QED BY <1>7, <1>8
=============================================================================
