--------------------------- MODULE SmallMapProofs ---------------------------
(***************************************************************************)
(* SmallMap keeps its index consistent and answers as an insertion-ordered *)
(* map does, for any set of keys, any hash function, collisions included,  *)
(* and any thresholds.                                                     *)
(***************************************************************************)
EXTENDS SmallMap, SeqFacts

(* The arrays a and b belong together: typed, as long as each other, each  *)
(* hash that of the key beside it, and no key twice.                       *)
Arrays(a, b) ==
    /\ a \in Seq(Keys \X Values)
    /\ b \in Seq(Hashes)
    /\ Len(b) = Len(a)
    /\ \A j \in 1..Len(a) : b[j] = Hash[a[j][1]]
    /\ \A i, j \in 1..Len(a) : a[i][1] = a[j][1] => i = j

(* ix is the index of the hashes b, or there is none and they are few.     *)
Indexed(ix, b) ==
    \/ /\ ix = None
       /\ Len(b) <= NoIndexThreshold
    \/ /\ ix \in Table
       /\ ix.buckets = IndexOf(b)
       /\ Len(b) <= ix.cap

(* The inductive invariant.                                                *)
IInv ==
    /\ Arrays(aaa, bbb)
    /\ Indexed(index, bbb)

-----------------------------------------------------------------------------
(* A function on 1..m is a sequence of length m.                           *)
LEMMA FunctionIsSeq ==
  ASSUME NEW S, NEW m \in Nat, NEW g \in [1..m -> S]
  PROVE  g \in Seq(S) /\ Len(g) = m
OBVIOUS

LEMMA FirstNumbers ==
  ASSUME NEW n \in Nat
  PROVE  IsFiniteSet(1..n) /\ Cardinality(1..n) = n
BY FS_Interval

(* f names m different positions among the first n, and c is what the      *)
(* sequence a has there.                                                   *)
Places(f, m, n) ==
    /\ m \in Nat
    /\ f \in [1..m -> 1..n]
    /\ \A i, j \in 1..m : f[i] = f[j] => i = j

Picked(c, a, f, m) == c = [j \in 1..m |-> a[f[j]]]

(* Arrays whose entries are picked from others at different places.        *)
LEMMA PickedArrays ==
  ASSUME NEW a, NEW b, Arrays(a, b), NEW f, NEW m, Places(f, m, Len(a)),
         NEW c, NEW d, Picked(c, a, f, m), Picked(d, b, f, m)
  PROVE  Arrays(c, d) /\ Len(c) = m /\ Len(d) = m
<1> USE DEF Places, Picked
<1>1. /\ a \in Seq(Keys \X Values) /\ b \in Seq(Hashes) /\ Len(b) = Len(a) /\ Len(a) \in Nat
      /\ \A j \in 1..Len(a) : b[j] = Hash[a[j][1]]
      /\ \A i, j \in 1..Len(a) : a[i][1] = a[j][1] => i = j
  BY DEF Arrays
<1>2. \A j \in 1..Len(a) : a[j] \in Keys \X Values /\ b[j] \in Hashes
  BY <1>1
<1>3. \A j \in 1..m : f[j] \in 1..Len(a)
  OBVIOUS
<1>4. c \in [1..m -> Keys \X Values] /\ d \in [1..m -> Hashes]
  BY <1>2, <1>3
<1>5. c \in Seq(Keys \X Values) /\ d \in Seq(Hashes) /\ Len(c) = m /\ Len(d) = m
  BY ONLY <1>4, m \in Nat, FunctionIsSeq
<1>6. \A j \in 1..m : d[j] = Hash[c[j][1]]
  BY <1>1, <1>3
<1>7. \A i, j \in 1..m : c[i][1] = c[j][1] => i = j
  BY <1>1, <1>3
<1> QED BY <1>5, <1>6, <1>7 DEF Arrays

(* A sequence without its p-th element.                                    *)
LEMMA RemoveAtForm ==
  ASSUME NEW S, NEW s \in Seq(S), NEW p \in 1..Len(s)
  PROVE  RemoveAt(s, p) = [j \in 1..Len(s) - 1 |-> s[IF j < p THEN j ELSE j + 1]]
<1> DEFINE n == Len(s)
           x == SubSeq(s, 1, p - 1)
           y == SubSeq(s, p + 1, n)
           z == [j \in 1..n - 1 |-> s[IF j < p THEN j ELSE j + 1]]
<1>1. n \in Nat /\ p \in Nat /\ 1 <= p /\ p <= n /\ n - 1 \in Nat
  OBVIOUS
<1>2. x \in Seq(S) /\ Len(x) = p - 1 /\ \A i \in 1..p - 1 : x[i] = s[i]
  OBVIOUS
<1>3. y \in Seq(S) /\ Len(y) = n - p /\ \A i \in 1..n - p : y[i] = s[p + i]
  OBVIOUS
<1>4. z \in Seq(S) /\ Len(z) = n - 1
  <2>1. \A j \in 1..n - 1 : s[IF j < p THEN j ELSE j + 1] \in S
    OBVIOUS
  <2> QED BY <1>1, <2>1
<1>5. \A j \in 1..n - 1 : z[j] = s[IF j < p THEN j ELSE j + 1]
  OBVIOUS
<1> HIDE DEF x, y, z, n
<1>6. x \o y \in Seq(S) /\ Len(x \o y) = n - 1
  <2>1. x \o y \in Seq(S) /\ Len(x \o y) = Len(x) + Len(y)
    BY <1>2, <1>3, ConcatProperties
  <2> QED BY <1>1, <1>2, <1>3, <2>1
<1>7. \A i \in 1..n - 1 : (x \o y)[i] = z[i]
  <2> SUFFICES ASSUME NEW i \in 1..n - 1 PROVE (x \o y)[i] = z[i]
    OBVIOUS
  <2>1. CASE i < p
    <3>1. (x \o y)[i] = x[i] /\ i \in 1..p - 1
      BY <1>1, <1>2, <1>3, <2>1, ConcatProperties
    <3> QED BY <1>2, <1>5, <2>1, <3>1
  <2>2. CASE ~(i < p)
    <3>0. p \in Nat /\ i \in p..n - 1 /\ i - (p - 1) \in 1..n - p /\ ~(i <= p - 1)
      BY ONLY <1>1, <2>2, p \in 1..n, i \in 1..n - 1
    <3>1. (x \o y)[i] = y[i - (p - 1)] /\ i - (p - 1) \in 1..n - p
      <4>1. \A k \in 1..Len(x) + Len(y) :
               (x \o y)[k] = IF k <= Len(x) THEN x[k] ELSE y[k - Len(x)]
        BY <1>2, <1>3, ConcatProperties
      <4>2. Len(x) = p - 1 /\ i \in 1..Len(x) + Len(y)
        BY ONLY <1>1, <1>2, <1>3, <3>0, i \in 1..n - 1
      <4> QED BY ONLY <3>0, <4>1, <4>2
    <3>2. y[i - (p - 1)] = s[p + (i - (p - 1))] /\ p + (i - (p - 1)) = i + 1
      BY <1>1, <1>3, <3>1
    <3> QED BY <1>5, <2>2, <3>1, <3>2
  <2> QED BY <2>1, <2>2
<1>8. x \o y = z
  BY <1>4, <1>6, <1>7, SameSeq
<1> QED BY <1>8 DEF x, y, z, n, RemoveAt

(* An entry is taken out of both arrays.                                   *)
LEMMA RemovedArrays ==
  ASSUME NEW a, NEW b, Arrays(a, b), NEW p \in 1..Len(a)
  PROVE  /\ Arrays(RemoveAt(a, p), RemoveAt(b, p))
         /\ Len(RemoveAt(b, p)) = Len(b) - 1
         /\ \A j \in 1..Len(b) - 1 : RemoveAt(b, p)[j] = b[IF j < p THEN j ELSE j + 1]
<1> DEFINE m == Len(a) - 1
           f == [j \in 1..m |-> IF j < p THEN j ELSE j + 1]
<1>1. a \in Seq(Keys \X Values) /\ b \in Seq(Hashes) /\ Len(b) = Len(a) /\ Len(a) \in Nat
  BY DEF Arrays
<1>2. Places(f, m, Len(a))
  BY <1>1 DEF Places
<1>3. \A j \in 1..m : f[j] = IF j < p THEN j ELSE j + 1
  OBVIOUS
<1>4. Picked(RemoveAt(a, p), a, f, m)
  BY <1>1, RemoveAtForm DEF Picked
<1>5. Picked(RemoveAt(b, p), b, f, m)
  BY <1>1, RemoveAtForm DEF Picked
<1>6. m = Len(b) - 1
  BY <1>1
<1> HIDE DEF m, f
<1>7. Arrays(RemoveAt(a, p), RemoveAt(b, p)) /\ Len(RemoveAt(b, p)) = m
  BY <1>2, <1>4, <1>5, PickedArrays
<1> QED BY <1>3, <1>5, <1>6, <1>7 DEF Picked

(* The last entry is taken out of both arrays.                             *)
LEMMA PoppedArrays ==
  ASSUME NEW a, NEW b, Arrays(a, b), a # <<>>
  PROVE  Arrays(Front(a), Front(b)) /\ b # <<>>
<1> DEFINE m == Len(a) - 1
           f == [j \in 1..m |-> j]
<1>1. /\ a \in Seq(Keys \X Values) /\ b \in Seq(Hashes) /\ Len(b) = Len(a) /\ Len(a) \in Nat
      /\ Len(a) # 0 /\ b # <<>>
  BY DEF Arrays
<1>2. Places(f, m, Len(a))
  BY <1>1 DEF Places
<1>3. Picked(Front(a), a, f, m)
  BY <1>1 DEF Front, Picked
<1>4. Picked(Front(b), b, f, m)
  BY <1>1 DEF Front, Picked
<1> HIDE DEF m, f
<1> QED BY <1>1, <1>2, <1>3, <1>4, PickedArrays

LEMMA ReversedArrays ==
  ASSUME NEW a, NEW b, Arrays(a, b)
  PROVE  Arrays(Reverse(a), Reverse(b)) /\ Len(Reverse(b)) = Len(b)
<1> DEFINE m == Len(a)
           f == [j \in 1..m |-> (m - j) + 1]
<1>1. a \in Seq(Keys \X Values) /\ b \in Seq(Hashes) /\ Len(b) = Len(a) /\ Len(a) \in Nat
  BY DEF Arrays
<1>2. Places(f, m, Len(a))
  BY <1>1 DEF Places
<1>3. Picked(Reverse(a), a, f, m)
  BY <1>1 DEF Reverse, Picked
<1>4. Picked(Reverse(b), b, f, m)
  BY <1>1 DEF Reverse, Picked
<1>5. m = Len(b)
  BY <1>1
<1> HIDE DEF m, f
<1> QED BY <1>2, <1>3, <1>4, <1>5, PickedArrays

(* Both arrays are cut down to the entries at the positions P.             *)
LEMMA KeptArrays ==
  ASSUME NEW a, NEW b, Arrays(a, b), NEW P \in SUBSET (1..Len(a))
  PROVE  /\ Arrays(At(a, P), At(b, P))
         /\ Len(At(a, P)) = Len(At(b, P))
         /\ Len(At(b, P)) <= Len(b)
         /\ Len(At(b, P)) = Len(b) => At(b, P) = b /\ At(a, P) = a
<1> DEFINE m == Cardinality(P)
           f == [j \in 1..m |-> Nth(P, j)]
<1>1. a \in Seq(Keys \X Values) /\ b \in Seq(Hashes) /\ Len(b) = Len(a) /\ Len(a) \in Nat
  BY DEF Arrays
<1>2. /\ m \in Nat
      /\ \A j \in 1..m : Nth(P, j) \in P
      /\ \A i, j \in 1..m : i < j => Nth(P, i) < Nth(P, j)
  BY <1>1, AtProperties
<1>3. \A j \in 1..m : Nth(P, j) \in 1..Len(a)
  BY <1>2
<1>4. f \in [1..m -> 1..Len(a)]
  BY <1>3
<1>5. \A i, j \in 1..m : f[i] = f[j] => i = j
  <2> SUFFICES ASSUME NEW i \in 1..m, NEW j \in 1..m, i # j PROVE f[i] # f[j]
    OBVIOUS
  <2>1. i < j \/ j < i
    OBVIOUS
  <2> QED BY <1>2, <1>3, <2>1
<1>6. Picked(At(a, P), a, f, m) /\ Picked(At(b, P), b, f, m)
  BY DEF At, Picked
<1>7. IsFiniteSet(1..Len(a)) /\ Cardinality(1..Len(a)) = Len(a)
  BY ONLY <1>1, FirstNumbers
<1>8. m <= Len(a) /\ (m = Len(a) => P = 1..Len(a))
  BY <1>1, <1>7, FS_Subset
<1>9. m = Len(a) => \A j \in 1..m : Nth(P, j) = j
  <2> SUFFICES ASSUME m = Len(a) PROVE \A j \in 1..m : Nth(P, j) = j
    OBVIOUS
  <2> DEFINE U(j) == {l \in P : l <= j}
  <2>1. \A j \in 1..m : U(j) = 1..j
    BY <1>1, <1>8
  <2>2. \A j \in 1..m : Rank(P, j) = j
    <3> TAKE j \in 1..m
    <3>1. Cardinality(1..j) = j
      BY FS_Interval
    <3> QED BY <2>1, <3>1 DEF Rank
  <2>3. \A j \in P : Nth(P, Rank(P, j)) = j
    BY <1>1, AtProperties
  <2> QED BY <1>8, <2>2, <2>3
<1> HIDE DEF m
<1>10. Arrays(At(a, P), At(b, P)) /\ Len(At(a, P)) = m /\ Len(At(b, P)) = m
  <2> HIDE DEF f
  <2>1. Places(f, m, Len(a))
    BY <1>2, <1>4, <1>5 DEF Places
  <2> QED BY <1>6, <2>1, PickedArrays
<1>11. m = Len(a) => At(b, P) = b /\ At(a, P) = a
  <2> SUFFICES ASSUME m = Len(a) PROVE At(b, P) = b /\ At(a, P) = a
    OBVIOUS
  <2>1. \A j \in 1..m : f[j] = j
    BY <1>9
  <2> HIDE DEF f
  <2>2. [j \in 1..m |-> a[f[j]]] = a /\ [j \in 1..m |-> b[f[j]]] = b
    BY <1>1, <2>1
  <2> QED BY <1>6, <2>2 DEF Picked
<1> QED BY <1>1, <1>8, <1>10, <1>11

-----------------------------------------------------------------------------
(* The index of a sequence of hashes has one bucket for each position.     *)
LEMMA IndexOfProperties ==
  ASSUME NEW b \in Seq(Hashes)
  PROVE  /\ IndexOf(b) \in SUBSET [hash : Hashes, i : Nat]
         /\ \A x \in IndexOf(b) : /\ x.i \in 0..Len(b) - 1
                                  /\ x.hash = b[x.i + 1]
                                  /\ x = Bucket(x.hash, x.i)
         /\ \A j \in 0..Len(b) - 1 : Bucket(b[j + 1], j) \in IndexOf(b)
         /\ \A h, j : Bucket(h, j).hash = h /\ Bucket(h, j).i = j
<1>1. \A j \in 0..Len(b) - 1 : j + 1 \in 1..Len(b) /\ j \in Nat
  OBVIOUS
<1>2. \A j \in 0..Len(b) - 1 : b[j + 1] \in Hashes
  BY <1>1
<1> QED BY <1>1, <1>2 DEF IndexOf, Bucket

(* Two sets of buckets over the same positions with the same hash at each  *)
(* are the same.                                                           *)
LEMMA IndexIs ==
  ASSUME NEW b \in Seq(Hashes), NEW X,
         \A x \in X : \E j \in 0..Len(b) - 1 : x = Bucket(b[j + 1], j),
         \A j \in 0..Len(b) - 1 : Bucket(b[j + 1], j) \in X
  PROVE  X = IndexOf(b)
BY DEF IndexOf

LEMMA IndexSize ==
  ASSUME NEW b \in Seq(Hashes)
  PROVE  IsFiniteSet(IndexOf(b)) /\ Cardinality(IndexOf(b)) = Len(b)
<1> DEFINE n == Len(b)
           f == [j \in 1..n |-> Bucket(b[j], j - 1)]
<1>1. n \in Nat
  OBVIOUS
<1>2. IsFiniteSet(1..n) /\ Cardinality(1..n) = n
  BY ONLY <1>1, FirstNumbers
<1>3. \A j \in 1..n : j - 1 \in 0..n - 1 /\ (j - 1) + 1 = j
  BY <1>1
<1>4. f \in [1..n -> IndexOf(b)]
  <2> SUFFICES ASSUME NEW j \in 1..n PROVE Bucket(b[j], j - 1) \in IndexOf(b)
    OBVIOUS
  <2>1. Bucket(b[(j - 1) + 1], j - 1) \in IndexOf(b)
    BY <1>3, IndexOfProperties
  <2> QED BY <1>3, <2>1
<1>5. \A i, j \in 1..n : f[i] = f[j] => i = j
  <2> SUFFICES ASSUME NEW i \in 1..n, NEW j \in 1..n, f[i] = f[j] PROVE i = j
    OBVIOUS
  <2>1. f[i].i = i - 1 /\ f[j].i = j - 1
    BY DEF Bucket
  <2> QED BY <2>1
<1>6. \A x \in IndexOf(b) : \E j \in 1..n : f[j] = x
  <2> TAKE x \in IndexOf(b)
  <2>1. PICK j \in 0..n - 1 : x = Bucket(b[j + 1], j)
    BY DEF IndexOf
  <2>2. j + 1 \in 1..n /\ (j + 1) - 1 = j
    BY <1>1
  <2> QED BY <2>1, <2>2
<1> HIDE DEF f, n
<1>7. f \in Bijection(1..n, IndexOf(b))
  BY <1>4, <1>5, <1>6 DEF Bijection, Injection, Surjection, IsInjective
<1>8. ExistsBijection(1..n, IndexOf(b))
  BY <1>7 DEF ExistsBijection
<1> QED BY <1>2, <1>8, FS_Bijection DEF n

(* One more hash.                                                          *)
LEMMA IndexAppend ==
  ASSUME NEW b \in Seq(Hashes), NEW h \in Hashes
  PROVE  IndexOf(b) \cup {Bucket(h, Len(b))} = IndexOf(Append(b, h))
<1> DEFINE c == Append(b, h)
           X == IndexOf(b) \cup {Bucket(h, Len(b))}
<1>1. /\ c \in Seq(Hashes) /\ Len(c) = Len(b) + 1 /\ Len(b) \in Nat
      /\ \A j \in 1..Len(b) : c[j] = b[j]
      /\ c[Len(b) + 1] = h
  OBVIOUS
<1>2. \A j \in 0..Len(c) - 1 : j = Len(b) \/ j \in 0..Len(b) - 1
  BY <1>1
<1>3. \A j \in 0..Len(b) - 1 : j \in 0..Len(c) - 1 /\ j + 1 \in 1..Len(b)
  BY <1>1
<1>4. Len(b) \in 0..Len(c) - 1
  BY <1>1
<1> HIDE DEF c
<1>5. \A x \in X : \E j \in 0..Len(c) - 1 : x = Bucket(c[j + 1], j)
  BY <1>1, <1>3, <1>4 DEF IndexOf
<1>6. \A j \in 0..Len(c) - 1 : Bucket(c[j + 1], j) \in X
  BY <1>1, <1>2, <1>3 DEF IndexOf
<1> HIDE DEF X
<1>7. X = IndexOf(c)
  BY <1>1, <1>5, <1>6, IndexIs
<1> QED BY <1>7 DEF X, c

(* The last hash goes.                                                     *)
LEMMA IndexPop ==
  ASSUME NEW b \in Seq(Hashes), b # <<>>
  PROVE  IndexOf(b) \ {Bucket(Last(b), Len(b) - 1)} = IndexOf(Front(b))
<1> DEFINE c == Front(b)
           X == IndexOf(b) \ {Bucket(Last(b), Len(b) - 1)}
<1>1. /\ c \in Seq(Hashes) /\ Len(c) = Len(b) - 1 /\ Len(b) \in Nat /\ Len(b) # 0
      /\ \A j \in 1..Len(b) - 1 : c[j] = b[j]
      /\ Last(b) = b[Len(b)]
  BY FrontLast
<1>2. \A j \in 0..Len(b) - 1 : j = Len(b) - 1 \/ j \in 0..Len(c) - 1
  BY <1>1
<1>3. \A j \in 0..Len(c) - 1 : j \in 0..Len(b) - 1 /\ j + 1 \in 1..Len(b) - 1 /\ j # Len(b) - 1
  BY <1>1
<1>4. (Len(b) - 1) + 1 = Len(b)
  BY <1>1
<1> HIDE DEF c
<1>5. \A x \in X : \E j \in 0..Len(c) - 1 : x = Bucket(c[j + 1], j)
  <2> TAKE x \in X
  <2>1. PICK j \in 0..Len(b) - 1 : x = Bucket(b[j + 1], j)
    BY DEF IndexOf
  <2>2. j # Len(b) - 1
    BY <1>1, <1>4, <2>1
  <2> QED BY <1>1, <1>2, <1>3, <2>1, <2>2
<1>6. \A j \in 0..Len(c) - 1 : Bucket(c[j + 1], j) \in X
  <2> TAKE j \in 0..Len(c) - 1
  <2>1. Bucket(c[j + 1], j) \in IndexOf(b)
    BY <1>1, <1>3 DEF IndexOf
  <2>2. Bucket(c[j + 1], j) # Bucket(Last(b), Len(b) - 1)
    BY <1>3 DEF Bucket
  <2> QED BY <2>1, <2>2
<1> HIDE DEF X
<1>7. X = IndexOf(c)
  BY <1>1, <1>5, <1>6, IndexIs
<1> QED BY <1>7 DEF X, c

(* Every position turns round.                                             *)
LEMMA IndexReverse ==
  ASSUME NEW b \in Seq(Hashes)
  PROVE  {Bucket(x.hash, Len(b) - 1 - x.i) : x \in IndexOf(b)} = IndexOf(Reverse(b))
<1> DEFINE c == Reverse(b)
           n == Len(b)
           X == {Bucket(x.hash, Len(b) - 1 - x.i) : x \in IndexOf(b)}
<1>1. n \in Nat
  OBVIOUS
<1>2. c \in Seq(Hashes) /\ Len(c) = n /\ \A j \in 1..n : c[j] = b[(n - j) + 1]
  <2>1. \A j \in 1..n : (n - j) + 1 \in 1..n
    BY <1>1
  <2>2. \A j \in 1..n : b[(n - j) + 1] \in Hashes
    BY <2>1
  <2>3. c \in [1..n -> Hashes]
    BY <2>2 DEF Reverse
  <2>4. \A j \in 1..n : c[j] = b[(n - j) + 1]
    BY DEF Reverse
  <2> HIDE DEF c, n
  <2> QED BY <1>1, <2>3, <2>4, FunctionIsSeq
<1>3. \A j \in 0..n - 1 : n - 1 - j \in 0..n - 1 /\ n - 1 - (n - 1 - j) = j
                          /\ j + 1 \in 1..n /\ (n - (j + 1)) + 1 = (n - 1 - j) + 1
  BY <1>1
<1> HIDE DEF c
<1>4. \A j \in 0..n - 1 : c[(n - 1 - j) + 1] = b[j + 1] /\ c[j + 1] = b[(n - 1 - j) + 1]
  BY <1>2, <1>3
<1>5. \A x \in X : \E j \in 0..Len(c) - 1 : x = Bucket(c[j + 1], j)
  <2> TAKE x \in X
  <2>1. PICK y \in IndexOf(b) : x = Bucket(y.hash, n - 1 - y.i)
    OBVIOUS
  <2>2. y.i \in 0..n - 1 /\ y.hash = b[y.i + 1]
    BY IndexOfProperties
  <2> QED BY <1>2, <1>3, <1>4, <2>1, <2>2
<1>6. \A j \in 0..Len(c) - 1 : Bucket(c[j + 1], j) \in X
  <2> TAKE j \in 0..Len(c) - 1
  <2> DEFINE k == n - 1 - j
             y == Bucket(b[k + 1], k)
  <2>a. k \in 0..n - 1
    BY <1>2, <1>3
  <2>1. y \in IndexOf(b) /\ y.hash = b[k + 1] /\ y.i = k
    <3> HIDE DEF k
    <3> QED BY <2>a, IndexOfProperties
  <2> HIDE DEF y
  <2>2. Bucket(y.hash, n - 1 - y.i) \in X
    BY <2>1
  <2> QED BY <1>2, <1>3, <1>4, <2>1, <2>2
<1> HIDE DEF X
<1>7. X = IndexOf(c)
  BY <1>2, <1>5, <1>6, IndexIs
<1> QED BY <1>7 DEF X, c

(* One position goes and the later ones move down.                         *)
LEMMA IndexRemove ==
  ASSUME NEW b \in Seq(Hashes), NEW p \in 0..Len(b) - 1,
         NEW c \in Seq(Hashes), Len(c) = Len(b) - 1,
         \A j \in 1..Len(b) - 1 : c[j] = b[IF j < p + 1 THEN j ELSE j + 1]
  PROVE  ShiftedDown({x \in IndexOf(b) : x.i # p}, p) = IndexOf(c)
<1> DEFINE n == Len(b)
           Y == {x \in IndexOf(b) : x.i # p}
           X == ShiftedDown(Y, p)
           g(i) == IF i > p THEN i - 1 ELSE i
<1>1. n \in Nat /\ p \in Nat /\ p < n
  OBVIOUS
<1>2. \A y \in Y : y.i \in 0..n - 1 /\ y.i # p /\ y.hash = b[y.i + 1]
  BY IndexOfProperties
<1>3. \A i \in 0..n - 1 : i # p => /\ g(i) \in 0..(n - 1) - 1
                                   /\ g(i) + 1 \in 1..n - 1
                                   /\ (IF g(i) + 1 < p + 1 THEN g(i) + 1 ELSE (g(i) + 1) + 1) = i + 1
  BY <1>1
<1>4. \A i \in 0..n - 1 : i # p => c[g(i) + 1] = b[i + 1]
  BY <1>3
<1>5. \A x \in X : \E j \in 0..Len(c) - 1 : x = Bucket(c[j + 1], j)
  <2> TAKE x \in X
  <2>1. PICK y \in Y : x = Bucket(y.hash, g(y.i))
    BY DEF ShiftedDown
  <2> HIDE DEF g, Y
  <2> QED BY <1>2, <1>3, <1>4, <2>1
<1>6. \A j \in 0..Len(c) - 1 : Bucket(c[j + 1], j) \in X
  <2> TAKE j \in 0..Len(c) - 1
  <2> DEFINE k == IF j < p THEN j ELSE j + 1
             y == Bucket(b[k + 1], k)
  <2>1. k \in 0..n - 1 /\ k # p /\ g(k) = j
    BY <1>1
  <2>2. y \in IndexOf(b) /\ y.i = k /\ y.hash = b[k + 1]
    <3> HIDE DEF k
    <3> QED BY <2>1, IndexOfProperties
  <2> HIDE DEF k, y
  <2>3. y \in Y
    BY <2>1, <2>2
  <2>4. Bucket(y.hash, g(y.i)) \in X
    BY <2>3 DEF ShiftedDown
  <2> HIDE DEF g, X
  <2> QED BY <1>4, <2>1, <2>2, <2>4
<1> HIDE DEF X
<1>7. X = IndexOf(c)
  BY <1>5, <1>6, IndexIs
<1> QED BY <1>7 DEF X

-----------------------------------------------------------------------------
(* What a search returns: nothing, when no entry has the key, or the place *)
(* of the entry that has.                                                  *)
Located(i, k) ==
    \/ /\ i = None
       /\ \A j \in 1..Len(aaa) : aaa[j][1] # k
    \/ /\ i \in 0..Len(aaa) - 1
       /\ i # None
       /\ aaa[i + 1][1] = k

LEMMA Facts ==
  ASSUME IInv
  PROVE  /\ aaa \in Seq(Keys \X Values) /\ bbb \in Seq(Hashes)
         /\ Len(bbb) = Len(aaa) /\ Len(aaa) \in Nat
         /\ DOMAIN aaa = 1..Len(aaa) /\ DOMAIN bbb = 1..Len(aaa)
         /\ \A j \in 1..Len(aaa) : aaa[j] \in Keys \X Values
         /\ \A j \in 1..Len(aaa) : bbb[j] = Hash[aaa[j][1]]
         /\ \A i, j \in 1..Len(aaa) : aaa[i][1] = aaa[j][1] => i = j
         /\ HasIndex => /\ index \in Table
                        /\ index.buckets = IndexOf(bbb)
                        /\ Len(aaa) <= index.cap
                        /\ index.cap \in Nat
         /\ ~HasIndex => index = None /\ Len(aaa) <= NoIndexThreshold
BY SmallMapAssumption DEF IInv, Arrays, Indexed, HasIndex, Table

LEMMA LinearSearchFinds ==
  ASSUME IInv, NEW k \in Keys
  PROVE  Located(LinearSearch(k), k)
<1> DEFINE hits == {j \in DOMAIN bbb : bbb[j] = Hash[k] /\ aaa[j][1] = k}
           least == CHOOSE j \in hits : \A l \in hits : j <= l
<1>1. hits = {j \in 1..Len(aaa) : aaa[j][1] = k}
  BY Facts
<1>2. LinearSearch(k) = IF hits = {} THEN None ELSE least - 1
  BY DEF LinearSearch
<1>3. CASE hits = {}
  BY <1>1, <1>2, <1>3 DEF Located
<1>4. CASE hits # {}
  <2>1. hits \in SUBSET Nat /\ hits \subseteq 1..Len(aaa)
    BY <1>1, Facts
  <2>2. \E j \in hits : \A l \in hits : j <= l
    <3> HIDE DEF hits
    <3> QED BY <1>4, <2>1, LeastNatural
  <2>3. least \in hits
    BY <2>2
  <2> HIDE DEF least
  <2>4. least \in 1..Len(aaa) /\ aaa[least][1] = k
    BY <1>1, <2>3
  <2>5. least - 1 \in 0..Len(aaa) - 1 /\ (least - 1) + 1 = least /\ least - 1 \in Nat
    BY <2>4, Facts
  <2>6. LinearSearch(k) = least - 1
    BY <1>2, <1>4
  <2>7. least - 1 # None
    BY <2>5, SmallMapAssumption
  <2> HIDE DEF hits
  <2> QED BY <2>4, <2>5, <2>6, <2>7 DEF Located
<1> QED BY <1>3, <1>4

(* The buckets a lookup may stop at are the one of the entry with the key. *)
LEMMA HitIsEntry ==
  ASSUME IInv, HasIndex, NEW k \in Keys
  PROVE  /\ \A x \in IndexHits(k) : /\ x \in IndexOf(bbb)
                                    /\ x.i \in 0..Len(aaa) - 1
                                    /\ x.i \in Nat
                                    /\ aaa[x.i + 1][1] = k
         /\ \A j \in 1..Len(aaa) : aaa[j][1] = k => IndexHits(k) # {}
<1>1. index.buckets = IndexOf(bbb) /\ bbb \in Seq(Hashes) /\ Len(bbb) = Len(aaa) /\ Len(aaa) \in Nat
  BY Facts
<1>2. \A x \in IndexOf(bbb) : x.i \in 0..Len(bbb) - 1
  BY <1>1, IndexOfProperties
<1>3. \A j \in 0..Len(bbb) - 1 : j \in Nat /\ j < Len(aaa)
  BY <1>1
<1>4. \A x \in IndexHits(k) : /\ x \in IndexOf(bbb)
                              /\ x.i \in 0..Len(aaa) - 1
                              /\ x.i \in Nat
                              /\ aaa[x.i + 1][1] = k
  BY <1>1, <1>2, <1>3 DEF IndexHits
<1>5. \A j \in 1..Len(aaa) : aaa[j][1] = k => IndexHits(k) # {}
  <2> SUFFICES ASSUME NEW j \in 1..Len(aaa), aaa[j][1] = k PROVE IndexHits(k) # {}
    OBVIOUS
  <2> DEFINE l == j - 1
             x == Bucket(bbb[l + 1], l)
  <2>1. l \in 0..Len(bbb) - 1 /\ l + 1 = j
    BY <1>1
  <2>2. x \in IndexOf(bbb) /\ x.hash = bbb[l + 1] /\ x.i = l
    <3> HIDE DEF l
    <3> QED BY <1>1, <2>1, IndexOfProperties
  <2> HIDE DEF l, x
  <2>3. bbb[l + 1] = Hash[k]
    BY <2>1, Facts
  <2>4. x \in IndexHits(k)
    BY <1>1, <2>1, <2>2, <2>3 DEF IndexHits
  <2> QED BY <2>4
<1> QED BY <1>4, <1>5

LEMMA SearchFinds ==
  ASSUME IInv, NEW k \in Keys
  PROVE  Located(GetIndexOfHashedRaw(k), k)
<1>1. CASE ~HasIndex
  BY <1>1, LinearSearchFinds DEF GetIndexOfHashedRaw
<1>2. CASE HasIndex
  <2>1. GetIndexOfHashedRaw(k) = IF IndexHits(k) = {} THEN None
                                 ELSE (CHOOSE b \in IndexHits(k) : TRUE).i
    BY <1>2 DEF GetIndexOfHashedRaw, IndexSearch
  <2>2. CASE IndexHits(k) = {}
    BY <1>2, <2>1, <2>2, HitIsEntry DEF Located
  <2>3. CASE IndexHits(k) # {}
    <3> DEFINE x == CHOOSE b \in IndexHits(k) : TRUE
    <3>1. x \in IndexHits(k)
      BY <2>3
    <3> HIDE DEF x
    <3>2. x.i \in 0..Len(aaa) - 1 /\ x.i \in Nat /\ aaa[x.i + 1][1] = k
      BY <1>2, <3>1, HitIsEntry
    <3>3. x.i # None
      BY <3>2, SmallMapAssumption
    <3>4. GetIndexOfHashedRaw(k) = x.i
      BY <2>1, <2>3 DEF x
    <3> QED BY <3>2, <3>3, <3>4 DEF Located
  <2> QED BY <2>2, <2>3
<1> QED BY <1>1, <1>2

-----------------------------------------------------------------------------
(* Each operation keeps the invariant.                                     *)
LEMMA BuiltIndex ==
  ASSUME NEW b \in Seq(Hashes), NEW n \in Nat, Len(b) <= n
  PROVE  /\ Indexed([buckets |-> IndexOf(b), cap |-> n], b)
         /\ [buckets |-> IndexOf(b), cap |-> n] # None
<1>1. IndexOf(b) \in SUBSET [hash : Hashes, i : Nat]
  BY IndexOfProperties
<1> QED BY <1>1, SmallMapAssumption DEF Indexed, Table

LEMMA Reindexed ==
  ASSUME IInv, HasIndex, NEW b \in Seq(Hashes), Len(b) <= Len(bbb)
  PROVE  Indexed([index EXCEPT !.buckets = IndexOf(b)], b)
<1>1. index \in Table /\ Len(bbb) <= index.cap /\ index.cap \in Nat /\ Len(bbb) \in Nat
  BY Facts
<1>2. [index EXCEPT !.buckets = IndexOf(b)] = [buckets |-> IndexOf(b), cap |-> index.cap]
  BY <1>1 DEF Table
<1>3. Len(b) <= index.cap
  BY <1>1
<1> QED BY <1>1, <1>2, <1>3, BuiltIndex

LEMMA RebuiltIndex ==
  ASSUME IInv, NEW b \in Seq(Hashes), Len(b) <= Len(bbb)
  PROVE  Indexed(RebuildIndex(b), b)
<1>1. CASE HasIndex
  BY <1>1, Reindexed DEF RebuildIndex
<1>2. CASE ~HasIndex
  <2>1. Len(bbb) <= NoIndexThreshold /\ Len(bbb) \in Nat /\ NoIndexThreshold \in Nat
    BY <1>2, Facts, SmallMapAssumption
  <2> QED BY <1>2, <2>1 DEF RebuildIndex, Indexed
<1> QED BY <1>1, <1>2

LEMMA NoEntries == Arrays(<<>>, <<>>) /\ IndexOf(<<>>) = {}
<1>1. \A j \in 1..0 : FALSE
  OBVIOUS
<1>2. 0..0 - 1 = {}
  OBVIOUS
<1> QED BY <1>1, <1>2 DEF Arrays, IndexOf

LEMMA InitIInv == Init => IInv
<1> SUFFICES ASSUME Init PROVE IInv
  OBVIOUS
<1>1. Len(<<>>) <= NoIndexThreshold
  BY SmallMapAssumption
<1> QED BY <1>1, NoEntries DEF Init, IInv, Indexed

LEMMA WithCapacityIInv ==
  ASSUME NEW n \in Nat, WithCapacity(n)
  PROVE  IInv'
<1>1. Len(<<>>) <= NoIndexThreshold /\ Len(<<>>) <= n /\ <<>> \in Seq(Hashes)
  BY SmallMapAssumption
<1>2. Indexed([buckets |-> {}, cap |-> n], <<>>)
  BY <1>1, BuiltIndex, NoEntries
<1>3. Indexed(index', <<>>)
  BY <1>1, <1>2 DEF WithCapacity, Indexed
<1> QED BY <1>3, NoEntries DEF WithCapacity, IInv, Indexed, Arrays, IndexOf

LEMMA ReserveIInv ==
  ASSUME IInv, NEW n \in Nat, Reserve(n)
  PROVE  IInv'
<1> DEFINE wanted == Len(aaa) + n
<1>1. /\ Len(aaa) \in Nat /\ wanted \in Nat /\ Len(bbb) = Len(aaa) /\ Len(bbb) <= wanted
      /\ bbb \in Seq(Hashes)
  BY Facts
<1>2. aaa' = aaa /\ bbb' = bbb
  BY DEF Reserve
<1>3. Indexed(index', bbb)
  <2>1. CASE HasIndex
    <3> DEFINE c == IF index.cap < wanted THEN wanted ELSE index.cap
    <3>1. index \in Table /\ index.buckets = IndexOf(bbb) /\ Len(aaa) <= index.cap /\ index.cap \in Nat
      BY <2>1, Facts
    <3>2. index' = [index EXCEPT !.cap = c]
      BY <2>1 DEF Reserve
    <3>3. c \in Nat /\ Len(bbb) <= c
      BY <1>1, <3>1
    <3> HIDE DEF c
    <3>4. index' = [buckets |-> IndexOf(bbb), cap |-> c]
      BY <3>1, <3>2 DEF Table
    <3> QED BY <1>1, <3>3, <3>4, BuiltIndex
  <2>2. CASE ~HasIndex
    <3>1. index' = IF wanted > NoIndexThreshold THEN [buckets |-> IndexOf(bbb), cap |-> wanted] ELSE None
      BY <2>2 DEF Reserve, CreateIndex
    <3>2. Len(bbb) <= NoIndexThreshold
      BY <1>1, <2>2, Facts
    <3>3. Indexed([buckets |-> IndexOf(bbb), cap |-> wanted], bbb)
      BY <1>1, BuiltIndex
    <3> QED BY <3>1, <3>2, <3>3 DEF Indexed
  <2> QED BY <2>1, <2>2
<1> QED BY <1>2, <1>3 DEF IInv, Arrays, Indexed, IndexOf

LEMMA MaybeDropIndexIInv ==
  ASSUME IInv, MaybeDropIndex
  PROVE  IInv'
<1>1. Len(bbb) = Len(aaa)
  BY Facts
<1>2. aaa' = aaa /\ bbb' = bbb /\ index' = IF Len(aaa) <= NoIndexThreshold THEN None ELSE index
  BY DEF MaybeDropIndex
<1>3. Indexed(index', bbb)
  BY <1>1, <1>2 DEF IInv, Indexed
<1> QED BY <1>2, <1>3 DEF IInv, Arrays, Indexed, IndexOf

LEMMA UniqueInsertIInv ==
  ASSUME IInv, NEW k \in Keys, NEW v \in Values, InsertHashedUniqueUnchecked(k, v),
         \A j \in 1..Len(aaa) : aaa[j][1] # k
  PROVE  IInv'
<1> DEFINE h == Hash[k]
           e == <<k, v>>
           n == Len(aaa)
<1>1. h \in Hashes /\ e \in Keys \X Values
  BY DEF Hashes
<1>2. /\ aaa \in Seq(Keys \X Values) /\ bbb \in Seq(Hashes) /\ Len(bbb) = n /\ n \in Nat
      /\ \A j \in 1..n : bbb[j] = Hash[aaa[j][1]]
      /\ \A i, j \in 1..n : aaa[i][1] = aaa[j][1] => i = j
  BY Facts
<1>3. aaa' = Append(aaa, e) /\ bbb' = Append(bbb, h)
  BY DEF InsertHashedUniqueUnchecked
<1>4. e[1] = k
  OBVIOUS
<1> HIDE DEF h, e, n
<1>5. /\ aaa' \in Seq(Keys \X Values) /\ bbb' \in Seq(Hashes)
      /\ Len(aaa') = n + 1 /\ Len(bbb') = n + 1
      /\ \A j \in 1..n : aaa'[j] = aaa[j] /\ bbb'[j] = bbb[j]
      /\ aaa'[n + 1] = e /\ bbb'[n + 1] = h
  BY <1>1, <1>2, <1>3 DEF n
<1>6. \A j \in 1..n + 1 : j = n + 1 \/ j \in 1..n
  BY <1>2
<1>7. Arrays(aaa', bbb')
  <2>1. \A j \in 1..n + 1 : bbb'[j] = Hash[aaa'[j][1]]
    BY <1>2, <1>4, <1>5, <1>6 DEF h
  <2>2. \A i, j \in 1..n + 1 : aaa'[i][1] = aaa'[j][1] => i = j
    BY <1>2, <1>4, <1>5, <1>6 DEF n
  <2> QED BY <1>5, <2>1, <2>2 DEF Arrays
<1>8. Indexed(index', bbb')
  <2>1. CASE HasIndex
    <3> DEFINE buckets == index.buckets \cup {Bucket(h, n)}
               c == IF index.cap < Cardinality(buckets) THEN Cardinality(buckets) ELSE index.cap
    <3>1. index' = [buckets |-> buckets, cap |-> c]
      BY <2>1 DEF InsertHashedUniqueUnchecked, WithBucket, h, n
    <3>2. index.cap \in Nat /\ index.buckets = IndexOf(bbb)
      BY <2>1, Facts
    <3>3. buckets = IndexOf(bbb')
      BY <1>1, <1>2, <1>3, <3>2, IndexAppend
    <3>4. Cardinality(IndexOf(bbb')) = n + 1
      BY <1>5, IndexSize
    <3> HIDE DEF buckets
    <3>5. c \in Nat /\ n + 1 <= c
      BY <1>2, <3>2, <3>3, <3>4
    <3> HIDE DEF c
    <3> QED BY <1>5, <3>1, <3>3, <3>5, BuiltIndex
  <2>2. CASE ~HasIndex
    <3>1. index' = IF n + 1 = NoIndexThreshold + 1
                     THEN [buckets |-> IndexOf(bbb'), cap |-> n + 1] ELSE None
      BY <1>5, <2>2 DEF InsertHashedUniqueUnchecked, CreateIndex, n
    <3>2. n <= NoIndexThreshold /\ NoIndexThreshold \in Nat
      BY <2>2, Facts, SmallMapAssumption DEF n
    <3>3. Indexed([buckets |-> IndexOf(bbb'), cap |-> n + 1], bbb')
      BY <1>2, <1>5, BuiltIndex
    <3>4. n + 1 # NoIndexThreshold + 1 => Len(bbb') <= NoIndexThreshold
      BY <1>2, <1>5, <3>2
    <3> QED BY <3>1, <3>3, <3>4 DEF Indexed
  <2> QED BY <2>1, <2>2
<1> QED BY <1>7, <1>8 DEF IInv, Arrays, Indexed, IndexOf

(* A value is replaced in place.                                           *)
LEMMA ReplacedArrays ==
  ASSUME NEW a, NEW b, Arrays(a, b), NEW p \in 1..Len(a), NEW v \in Values,
         NEW c, c = [a EXCEPT ![p][2] = v]
  PROVE  /\ Arrays(c, b)
         /\ c = [a EXCEPT ![p] = <<a[p][1], v>>]
<1> DEFINE e == [a[p] EXCEPT ![2] = v]
<1>1. a \in Seq(Keys \X Values) /\ Len(a) \in Nat
  BY DEF Arrays
<1>2. \A j \in 1..Len(a) : a[j] \in Keys \X Values
  BY <1>1
<1>3. e \in Keys \X Values /\ e[1] = a[p][1] /\ e = <<a[p][1], v>>
  BY <1>2
<1>4. c = [a EXCEPT ![p] = e]
  OBVIOUS
<1> HIDE DEF e
<1>5. c \in Seq(Keys \X Values) /\ Len(c) = Len(a)
  BY <1>1, <1>3, <1>4, ExceptSeq
<1>6. \A j \in 1..Len(a) : c[j][1] = a[j][1]
  BY <1>1, <1>3, <1>4
<1>7. Arrays(c, b)
  BY <1>5, <1>6 DEF Arrays
<1> QED BY <1>3, <1>4, <1>7

LEMMA InsertIInv ==
  ASSUME IInv, NEW k \in Keys, NEW v \in Values, InsertHashed(k, v)
  PROVE  IInv'
<1> DEFINE i == GetIndexOfHashedRaw(k)
<1>1. Located(i, k)
  BY SearchFinds
<1>2. CASE i = None
  <2>1. InsertHashedUniqueUnchecked(k, v)
    BY <1>2 DEF InsertHashed
  <2>2. \A j \in 1..Len(aaa) : aaa[j][1] # k
    BY <1>1, <1>2 DEF Located
  <2> QED BY <2>1, <2>2, UniqueInsertIInv
<1>3. CASE i # None
  <2>1. aaa' = [aaa EXCEPT ![i + 1][2] = v] /\ bbb' = bbb /\ index' = index
    BY <1>3 DEF InsertHashed
  <2> HIDE DEF i
  <2>2. i + 1 \in 1..Len(aaa)
    BY <1>1, <1>3, Facts DEF Located
  <2>3. Arrays(aaa', bbb)
    BY <2>1, <2>2, ReplacedArrays DEF IInv
  <2> QED BY <2>1, <2>3 DEF IInv, Arrays, Indexed, IndexOf
<1> QED BY <1>2, <1>3

LEMMA SameIInv ==
  ASSUME IInv, aaa' = aaa, bbb' = bbb, index' = index
  PROVE  IInv'
BY DEF IInv, Arrays, Indexed, IndexOf

LEMMA OrInsertIInv ==
  ASSUME IInv, NEW k \in Keys, NEW v \in Values, OrInsert(k, v)
  PROVE  IInv'
<1> DEFINE i == GetIndexOfHashedRaw(k)
<1>1. Located(i, k)
  BY SearchFinds
<1>2. CASE i = None
  <2>1. InsertHashedUniqueUnchecked(k, v)
    BY <1>2 DEF OrInsert
  <2>2. \A j \in 1..Len(aaa) : aaa[j][1] # k
    BY <1>1, <1>2 DEF Located
  <2> QED BY <2>1, <2>2, UniqueInsertIInv
<1>3. CASE i # None
  BY <1>3, SameIInv DEF OrInsert
<1> QED BY <1>2, <1>3

LEMMA GetIInv ==
  ASSUME IInv, NEW k \in Keys, GetHashed(k) \/ GetIndexOfHashed(k)
  PROVE  IInv'
BY SameIInv DEF GetHashed, GetIndexOfHashed

(* The entry at position i leaves the arrays; the index loses its bucket.  *)
LEMMA RemovalIInv ==
  ASSUME IInv, NEW i \in 0..Len(aaa) - 1, RemoveFromArrays(i),
         HasIndex => index' = [index EXCEPT !.buckets =
                                  ShiftedDown({x \in IndexOf(bbb) : x.i # i}, i)],
         ~HasIndex => index' = None
  PROVE  IInv'
<1>1. bbb \in Seq(Hashes) /\ Len(bbb) = Len(aaa) /\ Len(aaa) \in Nat
  BY Facts
<1>2. i + 1 \in 1..Len(aaa) /\ i \in 0..Len(bbb) - 1
  BY <1>1
<1>3. aaa' = RemoveAt(aaa, i + 1) /\ bbb' = RemoveAt(bbb, i + 1)
  BY DEF RemoveFromArrays
<1>4. /\ Arrays(aaa', bbb')
      /\ Len(bbb') = Len(bbb) - 1
      /\ \A j \in 1..Len(bbb) - 1 : bbb'[j] = bbb[IF j < i + 1 THEN j ELSE j + 1]
  BY <1>2, <1>3, RemovedArrays DEF IInv
<1>5. bbb' \in Seq(Hashes) /\ Len(bbb') <= Len(bbb)
  BY <1>1, <1>4 DEF Arrays
<1>6. Indexed(index', bbb')
  <2>1. CASE HasIndex
    <3>1. ShiftedDown({x \in IndexOf(bbb) : x.i # i}, i) = IndexOf(bbb')
      BY <1>1, <1>2, <1>4, <1>5, IndexRemove
    <3>2. index' = [index EXCEPT !.buckets = IndexOf(bbb')]
      BY <2>1, <3>1
    <3> QED BY <1>5, <2>1, <3>2, Reindexed
  <2>2. CASE ~HasIndex
    <3>1. Len(bbb) <= NoIndexThreshold /\ NoIndexThreshold \in Nat
      BY <1>1, <2>2, Facts, SmallMapAssumption
    <3>2. Len(bbb') <= NoIndexThreshold
      BY <1>1, <1>4, <3>1
    <3> QED BY <2>2, <3>2 DEF Indexed
  <2> QED BY <2>1, <2>2
<1> QED BY <1>4, <1>6 DEF IInv, Arrays, Indexed, IndexOf

(* Without the bucket x, no bucket is left at its position, and none is    *)
(* later when it was the last.                                             *)
LEMMA RestOfIndex ==
  ASSUME NEW b \in Seq(Hashes), NEW x \in IndexOf(b)
  PROVE  /\ IndexOf(b) \ {x} = {y \in IndexOf(b) : y.i # x.i}
         /\ x.i = Len(b) - 1 => ShiftedDown(IndexOf(b) \ {x}, x.i) = IndexOf(b) \ {x}
<1>1. /\ \A y \in IndexOf(b) : /\ y.i \in 0..Len(b) - 1
                               /\ y.hash = b[y.i + 1]
                               /\ y = Bucket(y.hash, y.i)
  BY IndexOfProperties
<1>2. \A y \in IndexOf(b) : y.i = x.i => y = x
  BY <1>1
<1>3. ASSUME x.i = Len(b) - 1
      PROVE  ShiftedDown(IndexOf(b) \ {x}, x.i) = IndexOf(b) \ {x}
  <2> DEFINE X == IndexOf(b) \ {x}
  <2>1. Len(b) \in Nat
    OBVIOUS
  <2>2. \A y \in X : ~(y.i > x.i)
    BY <1>1, <1>3, <2>1
  <2>3. \A y \in X : Bucket(y.hash, IF y.i > x.i THEN y.i - 1 ELSE y.i) = y
    BY <1>1, <2>2
  <2> QED BY <2>3 DEF ShiftedDown
<1> QED BY <1>2, <1>3

LEMMA ShiftRemoveIInv ==
  ASSUME IInv, NEW k \in Keys, ShiftRemoveHashedEntry(k)
  PROVE  IInv'
<1>1. ASSUME HasIndex, ShiftRemoveIndexed(k) PROVE IInv'
  <2>1. PICK x \in IndexHits(k) :
          /\ RemoveFromArrays(x.i)
          /\ index' = [index EXCEPT !.buckets =
                           IF x.i # Len(aaa) - 1 THEN ShiftedDown(index.buckets \ {x}, x.i)
                                                 ELSE index.buckets \ {x}]
    BY <1>1 DEF ShiftRemoveIndexed
  <2>2. x \in IndexOf(bbb) /\ x.i \in 0..Len(aaa) - 1
    BY <1>1, HitIsEntry
  <2>3. index.buckets = IndexOf(bbb) /\ bbb \in Seq(Hashes) /\ Len(bbb) = Len(aaa)
    BY <1>1, Facts
  <2>4. /\ IndexOf(bbb) \ {x} = {y \in IndexOf(bbb) : y.i # x.i}
        /\ x.i = Len(bbb) - 1 => ShiftedDown(IndexOf(bbb) \ {x}, x.i) = IndexOf(bbb) \ {x}
    BY <2>2, <2>3, RestOfIndex
  <2>5. index' = [index EXCEPT !.buckets = ShiftedDown({y \in IndexOf(bbb) : y.i # x.i}, x.i)]
    BY <2>1, <2>3, <2>4
  <2> QED BY <1>1, <2>1, <2>2, <2>5, RemovalIInv
<1>2. ASSUME UNCHANGED <<aaa, bbb, index>> PROVE IInv'
  BY <1>2, SameIInv
<1>3. ASSUME ~HasIndex, LinearSearch(k) # None, RemoveFromArrays(LinearSearch(k)), index' = index
      PROVE  IInv'
  <2>1. LinearSearch(k) \in 0..Len(aaa) - 1
    BY <1>3, LinearSearchFinds DEF Located
  <2>2. index' = None
    BY <1>3 DEF HasIndex
  <2> QED BY <1>3, <2>1, <2>2, RemovalIInv
<1> QED BY <1>1, <1>2, <1>3 DEF ShiftRemoveHashedEntry

LEMMA ShiftRemoveIndexIInv ==
  ASSUME IInv, NEW i \in 0..Len(aaa), ShiftRemoveIndexHashed(i)
  PROVE  IInv'
<1>1. CASE i >= Len(aaa) /\ UNCHANGED <<aaa, bbb, index>>
  BY <1>1, SameIInv
<1>2. CASE i < Len(aaa) /\ ~(UNCHANGED <<aaa, bbb, index>>)
  <2>1. i \in 0..Len(aaa) - 1
    BY <1>2, Facts
  <2>2. RemoveFromArrays(i)
    BY <1>2 DEF ShiftRemoveIndexHashed
  <2>3. HasIndex => index' = [index EXCEPT !.buckets =
                                  ShiftedDown({x \in IndexOf(bbb) : x.i # i}, i)]
    BY <1>2, Facts DEF ShiftRemoveIndexHashed
  <2>4. ~HasIndex => index' = None
    BY <1>2 DEF ShiftRemoveIndexHashed
  <2> QED BY <2>1, <2>2, <2>3, <2>4, RemovalIInv
<1>3. CASE UNCHANGED <<aaa, bbb, index>>
  BY <1>3, SameIInv
<1> QED BY <1>1, <1>2, <1>3 DEF ShiftRemoveIndexHashed

LEMMA PopIInv ==
  ASSUME IInv, Pop
  PROVE  IInv'
<1>1. CASE aaa = <<>>
  BY <1>1, SameIInv DEF Pop
<1>2. CASE aaa # <<>>
  <2>1. aaa' = Front(aaa) /\ bbb' = Front(bbb)
    BY <1>2 DEF Pop
  <2>2. Arrays(aaa', bbb') /\ bbb # <<>>
    BY <1>2, <2>1, PoppedArrays DEF IInv
  <2>3. aaa \in Seq(Keys \X Values) /\ bbb \in Seq(Hashes) /\ Len(bbb) = Len(aaa) /\ Len(bbb) \in Nat
    BY Facts
  <2>4. Len(bbb') = Len(bbb) - 1 /\ Len(aaa') = Len(bbb) - 1 /\ bbb' \in Seq(Hashes)
    BY <1>2, <2>1, <2>2, <2>3, FrontLast DEF Arrays
  <2>5. Len(bbb') <= Len(bbb)
    BY <2>3, <2>4
  <2>6. Indexed(index', bbb')
    <3>1. CASE HasIndex
      <4>1. index' = [index EXCEPT !.buckets = IndexOf(bbb) \ {Bucket(Last(bbb), Len(bbb) - 1)}]
        BY <1>2, <2>4, <3>1, Facts DEF Pop
      <4>2. index' = [index EXCEPT !.buckets = IndexOf(bbb')]
        BY <2>1, <2>2, <2>3, <4>1, IndexPop
      <4> QED BY <2>4, <2>5, <3>1, <4>2, Reindexed
    <3>2. CASE ~HasIndex
      <4>1. index' = None
        BY <1>2, <3>2 DEF Pop
      <4>2. Len(bbb) <= NoIndexThreshold /\ NoIndexThreshold \in Nat
        BY <2>3, <3>2, Facts, SmallMapAssumption
      <4>3. Len(bbb') <= NoIndexThreshold
        BY <2>3, <2>4, <4>2
      <4> QED BY <4>1, <4>3 DEF Indexed
    <3> QED BY <3>1, <3>2
  <2> QED BY <2>2, <2>6 DEF IInv, Arrays, Indexed, IndexOf
<1> QED BY <1>1, <1>2

LEMMA EmptiedIInv ==
  ASSUME IInv, aaa' = <<>>, bbb' = <<>>, index' = RebuildIndex(<<>>)
  PROVE  IInv'
<1>1. <<>> \in Seq(Hashes) /\ Len(<<>>) <= Len(bbb)
  BY Facts
<1>2. Indexed(RebuildIndex(<<>>), <<>>)
  BY <1>1, RebuiltIndex
<1> QED BY <1>2, NoEntries DEF IInv, Arrays, Indexed, IndexOf

LEMMA ClearIInv ==
  ASSUME IInv, Clear
  PROVE  IInv'
<1>1. index' = RebuildIndex(<<>>)
  BY NoEntries DEF Clear, RebuildIndex
<1> QED BY <1>1, EmptiedIInv DEF Clear

LEMMA ReverseIInv ==
  ASSUME IInv, ReverseEntries
  PROVE  IInv'
<1>1. aaa' = Reverse(aaa) /\ bbb' = Reverse(bbb)
  BY DEF ReverseEntries
<1>2. Arrays(aaa', bbb') /\ Len(bbb') = Len(bbb)
  BY <1>1, ReversedArrays DEF IInv
<1>3. bbb \in Seq(Hashes) /\ Len(bbb) = Len(aaa) /\ Len(bbb) \in Nat /\ bbb' \in Seq(Hashes)
  BY <1>2, Facts DEF Arrays
<1>4. index' = RebuildIndex(bbb')
  <2>1. CASE HasIndex
    <3>1. index.buckets = IndexOf(bbb)
      BY <2>1, Facts
    <3>2. index' = [index EXCEPT !.buckets = {Bucket(x.hash, Len(bbb) - 1 - x.i) : x \in IndexOf(bbb)}]
      BY <1>3, <2>1, <3>1 DEF ReverseEntries
    <3> QED BY <1>1, <1>3, <2>1, <3>2, IndexReverse DEF RebuildIndex
  <2>2. CASE ~HasIndex
    BY <2>2 DEF ReverseEntries, RebuildIndex
  <2> QED BY <2>1, <2>2
<1>5. Indexed(index', bbb')
  BY <1>2, <1>3, <1>4, RebuiltIndex
<1> QED BY <1>2, <1>5 DEF IInv, Arrays, Indexed, IndexOf

LEMMA RetainIInv ==
  ASSUME IInv, NEW keep, NEW p, RetainEntries(keep, p)
  PROVE  IInv'
<1> DEFINE P == Kept(keep, p)
<1>1. P \in SUBSET (1..Len(aaa))
  BY Facts DEF Kept
<1>2. aaa' = At(aaa, P) /\ bbb' = At(bbb, P)
  BY DEF RetainEntries
<1>3. Len(bbb) = Len(aaa) /\ Len(aaa) \in Nat /\ bbb \in Seq(Hashes)
  BY Facts
<1> HIDE DEF P
<1>4. /\ Arrays(aaa', bbb')
      /\ Len(aaa') = Len(bbb') /\ Len(bbb') <= Len(bbb)
      /\ Len(bbb') = Len(bbb) => bbb' = bbb /\ aaa' = aaa
  BY <1>1, <1>2, KeptArrays DEF IInv
<1>5. bbb' \in Seq(Hashes) /\ Len(bbb') \in Nat
  BY <1>4 DEF Arrays
<1>6. Indexed(index', bbb')
  <2>1. CASE Len(aaa') < Len(aaa)
    BY <1>4, <1>5, <2>1, RebuiltIndex DEF RetainEntries
  <2>2. CASE ~(Len(aaa') < Len(aaa))
    <3>1. bbb' = bbb
      BY <1>3, <1>4, <1>5, <2>2
    <3>2. index' = index
      BY <2>2 DEF RetainEntries
    <3> QED BY <3>1, <3>2 DEF IInv
  <2> QED BY <2>1, <2>2
<1> QED BY <1>4, <1>6 DEF IInv, Arrays, Indexed, IndexOf

-----------------------------------------------------------------------------
(* Sorting.  An order is a permutation of the positions; its first m       *)
(* positions are sorted when their keys increase.                          *)
PrefixSorted(order, m) ==
    /\ Places(order, Len(aaa), Len(aaa))
    /\ \A i, j \in 1..m : i < j => aaa[order[i]][1] < aaa[order[j]][1]

Unmoved == [j \in DOMAIN aaa |-> j]

LEMMA KeysAreNumbers ==
  ASSUME IInv
  PROVE  \A j \in 1..Len(aaa) : aaa[j][1] \in Nat /\ aaa[j][1] \in Keys
<1> TAKE j \in 1..Len(aaa)
<1>1. aaa[j] \in Keys \X Values
  BY Facts
<1>2. aaa[j][1] \in Keys
  BY <1>1
<1> QED BY <1>2, SmallMapAssumption

LEMMA UnmovedPlaces ==
  ASSUME IInv
  PROVE  /\ Places(Unmoved, Len(aaa), Len(aaa)) /\ \A j \in 1..Len(aaa) : Unmoved[j] = j
         /\ \A m \in 0..1 : PrefixSorted(Unmoved, m)
<1>1. DOMAIN aaa = 1..Len(aaa) /\ Len(aaa) \in Nat
  BY Facts
<1>2. Places(Unmoved, Len(aaa), Len(aaa)) /\ \A j \in 1..Len(aaa) : Unmoved[j] = j
  BY <1>1 DEF Unmoved, Places
<1>3. \A m \in 0..1 : \A i, j \in 1..m : ~(i < j)
  OBVIOUS
<1> QED BY <1>2, <1>3 DEF PrefixSorted

(* The recursive definition of Orders has a solution, so Orders is it.     *)
OrderStep(order, i) ==
    IF i <= 1 THEN Unmoved ELSE SwapShift(order, InsertionPoint(order, i), i)

LEMMA OrdersDefined ==
  ASSUME IInv
  PROVE  \A i \in 0..Len(aaa) : Orders[i] = OrderStep(Orders[i - 1], i)
<1> DEFINE n == Len(aaa)
           Solves(f, m) == f = [i \in 0..m |-> OrderStep(f[i - 1], i)]
           S == {m \in Nat : \E f : Solves(f, m)}
<1>1. n \in Nat
  BY Facts
<1>2. \A x, y : OrderStep(x, 0) = OrderStep(y, 0)
  BY DEF OrderStep
<1>3. 0 \in S
  <2> DEFINE f == [i \in 0..0 |-> OrderStep(Unmoved, i)]
  <2>1. \A i \in 0..0 : OrderStep(Unmoved, i) = OrderStep(f[i - 1], i)
    <3> TAKE i \in 0..0
    <3>1. i = 0
      OBVIOUS
    <3> HIDE DEF f
    <3> QED BY <1>2, <3>1
  <2>2. Solves(f, 0)
    BY <2>1
  <2> HIDE DEF f, Solves
  <2> QED BY <2>2
<1>4. ASSUME NEW m \in S PROVE m + 1 \in S
  <2>1. m \in Nat /\ m + 1 \in Nat
    OBVIOUS
  <2>2. PICK f : Solves(f, m)
    OBVIOUS
  <2> DEFINE g == [i \in 0..m + 1 |-> IF i = m + 1 THEN OrderStep(f[m], m + 1) ELSE f[i]]
  <2>3. \A i \in 0..m : f[i] = OrderStep(f[i - 1], i)
    BY <2>2
  <2>4. \A i \in 0..m : g[i] = f[i]
    BY <2>1
  <2>5. g[m + 1] = OrderStep(f[m], m + 1)
    BY <2>1
  <2>6. \A i \in 0..m + 1 : g[i] = OrderStep(g[i - 1], i)
    <3> TAKE i \in 0..m + 1
    <3> HIDE DEF g
    <3>1. CASE i = 0
      <4>1. 0 \in 0..m
        BY <2>1
      <4> QED BY <1>2, <2>3, <2>4, <3>1, <4>1
    <3>2. CASE i \in 1..m
      <4>1. i \in 0..m /\ i - 1 \in 0..m
        BY <2>1, <3>2
      <4> QED BY <2>3, <2>4, <4>1
    <3>3. CASE i = m + 1
      <4>1. i - 1 = m /\ m \in 0..m
        BY <2>1, <3>3
      <4> QED BY <2>4, <2>5, <3>3, <4>1
    <3> QED BY <2>1, <3>1, <3>2, <3>3
  <2>7. Solves(g, m + 1)
    <3>1. g = [i \in 0..m + 1 |-> g[i]]
      OBVIOUS
    <3> HIDE DEF g
    <3> QED BY <2>6, <3>1
  <2> HIDE DEF g, Solves
  <2> QED BY <2>1, <2>7
<1>5. S = Nat
  <2> HIDE DEF S
  <2>1. S \in SUBSET Nat
    BY DEF S
  <2> QED BY <1>3, <1>4, <2>1, InductiveSet
<1>6. \E f : Solves(f, n)
  BY <1>1, <1>5
<1>7. Orders = CHOOSE f : Solves(f, n)
  BY DEF Orders, OrderStep, Unmoved
<1>8. Solves(Orders, n)
  <2> HIDE DEF Solves
  <2> QED BY <1>6, <1>7
<1> QED BY <1>8

(* The insertion point exists: going down from i, the first place whose    *)
(* predecessor is not greater.                                             *)
LEMMA InsertionPointExists ==
  ASSUME IInv, NEW i \in 2..Len(aaa), NEW order, PrefixSorted(order, i - 1)
  PROVE  LET a == InsertionPoint(order, i)
         IN  /\ a \in 1..i
             /\ \A j \in a..i - 1 : aaa[order[i]][1] < aaa[order[j]][1]
             /\ a > 1 => ~(aaa[order[i]][1] < aaa[order[a - 1]][1])
<1> DEFINE Fits(a) == \A j \in a..i - 1 : aaa[order[i]][1] < aaa[order[j]][1]
           A == {a \in 1..i : Fits(a)}
<1>1. i \in Nat /\ i \in 1..i
  BY Facts
<1>2. i \in A
  BY <1>1
<1>3. PICK a \in A : \A b \in A : a <= b
  <2>1. A \in SUBSET Nat /\ A # {}
    BY <1>1, <1>2
  <2> HIDE DEF A
  <2> QED BY <2>1, LeastNatural
<1>4. ASSUME a > 1 PROVE ~(aaa[order[i]][1] < aaa[order[a - 1]][1])
  <2> SUFFICES ASSUME aaa[order[i]][1] < aaa[order[a - 1]][1] PROVE FALSE
    OBVIOUS
  <2>1. a \in 1..i /\ Fits(a) /\ a - 1 \in 1..i /\ ~(a <= a - 1)
    BY <1>1, <1>4
  <2>2. \A j \in (a - 1)..i - 1 : j = a - 1 \/ j \in a..i - 1
    BY <1>1, <2>1
  <2>3. Fits(a - 1)
    BY <2>1, <2>2
  <2>4. a - 1 \in A
    BY <2>1, <2>3
  <2> QED BY <1>3, <2>1, <2>4
<1>5. \E x \in 1..i : /\ \A j \in x..i - 1 : aaa[order[i]][1] < aaa[order[j]][1]
                      /\ x > 1 => ~(aaa[order[i]][1] < aaa[order[x - 1]][1])
  BY <1>3, <1>4
<1> QED BY <1>5 DEF InsertionPoint

(* Placing element i keeps a permutation and sorts one more position.      *)
LEMMA PlacedOne ==
  ASSUME IInv, NEW i \in 2..Len(aaa), NEW order, PrefixSorted(order, i - 1)
  PROVE  PrefixSorted(SwapShift(order, InsertionPoint(order, i), i), i)
<1> DEFINE n == Len(aaa)
           a == InsertionPoint(order, i)
           new == SwapShift(order, a, i)
           from(j) == IF j = a THEN i ELSE IF a < j /\ j <= i THEN j - 1 ELSE j
<1>1. /\ a \in 1..i
      /\ \A j \in a..i - 1 : aaa[order[i]][1] < aaa[order[j]][1]
      /\ a > 1 => ~(aaa[order[i]][1] < aaa[order[a - 1]][1])
  BY InsertionPointExists
<1> HIDE DEF a
<1>2. /\ n \in Nat /\ i \in Nat /\ i <= n /\ 2 <= i /\ a \in Nat /\ 1 <= a /\ a <= i
  BY <1>1, Facts
<1>3. /\ order \in [1..n -> 1..n]
      /\ \A j, l \in 1..n : order[j] = order[l] => j = l
      /\ \A j, l \in 1..i - 1 : j < l => aaa[order[j]][1] < aaa[order[l]][1]
  BY DEF PrefixSorted, Places
<1> HIDE DEF n
<1>4. \A j \in 1..n : from(j) \in 1..n
  BY <1>2
<1>5. \A j, l \in 1..n : from(j) = from(l) => j = l
  BY <1>2
<1>6. \A j \in 1..n : new[j] = order[from(j)]
  BY <1>2, <1>3 DEF SwapShift
<1>7. new \in [1..n -> 1..n]
  <2>1. DOMAIN new = 1..n /\ new = [j \in DOMAIN new |-> new[j]]
    BY <1>3 DEF SwapShift
  <2>2. \A j \in 1..n : new[j] \in 1..n
    <3> HIDE DEF from, new
    <3> QED BY <1>3, <1>4, <1>6
  <2> HIDE DEF new
  <2> QED BY <2>1, <2>2
<1>8. Places(new, n, n)
  <2> HIDE DEF new, from
  <2> QED BY <1>2, <1>3, <1>4, <1>5, <1>6, <1>7 DEF Places
<1> DEFINE key(j) == aaa[order[j]][1]
<1>9. \A j \in 1..n : key(j) \in Nat
  BY <1>3, KeysAreNumbers DEF n
<1>10. \A j, l \in 1..n : key(j) = key(l) => j = l
  <2> TAKE j, l \in 1..n
  <2>1. order[j] \in 1..n /\ order[l] \in 1..n
    BY <1>3
  <2> QED BY <1>3, <2>1, Facts DEF n
<1>11. \A j \in 1..n : aaa[new[j]][1] = key(from(j))
  BY <1>6
<1>12. \A j, l \in 1..i - 1 : j < l => key(j) < key(l)
  BY <1>3
<1>13. \A j \in a..i - 1 : key(i) < key(j)
  BY <1>1
<1>14. \A j \in 1..a - 1 : key(j) < key(i)
  <2> TAKE j \in 1..a - 1
  <2>1. a > 1 /\ a - 1 \in 1..i - 1 /\ j \in 1..i - 1 /\ a - 1 \in 1..n /\ i \in 1..n /\ j \in 1..n
    BY <1>2
  <2>2. ~(key(i) < key(a - 1))
    BY <1>1, <2>1
  <2>3. a - 1 # i
    BY <1>2
  <2>4. key(a - 1) # key(i)
    BY <1>10, <2>1, <2>3
  <2> HIDE DEF key
  <2>5. key(a - 1) < key(i)
    BY <1>9, <2>1, <2>2, <2>4
  <2>6. CASE j = a - 1
    BY <2>5, <2>6
  <2>7. CASE j < a - 1
    <3>1. key(j) < key(a - 1)
      BY <1>12, <2>1, <2>7
    <3> QED BY <1>9, <2>1, <2>5, <3>1
  <2> QED BY <1>2, <2>6, <2>7
<1> HIDE DEF key, new
<1>15. \A j, l \in 1..i : j < l => key(from(j)) < key(from(l))
  <2> SUFFICES ASSUME NEW j \in 1..i, NEW l \in 1..i, j < l PROVE key(from(j)) < key(from(l))
    OBVIOUS
  <2>1. CASE j < a /\ l < a
    BY <1>2, <1>12, <2>1
  <2>2. CASE j < a /\ l = a
    BY <1>2, <1>14, <2>2
  <2>3. CASE j < a /\ a < l
    BY <1>2, <1>12, <2>3
  <2>4. CASE j = a
    <3>1. from(j) = i /\ from(l) = l - 1 /\ l - 1 \in a..i - 1
      BY <1>2, <2>4
    <3> QED BY <1>13, <3>1
  <2>5. CASE a < j
    BY <1>2, <1>12, <2>5
  <2> QED BY <1>2, <2>1, <2>2, <2>3, <2>4, <2>5
<1>16. \A j, l \in 1..i : j < l => aaa[new[j]][1] < aaa[new[l]][1]
  <2>1. \A j \in 1..i : j \in 1..n
    BY <1>2
  <2> HIDE DEF from
  <2> QED BY <1>11, <1>15, <2>1
<1>17. PrefixSorted(new, i)
  BY <1>8, <1>16 DEF PrefixSorted, n
<1> QED BY <1>17 DEF new, a

LEMMA OrdersSort ==
  ASSUME IInv
  PROVE  \A i \in 0..Len(aaa) : PrefixSorted(Orders[i], i)
<1> DEFINE n == Len(aaa)
           S == {i \in Nat : i <= n => PrefixSorted(Orders[i], i)}
<1>1. n \in Nat
  BY Facts
<1>2. 0 \in S
  <2>1. Orders[0] = Unmoved
    BY <1>1, OrdersDefined DEF OrderStep
  <2> QED BY <2>1, UnmovedPlaces
<1>3. ASSUME NEW i \in S PROVE i + 1 \in S
  <2> SUFFICES ASSUME i + 1 <= n PROVE PrefixSorted(Orders[i + 1], i + 1)
    OBVIOUS
  <2>1. i \in Nat /\ i <= n /\ i + 1 \in 0..n /\ (i + 1) - 1 = i
    BY <1>1
  <2>2. Orders[i + 1] = OrderStep(Orders[i], i + 1)
    BY <2>1, OrdersDefined
  <2>3. CASE i = 0
    <3>1. Orders[i + 1] = Unmoved
      BY <2>2, <2>3 DEF OrderStep
    <3> QED BY <2>3, <3>1, UnmovedPlaces
  <2>4. CASE i # 0
    <3>1. i + 1 \in 2..Len(aaa) /\ ~(i + 1 <= 1)
      BY <2>1, <2>4
    <3>2. Orders[i + 1] = SwapShift(Orders[i], InsertionPoint(Orders[i], i + 1), i + 1)
      BY <2>2, <3>1 DEF OrderStep
    <3>3. PrefixSorted(Orders[i], (i + 1) - 1)
      BY <2>1
    <3> QED BY <3>1, <3>2, <3>3, PlacedOne
  <2> QED BY <2>3, <2>4
<1>4. S = Nat
  <2> HIDE DEF S
  <2>1. S \in SUBSET Nat
    BY DEF S
  <2> QED BY <1>2, <1>3, <2>1, InductiveSet
<1> QED BY <1>1, <1>4

(* The library's order: each entry at the number of keys up to its own.    *)
LEMMA LibrarySorts ==
  ASSUME IInv
  PROVE  PrefixSorted(LibraryOrder, Len(aaa))
<1> DEFINE n == Len(aaa)
           key(j) == aaa[j][1]
           U(l) == {m \in DOMAIN aaa : aaa[m][1] <= aaa[l][1]}
           place == [l \in 1..n |-> Cardinality(U(l))]
<1>1. n \in Nat /\ DOMAIN aaa = 1..n /\ \A i, j \in 1..n : key(i) = key(j) => i = j
  BY Facts
<1>2. \A j \in 1..n : key(j) \in Nat
  BY KeysAreNumbers
<1> HIDE DEF key, n
<1>3. IsFiniteSet(1..n) /\ Cardinality(1..n) = n
  BY <1>1, FirstNumbers
<1>4. \A l \in 1..n : IsFiniteSet(U(l)) /\ Cardinality(U(l)) \in 1..n
  <2> TAKE l \in 1..n
  <2>1. U(l) \subseteq 1..n /\ l \in U(l)
    BY <1>1, <1>2 DEF key
  <2> HIDE DEF U
  <2>2. IsFiniteSet(U(l)) /\ Cardinality(U(l)) \in Nat /\ Cardinality(U(l)) <= n
    BY <1>3, <2>1, FS_Subset, FS_CardinalityType
  <2>3. Cardinality(U(l)) # 0
    BY <2>1, <2>2, FS_EmptySet
  <2> QED BY <1>1, <2>2, <2>3
<1>5. \A j, l \in 1..n : key(j) < key(l) => place[j] < place[l]
  <2> SUFFICES ASSUME NEW j \in 1..n, NEW l \in 1..n, key(j) < key(l)
               PROVE  Cardinality(U(j)) < Cardinality(U(l))
    OBVIOUS
  <2>1. U(j) \subseteq U(l) /\ l \in U(l) /\ l \notin U(j)
    BY <1>1, <1>2 DEF key
  <2>2. IsFiniteSet(U(l)) /\ Cardinality(U(l)) \in Nat /\ Cardinality(U(j)) \in Nat
    BY <1>4
  <2> HIDE DEF U
  <2>3. Cardinality(U(j)) <= Cardinality(U(l)) /\ Cardinality(U(j)) # Cardinality(U(l))
    BY <2>1, <2>2, FS_Subset
  <2> QED BY <2>2, <2>3
<1>6. place \in [1..n -> 1..n]
  BY <1>4
<1> HIDE DEF place
<1>7. \A j, l \in 1..n : place[j] = place[l] => j = l
  <2> SUFFICES ASSUME NEW j \in 1..n, NEW l \in 1..n, j # l PROVE place[j] # place[l]
    OBVIOUS
  <2>1. key(j) < key(l) \/ key(l) < key(j)
    BY <1>1, <1>2
  <2>2. place[j] \in Nat /\ place[l] \in Nat
    BY <1>6
  <2> QED BY <1>5, <2>1, <2>2
<1>8. place \in Injection(1..n, 1..n)
  BY <1>6, <1>7 DEF Injection, IsInjective
<1>9. place \in Surjection(1..n, 1..n)
  BY <1>3, <1>8, FS_Injection
<1>10. \A j \in 1..n : \E l \in 1..n : place[l] = j
  BY <1>9 DEF Surjection
<1> HIDE DEF U
<1>11. LibraryOrder = [j \in DOMAIN aaa |-> CHOOSE l \in DOMAIN aaa : Cardinality(U(l)) = j]
  BY DEF LibraryOrder, U
<1>12. \A j \in 1..n : LibraryOrder[j] \in 1..n /\ place[LibraryOrder[j]] = j
  <2>1. \A l \in 1..n : place[l] = Cardinality(U(l))
    BY DEF place
  <2> QED BY <1>1, <1>10, <1>11, <2>1
<1>13. LibraryOrder \in [1..n -> 1..n]
  BY <1>1, <1>11, <1>12
<1>14. Places(LibraryOrder, n, n)
  BY <1>1, <1>12, <1>13 DEF Places
<1>15. \A i, j \in 1..n : i < j => key(LibraryOrder[i]) < key(LibraryOrder[j])
  <2> SUFFICES ASSUME NEW i \in 1..n, NEW j \in 1..n, i < j,
                      ~(key(LibraryOrder[i]) < key(LibraryOrder[j]))
               PROVE  FALSE
    OBVIOUS
  <2> DEFINE x == LibraryOrder[i]
             y == LibraryOrder[j]
  <2>1. x \in 1..n /\ y \in 1..n /\ place[x] = i /\ place[y] = j
    BY <1>12
  <2> HIDE DEF x, y
  <2>2. key(x) = key(y) \/ key(y) < key(x)
    <3>1. key(x) \in Nat /\ key(y) \in Nat /\ ~(key(x) < key(y))
      BY <1>2, <2>1 DEF x, y
    <3> QED BY <3>1
  <2>3. i = j \/ j < i
    BY <1>1, <1>5, <2>1, <2>2
  <2> QED BY <2>3
<1> QED BY <1>14, <1>15 DEF PrefixSorted, key, n

(* Keys that never decrease from one entry to the next increase throughout.*)
LEMMA SortedAlready ==
  ASSUME IInv, IsSortedByKey
  PROVE  PrefixSorted(Unmoved, Len(aaa))
<1> DEFINE n == Len(aaa)
           key(j) == aaa[j][1]
           S == {d \in Nat : \A i \in 1..n : i + d <= n => key(i) <= key(i + d)}
<1>1. n \in Nat /\ DOMAIN aaa = 1..n /\ \A i, j \in 1..n : key(i) = key(j) => i = j
  BY Facts
<1>2. \A j \in 1..n : key(j) \in Nat
  BY KeysAreNumbers
<1>3. \A j \in 1..n - 1 : key(j) <= key(j + 1)
  BY DEF IsSortedByKey
<1> HIDE DEF key, n
<1>4. 0 \in S
  BY <1>1, <1>2
<1>5. ASSUME NEW d \in S PROVE d + 1 \in S
  <2> SUFFICES ASSUME NEW i \in 1..n, i + (d + 1) <= n PROVE key(i) <= key(i + (d + 1))
    OBVIOUS
  <2>1. i + d <= n /\ i + d \in 1..n - 1 /\ (i + d) + 1 = i + (d + 1) /\ i + d \in 1..n /\ i + (d + 1) \in 1..n
    BY <1>1
  <2>2. key(i) <= key(i + d) /\ key(i + d) <= key((i + d) + 1)
    BY <1>3, <2>1
  <2>3. key(i) \in Nat /\ key(i + d) \in Nat /\ key(i + (d + 1)) \in Nat
    BY <1>2, <2>1
  <2> QED BY <2>1, <2>2, <2>3
<1>6. S = Nat
  <2> HIDE DEF S
  <2>1. S \in SUBSET Nat
    BY DEF S
  <2> QED BY <1>4, <1>5, <2>1, InductiveSet
<1>7. \A i, j \in 1..n : i < j => key(i) < key(j)
  <2> SUFFICES ASSUME NEW i \in 1..n, NEW j \in 1..n, i < j PROVE key(i) < key(j)
    OBVIOUS
  <2>1. j - i \in Nat /\ i + (j - i) = j /\ i # j /\ j <= n
    BY <1>1
  <2>2. j - i \in S
    BY <1>6, <2>1
  <2>3. key(i) <= key(j)
    BY <2>1, <2>2
  <2>4. key(i) # key(j)
    BY <1>1, <2>1
  <2> QED BY <1>2, <2>3, <2>4
<1> QED BY <1>7, UnmovedPlaces DEF PrefixSorted, key, n

(* A permuted pair of arrays.                                              *)
LEMMA PermutedArrays ==
  ASSUME IInv, NEW order, Places(order, Len(aaa), Len(aaa))
  PROVE  /\ Arrays(Permuted(aaa, order), Permuted(bbb, order))
         /\ Len(Permuted(aaa, order)) = Len(aaa)
         /\ Len(Permuted(bbb, order)) = Len(bbb)
         /\ Permuted(bbb, order) \in Seq(Hashes)
         /\ \A j \in 1..Len(aaa) : Permuted(aaa, order)[j] = aaa[order[j]]
<1>1. /\ Picked(Permuted(aaa, order), aaa, order, Len(aaa))
      /\ Picked(Permuted(bbb, order), bbb, order, Len(aaa))
  BY Facts DEF Picked, Permuted
<1>2. /\ Arrays(Permuted(aaa, order), Permuted(bbb, order))
      /\ Len(Permuted(aaa, order)) = Len(aaa)
      /\ Len(Permuted(bbb, order)) = Len(aaa)
  BY <1>1, PickedArrays DEF IInv
<1>3. \A j \in 1..Len(aaa) : Permuted(aaa, order)[j] = aaa[order[j]]
  BY Facts DEF Permuted
<1>4. Len(bbb) = Len(aaa) /\ Permuted(bbb, order) \in Seq(Hashes)
  BY <1>2, Facts DEF Arrays
<1> QED BY <1>2, <1>3, <1>4

(* sort_keys applies an order that sorts all the keys.                     *)
LEMMA SortOrder ==
  ASSUME IInv, SortKeys
  PROVE  \E order : /\ PrefixSorted(order, Len(aaa))
                    /\ aaa' = Permuted(aaa, order)
                    /\ bbb' = Permuted(bbb, order)
                    /\ IsSortedByKey => order = Unmoved
<1> DEFINE order == IF IsSortedByKey THEN Unmoved
                    ELSE IF Len(aaa) <= MaxInsertion THEN Orders[Len(aaa)]
                    ELSE LibraryOrder
<1>1. aaa' = Permuted(aaa, order) /\ bbb' = Permuted(bbb, order)
  BY DEF SortKeys, Unmoved
<1>2. Len(aaa) \in 0..Len(aaa)
  BY Facts
<1>3. PrefixSorted(Orders[Len(aaa)], Len(aaa))
  BY <1>2, OrdersSort
<1>4. PrefixSorted(order, Len(aaa))
  BY <1>3, SortedAlready, LibrarySorts
<1>5. IsSortedByKey => order = Unmoved
  OBVIOUS
<1> HIDE DEF order
<1> QED BY <1>1, <1>4, <1>5

LEMMA SortIInv ==
  ASSUME IInv, SortKeys
  PROVE  IInv'
<1>1. PICK order : /\ PrefixSorted(order, Len(aaa))
                   /\ aaa' = Permuted(aaa, order)
                   /\ bbb' = Permuted(bbb, order)
                   /\ IsSortedByKey => order = Unmoved
  BY SortOrder
<1>2. Places(order, Len(aaa), Len(aaa))
  BY <1>1 DEF PrefixSorted
<1>3. Arrays(aaa', bbb') /\ Len(bbb') = Len(bbb) /\ bbb' \in Seq(Hashes)
  BY <1>1, <1>2, PermutedArrays
<1>4. Len(bbb) \in Nat /\ Len(bbb) = Len(aaa) /\ bbb \in Seq(Hashes)
  BY Facts
<1>5. Indexed(index', bbb')
  <2>1. CASE IsSortedByKey
    <3>1. \A j \in 1..Len(aaa) : Unmoved[j] = j
      BY UnmovedPlaces
    <3>2. Permuted(bbb, Unmoved) = bbb
      <4>1. Permuted(bbb, Unmoved) = [j \in 1..Len(bbb) |-> bbb[j]]
        BY <1>4, <3>1 DEF Permuted
      <4> QED BY <1>4, <4>1
    <3>3. index' = index /\ bbb' = bbb
      BY <1>1, <2>1, <3>2 DEF SortKeys
    <3> QED BY <3>3 DEF IInv
  <2>2. CASE ~IsSortedByKey
    BY <1>3, <1>4, <2>2, RebuiltIndex DEF SortKeys
  <2> QED BY <2>1, <2>2
<1> QED BY <1>3, <1>5 DEF IInv, Arrays, Indexed, IndexOf

LEMMA SortPanicsIInv ==
  ASSUME IInv, SortKeysPanics
  PROVE  IInv'
<1>1. CASE Len(aaa) > MaxInsertion /\ aaa' = <<>> /\ bbb' = <<>>
  BY <1>1, EmptiedIInv DEF SortKeysPanics
<1>2. ASSUME NEW i \in 1..Len(aaa) - 1,
             aaa' = Permuted(aaa, Orders[i]), bbb' = Permuted(bbb, Orders[i])
      PROVE  IInv'
  <2>1. i \in 0..Len(aaa)
    BY Facts
  <2>2. Places(Orders[i], Len(aaa), Len(aaa))
    BY <2>1, OrdersSort DEF PrefixSorted
  <2>3. Arrays(aaa', bbb') /\ Len(bbb') = Len(bbb) /\ bbb' \in Seq(Hashes) /\ Len(bbb) \in Nat
    BY <1>2, <2>2, PermutedArrays, Facts
  <2>4. Indexed(index', bbb')
    BY <2>3, RebuiltIndex DEF SortKeysPanics
  <2> QED BY <2>3, <2>4 DEF IInv, Arrays, Indexed, IndexOf
<1> QED BY <1>1, <1>2 DEF SortKeysPanics

LEMMA NextIInv ==
  ASSUME IInv, [Next]_vars
  PROVE  IInv'
<1>1. ASSUME NEW n \in {0, NoIndexThreshold + 1}, WithCapacity(n) PROVE IInv'
  <2>1. n \in Nat
    BY SmallMapAssumption
  <2> QED BY <1>1, <2>1, WithCapacityIInv
<1>2. ASSUME NEW n \in 0..MaxReserve, Reserve(n) PROVE IInv'
  <2>1. n \in Nat
    BY SmallMapAssumption
  <2> QED BY <1>2, <2>1, ReserveIInv
<1>3. ASSUME NEW p, NEW keep, RetainEntries(keep, p) PROVE IInv'
  BY <1>3, RetainIInv
<1>4. CASE UNCHANGED vars
  BY <1>4, SameIInv DEF vars
<1> QED BY <1>1, <1>2, <1>3, <1>4, MaybeDropIndexIInv, InsertIInv, OrInsertIInv, GetIInv,
           ShiftRemoveIInv, ShiftRemoveIndexIInv, PopIInv, ClearIInv, ReverseIInv,
           SortIInv, SortPanicsIInv
        DEF Next

(* The index, the hashes and the entries of a SmallMap agree after every   *)
(* sequence of calls, panics in retain and sort_keys included: each stored *)
(* hash is that of its key, no key occurs twice, an index has one bucket   *)
(* per entry at its present position and room for all of them, and a map   *)
(* without an index is within the threshold.                               *)
THEOREM MapConsistent == Spec => []IndexConsistent
<1>1. IInv => IndexConsistent
  <2> SUFFICES ASSUME IInv PROVE IndexConsistent
    OBVIOUS
  <2>1. TypeOK
    BY Facts DEF TypeOK, HasIndex
  <2> QED BY <2>1, Facts DEF IndexConsistent
<1>2. IInv /\ [Next]_vars => IInv'
  BY NextIInv
<1> QED BY <1>1, <1>2, InitIInv, PTL DEF Spec

-----------------------------------------------------------------------------
(* Every call is a call of the insertion-ordered map.                      *)
LEMMA FoundIsHas ==
  ASSUME IInv, NEW k \in Keys, NEW i, Located(i, k)
  PROVE  /\ i = None => ~Ordered!Has(k)
         /\ i # None => Ordered!Has(k) /\ Ordered!Where(k) = i + 1
         /\ Ordered!Lookup(k) = ValueAt(i)
         /\ Ordered!PositionOf(k) = i
<1>1. DOMAIN aaa = 1..Len(aaa) /\ Len(aaa) \in Nat
  BY Facts
<1>2. CASE i = None
  <2>1. ~Ordered!Has(k)
    BY <1>1, <1>2, SmallMapAssumption DEF Located, Ordered!Has, Ordered!KeyAt
  <2> QED BY <1>2, <2>1 DEF Ordered!Lookup, Ordered!PositionOf, ValueAt
<1>3. CASE i # None
  <2>1. i \in 0..Len(aaa) - 1 /\ aaa[i + 1][1] = k
    BY <1>3 DEF Located
  <2>2. i + 1 \in 1..Len(aaa) /\ (i + 1) - 1 = i /\ ~(i >= Len(aaa))
    BY <1>1, <2>1
  <2>3. Ordered!Has(k)
    BY <1>1, <2>1, <2>2 DEF Ordered!Has, Ordered!KeyAt
  <2>4. \A j \in DOMAIN aaa : aaa[j][1] = k <=> j = i + 1
    BY <1>1, <2>1, <2>2, Facts
  <2>5. Ordered!Where(k) = i + 1
    BY <1>1, <2>2, <2>4 DEF Ordered!Where, Ordered!KeyAt
  <2> QED BY <1>3, <2>2, <2>3, <2>5 DEF Ordered!Lookup, Ordered!PositionOf, ValueAt
<1> QED BY <1>2, <1>3

LEMMA InsertRefines ==
  ASSUME IInv, NEW k \in Keys, NEW v \in Values, InsertHashed(k, v)
  PROVE  Ordered!Insert(k, v)
<1> DEFINE i == GetIndexOfHashedRaw(k)
<1>1. Located(i, k)
  BY SearchFinds
<1>2. /\ i = None => ~Ordered!Has(k)
      /\ i # None => Ordered!Has(k) /\ Ordered!Where(k) = i + 1
      /\ Ordered!Lookup(k) = ValueAt(i)
  BY <1>1, FoundIsHas
<1>3. CASE i = None
  <2>1. aaa' = Append(aaa, <<k, v>>) /\ out' = <<"insert", None>>
    BY <1>3 DEF InsertHashed, InsertHashedUniqueUnchecked
  <2>2. ValueAt(i) = None
    BY <1>3 DEF ValueAt
  <2> QED BY <1>2, <1>3, <2>1, <2>2 DEF Ordered!Insert
<1>4. CASE i # None
  <2>1. aaa' = [aaa EXCEPT ![i + 1][2] = v] /\ out' = <<"insert", ValueAt(i)>>
    BY <1>4 DEF InsertHashed
  <2> HIDE DEF i
  <2>2. i + 1 \in 1..Len(aaa) /\ aaa[i + 1][1] = k
    BY <1>1, <1>4, Facts DEF Located
  <2>3. aaa' = [aaa EXCEPT ![i + 1] = <<aaa[i + 1][1], v>>]
    <3> DEFINE p == i + 1
    <3> HIDE DEF p
    <3>1. aaa' = [aaa EXCEPT ![p][2] = v] /\ p \in 1..Len(aaa) /\ Arrays(aaa, bbb)
      BY <2>1, <2>2 DEF p, IInv
    <3>2. aaa[p] \in Keys \X Values
      BY <3>1, Facts
    <3>3. [aaa[p] EXCEPT ![2] = v] = <<aaa[p][1], v>>
      BY <3>2
    <3>4. aaa' = [aaa EXCEPT ![p] = <<aaa[p][1], v>>]
      BY <3>1, <3>3
    <3> QED BY <3>4 DEF p
  <2> QED BY <1>2, <1>4, <2>1, <2>2, <2>3 DEF Ordered!Insert
<1> QED BY <1>3, <1>4

LEMMA OrInsertRefines ==
  ASSUME IInv, NEW k \in Keys, NEW v \in Values, OrInsert(k, v)
  PROVE  Ordered!OrInsert(k, v)
<1> DEFINE i == GetIndexOfHashedRaw(k)
<1>1. Located(i, k)
  BY SearchFinds
<1>2. /\ i = None => ~Ordered!Has(k)
      /\ i # None => Ordered!Has(k)
      /\ Ordered!Lookup(k) = ValueAt(i)
  BY <1>1, FoundIsHas
<1>3. CASE i = None
  BY <1>2, <1>3 DEF OrInsert, InsertHashedUniqueUnchecked, Ordered!OrInsert
<1>4. CASE i # None
  BY <1>2, <1>4 DEF OrInsert, Ordered!OrInsert
<1> QED BY <1>3, <1>4

LEMMA GetRefines ==
  ASSUME IInv, NEW k \in Keys
  PROVE  /\ GetHashed(k) => Ordered!Get(k)
         /\ GetIndexOfHashed(k) => Ordered!GetIndexOf(k)
<1>1. Located(GetIndexOfHashedRaw(k), k)
  BY SearchFinds
<1>2. /\ Ordered!Lookup(k) = ValueAt(GetIndexOfHashedRaw(k))
      /\ Ordered!PositionOf(k) = GetIndexOfHashedRaw(k)
  BY <1>1, FoundIsHas
<1> QED BY <1>2 DEF GetHashed, GetIndexOfHashed, Ordered!Get, Ordered!GetIndexOf

LEMMA ShiftRemoveRefines ==
  ASSUME IInv, NEW k \in Keys, ShiftRemoveHashedEntry(k)
  PROVE  Ordered!RemoveKey(k)
<1>1. ASSUME NEW i, Located(i, k), i # None, RemoveFromArrays(i), out' = <<"remove", ValueAt(i)>>
      PROVE  Ordered!RemoveKey(k)
  <2>1. Ordered!Has(k) /\ Ordered!Where(k) = i + 1 /\ Ordered!Lookup(k) = ValueAt(i)
    BY <1>1, FoundIsHas
  <2>2. aaa' = RemoveAt(aaa, i + 1)
    BY <1>1 DEF RemoveFromArrays
  <2> QED BY <1>1, <2>1, <2>2 DEF Ordered!RemoveKey, Ordered!RemoveAt, RemoveAt
<1>2. ASSUME HasIndex, ShiftRemoveIndexed(k) PROVE Ordered!RemoveKey(k)
  <2>1. PICK x \in IndexHits(k) : RemoveFromArrays(x.i) /\ out' = <<"remove", ValueAt(x.i)>>
    BY <1>2 DEF ShiftRemoveIndexed
  <2>2. x.i \in 0..Len(aaa) - 1 /\ aaa[x.i + 1][1] = k /\ x.i # None
    BY <1>2, HitIsEntry, SmallMapAssumption
  <2>3. Located(x.i, k)
    BY <2>2 DEF Located
  <2> QED BY <1>1, <2>1, <2>2, <2>3
<1>3. ASSUME GetIndexOfHashedRaw(k) = None, out' = <<"remove", None>>, aaa' = aaa
      PROVE  Ordered!RemoveKey(k)
  <2>1. Located(None, k)
    BY <1>3, SearchFinds
  <2>2. ~Ordered!Has(k)
    BY <2>1, FoundIsHas
  <2> QED BY <1>3, <2>2 DEF Ordered!RemoveKey, Ordered!Lookup
<1>4. ASSUME LinearSearch(k) # None, RemoveFromArrays(LinearSearch(k)),
             out' = <<"remove", ValueAt(LinearSearch(k))>>
      PROVE  Ordered!RemoveKey(k)
  BY <1>1, <1>4, LinearSearchFinds
<1> QED BY <1>2, <1>3, <1>4 DEF ShiftRemoveHashedEntry

LEMMA OtherRemovalsRefine ==
  ASSUME IInv
  PROVE  /\ \A i \in 0..Len(aaa) : ShiftRemoveIndexHashed(i) => Ordered!RemoveIndex(i)
         /\ Pop => Ordered!Pop
         /\ Clear => Ordered!Clear
         /\ ReverseEntries => Ordered!Turn
         /\ \A n : WithCapacity(n) => Ordered!New
<1>1. ASSUME NEW i \in 0..Len(aaa), ShiftRemoveIndexHashed(i) PROVE Ordered!RemoveIndex(i)
  <2>1. i \in Nat /\ Len(aaa) \in Nat
    BY Facts
  <2>2. CASE i < Len(aaa)
    <3>1. aaa' = RemoveAt(aaa, i + 1) /\ out' = <<"remove_index", aaa[i + 1]>>
      BY <1>1, <2>1, <2>2 DEF ShiftRemoveIndexHashed, RemoveFromArrays
    <3>2. aaa' = Ordered!RemoveAt(aaa, i + 1)
      BY <3>1 DEF RemoveAt, Ordered!RemoveAt
    <3> QED BY <2>2, <3>1, <3>2 DEF Ordered!RemoveIndex
  <2>3. CASE ~(i < Len(aaa))
    BY <1>1, <2>1, <2>3 DEF ShiftRemoveIndexHashed, Ordered!RemoveIndex
  <2> QED BY <2>2, <2>3
<1>2. Pop => Ordered!Pop
  BY DEF Pop, Ordered!Pop, Front, Last, Ordered!Front, Ordered!Last
<1>3. Clear => Ordered!Clear
  BY DEF Clear, Ordered!Clear
<1>4. ReverseEntries => Ordered!Turn
  BY DEF ReverseEntries, Ordered!Turn, Reverse, Ordered!Reverse
<1>5. \A n : WithCapacity(n) => Ordered!New
  BY DEF WithCapacity, Ordered!New
<1> QED BY <1>1, <1>2, <1>3, <1>4, <1>5

LEMMA RetainRefines ==
  ASSUME IInv, NEW keep, NEW p, RetainEntries(keep, p)
  PROVE  Ordered!Retain(keep, p)
<1> DEFINE P == Kept(keep, p)
           c == Cardinality(P)
<1>1. aaa' = At(aaa, P) /\ aaa \in Seq(Keys \X Values)
  BY Facts DEF RetainEntries
<1>2. /\ P \in SUBSET (1..Len(aaa)) /\ DOMAIN aaa = 1..Len(aaa)
      /\ P = {i \in DOMAIN aaa : i < p => Ordered!KeyAt(i) \in keep}
  BY Facts DEF Kept, Ordered!KeyAt
<1> HIDE DEF P
<1>3. /\ DOMAIN aaa' = 1..c
      /\ \A m \in 1..c : Nth(P, m) \in P /\ aaa'[m] = aaa[Nth(P, m)]
      /\ \A j \in P : Rank(P, j) \in 1..c /\ Nth(P, Rank(P, j)) = j
      /\ \A l, m \in 1..c : l < m => Nth(P, l) < Nth(P, m)
  <2>1. /\ DOMAIN At(aaa, P) = 1..c
        /\ \A m \in 1..c : Nth(P, m) \in P /\ At(aaa, P)[m] = aaa[Nth(P, m)]
        /\ \A j \in P : Rank(P, j) \in 1..c /\ Nth(P, Rank(P, j)) = j
        /\ \A l, m \in 1..c : l < m => Nth(P, l) < Nth(P, m)
    <3>1. aaa \in Seq(Keys \X Values) /\ P \in SUBSET (1..Len(aaa))
      BY <1>1, <1>2
    <3> DEFINE T == Keys \X Values
    <3>2. aaa \in Seq(T)
      BY <3>1
    <3> HIDE DEF T
    <3> QED BY ONLY <3>1, <3>2, AtProperties
  <2> QED BY <1>1, <2>1
<1> HIDE DEF c
<1>4. {aaa'[m] : m \in DOMAIN aaa'} = {aaa[j] : j \in P}
  <2>1. \A m \in 1..c : aaa'[m] \in {aaa[j] : j \in P}
    BY <1>3
  <2>2. \A j \in P : aaa[j] \in {aaa'[m] : m \in 1..c}
    BY <1>3
  <2> QED BY <1>3, <2>1, <2>2
<1>5. \A j \in 1..Len(aaa) : Ordered!Where(aaa[j][1]) = j
  <2> TAKE j \in 1..Len(aaa)
  <2>1. \A i \in 1..Len(aaa) : aaa[i][1] = aaa[j][1] <=> i = j
    BY Facts
  <2> QED BY <1>2, <2>1 DEF Ordered!Where, Ordered!KeyAt
<1>6. \A m \in 1..c : Ordered!Where(aaa'[m][1]) = Nth(P, m)
  BY <1>2, <1>3, <1>5
<1>7. \A l, m \in DOMAIN aaa' : l < m => Ordered!Where(aaa'[l][1]) < Ordered!Where(aaa'[m][1])
  BY <1>3, <1>6
<1>8. Ordered!ToSet(aaa') = {aaa[i] : i \in {i \in DOMAIN aaa : i < p => Ordered!KeyAt(i) \in keep}}
  BY <1>2, <1>4 DEF Ordered!ToSet
<1> QED BY <1>7, <1>8 DEF Ordered!Retain, RetainEntries

(* A permutation takes every position.                                     *)
LEMMA PlacesOnto ==
  ASSUME NEW n \in Nat, NEW f, Places(f, n, n)
  PROVE  \A j \in 1..n : \E i \in 1..n : f[i] = j
<1>1. f \in Injection(1..n, 1..n)
  BY DEF Places, Injection, IsInjective
<1>2. IsFiniteSet(1..n)
  BY FirstNumbers
<1>3. f \in Surjection(1..n, 1..n)
  BY <1>1, <1>2, FS_Injection
<1> QED BY <1>3 DEF Surjection

LEMMA SortRefines ==
  ASSUME IInv, SortKeys
  PROVE  Ordered!Sort
<1> DEFINE n == Len(aaa)
<1>1. PICK order : PrefixSorted(order, n) /\ aaa' = Permuted(aaa, order)
  BY SortOrder
<1>2. Places(order, n, n) /\ \A i, j \in 1..n : i < j => aaa[order[i]][1] < aaa[order[j]][1]
  BY <1>1 DEF PrefixSorted
<1>3. n \in Nat /\ DOMAIN aaa = 1..n /\ order \in [1..n -> 1..n]
  BY <1>2, Facts DEF Places
<1>4. Len(aaa') = n /\ DOMAIN aaa' = 1..n /\ \A j \in 1..n : aaa'[j] = aaa[order[j]]
  BY <1>1, <1>2, <1>3, PermutedArrays DEF Permuted
<1>5. \A i, j \in DOMAIN aaa' : i < j => aaa'[i][1] < aaa'[j][1]
  BY <1>2, <1>4
<1>6. \A j \in 1..n : \E i \in 1..n : order[i] = j
  BY <1>2, <1>3, PlacesOnto
<1>7. {aaa'[i] : i \in DOMAIN aaa'} = {aaa[i] : i \in DOMAIN aaa}
  <2>1. \A i \in 1..n : aaa'[i] \in {aaa[j] : j \in 1..n}
    BY <1>3, <1>4
  <2>2. \A j \in 1..n : aaa[j] \in {aaa'[i] : i \in 1..n}
    BY <1>3, <1>4, <1>6
  <2> QED BY <1>3, <1>4, <2>1, <2>2
<1> QED BY <1>4, <1>5, <1>7 DEF Ordered!Sort, Ordered!ToSet, SortKeys

LEMMA SortPanicsRefines ==
  ASSUME IInv, SortKeysPanics
  PROVE  Ordered!SortPanics
<1> DEFINE n == Len(aaa)
<1>1. out' = <<"sort_panic", None>>
  BY DEF SortKeysPanics
<1>2. CASE aaa' = <<>>
  BY <1>1, <1>2 DEF Ordered!SortPanics, Ordered!ToSet
<1>3. ASSUME NEW l \in 1..n - 1, aaa' = Permuted(aaa, Orders[l])
      PROVE  Ordered!SortPanics
  <2> DEFINE order == Orders[l]
  <2>1. l \in 0..n
    BY Facts
  <2>2. Places(order, n, n)
    BY <2>1, OrdersSort DEF PrefixSorted
  <2> HIDE DEF order
  <2>3. DOMAIN aaa = 1..n /\ order \in [1..n -> 1..n] /\ \A i, j \in 1..n : order[i] = order[j] => i = j
    BY <2>2, Facts DEF Places
  <2>4. DOMAIN aaa' = 1..n /\ \A j \in 1..n : aaa'[j] = aaa[order[j]]
    BY <1>3, <2>3 DEF Permuted, order
  <2>5. \A i, j \in DOMAIN aaa' : i # j => aaa'[i][1] # aaa'[j][1]
    BY <2>3, <2>4, Facts
  <2>6. {aaa'[i] : i \in DOMAIN aaa'} \subseteq {aaa[i] : i \in DOMAIN aaa}
    BY <2>3, <2>4
  <2> QED BY <1>1, <2>5, <2>6 DEF Ordered!SortPanics, Ordered!ToSet
<1> QED BY <1>2, <1>3 DEF SortKeysPanics

LEMMA StepRefines ==
  ASSUME IInv, [Next]_vars
  PROVE  [Ordered!Next]_Ordered!vars
<1> USE DEF Ordered!Next
<1>1. ASSUME NEW k \in Keys, NEW v \in Values, InsertHashed(k, v) \/ OrInsert(k, v)
      PROVE  Ordered!Next
  BY <1>1, InsertRefines, OrInsertRefines
<1>2. ASSUME NEW k \in Keys, GetHashed(k) \/ GetIndexOfHashed(k) \/ ShiftRemoveHashedEntry(k)
      PROVE  Ordered!Next
  BY <1>2, GetRefines, ShiftRemoveRefines
<1>3. ASSUME NEW i \in 0..Len(aaa), ShiftRemoveIndexHashed(i) PROVE Ordered!Next
  BY <1>3, OtherRemovalsRefine
<1>4. ASSUME Pop \/ Clear \/ ReverseEntries \/ (\E n : WithCapacity(n)) PROVE Ordered!Next
  BY <1>4, OtherRemovalsRefine
<1>5. ASSUME NEW p \in 1..Len(aaa) + 1, NEW keep \in SUBSET {aaa[j][1] : j \in 1..p - 1},
             RetainEntries(keep, p)
      PROVE  Ordered!Next
  BY <1>5, RetainRefines DEF Ordered!KeyAt
<1>6. ASSUME SortKeys \/ SortKeysPanics PROVE Ordered!Next
  BY <1>6, SortRefines, SortPanicsRefines
<1>7. ASSUME MaybeDropIndex \/ (\E n : Reserve(n)) \/ UNCHANGED vars
      PROVE  UNCHANGED Ordered!vars
  BY <1>7 DEF MaybeDropIndex, Reserve, vars, Ordered!vars
<1> HIDE DEF Ordered!Next
<1> QED BY <1>1, <1>2, <1>3, <1>4, <1>5, <1>6, <1>7 DEF Next

(* With or without an index, whatever hashes collide and whichever calls   *)
(* panic, a SmallMap answers and changes its entries as the                *)
(* insertion-ordered map does; sort_keys sorts, in place and by the        *)
(* library.                                                                *)
THEOREM MapRefines == Spec => RefinesOrderedMap
<1>1. Init => Ordered!Init
  BY DEF Init, Ordered!Init
<1>2. IInv /\ [Next]_vars => IInv' /\ [Ordered!Next]_Ordered!vars
  BY NextIInv, StepRefines
<1> QED BY <1>1, <1>2, InitIInv, PTL DEF Spec, RefinesOrderedMap, Ordered!Spec
=============================================================================
