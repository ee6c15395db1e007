------------------------------ MODULE SmallMap ------------------------------
(***************************************************************************)
(* SmallMap, the map behind dicts, sets, module names and most tables of   *)
(* the interpreter.  Entries live in two parallel arrays (Vec2): `aaa`     *)
(* holds the key and value pairs, `bbb` the hash of each key.  A map of at *)
(* most NoIndexThreshold entries is searched linearly by hash; a larger    *)
(* one has an index, a hash table of positions into the arrays.  The index *)
(* is created when the map grows past the threshold or when room for more  *)
(* entries is reserved, is then kept through every operation, and is only  *)
(* dropped by maybe_drop_index.                                            *)
(*                                                                         *)
(* Positions in the index are counted from 0, as in the code.  The         *)
(* hashbrown table is the set of its buckets and the number of entries it  *)
(* holds without being rehashed; a lookup may meet any bucket with the     *)
(* hash it is given.                                                       *)
(***************************************************************************)
EXTENDS Integers, Sequences, FiniteSets, SequencesExt, Subsequences

CONSTANTS
    Keys,               \* keys, numbers so that they are ordered
    Values,
    Hash,               \* hash of a key; different keys may share one
    None,               \* an absent result, and an absent index
    NoIndexThreshold,   \* 16 in the code
    MaxInsertion,       \* longest array sorted in place, 20 in the code
    MaxReserve          \* bound: entries asked for by one reserve call

Hashes == {Hash[k] : k \in Keys}

(* A hash table of positions, and the entries it holds without a rehash.   *)
Table == [buckets : SUBSET [hash : Hashes, i : Nat], cap : Nat]

ASSUME SmallMapAssumption ==
    /\ Keys \subseteq Nat
    /\ None \notin Values /\ None \notin Nat /\ None \notin Table
    /\ NoIndexThreshold \in Nat
    /\ MaxInsertion \in Nat
    /\ MaxReserve \in Nat
    /\ DOMAIN Hash = Keys

VARIABLES aaa, bbb, index, out

vars == <<aaa, bbb, index, out>>

Bucket(h, i) == [hash |-> h, i |-> i]
HasIndex == index # None

(* The index of the arrays a and b built from nothing: one bucket for each *)
(* entry, filed under the stored hash.                                     *)
IndexOf(b) == {Bucket(b[j + 1], j) : j \in 0..Len(b) - 1}

(***************************************************************************)
(* Finding an entry.                                                       *)
(***************************************************************************)

(* VecMap: the first entry whose hash matches and whose key is equal.      *)
LinearSearch(k) ==
    LET hits == {j \in DOMAIN bbb : bbb[j] = Hash[k] /\ aaa[j][1] = k}
    IN  IF hits = {} THEN None
        ELSE (CHOOSE j \in hits : \A l \in hits : j <= l) - 1

(* The buckets the hash table may stop at.  A bucket past the end of the   *)
(* arrays would be read out of bounds: it stands for a hit on anything.    *)
IndexHits(k) ==
    {b \in index.buckets : /\ b.hash = Hash[k]
                           /\ b.i < Len(aaa) => aaa[b.i + 1][1] = k}

IndexSearch(k) ==
    IF IndexHits(k) = {} THEN None ELSE (CHOOSE b \in IndexHits(k) : TRUE).i

GetIndexOfHashedRaw(k) == IF HasIndex THEN IndexSearch(k) ELSE LinearSearch(k)

ValueAt(i) == IF i = None \/ i >= Len(aaa) THEN None ELSE aaa[i + 1][2]

(***************************************************************************)
(* The index.                                                              *)
(***************************************************************************)

(* create_index(capacity) over the hashes b, and rebuild_index, which      *)
(* keeps the capacity and does nothing when there is no index.             *)
CreateIndex(b, capacity) == [buckets |-> IndexOf(b), cap |-> capacity]

RebuildIndexNot(b) == index
RebuildIndex(b) == IF HasIndex THEN [index EXCEPT !.buckets = IndexOf(b)] ELSE None

(* One more bucket; a full table is rehashed into a larger one.            *)
WithBucket(h, i) ==
    LET buckets == index.buckets \union {Bucket(h, i)}
        needed == Cardinality(buckets)
    IN  [buckets |-> buckets, cap |-> IF index.cap < needed THEN needed ELSE index.cap]

(* Buckets after the entry at position i is gone.                          *)
ShiftedDownLate(buckets, i) ==
    {Bucket(b.hash, IF b.i > i + 1 THEN b.i - 1 ELSE b.i) : b \in buckets}
ShiftedDown(buckets, i) ==
    {Bucket(b.hash, IF b.i > i THEN b.i - 1 ELSE b.i) : b \in buckets}

(***************************************************************************)
(* Operations.                                                             *)
(***************************************************************************)

Init ==
    /\ aaa = <<>>
    /\ bbb = <<>>
    /\ index = None
    /\ out = <<"new", None>>

(* with_capacity: a map made for many entries has its index from the       *)
(* start.                                                                  *)
WithCapacity(n) ==
    /\ aaa' = <<>>
    /\ bbb' = <<>>
    /\ index' = IF n <= NoIndexThreshold THEN None ELSE [buckets |-> {}, cap |-> n]
    /\ out' = <<"new", None>>

(* reserve(additional)                                                     *)
Reserve(additional) ==
    LET wanted == Len(aaa) + additional
    IN  /\ index' = IF HasIndex
                      THEN [index EXCEPT !.cap = IF @ < wanted THEN wanted ELSE @]
                      ELSE IF wanted > NoIndexThreshold
                             THEN CreateIndex(bbb, wanted)
                             ELSE None
        /\ UNCHANGED <<aaa, bbb, out>>

MaybeDropIndex ==
    /\ index' = IF Len(aaa) <= NoIndexThreshold THEN None ELSE index
    /\ UNCHANGED <<aaa, bbb, out>>

(* insert_hashed_unique_unchecked: push the entry, then the index.         *)
InsertHashedUniqueUnchecked(k, v) ==
    /\ aaa' = Append(aaa, <<k, v>>)
    /\ bbb' = Append(bbb, Hash[k])
    /\ index' = IF HasIndex THEN WithBucket(Hash[k], Len(aaa))
                ELSE IF Len(aaa') = NoIndexThreshold + 1
                       THEN CreateIndex(bbb', Len(aaa'))
                       ELSE None

(* insert_hashed: replace the value of an equal key, or append.            *)
InsertHashed(k, v) ==
    LET i == GetIndexOfHashedRaw(k)
    IN  \/ /\ i = None
           /\ InsertHashedUniqueUnchecked(k, v)
           /\ out' = <<"insert", None>>
        \/ /\ i # None
           /\ out' = <<"insert", ValueAt(i)>>
           /\ aaa' = [aaa EXCEPT ![i + 1][2] = v]
           /\ UNCHANGED <<bbb, index>>

(* entry(k).or_insert(v), and get_or_insert of SmallSet.                   *)
OrInsert(k, v) ==
    LET i == GetIndexOfHashedRaw(k)
    IN  \/ /\ i = None
           /\ InsertHashedUniqueUnchecked(k, v)
           /\ out' = <<"or_insert", v>>
        \/ /\ i # None
           /\ out' = <<"or_insert", ValueAt(i)>>
           /\ UNCHANGED <<aaa, bbb, index>>

GetHashed(k) ==
    /\ out' = <<"get", ValueAt(GetIndexOfHashedRaw(k))>>
    /\ UNCHANGED <<aaa, bbb, index>>

GetIndexOfHashed(k) ==
    /\ out' = <<"position", GetIndexOfHashedRaw(k)>>
    /\ UNCHANGED <<aaa, bbb, index>>

(* Vec2::remove: both arrays close the gap.                                *)
RemoveFromArrays(i) ==
    /\ aaa' = RemoveAt(aaa, i + 1)
    /\ bbb' = RemoveAt(bbb, i + 1)

(* shift_remove_hashed_entry with an index: the bucket found is removed    *)
(* and, unless the entry was the last one, the later positions move down.  *)
ShiftRemoveIndexed(k) ==
    \E b \in IndexHits(k) :
        LET rest == index.buckets \ {b}
        IN  /\ RemoveFromArrays(b.i)
            /\ out' = <<"remove", ValueAt(b.i)>>
            /\ index' = [index EXCEPT !.buckets =
                             IF b.i # Len(aaa) - 1 THEN ShiftedDown(rest, b.i) ELSE rest]

ShiftRemoveHashedEntry(k) ==
    \/ /\ HasIndex
       /\ ShiftRemoveIndexed(k)
    \/ /\ GetIndexOfHashedRaw(k) = None
       /\ out' = <<"remove", None>>
       /\ UNCHANGED <<aaa, bbb, index>>
    \/ /\ ~HasIndex
       /\ LinearSearch(k) # None
       /\ RemoveFromArrays(LinearSearch(k))
       /\ out' = <<"remove", ValueAt(LinearSearch(k))>>
       /\ UNCHANGED index

(* shift_remove_index_hashed: the buckets are filtered and moved in one    *)
(* pass, then the entry is removed.                                        *)
ShiftRemoveIndexHashed(i) ==
    \/ /\ i >= Len(aaa)
       /\ out' = <<"remove_index", None>>
       /\ UNCHANGED <<aaa, bbb, index>>
    \/ /\ i < Len(aaa)
       /\ out' = <<"remove_index", aaa[i + 1]>>
       /\ RemoveFromArrays(i)
       /\ index' = IF HasIndex
                     THEN [index EXCEPT !.buckets =
                               ShiftedDown({b \in @ : b.i # i}, i)]
                     ELSE None

(* pop: the entry leaves the arrays first; its bucket is then looked up by *)
(* the popped hash and the position that has just become the length.       *)
Pop ==
    \/ /\ aaa = <<>>
       /\ out' = <<"pop", None>>
       /\ UNCHANGED <<aaa, bbb, index>>
    \/ /\ aaa # <<>>
       /\ aaa' = Front(aaa)
       /\ bbb' = Front(bbb)
       /\ out' = <<"pop", Last(aaa)>>
       /\ index' = IF HasIndex
                     THEN [index EXCEPT !.buckets = @ \ {Bucket(Last(bbb), Len(aaa'))}]
                     ELSE None

(* clear keeps an index that exists.  Keys and values are data here: a     *)
(* destructor that panics is not modelled.                                 *)
Clear ==
    /\ aaa' = <<>>
    /\ bbb' = <<>>
    /\ index' = IF HasIndex THEN [index EXCEPT !.buckets = {}] ELSE None
    /\ out' = <<"clear", None>>

(* reverse: every position p of the index becomes len - 1 - p.             *)
ReverseEntries ==
    /\ aaa' = Reverse(aaa)
    /\ bbb' = Reverse(bbb)
    /\ index' = IF HasIndex
                  THEN [index EXCEPT !.buckets =
                            {Bucket(b.hash, Len(aaa) - 1 - b.i) : b \in @}]
                  ELSE None
    /\ out' = <<"reverse", None>>

(***************************************************************************)
(* retain and sort_keys call user code that may panic.  A guard rebuilds   *)
(* the index when it is dropped, on the panicking path as well.            *)
(***************************************************************************)

(* The positions retain keeps when the predicate holds on `keep` and       *)
(* panics at position p; p = Len(aaa) + 1 is a call that does not panic.   *)
Kept(keep, p) == {j \in DOMAIN aaa : j < p => aaa[j][1] \in keep}

(* The predicate may also change the values it is given, which no entry's  *)
(* place or hash depends on; here they stay.                               *)
RetainEntries(keep, p) ==
    /\ aaa' = At(aaa, Kept(keep, p))
    /\ bbb' = At(bbb, Kept(keep, p))
    /\ index' = IF Len(aaa') < Len(aaa) THEN RebuildIndex(bbb') ELSE index
    /\ out' = <<IF p <= Len(aaa) THEN "retain_panic" ELSE "retain", None>>

(* insertion_sort: element i moves down to the place where the one before  *)
(* it is not greater.  Orders[i] lists, for each place of the result, the  *)
(* place it comes from once the first i elements are sorted.               *)
InsertionPoint(order, i) ==
    CHOOSE a \in 1..i :
        /\ \A j \in a..i - 1 : aaa[order[i]][1] < aaa[order[j]][1]
        /\ a > 1 => ~(aaa[order[i]][1] < aaa[order[a - 1]][1])

SwapShift(order, a, b) ==
    [j \in DOMAIN order |-> IF j = a THEN order[b]
                            ELSE IF a < j /\ j <= b THEN order[j - 1]
                            ELSE order[j]]

Orders[i \in 0..Len(aaa)] ==
    IF i <= 1 THEN [j \in DOMAIN aaa |-> j]
    ELSE SwapShift(Orders[i - 1], InsertionPoint(Orders[i - 1], i), i)

Permuted(s, order) == [j \in DOMAIN s |-> s[order[j]]]

(* The order the library sort leaves, for arrays too long to sort in       *)
(* place: the place of an entry is the number of keys up to its own.       *)
LibraryOrder ==
    [j \in DOMAIN aaa |->
        CHOOSE l \in DOMAIN aaa :
            Cardinality({m \in DOMAIN aaa : aaa[m][1] <= aaa[l][1]}) = j]

IsSortedByKey == \A j \in 1..Len(aaa) - 1 : aaa[j][1] <= aaa[j + 1][1]

SortKeys ==
    LET order == IF IsSortedByKey THEN [j \in DOMAIN aaa |-> j]
                 ELSE IF Len(aaa) <= MaxInsertion THEN Orders[Len(aaa)]
                 ELSE LibraryOrder
    IN  /\ aaa' = Permuted(aaa, order)
        /\ bbb' = Permuted(bbb, order)
        /\ index' = IF IsSortedByKey THEN index ELSE RebuildIndex(bbb')
        /\ out' = <<"sort", None>>

(* A comparison panics.  In place, the elements before the one being       *)
(* placed are already sorted; a long array has been moved into a vector    *)
(* that is dropped, and the map is left empty.                             *)
SortKeysPanics ==
    /\ ~IsSortedByKey
    /\ \/ /\ Len(aaa) <= MaxInsertion
          /\ \E i \in 1..Len(aaa) - 1 :
                /\ aaa' = Permuted(aaa, Orders[i])
                /\ bbb' = Permuted(bbb, Orders[i])
       \/ /\ Len(aaa) > MaxInsertion
          /\ aaa' = <<>>
          /\ bbb' = <<>>
    /\ index' = RebuildIndex(bbb')
    /\ out' = <<"sort_panic", None>>

Next ==
    \/ \E n \in {0, NoIndexThreshold + 1} : WithCapacity(n)
    \/ \E n \in 0..MaxReserve : Reserve(n)
    \/ MaybeDropIndex
    \/ \E k \in Keys, v \in Values : InsertHashed(k, v)
    \/ \E k \in Keys, v \in Values : OrInsert(k, v)
    \/ \E k \in Keys : GetHashed(k)
    \/ \E k \in Keys : GetIndexOfHashed(k)
    \/ \E k \in Keys : ShiftRemoveHashedEntry(k)
    \/ \E i \in 0..Len(aaa) : ShiftRemoveIndexHashed(i)
    \/ Pop
    \/ Clear
    \/ ReverseEntries
    \/ \E p \in 1..Len(aaa) + 1 :
          \E keep \in SUBSET {aaa[j][1] : j \in 1..p - 1} : RetainEntries(keep, p)
    \/ SortKeys
    \/ SortKeysPanics

Spec == Init /\ [][Next]_vars

-----------------------------------------------------------------------------
(***************************************************************************)
(* Properties.                                                             *)
(***************************************************************************)

(* The arrays hold pairs and hashes, the index is absent or a table.       *)
TypeOK ==
    /\ aaa \in Seq(Keys \X Values)
    /\ bbb \in Seq(Hashes)
    /\ index = None \/ index \in Table

(* assert_invariants of the test suite, for every history of calls and of  *)
(* panics in the closures of retain and sort_keys: each stored hash is     *)
(* that of the key beside it, no key occurs twice, an index holds exactly  *)
(* one bucket for every entry, filed under that entry's hash and at its    *)
(* present position, the table has room for all of them without the rehash *)
(* create_index and rebuild_index call unreachable, and only a map of at   *)
(* most the threshold has no index.                                        *)
IndexConsistent ==
    /\ TypeOK
    /\ Len(bbb) = Len(aaa)
    /\ \A j \in DOMAIN aaa : bbb[j] = Hash[aaa[j][1]]
    /\ \A i, j \in DOMAIN aaa : aaa[i][1] = aaa[j][1] => i = j
    /\ HasIndex => index.buckets = IndexOf(bbb) /\ Len(aaa) <= index.cap
    /\ ~HasIndex => Len(aaa) <= NoIndexThreshold

(* With or without an index, through collisions, removals in the middle,   *)
(* reversal and panics, every call answers and changes the entries as the  *)
(* insertion-ordered map of module OrderedMap does.                        *)
Ordered == INSTANCE OrderedMap WITH map <- aaa
RefinesOrderedMap == Ordered!Spec

=============================================================================
