----------------------------- MODULE OrderedMap -----------------------------
(***************************************************************************)
(* What a map with deterministic iteration order promises its users: a     *)
(* sequence of entries with distinct keys, in insertion order, and the     *)
(* answer each call returns.  Nothing here knows of hashes or indices.     *)
(*                                                                         *)
(* `map` is the sequence of <<key, value>> pairs an iterator would yield   *)
(* and `out` names the last call and what it returned (None when it        *)
(* returned nothing).                                                      *)
(***************************************************************************)
EXTENDS Naturals, Sequences, SequencesExt

CONSTANTS Keys, Values, None

VARIABLES map, out

vars == <<map, out>>

KeyAt(i) == map[i][1]
Has(k) == \E i \in DOMAIN map : KeyAt(i) = k
Where(k) == CHOOSE i \in DOMAIN map : KeyAt(i) = k

(* The value of k, and its position counted from 0 as the callers see it.  *)
Lookup(k) == IF Has(k) THEN map[Where(k)][2] ELSE None
PositionOf(k) == IF Has(k) THEN Where(k) - 1 ELSE None

Init == map = <<>> /\ out = <<"new", None>>

New == map' = <<>> /\ out' = <<"new", None>>

Get(k) == out' = <<"get", Lookup(k)>> /\ UNCHANGED map

GetIndexOf(k) == out' = <<"position", PositionOf(k)>> /\ UNCHANGED map

Insert(k, v) ==
    /\ out' = <<"insert", Lookup(k)>>
    /\ map' = IF Has(k) THEN [map EXCEPT ![Where(k)] = <<k, v>>]
                        ELSE Append(map, <<k, v>>)

OrInsert(k, v) ==
    /\ out' = <<"or_insert", IF Has(k) THEN Lookup(k) ELSE v>>
    /\ map' = IF Has(k) THEN map ELSE Append(map, <<k, v>>)

RemoveKey(k) ==
    /\ out' = <<"remove", Lookup(k)>>
    /\ map' = IF Has(k) THEN RemoveAt(map, Where(k)) ELSE map

RemoveIndex(i) ==
    /\ out' = <<"remove_index", IF i < Len(map) THEN map[i + 1] ELSE None>>
    /\ map' = IF i < Len(map) THEN RemoveAt(map, i + 1) ELSE map

Pop ==
    /\ out' = <<"pop", IF map = <<>> THEN None ELSE Last(map)>>
    /\ map' = IF map = <<>> THEN map ELSE Front(map)

Clear == map' = <<>> /\ out' = <<"clear", None>>

Turn == map' = Reverse(map) /\ out' = <<"reverse", None>>

(* Keep only the entries of `keep`, in the order they have; when the       *)
(* predicate panics on an entry, that entry and the later ones are kept.   *)
Retain(keep, panicAt) ==
    /\ out' = <<IF panicAt <= Len(map) THEN "retain_panic" ELSE "retain", None>>
    /\ ToSet(map') = {map[i] : i \in {i \in DOMAIN map : i < panicAt => KeyAt(i) \in keep}}
    /\ \A i, j \in DOMAIN map' : i < j => Where(map'[i][1]) < Where(map'[j][1])

(* The same entries, in the order of their keys.                           *)
Sort ==
    /\ \A i, j \in DOMAIN map' : i < j => map'[i][1] < map'[j][1]
    /\ Len(map') = Len(map)
    /\ ToSet(map') = ToSet(map)
    /\ out' = <<"sort", None>>

(* A comparison that panics may leave any order and may lose entries, but  *)
(* never invents or repeats one.                                           *)
SortPanics ==
    /\ \A i, j \in DOMAIN map' : i # j => map'[i][1] # map'[j][1]
    /\ ToSet(map') \subseteq ToSet(map)
    /\ out' = <<"sort_panic", None>>

Next ==
    \/ New
    \/ \E k \in Keys : Get(k) \/ GetIndexOf(k) \/ RemoveKey(k)
    \/ \E k \in Keys, v \in Values : Insert(k, v) \/ OrInsert(k, v)
    \/ \E i \in 0..Len(map) : RemoveIndex(i)
    \/ Pop
    \/ Clear
    \/ Turn
    \/ \E p \in 1..Len(map) + 1 :
          \E keep \in SUBSET {KeyAt(j) : j \in 1..p - 1} : Retain(keep, p)
    \/ Sort
    \/ SortPanics

Spec == Init /\ [][Next]_vars
=============================================================================
