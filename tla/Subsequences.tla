---------------------------- MODULE Subsequences ----------------------------
(***************************************************************************)
(* The elements of a sequence at some of its positions, in order: what is  *)
(* left of an array when the others are removed.                           *)
(***************************************************************************)
EXTENDS Integers, Sequences, FiniteSets

(* The place of position j among the positions P, counted from 1.          *)
Rank(P, j) == Cardinality({l \in P : l <= j})

(* The m-th position of P.                                                 *)
Nth(P, m) == CHOOSE j \in P : Rank(P, j) = m

(* The elements of sequence s at the positions of set P, in order.         *)
At(s, P) == [m \in 1..Cardinality(P) |-> s[Nth(P, m)]]
=============================================================================
