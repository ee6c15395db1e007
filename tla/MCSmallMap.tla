----------------------------- MODULE MCSmallMap -----------------------------
(***************************************************************************)
(* Four keys, two of them with the same hash, and two values.  The index   *)
(* appears at the third entry and sorting leaves the in-place path at the  *)
(* fourth, so every map of the run crosses both limits in both directions. *)
(***************************************************************************)
EXTENDS SmallMap

MCHash == [k \in Keys |-> k \div 2]
=============================================================================
