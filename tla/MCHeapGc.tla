------------------------------ MODULE MCHeapGc ------------------------------
(***************************************************************************)
(* Heaps of up to three objects and two roots: cycles, sharing, garbage    *)
(* and arrays that lists have outgrown.  Addresses and roots are alike.    *)
(***************************************************************************)
EXTENDS HeapGc, TLC

Symm == Permutations(Addr) \cup Permutations(Root)
=============================================================================
