---------------------------- MODULE MCFrozenHeaps ----------------------------
(***************************************************************************)
(* Chains and diamonds of up to three modules.                             *)
(***************************************************************************)
EXTENDS FrozenHeaps
=============================================================================
