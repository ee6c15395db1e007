--------------------------- MODULE MCModuleFreeze ---------------------------
(***************************************************************************)
(* Every heap of up to MaxObjs objects that the evaluation can leave.      *)
(***************************************************************************)
EXTENDS ModuleFreeze
=============================================================================
