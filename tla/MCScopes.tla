------------------------------ MODULE MCScopes ------------------------------
(***************************************************************************)
(* Two names, so that slots can be mixed up; three nested scopes, so that  *)
(* a name is copied through a def that does not use it.                    *)
(***************************************************************************)
EXTENDS Scopes
=============================================================================
