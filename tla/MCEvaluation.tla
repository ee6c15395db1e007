---------------------------- MODULE MCEvaluation ----------------------------
(***************************************************************************)
(* One Starlark and one native function; stacks of two to four frames, so  *)
(* that both the default and a configured stack overflow.                  *)
(***************************************************************************)
EXTENDS Evaluation
=============================================================================
