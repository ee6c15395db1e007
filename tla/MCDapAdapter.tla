---------------------------- MODULE MCDapAdapter ----------------------------
(***************************************************************************)
(* Two files of one statement each, so that setting one file's breakpoints *)
(* leaves the other's alone.                                               *)
(***************************************************************************)
EXTENDS DapAdapter
=============================================================================
