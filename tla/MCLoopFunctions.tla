-------------------------- MODULE MCLoopFunctions ---------------------------
(***************************************************************************)
(* An instance of LoopFunctions for TLC.                                   *)
(***************************************************************************)
EXTENDS LoopFunctions

CONSTANTS f1, f2, f3
=============================================================================
