------------------------------ MODULE MCConsole ------------------------------
(***************************************************************************)
(* Console with two clients, a buffer of two units and four of output.     *)
(***************************************************************************)
EXTENDS Console

CONSTANTS a, b
=============================================================================
