------------------------------ MODULE MCBlinds -------------------------------
(***************************************************************************)
(* An instance of Blinds for TLC: a clock of four values, and time limits  *)
(* that end before, on and after its wrap.                                 *)
(***************************************************************************)
EXTENDS Blinds
=============================================================================
