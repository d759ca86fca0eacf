-------------------------- MODULE MCWiFiCallbacks ---------------------------
(***************************************************************************)
(* An instance of WiFiCallbacks for TLC.                                   *)
(***************************************************************************)
EXTENDS WiFiCallbacks, TLC

CONSTANTS c1, c2, c3

Symmetry == Permutations(Callbacks)
=============================================================================
