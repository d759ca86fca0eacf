------------------------------- MODULE MCBoot -------------------------------
(* The counters of eight bits wrap around at 8 instead of 256.             *)
EXTENDS Boot
=============================================================================
