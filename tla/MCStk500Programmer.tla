------------------------ MODULE MCStk500Programmer --------------------------
(* A file with two records in page 1 and one in page 3, so that page 0 is  *)
(* empty and page 2 missing; a counter of four values instead of 256, and  *)
(* two attempts between resets.                                            *)
EXTENDS Stk500Programmer

Sparse == <<1, 1, 3>>
=============================================================================
