------------------------------ MODULE MCSyslog ------------------------------
(* A TCP and a UDP destination; every line is queued for both, and the     *)
(* queue is full with three items.                                         *)
EXTENDS Syslog

MCFilters == <<"tcp", "udp">>
MCTcp == {"tcp"}
=============================================================================
