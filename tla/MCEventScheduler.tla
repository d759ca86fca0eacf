-------------------------- MODULE MCEventScheduler --------------------------
(***************************************************************************)
(* Instances of EventScheduler for TLC.  In the timing runs MinDelay is 2  *)
(* and MaxDelay 3, so that a delay of 4 is chopped up into a chunk and a   *)
(* rest below MinDelay.                                                    *)
(***************************************************************************)
EXTENDS EventScheduler, TLC

CONSTANTS t1, t2, t3, h1

TimerSymmetry == Permutations(Timers)
RepeatsNoYes   == {0, 1}
RepeatsNoEver  == {0, Unlimited}
RearmAll == {NoChange, 0}
NoRearm == {NoChange}
=============================================================================
