---------------------------- MODULE MillisTimer -----------------------------
(***************************************************************************)
(* MillisTimer of lib/KFCBaseLibrary: a deadline on the clock millis(),    *)
(* which wraps around.  A deadline behind the wrap is kept half a turn     *)
(* later, and compared with a clock that is half a turn ahead.             *)
(***************************************************************************)
EXTENDS Integers

CONSTANTS
    Turn             \* 2^32, the values of unsigned long

ASSUME TurnAssumption == Turn \in Nat \ {0} /\ Turn % 2 = 0

Clock == 0..(Turn - 1)
Half == Turn \div 2 - 1

(* Mutant of SetTimer: the wrap is forgotten.                              *)
SetTimerPlain(now, delay) ==
    [active |-> TRUE, overflow |-> FALSE, time |-> (now + delay) % Turn]

(* MillisTimer::set                                                        *)
SetTimer(now, delay) ==
    LET time == (now + delay) % Turn
    IN  IF now > time
        THEN [active |-> TRUE, overflow |-> TRUE, time |-> (time + Half) % Turn]
        ELSE [active |-> TRUE, overflow |-> FALSE, time |-> time]

(* MillisTimer::disable                                                    *)
Disabled == [active |-> FALSE, overflow |-> FALSE, time |-> 0]

(* MillisTimer::reached                                                    *)
Reached(timer, now) ==
    /\ timer.active
    /\ IF timer.overflow THEN (now + Half) % Turn > timer.time
                         ELSE now > timer.time

(* The one deadline no clock is ever behind.                               *)
Unreachable(timer) == ~timer.overflow /\ timer.time = Turn - 1
=============================================================================
