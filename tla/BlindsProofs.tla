---------------------------- MODULE BlindsProofs -----------------------------
(***************************************************************************)
(* Theorems about MillisTimer and Blinds for every even clock and all time *)
(* limits that half a turn of the clock can hold.                          *)
(***************************************************************************)
EXTENDS Blinds, FiniteSetTheorems, TLAPS

(***************************************************************************)
(* The inductive invariant.                                                *)
(*                                                                         *)
(* At most one pin is driven, and its motor is watched.                    *)
(***************************************************************************)
DrivenInv ==
    \/ driven = {}
    \/ /\ motorTimeout.active
       /\ \E p \in Pins : driven = {p} /\ (isTestMode \/ shunt = p[1])

(***************************************************************************)
(* The deadline is the current time and what is left of the limit: on this *)
(* side of the wrap the timer holds it as it is; if the wrap lay between   *)
(* when it was set, half a turn later, and this clock may be before or     *)
(* behind the wrap.  Nothing is claimed of the deadline that is never      *)
(* reached.                                                                *)
(***************************************************************************)
Before(timer, n, l) ==
    /\ ~timer.overflow /\ timer.time < Turn - 1
    /\ l >= 0 /\ n + l = timer.time

Behind(timer, n, l) ==
    /\ timer.overflow /\ timer.time \in Half..(2 * Half)
    /\ 0 <= l /\ l <= Half
    /\ n + l = timer.time - Half \/ n + l = timer.time - Half + Turn

TimerInv ==
    motorTimeout.active =>
        \/ Unreachable(motorTimeout)
        \/ Before(motorTimeout, now, left)
        \/ Behind(motorTimeout, now, left)

(* What is published is dropped with the connection; what is saved is the  *)
(* state unless the last write failed.                                     *)
PublishedInv ==
    /\ ~connected => published = None
    /\ PublishedAgrees

StoreInv == saved = None \/ unsaved \/ saved = state

IInv == TypeOK /\ DrivenInv /\ TimerInv /\ PublishedInv /\ StoreInv

-----------------------------------------------------------------------------
(* The clock.                                                              *)
LEMMA HalfLemma == Turn \in Nat /\ Half \in Nat /\ Turn = 2 * Half + 2
<1>1. Turn \in Nat \ {0} /\ Turn % 2 = 0
  BY TurnAssumption
<1>2. Turn = 2 * (Turn \div 2) /\ Turn \div 2 \in Nat
  BY <1>1
<1> QED BY <1>1, <1>2 DEF Half

(* unsigned long arithmetic wraps around.                                  *)
LEMMA WrapLemma ==
    ASSUME NEW n \in Nat, n < 2 * Turn
    PROVE  \/ n < Turn /\ n % Turn = n
           \/ Turn <= n /\ n % Turn = n - Turn
<1>1. Turn \in Nat \ {0}
  BY TurnAssumption
<1>2. CASE n < Turn
  BY <1>1, <1>2
<1>3. CASE Turn <= n
  <2>1. n - Turn \in 0..(Turn - 1) /\ n = Turn * 1 + (n - Turn)
    BY <1>1, <1>3
  <2>2. n % Turn = n - Turn
    BY <1>1, <2>1
  <2> QED BY <1>3, <2>2
<1> QED BY <1>1, <1>2, <1>3

(* The same for a sum.                                                     *)
LEMMA WrapSumLemma ==
    ASSUME NEW n \in Nat, NEW d \in Nat, n < Turn, d <= Turn
    PROVE  \/ n + d < Turn /\ (n + d) % Turn = n + d
           \/ Turn <= n + d /\ (n + d) % Turn = n + d - Turn
<1>1. n + d \in Nat /\ n + d < 2 * Turn
  BY TurnAssumption
<1>2. PICK x \in Nat : x = n + d
  BY <1>1
<1>3. \/ x < Turn /\ x % Turn = x
      \/ Turn <= x /\ x % Turn = x - Turn
  BY <1>1, <1>2, WrapLemma
<1> QED BY <1>2, <1>3, TurnAssumption

(* MillisTimer::set: a deadline within half a turn.                        *)
LEMMA SetTimerLemma ==
    ASSUME NEW n \in Clock, NEW d \in 0..Half
    PROVE  LET timer == SetTimer(n, d)
           IN  /\ timer \in [active : BOOLEAN, overflow : BOOLEAN, time : Clock]
               /\ timer.active
               /\ Unreachable(timer) \/ Before(timer, n, d) \/ Behind(timer, n, d)
<1> DEFINE time == (n + d) % Turn
           timer == SetTimer(n, d)
<1>1. /\ Turn \in Nat /\ Half \in Nat /\ Turn = 2 * Half + 2
      /\ n \in Nat /\ n < Turn /\ d \in Nat /\ d <= Half
  BY HalfLemma DEF Clock
<1>2. time = IF n + d < Turn THEN n + d ELSE n + d - Turn
  <2>1. \/ n + d < Turn /\ time = n + d
        \/ Turn <= n + d /\ time = n + d - Turn
    BY <1>1, WrapSumLemma
  <2> QED BY <1>1, <2>1
<1>3. CASE n + d < Turn
  <2>1. timer = [active |-> TRUE, overflow |-> FALSE, time |-> n + d]
    <3>1. time = n + d /\ ~(n > time)
      BY <1>1, <1>2, <1>3
    <3>2. timer = [active |-> TRUE, overflow |-> FALSE, time |-> time]
      BY <3>1, Zenon DEF SetTimer
    <3> QED BY <3>1, <3>2, Zenon
  <2>2. n + d \in Clock
    BY <1>1, <1>3 DEF Clock
  <2> QED BY <1>1, <1>3, <2>1, <2>2 DEF Unreachable, Before, Clock
<1>4. CASE ~(n + d < Turn)
  <2>1. n > time /\ time = n + d - Turn /\ time \in Nat /\ time + Half < Turn
    BY <1>1, <1>2, <1>4
  <2>2. (time + Half) % Turn = time + Half
    BY <1>1, <2>1, WrapSumLemma
  <2> HIDE DEF time
  <2>3. SetTimer(n, d) = [active |-> TRUE, overflow |-> TRUE, time |-> (time + Half) % Turn]
    BY <2>1 DEF SetTimer, time
  <2>4. timer = [active |-> TRUE, overflow |-> TRUE, time |-> time + Half]
    BY <2>2, <2>3
  <2>5. time + Half \in Clock /\ time + Half \in Half..(2 * Half)
    BY <1>1, <2>1 DEF Clock
  <2> QED BY <1>1, <2>1, <2>4, <2>5 DEF Behind
<1> QED BY <1>3, <1>4

(* MillisTimer::reached of a deadline that is l milliseconds ahead: not    *)
(* now, and in the next millisecond exactly when nothing is left.          *)
LEMMA ReachedLemma ==
    ASSUME NEW timer \in [active : BOOLEAN, overflow : BOOLEAN, time : Clock], timer.active,
           NEW n \in Clock, NEW l \in Int, Before(timer, n, l) \/ Behind(timer, n, l)
    PROVE  LET m == (n + 1) % Turn
           IN  /\ l >= 0
               /\ ~Reached(timer, n)
               /\ m \in Clock /\ m # n
               /\ Reached(timer, m) <=> l = 0
               /\ l > 0 => Before(timer, m, l - 1) \/ Behind(timer, m, l - 1)
<1> DEFINE m == (n + 1) % Turn
<1>1. /\ Turn \in Nat /\ Half \in Nat /\ Turn = 2 * Half + 2
      /\ n \in Nat /\ n < Turn /\ timer.time \in Nat /\ timer.time < Turn
  BY HalfLemma DEF Clock
<1>2. m = IF n + 1 < Turn THEN n + 1 ELSE 0
  <2>1. \/ n + 1 < Turn /\ m = n + 1
        \/ Turn <= n + 1 /\ m = n + 1 - Turn
    BY <1>1, WrapSumLemma
  <2> QED BY <1>1, <2>1
<1> HIDE DEF m
<1>3. m \in Clock /\ m # n
  BY <1>1, <1>2 DEF Clock
<1>4. CASE Before(timer, n, l)
  <2>1. m = n + 1 /\ ~timer.overflow /\ l >= 0 /\ n + l = timer.time
    BY <1>1, <1>2, <1>4 DEF Before
  <2>2. Reached(timer, m) <=> l = 0
    BY <1>1, <2>1 DEF Reached
  <2>3. ~Reached(timer, n)
    BY <1>1, <2>1 DEF Reached
  <2>4. l > 0 => Before(timer, m, l - 1)
    BY <1>1, <1>4, <2>1 DEF Before
  <2> QED BY <1>3, <2>1, <2>2, <2>3, <2>4 DEF m
<1>5. CASE Behind(timer, n, l)
  <2> DEFINE t == timer.time - Half
  <2>1. /\ timer.overflow /\ t \in 0..Half /\ 0 <= l /\ l <= Half
        /\ n + l = t \/ n + l = t + Turn
    BY <1>1, <1>5 DEF Behind
  <2>2. (n + Half) % Turn = t + Half - l
    <3>1. \/ n + Half < Turn /\ (n + Half) % Turn = n + Half
          \/ Turn <= n + Half /\ (n + Half) % Turn = n + Half - Turn
      BY <1>1, WrapSumLemma
    <3> QED BY <1>1, <2>1, <3>1
  <2>3. m + (l - 1) = t \/ m + (l - 1) = t + Turn
    BY <1>1, <1>2, <2>1
  <2>4. (m + Half) % Turn = t + Half - (l - 1)
    <3>1. \/ m + Half < Turn /\ (m + Half) % Turn = m + Half
          \/ Turn <= m + Half /\ (m + Half) % Turn = m + Half - Turn
      BY <1>1, <1>3, WrapSumLemma DEF Clock
    <3> QED BY <1>1, <1>3, <2>1, <2>3, <3>1 DEF Clock
  <2>5. ~Reached(timer, n)
    BY <1>1, <2>1, <2>2 DEF Reached
  <2>6. Reached(timer, m) <=> l = 0
    BY <1>1, <2>1, <2>4 DEF Reached
  <2>7. l > 0 => Behind(timer, m, l - 1)
    BY <1>1, <1>5, <2>1, <2>3 DEF Behind
  <2> QED BY <1>3, <2>1, <2>5, <2>6, <2>7 DEF m
<1> QED BY <1>4, <1>5

-----------------------------------------------------------------------------
(* Operators of the controller.                                            *)
LEMMA DisabledLemma ==
    /\ Disabled \in [active : BOOLEAN, overflow : BOOLEAN, time : Clock]
    /\ ~Disabled.active
<1>1. 0 \in Clock
  BY HalfLemma DEF Clock
<1> QED BY <1>1 DEF Disabled

LEMMA MotorLemma ==
    ASSUME TypeOK, NEW c \in Channels
    PROVE  Motor(c) \in Channels
BY DEF TypeOK, Motor, Channels

(* _publishState: what is told is the state, what is saved is the state    *)
(* unless the write fails.                                                 *)
LEMMA PublishLemma ==
    ASSUME TypeOK, PublishedInv, PublishState,
           connected' \in BOOLEAN, connected => connected',
           state' \in [Channels -> ChannelStates]
    PROVE  /\ published' \in {None} \cup [Channels -> ChannelStates \cup {"Busy"}]
           /\ saved' \in {None} \cup [Channels -> ChannelStates]
           /\ unsaved' \in BOOLEAN
           /\ failedWrites' \in 0..MaxFailedWrites
           /\ PublishedInv'
           /\ StoreInv'
<1>1. SaveState
  BY DEF PublishState
<1>2. StoreInv'
  BY <1>1 DEF SaveState, StoreInv
<1>3. /\ saved' \in {None} \cup [Channels -> ChannelStates]
      /\ unsaved' \in BOOLEAN
      /\ failedWrites' \in 0..MaxFailedWrites
  <2>1. CASE saved' = state' /\ unsaved' = FALSE /\ UNCHANGED failedWrites
    BY <2>1 DEF TypeOK
  <2>2. CASE /\ failedWrites < MaxFailedWrites
             /\ failedWrites' = failedWrites + 1
             /\ unsaved' = TRUE
             /\ UNCHANGED saved
    BY <2>2, BlindsAssumption DEF TypeOK
  <2> QED BY <1>1, <2>1, <2>2 DEF SaveState
<1>4. CASE connected'
  <2>1. published' = [c \in Channels |->
                        StateStr(motorTimeout', activeChannel', state', c)]
    BY <1>4 DEF PublishState
  <2>2. \A c \in Channels : StateStr(motorTimeout', activeChannel', state', c)
                                \in ChannelStates \cup {"Busy"}
    BY DEF StateStr
  <2>3. published' \in [Channels -> ChannelStates \cup {"Busy"}]
    BY <2>1, <2>2
  <2>4. PublishedInv'
    BY <1>4, <2>1 DEF PublishedInv, PublishedAgrees
  <2> QED BY <1>2, <1>3, <2>3, <2>4
<1>5. CASE ~connected'
  <2>1. published' = published /\ published = None
    BY <1>5 DEF PublishState, PublishedInv
  <2>2. PublishedInv'
    BY <2>1 DEF PublishedInv, PublishedAgrees
  <2> QED BY <1>2, <1>3, <2>1, <2>2
<1> QED BY <1>4, <1>5

-----------------------------------------------------------------------------
(* The steps.                                                              *)
LEMMA InitStep == Init => IInv
<1> SUFFICES ASSUME Init PROVE IInv
  OBVIOUS
<1> USE DEF Init
<1>1. TypeOK
  <2>1. 0 \in Clock /\ 0 \in 0..MaxFailedWrites
    BY HalfLemma, BlindsAssumption DEF Clock
  <2>2. /\ swapped \in BOOLEAN /\ isTestMode \in BOOLEAN
        /\ connected \in BOOLEAN /\ unsaved \in BOOLEAN
    BY Zenon
  <2>3. motorTimeout \in [active : BOOLEAN, overflow : BOOLEAN, time : Clock]
    BY DisabledLemma, Zenon
  <2>4. state \in [Channels -> ChannelStates]
    BY DEF ChannelStates
  <2>5. driven \subseteq Pins /\ shunt \in Channels /\ activeChannel \in Channels
    BY DEF Channels
  <2> HIDE DEF Init
  <2>6. /\ action = None /\ saved = None /\ published = None
        /\ now = 0 /\ left = 0 /\ failedWrites = 0
    BY DEF Init
  <2> QED BY <2>1, <2>2, <2>3, <2>4, <2>5, <2>6 DEF TypeOK
<1> QED BY <1>1, DisabledLemma
        DEF IInv, DrivenInv, TimerInv, PublishedInv, PublishedAgrees, StoreInv

LEMMA SetChannelStep ==
    ASSUME IInv, NEW c \in Channels, NEW s \in {"Open", "Closed"}, SetChannel(c, s)
    PROVE  IInv'
<1> USE DEF IInv, SetChannel, wireVars, storeVars, mqttVars
<1>1. TypeOK'
  BY DEF TypeOK
<1>2. DrivenInv'
  BY DEF DrivenInv
<1>3. TimerInv'
  BY DEF TimerInv, Unreachable, Before, Behind
<1>4. PublishedInv'
  BY DEF PublishedInv, PublishedAgrees, StateStr
<1>5. StoreInv'
  BY DEF StoreInv
<1> QED BY <1>1, <1>2, <1>3, <1>4, <1>5

(* Stop, and what follows of it for the pins and the timer.                *)
LEMMA StopStep ==
    ASSUME Stop
    PROVE  DrivenInv' /\ TimerInv'
BY DisabledLemma DEF Stop, DrivenInv, TimerInv

LEMMA AbortStep ==
    ASSUME IInv, now' \in Clock, Abort
    PROVE  IInv'
<1> USE DEF IInv
<1>1. state' \in [Channels -> ChannelStates]
  BY DEF Abort, TypeOK, ChannelStates
<1>2. PublishState /\ connected' = connected
  BY DEF Abort
<1>3. connected' \in BOOLEAN /\ (connected => connected')
  BY <1>2 DEF TypeOK
<1>4. /\ published' \in {None} \cup [Channels -> ChannelStates \cup {"Busy"}]
      /\ saved' \in {None} \cup [Channels -> ChannelStates]
      /\ unsaved' \in BOOLEAN
      /\ failedWrites' \in 0..MaxFailedWrites
      /\ PublishedInv' /\ StoreInv'
  BY <1>1, <1>2, <1>3, PublishLemma
<1>5. TypeOK'
  BY <1>1, <1>2, <1>4, DisabledLemma DEF Abort, Stop, TypeOK
<1> QED BY <1>4, <1>5, StopStep DEF Abort

LEMMA LimitStep ==
    ASSUME IInv, now' \in Clock, Limit
    PROVE  IInv'
<1> USE DEF IInv
<1>1. state' \in [Channels -> ChannelStates]
  BY DEF Limit, TypeOK
<1>2. PublishState /\ connected' = connected
  BY DEF Limit
<1>3. connected' \in BOOLEAN /\ (connected => connected')
  BY <1>2 DEF TypeOK
<1>4. /\ published' \in {None} \cup [Channels -> ChannelStates \cup {"Busy"}]
      /\ saved' \in {None} \cup [Channels -> ChannelStates]
      /\ unsaved' \in BOOLEAN
      /\ failedWrites' \in 0..MaxFailedWrites
      /\ PublishedInv' /\ StoreInv'
  BY <1>1, <1>2, <1>3, PublishLemma
<1>5. TypeOK'
  BY <1>1, <1>2, <1>4, DisabledLemma DEF Limit, Stop, TypeOK
<1> QED BY <1>4, <1>5, StopStep DEF Limit

(* A millisecond, or none.                                                 *)
LEMMA TickLemma ==
    ASSUME TypeOK, now' = now \/ now' = (now + 1) % Turn
    PROVE  now' \in Clock
<1>1. Turn \in Nat \ {0} /\ now \in Clock
  BY TurnAssumption DEF TypeOK
<1>2. (now + 1) % Turn \in Clock
  BY <1>1 DEF Clock
<1> QED BY <1>1, <1>2

(* The time that is left of a deadline that is not reached yet.            *)
LEMMA StillMovingLemma ==
    ASSUME TypeOK, TimerInv,
           now' = now \/ now' = (now + 1) % Turn,
           ~Reached(motorTimeout, now'),
           left' = IF now' = now \/ left < 0 THEN left ELSE left - 1,
           motorTimeout' = motorTimeout
    PROVE  left' \in Int /\ TimerInv'
<1>1. left' \in Int
  BY DEF TypeOK
<1>2. CASE ~motorTimeout.active
  BY <1>1, <1>2 DEF TimerInv
<1>3. CASE Unreachable(motorTimeout)
  BY <1>1, <1>3 DEF TimerInv, Unreachable
<1>4. CASE motorTimeout.active /\ ~Unreachable(motorTimeout)
  <2>1. Before(motorTimeout, now, left) \/ Behind(motorTimeout, now, left)
    BY <1>4 DEF TimerInv
  <2>2. CASE now' = now
    BY <1>1, <2>1, <2>2 DEF TimerInv, Before, Behind
  <2>3. CASE now' # now
    <3>1. /\ motorTimeout \in [active : BOOLEAN, overflow : BOOLEAN, time : Clock]
          /\ now \in Clock /\ left \in Int
      BY DEF TypeOK
    <3>2. now' = (now + 1) % Turn
      BY <2>3
    <3>3. /\ left >= 0
          /\ Reached(motorTimeout, now') <=> left = 0
          /\ left > 0 => \/ Before(motorTimeout, now', left - 1)
                         \/ Behind(motorTimeout, now', left - 1)
      BY <1>4, <2>1, <3>1, <3>2, ReachedLemma
    <3>4. left > 0 /\ left' = left - 1
      BY <2>3, <3>1, <3>3
    <3> QED BY <1>1, <3>3, <3>4 DEF TimerInv, Before, Behind
  <2> QED BY <2>2, <2>3
<1> QED BY <1>2, <1>3, <1>4

LEMMA MovingStep ==
    ASSUME IInv, now' = now \/ now' = (now + 1) % Turn, Moving \/ TestMoving
    PROVE  IInv'
<1> USE DEF IInv
<1>1. /\ ~Reached(motorTimeout, now')
      /\ left' = IF now' = now \/ left < 0 THEN left ELSE left - 1
      /\ UNCHANGED <<controlVars, driven, shunt, storeVars, mqttVars>>
  BY Zenon DEF Moving, TestMoving
<1> USE DEF controlVars, storeVars, mqttVars
<1>2. left' \in Int /\ TimerInv'
  BY <1>1, StillMovingLemma
<1>3. TypeOK'
  BY <1>1, <1>2, TickLemma DEF TypeOK
<1>4. DrivenInv'
  BY <1>1 DEF DrivenInv
<1>5. PublishedInv'
  BY <1>1 DEF PublishedInv, PublishedAgrees, StateStr
<1>6. StoreInv'
  BY <1>1 DEF StoreInv
<1> QED BY <1>2, <1>3, <1>4, <1>5, <1>6

LEMMA IdleStep ==
    ASSUME IInv, now' \in Clock, Idle
    PROVE  IInv'
<1> USE DEF IInv, Idle, controlVars, wireVars, storeVars, mqttVars
<1>1. TypeOK'
  BY DEF TypeOK
<1>2. DrivenInv'
  BY DEF DrivenInv
<1>3. TimerInv'
  BY DEF TimerInv
<1>4. PublishedInv'
  BY DEF PublishedInv, PublishedAgrees, StateStr
<1>5. StoreInv'
  BY DEF StoreInv
<1> QED BY <1>1, <1>2, <1>3, <1>4, <1>5

LEMMA TestLimitStep ==
    ASSUME IInv, now' \in Clock, TestLimit
    PROVE  IInv'
<1> USE DEF IInv
<1>1. /\ isTestMode' = FALSE /\ Stop /\ published' = None
      /\ UNCHANGED <<action, state, swapped, activeChannel, shunt, left,
                     storeVars, connected>>
  BY DEF TestLimit
<1> USE DEF storeVars
<1>2. TypeOK'
  <2>1. isTestMode' \in BOOLEAN
    BY <1>1, Zenon
  <2>2. /\ motorTimeout' \in [active : BOOLEAN, overflow : BOOLEAN, time : Clock]
        /\ driven' = {}
    BY <1>1, DisabledLemma, Zenon DEF Stop
  <2> QED BY <1>1, <2>1, <2>2 DEF TypeOK
<1>3. PublishedInv'
  BY <1>1 DEF PublishedInv, PublishedAgrees
<1>4. StoreInv'
  BY <1>1 DEF StoreInv
<1> QED BY <1>1, <1>2, <1>3, <1>4, StopStep

(* A motor that is started: one pin, and a deadline that is as far away as *)
(* the time that is left.                                                  *)
LEMMA DriveLemma ==
    ASSUME now' \in Clock, left' \in 0..Half,
           motorTimeout' = SetTimer(now', left'),
           NEW p \in Pins, driven' = {p}, isTestMode' \/ shunt' = p[1]
    PROVE  /\ motorTimeout' \in [active : BOOLEAN, overflow : BOOLEAN, time : Clock]
           /\ DrivenInv'
           /\ TimerInv'
<1> DEFINE n == now'
           d == left'
           timer == motorTimeout'
<1>1. /\ timer \in [active : BOOLEAN, overflow : BOOLEAN, time : Clock]
      /\ timer.active
      /\ Unreachable(timer) \/ Before(timer, n, d) \/ Behind(timer, n, d)
  BY SetTimerLemma
<1>2. DrivenInv'
  BY <1>1, Zenon DEF DrivenInv
<1>3. TimerInv'
  BY <1>1, Zenon DEF TimerInv, Unreachable, Before, Behind
<1> QED BY <1>1, <1>2, <1>3

LEMMA StartStep ==
    ASSUME IInv, now' \in Clock, Start
    PROVE  IInv'
<1> USE DEF IInv
<1>1. action.channel \in Channels /\ action.state \in {"Open", "Closed"}
  BY DEF Start, TypeOK
<1>2. state' \in [Channels -> ChannelStates]
  BY <1>1 DEF Start, TypeOK, ChannelStates
<1>3. PublishState /\ connected' = connected
  BY DEF Start
<1>4. connected' \in BOOLEAN /\ (connected => connected')
  BY <1>3 DEF TypeOK
<1>5. /\ published' \in {None} \cup [Channels -> ChannelStates \cup {"Busy"}]
      /\ saved' \in {None} \cup [Channels -> ChannelStates]
      /\ unsaved' \in BOOLEAN
      /\ failedWrites' \in 0..MaxFailedWrites
      /\ PublishedInv' /\ StoreInv'
  BY <1>2, <1>3, <1>4, PublishLemma
<1>6. left' \in 0..Half /\ left' \in Int
  BY BlindsAssumption, HalfLemma DEF Start
<1>7. PICK p : p = <<Motor(action.channel), action.state = "Open">>
  OBVIOUS
<1>8. p \in Pins /\ p[1] = Motor(action.channel)
  BY <1>1, <1>7, MotorLemma DEF Pins
<1>9. driven' = {p} /\ shunt' = p[1] /\ shunt' \in Channels
  BY <1>1, <1>7, <1>8, MotorLemma DEF Start, ClearAdc
<1>10. motorTimeout' = SetTimer(now', left')
  BY DEF Start
<1>11. /\ motorTimeout' \in [active : BOOLEAN, overflow : BOOLEAN, time : Clock]
       /\ DrivenInv' /\ TimerInv'
  BY <1>6, <1>8, <1>9, <1>10, DriveLemma
<1>12. TypeOK'
  BY <1>1, <1>2, <1>3, <1>5, <1>6, <1>8, <1>9, <1>11 DEF Start, TypeOK
<1> QED BY <1>5, <1>11, <1>12

LEMMA TestMotorStep ==
    ASSUME IInv, NEW c \in Channels, NEW d \in BOOLEAN, NEW time \in TestTimes,
           TestMotor(c, d, time)
    PROVE  IInv'
<1> USE DEF IInv
<1>1. /\ isTestMode' = TRUE /\ published' = None
      /\ activeChannel' = Motor(c) /\ driven' = {<<Motor(c), d>>}
      /\ motorTimeout' = SetTimer(now, time) /\ left' = time
      /\ ClearAdc
      /\ UNCHANGED <<action, state, swapped, storeVars, connected, now>>
  BY DEF TestMotor
<1> USE DEF storeVars
<1>2. now' \in Clock /\ left' \in 0..Half /\ left' \in Int
  BY <1>1, BlindsAssumption, HalfLemma DEF TypeOK
<1>3. <<Motor(c), d>> \in Pins /\ activeChannel' \in Channels /\ shunt' \in Channels
  <2>1. Motor(c) \in Channels /\ Motor(Motor(c)) \in Channels
    BY MotorLemma
  <2> QED BY <1>1, <2>1 DEF Pins, ClearAdc
<1>4. motorTimeout' = SetTimer(now', left') /\ isTestMode'
  BY <1>1
<1>5. /\ motorTimeout' \in [active : BOOLEAN, overflow : BOOLEAN, time : Clock]
      /\ DrivenInv' /\ TimerInv'
  BY <1>1, <1>2, <1>3, <1>4, DriveLemma
<1>6. TypeOK'
  <2>1. isTestMode' \in BOOLEAN
    BY <1>1, Zenon
  <2> QED BY <1>1, <1>2, <1>3, <1>5, <2>1 DEF TypeOK
<1>7. PublishedInv'
  BY <1>1 DEF PublishedInv, PublishedAgrees
<1>8. StoreInv'
  BY <1>1 DEF StoreInv
<1> QED BY <1>5, <1>6, <1>7, <1>8

(* The saved states, if there are any.                                     *)
LEMMA LoadLemma ==
    ASSUME TypeOK, LoadState
    PROVE  state' \in [Channels -> ChannelStates]
BY DEF TypeOK, LoadState

LEMMA OnConnectStep ==
    ASSUME IInv, OnConnect
    PROVE  IInv'
<1> USE DEF IInv
<1>1. /\ connected' = TRUE /\ LoadState /\ PublishState
      /\ UNCHANGED <<action, swapped, activeChannel, motorTimeout, isTestMode>>
      /\ UNCHANGED <<wireVars, now>>
  BY DEF OnConnect
<1> USE DEF wireVars
<1>2. state' \in [Channels -> ChannelStates]
  BY <1>1, LoadLemma
<1>3. connected' \in BOOLEAN /\ (connected => connected')
  BY <1>1, Zenon
<1>4. /\ published' \in {None} \cup [Channels -> ChannelStates \cup {"Busy"}]
      /\ saved' \in {None} \cup [Channels -> ChannelStates]
      /\ unsaved' \in BOOLEAN
      /\ failedWrites' \in 0..MaxFailedWrites
      /\ PublishedInv' /\ StoreInv'
  BY <1>1, <1>2, <1>3, PublishLemma
<1>5. TypeOK'
  BY <1>1, <1>2, <1>3, <1>4 DEF TypeOK
<1>6. DrivenInv'
  BY <1>1 DEF DrivenInv
<1>7. TimerInv'
  BY <1>1 DEF TimerInv
<1> QED BY <1>4, <1>5, <1>6, <1>7

LEMMA DisconnectStep ==
    ASSUME IInv, Disconnect
    PROVE  IInv'
<1> USE DEF IInv, controlVars, wireVars, storeVars
<1>1. /\ connected' = FALSE /\ published' = None
      /\ UNCHANGED <<controlVars, wireVars, storeVars, now>>
  BY DEF Disconnect
<1>2. connected' \in BOOLEAN
  BY <1>1, Zenon
<1>3. TypeOK'
  BY <1>1, <1>2 DEF TypeOK
<1>4. DrivenInv'
  BY <1>1 DEF DrivenInv
<1>5. TimerInv'
  BY <1>1 DEF TimerInv
<1>6. PublishedInv'
  BY <1>1 DEF PublishedInv, PublishedAgrees
<1>7. StoreInv'
  BY <1>1 DEF StoreInv
<1> QED BY <1>3, <1>4, <1>5, <1>6, <1>7

LEMMA ReconfigureStep ==
    ASSUME IInv, Reconfigure
    PROVE  IInv'
<1> USE DEF IInv, Reconfigure, wireVars, storeVars
<1>1. state' \in [Channels -> ChannelStates]
  BY LoadLemma
<1>2. TypeOK'
  BY <1>1 DEF TypeOK
<1>3. DrivenInv'
  BY DEF DrivenInv
<1>4. TimerInv'
  BY DEF TimerInv
<1>5. PublishedInv'
  BY DEF PublishedInv, PublishedAgrees, StateStr
<1>6. StoreInv'
  BY DEF StoreInv, LoadState
<1> QED BY <1>2, <1>3, <1>4, <1>5, <1>6

LEMMA SetStateStep ==
    ASSUME IInv, NEW c \in Channels, NEW s \in {"Open", "Closed"}, SetState(c, s)
    PROVE  IInv'
<1> USE DEF IInv, wireVars
<1>1. /\ state' = [state EXCEPT ![c] = s] /\ SaveState /\ published' = None
      /\ UNCHANGED <<action, swapped, activeChannel, motorTimeout, isTestMode,
                     wireVars, connected, now>>
  BY DEF SetState
<1>2. state' \in [Channels -> ChannelStates]
  BY <1>1 DEF TypeOK, ChannelStates
<1>3. /\ saved' \in {None} \cup [Channels -> ChannelStates]
      /\ unsaved' \in BOOLEAN
      /\ failedWrites' \in 0..MaxFailedWrites
  <2>1. CASE saved' = state' /\ unsaved' = FALSE /\ UNCHANGED failedWrites
    BY <1>2, <2>1 DEF TypeOK
  <2>2. CASE /\ failedWrites < MaxFailedWrites
             /\ failedWrites' = failedWrites + 1
             /\ unsaved' = TRUE
             /\ UNCHANGED saved
    BY <2>2, BlindsAssumption DEF TypeOK
  <2> QED BY <1>1, <2>1, <2>2 DEF SaveState
<1>4. TypeOK'
  BY <1>1, <1>2, <1>3 DEF TypeOK
<1>5. DrivenInv'
  BY <1>1 DEF DrivenInv
<1>6. TimerInv'
  BY <1>1 DEF TimerInv
<1>7. PublishedInv'
  BY <1>1 DEF PublishedInv, PublishedAgrees
<1>8. StoreInv'
  BY <1>1 DEF StoreInv, SaveState
<1> QED BY <1>4, <1>5, <1>6, <1>7, <1>8

LEMMA RestartStep ==
    ASSUME IInv, Restart
    PROVE  IInv'
<1> USE DEF IInv, storeVars
<1>1. /\ action' = None /\ activeChannel' = 0 /\ motorTimeout' = Disabled
      /\ isTestMode' = FALSE /\ driven' = {} /\ shunt' = 1 /\ left' = 0 /\ now' = 0
      /\ connected' = FALSE /\ published' = None
      /\ saved' \in {saved, EmptyFile}
      /\ state' = IF saved' = None THEN [c \in Channels |-> "???"] ELSE saved'
      /\ UNCHANGED <<swapped, unsaved, failedWrites>>
  BY DEF Restart
<1>2. /\ state' \in [Channels -> ChannelStates]
      /\ saved' \in {None} \cup [Channels -> ChannelStates]
  BY <1>1 DEF TypeOK, ChannelStates, EmptyFile
<1>3. isTestMode' \in BOOLEAN /\ connected' \in BOOLEAN
  BY <1>1, Zenon
<1>4. motorTimeout' \in [active : BOOLEAN, overflow : BOOLEAN, time : Clock]
  BY <1>1, DisabledLemma, Zenon
<1>5. 0 \in Clock
  BY HalfLemma DEF Clock
<1>6. TypeOK'
  BY <1>1, <1>2, <1>3, <1>4, <1>5 DEF TypeOK, Channels
<1>7. DrivenInv'
  BY <1>1 DEF DrivenInv
<1>8. TimerInv'
  BY <1>1, DisabledLemma DEF TimerInv
<1>9. PublishedInv'
  BY <1>1 DEF PublishedInv, PublishedAgrees
<1>10. StoreInv'
  BY <1>1 DEF StoreInv
<1> QED BY <1>6, <1>7, <1>8, <1>9, <1>10

LEMMA LoopStep ==
    ASSUME IInv, Loop
    PROVE  IInv'
<1>1. now' = now \/ now' = (now + 1) % Turn
  <2>1. PICK t \in {0, 1} : now' = (now + t) % Turn
    BY DEF Loop
  <2>2. now \in Nat /\ now < Turn /\ Turn \in Nat \ {0}
    BY TurnAssumption DEF IInv, TypeOK, Clock
  <2>3. CASE t = 0
    BY <2>1, <2>2, <2>3
  <2> QED BY <2>1, <2>3
<1>2. now' \in Clock
  BY <1>1, TickLemma DEF IInv
<1>3. LoopMethod
  BY DEF Loop
<1>4. Abort \/ Start \/ Moving \/ Limit \/ Idle \/ TestMoving \/ TestLimit
  BY <1>3, Zenon DEF LoopMethod
<1> QED BY <1>1, <1>2, <1>4, AbortStep, StartStep, MovingStep, LimitStep, IdleStep,
           TestLimitStep

LEMMA StutterStep ==
    ASSUME IInv, UNCHANGED vars
    PROVE  IInv'
<1> USE DEF IInv, vars, controlVars, wireVars, storeVars, mqttVars
<1>1. TypeOK'
  BY DEF TypeOK
<1>2. DrivenInv'
  BY DEF DrivenInv
<1>3. TimerInv'
  BY DEF TimerInv
<1>4. PublishedInv'
  BY DEF PublishedInv, PublishedAgrees, StateStr
<1>5. StoreInv'
  BY DEF StoreInv
<1> QED BY <1>1, <1>2, <1>3, <1>4, <1>5

LEMMA NextStep ==
    ASSUME IInv, [Next]_vars
    PROVE  IInv'
<1>1. CASE \E c \in Channels, s \in {"Open", "Closed"} : SetChannel(c, s)
  BY <1>1, SetChannelStep
<1>2. CASE Loop
  BY <1>2, LoopStep
<1>3. CASE OnConnect
  BY <1>3, OnConnectStep
<1>4. CASE Disconnect
  BY <1>4, DisconnectStep
<1>5. CASE Reconfigure
  BY <1>5, ReconfigureStep
<1>6. CASE AtCommand
  BY <1>6, SetStateStep, TestMotorStep DEF AtCommand
<1>7. CASE Restart
  BY <1>7, RestartStep
<1>8. CASE UNCHANGED vars
  BY <1>8, StutterStep
<1> QED BY <1>1, <1>2, <1>3, <1>4, <1>5, <1>6, <1>7, <1>8 DEF Next

LEMMA Invariant == Spec => []IInv
<1>1. Init => IInv
  BY InitStep
<1>2. IInv /\ [Next]_vars => IInv'
  BY NextStep
<1> QED BY <1>1, <1>2, PTL DEF Spec

-----------------------------------------------------------------------------
(* The variables have their types: no failed write or late command leaves  *)
(* a state, a channel or a deadline that is none.                          *)
THEOREM TypeCorrect == Spec => []TypeOK
<1>1. IInv => TypeOK
  BY DEF IInv
<1> QED BY <1>1, Invariant, PTL

(* However commands, tests, reconnects and settings meet, _loopMethod and  *)
(* +BCME drive one pin of one motor at most, while its time limit runs and *)
(* with the shunt of this motor selected.                                  *)
THEOREM OneMotorAtATime == Spec => []OneMotor
<1>1. IInv => OneMotor
  <2> SUFFICES ASSUME IInv PROVE OneMotor
    OBVIOUS
  <2>1. CASE driven = {}
    BY <2>1, FS_EmptySet DEF OneMotor
  <2>2. CASE \E p \in Pins : driven = {p} /\ (isTestMode \/ shunt = p[1])
    <3>1. PICK p \in Pins : driven = {p} /\ (isTestMode \/ shunt = p[1])
      BY <2>2
    <3>2. Cardinality(driven) = 1
      BY <3>1, FS_Singleton
    <3>3. motorTimeout.active
      BY <3>1 DEF IInv, DrivenInv
    <3> QED BY <3>1, <3>2, <3>3 DEF OneMotor
  <2> QED BY <2>1, <2>2 DEF IInv, DrivenInv
<1> QED BY <1>1, Invariant, PTL

(* MillisTimer on a clock of any even length that wraps around: a motor    *)
(* runs for its time limit, not longer and not less, unless its deadline   *)
(* is the one value that is never behind the clock.                        *)
THEOREM TimeLimitIsExact == Spec => []TimerIsRight
<1>1. IInv => TimerIsRight
  <2> SUFFICES ASSUME IInv, motorTimeout.active, ~Unreachable(motorTimeout)
               PROVE  /\ left >= 0
                      /\ ~Reached(motorTimeout, now)
                      /\ Reached(motorTimeout, (now + 1) % Turn) <=> left = 0
    BY DEF TimerIsRight
  <2>1. /\ motorTimeout \in [active : BOOLEAN, overflow : BOOLEAN, time : Clock]
        /\ now \in Clock /\ left \in Int
    BY DEF IInv, TypeOK
  <2>2. Before(motorTimeout, now, left) \/ Behind(motorTimeout, now, left)
    BY DEF IInv, TimerInv
  <2> QED BY <2>1, <2>2, ReachedLemma
<1> QED BY <1>1, Invariant, PTL

(* _publishState is called wherever a state changes: the broker has the    *)
(* state of every channel.                                                 *)
THEOREM BrokerHasTheState == Spec => []PublishedAgrees
<1>1. IInv => PublishedAgrees
  BY DEF IInv, PublishedInv
<1> QED BY <1>1, Invariant, PTL

(* The reload of the saved states by a reconnect of MQTT and by new        *)
(* settings changes no state unless the last write failed: in every other  *)
(* case the state has been saved since it changed.                         *)
THEOREM ReloadIsIdle == Spec => ReloadKeepsStates
<1>1. IInv /\ [Next]_vars =>
        [(connected' /\ ~connected) \/ swapped' # swapped
         => saved = None \/ unsaved \/ state' = state]_vars
  <2> SUFFICES ASSUME IInv, [Next]_vars, ~UNCHANGED vars,
                      (connected' /\ ~connected) \/ swapped' # swapped
               PROVE  saved = None \/ unsaved \/ state' = state
    OBVIOUS
  <2>1. saved = None \/ unsaved \/ saved = state
    BY DEF IInv, StoreInv
  <2>2. CASE LoadState
    BY <2>1, <2>2 DEF LoadState
  <2>3. OnConnect \/ Reconfigure \/ UNCHANGED <<connected, swapped>> \/ Disconnect \/ Restart
    BY DEF Next, SetChannel, Loop, LoopMethod, Abort, Start, Moving, Limit, Idle,
           TestMoving, TestLimit, AtCommand, SetState, TestMotor, controlVars,
           storeVars, mqttVars, vars
  <2>4. ~Disconnect /\ ~Restart
    <3>1. Disconnect \/ Restart => connected' = FALSE /\ swapped' = swapped
      BY DEF Disconnect, Restart, controlVars
    <3> QED BY <3>1
  <2>5. ~UNCHANGED <<connected, swapped>>
    OBVIOUS
  <2> QED BY <2>2, <2>3, <2>4, <2>5 DEF OnConnect, Reconfigure
<1> QED BY <1>1, Invariant, PTL DEF Spec, ReloadKeepsStates
=============================================================================
