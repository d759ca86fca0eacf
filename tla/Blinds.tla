------------------------------- MODULE Blinds -------------------------------
(***************************************************************************)
(* The blinds controller, src/plugins/blinds_ctrl: two motors, one of them *)
(* driven at a time, switched off by a current limit or a time limit.      *)
(* Commands of MQTT and of the web UI are left in a slot for the loop      *)
(* function; a reconnect of MQTT and every change of the settings read the *)
(* settings and the saved states back, and AT commands set states and      *)
(* drive motors by hand.  One step of Loop is one call of loopMethod(), at *)
(* least one in every millisecond (BlindsControl.cpp:153).  The settings   *)
(* of the directions only exchange the two pins of a motor and are left    *)
(* out; so is stall protection, which is not compiled by default.          *)
(***************************************************************************)
EXTENDS MillisTimer, FiniteSets

CONSTANTS
    OpenTime,        \* the time limits of every channel
    CloseTime,
    TestTimes,       \* the time limits of +BCME
    MaxFailedWrites, \* bound: writes of the states that fail
    None

ASSUME BlindsAssumption ==
    /\ TestTimes \cup {OpenTime, CloseTime} \subseteq 0..Half
    /\ MaxFailedWrites \in Nat

Channels == {0, 1}
Pins == Channels \X BOOLEAN      \* two of every motor, one for each direction

VARIABLES
    action,          \* _action: [channel, state] or None
    state,           \* _state of every channel
    swapped,         \* _swapChannels
    activeChannel,   \* _activeChannel
    motorTimeout,    \* _motorTimeout
    isTestMode,      \* _isTestMode
    driven,          \* the pins that are not low
    shunt,           \* the motor the shunt multiplexer selects
    saved,           \* the states on SPIFFS, or None
    connected,       \* the MQTT client is connected
    published,       \* history: what the broker has been told since it is
                     \* connected and AT commands have acted, or None
    now,             \* millis()
    left,            \* history: the time the motor still may run
    unsaved,         \* history: the last write of the states failed
    failedWrites     \* the failed writes so far

controlVars == <<action, state, swapped, activeChannel, motorTimeout, isTestMode>>
wireVars == <<driven, shunt, left>>
storeVars == <<saved, unsaved, failedWrites>>
mqttVars == <<connected, published>>
vars == <<controlVars, wireVars, storeVars, mqttVars, now>>

Init ==
    /\ action = None
    /\ state = [c \in Channels |-> "???"]
    /\ swapped \in BOOLEAN
    /\ activeChannel = 0
    /\ motorTimeout = Disabled
    /\ isTestMode = FALSE
    /\ driven = {}
    /\ shunt = 1
    /\ saved = None
    /\ connected = FALSE
    /\ published = None
    /\ now = 0
    /\ left = 0
    /\ unsaved = FALSE
    /\ failedWrites = 0

-----------------------------------------------------------------------------
Motor(c) == IF swapped THEN 1 - c ELSE c

(* _getStateStr                                                            *)
StateStr(timer, active, st, c) ==
    IF timer.active /\ active = c THEN "Busy" ELSE st[c]

(* _saveState; the file may not open.                                      *)
SaveState ==
    \/ saved' = state' /\ unsaved' = FALSE /\ UNCHANGED failedWrites
    \/ /\ failedWrites < MaxFailedWrites
       /\ failedWrites' = failedWrites + 1
       /\ unsaved' = TRUE
       /\ UNCHANGED saved

(* _publishState, with the save at its end.                                *)
PublishState ==
    /\ IF connected'
       THEN published' = [c \in Channels |->
                            StateStr(motorTimeout', activeChannel', state', c)]
       ELSE UNCHANGED published
    /\ SaveState

(* _loadState                                                              *)
LoadState == state' = IF saved = None THEN state ELSE saved

(* Mutant of Stop: the pins are low, the timer goes on.                    *)
StopPins ==
    /\ UNCHANGED motorTimeout
    /\ driven' = {}

(* _stop                                                                   *)
Stop ==
    /\ motorTimeout' = Disabled
    /\ driven' = {}

(* _clearAdc: the shunt of the active channel.                             *)
ClearAdc == shunt' = Motor(activeChannel')

-----------------------------------------------------------------------------
(* setChannel, called by onMessage and by setValue of the web UI.          *)
SetChannel(c, s) ==
    /\ action' = [channel |-> c, state |-> s]
    /\ UNCHANGED <<state, swapped, activeChannel, motorTimeout, isTestMode,
                   wireVars, storeVars, mqttVars, now>>

(* Mutant of Abort: the stop is neither published nor saved.               *)
AbortSilently ==
    /\ motorTimeout.active
    /\ action # None
    /\ action.channel = activeChannel
    /\ action' = None
    /\ Stop
    /\ state' = [state EXCEPT ![activeChannel] = "Stopped"]
    /\ UNCHANGED <<swapped, activeChannel, isTestMode, shunt, left, storeVars, mqttVars>>

(* _loopMethod.  A command for the channel that moves stops it.            *)
Abort ==
    /\ motorTimeout.active
    /\ action # None
    /\ action.channel = activeChannel
    /\ action' = None
    /\ Stop
    /\ state' = [state EXCEPT ![activeChannel] = "Stopped"]
    /\ UNCHANGED <<swapped, activeChannel, isTestMode, shunt, left, connected>>
    /\ PublishState

(* A motor that moves: on its way, or at a limit.  A command for the other *)
(* channel stays in the slot.                                              *)
Moving ==
    /\ motorTimeout.active
    /\ action # None => action.channel # activeChannel
    /\ ~Reached(motorTimeout, now')
    /\ left' = IF now' = now \/ left < 0 THEN left ELSE left - 1
    /\ UNCHANGED <<controlVars, driven, shunt, storeVars, mqttVars>>

(* Mutant of Limit: the return of the stall protection, which publishes    *)
(* nothing.                                                                *)
LimitSilently ==
    /\ motorTimeout.active
    /\ action # None => action.channel # activeChannel
    /\ Stop
    /\ UNCHANGED <<action, state, swapped, activeChannel, isTestMode, shunt, left,
                   storeVars, mqttVars>>

(* The limit of the current (at any time) or of the time.                  *)
Limit ==
    /\ motorTimeout.active
    /\ action # None => action.channel # activeChannel
    /\ Stop
    /\ UNCHANGED <<action, state, swapped, activeChannel, isTestMode, shunt, left, connected>>
    /\ PublishState

(* A command in the slot and nothing moves.  The states of an action are   *)
(* those the motor starts from.                                            *)
Start ==
    /\ ~motorTimeout.active
    /\ action # None
    /\ action' = None
    /\ activeChannel' = action.channel
    /\ driven' = {<<Motor(action.channel), action.state = "Open">>}
    /\ state' = [state EXCEPT ![action.channel] =
                    IF action.state = "Open" THEN "Closed" ELSE "Open"]
    /\ left' = IF action.state = "Closed" THEN OpenTime ELSE CloseTime
    /\ motorTimeout' = SetTimer(now', left')
    /\ ClearAdc
    /\ UNCHANGED <<swapped, isTestMode, connected>>
    /\ PublishState

Idle ==
    /\ ~motorTimeout.active
    /\ action = None
    /\ UNCHANGED <<controlVars, wireVars, storeVars, mqttVars>>

(* _testLoopMethod                                                         *)
TestMoving ==
    /\ ~Reached(motorTimeout, now')
    /\ left' = IF now' = now \/ left < 0 THEN left ELSE left - 1
    /\ UNCHANGED <<controlVars, driven, shunt, storeVars, mqttVars>>

TestLimit ==
    /\ isTestMode' = FALSE
    /\ Stop
    /\ published' = None
    /\ UNCHANGED <<action, state, swapped, activeChannel, shunt, left,
                   storeVars, connected>>

(* loopMethod, in the same millisecond as the last time or in the next.    *)
LoopMethod ==
    IF isTestMode THEN TestMoving \/ TestLimit
                  ELSE Abort \/ Start \/ Moving \/ Limit \/ Idle

Loop == \E t \in {0, 1} : now' = (now + t) % Turn /\ LoopMethod

LoopTick == now' = (now + 1) % Turn /\ LoopMethod

-----------------------------------------------------------------------------
(* onConnect, _readConfig.                                                 *)
OnConnect ==
    /\ ~connected
    /\ connected' = TRUE
    /\ LoadState
    /\ UNCHANGED <<action, swapped, activeChannel, motorTimeout, isTestMode>>
    /\ PublishState
    /\ UNCHANGED <<wireVars, now>>

Disconnect ==
    /\ connected
    /\ connected' = FALSE
    /\ published' = None
    /\ UNCHANGED <<controlVars, wireVars, storeVars, now>>

(* reconfigure, +BCMC, +BCMD: _readConfig with other settings.             *)
Reconfigure ==
    /\ swapped' \in BOOLEAN
    /\ LoadState
    /\ UNCHANGED <<action, activeChannel, motorTimeout, isTestMode, wireVars, storeVars,
                   connected, now>>
    /\ published' = IF state' = state THEN published ELSE None

(* +BCMS: the state of a channel is set and saved.                         *)
SetState(c, s) ==
    /\ state' = [state EXCEPT ![c] = s]
    /\ SaveState
    /\ published' = None
    /\ UNCHANGED <<action, swapped, activeChannel, motorTimeout, isTestMode,
                   wireVars, connected, now>>

(* Mutant of TestMotor: the pins are not switched off before.              *)
TestMotorToo(c, d, time) ==
    /\ isTestMode' = TRUE
    /\ activeChannel' = Motor(c)
    /\ driven' = driven \cup {<<Motor(c), d>>}
    /\ motorTimeout' = SetTimer(now, time)
    /\ left' = time
    /\ ClearAdc
    /\ published' = None
    /\ UNCHANGED <<action, state, swapped, storeVars, connected, now>>

(* +BCME: a motor is driven by hand.  The channel is swapped here and, for *)
(* the shunt, again in _clearAdc.                                          *)
TestMotor(c, d, time) ==
    /\ isTestMode' = TRUE
    /\ activeChannel' = Motor(c)
    /\ driven' = {<<Motor(c), d>>}
    /\ motorTimeout' = SetTimer(now, time)
    /\ left' = time
    /\ ClearAdc
    /\ published' = None
    /\ UNCHANGED <<action, state, swapped, storeVars, connected, now>>

(* An empty file: it is truncated before the states are written, and what  *)
(* _loadState does not find in it is 0.                                    *)
EmptyFile == [c \in Channels |-> "???"]

(* The device is switched off, or crashes, and starts again: _setup.  This *)
(* may happen inside _saveState.                                           *)
Restart ==
    /\ action' = None
    /\ saved' \in {saved, EmptyFile}
    /\ state' = IF saved' = None THEN [c \in Channels |-> "???"] ELSE saved'
    /\ activeChannel' = 0
    /\ motorTimeout' = Disabled
    /\ isTestMode' = FALSE
    /\ driven' = {}
    /\ shunt' = 1
    /\ left' = 0
    /\ now' = 0
    /\ connected' = FALSE
    /\ published' = None
    /\ UNCHANGED <<swapped, unsaved, failedWrites>>

AtCommand ==
    \E c \in Channels :
        \/ \E s \in {"Open", "Closed"} : SetState(c, s)
        \/ \E d \in BOOLEAN, time \in TestTimes : TestMotor(c, d, time)

Next ==
    \/ \E c \in Channels, s \in {"Open", "Closed"} : SetChannel(c, s)
    \/ Loop
    \/ OnConnect \/ Disconnect \/ Reconfigure
    \/ AtCommand
    \/ Restart

Spec == Init /\ [][Next]_vars

(* loop() runs and the clock goes on.                                      *)
FairSpec == Spec /\ WF_vars(LoopTick)

-----------------------------------------------------------------------------
ChannelStates == {"???", "Open", "Closed", "Stopped"}

TypeOK ==
    /\ action \in {None} \cup [channel : Channels, state : {"Open", "Closed"}]
    /\ state \in [Channels -> ChannelStates]
    /\ swapped \in BOOLEAN
    /\ activeChannel \in Channels
    /\ motorTimeout \in [active : BOOLEAN, overflow : BOOLEAN, time : Clock]
    /\ isTestMode \in BOOLEAN
    /\ driven \subseteq Pins
    /\ shunt \in Channels
    /\ saved \in {None} \cup [Channels -> ChannelStates]
    /\ connected \in BOOLEAN
    /\ published \in {None} \cup [Channels -> ChannelStates \cup {"Busy"}]
    /\ now \in Clock
    /\ left \in Int
    /\ unsaved \in BOOLEAN
    /\ failedWrites \in 0..MaxFailedWrites

(* However commands, tests and changes of the settings meet: one pin of    *)
(* one motor is driven at most, only while the time limit runs, and it is  *)
(* the current of this motor that the limit sees (tests have their own).   *)
OneMotor ==
    /\ Cardinality(driven) <= 1
    /\ \A p \in driven : motorTimeout.active /\ (isTestMode \/ shunt = p[1])

(* The same, for the tests too: the shunt _clearAdc selects is that of the *)
(* motor that is driven.                                                   *)
ShuntOfMotor == \A p \in driven : shunt = p[1]

(* On a clock that wraps around, a motor runs for its time limit, not      *)
(* longer and not less, unless the limit ends on the last value of the     *)
(* clock.                                                                  *)
TimerIsRight ==
    motorTimeout.active /\ ~Unreachable(motorTimeout) =>
        /\ left >= 0
        /\ ~Reached(motorTimeout, now)
        /\ Reached(motorTimeout, (now + 1) % Turn) <=> left = 0

(* "provides a timer based on millis that doesn't suffer from unsigned     *)
(* long overflow" (MillisTimer.h:11): no motor runs past its time limit.   *)
TimeLimitHolds == driven # {} => left >= 0

(* Whatever happens after a publish, the broker has the state of every     *)
(* channel, unless AT commands have meddled.                               *)
PublishedAgrees ==
    published # None =>
        \A c \in Channels : published[c] = StateStr(motorTimeout, activeChannel, state, c)

(* The reload of the saved states by a reconnect of MQTT or by new         *)
(* settings, in the middle of a motion too, changes the state of no        *)
(* channel unless the last write failed.                                   *)
ReloadKeepsStates ==
    [][(connected' /\ ~connected) \/ swapped' # swapped
        => saved = None \/ unsaved \/ state' = state]_vars

(* "abort if running, otherwise the action is queued"                      *)
(* (BlindsControl.cpp:135): a command is carried out, if need be after the *)
(* motion of the other channel, unless tests go on or the motor's deadline *)
(* is the one that is never reached.                                       *)
CommandsAreTaken ==
    action # None ~> (action = None \/ isTestMode \/ Unreachable(motorTimeout))
=============================================================================
