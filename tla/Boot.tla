-------------------------------- MODULE Boot --------------------------------
(***************************************************************************)
(* What happens between two resets of the device: the reset detector (its  *)
(* record in RTC memory and its 5 s timer), setup(), the crash counter in  *)
(* the file system, safe mode, factory settings, restart and deep sleep.   *)
(* The device can be reset between any two steps.  The RTC memory survives *)
(* all resets but a loss of power; a reset in the middle of a write leaves *)
(* a wrong CRC.  Time is not counted: setup() waits for at least 5 s in    *)
(* three places, so it cannot go on there before the timer has fired.      *)
(***************************************************************************)
EXTENDS Naturals

CONSTANTS
    CounterSize,     \* 2^8, for the reset counter and the crash counter
    FactoryResets,   \* 4 resets restore factory settings
    SlowResets,      \* 20 resets delay the boot
    MaxCrashes,      \* 3 crashes ask for safe mode
    NoFile, EmptyFile, Invalid

ASSUME CounterAssumption ==
    /\ CounterSize \in Nat
    /\ 1 < FactoryResets /\ FactoryResets < SlowResets /\ SlowResets < CounterSize
    /\ 0 < MaxCrashes /\ MaxCrashes < CounterSize
    /\ FactoryResets \in Nat /\ SlowResets \in Nat /\ MaxCrashes \in Nat
    /\ {NoFile, EmptyFile, Invalid} \cap Nat = {}
    /\ NoFile # EmptyFile

VARIABLES
    pc,            \* where setup() is; "running" after it
    reason,        \* ResetDetector::_resetReason
    resetCounter,  \* ResetDetector::_resetCounter
    safeMode,      \* ResetDetector::_safeMode
    rtc,           \* the record in RTC memory, or Invalid
    timer,         \* the timer of the reset detector is armed
    crashFile,     \* the crash counter file
    crashes,       \* local variable counter of setup()
    incr,          \* local variable incr_crash_counter
    safeBoot,      \* local variable safe_mode
    configSafe,    \* KFCFWConfiguration::_safeMode
    stableTimer,   \* the timer of 180 s is in the scheduler
    settings,      \* "user" or "factory"
    left,          \* the device is left alone from now on
    streak,        \* history: resets, each before the timer of its boot fired
    crashRow,      \* history: crashes in a row without safe mode
    asked          \* history: reset while asked to, for safe mode

detector == <<resetCounter, safeMode, rtc, timer>>
locals == <<reason, crashes, incr, safeBoot>>
history == <<left, streak, crashRow, asked>>
vars == <<pc, detector, crashFile, locals, configSafe, stableTimer, settings, history>>

Counter == 0..CounterSize - 1
Reasons == {"power", "ext", "crash", "restart", "wake"}
Places == {"slow", "start", "leds", "mode", "safeDelay", "wait", "crashFile", "crashWrite",
           "plugins", "running", "restarting", "asleep"}

(* ResetDetector::_writeData, and what it writes                           *)
Record(c, s) == [counter |-> c, safe |-> s]
Write(c, s) ==
    /\ resetCounter' = c
    /\ safeMode' = s
    /\ rtc' = Record(c, s)

Init ==
    /\ pc = "start"
    /\ reason = "power"
    /\ resetCounter = 0
    /\ safeMode = FALSE
    /\ rtc = Record(0, FALSE)
    /\ timer = TRUE
    /\ crashFile = NoFile
    /\ crashes = 0
    /\ incr = FALSE
    /\ safeBoot = FALSE
    /\ configSafe = FALSE
    /\ stableTimer = FALSE
    /\ settings \in {"user", "factory"}
    /\ left = FALSE
    /\ streak = 0
    /\ crashRow = 0
    /\ asked = FALSE

-----------------------------------------------------------------------------
(* A reset, and the constructor of the reset detector that runs after it.  *)
(* The program is on its way to write the RTC memory: it may be torn.      *)
Writing == pc \notin {"running", "asleep"} \/ timer \/ stableTimer

HasResetDetected == reason \in {"power", "ext"}

Reset(r, record) ==
    /\ reason' = r
    /\ LET valid == record # Invalid
           count == IF valid THEN (record.counter + 1) % CounterSize ELSE 0
       IN  /\ Write(count, valid /\ record.safe)
           /\ pc' = IF count >= SlowResets THEN "slow" ELSE "start"
           /\ streak' = IF ~valid THEN 0
                        ELSE IF timer THEN (IF streak < CounterSize THEN streak + 1 ELSE streak)
                        ELSE 1
           /\ crashRow' = IF valid /\ r = "crash" /\ pc \in {"plugins", "running"} /\ ~safeBoot
                          THEN (IF crashRow < MaxCrashes + 3 THEN crashRow + 1 ELSE crashRow)
                          ELSE 0
           /\ asked' = (valid /\ r = "ext" /\ pc = "wait")
    /\ timer' = TRUE
    /\ crashes' = 0
    /\ incr' = FALSE
    /\ safeBoot' = FALSE
    /\ configSafe' = FALSE
    /\ stableTimer' = FALSE
    /\ UNCHANGED <<crashFile, settings, left>>

PowerOn == ~left /\ Reset("power", Invalid)

(* The reset pin, or a watchdog or an exception.                           *)
ResetOrCrash ==
    /\ ~left
    /\ \E r \in {"ext", "crash"} :
        /\ r = "crash" => pc # "asleep"
        /\ \/ Reset(r, rtc)
           \/ Writing /\ Reset(r, Invalid)

(* restart_device(), or restartDevice() itself in safe mode                *)
Restart == pc = "restarting" /\ Reset("restart", rtc)

WakeUp == pc = "asleep" /\ Reset("wake", rtc)

(* ResetDetector::_timerCallback, whenever the program yields              *)
TimerCallback ==
    /\ timer
    /\ pc \in {"slow", "leds", "safeDelay", "wait", "running", "restarting"}
    /\ Write(0, safeMode)
    /\ timer' = FALSE
    /\ UNCHANGED <<pc, crashFile, locals, configSafe, stableTimer, settings, history>>

-----------------------------------------------------------------------------
(* setup()                                                                 *)

(* delay(5000), then the timer is armed again                              *)
SlowBoot ==
    /\ pc = "slow"
    /\ ~timer
    /\ timer' = TRUE
    /\ pc' = "start"
    /\ UNCHANGED <<resetCounter, safeMode, rtc, crashFile, locals, configSafe, stableTimer,
                   settings, history>>

(* Mutant of SetupStart: any reset counts, and one less is enough.         *)
SetupStartEarly ==
    /\ pc = "start"
    /\ Write(IF reason = "wake" THEN 0 ELSE resetCounter, safeMode)
    /\ configSafe' = safeMode
    /\ pc' = IF HasResetDetected /\ resetCounter' >= FactoryResets - 1 THEN "leds" ELSE "mode"
    /\ UNCHANGED <<timer, crashFile, locals, stableTimer, settings, history>>

SetupStart ==
    /\ pc = "start"
    /\ Write(IF reason = "wake" THEN 0 ELSE resetCounter, safeMode)
    /\ configSafe' = safeMode
    /\ pc' = IF HasResetDetected /\ resetCounter' >= FactoryResets THEN "leds" ELSE "mode"
    /\ UNCHANGED <<timer, crashFile, locals, stableTimer, settings, history>>

(* The LED has blinked for 5.25 s.                                         *)
RestoreFactorySettings ==
    /\ pc = "leds"
    /\ ~timer
    /\ settings' = "factory"
    /\ Write(resetCounter, FALSE)
    /\ pc' = "mode"
    /\ UNCHANGED <<timer, crashFile, locals, configSafe, stableTimer, history>>

SafeModeSet ==
    /\ pc = "mode"
    /\ safeMode
    /\ pc' = "safeDelay"
    /\ UNCHANGED <<detector, crashFile, locals, configSafe, stableTimer, settings, history>>

(* Mutant of MultipleResets: the flag is set when the wait is over.        *)
MultipleResetsLater ==
    /\ pc = "mode"
    /\ ~safeMode
    /\ IF resetCounter > 1
       THEN pc' = "wait" /\ Write(resetCounter, FALSE)
       ELSE pc' = "crashFile" /\ UNCHANGED <<resetCounter, safeMode, rtc>>
    /\ UNCHANGED <<timer, crashFile, locals, configSafe, stableTimer, settings, history>>

(* "Press reset again to start in safe mode": the flag is set for 5 s.     *)
MultipleResets ==
    /\ pc = "mode"
    /\ ~safeMode
    /\ IF resetCounter > 1
       THEN pc' = "wait" /\ Write(resetCounter, TRUE)
       ELSE pc' = "crashFile" /\ UNCHANGED <<resetCounter, safeMode, rtc>>
    /\ UNCHANGED <<timer, crashFile, locals, configSafe, stableTimer, settings, history>>

(* The delay of 2 s in safe mode is over: clearCounter(), setSafeMode(0).  *)
SafeBoot ==
    /\ pc = "safeDelay"
    /\ safeBoot' = TRUE
    /\ Write(0, FALSE)
    /\ configSafe' = TRUE
    /\ pc' = "crashFile"
    /\ UNCHANGED <<timer, crashFile, reason, crashes, incr, stableTimer, settings, history>>

WaitTimeout ==
    /\ pc = "wait"
    /\ ~timer
    /\ Write(resetCounter, FALSE)
    /\ incr' = TRUE
    /\ pc' = "crashFile"
    /\ UNCHANGED <<timer, crashFile, reason, crashes, safeBoot, configSafe, stableTimer,
                   settings, history>>

(* The counter is read (read() returns -1 at the end of an empty file) and *)
(* the file is opened again for writing, which truncates it.               *)
ReadCrashFile ==
    /\ pc = "crashFile"
    /\ IF reason = "crash" \/ incr
       THEN /\ crashes' = IF crashFile \in {NoFile, EmptyFile} THEN 0
                          ELSE (crashFile + 1) % CounterSize
            /\ crashFile' = EmptyFile
            /\ pc' = "crashWrite"
       ELSE /\ pc' = "plugins"
            /\ UNCHANGED <<crashes, crashFile>>
    /\ UNCHANGED <<detector, reason, incr, safeBoot, configSafe, stableTimer, settings, history>>

(* Mutant of WriteCrashFile: the flag is only set in RAM.                  *)
WriteCrashFileRam ==
    /\ pc = "crashWrite"
    /\ crashFile' = crashes
    /\ safeMode' = (crashes >= MaxCrashes)
    /\ pc' = "plugins"
    /\ UNCHANGED <<resetCounter, rtc, timer, locals, configSafe, stableTimer, settings, history>>

WriteCrashFile ==
    /\ pc = "crashWrite"
    /\ crashFile' = crashes
    /\ IF crashes >= MaxCrashes THEN Write(resetCounter, TRUE)
                                ELSE UNCHANGED <<resetCounter, safeMode, rtc>>
    /\ pc' = "plugins"
    /\ UNCHANGED <<timer, locals, configSafe, stableTimer, settings, history>>

(* setup_plugins(), and the timer of 180 s unless in safe mode             *)
SetupPlugins ==
    /\ pc = "plugins"
    /\ stableTimer' = ~safeBoot
    /\ pc' = "running"
    /\ UNCHANGED <<detector, crashFile, locals, configSafe, settings, history>>

Setup ==
    \/ SlowBoot \/ SetupStart \/ RestoreFactorySettings \/ SafeModeSet \/ MultipleResets
    \/ SafeBoot \/ WaitTimeout \/ ReadCrashFile \/ WriteCrashFile \/ SetupPlugins

-----------------------------------------------------------------------------
(* The running device                                                      *)

(* Mutant of StableCallback: the counter is cleared, the file is kept.     *)
StableKeepsFile ==
    /\ pc = "running"
    /\ stableTimer
    /\ ~timer
    /\ stableTimer' = FALSE
    /\ Write(0, safeMode)
    /\ crashRow' = 0
    /\ UNCHANGED <<pc, timer, crashFile, locals, configSafe, settings, left, streak, asked>>

(* "remove file and reset counters after 3min"                             *)
StableCallback ==
    /\ pc = "running"
    /\ stableTimer
    /\ ~timer
    /\ stableTimer' = FALSE
    /\ crashFile' = NoFile
    /\ Write(0, safeMode)
    /\ crashRow' = 0
    /\ UNCHANGED <<pc, timer, locals, configSafe, settings, left, streak, asked>>

(* reboot.html and AT+RST=s ask for safe mode before the restart.          *)
RequestSafeMode ==
    /\ pc = "running" /\ ~left
    /\ Write(resetCounter, TRUE)
    /\ UNCHANGED <<pc, timer, crashFile, locals, configSafe, stableTimer, settings, history>>

(* restartDevice: in safe mode at once, otherwise after 250 ms and without *)
(* the scheduler.                                                          *)
RestartDevice ==
    /\ pc = "running" /\ ~left
    /\ Write(0, safeMode)
    /\ crashFile' = NoFile
    /\ stableTimer' = FALSE
    /\ pc' = "restarting"
    /\ UNCHANGED <<timer, locals, configSafe, settings, history>>

EnterDeepSleep ==
    /\ pc = "running" /\ ~left
    /\ Write(0, safeMode)
    /\ crashFile' = NoFile
    /\ stableTimer' = FALSE
    /\ timer' = FALSE
    /\ pc' = "asleep"
    /\ UNCHANGED <<locals, configSafe, settings, history>>

(* factory.html: the RTC memory is cleared; the restart follows when the   *)
(* browser has closed the connection.                                      *)
FactoryPage ==
    /\ pc = "running" /\ ~left
    /\ settings' = "factory"
    /\ rtc' = Invalid
    /\ UNCHANGED <<pc, resetCounter, safeMode, timer, crashFile, locals, configSafe,
                   stableTimer, history>>

(* KFCFWConfiguration::write with settings of the user                     *)
ChangeSettings ==
    /\ pc = "running"
    /\ settings' = "user"
    /\ UNCHANGED <<pc, detector, crashFile, locals, configSafe, stableTimer, history>>

(* From some time on nobody resets the device and it does not crash.       *)
LeaveAlone ==
    /\ ~left
    /\ left' = TRUE
    /\ UNCHANGED <<pc, detector, crashFile, locals, configSafe, stableTimer, settings, streak,
                   crashRow, asked>>

Program == Setup \/ TimerCallback \/ StableCallback \/ Restart \/ WakeUp

Next ==
    \/ PowerOn \/ ResetOrCrash \/ LeaveAlone
    \/ Program
    \/ RequestSafeMode \/ RestartDevice \/ EnterDeepSleep \/ FactoryPage \/ ChangeSettings

Spec == Init /\ [][Next]_vars

(* setup() and timers go on; a device that sleeps is woken up.             *)
FairSpec == Spec /\ WF_vars(Program)

-----------------------------------------------------------------------------
TypeOK ==
    /\ pc \in Places
    /\ reason \in Reasons
    /\ resetCounter \in Counter
    /\ rtc \in [counter : Counter, safe : BOOLEAN] \cup {Invalid}
    /\ crashFile \in Counter \cup {NoFile, EmptyFile}
    /\ crashes \in Counter
    /\ settings \in {"user", "factory"}
    /\ streak \in 0..CounterSize
    /\ crashRow \in 0..MaxCrashes + 3
    /\ safeMode \in BOOLEAN /\ timer \in BOOLEAN
    /\ incr \in BOOLEAN /\ safeBoot \in BOOLEAN
    /\ configSafe \in BOOLEAN /\ stableTimer \in BOOLEAN
    /\ left \in BOOLEAN /\ asked \in BOOLEAN

(* "4x reset detected. Restoring factory defaults": setup() only discards  *)
(* the settings after four resets in a row, each of which came before the  *)
(* timer of its boot had fired.  (config.read() discards them as well, when*)
(* the EEPROM has a bad CRC: Read of Configuration.)                       *)
FactoryNeedsResets ==
    [][pc = "leds" /\ settings' # settings => streak >= FactoryResets]_vars

(* A device that crashes whenever it has started, each time before it has  *)
(* been up for three minutes, is put in safe mode: the crash file counts   *)
(* from 0, and the flag set by the crash after the third is obeyed by the  *)
(* next boot.                                                              *)
CrashLoopIsBroken == crashRow <= MaxCrashes + 2

(* "boot in safe mode if there were 3 crashes within the first minute"     *)
(* (kfc_firmware.cpp:261), be it this boot or the next one.                *)
ThreeCrashesAreEnough == pc = "running" /\ crashRow >= MaxCrashes => safeBoot \/ safeMode

(* "Press reset again to start in safe mode": who does as asked gets there,*)
(* unless it was the fourth reset in a row.                                *)
SafeModeOnRequest == pc = "running" /\ asked => safeBoot \/ streak >= FactoryResets

(* Left alone, the device is up in the end, whatever happened to it, with  *)
(* its counters cleared; the crash counter is only kept in safe mode.      *)
Settles ==
    left ~> [](pc = "running" /\ resetCounter = 0 /\ (safeBoot \/ crashFile = NoFile))

(* What isSafeMode() says to the web pages, the AT commands and            *)
(* restartDevice() is how setup_plugins() was called.                      *)
SafeModeAgrees == pc = "running" => (configSafe <=> safeBoot)
=============================================================================
