----------------------------- MODULE BootProofs ------------------------------
(***************************************************************************)
(* Theorems about Boot for every width of the counters and every number of *)
(* resets and crashes that the assumptions on the constants allow.         *)
(***************************************************************************)
EXTENDS Boot, TLAPS

(***************************************************************************)
(* The inductive invariant.                                                *)
(*                                                                         *)
(* The record in RTC memory, when it is valid, is what the detector last   *)
(* wrote; the counter is 0 once the timer has fired, so that it counts     *)
(* resets that follow each other, and wrapping around only loses some.     *)
(***************************************************************************)
CountInv ==
    /\ rtc # Invalid => rtc = Record(resetCounter, safeMode)
    /\ resetCounter <= streak
    /\ ~timer => resetCounter = 0
    /\ pc = "leds" => streak >= FactoryResets

(* A device that was reset as asked is on its way to safe mode.            *)
AskedInv ==
    /\ pc = "wait" => safeMode
    /\ asked => \/ streak >= FactoryResets
                \/ safeBoot
                \/ pc \in {"slow", "start", "mode", "safeDelay"} /\ safeMode

(***************************************************************************)
(* After a crash the boot is on its way to safe mode, or the crash file    *)
(* holds the crashes of the row but the last two (it counts from 0, and    *)
(* this boot has not counted yet) and is far from wrapping around.  When   *)
(* the boot has counted, the file holds all but one, and once it holds     *)
(* MaxCrashes the flag for the next boot is set.                           *)
(***************************************************************************)
Counting == {"slow", "start", "leds", "mode", "safeDelay", "wait", "crashFile"}

CrashInv ==
    crashRow # 0 =>
        /\ reason = "crash"
        /\ crashRow <= MaxCrashes + 2
        /\ ~safeBoot =>
            /\ pc \in Counting =>
                  \/ pc \in {"slow", "start", "mode", "safeDelay"} /\ safeMode
                  \/ crashRow = 1
                  \/ crashFile \in Nat /\ crashRow - 2 <= crashFile /\ crashFile < MaxCrashes
            /\ pc = "crashWrite" => crashRow - 1 <= crashes /\ crashRow <= MaxCrashes + 1
            /\ pc \in {"plugins", "running"} =>
                  /\ crashFile \in Nat /\ crashRow - 1 <= crashFile
                  /\ crashRow <= MaxCrashes + 1
                  /\ crashFile >= MaxCrashes => safeMode

IInv == TypeOK /\ CountInv /\ AskedInv /\ CrashInv

(* Counters of uint8_t wrap around.                                        *)
LEMMA WrapLemma ==
    ASSUME NEW n \in Counter
    PROVE  /\ (n + 1) % CounterSize \in Counter
           /\ (n + 1) % CounterSize <= n + 1
           /\ n + 1 < CounterSize => (n + 1) % CounterSize = n + 1
<1>1. n \in Nat /\ n + 1 <= CounterSize /\ CounterSize \in Nat /\ CounterSize > 0
  BY CounterAssumption DEF Counter
<1>2. (n + 1) % CounterSize \in 0..CounterSize - 1
  BY <1>1
<1>3. n + 1 < CounterSize => (n + 1) % CounterSize = n + 1
  BY <1>1
<1> QED BY <1>1, <1>2, <1>3 DEF Counter

LEMMA InitStep == Init => IInv
<1> SUFFICES ASSUME Init PROVE IInv
  OBVIOUS
<1>1. TypeOK
  <2>1. 0 \in Counter /\ 0 \in 0..CounterSize /\ 0 \in 0..MaxCrashes + 3
    BY CounterAssumption DEF Counter
  <2>2. Record(0, FALSE) \in [counter : Counter, safe : BOOLEAN]
    BY <2>1 DEF Record
  <2> QED BY <2>1, <2>2 DEF Init, TypeOK, Places, Reasons
<1>2. CountInv
  <2>1. rtc = Record(resetCounter, safeMode)
    BY Zenon DEF Init
  <2>2. resetCounter = 0 /\ streak = 0 /\ timer = TRUE /\ pc = "start"
    BY DEF Init
  <2> QED BY <2>1, <2>2 DEF CountInv
<1>3. AskedInv
  BY DEF Init, AskedInv
<1>4. CrashInv
  BY DEF Init, CrashInv
<1> QED BY <1>1, <1>2, <1>3, <1>4 DEF IInv

(* A reset.  A crash after setup() makes the row longer by one, any other  *)
(* reset ends it; a reset while the detector's timer is armed counts.      *)
LEMMA ResetStep ==
    ASSUME IInv, NEW r \in Reasons, NEW record \in {rtc, Invalid}, Reset(r, record)
    PROVE  IInv'
<1> DEFINE valid == record # Invalid
           count == IF valid THEN (record.counter + 1) % CounterSize ELSE 0
<1>1. ASSUME valid
      PROVE  /\ record = Record(resetCounter, safeMode)
             /\ record.counter = resetCounter /\ record.safe = safeMode
             /\ count = (resetCounter + 1) % CounterSize
  BY <1>1 DEF IInv, CountInv, Record
<1>2. count \in Counter /\ (valid => count <= resetCounter + 1) /\ (~valid => count = 0)
  BY <1>1, WrapLemma, CounterAssumption DEF IInv, TypeOK, Counter
<1>3. /\ reason' = r /\ timer' = TRUE /\ crashes' = 0 /\ incr' = FALSE
      /\ safeBoot' = FALSE /\ configSafe' = FALSE /\ stableTimer' = FALSE
      /\ UNCHANGED <<crashFile, settings, left>>
      /\ resetCounter' = count /\ safeMode' = (valid /\ record.safe)
      /\ rtc' = Record(count, valid /\ record.safe)
      /\ pc' = IF count >= SlowResets THEN "slow" ELSE "start"
      /\ streak' = IF ~valid THEN 0
                   ELSE IF timer THEN (IF streak < CounterSize THEN streak + 1 ELSE streak)
                   ELSE 1
      /\ crashRow' = IF valid /\ r = "crash" /\ pc \in {"plugins", "running"} /\ ~safeBoot
                     THEN (IF crashRow < MaxCrashes + 3 THEN crashRow + 1 ELSE crashRow)
                     ELSE 0
      /\ asked' = (valid /\ r = "ext" /\ pc = "wait")
  BY DEF Reset, Write
<1> HIDE DEF count
<1>4. safeMode' \in BOOLEAN /\ (valid => (safeMode' <=> safeMode)) /\ safeMode \in BOOLEAN
  <2>1. safeMode' \in BOOLEAN
    BY <1>3, Zenon
  <2>2. ASSUME valid PROVE safeMode' <=> safeMode
    BY <1>1, <1>3, <2>2, Zenon
  <2> QED BY <2>1, <2>2 DEF IInv, TypeOK
<1>5. rtc' = Record(resetCounter', safeMode')
  BY <1>3, Zenon
<1> HIDE DEF valid
<1>6. TypeOK'
  <2>1. rtc' \in [counter : Counter, safe : BOOLEAN] \cup {Invalid}
    BY <1>2, <1>3, <1>4, <1>5 DEF Record
  <2>2. asked' \in BOOLEAN
    BY <1>3, Zenon
  <2>3. streak' \in 0..CounterSize /\ crashRow' \in 0..MaxCrashes + 3
    BY <1>3, CounterAssumption DEF IInv, TypeOK
  <2>4. resetCounter' \in Counter /\ crashes' \in Counter /\ pc' \in {"slow", "start"}
    BY <1>2, <1>3, CounterAssumption DEF Counter
  <2>5. /\ crashFile' \in Counter \cup {NoFile, EmptyFile}
        /\ settings' \in {"user", "factory"} /\ left' \in BOOLEAN
    BY <1>3 DEF IInv, TypeOK
  <2> QED BY <1>3, <1>4, <2>1, <2>2, <2>3, <2>4, <2>5 DEF TypeOK, Places
<1>7. CountInv'
  <2>1. resetCounter' <= streak'
    BY <1>2, <1>3, CounterAssumption DEF IInv, TypeOK, CountInv, Counter
  <2>2. timer' = TRUE /\ pc' # "leds"
    BY <1>3
  <2> QED BY <1>5, <2>1, <2>2 DEF CountInv
<1>8. AskedInv'
  BY <1>3, <1>4 DEF IInv, AskedInv
<1>9. CrashInv'
  <2>1. CASE crashRow' = 0
    BY <2>1 DEF CrashInv
  <2>2. CASE crashRow' # 0
    <3>1. /\ valid /\ r = "crash" /\ pc \in {"plugins", "running"} /\ ~safeBoot
      BY <1>3, <2>2
    <3>2. crashRow' = crashRow + 1 /\ crashRow' <= MaxCrashes + 2
      BY <1>3, <3>1, CounterAssumption DEF IInv, TypeOK, CrashInv
    <3>3. crashRow' = 1 \/ /\ crashFile \in Nat /\ crashRow' - 2 <= crashFile
                           /\ safeMode' \/ crashFile < MaxCrashes
      BY <1>4, <3>1, <3>2, CounterAssumption DEF IInv, TypeOK, CrashInv, Counter
    <3> QED BY <1>3, <3>1, <3>2, <3>3 DEF CrashInv, Counting
  <2> QED BY <2>1, <2>2
<1> QED BY <1>6, <1>7, <1>8, <1>9 DEF IInv

LEMMA TimerStep == IInv /\ TimerCallback => IInv'
<1> SUFFICES ASSUME IInv, TimerCallback PROVE IInv'
  OBVIOUS
<1>1. /\ resetCounter' = 0 /\ safeMode' = safeMode /\ rtc' = Record(0, safeMode)
      /\ timer' = FALSE
      /\ UNCHANGED <<pc, crashFile, locals, configSafe, stableTimer, settings, history>>
  BY DEF TimerCallback, Write
<1>2. TypeOK'
  <2>1. rtc' \in [counter : Counter, safe : BOOLEAN] /\ 0 \in Counter
    BY <1>1, CounterAssumption DEF IInv, TypeOK, Counter, Record
  <2> QED BY <1>1, <2>1 DEF IInv, TypeOK, locals, history
<1>3. CountInv'
  <2>1. rtc' = Record(resetCounter', safeMode')
    BY <1>1, Zenon
  <2> QED BY <1>1, <2>1 DEF IInv, TypeOK, CountInv, history
<1>4. AskedInv' /\ CrashInv'
  BY <1>1 DEF IInv, AskedInv, CrashInv, locals, history
<1> QED BY <1>2, <1>3, <1>4 DEF IInv

(* ResetDetector::_writeData keeps RTC memory and RAM the same.            *)
LEMMA WriteLemma ==
    ASSUME NEW c \in Counter, NEW s \in BOOLEAN, Write(c, s)
    PROVE  /\ resetCounter' = c /\ resetCounter' \in Counter
           /\ safeMode' \in BOOLEAN /\ (safeMode' <=> s)
           /\ rtc' = Record(resetCounter', safeMode')
           /\ rtc' \in [counter : Counter, safe : BOOLEAN] \cup {Invalid}
<1>1. resetCounter' = c /\ safeMode' = s /\ rtc' = Record(c, s)
  BY DEF Write
<1>2. rtc' = Record(resetCounter', safeMode')
  BY <1>1, Zenon
<1>3. Record(c, s) \in [counter : Counter, safe : BOOLEAN]
  BY DEF Record
<1> QED BY <1>1, <1>2, <1>3

LEMMA ZeroLemma == 0 \in Counter
  BY CounterAssumption DEF Counter

-----------------------------------------------------------------------------
(* setup(), step by step.                                                  *)
LEMMA SlowBootStep == IInv /\ SlowBoot => IInv'
<1> SUFFICES ASSUME IInv, SlowBoot PROVE IInv'
  OBVIOUS
<1>1. /\ pc = "slow" /\ ~timer /\ timer' = TRUE /\ pc' = "start"
      /\ UNCHANGED <<resetCounter, safeMode, rtc, crashFile, locals, configSafe, stableTimer,
                     settings, history>>
  BY DEF SlowBoot
<1>2. TypeOK'
  BY <1>1 DEF IInv, TypeOK, Places, locals, history
<1>3. CountInv'
  BY <1>1 DEF IInv, CountInv, history
<1>4. AskedInv' /\ CrashInv'
  BY <1>1 DEF IInv, AskedInv, CrashInv, Counting, locals, history
<1> QED BY <1>2, <1>3, <1>4 DEF IInv

LEMMA SetupStartStep == IInv /\ SetupStart => IInv'
<1> SUFFICES ASSUME IInv, SetupStart PROVE IInv'
  OBVIOUS
<1> DEFINE c == IF reason = "wake" THEN 0 ELSE resetCounter
<1>1. /\ pc = "start" /\ Write(c, safeMode) /\ configSafe' = safeMode
      /\ pc' = IF HasResetDetected /\ resetCounter' >= FactoryResets THEN "leds" ELSE "mode"
      /\ UNCHANGED <<timer, crashFile, locals, stableTimer, settings, history>>
  BY DEF SetupStart
<1>2. c \in Counter /\ c <= resetCounter /\ safeMode \in BOOLEAN /\ resetCounter \in Counter
  BY ZeroLemma DEF IInv, TypeOK, Counter
<1>3. /\ resetCounter' = c /\ resetCounter' \in Counter
      /\ safeMode' \in BOOLEAN /\ (safeMode' <=> safeMode)
      /\ rtc' = Record(resetCounter', safeMode')
      /\ rtc' \in [counter : Counter, safe : BOOLEAN] \cup {Invalid}
  BY <1>1, <1>2, WriteLemma
<1>4. HasResetDetected => reason # "crash"
  BY DEF HasResetDetected
<1> HIDE DEF c
<1>5. TypeOK'
  BY <1>1, <1>2, <1>3 DEF IInv, TypeOK, Places, locals, history
<1>6. CountInv'
  <2>1. resetCounter' <= streak' /\ (~timer' => resetCounter' = 0)
    BY <1>1, <1>2, <1>3 DEF IInv, TypeOK, CountInv, Counter, history
  <2>2. pc' = "leds" => streak' >= FactoryResets
    BY <1>1, <1>3, <2>1, CounterAssumption DEF IInv, TypeOK, Counter, history
  <2> QED BY <1>3, <2>1, <2>2 DEF CountInv
<1>7. AskedInv'
  BY <1>1, <1>3, <1>6 DEF IInv, AskedInv, CountInv, locals, history
<1>8. CrashInv'
  BY <1>1, <1>3, <1>4 DEF IInv, CrashInv, Counting, locals, history
<1> QED BY <1>5, <1>6, <1>7, <1>8 DEF IInv

LEMMA RestoreStep == IInv /\ RestoreFactorySettings => IInv'
<1> SUFFICES ASSUME IInv, RestoreFactorySettings PROVE IInv'
  OBVIOUS
<1>1. /\ pc = "leds" /\ pc' = "mode" /\ settings' = "factory" /\ Write(resetCounter, FALSE)
      /\ UNCHANGED <<timer, crashFile, locals, configSafe, stableTimer, history>>
  BY DEF RestoreFactorySettings
<1>2. /\ resetCounter' = resetCounter /\ resetCounter' \in Counter
      /\ safeMode' \in BOOLEAN /\ ~safeMode'
      /\ rtc' = Record(resetCounter', safeMode')
      /\ rtc' \in [counter : Counter, safe : BOOLEAN] \cup {Invalid}
  BY <1>1, WriteLemma DEF IInv, TypeOK
<1>3. TypeOK'
  BY <1>1, <1>2 DEF IInv, TypeOK, Places, locals, history
<1>4. CountInv'
  BY <1>1, <1>2 DEF IInv, CountInv, history
<1>5. AskedInv'
  BY <1>1, <1>2 DEF IInv, AskedInv, CountInv, locals, history
<1>6. CrashInv'
  BY <1>1, <1>2 DEF IInv, CrashInv, Counting, locals, history
<1> QED BY <1>3, <1>4, <1>5, <1>6 DEF IInv

LEMMA SafeModeSetStep == IInv /\ SafeModeSet => IInv'
<1> SUFFICES ASSUME IInv, SafeModeSet PROVE IInv'
  OBVIOUS
<1>1. /\ pc = "mode" /\ safeMode /\ pc' = "safeDelay"
      /\ UNCHANGED <<resetCounter, safeMode, rtc, timer, crashFile, locals, configSafe,
                     stableTimer, settings, history>>
  BY DEF SafeModeSet, detector
<1>2. TypeOK'
  BY <1>1 DEF IInv, TypeOK, Places, locals, history
<1>3. CountInv'
  BY <1>1 DEF IInv, CountInv, history
<1>4. AskedInv' /\ CrashInv'
  BY <1>1 DEF IInv, AskedInv, CrashInv, Counting, locals, history
<1> QED BY <1>2, <1>3, <1>4 DEF IInv

LEMMA MultipleResetsStep == IInv /\ MultipleResets => IInv'
<1> SUFFICES ASSUME IInv, MultipleResets PROVE IInv'
  OBVIOUS
<1>1. /\ pc = "mode" /\ ~safeMode
      /\ UNCHANGED <<timer, crashFile, locals, configSafe, stableTimer, settings, history>>
  BY DEF MultipleResets
<1>2. CASE pc' = "wait" /\ Write(resetCounter, TRUE)
  <2>1. /\ resetCounter' = resetCounter /\ resetCounter' \in Counter
        /\ safeMode' \in BOOLEAN /\ safeMode'
        /\ rtc' = Record(resetCounter', safeMode')
        /\ rtc' \in [counter : Counter, safe : BOOLEAN] \cup {Invalid}
    BY <1>2, WriteLemma DEF IInv, TypeOK
  <2>2. TypeOK'
    BY <1>1, <1>2, <2>1 DEF IInv, TypeOK, Places, locals, history
  <2>3. CountInv'
    BY <1>1, <1>2, <2>1 DEF IInv, CountInv, history
  <2>4. AskedInv' /\ CrashInv'
    BY <1>1, <1>2, <2>1 DEF IInv, AskedInv, CrashInv, Counting, locals, history
  <2> QED BY <2>2, <2>3, <2>4 DEF IInv
<1>3. CASE pc' = "crashFile" /\ UNCHANGED <<resetCounter, safeMode, rtc>>
  <2>1. TypeOK'
    BY <1>1, <1>3 DEF IInv, TypeOK, Places, locals, history
  <2>2. CountInv'
    BY <1>1, <1>3 DEF IInv, CountInv, history
  <2>3. AskedInv' /\ CrashInv'
    BY <1>1, <1>3 DEF IInv, AskedInv, CrashInv, Counting, locals, history
  <2> QED BY <2>1, <2>2, <2>3 DEF IInv
<1> QED BY <1>2, <1>3 DEF MultipleResets

LEMMA SafeBootStep == IInv /\ SafeBoot => IInv'
<1> SUFFICES ASSUME IInv, SafeBoot PROVE IInv'
  OBVIOUS
<1>1. /\ pc = "safeDelay" /\ safeBoot' = TRUE /\ Write(0, FALSE) /\ configSafe' = TRUE
      /\ pc' = "crashFile"
      /\ UNCHANGED <<timer, crashFile, reason, crashes, incr, stableTimer, settings, history>>
  BY DEF SafeBoot
<1>2. /\ resetCounter' = 0 /\ resetCounter' \in Counter
      /\ safeMode' \in BOOLEAN /\ ~safeMode'
      /\ rtc' = Record(resetCounter', safeMode')
      /\ rtc' \in [counter : Counter, safe : BOOLEAN] \cup {Invalid}
  BY <1>1, WriteLemma, ZeroLemma
<1>3. TypeOK'
  BY <1>1, <1>2 DEF IInv, TypeOK, Places, history
<1>4. CountInv'
  BY <1>1, <1>2 DEF IInv, TypeOK, CountInv, history
<1>5. AskedInv' /\ CrashInv'
  BY <1>1 DEF IInv, AskedInv, CrashInv, history
<1> QED BY <1>3, <1>4, <1>5 DEF IInv

LEMMA WaitTimeoutStep == IInv /\ WaitTimeout => IInv'
<1> SUFFICES ASSUME IInv, WaitTimeout PROVE IInv'
  OBVIOUS
<1>1. /\ pc = "wait" /\ Write(resetCounter, FALSE) /\ incr' = TRUE /\ pc' = "crashFile"
      /\ UNCHANGED <<timer, crashFile, reason, crashes, safeBoot, configSafe, stableTimer,
                     settings, history>>
  BY DEF WaitTimeout
<1>2. /\ resetCounter' = resetCounter /\ resetCounter' \in Counter
      /\ safeMode' \in BOOLEAN /\ ~safeMode'
      /\ rtc' = Record(resetCounter', safeMode')
      /\ rtc' \in [counter : Counter, safe : BOOLEAN] \cup {Invalid}
  BY <1>1, WriteLemma DEF IInv, TypeOK
<1>3. TypeOK'
  BY <1>1, <1>2 DEF IInv, TypeOK, Places, history
<1>4. CountInv'
  BY <1>1, <1>2 DEF IInv, CountInv, history
<1>5. AskedInv' /\ CrashInv'
  BY <1>1, <1>2 DEF IInv, AskedInv, CrashInv, Counting, history
<1> QED BY <1>3, <1>4, <1>5 DEF IInv

(* The crash is counted: the counter of a row starts at 0, and is far from *)
(* its end as long as it has not asked for safe mode.                      *)
LEMMA ReadStep == IInv /\ ReadCrashFile => IInv'
<1> SUFFICES ASSUME IInv, ReadCrashFile PROVE IInv'
  OBVIOUS
<1>1. /\ pc = "crashFile"
      /\ UNCHANGED <<resetCounter, safeMode, rtc, timer, reason, incr, safeBoot, configSafe,
                     stableTimer, settings, history>>
  BY DEF ReadCrashFile, detector
<1>2. CountInv'
  BY <1>1 DEF IInv, CountInv, history, ReadCrashFile
<1>3. AskedInv'
  BY <1>1 DEF IInv, AskedInv, history, ReadCrashFile
<1>4. CASE reason = "crash" \/ incr
  <2>1. /\ crashes' = IF crashFile \in {NoFile, EmptyFile} THEN 0
                      ELSE (crashFile + 1) % CounterSize
        /\ crashFile' = EmptyFile /\ pc' = "crashWrite"
    BY <1>4 DEF ReadCrashFile
  <2>2. crashFile \notin {NoFile, EmptyFile} => crashFile \in Counter
    BY DEF IInv, TypeOK
  <2>3. crashes' \in Counter
    BY <2>1, <2>2, WrapLemma, ZeroLemma
  <2>4. TypeOK'
    BY <1>1, <2>1, <2>3 DEF IInv, TypeOK, Places, history
  <2>5. CrashInv'
    <3>1. SUFFICES ASSUME crashRow # 0, ~safeBoot
                   PROVE  crashRow - 1 <= crashes' /\ crashRow <= MaxCrashes + 1
      BY <1>1, <2>1 DEF IInv, CrashInv, Counting, history
    <3>2. crashRow \in Nat /\ MaxCrashes \in Nat \ {0} /\ crashes' \in Nat
      BY <2>3, CounterAssumption DEF IInv, TypeOK, Counter
    <3>3. CASE crashRow = 1
      BY <3>2, <3>3
    <3>4. CASE crashFile \in Nat /\ crashRow - 2 <= crashFile /\ crashFile < MaxCrashes
      <4>1. crashFile \notin {NoFile, EmptyFile} /\ crashFile + 1 < CounterSize
        BY <3>4, CounterAssumption
      <4>2. crashes' = crashFile + 1
        BY <2>1, <2>2, <4>1, WrapLemma
      <4> QED BY <3>2, <3>4, <4>2
    <3> QED BY <1>1, <3>1, <3>3, <3>4 DEF IInv, CrashInv, Counting
  <2> QED BY <1>2, <1>3, <2>4, <2>5 DEF IInv
<1>5. CASE ~(reason = "crash" \/ incr)
  <2>1. pc' = "plugins" /\ UNCHANGED <<crashes, crashFile>>
    BY <1>5 DEF ReadCrashFile
  <2>2. TypeOK'
    BY <1>1, <2>1 DEF IInv, TypeOK, Places, history
  <2>3. CrashInv'
    BY <1>1, <1>5 DEF IInv, CrashInv, history
  <2> QED BY <1>2, <1>3, <2>2, <2>3 DEF IInv
<1> QED BY <1>4, <1>5

(* The count is written, and with MaxCrashes the flag for the next boot.   *)
LEMMA WriteCrashStep == IInv /\ WriteCrashFile => IInv'
<1> SUFFICES ASSUME IInv, WriteCrashFile PROVE IInv'
  OBVIOUS
<1>1. /\ pc = "crashWrite" /\ crashFile' = crashes /\ pc' = "plugins"
      /\ UNCHANGED <<timer, locals, configSafe, stableTimer, settings, history>>
  BY DEF WriteCrashFile
<1>2. /\ resetCounter' = resetCounter /\ resetCounter' \in Counter
      /\ safeMode' \in BOOLEAN /\ (crashes >= MaxCrashes => safeMode')
      /\ rtc' \in [counter : Counter, safe : BOOLEAN] \cup {Invalid}
      /\ rtc' # Invalid => rtc' = Record(resetCounter', safeMode')
  <2>1. CASE crashes >= MaxCrashes
    BY <2>1, WriteLemma DEF WriteCrashFile, IInv, TypeOK
  <2>2. CASE ~(crashes >= MaxCrashes)
    BY <2>2 DEF WriteCrashFile, IInv, TypeOK, CountInv
  <2> QED BY <2>1, <2>2
<1>3. crashes \in Counter /\ crashes \in Nat
  BY DEF IInv, TypeOK, Counter
<1>4. TypeOK'
  BY <1>1, <1>2, <1>3 DEF IInv, TypeOK, Places, locals, history
<1>5. CountInv'
  BY <1>1, <1>2 DEF IInv, CountInv, history
<1>6. AskedInv'
  BY <1>1 DEF IInv, AskedInv, locals, history
<1>7. CrashInv'
  BY <1>1, <1>2, <1>3 DEF IInv, CrashInv, Counting, locals, history
<1> QED BY <1>4, <1>5, <1>6, <1>7 DEF IInv

LEMMA PluginsStep == IInv /\ SetupPlugins => IInv'
<1> SUFFICES ASSUME IInv, SetupPlugins PROVE IInv'
  OBVIOUS
<1>1. /\ pc = "plugins" /\ stableTimer' = ~safeBoot /\ pc' = "running"
      /\ UNCHANGED <<resetCounter, safeMode, rtc, timer, crashFile, locals, configSafe,
                     settings, history>>
  BY DEF SetupPlugins, detector
<1>2. stableTimer' \in BOOLEAN
  BY <1>1, Zenon
<1>3. TypeOK'
  BY <1>1, <1>2 DEF IInv, TypeOK, Places, locals, history
<1>4. CountInv'
  BY <1>1 DEF IInv, CountInv, history
<1>5. AskedInv' /\ CrashInv'
  BY <1>1 DEF IInv, AskedInv, CrashInv, Counting, locals, history
<1> QED BY <1>3, <1>4, <1>5 DEF IInv

-----------------------------------------------------------------------------
(* The running device.                                                     *)
LEMMA StableStep == IInv /\ StableCallback => IInv'
<1> SUFFICES ASSUME IInv, StableCallback PROVE IInv'
  OBVIOUS
<1>1. /\ pc = "running" /\ ~timer /\ stableTimer' = FALSE /\ crashFile' = NoFile
      /\ Write(0, safeMode) /\ crashRow' = 0
      /\ UNCHANGED <<pc, timer, locals, configSafe, settings, left, streak, asked>>
  BY DEF StableCallback
<1>2. /\ resetCounter' = 0 /\ resetCounter' \in Counter
      /\ safeMode' \in BOOLEAN /\ (safeMode' <=> safeMode)
      /\ rtc' = Record(resetCounter', safeMode')
      /\ rtc' \in [counter : Counter, safe : BOOLEAN] \cup {Invalid}
  BY <1>1, WriteLemma, ZeroLemma DEF IInv, TypeOK
<1>3. TypeOK'
  <2>1. crashRow' \in 0..MaxCrashes + 3
    BY <1>1, CounterAssumption
  <2> QED BY <1>1, <1>2, <2>1 DEF IInv, TypeOK, locals
<1>4. CountInv'
  BY <1>1, <1>2 DEF IInv, TypeOK, CountInv
<1>5. AskedInv' /\ CrashInv'
  BY <1>1, <1>2 DEF IInv, AskedInv, CrashInv, locals
<1> QED BY <1>3, <1>4, <1>5 DEF IInv

LEMMA RequestStep == IInv /\ RequestSafeMode => IInv'
<1> SUFFICES ASSUME IInv, RequestSafeMode PROVE IInv'
  OBVIOUS
<1>1. /\ pc = "running" /\ Write(resetCounter, TRUE)
      /\ UNCHANGED <<pc, timer, crashFile, locals, configSafe, stableTimer, settings, history>>
  BY DEF RequestSafeMode
<1>2. /\ resetCounter' = resetCounter /\ resetCounter' \in Counter
      /\ safeMode' \in BOOLEAN /\ safeMode'
      /\ rtc' = Record(resetCounter', safeMode')
      /\ rtc' \in [counter : Counter, safe : BOOLEAN] \cup {Invalid}
  BY <1>1, WriteLemma DEF IInv, TypeOK
<1>3. TypeOK'
  BY <1>1, <1>2 DEF IInv, TypeOK, locals, history
<1>4. CountInv'
  BY <1>1, <1>2 DEF IInv, CountInv, history
<1>5. AskedInv' /\ CrashInv'
  BY <1>1, <1>2 DEF IInv, AskedInv, CrashInv, Counting, locals, history
<1> QED BY <1>3, <1>4, <1>5 DEF IInv

(* restartDevice() and deep sleep clear the counter and the crash file; a  *)
(* reset after them ends the row.                                          *)
LEMMA ShutdownStep == IInv /\ (RestartDevice \/ EnterDeepSleep) => IInv'
<1> SUFFICES ASSUME IInv, RestartDevice \/ EnterDeepSleep PROVE IInv'
  OBVIOUS
<1>1. /\ pc = "running" /\ Write(0, safeMode) /\ crashFile' = NoFile /\ stableTimer' = FALSE
      /\ pc' \in {"restarting", "asleep"} /\ timer' \in {timer, FALSE}
      /\ UNCHANGED <<locals, configSafe, settings, history>>
  BY DEF RestartDevice, EnterDeepSleep
<1>2. /\ resetCounter' = 0 /\ resetCounter' \in Counter
      /\ safeMode' \in BOOLEAN /\ (safeMode' <=> safeMode)
      /\ rtc' = Record(resetCounter', safeMode')
      /\ rtc' \in [counter : Counter, safe : BOOLEAN] \cup {Invalid}
  BY <1>1, WriteLemma, ZeroLemma DEF IInv, TypeOK
<1>3. TypeOK'
  BY <1>1, <1>2 DEF IInv, TypeOK, Places, locals, history
<1>4. CountInv'
  BY <1>1, <1>2 DEF IInv, TypeOK, CountInv, history
<1>5. AskedInv' /\ CrashInv'
  BY <1>1, <1>2 DEF IInv, AskedInv, CrashInv, Counting, locals, history
<1> QED BY <1>3, <1>4, <1>5 DEF IInv

LEMMA SettingsStep == IInv /\ (FactoryPage \/ ChangeSettings \/ LeaveAlone) => IInv'
<1> SUFFICES ASSUME IInv, FactoryPage \/ ChangeSettings \/ LeaveAlone PROVE IInv'
  OBVIOUS
<1>1. /\ settings' \in {"user", "factory"} /\ rtc' \in {rtc, Invalid} /\ left' \in BOOLEAN
      /\ UNCHANGED <<pc, resetCounter, safeMode, timer, crashFile, locals, configSafe,
                     stableTimer, streak, crashRow, asked>>
  BY DEF IInv, TypeOK, FactoryPage, ChangeSettings, LeaveAlone, detector, history
<1>2. TypeOK'
  BY <1>1 DEF IInv, TypeOK, locals
<1>3. CountInv'
  BY <1>1 DEF IInv, CountInv
<1>4. AskedInv' /\ CrashInv'
  BY <1>1 DEF IInv, AskedInv, CrashInv, locals
<1> QED BY <1>2, <1>3, <1>4 DEF IInv

LEMMA NextStep == IInv /\ [Next]_vars => IInv'
<1> SUFFICES ASSUME IInv, [Next]_vars PROVE IInv'
  OBVIOUS
<1>1. CASE PowerOn \/ ResetOrCrash \/ Restart \/ WakeUp
  BY <1>1, ResetStep DEF PowerOn, ResetOrCrash, Restart, WakeUp, Reasons
<1>2. CASE Setup
  BY <1>2, SlowBootStep, SetupStartStep, RestoreStep, SafeModeSetStep, MultipleResetsStep,
     SafeBootStep, WaitTimeoutStep, ReadStep, WriteCrashStep, PluginsStep DEF Setup
<1>3. CASE UNCHANGED vars
  BY <1>3 DEF vars, detector, locals, history, IInv, TypeOK, CountInv, AskedInv, CrashInv
<1> QED BY <1>1, <1>2, <1>3, TimerStep, StableStep, RequestStep, ShutdownStep, SettingsStep
        DEF Next, Program

LEMMA Invariant == Spec => []IInv
  BY InitStep, NextStep, PTL DEF Spec

-----------------------------------------------------------------------------
(* The variables of Boot never leave their types.                          *)
THEOREM TypeCorrect == Spec => []TypeOK
<1>1. IInv => TypeOK
  BY DEF IInv
<1> QED BY <1>1, Invariant, PTL

(* setup() and its crash counter: a device that crashes whenever it has    *)
(* started is put in safe mode, whatever the file held when it began.      *)
THEOREM CrashLoopsAreBroken == Spec => []CrashLoopIsBroken
<1>1. IInv => CrashLoopIsBroken
  BY CounterAssumption DEF IInv, CrashInv, CrashLoopIsBroken
<1> QED BY <1>1, Invariant, PTL

(* setup() sets the flag for the time it waits: who resets the device when *)
(* asked to gets safe mode, unless it was the reset for factory settings.  *)
THEOREM SafeModeIsGranted == Spec => []SafeModeOnRequest
<1>1. IInv => SafeModeOnRequest
  BY DEF IInv, AskedInv, SafeModeOnRequest
<1> QED BY <1>1, Invariant, PTL

(* ResetDetector's counter: setup() discards the settings only after       *)
(* FactoryResets resets, each before the timer of its boot had fired.      *)
THEOREM FactoryResetsAreAskedFor == Spec => FactoryNeedsResets
<1>1. IInv /\ [Next]_vars
      => [pc = "leds" /\ settings' # settings => streak >= FactoryResets]_vars
  BY DEF IInv, CountInv
<1> QED BY <1>1, Invariant, PTL DEF Spec, FactoryNeedsResets
=============================================================================
