--------------------------- MODULE EventScheduler ---------------------------
(***************************************************************************)
(* The cooperative event scheduler of lib/KFCEventScheduler on ESP8266:    *)
(* EventScheduler::_timers (a vector of shared_ptr<EventTimer>), the SDK   *)
(* timer behind each EventTimer, the Timer wrapper objects that own one,   *)
(* and the main loop that runs the pending low priority callbacks.         *)
(*                                                                         *)
(* Three contexts execute user code: the main program between two calls of *)
(* _loop(), a callback that _loop() is running, and a PRIO_HIGH callback   *)
(* that the SDK runs inside its timer task.  The SDK task only runs while  *)
(* the main program yields, which user code may do at any point but the    *)
(* walk of _loop() over the vector never does.                             *)
(***************************************************************************)
EXTENDS Integers, Sequences, SequencesExt

CONSTANTS
    Timers,            \* heap cells an EventTimer can be allocated in
    Handles,           \* the EventScheduler::Timer objects of the program
    None,              \* nullptr
    MinDelay,          \* EventTimer::MinDelay
    MaxDelay,          \* EventTimer::MaxDelay, the longest SDK timer period
    Delays,            \* delays passed to add()/addTimer()
    RearmDelays,       \* delays passed to rearm() ...
    SelfRearmDelays,   \* ... by a callback for its own timer
    Repeats,           \* repeat counts passed to add()/addTimer()
    RearmRepeats,      \* repeat counts passed to rearm()
    Priorities,        \* a subset of {"low", "high"}
    Operations,        \* the API calls user code makes
    MayOverrun         \* callbacks may exceed _runtimeLimit

Unlimited == -1        \* RepeatType::UNLIMITED
NoChange  == -2        \* RepeatUpdateType::NO_CHANGE

OperationNames ==
    {"add", "remove", "removeSelf", "rearm", "detach", "setPriority", "end"}

ASSUME NoneAssumption == None \notin Timers \cup Handles
ASSUME DelayAssumption ==
    /\ MinDelay \in Nat \ {0}
    /\ MaxDelay \in Nat
    /\ MinDelay <= MaxDelay
    /\ Delays \subseteq {d \in Nat : MinDelay <= d}  \* else the constructor panics
    /\ RearmDelays \subseteq Nat
    /\ SelfRearmDelays \subseteq Nat
ASSUME RepeatAssumption ==
    /\ Repeats \subseteq Nat \cup {Unlimited}
    /\ RearmRepeats \subseteq Nat \cup {Unlimited, NoChange}
ASSUME UsageAssumption ==
    /\ Priorities \subseteq {"low", "high"}
    /\ Operations \subseteq OperationNames
    /\ MayOverrun \in BOOLEAN

VARIABLES
    cell,     \* the EventTimer in each heap cell, with its ETSTimer
    timers,   \* EventScheduler::_timers
    handle,   \* Timer::_timer of each wrapper
    phase,    \* where the main program is: "idle", "scan", "callback"
    idx,      \* the index i of the walk in _loop()
    cur,      \* the timer whose callback _loop() is running
    irq,      \* the timer whose callback the SDK task is running
    begun,    \* EventScheduler::loop is a loop function
    since     \* history: time since the timer was armed or last expired

vars == <<cell, timers, handle, phase, idx, cur, irq, begun, since>>

-----------------------------------------------------------------------------
(* EventTimer: one heap cell and the SDK timer embedded in it.             *)

Free == [live |-> FALSE, owner |-> None, prio |-> "low", delay |-> 0,
         remaining |-> 0, counter |-> 0, maxRepeat |-> 0, scheduled |-> FALSE,
         func |-> FALSE, queued |-> FALSE, due |-> 0, period |-> 0]

(* RepeatType::hasRepeat                                                   *)
HasRepeat(c) == c.maxRepeat = Unlimited \/ c.counter <= c.maxRepeat

AtLeast(m, d) == IF d < m THEN m ELSE d

(* EventTimer::detach: ets_timer_disarm and timer_func = nullptr.  A       *)
(* callback already pending stays pending.                                 *)
Disarmed(c) ==
    [c EXCEPT !.func = FALSE, !.queued = FALSE, !.due = 0, !.period = 0]

(* delete: whatever the SDK still has queued stays queued, and would read  *)
(* the priority left in the freed memory.                                  *)
Deleted(c) ==
    [Free EXCEPT !.func = c.func, !.queued = c.queued, !.due = c.due, !.period = c.period,
                 !.prio = IF c.queued THEN c.prio ELSE "low"]

(* ets_timer_setfn and ets_timer_arm_new                                   *)
Queued(c, d, repeat) ==
    [c EXCEPT !.func = TRUE, !.queued = TRUE, !.due = d,
              !.period = IF repeat THEN d ELSE 0, !.scheduled = FALSE]

(* Mutants of Armed: the rest of a chopped delay is forgotten; it is not   *)
(* counted down.                                                           *)
ArmedForgetsRest(c) ==
    Queued([c EXCEPT !.remaining = 0],
           IF c.delay > MaxDelay THEN MaxDelay ELSE AtLeast(MinDelay, c.delay), HasRepeat(c))
ArmedKeepsRest(c) ==
    IF c.delay > MaxDelay
    THEN Queued([c EXCEPT !.remaining = c.delay], MaxDelay, FALSE)
    ELSE Queued([c EXCEPT !.remaining = 0], AtLeast(MinDelay, c.delay), HasRepeat(c))

(* EventTimer::_rearmEtsTimer: a delay above MaxDelay is chopped up.       *)
Armed(c) ==
    LET left == IF c.remaining = 0 /\ c.delay > MaxDelay
                THEN c.delay ELSE c.remaining
    IN  IF left > MaxDelay
        THEN Queued([c EXCEPT !.remaining = left - MaxDelay], MaxDelay, FALSE)
        ELSE IF left # 0
        THEN Queued([c EXCEPT !.remaining = 0], AtLeast(MinDelay, left), FALSE)
        ELSE Queued([c EXCEPT !.remaining = 0], AtLeast(MinDelay, c.delay), HasRepeat(c))

(* The constructor followed by initTimer().                                *)
NewTimer(h, d, r, p) ==
    Armed([Free EXCEPT !.live = TRUE, !.owner = h, !.prio = p, !.delay = d,
                       !.maxRepeat = r])

(* EventTimer::rearm                                                       *)
Rearmed(c, d, r) ==
    LET b == [c EXCEPT !.delay = d, !.remaining = 0]
    IN  Armed(IF r = NoChange THEN b ELSE [b EXCEPT !.maxRepeat = r, !.counter = 0])

(* Mutant of Counted: it counts down.                                      *)
CountedDown(c) == IF c.maxRepeat = Unlimited THEN c ELSE [c EXCEPT !.counter = @ - 1]

(* _repeat._counter++.  The count is never read when the repeat is         *)
(* unlimited, so it is only kept for a limited one.                        *)
Counted(c) == IF c.maxRepeat = Unlimited THEN c ELSE [c EXCEPT !.counter = @ + 1]

-----------------------------------------------------------------------------
(* EventScheduler::_removeTimer: detach, erase from the vector; the        *)
(* deleter frees the object and clears the wrapper that owns it.           *)

(* Mutants: the timer is not detached first; an erase is left out while a  *)
(* callback of _loop() runs.                                               *)
CellsWithoutDetach(t) ==
    IF t = None THEN cell ELSE [cell EXCEPT ![t] = Deleted(@)]
TimersWithoutErase(t) ==
    IF phase = "callback" THEN timers ELSE RemoveFirst(timers, t)

CellsWithout(t) ==
    IF t = None THEN cell ELSE [cell EXCEPT ![t] = Deleted(Disarmed(@))]
TimersWithout(t) == RemoveFirst(timers, t)
HandlesWithout(t) ==
    IF t # None /\ cell[t].owner # None
    THEN [handle EXCEPT ![cell[t].owner] = None] ELSE handle

RemoveTimer(t) ==
    /\ cell' = CellsWithout(t)
    /\ timers' = TimersWithout(t)
    /\ handle' = HandlesWithout(t)

(* The callbacks that have started and not returned.                       *)
Running == {cur, irq} \ {None}

(* Mutants of AfterCallback: the repeats are tested before the count; a    *)
(* chopped timer is not armed again.                                       *)
AfterCallbackTestsFirst(t) ==
    IF ~cell[t].live
    THEN UNCHANGED <<cell, timers, handle>>
    ELSE LET c == Counted(cell[t])
         IN  IF HasRepeat(cell[t]) /\ c.func
             THEN /\ cell' = [cell EXCEPT ![t] = IF c.delay > MaxDelay THEN Armed(c) ELSE c]
                  /\ UNCHANGED <<timers, handle>>
             ELSE RemoveTimer(t)
AfterCallbackOnce(t) ==
    IF ~cell[t].live
    THEN UNCHANGED <<cell, timers, handle>>
    ELSE LET c == Counted(cell[t])
         IN  IF HasRepeat(c) /\ c.func
             THEN cell' = [cell EXCEPT ![t] = c] /\ UNCHANGED <<timers, handle>>
             ELSE RemoveTimer(t)

(* EventTimer::_invokeCallback after the callback returned.  If the        *)
(* callback removed its own timer, this works on freed memory: timer_func  *)
(* is still null there, so nothing is found to remove - unless a timer     *)
(* created meanwhile has been given the same memory: then this is it.      *)
AfterCallback(t) ==
    IF ~cell[t].live
    THEN UNCHANGED <<cell, timers, handle>>
    ELSE LET c == Counted(cell[t])
         IN  IF HasRepeat(c) /\ c.func
             THEN /\ cell' = [cell EXCEPT ![t] = IF c.delay > MaxDelay THEN Armed(c) ELSE c]
                  /\ UNCHANGED <<timers, handle>>
             ELSE RemoveTimer(t)

-----------------------------------------------------------------------------
Init ==
    /\ cell = [t \in Timers |-> Free]
    /\ timers = <<>>
    /\ handle = [h \in Handles |-> None]
    /\ phase = "idle"
    /\ idx = 0
    /\ cur = None
    /\ irq = None
    /\ begun = TRUE
    /\ since = [t \in Timers |-> 0]

(* User code runs anywhere but inside the walk over the vector.            *)
UserCode(op) == op \in Operations /\ phase # "scan"

(* Whether user code may free timer t: its own, or another running one,    *)
(* only where Operations grants "removeSelf".                              *)
MayFree(t) == t \in Running => "removeSelf" \in Operations

control == <<phase, idx, cur, irq>>

(* Mutant of Add: the timer the wrapper holds is not removed.              *)
AddOver(h, t, d, r, p) ==
    /\ UserCode("add")
    /\ ~cell[t].live
    /\ cell' = [cell EXCEPT ![t] = NewTimer(h, d, r, p)]
    /\ timers' = Append(timers, t)
    /\ handle' = IF h = None THEN handle ELSE [handle EXCEPT ![h] = t]
    /\ since' = [since EXCEPT ![t] = 0]
    /\ UNCHANGED <<control, begun>>

(* EventScheduler::addTimer and Timer::add, which first removes the timer  *)
(* the wrapper holds.  The allocator may return the memory just freed.     *)
Add(h, t, d, r, p) ==
    LET old == IF h = None THEN None ELSE handle[h]
    IN  /\ UserCode("add")
        /\ MayFree(old)
        /\ ~cell[t].live \/ t = old
        /\ cell' = [CellsWithout(old) EXCEPT ![t] = NewTimer(h, d, r, p)]
        /\ timers' = Append(TimersWithout(old), t)
        /\ handle' = IF h = None THEN handle ELSE [handle EXCEPT ![h] = t]
        /\ since' = [since EXCEPT ![t] = 0]
        /\ UNCHANGED <<control, begun>>

(* EventScheduler::removeTimer, and Timer::remove for the timer it holds.  *)
Remove1(t) ==
    /\ UserCode("remove")
    /\ cell[t].live
    /\ MayFree(t)
    /\ RemoveTimer(t)
    /\ UNCHANGED <<control, begun, since>>

(* EventTimer::rearm                                                       *)
Rearm(t, d, r) ==
    /\ UserCode("rearm")
    /\ cell[t].live
    /\ d \in IF t \in Running THEN SelfRearmDelays ELSE RearmDelays
    /\ cell' = [cell EXCEPT ![t] = Rearmed(@, d, r)]
    /\ since' = [since EXCEPT ![t] = 0]
    /\ UNCHANGED <<timers, handle, control, begun>>

(* EventTimer::detach                                                      *)
Detach(t) ==
    /\ UserCode("detach")
    /\ cell[t].live
    /\ cell' = [cell EXCEPT ![t] = Disarmed(@)]
    /\ UNCHANGED <<timers, handle, control, begun, since>>

(* EventTimer::setPriority                                                 *)
SetPriority(t, p) ==
    /\ UserCode("setPriority")
    /\ cell[t].live
    /\ cell' = [cell EXCEPT ![t].prio = p]
    /\ UNCHANGED <<timers, handle, control, begun, since>>

(* EventScheduler::begin and end.  end() swaps the vector out, detaches    *)
(* every timer and deletes them all.                                       *)
Begin ==
    /\ UserCode("end")
    /\ ~begun
    /\ begun' = TRUE
    /\ UNCHANGED <<cell, timers, handle, control, since>>

(* Mutant of End: it deletes the timers without detaching them.            *)
EndWithoutDetach ==
    /\ UserCode("end")
    /\ begun
    /\ \A t \in ToSet(timers) : MayFree(t)
    /\ begun' = FALSE
    /\ cell' = [t \in Timers |-> IF t \in ToSet(timers) THEN Deleted(cell[t]) ELSE cell[t]]
    /\ timers' = <<>>
    /\ handle' = [h \in Handles |->
                    IF \E t \in ToSet(timers) : cell[t].owner = h THEN None ELSE handle[h]]
    /\ UNCHANGED <<control, since>>

End ==
    /\ UserCode("end")
    /\ begun
    /\ \A t \in ToSet(timers) : MayFree(t)
    /\ begun' = FALSE
    /\ cell' = [t \in Timers |-> IF t \in ToSet(timers)
                              THEN Deleted(Disarmed(cell[t])) ELSE cell[t]]
    /\ timers' = <<>>
    /\ handle' = [h \in Handles |->
                    IF \E t \in ToSet(timers) : cell[t].owner = h THEN None ELSE handle[h]]
    /\ UNCHANGED <<control, since>>

-----------------------------------------------------------------------------
(* One unit of time passes for every queued SDK timer.                     *)
Tick ==
    /\ cell' = [t \in Timers |->
                  IF cell[t].queued /\ cell[t].due > 0
                  THEN [cell[t] EXCEPT !.due = @ - 1] ELSE cell[t]]
    /\ since' = [t \in Timers |->
                  IF since[t] < cell[t].delay THEN since[t] + 1 ELSE since[t]]
    /\ UNCHANGED <<timers, handle, control, begun>>

(* An SDK timer has expired and the SDK task runs _timerCallback: a        *)
(* periodic timer is queued again, a single shot is not.                   *)
Expired(t) ==
    /\ phase # "scan"
    /\ irq = None
    /\ cell[t].queued
    /\ cell[t].due = 0

Refreshed(c) == [c EXCEPT !.queued = c.period # 0, !.due = c.period]

TimerChunk(t) ==
    /\ Expired(t)
    /\ cell[t].remaining # 0
    /\ cell' = [cell EXCEPT ![t] = Armed(Refreshed(@))]
    /\ UNCHANGED <<timers, handle, control, begun, since>>

TimerHigh(t) ==
    /\ Expired(t)
    /\ cell[t].remaining = 0
    /\ cell[t].prio = "high"
    /\ cell' = [cell EXCEPT ![t] = Refreshed(@)]
    /\ irq' = t
    /\ since' = [since EXCEPT ![t] = 0]
    /\ UNCHANGED <<timers, handle, phase, idx, cur, begun>>

TimerLow(t) ==
    /\ Expired(t)
    /\ cell[t].remaining = 0
    /\ cell[t].prio # "high"
    /\ cell' = [cell EXCEPT ![t] = [Refreshed(@) EXCEPT !.scheduled = TRUE]]
    /\ since' = [since EXCEPT ![t] = 0]
    /\ UNCHANGED <<timers, handle, control, begun>>

TimerExpires(t) == TimerChunk(t) \/ TimerHigh(t) \/ TimerLow(t)

(* The PRIO_HIGH callback returns to the SDK task.                         *)
HighReturn ==
    /\ irq # None
    /\ AfterCallback(irq)
    /\ irq' = None
    /\ UNCHANGED <<phase, idx, cur, begun, since>>

-----------------------------------------------------------------------------
(* EventScheduler::_loop: the walk by index, one callback at a time.       *)

Pending(i) == {j \in i..Len(timers) : cell[timers[j]].scheduled}

(* Mutant of LoopStart: the walk leaves out the first timer.               *)
LoopStartAtSecond ==
    /\ begun
    /\ phase = "idle"
    /\ irq = None
    /\ timers # <<>>
    /\ phase' = "scan"
    /\ idx' = 2
    /\ UNCHANGED <<cell, timers, handle, cur, irq, begun, since>>

LoopStart ==
    /\ begun
    /\ phase = "idle"
    /\ irq = None
    /\ timers # <<>>
    /\ phase' = "scan"
    /\ idx' = 1
    /\ UNCHANGED <<cell, timers, handle, cur, irq, begun, since>>

(* The next timer whose callback is pending: clear the flag, invoke it.    *)
LoopInvoke ==
    /\ phase = "scan"
    /\ \E j \in Pending(idx) :
        /\ \A k \in Pending(idx) : j <= k
        /\ cell' = [cell EXCEPT ![timers[j]].scheduled = FALSE]
        /\ cur' = timers[j]
        /\ idx' = j
    /\ phase' = "callback"
    /\ UNCHANGED <<timers, handle, irq, begun, since>>

LoopEnd ==
    /\ phase = "scan"
    /\ Pending(idx) = {}
    /\ phase' = "idle"
    /\ idx' = 0
    /\ UNCHANGED <<cell, timers, handle, cur, irq, begun, since>>

(* The callback returns; the walk goes on with the next index, or ends     *)
(* when the callbacks took longer than _runtimeLimit.                      *)
LoopReturn ==
    /\ phase = "callback"
    /\ irq = None
    /\ AfterCallback(cur)
    /\ cur' = None
    /\ \/ /\ phase' = "scan"
          /\ idx' = idx + 1
       \/ /\ MayOverrun
          /\ phase' = "idle"
          /\ idx' = 0
    /\ UNCHANGED <<irq, begun, since>>

-----------------------------------------------------------------------------
Api ==
    \/ \E h \in Handles \cup {None}, t \in Timers, d \in Delays, r \in Repeats, p \in Priorities :
            Add(h, t, d, r, p)
    \/ \E t \in Timers : Remove1(t) \/ Detach(t)
    \/ \E t \in Timers, d \in RearmDelays \cup SelfRearmDelays, r \in RearmRepeats :
            Rearm(t, d, r)
    \/ \E t \in Timers, p \in Priorities : SetPriority(t, p)
    \/ Begin
    \/ End

Sdk ==
    \/ Tick
    \/ \E t \in Timers : TimerExpires(t)
    \/ HighReturn

Loop == LoopStart \/ LoopInvoke \/ LoopEnd \/ LoopReturn

Next == Api \/ Sdk \/ Loop

Spec == Init /\ [][Next]_vars

(* The loop function runs again and again, callbacks return, and the SDK   *)
(* serves expired timers.  Strong fairness where the SDK task and the main *)
(* program take turns: neither keeps the processor for ever.               *)
Fairness ==
    /\ WF_vars(Tick)
    /\ \A t \in Timers : SF_vars(TimerExpires(t))
    /\ WF_vars(HighReturn)
    /\ SF_vars(LoopStart)
    /\ WF_vars(LoopInvoke \/ LoopEnd)
    /\ SF_vars(LoopReturn)

FairSpec == Spec /\ Fairness

-----------------------------------------------------------------------------
(* Every variable keeps its type; the phase agrees with the running        *)
(* callback (the control flow of _loop() and _timerCallback()).            *)
Cells == [live : BOOLEAN, owner : Handles \cup {None}, prio : {"low", "high"},
          delay : Nat, remaining : Nat, counter : Nat,
          maxRepeat : Nat \cup {Unlimited}, scheduled : BOOLEAN, func : BOOLEAN,
          queued : BOOLEAN, due : Nat, period : Nat]

TypeOK ==
    /\ cell \in [Timers -> Cells]
    /\ timers \in Seq(Timers)
    /\ handle \in [Handles -> Timers \cup {None}]
    /\ phase \in {"idle", "scan", "callback"}
    /\ idx \in Nat
    /\ cur \in Timers \cup {None}
    /\ irq \in Timers \cup {None}
    /\ begun \in BOOLEAN
    /\ since \in [Timers -> Nat]

(* The vector holds exactly the allocated timers, each of them once,       *)
(* whatever callbacks, the SDK task and the main program add and remove    *)
(* while a walk over it is under way: none is leaked, none is freed twice. *)
RegistrySound ==
    /\ IsInjective(timers)
    /\ ToSet(timers) = {t \in Timers : cell[t].live}

(* The SDK never holds a timer whose EventTimer has been deleted           *)
(* (_timerCallback casts its argument to an EventTimer unchecked).         *)
SdkHoldsLiveTimers == \A t \in Timers : cell[t].queued => cell[t].live

(* A Timer wrapper is active() exactly while the timer it added exists:    *)
(* the deleter installed by Timer::add clears it on every way a timer goes.*)
WrapperSound ==
    \A h \in Handles :
        /\ handle[h] # None => cell[handle[h]].live /\ cell[handle[h]].owner = h
        /\ \A t \in Timers : cell[t].live /\ cell[t].owner = h => handle[h] = t

(* A timer that is active() (timer_func is set) never gets stuck: the SDK  *)
(* has it queued, its callback is pending, or its callback is running and  *)
(* _invokeCallback will requeue or remove it.                              *)
ActiveNotStuck ==
    \A t \in Timers :
        cell[t].live /\ cell[t].func =>
            cell[t].queued \/ cell[t].scheduled \/ t \in Running

(* A timer that used up its repeats is gone: _invokeCallback removed it.   *)
ExhaustedIsGone == \A t \in Timers : cell[t].live => HasRepeat(cell[t])

(* An expiry that runs or schedules the callback comes no earlier than the *)
(* requested delay after the timer was armed or last expired, chopped up   *)
(* or not (_rearmEtsTimer; "Support for more than 2 hour interval",        *)
(* EventScheduler.cpp:94).                                                 *)
NeverEarly ==
    \A t \in Timers :
        cell[t].queued /\ cell[t].due = 0 /\ cell[t].remaining = 0 =>
            since[t] >= cell[t].delay

(* A callback only starts on a timer that exists at that moment.           *)
Started == Running' \ Running
OnlyLiveTimersAreCalled == [][\A t \in Started : cell[t].live]_vars

(* "stops the timer" (EventTimer.h:50): no callback starts on a timer that *)
(* is detached.                                                            *)
DetachedIsSilent == [][\A t \in Started : cell[t].func]_vars

(* A pending callback is run, or cancelled, in the end: a removal shifts   *)
(* the vector under the walk and skips a timer, but not for ever.  While   *)
(* the scheduler is a loop function.                                       *)
PendingRuns == \A t \in Timers : cell[t].scheduled ~> ~cell[t].scheduled

(* An active timer expires, unless it is detached, removed or armed anew   *)
(* first: the chunks of a long delay come to an end.                       *)
ActiveExpires ==
    \A t \in Timers : (cell[t].func /\ since[t] > 0) ~> (~cell[t].func \/ since[t] = 0)
=============================================================================
