------------------------ MODULE EventSchedulerProofs ------------------------
(***************************************************************************)
(* Theorems about EventScheduler for every set of timers and wrappers and  *)
(* every choice of delays, repeats, priorities and operations.             *)
(***************************************************************************)
EXTENDS EventScheduler, SequenceTheorems, TLAPS

(***************************************************************************)
(* Lemmas about the vector.                                                *)
(***************************************************************************)
(* RemoveAt takes out one element and keeps the others in order.           *)
LEMMA RemoveAtLemma ==
    ASSUME NEW S, NEW s \in Seq(S), NEW k \in 1..Len(s)
    PROVE  /\ RemoveAt(s, k) \in Seq(S)
           /\ Len(RemoveAt(s, k)) = Len(s) - 1
           /\ \A i \in 1..(Len(s) - 1) :
                 RemoveAt(s, k)[i] = IF i < k THEN s[i] ELSE s[i + 1]
<1> DEFINE a == SubSeq(s, 1, k - 1)
           b == SubSeq(s, k + 1, Len(s))
<1>1. /\ a \in Seq(S) /\ Len(a) = k - 1
      /\ \A i \in 1..(k - 1) : a[i] = s[i]
  OBVIOUS
<1>2. /\ b \in Seq(S) /\ Len(b) = Len(s) - k
      /\ \A i \in 1..(Len(s) - k) : b[i] = s[k + i]
  <2>1. CASE k = Len(s)
    BY <2>1
  <2>2. CASE k < Len(s)
    BY <2>2, SubSeqProperties
  <2> QED BY <2>1, <2>2
<1> HIDE DEF a, b
<1>3. /\ a \o b \in Seq(S) /\ Len(a \o b) = Len(s) - 1
      /\ \A i \in 1..(Len(s) - 1) : (a \o b)[i] = IF i <= k - 1 THEN a[i] ELSE b[i - (k - 1)]
  BY <1>1, <1>2, ConcatProperties
<1>4. ASSUME NEW i \in 1..(Len(s) - 1)
      PROVE  (a \o b)[i] = IF i < k THEN s[i] ELSE s[i + 1]
  <2>1. CASE i < k
    BY <1>1, <1>3, <2>1
  <2>2. CASE ~(i < k)
    <3>1. i - (k - 1) \in 1..(Len(s) - k) /\ k + (i - (k - 1)) = i + 1
      BY <2>2
    <3> QED BY <1>2, <1>3, <2>2, <3>1
  <2> QED BY <2>1, <2>2
<1> QED BY <1>3, <1>4 DEF RemoveAt, a, b

(* vector::erase of the element found first: a vector of distinct elements *)
(* loses exactly that element.                                             *)
LEMMA EraseLemma ==
    ASSUME NEW S, NEW s \in Seq(S), IsInjective(s), NEW e
    PROVE  /\ RemoveFirst(s, e) \in Seq(S)
           /\ IsInjective(RemoveFirst(s, e))
           /\ ToSet(RemoveFirst(s, e)) = ToSet(s) \ {e}
<1>1. CASE \A i \in 1..Len(s) : s[i] # e
  <2>1. RemoveFirst(s, e) = s
    BY <1>1 DEF RemoveFirst
  <2>2. e \notin ToSet(s)
    BY <1>1 DEF ToSet
  <2> QED BY <2>1, <2>2
<1>2. CASE \E i \in 1..Len(s) : s[i] = e
  <2>1. PICK k \in 1..Len(s) : s[k] = e
    BY <1>2
  <2>2. {i \in 1..Len(s) : s[i] = e} = {k}
    BY <2>1 DEF IsInjective
  <2>3. Min({k}) = k
    BY DEF Min
  <2>4. RemoveFirst(s, e) = RemoveAt(s, k)
    BY <1>2, <2>2, <2>3 DEF RemoveFirst, SelectInSeq
  <2>5. IsInjective(RemoveAt(s, k))
    <3> DEFINE r == RemoveAt(s, k)
    <3>1. /\ r \in Seq(S) /\ Len(r) = Len(s) - 1
          /\ \A i \in 1..(Len(s) - 1) : r[i] = IF i < k THEN s[i] ELSE s[i + 1]
      BY RemoveAtLemma
    <3> HIDE DEF r
    <3>2. ASSUME NEW i \in 1..(Len(s) - 1), NEW j \in 1..(Len(s) - 1), r[i] = r[j]
          PROVE  i = j
      <4>1. \A m, n \in 1..Len(s) : s[m] = s[n] => m = n
        BY DEF IsInjective
      <4>2. PICK m \in 1..Len(s) : r[i] = s[m] /\ m = IF i < k THEN i ELSE i + 1
        BY <3>1
      <4>3. PICK n \in 1..Len(s) : r[j] = s[n] /\ n = IF j < k THEN j ELSE j + 1
        BY <3>1
      <4>4. m = n
        BY <3>2, <4>1, <4>2, <4>3
      <4> QED BY <4>2, <4>3, <4>4
    <3>3. IsInjective(r)
      BY <3>1, <3>2 DEF IsInjective
    <3> QED BY <3>3 DEF r
  <2>6. ToSet(RemoveAt(s, k)) = ToSet(s) \ {e}
    <3> DEFINE r == RemoveAt(s, k)
    <3>1. /\ r \in Seq(S) /\ Len(r) = Len(s) - 1
          /\ \A i \in 1..(Len(s) - 1) : r[i] = IF i < k THEN s[i] ELSE s[i + 1]
      BY RemoveAtLemma
    <3> HIDE DEF r
    <3>2. ASSUME NEW i \in DOMAIN r PROVE r[i] \in ToSet(s) \ {e}
      <4>1. PICK j \in 1..Len(s) : j # k /\ r[i] = s[j]
        <5>1. i \in 1..(Len(s) - 1) /\ i \in 1..Len(s) /\ i + 1 \in 1..Len(s)
          BY <3>1
        <5>2. CASE i < k
          BY <3>1, <5>1, <5>2
        <5>3. CASE ~(i < k)
          BY <3>1, <5>1, <5>3
        <5> QED BY <5>2, <5>3
      <4>2. s[j] # s[k]
        BY <4>1 DEF IsInjective
      <4> QED BY <2>1, <4>1, <4>2 DEF ToSet
    <3>3. ASSUME NEW i \in DOMAIN s, s[i] # e PROVE s[i] \in ToSet(r)
      <4>1. CASE i < k
        BY <3>1, <3>3, <4>1 DEF ToSet
      <4>2. CASE i > k
        <5>1. i - 1 \in 1..(Len(s) - 1) /\ ~(i - 1 < k) /\ (i - 1) + 1 = i
          BY <4>2
        <5>2. i - 1 \in DOMAIN r /\ r[i - 1] = s[i]
          BY <3>1, <5>1
        <5> QED BY <5>2 DEF ToSet
      <4> QED BY <2>1, <3>3, <4>1, <4>2
    <3> QED BY <3>2, <3>3 DEF ToSet, r
  <2> QED BY <2>4, <2>5, <2>6, RemoveAtLemma
<1> QED BY <1>1, <1>2

(* push_back of an element that is not in the vector keeps it distinct.    *)
LEMMA AppendLemma ==
    ASSUME NEW S, NEW s \in Seq(S), IsInjective(s), NEW e \in S, e \notin ToSet(s)
    PROVE  /\ Append(s, e) \in Seq(S)
           /\ IsInjective(Append(s, e))
           /\ ToSet(Append(s, e)) = ToSet(s) \cup {e}
<1>1. /\ Len(Append(s, e)) = Len(s) + 1
      /\ \A i \in 1..Len(s) : Append(s, e)[i] = s[i]
      /\ Append(s, e)[Len(s) + 1] = e
  OBVIOUS
<1>2. IsInjective(Append(s, e))
  BY <1>1 DEF IsInjective, ToSet
<1>3. ToSet(Append(s, e)) = ToSet(s) \cup {e}
  BY <1>1 DEF ToSet
<1> QED BY <1>2, <1>3

(***************************************************************************)
(* The inductive invariant.  Besides the properties, CellOK: what the      *)
(* fields of an EventTimer and of its SDK timer say together.  A timer     *)
(* whose delay fits MaxDelay is always armed as a periodic SDK timer, so   *)
(* it stays queued when it expires; only a chopped delay is a single shot, *)
(* and only then _invokeCallback has to arm it again.                      *)
(***************************************************************************)
CellOK(c) ==
    /\ c.live => HasRepeat(c)
    /\ c.queued \/ c.func \/ c.scheduled => c.live
    /\ c.queued => c.func
    /\ c.remaining # 0 => c.delay > MaxDelay
    /\ c.func => c.queued \/ c.delay > MaxDelay
    /\ c.queued /\ c.period = 0 => c.delay > MaxDelay

Control ==
    /\ phase = "callback" <=> cur # None
    /\ phase # "idle" => idx \in Nat \ {0}

IInv ==
    /\ TypeOK
    /\ Control
    /\ RegistrySound
    /\ WrapperSound
    /\ ActiveNotStuck
    /\ \A t \in Timers : CellOK(cell[t])

-----------------------------------------------------------------------------
(* What the operations on one EventTimer return.                           *)
LEMMA QueuedLemma ==
    ASSUME NEW c \in Cells, c.live, HasRepeat(c), c.remaining # 0 => c.delay > MaxDelay,
           NEW d \in Nat, NEW repeat \in BOOLEAN,
           IF repeat THEN d # 0 ELSE c.delay > MaxDelay
    PROVE  /\ Queued(c, d, repeat) \in Cells
           /\ CellOK(Queued(c, d, repeat))
           /\ Queued(c, d, repeat).live /\ Queued(c, d, repeat).queued
           /\ Queued(c, d, repeat).owner = c.owner
           /\ ~Queued(c, d, repeat).scheduled
<1> DEFINE q == Queued(c, d, repeat)
<1>1. /\ q \in Cells
      /\ q.live /\ q.queued /\ q.func /\ q.owner = c.owner /\ ~q.scheduled
      /\ q.delay = c.delay /\ q.remaining = c.remaining
      /\ q.counter = c.counter /\ q.maxRepeat = c.maxRepeat
      /\ q.period = IF repeat THEN d ELSE 0
  BY DEF Queued, Cells
<1> HIDE DEF q
<1>2. HasRepeat(q)
  BY <1>1 DEF HasRepeat
<1>3. CellOK(q)
  BY <1>1, <1>2 DEF CellOK
<1> QED BY <1>1, <1>3 DEF q

(* Arming the SDK timer keeps an EventTimer well formed and alive.         *)
LEMMA ArmedLemma ==
    ASSUME NEW c \in Cells, c.live, HasRepeat(c), c.remaining # 0 => c.delay > MaxDelay
    PROVE  /\ Armed(c) \in Cells
           /\ CellOK(Armed(c))
           /\ Armed(c).live /\ Armed(c).queued /\ Armed(c).owner = c.owner
           /\ ~Armed(c).scheduled
<1> DEFINE left == IF c.remaining = 0 /\ c.delay > MaxDelay THEN c.delay ELSE c.remaining
<1>1. /\ left \in Nat
      /\ left # 0 => c.delay > MaxDelay
      /\ MinDelay \in Nat \ {0} /\ MaxDelay \in Nat
      /\ c.delay \in Nat /\ MinDelay <= MaxDelay
  BY DelayAssumption DEF Cells
<1>2. ASSUME NEW n \in Nat, NEW e, e = [c EXCEPT !.remaining = n]
      PROVE  /\ e \in Cells /\ e.live /\ e.remaining = n
             /\ e.delay = c.delay /\ e.owner = c.owner /\ HasRepeat(e)
  BY <1>2 DEF Cells, HasRepeat
<1>3. CASE left > MaxDelay
  <2> DEFINE e == [c EXCEPT !.remaining = left - MaxDelay]
  <2>1. Armed(c) = Queued(e, MaxDelay, FALSE)
    BY <1>3 DEF Armed
  <2>2. left - MaxDelay \in Nat /\ c.delay > MaxDelay
    BY <1>1, <1>3
  <2>3. /\ e \in Cells /\ e.live /\ e.remaining = left - MaxDelay
        /\ e.delay = c.delay /\ e.owner = c.owner /\ HasRepeat(e)
    BY <1>2, <2>2
  <2> HIDE DEF e, left
  <2>4. /\ Queued(e, MaxDelay, FALSE) \in Cells /\ CellOK(Queued(e, MaxDelay, FALSE))
        /\ Queued(e, MaxDelay, FALSE).live /\ Queued(e, MaxDelay, FALSE).queued
        /\ Queued(e, MaxDelay, FALSE).owner = e.owner
        /\ ~Queued(e, MaxDelay, FALSE).scheduled
    BY <1>1, <2>2, <2>3, QueuedLemma
  <2> QED BY <2>1, <2>3, <2>4
<1>4. CASE ~(left > MaxDelay) /\ left # 0
  <2> DEFINE e == [c EXCEPT !.remaining = 0]
             d == AtLeast(MinDelay, left)
  <2>1. Armed(c) = Queued(e, d, FALSE)
    BY <1>4 DEF Armed
  <2>2. d \in Nat /\ c.delay > MaxDelay
    BY <1>1, <1>4 DEF AtLeast
  <2>3. /\ e \in Cells /\ e.live /\ e.remaining = 0
        /\ e.delay = c.delay /\ e.owner = c.owner /\ HasRepeat(e)
    BY <1>2
  <2> HIDE DEF e, left, d
  <2>4. /\ Queued(e, d, FALSE) \in Cells /\ CellOK(Queued(e, d, FALSE))
        /\ Queued(e, d, FALSE).live /\ Queued(e, d, FALSE).queued
        /\ Queued(e, d, FALSE).owner = e.owner
        /\ ~Queued(e, d, FALSE).scheduled
    BY <2>2, <2>3, QueuedLemma
  <2> QED BY <2>1, <2>3, <2>4
<1>5. CASE left = 0
  <2> DEFINE e == [c EXCEPT !.remaining = 0]
             d == AtLeast(MinDelay, c.delay)
  <2>1. HasRepeat(c) = TRUE /\ ~(left > MaxDelay)
    BY <1>1, <1>5 DEF HasRepeat
  <2>2. Armed(c) = Queued(e, d, TRUE)
    BY <1>5, <2>1, Zenon DEF Armed
  <2>3. d \in Nat /\ d # 0
    BY <1>1 DEF AtLeast
  <2>4. /\ e \in Cells /\ e.live /\ e.remaining = 0
        /\ e.delay = c.delay /\ e.owner = c.owner /\ HasRepeat(e)
    BY <1>2
  <2> HIDE DEF e, left, d
  <2>5. /\ Queued(e, d, TRUE) \in Cells /\ CellOK(Queued(e, d, TRUE))
        /\ Queued(e, d, TRUE).live /\ Queued(e, d, TRUE).queued
        /\ Queued(e, d, TRUE).owner = e.owner
        /\ ~Queued(e, d, TRUE).scheduled
    BY <2>3, <2>4, QueuedLemma
  <2> QED BY <2>2, <2>4, <2>5
<1> QED BY <1>1, <1>3, <1>4, <1>5

(* A deleted EventTimer leaves a well formed, free cell.                   *)
LEMMA DeletedLemma ==
    ASSUME NEW c \in Cells
    PROVE  /\ Deleted(Disarmed(c)) \in Cells
           /\ CellOK(Deleted(Disarmed(c)))
           /\ ~Deleted(Disarmed(c)).live
<1> DEFINE d == Deleted(Disarmed(c))
<1>1. /\ Disarmed(c).func = FALSE /\ Disarmed(c).queued = FALSE
      /\ Disarmed(c).due = 0 /\ Disarmed(c).period = 0
  BY DEF Disarmed, Cells
<1>2. d = [Free EXCEPT !.func = FALSE, !.queued = FALSE, !.due = 0, !.period = 0, !.prio = "low"]
  BY <1>1 DEF Deleted
<1> HIDE DEF d
<1>3. d = Free
  BY <1>2 DEF Free
<1>4. d \in Cells
  BY <1>3, NoneAssumption DEF Free, Cells
<1>5. CellOK(d) /\ ~d.live
  BY <1>3 DEF Free, CellOK
<1> QED BY <1>4, <1>5 DEF d

(* A constructed and installed EventTimer is well formed and alive.        *)
LEMMA NewTimerLemma ==
    ASSUME NEW h \in Handles \cup {None}, NEW d \in Delays, NEW r \in Repeats,
           NEW p \in Priorities
    PROVE  /\ NewTimer(h, d, r, p) \in Cells
           /\ CellOK(NewTimer(h, d, r, p))
           /\ NewTimer(h, d, r, p).live /\ NewTimer(h, d, r, p).queued
           /\ NewTimer(h, d, r, p).owner = h
<1> DEFINE c == [Free EXCEPT !.live = TRUE, !.owner = h, !.prio = p, !.delay = d,
                             !.maxRepeat = r]
<1>1. /\ c \in Cells /\ c.live /\ c.owner = h
      /\ c.remaining = 0 /\ c.counter = 0 /\ c.maxRepeat = r
  BY DelayAssumption, RepeatAssumption, UsageAssumption DEF Free, Cells
<1>2. HasRepeat(c)
  BY <1>1, RepeatAssumption DEF HasRepeat
<1>3. NewTimer(h, d, r, p) = Armed(c)
  BY DEF NewTimer
<1> HIDE DEF c
<1> QED BY <1>1, <1>2, <1>3, ArmedLemma

(* rearm() keeps an EventTimer well formed and alive.                      *)
LEMMA RearmedLemma ==
    ASSUME NEW c \in Cells, c.live, HasRepeat(c), NEW d \in Nat,
           NEW r \in RearmRepeats
    PROVE  /\ Rearmed(c, d, r) \in Cells
           /\ CellOK(Rearmed(c, d, r))
           /\ Rearmed(c, d, r).live /\ Rearmed(c, d, r).queued
           /\ Rearmed(c, d, r).owner = c.owner
<1> DEFINE b == [c EXCEPT !.delay = d, !.remaining = 0]
           e == IF r = NoChange THEN b ELSE [b EXCEPT !.maxRepeat = r, !.counter = 0]
<1>1. e \in Cells /\ e.live /\ e.owner = c.owner /\ e.remaining = 0
  BY RepeatAssumption DEF Cells, NoChange, Unlimited
<1>2. HasRepeat(e)
  BY RepeatAssumption DEF Cells, HasRepeat, NoChange, Unlimited
<1>3. Rearmed(c, d, r) = Armed(e)
  BY DEF Rearmed
<1> HIDE DEF e
<1> QED BY <1>1, <1>2, <1>3, ArmedLemma

-----------------------------------------------------------------------------
(* The parts of the invariant about the heap, the vector and the wrappers, *)
(* which do not depend on where the program is.                            *)
Heap ==
    /\ cell \in [Timers -> Cells]
    /\ timers \in Seq(Timers)
    /\ handle \in [Handles -> Timers \cup {None}]
    /\ RegistrySound
    /\ WrapperSound
    /\ \A t \in Timers : CellOK(cell[t])

(* A step that replaces one EventTimer by another state of the same object.*)
LEMMA CellStep ==
    ASSUME Heap, NEW t \in Timers, NEW c \in Cells, CellOK(c),
           c.live = cell[t].live, c.owner = cell[t].owner,
           cell' = [cell EXCEPT ![t] = c], UNCHANGED <<timers, handle>>
    PROVE  Heap'
<1>1. /\ cell' \in [Timers -> Cells]
      /\ \A u \in Timers : cell'[u] = IF u = t THEN c ELSE cell[u]
  BY DEF Heap
<1>2. \A u \in Timers : /\ cell'[u].live = cell[u].live
                        /\ cell'[u].owner = cell[u].owner
                        /\ CellOK(cell'[u])
  BY <1>1 DEF Heap
<1>3. RegistrySound'
  BY <1>2 DEF Heap, RegistrySound
<1>4. WrapperSound'
  BY <1>2, NoneAssumption DEF Heap, WrapperSound
<1> QED BY <1>1, <1>2, <1>3, <1>4 DEF Heap

(* The state left by _removeTimer.                                         *)
LEMMA WithoutLemma ==
    ASSUME Heap, NEW t \in Timers, cell[t].live
    PROVE  /\ CellsWithout(t) \in [Timers -> Cells]
           /\ ~CellsWithout(t)[t].live /\ CellOK(CellsWithout(t)[t])
           /\ \A u \in Timers : u # t => CellsWithout(t)[u] = cell[u]
           /\ TimersWithout(t) \in Seq(Timers)
           /\ IsInjective(TimersWithout(t))
           /\ ToSet(TimersWithout(t)) = {u \in Timers : cell[u].live} \ {t}
           /\ HandlesWithout(t) \in [Handles -> Timers \cup {None}]
           /\ \A h \in Handles :
                 HandlesWithout(t)[h] = IF handle[h] = t THEN None ELSE handle[h]
<1>1. t # None
  BY NoneAssumption
<1>2. CellsWithout(t) = [cell EXCEPT ![t] = Deleted(Disarmed(cell[t]))]
  BY <1>1 DEF CellsWithout
<1>3. /\ Deleted(Disarmed(cell[t])) \in Cells
      /\ CellOK(Deleted(Disarmed(cell[t])))
      /\ ~Deleted(Disarmed(cell[t])).live
  BY DeletedLemma DEF Heap
<1>4. /\ CellsWithout(t) \in [Timers -> Cells]
      /\ ~CellsWithout(t)[t].live /\ CellOK(CellsWithout(t)[t])
      /\ \A u \in Timers : u # t => CellsWithout(t)[u] = cell[u]
  <2>1. cell \in [Timers -> Cells]
    BY DEF Heap
  <2> QED BY <1>2, <1>3, <2>1
<1>5. /\ TimersWithout(t) \in Seq(Timers)
      /\ IsInjective(TimersWithout(t))
      /\ ToSet(TimersWithout(t)) = {u \in Timers : cell[u].live} \ {t}
  BY EraseLemma DEF Heap, TimersWithout, RegistrySound
<1>6. \A h \in Handles : cell[t].owner = h <=> handle[h] = t
  BY <1>1 DEF Heap, WrapperSound
<1>7. cell[t].owner \in Handles \cup {None}
  BY DEF Heap, Cells
<1>8. /\ HandlesWithout(t) \in [Handles -> Timers \cup {None}]
      /\ \A h \in Handles :
            HandlesWithout(t)[h] = IF handle[h] = t THEN None ELSE handle[h]
  <2>1. CASE cell[t].owner = None
    <3>1. \A h \in Handles : handle[h] # t
      BY <1>6, <2>1, NoneAssumption
    <3> QED BY <2>1, <3>1 DEF HandlesWithout, Heap
  <2>2. CASE cell[t].owner # None
    BY <1>1, <1>6, <1>7, <2>2 DEF HandlesWithout, Heap
  <2> QED BY <2>1, <2>2
<1> QED BY <1>4, <1>5, <1>8

(* Removing a timer keeps the heap part of the invariant.                  *)
LEMMA RemoveStep ==
    ASSUME Heap, NEW t \in Timers, cell[t].live, RemoveTimer(t)
    PROVE  /\ Heap'
           /\ ~cell'[t].live
           /\ \A u \in Timers : u # t => cell'[u] = cell[u]
<1>1. /\ cell' = CellsWithout(t) /\ timers' = TimersWithout(t)
      /\ handle' = HandlesWithout(t)
  BY DEF RemoveTimer
<1>2. RegistrySound'
  BY <1>1, WithoutLemma DEF RegistrySound
<1>3. WrapperSound'
  <2>1. \A h \in Handles : handle'[h] = IF handle[h] = t THEN None ELSE handle[h]
    BY <1>1, WithoutLemma
  <2>2. ~cell'[t].live /\ \A u \in Timers : u # t => cell'[u] = cell[u]
    BY <1>1, WithoutLemma
  <2>3. WrapperSound /\ handle \in [Handles -> Timers \cup {None}]
    BY DEF Heap
  <2> QED BY <2>1, <2>2, <2>3 DEF WrapperSound
<1>4. \A u \in Timers : CellOK(cell'[u])
  BY <1>1, WithoutLemma DEF Heap
<1> QED BY <1>1, <1>2, <1>3, <1>4, WithoutLemma DEF Heap

(* What _invokeCallback does once the callback has returned.               *)
LEMMA AfterStep ==
    ASSUME Heap, NEW t \in Timers, AfterCallback(t)
    PROVE  /\ Heap'
           /\ \A u \in Timers : u # t => cell'[u] = cell[u]
           /\ cell'[t].live /\ cell'[t].func => cell'[t].queued
<1> DEFINE c == Counted(cell[t])
<1>1. CASE ~cell[t].live
  BY <1>1 DEF AfterCallback, Heap, RegistrySound, WrapperSound, CellOK
<1>2. CASE cell[t].live /\ HasRepeat(c) /\ c.func
  <2>1. /\ c \in Cells /\ c.live /\ c.owner = cell[t].owner /\ c.func
        /\ c.delay = cell[t].delay /\ c.queued = cell[t].queued
        /\ c.remaining = cell[t].remaining /\ c.period = cell[t].period
        /\ CellOK(c)
    <3>1. cell[t] \in Cells /\ CellOK(cell[t])
      BY DEF Heap
    <3>2. /\ c \in Cells /\ c.live = cell[t].live /\ c.owner = cell[t].owner
          /\ c.func = cell[t].func /\ c.delay = cell[t].delay
          /\ c.queued = cell[t].queued /\ c.scheduled = cell[t].scheduled
          /\ c.remaining = cell[t].remaining /\ c.period = cell[t].period
      BY <3>1 DEF Counted, Cells
    <3> HIDE DEF c
    <3>3. CellOK(c)
      BY <1>2, <3>1, <3>2 DEF CellOK
    <3> QED BY <1>2, <3>2, <3>3
  <2> DEFINE n == IF c.delay > MaxDelay THEN Armed(c) ELSE c
  <2>2. cell' = [cell EXCEPT ![t] = n] /\ UNCHANGED <<timers, handle>>
    BY <1>2, Zenon DEF AfterCallback
  <2> HIDE DEF c
  <2>3. CASE c.delay > MaxDelay
    <3>1. HasRepeat(c)
      BY <1>2
    <3>2. /\ Armed(c) \in Cells /\ CellOK(Armed(c)) /\ Armed(c).live
          /\ Armed(c).queued /\ Armed(c).owner = c.owner
      BY <2>1, <2>3, <3>1, ArmedLemma
    <3>3. n = Armed(c)
      BY <2>3
    <3> HIDE DEF n
    <3>4. Heap'
      BY <1>2, <2>1, <2>2, <3>2, <3>3, CellStep
    <3> QED BY <2>2, <3>2, <3>3, <3>4 DEF Heap
  <2>4. CASE ~(c.delay > MaxDelay)
    <3>1. n = c
      BY <2>4
    <3> HIDE DEF n
    <3>2. Heap'
      BY <1>2, <2>1, <2>2, <3>1, CellStep
    <3> QED BY <2>1, <2>2, <2>4, <3>1, <3>2 DEF Heap, CellOK
  <2> QED BY <2>3, <2>4
<1>3. CASE cell[t].live /\ ~(HasRepeat(c) /\ c.func)
  <2>1. RemoveTimer(t)
    BY <1>3, Zenon DEF AfterCallback
  <2> QED BY <1>3, <2>1, RemoveStep
<1> QED BY <1>1, <1>2, <1>3

-----------------------------------------------------------------------------
(* The invariant is preserved, action by action.                           *)
Scalars ==
    /\ phase \in {"idle", "scan", "callback"}
    /\ idx \in Nat
    /\ cur \in Timers \cup {None}
    /\ irq \in Timers \cup {None}
    /\ begun \in BOOLEAN
    /\ since \in [Timers -> Nat]

(* The parts IInv is proved by.                                            *)
LEMMA IInvParts == IInv <=> Heap /\ Scalars /\ Control /\ ActiveNotStuck
  BY DEF IInv, TypeOK, Heap, Scalars

(* The same for the next state.                                            *)
LEMMA IInvPartsNext == Heap' /\ Scalars' /\ Control' /\ ActiveNotStuck' => IInv'
  BY DEF IInv, TypeOK, Heap, Scalars

(* ActiveNotStuck is kept when every cell is unchanged or not stuck.        *)
LEMMA ActiveStep ==
    ASSUME ActiveNotStuck,
           \A u \in Timers :
              \/ cell'[u] = cell[u] /\ (u \in Running => u \in Running')
              \/ cell'[u].live /\ cell'[u].func => cell'[u].queued \/ cell'[u].scheduled
    PROVE  ActiveNotStuck'
  BY DEF ActiveNotStuck

(* addTimer and Timer::add, which removes the wrapper's timer first.       *)
LEMMA AddPreserves ==
    ASSUME IInv, NEW h \in Handles \cup {None}, NEW t \in Timers, NEW d \in Delays,
           NEW r \in Repeats, NEW p \in Priorities, Add(h, t, d, r, p)
    PROVE  IInv'
<1> DEFINE old == IF h = None THEN None ELSE handle[h]
           n == NewTimer(h, d, r, p)
<1>1. Heap /\ Scalars /\ Control /\ ActiveNotStuck
  BY IInvParts
<1>2. /\ ~cell[t].live \/ t = old
      /\ cell' = [CellsWithout(old) EXCEPT ![t] = n]
      /\ timers' = Append(TimersWithout(old), t)
      /\ handle' = IF h = None THEN handle ELSE [handle EXCEPT ![h] = t]
      /\ since' = [since EXCEPT ![t] = 0]
      /\ UNCHANGED <<phase, idx, cur, irq, begun>>
  BY DEF Add, control
<1>3. n \in Cells /\ CellOK(n) /\ n.live /\ n.queued /\ n.owner = h
  BY NewTimerLemma
<1>4. old # None => old \in Timers /\ cell[old].live /\ cell[old].owner = h /\ h \in Handles
  BY <1>1 DEF Heap, WrapperSound
<1> HIDE DEF n, old
<1>5. /\ CellsWithout(old) \in [Timers -> Cells]
      /\ \A u \in Timers : CellOK(CellsWithout(old)[u])
      /\ \A u \in Timers \ {old} : CellsWithout(old)[u] = cell[u]
      /\ TimersWithout(old) \in Seq(Timers)
      /\ IsInjective(TimersWithout(old))
      /\ ToSet(TimersWithout(old)) = {u \in Timers : cell[u].live} \ {old}
  <2>1. CASE old = None
    <3>1. CellsWithout(old) = cell
      BY <2>1 DEF CellsWithout
    <3>2. None \notin Timers /\ timers \in Seq(Timers)
      BY <1>1, NoneAssumption DEF Heap
    <3>3. /\ TimersWithout(old) \in Seq(Timers)
          /\ IsInjective(TimersWithout(old))
          /\ ToSet(TimersWithout(old)) = ToSet(timers) \ {old}
      BY <1>1, EraseLemma DEF Heap, TimersWithout, RegistrySound
    <3> QED BY <1>1, <2>1, <3>1, <3>2, <3>3 DEF Heap, RegistrySound
  <2>2. CASE old # None
    BY <1>1, <1>4, <2>2, WithoutLemma DEF Heap
  <2> QED BY <2>1, <2>2
<1>6. t \notin ToSet(TimersWithout(old))
  BY <1>2, <1>5
<1>7. /\ timers' \in Seq(Timers) /\ IsInjective(timers')
      /\ ToSet(timers') = ({u \in Timers : cell[u].live} \ {old}) \cup {t}
  BY <1>2, <1>5, <1>6, AppendLemma
<1>8. /\ cell' \in [Timers -> Cells]
      /\ cell'[t] = n
      /\ \A u \in Timers \ {t, old} : cell'[u] = cell[u]
      /\ \A u \in Timers : CellOK(cell'[u])
      /\ old # None /\ old # t => ~cell'[old].live
  <2>1. old # None => ~CellsWithout(old)[old].live
    BY <1>1, <1>4, WithoutLemma
  <2> QED BY <1>2, <1>3, <1>4, <1>5, <2>1
<1>9. RegistrySound'
  <2>1. ASSUME NEW u \in Timers
        PROVE  cell'[u].live <=> (cell[u].live /\ u # old) \/ u = t
    <3>1. CASE u = t
      BY <1>3, <1>8, <3>1
    <3>2. CASE u # t /\ u = old
      BY <1>8, <3>2, NoneAssumption
    <3>3. CASE u # t /\ u # old
      BY <1>8, <3>3
    <3> QED BY <3>1, <3>2, <3>3
  <2> QED BY <1>7, <2>1 DEF RegistrySound
<1>10. WrapperSound'
  <2>1. \A g \in Handles : g # h => handle'[g] = handle[g]
    BY <1>1, <1>2 DEF Heap
  <2>2. h # None => h \in Handles /\ handle'[h] = t
    BY <1>1, <1>2 DEF Heap
  <2>3. \A g \in Handles : g # h /\ handle[g] # None => handle[g] # t /\ handle[g] # old
    BY <1>1, <1>2, <1>4, NoneAssumption DEF Heap, WrapperSound
  <2>4. ASSUME NEW g \in Handles, g # h
        PROVE  /\ handle'[g] # None => cell'[handle'[g]].live /\ cell'[handle'[g]].owner = g
               /\ \A u \in Timers : cell'[u].live /\ cell'[u].owner = g => handle'[g] = u
    <3>1. handle'[g] # None =>
            handle'[g] \in Timers \ {t, old} /\ cell'[handle'[g]] = cell[handle'[g]]
      BY <1>1, <1>8, <2>1, <2>3, <2>4 DEF Heap
    <3>2. \A u \in Timers : cell'[u].live /\ cell'[u].owner = g => u \notin {t, old}
      BY <1>3, <1>8, <2>4, NoneAssumption
    <3> QED BY <1>1, <1>8, <2>1, <2>4, <3>1, <3>2 DEF Heap, WrapperSound
  <2>5. ASSUME h \in Handles
        PROVE  /\ cell'[handle'[h]].live /\ cell'[handle'[h]].owner = h
               /\ \A u \in Timers : cell'[u].live /\ cell'[u].owner = h => handle'[h] = u
    <3>1. h # None
      BY <2>5, NoneAssumption
    <3>2. \A u \in Timers : cell[u].live /\ cell[u].owner = h => u = old
      BY <1>1, <2>5, <3>1 DEF Heap, WrapperSound, old
    <3>3. ASSUME NEW u \in Timers, u # t, cell'[u].live, cell'[u].owner = h
          PROVE  FALSE
      <4>1. CASE u = old
        BY <1>8, <3>3, <4>1, NoneAssumption
      <4>2. CASE u # old
        BY <1>8, <3>2, <3>3, <4>2
      <4> QED BY <4>1, <4>2
    <3> QED BY <1>3, <1>8, <2>2, <3>1, <3>3
  <2> QED BY <2>4, <2>5 DEF WrapperSound
<1>11. handle' \in [Handles -> Timers \cup {None}]
  BY <1>1, <1>2 DEF Heap
<1>12. ActiveNotStuck'
  <2>1. Running' = Running
    BY <1>2 DEF Running
  <2>2. ASSUME NEW u \in Timers
        PROVE  \/ cell'[u] = cell[u] /\ (u \in Running => u \in Running')
               \/ cell'[u].live /\ cell'[u].func => cell'[u].queued \/ cell'[u].scheduled
    <3>1. CASE u = t
      BY <1>3, <1>8, <3>1
    <3>2. CASE u # t /\ u = old
      BY <1>8, <3>2, NoneAssumption
    <3>3. CASE u # t /\ u # old
      BY <1>8, <2>1, <3>3
    <3> QED BY <3>1, <3>2, <3>3
  <2> QED BY <1>1, <2>2, ActiveStep
<1>13. Scalars' /\ Control'
  BY <1>1, <1>2 DEF Scalars, Control
<1>14. Heap'
  BY <1>7, <1>8, <1>9, <1>10, <1>11 DEF Heap
<1> QED BY <1>12, <1>13, <1>14, IInvPartsNext

(* removeTimer, from the main program or from a callback.                  *)
LEMMA Remove1Preserves ==
    ASSUME IInv, NEW t \in Timers, Remove1(t)
    PROVE  IInv'
<1>1. Heap /\ Scalars /\ Control /\ ActiveNotStuck
  BY IInvParts
<1>2. cell[t].live /\ RemoveTimer(t) /\ UNCHANGED <<phase, idx, cur, irq, begun, since>>
  BY DEF Remove1, control
<1>3. /\ Heap' /\ ~cell'[t].live
      /\ \A u \in Timers : u # t => cell'[u] = cell[u]
  BY <1>1, <1>2, RemoveStep
<1>4. ActiveNotStuck'
  <2>1. Running' = Running
    BY <1>2 DEF Running
  <2> QED BY <1>1, <1>3, <2>1, ActiveStep
<1>5. Scalars' /\ Control'
  BY <1>1, <1>2 DEF Scalars, Control
<1> QED BY <1>3, <1>4, <1>5, IInvPartsNext

(* A step that changes one EventTimer and leaves the vector, the wrappers  *)
(* and the running callbacks alone.                                        *)
LEMMA CellPreserves ==
    ASSUME IInv, NEW t \in Timers, NEW c \in Cells, CellOK(c),
           c.live = cell[t].live, c.owner = cell[t].owner,
           c.live /\ c.func => c.queued \/ c.scheduled \/ t \in Running',
           cell' = [cell EXCEPT ![t] = c], UNCHANGED <<timers, handle>>,
           Running \subseteq Running', Scalars', Control'
    PROVE  IInv'
<1>1. Heap /\ ActiveNotStuck
  BY IInvParts
<1>2. Heap'
  BY <1>1, CellStep
<1>3. cell \in [Timers -> Cells]
  BY <1>1 DEF Heap
<1>4. ActiveNotStuck'
  <2>1. ASSUME NEW u \in Timers, cell'[u].live, cell'[u].func
        PROVE  cell'[u].queued \/ cell'[u].scheduled \/ u \in Running'
    <3>1. CASE u = t
      BY <1>3, <3>1, <2>1
    <3>2. CASE u # t
      BY <1>1, <1>3, <3>2, <2>1 DEF ActiveNotStuck
    <3> QED BY <3>1, <3>2
  <2> QED BY <2>1 DEF ActiveNotStuck
<1> QED BY <1>2, <1>4, IInvPartsNext

(* EventTimer::rearm.                                                      *)
LEMMA RearmPreserves ==
    ASSUME IInv, NEW t \in Timers, NEW d \in RearmDelays \cup SelfRearmDelays,
           NEW r \in RearmRepeats, Rearm(t, d, r)
    PROVE  IInv'
<1> DEFINE c == Rearmed(cell[t], d, r)
<1>1. Heap /\ Scalars /\ Control
  BY IInvParts
<1>2. /\ cell[t].live /\ cell' = [cell EXCEPT ![t] = c]
      /\ since' = [since EXCEPT ![t] = 0]
      /\ UNCHANGED <<timers, handle, phase, idx, cur, irq, begun>>
  BY DEF Rearm, control
<1>3. d \in Nat /\ cell[t] \in Cells /\ HasRepeat(cell[t])
  BY <1>1, <1>2, DelayAssumption DEF Heap, CellOK
<1>4. c \in Cells /\ CellOK(c) /\ c.live /\ c.queued /\ c.owner = cell[t].owner
  BY <1>2, <1>3, RearmedLemma
<1> HIDE DEF c
<1>5. Scalars' /\ Control' /\ Running' = Running
  BY <1>1, <1>2 DEF Scalars, Control, Running
<1> QED BY <1>2, <1>4, <1>5, CellPreserves

(* EventTimer::detach.                                                     *)
LEMMA DetachPreserves ==
    ASSUME IInv, NEW t \in Timers, Detach(t)
    PROVE  IInv'
<1> DEFINE c == Disarmed(cell[t])
<1>1. Heap /\ Scalars /\ Control
  BY IInvParts
<1>2. /\ cell[t].live /\ cell' = [cell EXCEPT ![t] = c]
      /\ UNCHANGED <<timers, handle, phase, idx, cur, irq, begun, since>>
  BY DEF Detach, control
<1>3. cell[t] \in Cells /\ CellOK(cell[t])
  BY <1>1 DEF Heap
<1>4. /\ c \in Cells /\ c.live = cell[t].live /\ c.owner = cell[t].owner
      /\ ~c.func /\ ~c.queued
      /\ c.delay = cell[t].delay /\ c.remaining = cell[t].remaining
      /\ c.counter = cell[t].counter /\ c.maxRepeat = cell[t].maxRepeat
  BY <1>3 DEF Disarmed, Cells
<1> HIDE DEF c
<1>5. CellOK(c)
  BY <1>2, <1>3, <1>4 DEF CellOK, HasRepeat
<1>6. Scalars' /\ Control' /\ Running' = Running
  BY <1>1, <1>2 DEF Scalars, Control, Running
<1> QED BY <1>2, <1>4, <1>5, <1>6, CellPreserves

(* EventTimer::setPriority.                                                *)
LEMMA SetPriorityPreserves ==
    ASSUME IInv, NEW t \in Timers, NEW p \in Priorities, SetPriority(t, p)
    PROVE  IInv'
<1> DEFINE c == [cell[t] EXCEPT !.prio = p]
<1>1. Heap /\ Scalars /\ Control /\ ActiveNotStuck
  BY IInvParts
<1>2. /\ cell[t].live /\ cell' = [cell EXCEPT ![t] = c]
      /\ UNCHANGED <<timers, handle, phase, idx, cur, irq, begun, since>>
  BY <1>1 DEF SetPriority, control, Heap
<1>3. cell[t] \in Cells /\ CellOK(cell[t])
  BY <1>1 DEF Heap
<1>4. /\ c \in Cells /\ c.live = cell[t].live /\ c.owner = cell[t].owner
      /\ c.func = cell[t].func /\ c.queued = cell[t].queued
      /\ c.scheduled = cell[t].scheduled /\ c.period = cell[t].period
      /\ c.delay = cell[t].delay /\ c.remaining = cell[t].remaining
      /\ c.counter = cell[t].counter /\ c.maxRepeat = cell[t].maxRepeat
  BY <1>3, UsageAssumption DEF Cells
<1> HIDE DEF c
<1>5. CellOK(c)
  BY <1>3, <1>4 DEF CellOK, HasRepeat
<1>6. Scalars' /\ Control' /\ Running' = Running
  BY <1>1, <1>2 DEF Scalars, Control, Running
<1>7. c.live /\ c.func => c.queued \/ c.scheduled \/ t \in Running'
  BY <1>1, <1>4, <1>6 DEF ActiveNotStuck
<1> QED BY <1>2, <1>4, <1>5, <1>6, <1>7, CellPreserves

(* EventScheduler::begin.                                                  *)
LEMMA BeginPreserves ==
    ASSUME IInv, Begin
    PROVE  IInv'
  BY DEF IInv, TypeOK, Control, RegistrySound, WrapperSound, ActiveNotStuck, Begin,
         control, Running

(* EventScheduler::end: every timer is deleted, running or not.            *)
LEMMA EndPreserves ==
    ASSUME IInv, End
    PROVE  IInv'
<1>1. Heap /\ Scalars /\ Control /\ ActiveNotStuck
  BY IInvParts
<1>2. /\ cell' = [t \in Timers |-> IF t \in ToSet(timers)
                              THEN Deleted(Disarmed(cell[t])) ELSE cell[t]]
      /\ timers' = <<>>
      /\ handle' = [h \in Handles |->
            IF \E t \in ToSet(timers) : cell[t].owner = h THEN None ELSE handle[h]]
      /\ begun' = FALSE
      /\ UNCHANGED <<phase, idx, cur, irq, since>>
  BY DEF End, control
<1>3. ToSet(timers) = {t \in Timers : cell[t].live}
  BY <1>1 DEF Heap, RegistrySound
<1>4. \A t \in Timers : /\ Deleted(Disarmed(cell[t])) \in Cells
                        /\ CellOK(Deleted(Disarmed(cell[t])))
                        /\ ~Deleted(Disarmed(cell[t])).live
  BY <1>1, DeletedLemma DEF Heap
<1>5. /\ cell' \in [Timers -> Cells]
      /\ \A t \in Timers : CellOK(cell'[t]) /\ ~cell'[t].live
  BY <1>1, <1>2, <1>3, <1>4 DEF Heap
<1>6. timers' \in Seq(Timers) /\ IsInjective(timers') /\ ToSet(timers') = {}
  BY <1>2 DEF IsInjective, ToSet
<1>7. RegistrySound'
  BY <1>5, <1>6 DEF RegistrySound
<1>8. handle' = [h \in Handles |-> None]
  <2>1. ASSUME NEW h \in Handles, handle[h] # None
        PROVE  \E t \in ToSet(timers) : cell[t].owner = h
    BY <1>1, <1>3, <2>1 DEF Heap, WrapperSound
  <2> QED BY <1>2, <2>1
<1>9. WrapperSound'
  BY <1>5, <1>8 DEF WrapperSound
<1>10. Heap'
  BY <1>5, <1>6, <1>7, <1>8, <1>9 DEF Heap
<1>11. ActiveNotStuck'
  BY <1>5 DEF ActiveNotStuck
<1>12. Scalars' /\ Control'
  BY <1>1, <1>2 DEF Scalars, Control
<1> QED BY <1>10, <1>11, <1>12, IInvPartsNext

(* A millisecond passes.                                                   *)
LEMMA TickPreserves ==
    ASSUME IInv, Tick
    PROVE  IInv'
<1>1. Heap /\ Scalars /\ Control /\ ActiveNotStuck
  BY IInvParts
<1>2. /\ cell' = [t \in Timers |->
                    IF cell[t].queued /\ cell[t].due > 0
                    THEN [cell[t] EXCEPT !.due = @ - 1] ELSE cell[t]]
      /\ since' = [t \in Timers |->
                    IF since[t] < cell[t].delay THEN since[t] + 1 ELSE since[t]]
      /\ UNCHANGED <<timers, handle, phase, idx, cur, irq, begun>>
  BY DEF Tick, control
<1>3. ASSUME NEW t \in Timers
      PROVE  /\ cell'[t] \in Cells /\ CellOK(cell'[t])
             /\ cell'[t].live = cell[t].live /\ cell'[t].owner = cell[t].owner
             /\ cell'[t].func = cell[t].func /\ cell'[t].queued = cell[t].queued
             /\ cell'[t].scheduled = cell[t].scheduled
  <2>1. cell[t] \in Cells /\ CellOK(cell[t])
    BY <1>1 DEF Heap
  <2>2. CASE cell[t].queued /\ cell[t].due > 0
    <3> DEFINE n == cell[t].due - 1
               c == [cell[t] EXCEPT !.due = n]
    <3>1. cell'[t] = c
      BY <1>2, <2>2
    <3>2. n \in Nat
      BY <2>1, <2>2 DEF Cells
    <3> HIDE DEF n
    <3>3. /\ c \in Cells /\ c.live = cell[t].live /\ c.owner = cell[t].owner
          /\ c.func = cell[t].func /\ c.queued = cell[t].queued
          /\ c.scheduled = cell[t].scheduled /\ c.period = cell[t].period
          /\ c.delay = cell[t].delay /\ c.remaining = cell[t].remaining
          /\ c.counter = cell[t].counter /\ c.maxRepeat = cell[t].maxRepeat
      BY <2>1, <3>2 DEF Cells
    <3> HIDE DEF c
    <3> QED BY <2>1, <3>1, <3>3 DEF CellOK, HasRepeat
  <2>3. CASE ~(cell[t].queued /\ cell[t].due > 0)
    BY <1>2, <2>1, <2>3
  <2> QED BY <2>2, <2>3
<1>4. cell' \in [Timers -> Cells]
  <2>1. \A t \in Timers : cell'[t] \in Cells
    BY <1>3
  <2>2. cell' = [t \in Timers |-> cell'[t]]
    BY <1>2
  <2> QED BY <2>1, <2>2
<1>5. RegistrySound'
  BY <1>1, <1>2, <1>3 DEF Heap, RegistrySound
<1>6. WrapperSound'
  BY <1>1, <1>2, <1>3, NoneAssumption DEF Heap, WrapperSound
<1>7. Heap'
  BY <1>1, <1>2, <1>3, <1>4, <1>5, <1>6 DEF Heap
<1>8. ActiveNotStuck'
  <2>1. Running' = Running
    BY <1>2 DEF Running
  <2> QED BY <1>1, <1>3, <2>1 DEF ActiveNotStuck
<1>9. Scalars' /\ Control'
  <2>1. since' \in [Timers -> Nat]
    BY <1>1, <1>2 DEF Scalars, Heap
  <2> QED BY <1>1, <1>2, <2>1 DEF Scalars, Control
<1> QED BY <1>7, <1>8, <1>9, IInvPartsNext

(* A queued timer that expires: what the SDK leaves of it.                 *)
LEMMA RefreshedLemma ==
    ASSUME NEW c \in Cells, CellOK(c), c.queued
    PROVE  /\ Refreshed(c) \in Cells
           /\ c.live /\ Refreshed(c).live /\ HasRepeat(Refreshed(c))
           /\ Refreshed(c).owner = c.owner /\ Refreshed(c).scheduled = c.scheduled
           /\ Refreshed(c).delay = c.delay /\ Refreshed(c).remaining = c.remaining
           /\ CellOK(Refreshed(c))
<1> DEFINE e == Refreshed(c)
<1>1. /\ e \in Cells /\ e.live = c.live /\ e.owner = c.owner
      /\ e.func = c.func /\ e.queued = (c.period # 0)
      /\ e.scheduled = c.scheduled /\ e.period = c.period
      /\ e.delay = c.delay /\ e.remaining = c.remaining
      /\ e.counter = c.counter /\ e.maxRepeat = c.maxRepeat
  BY DEF Refreshed, Cells
<1> HIDE DEF e
<1>2. CellOK(e) /\ HasRepeat(e)
  BY <1>1 DEF CellOK, HasRepeat
<1> QED BY <1>1, <1>2 DEF e, CellOK

(* The SDK timer expires with some of a long delay left.                   *)
LEMMA TimerChunkPreserves ==
    ASSUME IInv, NEW t \in Timers, TimerChunk(t)
    PROVE  IInv'
<1> DEFINE e == Refreshed(cell[t])
           c == Armed(e)
<1>1. Heap /\ Scalars /\ Control
  BY IInvParts
<1>2. /\ cell[t].queued
      /\ cell' = [cell EXCEPT ![t] = c]
      /\ UNCHANGED <<timers, handle, phase, idx, cur, irq, begun, since>>
  BY DEF TimerChunk, Expired, control
<1>3. cell[t] \in Cells /\ CellOK(cell[t])
  BY <1>1 DEF Heap
<1>4. /\ e \in Cells /\ cell[t].live /\ e.live /\ HasRepeat(e) /\ e.owner = cell[t].owner
      /\ CellOK(e)
  BY <1>2, <1>3, RefreshedLemma
<1> HIDE DEF e
<1>5. e.remaining # 0 => e.delay > MaxDelay
  BY <1>4 DEF CellOK
<1>6. c \in Cells /\ CellOK(c) /\ c.live /\ c.queued /\ c.owner = e.owner
  BY <1>4, <1>5, ArmedLemma
<1> HIDE DEF c
<1>7. Scalars' /\ Control' /\ Running' = Running
  BY <1>1, <1>2 DEF Scalars, Control, Running
<1> QED BY <1>2, <1>4, <1>6, <1>7, CellPreserves

(* The SDK timer of a PRIO_HIGH timer expires.                             *)
LEMMA TimerHighPreserves ==
    ASSUME IInv, NEW t \in Timers, TimerHigh(t)
    PROVE  IInv'
<1> DEFINE c == Refreshed(cell[t])
<1>1. Heap /\ Scalars /\ Control
  BY IInvParts
<1>2. /\ cell[t].queued /\ irq = None
      /\ cell' = [cell EXCEPT ![t] = c]
      /\ irq' = t
      /\ since' = [since EXCEPT ![t] = 0]
      /\ UNCHANGED <<timers, handle, phase, idx, cur, begun>>
  BY DEF TimerHigh, Expired
<1>3. cell[t] \in Cells /\ CellOK(cell[t])
  BY <1>1 DEF Heap
<1>4. c \in Cells /\ cell[t].live /\ c.live /\ c.owner = cell[t].owner /\ CellOK(c)
  BY <1>2, <1>3, RefreshedLemma
<1> HIDE DEF c
<1>5. Scalars' /\ Control' /\ Running \subseteq Running' /\ t \in Running'
  BY <1>1, <1>2, NoneAssumption DEF Scalars, Control, Running
<1> QED BY <1>2, <1>4, <1>5, CellPreserves

(* The SDK timer of a low priority timer expires.                          *)
LEMMA TimerLowPreserves ==
    ASSUME IInv, NEW t \in Timers, TimerLow(t)
    PROVE  IInv'
<1> DEFINE e == Refreshed(cell[t])
           c == [e EXCEPT !.scheduled = TRUE]
<1>1. Heap /\ Scalars /\ Control
  BY IInvParts
<1>2. /\ cell[t].queued
      /\ cell' = [cell EXCEPT ![t] = c]
      /\ since' = [since EXCEPT ![t] = 0]
      /\ UNCHANGED <<timers, handle, phase, idx, cur, irq, begun>>
  BY DEF TimerLow, Expired, control
<1>3. cell[t] \in Cells /\ CellOK(cell[t])
  BY <1>1 DEF Heap
<1>4. e \in Cells /\ cell[t].live /\ e.live /\ e.owner = cell[t].owner /\ CellOK(e)
  BY <1>2, <1>3, RefreshedLemma
<1> HIDE DEF e
<1>5. /\ c \in Cells /\ c.live /\ c.owner = cell[t].owner /\ c.scheduled
      /\ c.func = e.func /\ c.queued = e.queued /\ c.period = e.period
      /\ c.delay = e.delay /\ c.remaining = e.remaining
      /\ c.counter = e.counter /\ c.maxRepeat = e.maxRepeat
  BY <1>4 DEF Cells
<1> HIDE DEF c
<1>6. CellOK(c)
  BY <1>4, <1>5 DEF CellOK, HasRepeat
<1>7. Scalars' /\ Control' /\ Running' = Running
  BY <1>1, <1>2 DEF Scalars, Control, Running
<1> QED BY <1>2, <1>4, <1>5, <1>6, <1>7, CellPreserves

(* A PRIO_HIGH callback returns.                                           *)
LEMMA HighReturnPreserves ==
    ASSUME IInv, HighReturn
    PROVE  IInv'
<1>1. Heap /\ Scalars /\ Control /\ ActiveNotStuck
  BY IInvParts
<1>2. irq \in Timers /\ AfterCallback(irq) /\ irq' = None
      /\ UNCHANGED <<phase, idx, cur, begun, since>>
  BY <1>1 DEF HighReturn, Scalars
<1>3. /\ Heap'
      /\ \A u \in Timers : u # irq => cell'[u] = cell[u]
      /\ cell'[irq].live /\ cell'[irq].func => cell'[irq].queued
  BY <1>1, <1>2, AfterStep
<1>4. \A u \in Timers : u # irq /\ u \in Running => u \in Running'
  BY <1>2 DEF Running
<1>5. ActiveNotStuck'
  BY <1>1, <1>3, <1>4 DEF ActiveNotStuck
<1>6. Scalars' /\ Control'
  BY <1>1, <1>2 DEF Scalars, Control
<1> QED BY <1>3, <1>5, <1>6, IInvPartsNext

(* _loop() begins its walk.                                                *)
LEMMA LoopStartPreserves ==
    ASSUME IInv, LoopStart
    PROVE  IInv'
  BY NoneAssumption
     DEF IInv, TypeOK, Control, RegistrySound, WrapperSound, ActiveNotStuck,
         LoopStart, Running

(* The walk is over, or has taken too long.                                *)
LEMMA LoopEndPreserves ==
    ASSUME IInv, LoopEnd
    PROVE  IInv'
  BY NoneAssumption
     DEF IInv, TypeOK, Control, RegistrySound, WrapperSound, ActiveNotStuck,
         LoopEnd, Running

(* The walk reaches a timer and runs its callback if it is pending.        *)
LEMMA LoopInvokePreserves ==
    ASSUME IInv, LoopInvoke
    PROVE  IInv'
<1>1. Heap /\ Scalars /\ Control
  BY IInvParts
<1>2. PICK j \in Pending(idx) :
        /\ cell' = [cell EXCEPT ![timers[j]].scheduled = FALSE]
        /\ cur' = timers[j]
        /\ idx' = j
  BY DEF LoopInvoke
<1>3. phase = "scan" /\ phase' = "callback" /\ UNCHANGED <<timers, handle, irq, begun, since>>
  BY DEF LoopInvoke
<1>4. idx \in Nat \ {0}
  BY <1>1, <1>3 DEF Control
<1>5. j \in Nat \ {0} /\ timers[j] \in Timers
  BY <1>1, <1>4 DEF Pending, Heap
<1> DEFINE t == timers[j]
           c == [cell[t] EXCEPT !.scheduled = FALSE]
<1>6. cell' = [cell EXCEPT ![t] = c]
  BY <1>1, <1>2, <1>5 DEF Heap
<1>7. cell[t] \in Cells /\ CellOK(cell[t])
  BY <1>1, <1>5 DEF Heap
<1> HIDE DEF t
<1>8. /\ c \in Cells /\ c.live = cell[t].live /\ c.owner = cell[t].owner
      /\ c.func = cell[t].func /\ c.queued = cell[t].queued
      /\ ~c.scheduled /\ c.period = cell[t].period
      /\ c.delay = cell[t].delay /\ c.remaining = cell[t].remaining
      /\ c.counter = cell[t].counter /\ c.maxRepeat = cell[t].maxRepeat
  BY <1>7 DEF Cells
<1> HIDE DEF c
<1>9. CellOK(c)
  BY <1>7, <1>8 DEF CellOK, HasRepeat
<1>10. t \in Timers /\ cur' = t
  BY <1>2, <1>5 DEF t
<1>11. cur = None
  BY <1>1, <1>3 DEF Control
<1>12. Running \subseteq Running' /\ t \in Running'
  BY <1>3, <1>10, <1>11, NoneAssumption DEF Running
<1>13. Scalars' /\ Control'
  BY <1>1, <1>2, <1>3, <1>5, <1>10, NoneAssumption DEF Scalars, Control
<1> QED BY <1>3, <1>6, <1>8, <1>9, <1>10, <1>12, <1>13, CellPreserves

(* A low priority callback returns to the walk.                            *)
LEMMA LoopReturnPreserves ==
    ASSUME IInv, LoopReturn
    PROVE  IInv'
<1>1. Heap /\ Scalars /\ Control /\ ActiveNotStuck
  BY IInvParts
<1>2. /\ phase = "callback" /\ AfterCallback(cur) /\ cur' = None
      /\ (phase' = "scan" /\ idx' = idx + 1) \/ (phase' = "idle" /\ idx' = 0)
      /\ UNCHANGED <<irq, begun, since>>
  BY DEF LoopReturn
<1>3. cur \in Timers /\ idx \in Nat
  BY <1>1, <1>2 DEF Scalars, Control
<1>4. /\ Heap'
      /\ \A u \in Timers : u # cur => cell'[u] = cell[u]
      /\ cell'[cur].live /\ cell'[cur].func => cell'[cur].queued
  BY <1>1, <1>2, <1>3, AfterStep
<1>5. \A u \in Timers : u # cur /\ u \in Running => u \in Running'
  BY <1>2 DEF Running
<1>6. ActiveNotStuck'
  BY <1>1, <1>4, <1>5 DEF ActiveNotStuck
<1>7. Scalars' /\ Control'
  BY <1>1, <1>2, <1>3 DEF Scalars, Control
<1> QED BY <1>4, <1>6, <1>7, IInvPartsNext

-----------------------------------------------------------------------------
(* The invariant holds before the scheduler is used.                       *)
LEMMA InitInvariant == Init => IInv
<1> SUFFICES ASSUME Init PROVE IInv
  OBVIOUS
<1>1. Free \in Cells /\ CellOK(Free)
  BY NoneAssumption DEF Free, Cells, CellOK, HasRepeat, Unlimited
<1>2. ~Free.live /\ ~Free.func
  BY DEF Free
<1>3. TypeOK
  BY <1>1 DEF Init, TypeOK
<1>4. RegistrySound /\ WrapperSound /\ ActiveNotStuck
  <2>1. IsInjective(timers) /\ ToSet(timers) = {}
    BY DEF Init, IsInjective, ToSet
  <2>2. \A t \in Timers : ~cell[t].live
    BY <1>2 DEF Init
  <2>3. \A h \in Handles : handle[h] = None
    BY DEF Init
  <2> QED BY <2>1, <2>2, <2>3 DEF RegistrySound, WrapperSound, ActiveNotStuck
<1> QED BY <1>1, <1>3, <1>4 DEF Init, IInv, Control

(* Every step of the scheduler, the SDK and the program preserves it.      *)
LEMMA StepInvariant == IInv /\ [Next]_vars => IInv'
<1> SUFFICES ASSUME IInv, [Next]_vars PROVE IInv'
  OBVIOUS
<1>1. CASE Api
  <2>1. CASE \E h \in Handles \cup {None}, t \in Timers, d \in Delays,
               r \in Repeats, p \in Priorities : Add(h, t, d, r, p)
    BY <2>1, AddPreserves
  <2>2. CASE \E t \in Timers : Remove1(t) \/ Detach(t)
    BY <2>2, Remove1Preserves, DetachPreserves
  <2>3. CASE \E t \in Timers, d \in RearmDelays \cup SelfRearmDelays,
               r \in RearmRepeats : Rearm(t, d, r)
    BY <2>3, RearmPreserves
  <2>4. CASE \E t \in Timers, p \in Priorities : SetPriority(t, p)
    BY <2>4, SetPriorityPreserves
  <2>5. CASE Begin
    BY <2>5, BeginPreserves
  <2>6. CASE End
    BY <2>6, EndPreserves
  <2> QED BY <1>1, <2>1, <2>2, <2>3, <2>4, <2>5, <2>6 DEF Api
<1>2. CASE Sdk
  <2>1. CASE Tick
    BY <2>1, TickPreserves
  <2>2. CASE \E t \in Timers : TimerExpires(t)
    BY <2>2, TimerChunkPreserves, TimerHighPreserves, TimerLowPreserves DEF TimerExpires
  <2>3. CASE HighReturn
    BY <2>3, HighReturnPreserves
  <2> QED BY <1>2, <2>1, <2>2, <2>3 DEF Sdk
<1>3. CASE Loop
  BY <1>3, LoopStartPreserves, LoopInvokePreserves, LoopEndPreserves, LoopReturnPreserves
     DEF Loop
<1>4. CASE UNCHANGED vars
  BY <1>4 DEF vars, IInv, TypeOK, Control, RegistrySound, WrapperSound, ActiveNotStuck,
              Running
<1> QED BY <1>1, <1>2, <1>3, <1>4 DEF Next

(* The inductive invariant holds in every reachable state.                 *)
THEOREM Invariant == Spec => []IInv
<1> QED BY InitInvariant, StepInvariant, PTL DEF Spec

(* The scheduler's variables keep their types.                             *)
THEOREM TypeCorrect == Spec => []TypeOK
<1>1. IInv => TypeOK
  BY DEF IInv
<1> QED BY <1>1, Invariant, PTL

(* Whatever is added and removed by callbacks during a walk, the vector    *)
(* holds exactly the allocated timers, each once.                          *)
THEOREM RegistryIsSound == Spec => []RegistrySound
<1>1. IInv => RegistrySound
  BY DEF IInv
<1> QED BY <1>1, Invariant, PTL

(* A Timer wrapper points at a timer exactly while that timer exists.      *)
THEOREM WrappersAreSound == Spec => []WrapperSound
<1>1. IInv => WrapperSound
  BY DEF IInv
<1> QED BY <1>1, Invariant, PTL

(* The SDK is never left with a pointer to a deleted EventTimer.           *)
THEOREM SdkPointersAreLive == Spec => []SdkHoldsLiveTimers
<1>1. IInv => SdkHoldsLiveTimers
  BY DEF IInv, CellOK, SdkHoldsLiveTimers
<1> QED BY <1>1, Invariant, PTL

(* An active timer is queued, pending or running: it never gets stuck.     *)
THEOREM ActiveTimersProceed == Spec => []ActiveNotStuck
<1>1. IInv => ActiveNotStuck
  BY DEF IInv
<1> QED BY <1>1, Invariant, PTL

(* A timer that used up its repeats has been removed.                      *)
THEOREM ExhaustedTimersAreGone == Spec => []ExhaustedIsGone
<1>1. IInv => ExhaustedIsGone
  BY DEF IInv, CellOK, ExhaustedIsGone
<1> QED BY <1>1, Invariant, PTL

(* _loop() and the SDK task never call a timer that has been deleted, even *)
(* when callbacks add and remove timers under the walk.                    *)
THEOREM CallsAreLive == Spec => OnlyLiveTimersAreCalled
<1>1. IInv /\ [Next]_vars => [\A t \in Started : cell[t].live]_vars
  <2> SUFFICES ASSUME IInv, Next PROVE \A t \in Started : cell[t].live
    BY DEF vars, Started, Running
  <2>1. \A t \in Timers : cell[t].scheduled \/ cell[t].queued => cell[t].live
    BY DEF IInv, CellOK
  <2>2. CASE LoopInvoke
    <3>1. PICK j \in Pending(idx) : cur' = timers[j]
      BY <2>2 DEF LoopInvoke
    <3>2. irq' = irq /\ idx \in Nat \ {0} /\ timers \in Seq(Timers)
      BY <2>2 DEF LoopInvoke, IInv, Control, TypeOK
    <3>3. timers[j] \in Timers /\ cell[timers[j]].scheduled
      BY <3>2 DEF Pending
    <3>4. \A t \in Started : t = timers[j]
      BY <3>1, <3>2 DEF Started, Running
    <3> QED BY <2>1, <3>3, <3>4
  <2>3. CASE \E t \in Timers : TimerHigh(t)
    BY <2>1, <2>3 DEF TimerHigh, Expired, Started, Running
  <2>4. CASE /\ ~LoopInvoke
             /\ ~\E t \in Timers : TimerHigh(t)
    <3>1. (cur' = cur \/ cur' = None) /\ (irq' = irq \/ irq' = None)
      BY <2>4 DEF Next, Api, Sdk, Loop, Add, Remove1, Detach, Rearm, SetPriority, Begin,
                  End, Tick, TimerExpires, TimerChunk, TimerLow, HighReturn, LoopStart,
                  LoopEnd, LoopReturn, control
    <3> QED BY <3>1 DEF Started, Running
  <2> QED BY <2>2, <2>3, <2>4
<1> QED BY <1>1, Invariant, PTL DEF Spec, OnlyLiveTimersAreCalled

-----------------------------------------------------------------------------
(* No timer expires early.  A callback that gives its own memory to a new  *)
(* timer, or arms a delay that has to be chopped up for itself, would have *)
(* the first chunk taken off twice by _invokeCallback; so would one whose  *)
(* timer is made PRIO_HIGH and expires again while it runs.                *)
Undisturbed ==
    /\ SelfRearmDelays \subseteq 0..MaxDelay
    /\ Operations \cap {"removeSelf", "setPriority"} = {}

(* What has passed, is queued and remains is the delay at least, and so is *)
(* the period of a timer that the SDK repeats.  Nothing remains of a delay *)
(* once the callback is pending.                                           *)
Timed(c, s) ==
    /\ c.queued => s + c.due + c.remaining >= c.delay
    /\ c.period # 0 => c.period >= c.delay
    /\ c.scheduled => c.remaining = 0 /\ c.prio = "low"

(* The callbacks that run belong to two timers, which stay allocated.      *)
Calls ==
    /\ \A t \in Running : cell[t].live /\ cell[t].remaining = 0
    /\ cur # None => cell[cur].prio = "low"
    /\ irq # None => cell[irq].prio = "high"

EarlyInv == Calls /\ \A t \in Timers : Timed(cell[t], since[t])

(* ets_timer_arm_new                                                       *)
LEMMA QueuedTimed ==
    ASSUME NEW c \in Cells, NEW d \in Nat, NEW repeat \in BOOLEAN, NEW s \in Nat,
           s + d + c.remaining >= c.delay, repeat => d >= c.delay
    PROVE  Timed(Queued(c, d, repeat), s) /\ Queued(c, d, repeat).remaining = c.remaining
                                          /\ Queued(c, d, repeat).prio = c.prio
<1> DEFINE q == Queued(c, d, repeat)
<1>1. /\ ~q.scheduled /\ q.delay = c.delay /\ q.remaining = c.remaining
      /\ q.due = d /\ q.period = IF repeat THEN d ELSE 0
      /\ q.prio = c.prio
  BY DEF Queued, Cells
<1> HIDE DEF q
<1>2. Timed(q, s)
  BY <1>1 DEF Timed, Cells
<1> QED BY <1>1, <1>2 DEF q

(* _rearmEtsTimer: at once, or for the next chunk.                         *)
LEMMA ArmedTimed ==
    ASSUME NEW c \in Cells, NEW s \in Nat, c.remaining # 0 => s + c.remaining >= c.delay
    PROVE  /\ Timed(Armed(c), s)
           /\ Armed(c).prio = c.prio
           /\ c.remaining = 0 /\ c.delay <= MaxDelay => Armed(c).remaining = 0
<1> DEFINE left == IF c.remaining = 0 /\ c.delay > MaxDelay THEN c.delay ELSE c.remaining
<1>1. /\ left \in Nat /\ MinDelay \in Nat \ {0} /\ MaxDelay \in Nat
      /\ c.delay \in Nat /\ c.remaining \in Nat
      /\ left # 0 => s + left >= c.delay
      /\ c.remaining = 0 /\ c.delay <= MaxDelay => left = 0
  BY DelayAssumption DEF Cells
<1>2. ASSUME NEW n \in Nat, NEW e, e = [c EXCEPT !.remaining = n]
      PROVE  e \in Cells /\ e.remaining = n /\ e.delay = c.delay /\ e.prio = c.prio
  BY <1>2 DEF Cells
<1>3. CASE left > MaxDelay
  <2> DEFINE e == [c EXCEPT !.remaining = left - MaxDelay]
  <2>1. Armed(c) = Queued(e, MaxDelay, FALSE)
    BY <1>3 DEF Armed
  <2>2. left - MaxDelay \in Nat
    BY <1>1, <1>3
  <2>3. /\ e \in Cells /\ e.remaining = left - MaxDelay
        /\ e.delay = c.delay /\ e.prio = c.prio
    BY <1>2, <2>2
  <2> HIDE DEF e, left
  <2>4. s + MaxDelay + e.remaining >= e.delay
    BY <1>1, <1>3, <2>3
  <2>5. /\ Timed(Queued(e, MaxDelay, FALSE), s)
        /\ Queued(e, MaxDelay, FALSE).prio = e.prio
    BY <1>1, <2>3, <2>4, QueuedTimed
  <2>6. Timed(Armed(c), s) /\ Armed(c).prio = c.prio
    BY <2>1, <2>3, <2>5, Zenon
  <2>7. ~(c.remaining = 0 /\ c.delay <= MaxDelay)
    BY <1>1, <1>3
  <2> QED BY <2>6, <2>7
<1>4. CASE ~(left > MaxDelay) /\ left # 0
  <2> DEFINE e == [c EXCEPT !.remaining = 0]
             d == AtLeast(MinDelay, left)
  <2>1. Armed(c) = Queued(e, d, FALSE)
    BY <1>4 DEF Armed
  <2>2. d \in Nat /\ d >= left
    BY <1>1, <1>4 DEF AtLeast
  <2>3. e \in Cells /\ e.remaining = 0 /\ e.delay = c.delay /\ e.prio = c.prio
    BY <1>2
  <2> HIDE DEF e, left, d
  <2>4. s + d + e.remaining >= e.delay
    BY <1>1, <1>4, <2>2, <2>3
  <2>5. Timed(Queued(e, d, FALSE), s) /\ Queued(e, d, FALSE).prio = e.prio
    BY <2>2, <2>3, <2>4, QueuedTimed
  <2>6. Timed(Armed(c), s) /\ Armed(c).prio = c.prio
    BY <2>1, <2>3, <2>5, Zenon
  <2>7. ~(c.remaining = 0 /\ c.delay <= MaxDelay)
    BY <1>1, <1>4
  <2> QED BY <2>6, <2>7
<1>5. CASE left = 0
  <2> DEFINE e == [c EXCEPT !.remaining = 0]
             d == AtLeast(MinDelay, c.delay)
             r == HasRepeat(c)
  <2>1. Armed(c) = Queued(e, d, r)
    <3>1. ~(left > MaxDelay)
      BY <1>1, <1>5
    <3> QED BY <1>5, <3>1, Zenon DEF Armed
  <2>2. d \in Nat /\ d >= c.delay /\ r \in BOOLEAN
    BY <1>1 DEF AtLeast, HasRepeat
  <2>3. e \in Cells /\ e.remaining = 0 /\ e.delay = c.delay /\ e.prio = c.prio
    BY <1>2
  <2> HIDE DEF e, left, d, r
  <2>4. s + d + e.remaining >= e.delay /\ (r => d >= e.delay)
    BY <1>1, <2>2, <2>3
  <2>5. /\ Timed(Queued(e, d, r), s)
        /\ Queued(e, d, r).remaining = e.remaining /\ Queued(e, d, r).prio = e.prio
    BY <2>2, <2>3, <2>4, QueuedTimed
  <2> QED BY <2>1, <2>3, <2>5, Zenon
<1> QED BY <1>1, <1>3, <1>4, <1>5

(* A step that starts no callback and does not touch the cells of those    *)
(* that run, or keeps them as they should be.                              *)
LEMMA TimedStep ==
    ASSUME EarlyInv, Running \subseteq Timers, Running' \subseteq Running,
           cur' \in {cur, None}, irq' \in {irq, None},
           \A u \in Timers :
              \/ cell'[u] = cell[u] /\ since'[u] = since[u]
              \/ /\ Timed(cell'[u], since'[u])
                 /\ u \in Running' => /\ cell'[u].live /\ cell'[u].remaining = 0
                                      /\ cell'[u].prio = cell[u].prio
    PROVE  EarlyInv'
<1>1. \A u \in Timers : Timed(cell'[u], since'[u])
  BY DEF EarlyInv
<1>2. \A u \in Running' :
         cell'[u].live /\ cell'[u].remaining = 0 /\ cell'[u].prio = cell[u].prio
  BY DEF EarlyInv, Calls
<1>3. cur' # None => cell'[cur'].prio = "low"
  BY <1>2 DEF EarlyInv, Calls, Running
<1>4. irq' # None => cell'[irq'].prio = "high"
  BY <1>2 DEF EarlyInv, Calls, Running
<1> QED BY <1>1, <1>2, <1>3, <1>4 DEF EarlyInv, Calls

(* A timer that is removed.                                                *)
LEMMA DeletedTimed ==
    ASSUME NEW c \in Cells, NEW s \in Nat
    PROVE  Timed(Deleted(Disarmed(c)), s)
  BY DEF Deleted, Disarmed, Free, Timed

LEMMA TypesOfIInv ==
    ASSUME IInv
    PROVE  /\ cell \in [Timers -> Cells] /\ since \in [Timers -> Nat]
           /\ Running \subseteq Timers
           /\ \A t \in Timers : CellOK(cell[t])
  BY DEF IInv, TypeOK, Running

(* User code frees no timer whose callback runs.                           *)
LEMMA AddTimed ==
    ASSUME Undisturbed, IInv, EarlyInv, NEW h \in Handles \cup {None}, NEW t \in Timers,
           NEW d \in Delays, NEW r \in Repeats, NEW p \in Priorities, Add(h, t, d, r, p)
    PROVE  EarlyInv'
<1> DEFINE old == IF h = None THEN None ELSE handle[h]
           new == NewTimer(h, d, r, p)
<1>1. /\ MayFree(old)
      /\ ~cell[t].live \/ t = old
      /\ cell' = [CellsWithout(old) EXCEPT ![t] = new]
      /\ since' = [since EXCEPT ![t] = 0]
      /\ UNCHANGED <<phase, idx, cur, irq>>
  BY DEF Add, control
<1>2. old \notin Running
  BY <1>1, Zenon DEF MayFree, Undisturbed
<1>3. t \notin Running
  BY <1>1, <1>2 DEF EarlyInv, Calls
<1>4. old \in Timers \cup {None}
  BY DEF IInv, TypeOK
<1>5. Timed(new, 0)
  <2> DEFINE c == [Free EXCEPT !.live = TRUE, !.owner = h, !.prio = p, !.delay = d,
                               !.maxRepeat = r]
  <2>1. c \in Cells /\ c.remaining = 0
    BY DelayAssumption, RepeatAssumption, UsageAssumption DEF Free, Cells
  <2>2. new = Armed(c)
    BY DEF NewTimer
  <2> HIDE DEF c, new
  <2> QED BY <2>1, <2>2, ArmedTimed
<1>6. CellsWithout(old) \in [Timers -> Cells]
  BY <1>4, TypesOfIInv, DeletedLemma DEF CellsWithout
<1>7. \A u \in Timers \ {t, old} : cell'[u] = cell[u] /\ since'[u] = since[u]
  <2> HIDE DEF new, old
  <2>1. ASSUME NEW u \in Timers \ {t, old} PROVE CellsWithout(old)[u] = cell[u]
    BY TypesOfIInv DEF CellsWithout
  <2> QED BY <1>1, <1>6, <2>1, TypesOfIInv
<1>8. cell'[t] = new /\ since'[t] = 0
  <2> HIDE DEF new, old
  <2> QED BY <1>1, <1>6, TypesOfIInv
<1>9. old \in Timers /\ old # t => Timed(cell'[old], since'[old])
  <2> HIDE DEF new, old
  <2> SUFFICES ASSUME old \in Timers, old # t PROVE Timed(cell'[old], since'[old])
    OBVIOUS
  <2>1. cell'[old] = Deleted(Disarmed(cell[old])) /\ since'[old] = since[old]
    BY <1>1, <1>6, NoneAssumption, TypesOfIInv DEF CellsWithout
  <2> QED BY <2>1, TypesOfIInv, DeletedTimed
<1> HIDE DEF new, old
<1>10. Running' = Running
  BY <1>1 DEF Running
<1> QED BY <1>1, <1>2, <1>3, <1>5, <1>7, <1>8, <1>9, <1>10, TypesOfIInv, TimedStep

LEMMA Remove1Timed ==
    ASSUME Undisturbed, IInv, EarlyInv, NEW t \in Timers, Remove1(t)
    PROVE  EarlyInv'
<1>1. /\ MayFree(t) /\ cell' = CellsWithout(t)
      /\ UNCHANGED <<phase, idx, cur, irq, since>>
  BY DEF Remove1, RemoveTimer, control
<1>2. t \notin Running /\ Running' = Running
  BY <1>1, Zenon DEF MayFree, Undisturbed, Running
<1>3. cell' = [cell EXCEPT ![t] = Deleted(Disarmed(cell[t]))]
  BY <1>1, NoneAssumption DEF CellsWithout
<1>4. Timed(cell'[t], since'[t])
  BY <1>1, <1>3, TypesOfIInv, DeletedTimed
<1>5. \A u \in Timers \ {t} : cell'[u] = cell[u] /\ since'[u] = since[u]
  BY <1>1, <1>3, TypesOfIInv
<1> QED BY <1>1, <1>2, <1>4, <1>5, TypesOfIInv, TimedStep

(* A callback may arm its own timer for a delay that is not chopped up.    *)
LEMMA RearmTimed ==
    ASSUME Undisturbed, IInv, EarlyInv, NEW t \in Timers,
           NEW d \in RearmDelays \cup SelfRearmDelays, NEW r \in RearmRepeats, Rearm(t, d, r)
    PROVE  EarlyInv'
<1> DEFINE b == [cell[t] EXCEPT !.delay = d, !.remaining = 0]
           e == IF r = NoChange THEN b ELSE [b EXCEPT !.maxRepeat = r, !.counter = 0]
<1>1. /\ cell[t].live /\ cell' = [cell EXCEPT ![t] = Rearmed(cell[t], d, r)]
      /\ d \in IF t \in Running THEN SelfRearmDelays ELSE RearmDelays
      /\ since' = [since EXCEPT ![t] = 0]
      /\ UNCHANGED <<timers, handle, phase, idx, cur, irq, begun>>
  BY DEF Rearm, control
<1>2. d \in Nat /\ MaxDelay \in Nat /\ cell[t] \in Cells /\ HasRepeat(cell[t])
  BY <1>1, DelayAssumption, TypesOfIInv DEF CellOK
<1>3. e \in Cells /\ e.remaining = 0 /\ e.delay = d /\ e.prio = cell[t].prio
  BY <1>2, RepeatAssumption DEF Cells, NoChange, Unlimited
<1>4. Rearmed(cell[t], d, r) = Armed(e)
  BY DEF Rearmed
<1>5. Rearmed(cell[t], d, r).live
  BY <1>1, <1>2, RearmedLemma
<1> HIDE DEF b, e
<1>6. /\ Timed(Armed(e), 0) /\ Armed(e).prio = cell[t].prio
      /\ d <= MaxDelay => Armed(e).remaining = 0
  BY <1>3, ArmedTimed
<1>7. t \in Running => d <= MaxDelay
  BY <1>1, <1>2 DEF Undisturbed
<1>8. cell'[t] = Armed(e) /\ since'[t] = 0
  BY <1>1, <1>4, TypesOfIInv
<1>9. \A u \in Timers \ {t} : cell'[u] = cell[u] /\ since'[u] = since[u]
  BY <1>1, TypesOfIInv
<1>10. Running' = Running
  BY <1>1 DEF Running
<1> QED BY <1>1, <1>4, <1>5, <1>6, <1>7, <1>8, <1>9, <1>10, TypesOfIInv, TimedStep

LEMMA DetachTimed ==
    ASSUME IInv, EarlyInv, NEW t \in Timers, Detach(t)
    PROVE  EarlyInv'
<1> DEFINE c == Disarmed(cell[t])
<1>1. /\ cell[t].live /\ cell' = [cell EXCEPT ![t] = c]
      /\ UNCHANGED <<phase, idx, cur, irq, since>>
  BY DEF Detach, control
<1>2. /\ ~c.queued /\ c.period = 0 /\ c.scheduled = cell[t].scheduled
      /\ c.remaining = cell[t].remaining /\ c.prio = cell[t].prio
      /\ c.live = cell[t].live
  BY TypesOfIInv DEF Disarmed, Cells
<1> HIDE DEF c
<1>3. Timed(c, since[t])
  BY <1>2 DEF EarlyInv, Timed
<1>4. cell'[t] = c /\ since'[t] = since[t]
  BY <1>1, TypesOfIInv
<1>5. t \in Running => c.live /\ c.remaining = 0
  BY <1>2 DEF EarlyInv, Calls
<1>6. \A u \in Timers \ {t} : cell'[u] = cell[u] /\ since'[u] = since[u]
  BY <1>1, TypesOfIInv
<1>7. Running' = Running
  BY <1>1 DEF Running
<1> QED BY <1>1, <1>2, <1>3, <1>4, <1>5, <1>6, <1>7, TypesOfIInv, TimedStep

LEMMA EndTimed ==
    ASSUME Undisturbed, IInv, EarlyInv, End
    PROVE  EarlyInv'
<1>1. /\ \A t \in ToSet(timers) : MayFree(t)
      /\ cell' = [t \in Timers |-> IF t \in ToSet(timers)
                                THEN Deleted(Disarmed(cell[t])) ELSE cell[t]]
      /\ UNCHANGED <<phase, idx, cur, irq, since>>
  BY DEF End, control
<1>2. \A t \in ToSet(timers) : t \notin Running
  BY <1>1, Zenon DEF MayFree, Undisturbed
<1>3. Running' = Running
  BY <1>1 DEF Running
<1>4. ASSUME NEW u \in Timers
      PROVE  \/ cell'[u] = cell[u] /\ since'[u] = since[u]
             \/ Timed(cell'[u], since'[u]) /\ u \notin Running'
  <2>1. CASE u \in ToSet(timers)
    <3>1. cell'[u] = Deleted(Disarmed(cell[u])) /\ since'[u] = since[u]
      BY <1>1, <2>1
    <3> QED BY <1>2, <1>3, <2>1, <3>1, TypesOfIInv, DeletedTimed
  <2>2. CASE u \notin ToSet(timers)
    BY <1>1, <2>2
  <2> QED BY <2>1, <2>2
<1> QED BY <1>1, <1>3, <1>4, TypesOfIInv, TimedStep

LEMMA TickTimed ==
    ASSUME IInv, EarlyInv, Tick
    PROVE  EarlyInv'
<1>1. /\ cell' = [t \in Timers |->
                    IF cell[t].queued /\ cell[t].due > 0
                    THEN [cell[t] EXCEPT !.due = @ - 1] ELSE cell[t]]
      /\ since' = [t \in Timers |->
                    IF since[t] < cell[t].delay THEN since[t] + 1 ELSE since[t]]
      /\ UNCHANGED <<phase, idx, cur, irq>>
  BY DEF Tick, control
<1>2. Running' = Running
  BY <1>1 DEF Running
<1>3. ASSUME NEW u \in Timers
      PROVE  /\ Timed(cell'[u], since'[u])
             /\ u \in Running' => /\ cell'[u].live /\ cell'[u].remaining = 0
                                  /\ cell'[u].prio = cell[u].prio
  <2> DEFINE s == IF since[u] < cell[u].delay THEN since[u] + 1 ELSE since[u]
  <2>1. cell[u] \in Cells /\ since[u] \in Nat /\ Timed(cell[u], since[u])
    BY TypesOfIInv DEF EarlyInv
  <2>2. u \in Running' => cell[u].live /\ cell[u].remaining = 0
    BY <1>2 DEF EarlyInv, Calls
  <2>3. since'[u] = s
    BY <1>1
  <2>4. s \in Nat /\ s >= since[u] /\ (s = since[u] + 1 \/ s >= cell[u].delay)
    BY <2>1 DEF Cells
  <2> HIDE DEF s
  <2>5. CASE cell[u].queued /\ cell[u].due > 0
    <3> DEFINE n == cell[u].due - 1
               c == [cell[u] EXCEPT !.due = n]
    <3>1. cell'[u] = c
      BY <1>1, <2>5
    <3>2. n \in Nat /\ n = cell[u].due - 1
      BY <2>1, <2>5 DEF Cells
    <3> HIDE DEF n
    <3>3. /\ c.due = n /\ c.queued = cell[u].queued /\ c.live = cell[u].live
          /\ c.scheduled = cell[u].scheduled /\ c.period = cell[u].period
          /\ c.delay = cell[u].delay /\ c.remaining = cell[u].remaining
          /\ c.prio = cell[u].prio
      BY <2>1, <3>2 DEF Cells
    <3> HIDE DEF c
    <3>4. Timed(c, s)
      BY <2>1, <2>4, <3>2, <3>3 DEF Timed, Cells
    <3> QED BY <2>2, <2>3, <3>1, <3>3, <3>4
  <2>6. CASE ~(cell[u].queued /\ cell[u].due > 0)
    <3>1. cell'[u] = cell[u]
      BY <1>1, <2>6
    <3>2. Timed(cell[u], s)
      BY <2>1, <2>4 DEF Timed, Cells
    <3> QED BY <2>2, <2>3, <3>1, <3>2
  <2> QED BY <2>5, <2>6
<1> QED BY <1>1, <1>2, <1>3, TypesOfIInv, TimedStep

(* _timerCallback: what is left of the delay is armed, or has passed.      *)
LEMMA RefreshedTimed ==
    ASSUME NEW c \in Cells
    PROVE  LET e == Refreshed(c)
           IN  /\ e \in Cells /\ e.live = c.live /\ e.prio = c.prio
               /\ e.queued <=> c.period # 0
               /\ e.due = c.period /\ e.period = c.period /\ e.scheduled = c.scheduled
               /\ e.delay = c.delay /\ e.remaining = c.remaining
  BY DEF Refreshed, Cells

LEMMA TimerChunkTimed ==
    ASSUME IInv, EarlyInv, NEW t \in Timers, TimerChunk(t)
    PROVE  EarlyInv'
<1> DEFINE e == Refreshed(cell[t])
<1>1. /\ cell[t].queued /\ cell[t].due = 0 /\ cell[t].remaining # 0
      /\ cell' = [cell EXCEPT ![t] = Armed(e)]
      /\ UNCHANGED <<phase, idx, cur, irq, since>>
  BY DEF TimerChunk, Expired, control
<1>2. t \notin Running /\ Running' = Running
  BY <1>1 DEF EarlyInv, Calls, Running
<1>3. cell[t] \in Cells /\ since[t] \in Nat /\ Timed(cell[t], since[t])
  BY TypesOfIInv DEF EarlyInv
<1>4. e \in Cells /\ e.delay = cell[t].delay /\ e.remaining = cell[t].remaining
  BY <1>3, RefreshedTimed
<1> HIDE DEF e
<1>5. since[t] + e.remaining >= e.delay
  BY <1>1, <1>3, <1>4 DEF Timed, Cells
<1>6. Timed(Armed(e), since[t])
  BY <1>3, <1>4, <1>5, ArmedTimed
<1>7. cell'[t] = Armed(e) /\ since'[t] = since[t]
  BY <1>1, TypesOfIInv
<1>8. \A u \in Timers \ {t} : cell'[u] = cell[u] /\ since'[u] = since[u]
  BY <1>1, TypesOfIInv
<1> QED BY <1>1, <1>2, <1>6, <1>7, <1>8, TypesOfIInv, TimedStep

LEMMA TimerLowTimed ==
    ASSUME IInv, EarlyInv, NEW t \in Timers, TimerLow(t)
    PROVE  EarlyInv'
<1> DEFINE e == Refreshed(cell[t])
           c == [e EXCEPT !.scheduled = TRUE]
<1>1. /\ cell[t].remaining = 0 /\ cell[t].prio # "high"
      /\ cell' = [cell EXCEPT ![t] = c]
      /\ since' = [since EXCEPT ![t] = 0]
      /\ UNCHANGED <<phase, idx, cur, irq>>
  BY DEF TimerLow, Expired, control
<1>2. cell[t] \in Cells /\ Timed(cell[t], since[t])
  BY TypesOfIInv DEF EarlyInv
<1>3. /\ e \in Cells /\ e.live = cell[t].live /\ e.prio = cell[t].prio
      /\ e.queued <=> cell[t].period # 0
      /\ e.due = cell[t].period /\ e.period = cell[t].period
      /\ e.delay = cell[t].delay /\ e.remaining = cell[t].remaining
  BY <1>2, RefreshedTimed
<1> HIDE DEF e
<1>4. /\ c.live = e.live /\ c.prio = e.prio /\ c.queued = e.queued
      /\ c.due = e.due /\ c.period = e.period /\ c.delay = e.delay
      /\ c.remaining = e.remaining
  BY <1>3 DEF Cells
<1> HIDE DEF c
<1>5. Timed(c, 0)
  BY <1>1, <1>2, <1>3, <1>4 DEF Timed, Cells
<1>6. cell'[t] = c /\ since'[t] = 0
  BY <1>1, TypesOfIInv
<1>7. t \in Running => c.live
  BY <1>3, <1>4 DEF EarlyInv, Calls
<1>8. \A u \in Timers \ {t} : cell'[u] = cell[u] /\ since'[u] = since[u]
  BY <1>1, TypesOfIInv
<1>9. Running' = Running
  BY <1>1 DEF Running
<1> QED BY <1>1, <1>3, <1>4, <1>5, <1>6, <1>7, <1>8, <1>9, TypesOfIInv, TimedStep

LEMMA TimerHighTimed ==
    ASSUME IInv, EarlyInv, NEW t \in Timers, TimerHigh(t)
    PROVE  EarlyInv'
<1> DEFINE c == Refreshed(cell[t])
<1>1. /\ cell[t].remaining = 0 /\ cell[t].prio = "high" /\ irq = None
      /\ cell[t].queued
      /\ cell' = [cell EXCEPT ![t] = c]
      /\ since' = [since EXCEPT ![t] = 0]
      /\ irq' = t /\ cur' = cur
  BY DEF TimerHigh, Expired
<1>2. cell[t] \in Cells /\ Timed(cell[t], since[t]) /\ cell[t].live
  BY <1>1, TypesOfIInv DEF EarlyInv, CellOK
<1>3. /\ c.live = cell[t].live /\ c.prio = cell[t].prio
      /\ c.queued <=> cell[t].period # 0
      /\ c.due = cell[t].period /\ c.period = cell[t].period
      /\ c.scheduled = cell[t].scheduled
      /\ c.delay = cell[t].delay /\ c.remaining = cell[t].remaining
  BY <1>2, RefreshedTimed
<1> HIDE DEF c
<1>4. Timed(c, 0)
  BY <1>1, <1>2, <1>3 DEF Timed, Cells
<1>5. cell'[t] = c /\ since'[t] = 0
  BY <1>1, TypesOfIInv
<1>6. \A u \in Timers \ {t} : cell'[u] = cell[u] /\ since'[u] = since[u]
  BY <1>1, TypesOfIInv
<1>7. \A u \in Timers : Timed(cell'[u], since'[u])
  BY <1>4, <1>5, <1>6 DEF EarlyInv
<1>8. t # None /\ t # cur
  BY <1>1, NoneAssumption DEF EarlyInv, Calls
<1>9. Running' = Running \cup {t}
  BY <1>1, <1>8 DEF Running
<1>10. ASSUME NEW u \in Running' PROVE cell'[u].live /\ cell'[u].remaining = 0
  <2>1. CASE u = t
    BY <1>1, <1>2, <1>3, <1>5, <2>1
  <2>2. CASE u # t
    BY <1>6, <1>9, <2>2, TypesOfIInv DEF EarlyInv, Calls
  <2> QED BY <2>1, <2>2
<1>11. cur' # None => cell'[cur'].prio = "low"
  BY <1>1, <1>6, <1>8, TypesOfIInv DEF EarlyInv, Calls, Running
<1>12. cell'[irq'].prio = "high"
  BY <1>1, <1>3, <1>5
<1> QED BY <1>7, <1>10, <1>11, <1>12 DEF EarlyInv, Calls

(* _invokeCallback arms a timer whose delay is chopped up; nothing of the  *)
(* last delay remains.                                                     *)
LEMMA AfterTimed ==
    ASSUME IInv, EarlyInv, NEW t \in Running, AfterCallback(t), since' = since
    PROVE  /\ Timed(cell'[t], since'[t])
           /\ \A u \in Timers \ {t} : cell'[u] = cell[u]
<1> DEFINE c == Counted(cell[t])
           n == IF c.delay > MaxDelay THEN Armed(c) ELSE c
<1>1. /\ t \in Timers /\ cell[t] \in Cells /\ since[t] \in Nat
      /\ cell[t].live /\ cell[t].remaining = 0 /\ Timed(cell[t], since[t])
      /\ cell \in [Timers -> Cells]
  BY TypesOfIInv DEF EarlyInv, Calls
<1>2. /\ c \in Cells /\ c.remaining = 0 /\ c.delay = cell[t].delay
      /\ c.queued = cell[t].queued /\ c.due = cell[t].due /\ c.period = cell[t].period
      /\ c.scheduled = cell[t].scheduled /\ c.prio = cell[t].prio
  BY <1>1 DEF Counted, Cells
<1>3. Timed(c, since[t])
  <2> HIDE DEF c
  <2> QED BY <1>1, <1>2 DEF Timed
<1>4. Timed(n, since[t])
  <2> HIDE DEF c
  <2> QED BY <1>1, <1>2, <1>3, ArmedTimed
<1>5. CASE HasRepeat(c) /\ c.func
  <2>1. cell' = [cell EXCEPT ![t] = n]
    BY <1>1, <1>5, Zenon DEF AfterCallback
  <2> HIDE DEF n
  <2> QED BY <1>1, <1>4, <2>1
<1>6. CASE ~(HasRepeat(c) /\ c.func)
  <2>1. RemoveTimer(t)
    BY <1>1, <1>6, Zenon DEF AfterCallback
  <2>2. cell' = [cell EXCEPT ![t] = Deleted(Disarmed(cell[t]))]
    BY <1>1, <2>1, NoneAssumption DEF RemoveTimer, CellsWithout
  <2> QED BY <1>1, <2>2, DeletedTimed
<1> QED BY <1>5, <1>6

LEMMA HighReturnTimed ==
    ASSUME IInv, EarlyInv, HighReturn
    PROVE  EarlyInv'
<1>1. irq # None /\ AfterCallback(irq) /\ irq' = None /\ UNCHANGED <<cur, since>>
  BY DEF HighReturn
<1>2. irq \in Running /\ irq # cur
  BY <1>1 DEF EarlyInv, Calls, Running
<1>3. Timed(cell'[irq], since'[irq]) /\ \A u \in Timers \ {irq} : cell'[u] = cell[u]
  BY <1>1, <1>2, AfterTimed
<1>4. Running' \subseteq Running /\ irq \notin Running'
  BY <1>1, <1>2 DEF Running
<1> QED BY <1>1, <1>3, <1>4, TypesOfIInv, TimedStep

LEMMA LoopReturnTimed ==
    ASSUME IInv, EarlyInv, LoopReturn
    PROVE  EarlyInv'
<1>1. cur # None /\ AfterCallback(cur) /\ cur' = None /\ UNCHANGED <<irq, since>>
  BY DEF LoopReturn, IInv, Control
<1>2. cur \in Running /\ irq = None
  BY <1>1 DEF LoopReturn, Running
<1>3. Timed(cell'[cur], since'[cur]) /\ \A u \in Timers \ {cur} : cell'[u] = cell[u]
  BY <1>1, <1>2, AfterTimed
<1>4. Running' \subseteq Running /\ cur \notin Running'
  BY <1>1, <1>2 DEF Running
<1> QED BY <1>1, <1>3, <1>4, TypesOfIInv, TimedStep

LEMMA LoopInvokeTimed ==
    ASSUME IInv, EarlyInv, LoopInvoke
    PROVE  EarlyInv'
<1>1. PICK j \in Pending(idx) :
        /\ cell' = [cell EXCEPT ![timers[j]].scheduled = FALSE]
        /\ cur' = timers[j]
  BY DEF LoopInvoke
<1>2. phase = "scan" /\ UNCHANGED <<irq, since>>
  BY DEF LoopInvoke
<1>3. idx \in Nat \ {0} /\ timers \in Seq(Timers)
  BY <1>2 DEF IInv, Control, TypeOK
<1>4. timers[j] \in Timers /\ cell[timers[j]].scheduled
  BY <1>3 DEF Pending
<1> DEFINE t == timers[j]
           c == [cell[t] EXCEPT !.scheduled = FALSE]
<1>5. cell' = [cell EXCEPT ![t] = c]
  BY <1>1, <1>4, TypesOfIInv
<1>6. cell[t] \in Cells /\ Timed(cell[t], since[t]) /\ CellOK(cell[t])
  BY <1>4, TypesOfIInv DEF EarlyInv
<1>7. t \in Timers /\ cell[t].scheduled /\ cur' = t
  BY <1>1, <1>4
<1> HIDE DEF t
<1>8. /\ c.live = cell[t].live /\ c.queued = cell[t].queued /\ ~c.scheduled
      /\ c.due = cell[t].due /\ c.period = cell[t].period /\ c.prio = cell[t].prio
      /\ c.delay = cell[t].delay /\ c.remaining = cell[t].remaining
  BY <1>6 DEF Cells
<1> HIDE DEF c
<1>9. Timed(c, since[t])
  BY <1>6, <1>8 DEF Timed
<1>10. c.live /\ c.remaining = 0 /\ c.prio = "low"
  BY <1>6, <1>7, <1>8 DEF Timed, CellOK
<1>11. cell'[t] = c /\ since' = since
  BY <1>2, <1>5, <1>7, TypesOfIInv
<1>12. \A u \in Timers \ {t} : cell'[u] = cell[u]
  BY <1>5, TypesOfIInv
<1>13. \A u \in Timers : Timed(cell'[u], since'[u])
  BY <1>9, <1>11, <1>12 DEF EarlyInv
<1>14. ASSUME NEW u \in Running' PROVE cell'[u].live /\ cell'[u].remaining = 0
  <2>1. CASE u = t
    BY <1>10, <1>11, <2>1
  <2>2. CASE u # t
    <3>1. u \in Running
      BY <1>2, <1>7, <2>2 DEF Running
    <3> QED BY <1>12, <2>2, <3>1, TypesOfIInv DEF EarlyInv, Calls
  <2> QED BY <2>1, <2>2
<1>15. cell'[cur'].prio = "low"
  BY <1>7, <1>10, <1>11
<1>16. irq' # None => cell'[irq'].prio = "high"
  BY <1>2, <1>8, <1>11, <1>12, TypesOfIInv DEF EarlyInv, Calls, Running
<1> QED BY <1>13, <1>14, <1>15, <1>16 DEF EarlyInv, Calls

(* Every step of the scheduler, the SDK and the program.                   *)
LEMMA EarlyStep ==
    ASSUME Undisturbed, IInv, EarlyInv, [Next]_vars
    PROVE  EarlyInv'
<1>1. CASE Api
  <2>1. CASE \E h \in Handles \cup {None}, t \in Timers, d \in Delays,
               r \in Repeats, p \in Priorities : Add(h, t, d, r, p)
    BY <2>1, AddTimed
  <2>2. CASE \E t \in Timers : Remove1(t) \/ Detach(t)
    BY <2>2, Remove1Timed, DetachTimed
  <2>3. CASE \E t \in Timers, d \in RearmDelays \cup SelfRearmDelays,
               r \in RearmRepeats : Rearm(t, d, r)
    BY <2>3, RearmTimed
  <2>4. CASE \E t \in Timers, p \in Priorities : SetPriority(t, p)
    BY <2>4 DEF SetPriority, UserCode, Undisturbed
  <2>5. CASE Begin
    BY <2>5 DEF Begin, control, EarlyInv, Calls, Running
  <2>6. CASE End
    BY <2>6, EndTimed
  <2> QED BY <1>1, <2>1, <2>2, <2>3, <2>4, <2>5, <2>6 DEF Api
<1>2. CASE Sdk
  <2>1. CASE Tick
    BY <2>1, TickTimed
  <2>2. CASE \E t \in Timers : TimerExpires(t)
    BY <2>2, TimerChunkTimed, TimerHighTimed, TimerLowTimed DEF TimerExpires
  <2>3. CASE HighReturn
    BY <2>3, HighReturnTimed
  <2> QED BY <1>2, <2>1, <2>2, <2>3 DEF Sdk
<1>3. CASE Loop
  <2>1. CASE LoopStart \/ LoopEnd
    BY <2>1 DEF LoopStart, LoopEnd, EarlyInv, Calls, Running
  <2> QED BY <1>3, <2>1, LoopInvokeTimed, LoopReturnTimed DEF Loop
<1>4. CASE UNCHANGED vars
  BY <1>4 DEF vars, EarlyInv, Calls, Running
<1> QED BY <1>1, <1>2, <1>3, <1>4 DEF Next

(* A chopped delay is waited for in full, and so is every period, whatever *)
(* is added, removed, rearmed and detached meanwhile: an SDK timer with    *)
(* nothing left of its delay expires no earlier than the delay after it    *)
(* was armed or last expired.  Each part of Undisturbed is needed.         *)
THEOREM TimersAreNeverEarly == Undisturbed /\ Spec => []NeverEarly
<1> SUFFICES ASSUME Undisturbed PROVE Spec => []NeverEarly
  OBVIOUS
<1>1. Init => EarlyInv
  <2> SUFFICES ASSUME Init PROVE EarlyInv
    OBVIOUS
  <2>1. \A t \in Timers : cell[t] = Free /\ since[t] = 0
    BY DEF Init
  <2>2. Timed(Free, 0)
    BY DEF Free, Timed
  <2> QED BY <2>1, <2>2 DEF Init, EarlyInv, Calls, Running
<1>2. IInv /\ EarlyInv /\ [Next]_vars => EarlyInv'
  BY EarlyStep
<1>3. IInv /\ EarlyInv => NeverEarly
  <2> SUFFICES ASSUME IInv, EarlyInv, NEW t \in Timers,
                      cell[t].queued, cell[t].due = 0, cell[t].remaining = 0
               PROVE  since[t] >= cell[t].delay
    BY DEF NeverEarly
  <2>1. cell[t] \in Cells /\ since[t] \in Nat /\ Timed(cell[t], since[t])
    BY TypesOfIInv DEF EarlyInv
  <2> QED BY <2>1 DEF Timed, Cells
<1> QED BY <1>1, <1>2, <1>3, Invariant, PTL DEF Spec
=============================================================================
