------------------------- MODULE WiFiCallbacksProofs -------------------------
(***************************************************************************)
(* Theorems about WiFiCallbacks for every set of callbacks and every       *)
(* capacity of the queue of scheduled events: subscribers learn what the   *)
(* station is, and callEvent() implements a round of Listeners.            *)
(***************************************************************************)
EXTENDS WiFiCallbacks, FunctionTheorems, FiniteSetTheorems, SequenceTheorems,
        WellFoundedInduction, TLAPS

(***************************************************************************)
(* The inductive invariant has two independent parts.                      *)
(*                                                                         *)
(* The station: the flag says that there is a link, and the last event     *)
(* that was scheduled, or passed on when none waits, says whether there is *)
(* an address.                                                             *)
(***************************************************************************)
Latest == IF scheduled = <<>> THEN event ELSE scheduled[Len(scheduled)]

StationInv ==
    /\ wifiConnected <=> link # "down"
    /\ Latest = "connected" <=> link = "ip"

(***************************************************************************)
(* The walk of callEvent(): of the entries it has passed it has called all *)
(* that stayed, of the others none, and whoever stayed wants the event.    *)
(***************************************************************************)
Passed(k) == k < pos \/ (k = pos /\ running # None)

WalkSound ==
    /\ \A k \in DOMAIN callbacks :
          IF Passed(k) THEN callbacks[k].ptr \in stayed => callbacks[k].ptr \in called
                       ELSE callbacks[k].ptr \notin called
    /\ \A c \in stayed : event \in wanted[c]

WalkInv ==
    /\ VectorSound
    /\ running # None => pos # 0
    /\ pos # 0 => WalkSound

IInv == TypeOK /\ StationInv /\ WalkInv

Entries == [ptr : Callbacks, events : SUBSET Events]

(* No callback has two entries.                                            *)
Distinct ==
    \A j, k \in DOMAIN callbacks : callbacks[j].ptr = callbacks[k].ptr => j = k

(* What VectorSound says, entry by entry.                                  *)
Holds ==
    /\ Distinct
    /\ \A k \in DOMAIN callbacks : callbacks[k].events = wanted[callbacks[k].ptr]
    /\ \A c \in Callbacks : wanted[c] # {} => \E k \in DOMAIN callbacks : callbacks[k].ptr = c
    /\ pos = 0 => \A k \in DOMAIN callbacks : callbacks[k].events # {}

-----------------------------------------------------------------------------
(* A set of numbers that is not empty has a least element.                 *)
LEMMA MinLemma ==
    ASSUME NEW T \in SUBSET Nat, T # {}
    PROVE  Min(T) \in T /\ \A y \in T : Min(T) <= y
<1>1. \E x \in T : \A y \in T : <<y, x>> \notin OpToRel(<, Nat)
  BY NatLessThanWellFounded, WFMin
<1>2. PICK x \in T : \A y \in T : <<y, x>> \notin OpToRel(<, Nat)
  BY <1>1
<1>3. ASSUME NEW y \in T PROVE x <= y
  <2>1. <<y, x>> \in Nat \X Nat /\ <<y, x>>[1] = y /\ <<y, x>>[2] = x
    OBVIOUS
  <2>2. ~(y < x)
    BY <1>2, <2>1, Zenon DEF OpToRel
  <2> QED BY <2>2
<1> QED BY <1>2, <1>3 DEF Min

(* vector::erase takes out one element and keeps the others in order.      *)
LEMMA RemoveAtLemma ==
    ASSUME NEW S, NEW s \in Seq(S), NEW k \in 1..Len(s)
    PROVE  /\ RemoveAt(s, k) \in Seq(S)
           /\ Len(RemoveAt(s, k)) = Len(s) - 1
           /\ \A n \in 1..(Len(s) - 1) :
                 RemoveAt(s, k)[n] = IF n < k THEN s[n] ELSE s[n + 1]
<1> DEFINE a == SubSeq(s, 1, k - 1)
           b == SubSeq(s, k + 1, Len(s))
<1>1. /\ a \in Seq(S) /\ Len(a) = k - 1
      /\ \A n \in 1..(k - 1) : a[n] = s[n]
  OBVIOUS
<1>2. /\ b \in Seq(S) /\ Len(b) = Len(s) - k
      /\ \A n \in 1..(Len(s) - k) : b[n] = s[k + n]
  <2>1. CASE k = Len(s)
    BY <2>1
  <2>2. CASE k < Len(s)
    BY <2>2, SubSeqProperties
  <2> QED BY <2>1, <2>2
<1> HIDE DEF a, b
<1>3. /\ a \o b \in Seq(S) /\ Len(a \o b) = Len(s) - 1
      /\ \A n \in 1..(Len(s) - 1) : (a \o b)[n] = IF n <= k - 1 THEN a[n] ELSE b[n - (k - 1)]
  <2>1. /\ a \o b \in Seq(S) /\ Len(a \o b) = Len(a) + Len(b)
        /\ \A n \in 1..(Len(a) + Len(b)) :
              (a \o b)[n] = IF n <= Len(a) THEN a[n] ELSE b[n - Len(a)]
    BY <1>1, <1>2, ConcatProperties
  <2> QED BY <1>1, <1>2, <2>1
<1>4. ASSUME NEW n \in 1..(Len(s) - 1)
      PROVE  (a \o b)[n] = IF n < k THEN s[n] ELSE s[n + 1]
  <2>1. CASE n < k
    BY <1>1, <1>3, <2>1
  <2>2. CASE ~(n < k)
    <3>1. n - (k - 1) \in 1..(Len(s) - k) /\ k + (n - (k - 1)) = n + 1
      BY <2>2
    <3> QED BY <1>2, <1>3, <2>2, <3>1
  <2> QED BY <2>1, <2>2
<1> QED BY <1>3, <1>4 DEF RemoveAt, a, b

(* The fields of an entry have their types.                                *)
LEMMA EntriesLemma ==
    ASSUME NEW v \in Seq([ptr : Callbacks, events : SUBSET Events])
    PROVE  \A k \in DOMAIN v : v[k].ptr \in Callbacks /\ v[k].events \in SUBSET Events
<1>1. DOMAIN v = 1..Len(v)
  OBVIOUS
<1>2. \A k \in DOMAIN v : v[k] \in [ptr : Callbacks, events : SUBSET Events]
  BY <1>1, ElementOfSeq
<1> QED BY <1>2

(* VectorSound, in the form the proofs use.                                *)
LEMMA HoldsLemma == (VectorSound <=> Holds) /\ (VectorSound' <=> Holds')
<1>1. VectorSound <=> Holds
  BY DEF VectorSound, Holds, Distinct, IsInjective, Entry
<1>2. VectorSound' <=> Holds'
  BY DEF VectorSound, Holds, Distinct, IsInjective, Entry
<1> QED BY <1>1, <1>2

(* The callbacks that callEvent() would tell are those that want the event.*)
LEMMA HearingLemma ==
    /\ TypeOK /\ Holds => Hearing = {c \in Callbacks : event \in wanted[c]}
    /\ (TypeOK /\ Holds)' => Hearing' = {c \in Callbacks : event' \in wanted'[c]}
<1>1. ASSUME TypeOK, Holds PROVE Hearing = {c \in Callbacks : event \in wanted[c]}
  <2>1. \A k \in DOMAIN callbacks : callbacks[k].ptr \in Callbacks
    BY <1>1, EntriesLemma DEF TypeOK
  <2> QED BY <1>1, <2>1 DEF Holds, Hearing
<1>2. ASSUME TypeOK', Holds'
      PROVE  Hearing' = {c \in Callbacks : event' \in wanted'[c]}
  <2>1. \A k \in DOMAIN callbacks' : callbacks'[k].ptr \in Callbacks
    BY <1>2, EntriesLemma DEF TypeOK
  <2> QED BY <1>2, <2>1 DEF Holds, Hearing
<1> QED BY <1>1, <1>2

-----------------------------------------------------------------------------
LEMMA InitStep == Init => IInv
<1> SUFFICES ASSUME Init PROVE IInv
  OBVIOUS
<1>1. callbacks = <<>> /\ DOMAIN callbacks = {} /\ scheduled = <<>>
  BY DEF Init, StationInit
<1>2. TypeOK
  <2>1. <<>> \in Seq(Events) /\ <<>> \in Seq([ptr : Callbacks, events : SUBSET Events])
    OBVIOUS
  <2>2. Len(scheduled) <= ScheduleMax
    BY <1>1, ScheduleAssumption
  <2> QED BY <1>1, <2>1, <2>2 DEF Init, StationInit, TypeOK, Events
<1>3. StationInv
  BY <1>1 DEF Init, StationInit, StationInv, Latest
<1>4. Holds
  BY <1>1 DEF Init, Holds, Distinct
<1> QED BY <1>2, <1>3, <1>4, HoldsLemma DEF IInv, WalkInv, Init

(* The handlers of the SDK events: the event they schedule, or the one     *)
(* they need not schedule, is what the station has become.                 *)
LEMMA StationStep == IInv /\ StationNext /\ UNCHANGED callbackVars => IInv'
<1> SUFFICES ASSUME IInv, StationNext, UNCHANGED callbackVars PROVE IInv'
  OBVIOUS
<1>1. WalkInv'
  BY HoldsLemma DEF IInv, WalkInv, callbackVars, Holds, Distinct, WalkSound, Passed
<1>2. ASSUME NEW e \in Events, scheduled' = Append(scheduled, e), Len(scheduled) < ScheduleMax
      PROVE  /\ scheduled' \in Seq(Events) /\ Len(scheduled') <= ScheduleMax
             /\ Latest' = e
  BY <1>2, ScheduleAssumption DEF IInv, TypeOK, Latest
<1>3. CASE OnWiFiConnect
  BY <1>1, <1>3 DEF IInv, TypeOK, StationInv, Latest, OnWiFiConnect, callbackVars
<1>4. CASE OnWiFiDisconnect
  <2>1. CASE wifiConnected
    <3>1. /\ link' = "down" /\ wifiConnected' = FALSE /\ Latest' = "disconnected"
          /\ scheduled' \in Seq(Events) /\ Len(scheduled') <= ScheduleMax
      BY <1>2, <1>4, <2>1 DEF OnWiFiDisconnect, Events
    <3> QED BY <1>1, <3>1 DEF IInv, TypeOK, StationInv, callbackVars
  <2>2. CASE ~wifiConnected
    <3>1. /\ link' = "down" /\ wifiConnected' = FALSE /\ link = "down"
          /\ UNCHANGED scheduled
      BY <1>4, <2>2 DEF OnWiFiDisconnect, IInv, StationInv
    <3> QED BY <1>1, <3>1 DEF IInv, TypeOK, StationInv, Latest, callbackVars
  <2> QED BY <2>1, <2>2
<1>5. CASE OnWiFiGotIP
  <2>1. /\ link # "down" /\ link' = "ip" /\ UNCHANGED wifiConnected
        /\ Latest' = "connected"
        /\ scheduled' \in Seq(Events) /\ Len(scheduled') <= ScheduleMax
    BY <1>2, <1>5 DEF OnWiFiGotIP, Events
  <2> QED BY <1>1, <2>1 DEF IInv, TypeOK, StationInv, callbackVars
<1> QED BY <1>3, <1>4, <1>5 DEF StationNext

(* What a change of the vector leaves alone.                               *)
LEMMA SameStation ==
    ASSUME StationInv, UNCHANGED stationVars, UNCHANGED event
    PROVE  StationInv'
  BY DEF StationInv, stationVars, Latest

-----------------------------------------------------------------------------
(* The vector after the events of one entry have been replaced.            *)
LEMMA WithEventsLemma ==
    ASSUME TypeOK, NEW c \in Callbacks, NEW E \in SUBSET Events
    PROVE  /\ WithEvents(c, E) \in Seq(Entries)
           /\ DOMAIN WithEvents(c, E) = DOMAIN callbacks
           /\ \A k \in DOMAIN callbacks :
                 /\ WithEvents(c, E)[k].ptr = callbacks[k].ptr
                 /\ WithEvents(c, E)[k].events =
                       IF callbacks[k].ptr = c THEN E ELSE callbacks[k].events
<1> DEFINE v == WithEvents(c, E)
<1>1. callbacks \in Seq(Entries)
  BY DEF TypeOK, Entries
<1>2. DOMAIN callbacks = 1..Len(callbacks) /\ Len(callbacks) \in Nat
  BY <1>1
<1>3. ASSUME NEW k \in DOMAIN callbacks
      PROVE  /\ v[k] \in Entries /\ v[k].ptr = callbacks[k].ptr
             /\ v[k].events = IF callbacks[k].ptr = c THEN E ELSE callbacks[k].events
  <2>1. callbacks[k] \in Entries
    BY <1>1
  <2>2. CASE k \in Entry(c)
    BY <2>1, <2>2 DEF WithEvents, Entries, Entry
  <2>3. CASE k \notin Entry(c)
    BY <2>1, <2>3 DEF WithEvents, Entries, Entry
  <2> QED BY <2>2, <2>3
<1>4. v \in [1..Len(callbacks) -> Entries] /\ DOMAIN v = DOMAIN callbacks
  BY <1>2, <1>3 DEF WithEvents
<1> QED BY <1>2, <1>3, <1>4, SeqDef

(* add() and remove() of a callback that keeps its entry: the entry says   *)
(* what the callback wants, and the walk knows only pointers.              *)
LEMMA ReplaceStep ==
    ASSUME IInv, NEW c \in Callbacks, NEW k0 \in Entry(c), NEW E \in SUBSET Events,
           callbacks' = WithEvents(c, E), wanted' = [wanted EXCEPT ![c] = E],
           pos = 0 => E # {},
           stayed' \subseteq stayed, pos # 0 /\ event \notin E => c \notin stayed',
           UNCHANGED <<stationVars, pos, event, running, called>>
    PROVE  IInv'
<1>1. TypeOK /\ Holds
  BY HoldsLemma DEF IInv, WalkInv
<1>2. /\ callbacks' \in Seq(Entries)
      /\ DOMAIN callbacks' = DOMAIN callbacks
      /\ \A k \in DOMAIN callbacks :
            /\ callbacks'[k].ptr = callbacks[k].ptr
            /\ callbacks'[k].events = IF callbacks[k].ptr = c THEN E ELSE callbacks[k].events
  BY <1>1, WithEventsLemma
<1>3. /\ wanted' \in [Callbacks -> SUBSET Events]
      /\ \A d \in Callbacks : wanted'[d] = IF d = c THEN E ELSE wanted[d]
      /\ \A k \in DOMAIN callbacks : callbacks[k].ptr \in Callbacks
      /\ stayed \subseteq Callbacks
  BY <1>1, EntriesLemma DEF TypeOK
<1>4. k0 \in DOMAIN callbacks /\ callbacks[k0].ptr = c
  BY DEF Entry
<1>5. TypeOK'
  BY <1>1, <1>2, <1>3 DEF TypeOK, Entries, stationVars
<1>6. Holds'
  BY <1>1, <1>2, <1>3, <1>4 DEF Holds, Distinct
<1>7. ASSUME pos # 0 PROVE WalkSound'
  <2>1. WalkSound
    BY <1>7 DEF IInv, WalkInv
  <2>2. \A d \in stayed' : event' \in wanted'[d]
    BY <1>3, <1>7, <2>1 DEF WalkSound
  <2> QED BY <1>2, <2>1, <2>2 DEF WalkSound, Passed
<1> QED BY <1>5, <1>6, <1>7, HoldsLemma, SameStation DEF IInv, WalkInv

(* WiFiCallbacks::add of a callback that has an entry.                     *)
LEMMA AddEventsStep ==
    ASSUME IInv, NEW c \in Callbacks, NEW E \in SUBSET Events, E # {},
           Add(c, E), Entry(c) # {}
    PROVE  IInv'
<1>1. TypeOK /\ Holds
  BY HoldsLemma DEF IInv, WalkInv
<1>2. PICK k \in Entry(c) : callbacks' = WithEvents(c, callbacks[k].events \cup E)
  BY DEF Add
<1>3. callbacks[k].events = wanted[c]
  BY <1>1 DEF Entry, Holds
<1>4. wanted[c] \cup E \in SUBSET Events /\ wanted[c] \cup E # {}
  BY <1>1 DEF TypeOK
<1>5. pos # 0 /\ event \notin wanted[c] \cup E => c \notin stayed
  BY DEF IInv, WalkInv, WalkSound
<1>6. /\ callbacks' = WithEvents(c, wanted[c] \cup E)
      /\ wanted' = [wanted EXCEPT ![c] = wanted[c] \cup E]
      /\ UNCHANGED <<stationVars, pos, event, running, stayed, called>>
  BY <1>2, <1>3 DEF Add
<1> QED BY <1>4, <1>5, <1>6, ReplaceStep

(* WiFiCallbacks::add of a callback that has none.                         *)
LEMMA AddEntryStep ==
    ASSUME IInv, NEW c \in Callbacks, NEW E \in SUBSET Events, E # {},
           Add(c, E), Entry(c) = {}
    PROVE  IInv'
<1> DEFINE n == Len(callbacks) + 1
<1>1. TypeOK /\ Holds /\ callbacks \in Seq(Entries)
  BY HoldsLemma DEF IInv, WalkInv, TypeOK, Entries
<1>2. /\ pos = 0 /\ callbacks' = Append(callbacks, [ptr |-> c, events |-> E])
      /\ wanted' = [wanted EXCEPT ![c] = @ \cup E]
      /\ UNCHANGED <<stationVars, pos, event, running, stayed, called>>
  BY DEF Add
<1>3. /\ callbacks' \in Seq(Entries) /\ DOMAIN callbacks' = 1..n
      /\ \A k \in DOMAIN callbacks : k \in 1..n /\ callbacks'[k] = callbacks[k]
      /\ callbacks'[n].ptr = c /\ callbacks'[n].events = E
      /\ 1..n = DOMAIN callbacks \cup {n} /\ n \in 1..n
  BY <1>1, <1>2 DEF Entries
<1> HIDE DEF n
<1>4. \A k \in DOMAIN callbacks : callbacks[k].ptr # c
  BY DEF Entry
<1>5. wanted[c] = {}
  BY <1>1, <1>4 DEF Holds
<1>6. /\ wanted' \in [Callbacks -> SUBSET Events]
      /\ \A d \in Callbacks : wanted'[d] = IF d = c THEN E ELSE wanted[d]
      /\ \A k \in DOMAIN callbacks : callbacks[k].ptr \in Callbacks
  BY <1>1, <1>2, <1>5, EntriesLemma DEF TypeOK
<1>7. TypeOK'
  BY <1>1, <1>2, <1>3, <1>6 DEF TypeOK, Entries, stationVars
<1>8. Holds'
  <2>1. Distinct'
    BY <1>1, <1>3, <1>4 DEF Holds, Distinct
  <2>2. ASSUME NEW d \in Callbacks, wanted'[d] # {}
        PROVE  \E k \in DOMAIN callbacks' : callbacks'[k].ptr = d
    <3>1. CASE d = c
      BY <1>3, <3>1
    <3>2. CASE d # c
      <4>1. PICK k \in DOMAIN callbacks : callbacks[k].ptr = d
        BY <1>1, <1>6, <2>2, <3>2 DEF Holds
      <4> QED BY <1>3, <4>1
    <3> QED BY <3>1, <3>2
  <2>3. ASSUME NEW k \in DOMAIN callbacks'
        PROVE  /\ callbacks'[k].events = wanted'[callbacks'[k].ptr]
               /\ callbacks'[k].events # {}
    <3>1. CASE k = n
      BY <1>3, <1>6, <3>1
    <3>2. CASE k \in DOMAIN callbacks
      <4>1. callbacks'[k] = callbacks[k] /\ callbacks[k].ptr # c
        BY <1>3, <1>4, <3>2
      <4> QED BY <1>1, <1>2, <1>6, <3>2, <4>1 DEF Holds
    <3> QED BY <1>3, <3>1, <3>2
  <2> QED BY <2>1, <2>2, <2>3 DEF Holds
<1> QED BY <1>2, <1>7, <1>8, HoldsLemma, SameStation DEF IInv, WalkInv

(* WiFiCallbacks::remove outside callEvent() of all a callback wants.      *)
LEMMA EraseEntryStep ==
    ASSUME IInv, NEW c \in Callbacks, NEW E \in SUBSET Events, NEW j \in Entry(c),
           Remove1(c, E), pos = 0, callbacks[j].events \subseteq E,
           callbacks' = RemoveAt(callbacks, j)
    PROVE  IInv'
<1> DEFINE n == Len(callbacks)
           old(k) == IF k < j THEN k ELSE k + 1
<1>1. TypeOK /\ Holds /\ callbacks \in Seq(Entries)
  BY HoldsLemma DEF IInv, WalkInv, TypeOK, Entries
<1>2. DOMAIN callbacks = 1..n /\ n \in Nat /\ j \in 1..n /\ callbacks[j].ptr = c
  BY <1>1 DEF Entry
<1>3. /\ callbacks' \in Seq(Entries) /\ DOMAIN callbacks' = 1..(n - 1)
      /\ \A k \in 1..(n - 1) : callbacks'[k] = callbacks[old(k)]
  <2>1. /\ callbacks' \in Seq(Entries) /\ Len(callbacks') = n - 1
        /\ \A k \in 1..(n - 1) :
              callbacks'[k] = IF k < j THEN callbacks[k] ELSE callbacks[k + 1]
    BY <1>1, <1>2, RemoveAtLemma
  <2> QED BY <1>2, <2>1
<1> HIDE DEF n
<1>4. /\ \A k \in 1..(n - 1) : old(k) \in 1..n /\ old(k) # j
      /\ \A k, m \in 1..(n - 1) : old(k) = old(m) => k = m
      /\ \A k \in 1..n : k # j => \E m \in 1..(n - 1) : k = old(m)
  <2>1. \A k \in 1..(n - 1) : old(k) \in 1..n /\ old(k) # j
    BY <1>2
  <2>2. \A k, m \in 1..(n - 1) : old(k) = old(m) => k = m
    BY <1>2
  <2>3. ASSUME NEW k \in 1..n, k # j PROVE \E m \in 1..(n - 1) : k = old(m)
    <3>1. CASE k < j
      BY <1>2, <3>1
    <3>2. CASE k > j
      <4>1. k - 1 \in 1..(n - 1) /\ k = old(k - 1)
        BY <1>2, <3>2
      <4> QED BY <4>1
    <3> QED BY <1>2, <2>3, <3>1, <3>2
  <2> QED BY <2>1, <2>2, <2>3
<1> HIDE DEF old
<1>5. /\ wanted' = [wanted EXCEPT ![c] = @ \ E]
      /\ stayed' \subseteq stayed
      /\ UNCHANGED <<stationVars, pos, event, running, called>>
  BY DEF Remove1
<1>6. wanted[c] \subseteq E
  BY <1>1, <1>2 DEF Holds
<1>7. /\ wanted' \in [Callbacks -> SUBSET Events]
      /\ \A d \in Callbacks : wanted'[d] = IF d = c THEN {} ELSE wanted[d]
      /\ \A k \in DOMAIN callbacks : callbacks[k].ptr \in Callbacks
  BY <1>1, <1>5, <1>6, EntriesLemma DEF TypeOK
<1>8. TypeOK'
  BY <1>1, <1>3, <1>5, <1>7 DEF TypeOK, Entries, stationVars
<1>9. Holds'
  <2>1. Distinct'
    BY <1>1, <1>2, <1>3, <1>4 DEF Holds, Distinct
  <2>2. ASSUME NEW d \in Callbacks, wanted'[d] # {}
        PROVE  \E k \in DOMAIN callbacks' : callbacks'[k].ptr = d
    <3>1. d # c /\ wanted[d] # {}
      BY <1>7, <2>2
    <3>2. PICK k \in 1..n : callbacks[k].ptr = d
      BY <1>1, <1>2, <3>1 DEF Holds
    <3>3. PICK m \in 1..(n - 1) : k = old(m)
      BY <1>2, <1>4, <3>1, <3>2
    <3> QED BY <1>3, <3>2, <3>3
  <2>3. ASSUME NEW k \in 1..(n - 1)
        PROVE  /\ callbacks'[k].events = wanted'[callbacks'[k].ptr]
               /\ callbacks'[k].events # {}
    <3>1. callbacks'[k] = callbacks[old(k)] /\ callbacks[old(k)].ptr # c
      BY <1>1, <1>2, <1>3, <1>4 DEF Holds, Distinct
    <3>2. /\ old(k) \in DOMAIN callbacks
          /\ wanted'[callbacks[old(k)].ptr] = wanted[callbacks[old(k)].ptr]
      BY <1>2, <1>4, <1>7, <3>1
    <3> QED BY <1>1, <3>1, <3>2 DEF Holds
  <2> QED BY <1>3, <2>1, <2>2, <2>3 DEF Holds
<1> QED BY <1>5, <1>8, <1>9, HoldsLemma, SameStation DEF IInv, WalkInv

(* WiFiCallbacks::remove                                                   *)
LEMMA RemoveStep ==
    ASSUME IInv, NEW c \in Callbacks, NEW E \in SUBSET Events, E # {}, Remove1(c, E)
    PROVE  IInv'
<1>1. TypeOK /\ Holds
  BY HoldsLemma DEF IInv, WalkInv
<1>2. PICK k \in Entry(c) :
         callbacks' = IF callbacks[k].events \subseteq E /\ pos = 0
                      THEN RemoveAt(callbacks, k)
                      ELSE WithEvents(c, callbacks[k].events \ E)
  BY DEF Remove1
<1>3. CASE callbacks[k].events \subseteq E /\ pos = 0
  BY <1>2, <1>3, EraseEntryStep
<1>4. CASE ~(callbacks[k].events \subseteq E /\ pos = 0)
  <2>1. callbacks[k].events = wanted[c]
    BY <1>1 DEF Entry, Holds
  <2>2. wanted[c] \ E \in SUBSET Events /\ (pos = 0 => wanted[c] \ E # {})
    BY <1>1, <1>4, <2>1 DEF TypeOK
  <2>3. /\ callbacks' = WithEvents(c, wanted[c] \ E)
        /\ wanted' = [wanted EXCEPT ![c] = wanted[c] \ E]
        /\ stayed' = IF event \in E THEN stayed \ {c} ELSE stayed
        /\ UNCHANGED <<stationVars, pos, event, running, called>>
    BY <1>2, <1>4, <2>1 DEF Remove1
  <2>4. stayed' \subseteq stayed
    BY <2>3
  <2>5. ASSUME pos # 0, event \notin wanted[c] \ E PROVE c \notin stayed'
    <3>1. c \in stayed => event \in wanted[c]
      BY <2>5 DEF IInv, WalkInv, WalkSound
    <3> QED BY <2>3, <2>5, <3>1
  <2> QED BY <2>2, <2>3, <2>4, <2>5, ReplaceStep
<1> QED BY <1>3, <1>4

(* WiFiCallbacks::clear                                                    *)
LEMMA ClearStep == IInv /\ Clear => IInv'
<1> SUFFICES ASSUME IInv, Clear PROVE IInv'
  OBVIOUS
<1>1. /\ pos = 0 /\ callbacks' = <<>> /\ wanted' = [c \in Callbacks |-> {}]
      /\ UNCHANGED <<stationVars, pos, event, running, stayed, called>>
  BY DEF Clear
<1>2. TypeOK'
  <2>1. <<>> \in Seq([ptr : Callbacks, events : SUBSET Events])
    OBVIOUS
  <2> QED BY <1>1, <2>1 DEF IInv, TypeOK, stationVars
<1>3. Holds'
  <2>1. DOMAIN callbacks' = {}
    BY <1>1
  <2> QED BY <1>1, <2>1 DEF Holds, Distinct
<1> QED BY <1>1, <1>2, <1>3, HoldsLemma, SameStation DEF IInv, WalkInv

-----------------------------------------------------------------------------
(* run_scheduled_functions() takes the event and callEvent() begins.       *)
LEMMA EventStartStep == IInv /\ EventStart => IInv'
<1> SUFFICES ASSUME IInv, EventStart PROVE IInv'
  OBVIOUS
<1>1. TypeOK /\ Holds
  BY HoldsLemma DEF IInv, WalkInv
<1>2. /\ pos = 0 /\ pos' = 1 /\ event' \in Events /\ NextEvent(event')
      /\ stayed' = {c \in Callbacks : event' \in wanted[c]} /\ called' = {}
      /\ UNCHANGED <<callbacks, running, wanted>>
      /\ running = None
  BY DEF EventStart, IInv, WalkInv
<1>3. /\ scheduled # <<>> /\ scheduled \in Seq(Events) /\ event' = Head(scheduled)
      /\ scheduled' = Tail(scheduled) /\ Len(scheduled) <= ScheduleMax
      /\ UNCHANGED <<link, wifiConnected>>
  BY <1>1, <1>2 DEF NextEvent, TypeOK
<1>4. scheduled' \in Seq(Events) /\ Len(scheduled') = Len(scheduled) - 1
  BY <1>3
<1>5. TypeOK'
  BY <1>1, <1>2, <1>3, <1>4, ScheduleAssumption DEF TypeOK
<1>6. Latest' = Latest
  <2>1. CASE Len(scheduled) = 1
    <3>1. scheduled' = <<>> /\ scheduled[Len(scheduled)] = Head(scheduled)
      BY <1>3, <1>4, <2>1
    <3> QED BY <1>3, <3>1 DEF Latest
  <2>2. CASE Len(scheduled) # 1
    <3>1. Len(scheduled) \in Nat /\ Len(scheduled) > 1
      <4>1. Len(scheduled) \in Nat /\ Len(scheduled') \in Nat
        BY <1>3, <1>4
      <4> QED BY <1>4, <2>2, <4>1
    <3>2. \A i \in 1..Len(scheduled') : scheduled'[i] = scheduled[i + 1]
      BY <1>3, HeadTailProperties
    <3>3. Len(scheduled') \in 1..Len(scheduled') /\ Len(scheduled') + 1 = Len(scheduled)
      BY <1>4, <3>1
    <3>4. scheduled'[Len(scheduled')] = scheduled[Len(scheduled)]
      BY <3>2, <3>3
    <3>5. scheduled' # <<>>
      BY <3>3
    <3> QED BY <1>3, <3>4, <3>5 DEF Latest
  <2> QED BY <2>1, <2>2
<1>7. StationInv'
  BY <1>3, <1>6 DEF IInv, StationInv
<1>8. Holds'
  BY <1>1, <1>2 DEF Holds, Distinct
<1>9. WalkSound'
  <2>1. \A k \in DOMAIN callbacks' : ~Passed(k)'
    BY <1>1, <1>2 DEF TypeOK, Passed
  <2> QED BY <1>2, <2>1 DEF WalkSound
<1> QED BY <1>2, <1>5, <1>7, <1>8, <1>9, HoldsLemma DEF IInv, WalkInv

(* The walk goes on to the next entry that listens; who stayed is not among*)
(* those it steps over.                                                    *)
LEMMA EventCallStep == IInv /\ EventCall => IInv'
<1> SUFFICES ASSUME IInv, EventCall PROVE IInv'
  OBVIOUS
<1>1. TypeOK /\ Holds /\ WalkSound
  BY HoldsLemma DEF IInv, WalkInv, EventCall
<1>2. /\ pos # 0 /\ running = None /\ pos' = Min(Listening)
      /\ running' = callbacks[pos'].ptr /\ called' = called \cup {running'}
      /\ UNCHANGED <<stationVars, callbacks, event, wanted, stayed>>
  BY DEF EventCall
<1>3. /\ pos' \in Listening /\ \A y \in Listening : pos' <= y
  <2>1. Listening \in SUBSET Nat /\ Listening # {}
    BY <1>1 DEF EventCall, Listening, TypeOK
  <2> QED BY <1>2, <2>1, MinLemma
<1>4. /\ pos' \in Nat /\ pos' # 0 /\ pos <= pos' /\ pos \in Nat
      /\ pos' \in DOMAIN callbacks /\ event \in callbacks[pos'].events
  BY <1>1, <1>2, <1>3 DEF Listening, TypeOK
<1>5. running' \in Callbacks /\ running' # None
  BY <1>1, <1>2, <1>4, EntriesLemma, CallbacksAssumption DEF TypeOK
<1>6. TypeOK'
  BY <1>1, <1>2, <1>4, <1>5 DEF TypeOK, stationVars
<1>7. Holds'
  BY <1>1, <1>2, <1>4 DEF Holds, Distinct
<1>8. ASSUME NEW k \in DOMAIN callbacks
      PROVE  IF Passed(k)' THEN callbacks[k].ptr \in stayed => callbacks[k].ptr \in called'
                           ELSE callbacks[k].ptr \notin called'
  <2>1. k \in 1..Len(callbacks) /\ Len(callbacks) \in Nat
    BY <1>1 DEF TypeOK
  <2>2. CASE k < pos
    BY <1>1, <1>2, <1>4, <2>1, <2>2 DEF WalkSound, Passed
  <2>3. CASE pos <= k /\ k < pos'
    <3>1. Passed(k)'
      BY <2>3 DEF Passed
    <3>2. event \notin callbacks[k].events
      BY <1>1, <1>3, <1>4, <2>1, <2>3 DEF Listening
    <3>3. callbacks[k].ptr \notin stayed
      BY <1>1, <3>2 DEF Holds, WalkSound
    <3> QED BY <3>1, <3>3
  <2>4. CASE k = pos'
    BY <1>2, <1>5, <2>4 DEF Passed
  <2>5. CASE pos' < k
    <3>1. ~Passed(k)' /\ ~Passed(k)
      BY <1>2, <1>4, <2>1, <2>5 DEF Passed
    <3>2. callbacks[k].ptr # callbacks[pos'].ptr
      BY <1>1, <1>4, <2>1, <2>5 DEF Holds, Distinct
    <3> QED BY <1>1, <1>2, <3>1, <3>2 DEF WalkSound
  <2> QED BY <1>4, <2>1, <2>2, <2>3, <2>4, <2>5
<1>9. WalkSound'
  BY <1>1, <1>2, <1>8 DEF WalkSound
<1> QED BY <1>2, <1>4, <1>6, <1>7, <1>9, HoldsLemma, SameStation DEF IInv, WalkInv

LEMMA EventReturnStep == IInv /\ EventReturn => IInv'
<1> SUFFICES ASSUME IInv, EventReturn PROVE IInv'
  OBVIOUS
<1>1. TypeOK /\ Holds /\ WalkSound /\ pos # 0 /\ pos \in Nat
  BY HoldsLemma DEF IInv, WalkInv, EventReturn, TypeOK
<1>2. /\ running # None /\ running' = None /\ pos' = pos + 1
      /\ UNCHANGED <<stationVars, callbacks, event, wanted, stayed, called>>
  BY DEF EventReturn
<1>3. \A k \in DOMAIN callbacks : Passed(k)' <=> Passed(k)
  <2>1. DOMAIN callbacks \subseteq Nat
    BY <1>1 DEF TypeOK
  <2> QED BY <1>1, <1>2, <2>1 DEF Passed
<1>4. TypeOK'
  BY <1>1, <1>2 DEF TypeOK, stationVars
<1>5. Holds'
  BY <1>1, <1>2 DEF Holds, Distinct
<1>6. WalkSound'
  BY <1>1, <1>2, <1>3 DEF WalkSound
<1> QED BY <1>1, <1>2, <1>4, <1>5, <1>6, HoldsLemma, SameStation DEF IInv, WalkInv

(* std::remove_if keeps every entry that somebody wants, once.             *)
LEMMA EventDoneStep == IInv /\ EventDone => IInv'
<1> SUFFICES ASSUME IInv, EventDone PROVE IInv'
  OBVIOUS
<1> DEFINE n == Cardinality(Left)
<1>1. TypeOK /\ Holds /\ callbacks \in Seq(Entries)
  BY HoldsLemma DEF IInv, WalkInv, TypeOK, Entries
<1>2. PICK q \in Bijection(1..n, Left) : callbacks' = [m \in DOMAIN q |-> callbacks[q[m]]]
  BY DEF EventDone
<1>3. Left \subseteq DOMAIN callbacks /\ n \in Nat
  <2>1. DOMAIN callbacks = 1..Len(callbacks) /\ Len(callbacks) \in Nat
    BY <1>1
  <2>2. IsFiniteSet(DOMAIN callbacks)
    BY <2>1, FS_Interval
  <2>3. Left \in SUBSET DOMAIN callbacks
    BY DEF Left
  <2> QED BY <2>2, <2>3, FS_Subset, FS_CardinalityType
<1> HIDE DEF n
<1>4. /\ q \in [1..n -> Left]
      /\ \A k, m \in 1..n : q[k] = q[m] => k = m
      /\ \A k \in Left : \E m \in 1..n : q[m] = k
  BY DEF Bijection, Injection, Surjection, IsInjective
<1>5. /\ pos' = 0 /\ running = None
      /\ UNCHANGED <<stationVars, event, running, wanted, stayed, called>>
  BY DEF EventDone
<1>6. /\ callbacks' \in Seq(Entries) /\ DOMAIN callbacks' = 1..n
      /\ \A m \in 1..n : q[m] \in Left /\ callbacks'[m] = callbacks[q[m]]
  <2>1. \A k \in DOMAIN callbacks : callbacks[k] \in Entries
    BY <1>1, ElementOfSeq
  <2>2. callbacks' \in [1..n -> Entries]
    BY <1>2, <1>3, <1>4, <2>1
  <2> QED BY <1>2, <1>3, <1>4, <2>2, SeqDef
<1>7. TypeOK'
  BY <1>1, <1>5, <1>6 DEF TypeOK, Entries, stationVars
<1>8. Holds'
  <2>1. Distinct'
    BY <1>1, <1>3, <1>4, <1>6 DEF Holds, Distinct
  <2>2. ASSUME NEW c \in Callbacks, wanted[c] # {}
        PROVE  \E m \in 1..n : callbacks'[m].ptr = c
    <3>1. PICK k \in DOMAIN callbacks : callbacks[k].ptr = c
      BY <1>1, <2>2 DEF Holds
    <3>2. k \in Left
      BY <1>1, <2>2, <3>1 DEF Holds, Left
    <3> QED BY <1>4, <1>6, <3>1, <3>2
  <2>3. \A m \in 1..n : /\ callbacks'[m].events = wanted[callbacks'[m].ptr]
                        /\ callbacks'[m].events # {}
    BY <1>1, <1>6 DEF Holds, Left
  <2> QED BY <1>5, <1>6, <2>1, <2>2, <2>3 DEF Holds
<1> QED BY <1>5, <1>7, <1>8, HoldsLemma, SameStation DEF IInv, WalkInv

LEMMA NextStep == IInv /\ [Next]_vars => IInv'
<1> SUFFICES ASSUME IInv, [Next]_vars PROVE IInv'
  OBVIOUS
<1>1. ASSUME NEW c \in Callbacks, NEW E \in (SUBSET Events) \ {{}}, Add(c, E) \/ Remove1(c, E)
      PROVE  IInv'
  <2>1. E \in SUBSET Events /\ E # {}
    OBVIOUS
  <2>2. CASE Add(c, E) /\ Entry(c) # {}
    BY <2>1, <2>2, AddEventsStep
  <2>3. CASE Add(c, E) /\ Entry(c) = {}
    BY <2>1, <2>3, AddEntryStep
  <2>4. CASE Remove1(c, E)
    BY <2>1, <2>4, RemoveStep
  <2> QED BY <1>1, <2>2, <2>3, <2>4
<1>2. CASE UNCHANGED vars
  <2>1. Holds'
    BY <1>2, HoldsLemma DEF IInv, WalkInv, Holds, Distinct, vars, callbackVars
  <2> QED BY <1>2, <2>1, HoldsLemma, SameStation
          DEF IInv, WalkInv, TypeOK, WalkSound, Passed, vars, callbackVars, stationVars
<1> QED BY <1>1, <1>2, StationStep, ClearStep, EventStartStep, EventCallStep,
           EventReturnStep, EventDoneStep DEF Next

LEMMA Invariant == Spec => []IInv
  BY InitStep, NextStep, PTL DEF Spec

-----------------------------------------------------------------------------
(* The variables of WiFiCallbacks never leave their types.                 *)
THEOREM TypeCorrect == Spec => []TypeOK
<1>1. IInv => TypeOK
  BY DEF IInv
<1> QED BY <1>1, Invariant, PTL

(* WiFiCallbacks::add and remove, whenever they are called, and the erasing*)
(* at the end of callEvent(): every callback that wants events has one     *)
(* entry with these events, and outside callEvent() nobody else has.       *)
THEOREM VectorIsSound == Spec => []VectorSound
<1>1. IInv => VectorSound
  BY DEF IInv, WalkInv
<1> QED BY <1>1, Invariant, PTL

(* The SDK handlers of kfc_fw_config.cpp: when all events are passed on,   *)
(* subscribers believe the station is online exactly while it is.          *)
THEOREM SubscribersAreInformed == Spec => []Informed
<1>1. IInv => Informed
  BY DEF IInv, StationInv, Latest, Informed
<1> QED BY <1>1, Invariant, PTL

(* callEvent() is a round of Listeners: whatever the callbacks it runs add *)
(* and remove, it tells all that stay, none twice, and none that has left. *)
THEOREM EventsAreRounds == Spec => EventIsARound
<1>1. Init => Telling!Init
  BY DEF Init, Telling!Init, Hearing
<1>2. IInv /\ IInv' /\ [Next]_vars => [Telling!Next]_Telling!vars
  <2> SUFFICES ASSUME IInv, IInv', [Next]_vars
               PROVE  Telling!Next \/ Telling!vars' = Telling!vars
    OBVIOUS
  <2>1. /\ TypeOK /\ Holds /\ TypeOK' /\ Holds'
        /\ running # None => pos # 0
        /\ pos # 0 => WalkSound
    BY HoldsLemma DEF IInv, WalkInv
  <2>2. /\ Hearing = {c \in Callbacks : event \in wanted[c]}
        /\ Hearing' = {c \in Callbacks : event' \in wanted'[c]}
    BY <2>1, HearingLemma
  <2>3. Hearing' \subseteq Callbacks /\ (pos # 0 => stayed \subseteq Hearing)
    BY <2>1, <2>2 DEF TypeOK, WalkSound
  <2>4. ASSUME UserCode, UNCHANGED <<pos, running, called>>,
               pos # 0 => stayed' = stayed \cap Hearing'
        PROVE  Telling!Change
    BY <2>1, <2>3, <2>4 DEF UserCode, Telling!Change
  <2>5. CASE StationNext /\ UNCHANGED callbackVars
    BY <2>2, <2>5 DEF callbackVars, Telling!vars
  <2>6. ASSUME NEW c \in Callbacks, NEW E \in SUBSET Events, Add(c, E) PROVE Telling!Change
    <3>1. /\ UserCode /\ UNCHANGED <<pos, running, called, stayed, event>>
          /\ wanted' = [wanted EXCEPT ![c] = @ \cup E]
      BY <2>6 DEF Add
    <3>2. Hearing \subseteq Hearing'
      BY <2>1, <2>2, <3>1 DEF TypeOK
    <3> QED BY <2>3, <2>4, <3>1, <3>2
  <2>7. ASSUME NEW c \in Callbacks, NEW E \in SUBSET Events, Remove1(c, E) PROVE Telling!Change
    <3>1. /\ UserCode /\ UNCHANGED <<pos, running, called, event>>
          /\ wanted' = [wanted EXCEPT ![c] = @ \ E]
          /\ stayed' = IF event \in E THEN stayed \ {c} ELSE stayed
      BY <2>7 DEF Remove1
    <3>2. Hearing' = IF event \in E THEN Hearing \ {c} ELSE Hearing
      BY <2>1, <2>2, <3>1 DEF TypeOK
    <3> QED BY <2>3, <2>4, <3>1, <3>2
  <2>8. CASE Clear
    <3>1. Telling!Change
      BY <2>1, <2>4, <2>8 DEF Clear, UserCode
    <3> QED BY <3>1 DEF Telling!Next
  <2>9. CASE EventStart
    <3>1. /\ pos = 0 /\ pos' = 1 /\ running' = running /\ called' = {}
          /\ stayed' = Hearing'
      BY <2>2, <2>9 DEF EventStart
    <3>2. Telling!Start
      BY <2>3, <3>1 DEF Telling!Start
    <3> QED BY <3>2 DEF Telling!Next, Telling!Round
  <2>10. CASE EventCall
    <3>1. /\ pos # 0 /\ running = None /\ pos' = Min(Listening)
          /\ running' = callbacks[pos'].ptr /\ called' = called \cup {running'}
          /\ UNCHANGED <<callbacks, event, wanted, stayed>>
      BY <2>10 DEF EventCall
    <3>2. pos' \in Listening
      <4>1. Listening \in SUBSET Nat /\ Listening # {}
        BY <2>1, <2>10 DEF EventCall, Listening, TypeOK
      <4> QED BY <3>1, <4>1, MinLemma
    <3>3. /\ pos' # 0 /\ pos' \in DOMAIN callbacks /\ event \in callbacks[pos'].events
          /\ ~Passed(pos')
      BY <2>1, <3>1, <3>2 DEF Listening, TypeOK, Passed
    <3>4. running' \notin called /\ running' \in Callbacks
      BY <2>1, <3>1, <3>3, EntriesLemma DEF WalkSound, TypeOK
    <3>5. event \in wanted[running']
      BY <2>1, <3>1, <3>3 DEF Holds
    <3>6. Telling!Call(running')
      BY <2>2, <3>1, <3>3, <3>4, <3>5 DEF Telling!Call
    <3> QED BY <3>4, <3>6 DEF Telling!Next, Telling!Round
  <2>11. CASE EventReturn
    <3>1. Telling!Return
      BY <2>1, <2>2, <2>11 DEF EventReturn, TypeOK, Telling!Return
    <3> QED BY <3>1 DEF Telling!Next, Telling!Round
  <2>12. CASE EventDone
    <3>1. /\ pos # 0 /\ running = None /\ Listening = {} /\ pos' = 0
          /\ UNCHANGED <<event, running, wanted, stayed, called>>
      BY <2>12 DEF EventDone
    <3>2. ASSUME NEW c \in stayed PROVE c \in called
      <4>1. PICK k \in DOMAIN callbacks : callbacks[k].ptr = c
        BY <2>1, <3>1 DEF Holds, WalkSound, TypeOK
      <4>2. event \in callbacks[k].events
        BY <2>1, <3>1, <4>1 DEF Holds, WalkSound
      <4>3. k \in 1..Len(callbacks) /\ Len(callbacks) \in Nat /\ pos \in Nat
        BY <2>1 DEF TypeOK
      <4>4. Passed(k)
        BY <3>1, <4>2, <4>3 DEF Listening, Passed
      <4> QED BY <2>1, <3>1, <4>1, <4>4 DEF WalkSound
    <3>3. Telling!End
      BY <2>2, <3>1, <3>2 DEF Telling!End
    <3> QED BY <3>3 DEF Telling!Next, Telling!Round
  <2>13. CASE UNCHANGED vars
    BY <2>2, <2>13 DEF vars, callbackVars, Telling!vars
  <2> QED BY <2>5, <2>6, <2>7, <2>8, <2>9, <2>10, <2>11, <2>12, <2>13
      DEF Next, Telling!Next
<1> QED BY <1>1, <1>2, Invariant, PTL DEF Spec, Telling!Spec, EventIsARound
=============================================================================
