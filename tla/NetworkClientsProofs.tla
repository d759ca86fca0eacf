------------------------ MODULE NetworkClientsProofs ------------------------
(***************************************************************************)
(* Theorems about the two clients of the network, MqttClient and Syslog:   *)
(* for all sets of components, topics and subscriptions, all destinations  *)
(* of log lines, and all bounds on queues, backoff, messages, failures.    *)
(***************************************************************************)
EXTENDS MqttClient, Syslog, SequenceTheorems, FiniteSetTheorems, NaturalsInduction,
        WellFoundedInduction, TLAPS

-----------------------------------------------------------------------------
(* Numbers.  A set of numbers that is not empty has a least element.       *)
LEMMA MinLemma ==
    ASSUME NEW T \in SUBSET Nat, T # {}
    PROVE  Min(T) \in T /\ \A y \in T : Min(T) <= y
<1>1. \E x \in T : \A y \in T : <<y, x>> \notin OpToRel(<, Nat)
  BY NatLessThanWellFounded, WFMin
<1>2. PICK x \in T : \A y \in T : <<y, x>> \notin OpToRel(<, Nat)
  BY <1>1
<1>3. ASSUME NEW y \in T PROVE x <= y
  <2>1. <<y, x>> \in Nat \X Nat /\ <<y, x>>[1] = y /\ <<y, x>>[2] = x
    OBVIOUS
  <2>2. ~(y < x)
    BY <1>2, <2>1, Zenon DEF OpToRel
  <2> QED BY <2>2
<1> QED BY <1>2, <1>3 DEF Min

(* What is true of 0 and of the successor of each number it is true of.    *)
LEMMA InductionLemma ==
    ASSUME NEW f, NEW T, NEW n \in Nat,
           f[0] \in T, \A i \in 1..n : f[i - 1] \in T => f[i] \in T
    PROVE  \A i \in 0..n : f[i] \in T
<1> DEFINE D == {i \in 0..n : f[i] \notin T}
<1> SUFFICES ASSUME D # {} PROVE FALSE
  OBVIOUS
<1>1. D \in SUBSET Nat
  OBVIOUS
<1>2. Min(D) \in D /\ \A y \in D : Min(D) <= y
  BY <1>1, MinLemma
<1>3. Min(D) \in 1..n
  BY <1>2
<1>4. Min(D) - 1 \in 0..n /\ ~(Min(D) <= Min(D) - 1)
  BY <1>3
<1>5. f[Min(D) - 1] \in T
  BY <1>2, <1>4
<1> QED BY <1>2, <1>3, <1>5

(* A function can be defined by recursion.                                 *)
Solves(g, m, zero, Step) == g[0] = zero /\ \A i \in 1..m : g[i] = Step[i][g[i - 1]]

LEMMA RecursionLemma ==
    ASSUME NEW T, NEW zero \in T, NEW n \in Nat, NEW Step \in [1..n -> [T -> T]]
    PROVE  \E g \in [0..n -> T] : Solves(g, n, zero, Step)
<1> DEFINE f == [m \in 0..n |-> IF \E g \in [0..m -> T] : Solves(g, m, zero, Step)
                                THEN 1 ELSE 0]
<1>1. f[0] \in {1}
  <2> DEFINE g == [m \in 0..0 |-> zero]
  <2>1. g \in [0..0 -> T] /\ g[0] = zero /\ 1..0 = {}
    OBVIOUS
  <2> HIDE DEF g
  <2>2. \E h \in [0..0 -> T] : Solves(h, 0, zero, Step)
    BY <2>1 DEF Solves
  <2>3. 0 \in 0..n
    OBVIOUS
  <2> QED BY <2>2, <2>3
<1>2. ASSUME NEW i \in 1..n, f[i - 1] \in {1}
      PROVE  f[i] \in {1}
  <2>1. i - 1 \in 0..n /\ i \in 0..n
    OBVIOUS
  <2>2. PICK g \in [0..(i - 1) -> T] : Solves(g, i - 1, zero, Step)
    BY <1>2, <2>1
  <2> DEFINE h == [m \in 0..i |-> IF m = i THEN Step[i][g[i - 1]] ELSE g[m]]
  <2>3. g[i - 1] \in T /\ Step[i][g[i - 1]] \in T
    <3>1. i - 1 \in 0..(i - 1)
      OBVIOUS
    <3>2. g[i - 1] \in T
      BY <3>1
    <3>3. Step[i] \in [T -> T]
      OBVIOUS
    <3> QED BY <3>2, <3>3
  <2>4. ASSUME NEW m \in 0..i, m # i
        PROVE  m \in 0..(i - 1) /\ g[m] \in T
    <3>1. m \in 0..(i - 1)
      BY <2>4
    <3> QED BY <3>1
  <2>5. h \in [0..i -> T]
    BY <2>3, <2>4
  <2>6. h[0] = zero
    <3>1. 0 \in 0..i /\ 0 # i
      OBVIOUS
    <3>2. h[0] = g[0]
      BY <3>1
    <3> QED BY <2>2, <3>2 DEF Solves
  <2>7. ASSUME NEW j \in 1..i PROVE h[j] = Step[j][h[j - 1]]
    <3>1. j - 1 \in 0..i /\ j - 1 # i /\ j \in 0..i
      OBVIOUS
    <3>2. h[j - 1] = g[j - 1]
      BY <3>1
    <3>3. CASE j = i
      BY <3>1, <3>2, <3>3
    <3>4. CASE j # i
      <4>1. j \in 1..(i - 1)
        BY <3>4
      <4>2. g[j] = Step[j][g[j - 1]]
        BY <2>2, <4>1 DEF Solves
      <4> QED BY <3>1, <3>2, <3>4, <4>2
    <3> QED BY <3>3, <3>4
  <2> HIDE DEF h
  <2>8. \E g2 \in [0..i -> T] : Solves(g2, i, zero, Step)
    BY <2>5, <2>6, <2>7 DEF Solves
  <2> QED BY <2>1, <2>8
<1> HIDE DEF f
<1>3. \A i \in 0..n : f[i] \in {1}
  BY <1>1, <1>2, InductionLemma
<1>4. f[n] = 1 /\ n \in 0..n
  BY <1>3
<1> QED BY <1>4 DEF f

(* RemoveAt takes out one element and keeps the others in order.           *)
LEMMA RemoveAtLemma ==
    ASSUME NEW S, NEW s \in Seq(S), NEW k \in 1..Len(s)
    PROVE  /\ RemoveAt(s, k) \in Seq(S)
           /\ Len(RemoveAt(s, k)) = Len(s) - 1
           /\ \A i \in 1..(Len(s) - 1) :
                 RemoveAt(s, k)[i] = IF i < k THEN s[i] ELSE s[i + 1]
<1> DEFINE a == SubSeq(s, 1, k - 1)
           b == SubSeq(s, k + 1, Len(s))
<1>1. /\ a \in Seq(S) /\ Len(a) = k - 1
      /\ \A i \in 1..(k - 1) : a[i] = s[i]
  OBVIOUS
<1>2. /\ b \in Seq(S) /\ Len(b) = Len(s) - k
      /\ \A i \in 1..(Len(s) - k) : b[i] = s[k + i]
  <2>1. CASE k = Len(s)
    BY <2>1
  <2>2. CASE k < Len(s)
    BY <2>2, SubSeqProperties
  <2> QED BY <2>1, <2>2
<1> HIDE DEF a, b
<1>3. /\ a \o b \in Seq(S) /\ Len(a \o b) = Len(s) - 1
      /\ \A i \in 1..(Len(s) - 1) : (a \o b)[i] = IF i <= k - 1 THEN a[i] ELSE b[i - (k - 1)]
  BY <1>1, <1>2, ConcatProperties
<1>4. ASSUME NEW i \in 1..(Len(s) - 1)
      PROVE  (a \o b)[i] = IF i < k THEN s[i] ELSE s[i + 1]
  <2>1. CASE i < k
    BY <1>1, <1>3, <2>1
  <2>2. CASE ~(i < k)
    <3>1. i - (k - 1) \in 1..(Len(s) - k) /\ k + (i - (k - 1)) = i + 1
      BY <2>2
    <3> QED BY <1>2, <1>3, <2>2, <3>1
  <2> QED BY <2>1, <2>2
<1> QED BY <1>3, <1>4 DEF RemoveAt, a, b

-----------------------------------------------------------------------------
(***************************************************************************)
(* MqttClient: the inductive invariant, in the parts that share variables. *)
(*                                                                         *)
(* The station is online only after it has scheduled the event that says   *)
(* so: a "disconnected" is never the last that waits.                      *)
(***************************************************************************)
StationInv ==
    /\ link \in {"down", "associated", "ip"}
    /\ wifiConnected \in BOOLEAN
    /\ scheduled \in Seq(Events)
    /\ link = "ip" /\ scheduled # <<>> => scheduled[Len(scheduled)] = "connected"

(* A connection that is not up has no topics and no half of a message; the *)
(* packets of a message are counted from 1.                                *)
SessionInv ==
    /\ OfThisSession
    /\ conn # "up" => arriving = NoMessage
    /\ arriving = NoMessage \/ arriving.index \in 1..(arriving.total - 1)

(* Who is in the queue has not left, or left while in the queue.           *)
QueueOwned ==
    \A m \in Subscribed(ToSet(queue)) : m.component \in ToSet(components) \cup ghosts

OwnedInv == TopicsOwned /\ QueueOwned

IInv ==
    /\ TypeOK
    /\ StationInv
    /\ OneWayBack
    /\ SessionInv
    /\ SubscribedOrQueued
    /\ OwnedInv

-----------------------------------------------------------------------------
(* vector::erase of the element found first: a vector of distinct elements *)
(* loses exactly that element.                                             *)
LEMMA EraseLemma ==
    ASSUME NEW S, NEW s \in Seq(S), IsInjective(s), NEW e
    PROVE  /\ RemoveFirst(s, e) \in Seq(S)
           /\ IsInjective(RemoveFirst(s, e))
           /\ ToSet(RemoveFirst(s, e)) = ToSet(s) \ {e}
<1>1. CASE \A i \in 1..Len(s) : s[i] # e
  <2>1. RemoveFirst(s, e) = s
    BY <1>1 DEF RemoveFirst
  <2>2. e \notin ToSet(s)
    BY <1>1 DEF ToSet
  <2> QED BY <2>1, <2>2
<1>2. CASE \E i \in 1..Len(s) : s[i] = e
  <2>1. PICK k \in 1..Len(s) : s[k] = e
    BY <1>2
  <2>2. {i \in 1..Len(s) : s[i] = e} = {k}
    BY <2>1 DEF IsInjective
  <2>3. Min({k}) = k
    BY DEF Min
  <2>4. RemoveFirst(s, e) = RemoveAt(s, k)
    BY <1>2, <2>2, <2>3 DEF RemoveFirst, SelectInSeq
  <2>5. IsInjective(RemoveAt(s, k))
    <3> DEFINE r == RemoveAt(s, k)
    <3>1. /\ r \in Seq(S) /\ Len(r) = Len(s) - 1
          /\ \A i \in 1..(Len(s) - 1) : r[i] = IF i < k THEN s[i] ELSE s[i + 1]
      BY RemoveAtLemma
    <3> HIDE DEF r
    <3>2. ASSUME NEW i \in 1..(Len(s) - 1), NEW j \in 1..(Len(s) - 1), r[i] = r[j]
          PROVE  i = j
      <4>1. \A m, n \in 1..Len(s) : s[m] = s[n] => m = n
        BY DEF IsInjective
      <4>2. PICK m \in 1..Len(s) : r[i] = s[m] /\ m = IF i < k THEN i ELSE i + 1
        BY <3>1
      <4>3. PICK n \in 1..Len(s) : r[j] = s[n] /\ n = IF j < k THEN j ELSE j + 1
        BY <3>1
      <4>4. m = n
        BY <3>2, <4>1, <4>2, <4>3
      <4> QED BY <4>2, <4>3, <4>4
    <3>3. DOMAIN r = 1..(Len(s) - 1)
      BY <3>1
    <3>4. IsInjective(r)
      BY <3>2, <3>3 DEF IsInjective
    <3> QED BY <3>4 DEF r
  <2>6. ToSet(RemoveAt(s, k)) = ToSet(s) \ {e}
    <3> DEFINE r == RemoveAt(s, k)
    <3>1. /\ r \in Seq(S) /\ Len(r) = Len(s) - 1
          /\ \A i \in 1..(Len(s) - 1) : r[i] = IF i < k THEN s[i] ELSE s[i + 1]
      BY RemoveAtLemma
    <3> HIDE DEF r
    <3>2. ASSUME NEW i \in DOMAIN r PROVE r[i] \in ToSet(s) \ {e}
      <4>1. PICK j \in 1..Len(s) : j # k /\ r[i] = s[j]
        <5>1. i \in 1..(Len(s) - 1) /\ i \in 1..Len(s) /\ i + 1 \in 1..Len(s)
          BY <3>1
        <5>2. CASE i < k
          BY <3>1, <5>1, <5>2
        <5>3. CASE ~(i < k)
          BY <3>1, <5>1, <5>3
        <5> QED BY <5>2, <5>3
      <4>2. s[j] # s[k]
        BY <4>1 DEF IsInjective
      <4> QED BY <2>1, <4>1, <4>2 DEF ToSet
    <3>3. ASSUME NEW i \in DOMAIN s, s[i] # e PROVE s[i] \in ToSet(r)
      <4>1. CASE i < k
        BY <3>1, <3>3, <4>1 DEF ToSet
      <4>2. CASE i > k
        <5>1. i - 1 \in 1..(Len(s) - 1) /\ ~(i - 1 < k) /\ (i - 1) + 1 = i
          BY <4>2
        <5>2. i - 1 \in DOMAIN r /\ r[i - 1] = s[i]
          BY <3>1, <5>1
        <5> QED BY <5>2 DEF ToSet
      <4> QED BY <2>1, <3>3, <4>1, <4>2
    <3> QED BY <3>2, <3>3 DEF ToSet, r
  <2> QED BY <2>4, <2>5, <2>6, RemoveAtLemma
<1> QED BY <1>1, <1>2

(* push_back of an element that is not in the vector keeps it distinct.    *)
LEMMA AppendLemma ==
    ASSUME NEW S, NEW s \in Seq(S), IsInjective(s), NEW e \in S, e \notin ToSet(s)
    PROVE  /\ Append(s, e) \in Seq(S)
           /\ IsInjective(Append(s, e))
           /\ ToSet(Append(s, e)) = ToSet(s) \cup {e}
<1>1. /\ Len(Append(s, e)) = Len(s) + 1
      /\ \A i \in 1..Len(s) : Append(s, e)[i] = s[i]
      /\ Append(s, e)[Len(s) + 1] = e
  OBVIOUS
<1>2. IsInjective(Append(s, e))
  BY <1>1 DEF IsInjective, ToSet
<1>3. ToSet(Append(s, e)) = ToSet(s) \cup {e}
  BY <1>1 DEF ToSet
<1> QED BY <1>2, <1>3

(* What is appended is in the sequence, and nothing else is new.           *)
LEMMA AppendRange ==
    ASSUME NEW S, NEW s \in Seq(S), NEW e \in S
    PROVE  /\ Append(s, e) \in Seq(S)
           /\ ToSet(Append(s, e)) = ToSet(s) \cup {e}
<1>1. /\ Len(Append(s, e)) = Len(s) + 1
      /\ \A i \in 1..Len(s) : Append(s, e)[i] = s[i]
      /\ Append(s, e)[Len(s) + 1] = e
  OBVIOUS
<1>2. ToSet(Append(s, e)) = ToSet(s) \cup {e}
  BY <1>1 DEF ToSet
<1> QED BY <1>2

(* Each element of a sequence that is cut in two is in one of the parts.   *)
LEMMA SplitLemma ==
    ASSUME NEW S, NEW s \in Seq(S), NEW k \in 0..Len(s)
    PROVE  /\ SubSeq(s, 1, k) \in Seq(S)
           /\ SubSeq(s, k + 1, Len(s)) \in Seq(S)
           /\ ToSet(s) = ToSet(SubSeq(s, 1, k)) \cup ToSet(SubSeq(s, k + 1, Len(s)))
           /\ k = 0 => ToSet(SubSeq(s, 1, k)) = {} /\ SubSeq(s, k + 1, Len(s)) = s
<1> DEFINE a == SubSeq(s, 1, k)
           b == SubSeq(s, k + 1, Len(s))
<1>1. /\ a \in Seq(S) /\ Len(a) = k
      /\ \A i \in 1..k : a[i] = s[i]
  OBVIOUS
<1>2. /\ b \in Seq(S) /\ Len(b) = Len(s) - k
      /\ \A i \in 1..(Len(s) - k) : b[i] = s[k + i]
  <2>1. CASE k = Len(s)
    BY <2>1
  <2>2. CASE k < Len(s)
    BY <2>2, SubSeqProperties
  <2> QED BY <2>1, <2>2
<1>3. k = 0 => b = s
  OBVIOUS
<1> HIDE DEF a, b
<1>4. ToSet(a) \subseteq ToSet(s) /\ ToSet(b) \subseteq ToSet(s)
  <2>1. ASSUME NEW i \in DOMAIN b PROVE b[i] \in ToSet(s)
    <3>1. i \in 1..(Len(s) - k) /\ k + i \in 1..Len(s)
      BY <1>2
    <3> QED BY <1>2, <3>1 DEF ToSet
  <2> QED BY <1>1, <2>1 DEF ToSet
<1>5. ASSUME NEW i \in DOMAIN s PROVE s[i] \in ToSet(a) \cup ToSet(b)
  <2>1. CASE i <= k
    BY <1>1, <2>1 DEF ToSet
  <2>2. CASE i > k
    <3>1. i - k \in 1..(Len(s) - k) /\ k + (i - k) = i
      BY <2>2
    <3> QED BY <1>2, <3>1 DEF ToSet
  <2> QED BY <2>1, <2>2
<1>6. ToSet(s) = ToSet(a) \cup ToSet(b)
  BY <1>4, <1>5 DEF ToSet
<1>7. k = 0 => ToSet(a) = {}
  BY <1>1 DEF ToSet
<1> QED BY <1>1, <1>2, <1>3, <1>6, <1>7 DEF a, b

-----------------------------------------------------------------------------
(* A slot is the status, or a topic of a registered component; there are   *)
(* finitely many.                                                          *)
LEMMA SlotsLemma ==
    ASSUME components \in Seq(Components)
    PROVE  /\ IsFiniteSet(Slots)
           /\ \A slot \in Slots :
                 \/ slot = <<0, 1>>
                 \/ /\ slot[1] \in 1..Len(components)
                    /\ slot[2] \in DOMAIN Subscriptions[components[slot[1]]]
           /\ \A i \in 1..Len(components) :
                 \A j \in DOMAIN Subscriptions[components[i]] : <<i, j>> \in Slots
<1> DEFINE Part == [i \in 1..Len(components) |-> {i} \X DOMAIN Subscriptions[components[i]]]
           Parts == {{i} \X DOMAIN Subscriptions[components[i]] : i \in DOMAIN components}
<1>1. DOMAIN components = 1..Len(components) /\ Len(components) \in Nat
  OBVIOUS
<1>2. ASSUME NEW i \in 1..Len(components)
      PROVE  IsFiniteSet({i} \X DOMAIN Subscriptions[components[i]])
  <2>1. components[i] \in Components
    BY ElementOfSeq
  <2>2. Subscriptions[components[i]] \in Seq(Topics)
    BY <2>1, MqttAssumption
  <2>3. /\ Len(Subscriptions[components[i]]) \in Nat
        /\ DOMAIN Subscriptions[components[i]] = 1..Len(Subscriptions[components[i]])
    BY <2>2
  <2>4. IsFiniteSet(1..Len(Subscriptions[components[i]]))
    <3>1. \A m \in Nat : IsFiniteSet(1..m)
      BY FS_Interval
    <3> QED BY <2>3, <3>1
  <2>5. IsFiniteSet(DOMAIN Subscriptions[components[i]])
    BY <2>3, <2>4
  <2> QED BY <2>5, FS_Singleton, FS_Product
<1>3. IsFiniteSet(Parts)
  <2>1. Part \in Surjection(1..Len(components), Parts)
    BY <1>1 DEF Surjection
  <2>2. IsFiniteSet(1..Len(components))
    BY <1>1, FS_Interval
  <2> HIDE DEF Part, Parts
  <2> QED BY <2>1, <2>2, FS_Surjection
<1>4. \A T \in Parts : IsFiniteSet(T)
  BY <1>1, <1>2
<1>5. IsFiniteSet(UNION Parts)
  <2> HIDE DEF Parts
  <2> QED BY <1>3, <1>4, FS_UNION
<1>6. IsFiniteSet(Slots)
  <2>1. Slots = {<<0, 1>>} \cup UNION Parts
    BY DEF Slots
  <2> HIDE DEF Parts
  <2> QED BY <1>5, <2>1, FS_Singleton, FS_Union
<1>7. ASSUME NEW slot \in Slots, slot # <<0, 1>>
      PROVE  /\ slot[1] \in 1..Len(components)
             /\ slot[2] \in DOMAIN Subscriptions[components[slot[1]]]
  <2>1. PICK i \in 1..Len(components) : slot \in {i} \X DOMAIN Subscriptions[components[i]]
    BY <1>1, <1>7 DEF Slots
  <2> QED BY <2>1
<1>8. ASSUME NEW i \in 1..Len(components), NEW j \in DOMAIN Subscriptions[components[i]]
      PROVE  <<i, j>> \in Slots
  BY <1>1 DEF Slots
<1> QED BY <1>6, <1>7, <1>8

(* What a slot holds is a message of its session.                          *)
LEMMA GreetingLemma ==
    ASSUME components \in Seq(Components), NEW s \in {0, 1}, NEW slot \in Slots
    PROVE  /\ Greeting(slot, s) \in Messages
           /\ Greeting(slot, s).session = s
           /\ Greeting(slot, s).type = "subscribe" =>
                 Greeting(slot, s).component \in ToSet(components)
<1>1. CASE slot[1] = 0
  BY <1>1 DEF Greeting, Message, Messages
<1>2. CASE slot[1] # 0
  <2>1. /\ slot[1] \in 1..Len(components)
        /\ slot[2] \in DOMAIN Subscriptions[components[slot[1]]]
    BY <1>2, SlotsLemma
  <2>2. components[slot[1]] \in Components /\ components[slot[1]] \in ToSet(components)
    BY <2>1, ElementOfSeq DEF ToSet
  <2>3. Subscriptions[components[slot[1]]] \in Seq(Topics)
    BY <2>2, MqttAssumption
  <2>4. Subscriptions[components[slot[1]]][slot[2]] \in Topics
    BY <2>1, <2>3, ElementOfSeq
  <2> QED BY <1>2, <2>2, <2>4 DEF Greeting, Message, Messages
<1> QED BY <1>1, <1>2

-----------------------------------------------------------------------------
(* Where a connection ends nothing is left of its session.                 *)
LEMMA DroppedLemma ==
    ASSUME conn' # "up", topics' = {}, greeted' = {}, ghosts' = {}, broker' = {},
           arriving' = NoMessage, queue' = <<>>
    PROVE  SessionInv' /\ SubscribedOrQueued' /\ OwnedInv'
<1>1. ToSet(queue') = {}
  BY DEF ToSet
<1>2. SessionInv'
  BY MqttAssumption DEF SessionInv, OfThisSession, NoMessage
<1>3. SubscribedOrQueued'
  BY DEF SubscribedOrQueued
<1>4. OwnedInv'
  BY <1>1 DEF OwnedInv, TopicsOwned, QueueOwned, Subscribed
<1> QED BY <1>2, <1>3, <1>4

(* What is subscribed to or queued stays so.                               *)
LEMMA SameTopicsLemma ==
    ASSUME SubscribedOrQueued, topics' = topics, greeted' = greeted, queue' = queue
    PROVE  SubscribedOrQueued'
<1> DEFINE Q(c, t) == \E m \in Subscribed(ToSet(queue)) : m.component = c /\ m.topic = t
           R(c, t) == \E m \in Subscribed(ToSet(queue')) : m.component = c /\ m.topic = t
<1>1. \A c, t : R(c, t) <=> Q(c, t)
  OBVIOUS
<1>2. \A c \in greeted : \A t \in ToSet(Subscriptions[c]) : <<t, c>> \in topics \/ Q(c, t)
  BY DEF SubscribedOrQueued
<1> HIDE DEF Q, R
<1>3. \A c \in greeted' : \A t \in ToSet(Subscriptions[c]) : <<t, c>> \in topics' \/ R(c, t)
  BY <1>1, <1>2
<1> QED BY <1>3 DEF SubscribedOrQueued, R

(* Nothing changes for the session and its topics.                         *)
LEMMA SameSessionLemma ==
    ASSUME IInv, UNCHANGED <<conn, topics, greeted, ghosts, broker, arriving, queue, tries,
                             components, session, buffer>>
    PROVE  SessionInv' /\ SubscribedOrQueued' /\ OwnedInv'
<1>1. SessionInv'
  BY DEF IInv, SessionInv, OfThisSession
<1>2. SubscribedOrQueued'
  BY SameTopicsLemma DEF IInv
<1>3. OwnedInv'
  BY DEF IInv, OwnedInv, TopicsOwned, QueueOwned
<1> QED BY <1>1, <1>2, <1>3

(* onDisconnect                                                            *)
LEMMA OnDisconnectLemma ==
    ASSUME IInv, NEW t \in 0..MaxBackoff, OnDisconnect(t),
           UNCHANGED <<components, session, buffer>>
    PROVE  /\ TypeOK'
           /\ retry' => conn' = "down"
           /\ timeout' # 0 => retry'
           /\ t = 0 => timeout' = 0
           /\ SessionInv' /\ SubscribedOrQueued' /\ OwnedInv'
<1>1. timeout' \in 0..MaxBackoff
  BY MqttAssumption DEF OnDisconnect
<1>2. retry' \in BOOLEAN
  BY DEF OnDisconnect
<1>3. TypeOK'
  BY <1>1, <1>2, MqttAssumption DEF IInv, TypeOK, OnDisconnect, ClearQueue, NoMessage
<1>4. timeout' # 0 => retry'
  BY DEF OnDisconnect
<1>5. SessionInv' /\ SubscribedOrQueued' /\ OwnedInv'
  BY DroppedLemma DEF OnDisconnect, ClearQueue
<1> QED BY <1>3, <1>4, <1>5 DEF OnDisconnect

(* connect()                                                               *)
LEMMA ConnectLemma ==
    ASSUME IInv, NEW t \in 0..MaxBackoff, Connect(t),
           UNCHANGED <<components, session, buffer>>
    PROVE  /\ TypeOK'
           /\ OneWayBack'
           /\ SessionInv' /\ SubscribedOrQueued' /\ OwnedInv'
<1>1. retry' = FALSE /\ conn' = "connecting" /\ timeout' = t
  BY DEF Connect
<1>2. TypeOK'
  <2>1. retry' \in BOOLEAN
    BY <1>1
  <2>2. CASE conn = "up"
    <3>1. /\ topics' = {} /\ greeted' = {} /\ ghosts' = {} /\ broker' = {}
          /\ arriving' = NoMessage /\ queue' = <<>> /\ tries' = 0
      BY <2>2 DEF Connect, ClearQueue
    <3>2. arriving' \in [index : 0..MessageMax, total : 0..MessageMax + 1]
      BY <3>1, MqttAssumption DEF NoMessage
    <3> QED BY <1>1, <2>1, <3>1, <3>2, MqttAssumption DEF IInv, TypeOK
  <2>3. CASE conn # "up"
    BY <1>1, <2>1, <2>3 DEF IInv, TypeOK, Connect
  <2> QED BY <2>2, <2>3
<1>3. OneWayBack'
  BY <1>1 DEF OneWayBack
<1>4. SessionInv' /\ SubscribedOrQueued' /\ OwnedInv'
  <2>1. CASE conn = "up"
    BY <1>1, <2>1, DroppedLemma DEF Connect, ClearQueue
  <2>2. CASE conn # "up"
    <3>1. UNCHANGED <<topics, greeted, ghosts, broker, arriving, queue, tries>>
      BY <2>2 DEF Connect
    <3>2. SessionInv'
      BY <1>1, <2>2, <3>1 DEF IInv, SessionInv, OfThisSession
    <3>3. SubscribedOrQueued'
      <4>1. topics' = topics /\ greeted' = greeted /\ queue' = queue
        BY <3>1 DEF Connect
      <4> QED BY <4>1, SameTopicsLemma DEF IInv
    <3>4. OwnedInv'
      BY <3>1 DEF IInv, OwnedInv, TopicsOwned, QueueOwned
    <3> QED BY <3>2, <3>3, <3>4
  <2> QED BY <2>1, <2>2
<1> QED BY <1>2, <1>3, <1>4

(* disconnect(true)                                                        *)
LEMMA ForceDisconnectLemma ==
    ASSUME IInv, ForceDisconnect, UNCHANGED <<components, session, buffer>>
    PROVE  /\ TypeOK'
           /\ OneWayBack'
           /\ SessionInv' /\ SubscribedOrQueued' /\ OwnedInv'
<1>1. CASE conn = "up"
  <2>1. 0 \in 0..MaxBackoff
    BY MqttAssumption
  <2>2. OnDisconnect(0)
    BY <1>1 DEF ForceDisconnect
  <2>3. OneWayBack'
    BY <2>1, <2>2, OnDisconnectLemma DEF OneWayBack
  <2> QED BY <2>1, <2>2, <2>3, OnDisconnectLemma
<1>2. CASE conn # "up"
  <2>1. /\ timeout' = 0
        /\ UNCHANGED <<conn, retry, topics, greeted, ghosts, broker, arriving, queue, tries>>
    BY <1>2 DEF ForceDisconnect
  <2>2. TypeOK'
    BY <2>1, MqttAssumption DEF IInv, TypeOK
  <2>3. OneWayBack'
    BY <2>1 DEF IInv, OneWayBack
  <2> QED BY <2>1, <2>2, <2>3, SameSessionLemma
<1> QED BY <1>1, <1>2

-----------------------------------------------------------------------------
(* The station                                                             *)
LEMMA StationStep ==
    ASSUME IInv, StationNext, UNCHANGED clientVars
    PROVE  IInv'
<1>1. TypeOK'
  BY DEF IInv, TypeOK, clientVars
<1>2. StationInv'
  <2>1. CASE OnWiFiConnect
    BY <2>1 DEF IInv, StationInv, OnWiFiConnect
  <2>2. CASE OnWiFiDisconnect
    <3>1. link' = "down" /\ wifiConnected' = FALSE
      BY <2>2 DEF OnWiFiDisconnect
    <3>2. scheduled' \in Seq(Events)
      <4>1. scheduled' = scheduled \/ scheduled' = Append(scheduled, "disconnected")
        BY <2>2, Zenon DEF OnWiFiDisconnect
      <4> QED BY <4>1 DEF IInv, StationInv, Events
    <3> QED BY <3>1, <3>2 DEF StationInv
  <2>3. CASE OnWiFiGotIP
    BY <2>3 DEF IInv, StationInv, OnWiFiGotIP, Events
  <2> QED BY <2>1, <2>2, <2>3 DEF StationNext
<1>3. OneWayBack'
  <2>1. link' # "ip" \/ scheduled' # <<>>
    BY DEF StationNext, OnWiFiConnect, OnWiFiDisconnect, OnWiFiGotIP, IInv, StationInv, Events
  <2> QED BY <2>1 DEF IInv, OneWayBack, clientVars
<1>4. SessionInv' /\ SubscribedOrQueued' /\ OwnedInv'
  BY SameSessionLemma DEF clientVars
<1> QED BY <1>1, <1>2, <1>3, <1>4 DEF IInv

(* An event is passed on: unless it is the last one, the last one stays.   *)
LEMMA NextEventLemma ==
    ASSUME StationInv, NEW e, NextEvent(e)
    PROVE  /\ StationInv'
           /\ link' = "ip" /\ scheduled' = <<>> => e = "connected"
<1>1. /\ scheduled \in Seq(Events) /\ scheduled # <<>> /\ scheduled' = Tail(scheduled)
      /\ UNCHANGED <<link, wifiConnected>> /\ e = scheduled[1]
  BY DEF StationInv, NextEvent
<1>2. CASE Len(scheduled) = 1
  <2>1. scheduled' = <<>>
    BY <1>1, <1>2
  <2> QED BY <1>1, <1>2, <2>1 DEF StationInv
<1>3. CASE Len(scheduled) > 1
  <2>1. /\ scheduled' \in Seq(Events) /\ Len(scheduled') = Len(scheduled) - 1
        /\ scheduled'[Len(scheduled')] = scheduled[Len(scheduled)]
        /\ scheduled' # <<>>
    BY <1>1, <1>3
  <2>2. link' = "ip" => scheduled'[Len(scheduled')] = "connected"
    BY <1>1, <2>1 DEF StationInv
  <2>3. wifiConnected' \in BOOLEAN /\ link' \in {"down", "associated", "ip"}
    BY <1>1 DEF StationInv
  <2> QED BY <2>1, <2>2, <2>3 DEF StationInv
<1>4. Len(scheduled) = 1 \/ Len(scheduled) > 1
  <2>1. Len(scheduled) \in Nat /\ Len(scheduled) # 0
    BY <1>1, EmptySeq
  <2> QED BY <2>1
<1> QED BY <1>2, <1>3, <1>4

(* handleWiFiEvents                                                        *)
LEMMA WiFiConnectedStep ==
    ASSUME IInv, WiFiConnected
    PROVE  IInv'
<1>1. StationInv'
  BY NextEventLemma DEF IInv, WiFiConnected
<1>2. CASE conn # "up"
  <2>1. Connect(DefaultTimeout) /\ DefaultTimeout \in 0..MaxBackoff
    BY <1>2, MqttAssumption DEF WiFiConnected, DefaultTimeout
  <2> QED BY <1>1, <2>1, ConnectLemma DEF IInv, WiFiConnected
<1>3. CASE conn = "up"
  <2>1. UNCHANGED clientVars
    BY <1>3 DEF WiFiConnected, clientVars
  <2>2. TypeOK'
    BY <2>1 DEF IInv, TypeOK, clientVars
  <2>3. OneWayBack'
    BY <1>3, <2>1 DEF IInv, OneWayBack, clientVars
  <2> QED BY <1>1, <2>1, <2>2, <2>3, SameSessionLemma DEF IInv, clientVars
<1> QED BY <1>2, <1>3

LEMMA WiFiDisconnectedStep ==
    ASSUME IInv, WiFiDisconnected
    PROVE  IInv'
<1>1. StationInv'
  BY NextEventLemma DEF IInv, WiFiDisconnected
<1>2. CASE conn = "up"
  BY <1>1, <1>2, ForceDisconnectLemma DEF IInv, WiFiDisconnected
<1>3. CASE conn # "up"
  <2>1. UNCHANGED clientVars
    BY <1>3 DEF WiFiDisconnected, clientVars
  <2>2. TypeOK'
    BY <2>1 DEF IInv, TypeOK, clientVars
  <2>3. ~(link' = "ip" /\ scheduled' = <<>>)
    BY NextEventLemma DEF IInv, WiFiDisconnected
  <2>4. OneWayBack'
    BY <2>1, <2>3 DEF IInv, OneWayBack, clientVars
  <2> QED BY <1>1, <2>1, <2>2, <2>4, SameSessionLemma DEF IInv, clientVars
<1> QED BY <1>2, <1>3

-----------------------------------------------------------------------------
(* The reconnect timer                                                     *)
LEMMA ReconnectStep ==
    ASSUME IInv, Reconnect
    PROVE  IInv'
<1>1. StationInv'
  BY DEF IInv, StationInv, Reconnect, stationVars
<1>2. conn # "up"
  BY DEF IInv, OneWayBack, Reconnect
<1>3. Connect(timeout) /\ timeout \in 0..MaxBackoff
  BY <1>2 DEF IInv, TypeOK, Reconnect
<1> QED BY <1>1, <1>3, ConnectLemma DEF IInv, Reconnect

(* The commands                                                            *)
LEMMA AtConnectStep ==
    ASSUME IInv, AtConnect
    PROVE  IInv'
<1>1. StationInv'
  BY DEF IInv, StationInv, AtConnect, stationVars
<1>2. Connect(DefaultTimeout) /\ DefaultTimeout \in 0..MaxBackoff
  BY MqttAssumption DEF AtConnect, DefaultTimeout
<1> QED BY <1>1, <1>2, ConnectLemma DEF IInv, AtConnect

LEMMA AtForceDisconnectStep ==
    ASSUME IInv, AtForceDisconnect
    PROVE  IInv'
<1>1. StationInv'
  BY DEF IInv, StationInv, AtForceDisconnect, stationVars
<1> QED BY <1>1, ForceDisconnectLemma DEF IInv, AtForceDisconnect

LEMMA ReconfigureStep ==
    ASSUME IInv, Reconfigure
    PROVE  IInv'
<1>1. StationInv'
  BY DEF IInv, StationInv, Reconfigure, stationVars
<1>2. TypeOK'
  <2>1. IsInjective(<<>>)
    BY DEF IsInjective
  <2>2. components' = <<>>
    BY DEF Reconfigure
  <2>3. components' \in Seq(Components) /\ IsInjective(components)'
    BY <2>1, <2>2
  <2>4. retry' \in BOOLEAN
    BY DEF Reconfigure
  <2>5. arriving' \in [index : 0..MessageMax, total : 0..MessageMax + 1]
    BY MqttAssumption DEF Reconfigure, NoMessage
  <2>6. /\ conn' \in {"down", "connecting"}
        /\ timeout' \in 0..MaxBackoff /\ tries' \in 0..QueueTries
        /\ topics' = {} /\ queue' = <<>> /\ greeted' = {} /\ ghosts' = {} /\ broker' = {}
        /\ buffer' = <<>> /\ session' = session
    BY MqttAssumption DEF Reconfigure, ClearQueue, DefaultTimeout
  <2> QED BY <2>3, <2>4, <2>5, <2>6 DEF IInv, TypeOK
<1>3. OneWayBack'
  BY DEF OneWayBack, Reconfigure, stationVars
<1>4. SessionInv' /\ SubscribedOrQueued' /\ OwnedInv'
  BY DroppedLemma DEF Reconfigure, ClearQueue
<1> QED BY <1>1, <1>2, <1>3, <1>4 DEF IInv

LEMMA DisconnectedStep ==
    ASSUME IInv, Disconnected
    PROVE  IInv'
<1>1. StationInv'
  BY DEF IInv, StationInv, Disconnected, stationVars
<1>2. OnDisconnect(timeout) /\ timeout \in 0..MaxBackoff
  BY DEF IInv, TypeOK, Disconnected
<1>3. OneWayBack'
  BY <1>2, OnDisconnectLemma DEF OneWayBack, Disconnected
<1> QED BY <1>1, <1>2, <1>3, OnDisconnectLemma DEF IInv, Disconnected

-----------------------------------------------------------------------------
(* What was not sent at once waits in the queue, once each.                *)
LEMMA LateLemma ==
    ASSUME components \in Seq(Components), NEW s \in {0, 1},
           NEW late \in SUBSET Slots,
           NEW q \in Bijection(1..Cardinality(late), late)
    PROVE  /\ [n \in DOMAIN q |-> Greeting(q[n], s)] \in Seq(Messages)
           /\ ToSet([n \in DOMAIN q |-> Greeting(q[n], s)]) = {Greeting(slot, s) : slot \in late}
<1> DEFINE f == [n \in DOMAIN q |-> Greeting(q[n], s)]
<1>1. Cardinality(late) \in Nat
  BY SlotsLemma, FS_Subset, FS_CardinalityType
<1>2. /\ DOMAIN q = 1..Cardinality(late)
      /\ \A n \in DOMAIN q : q[n] \in late
      /\ \A slot \in late : \E n \in DOMAIN q : q[n] = slot
  BY DEF Bijection, Injection, Surjection
<1>3. f \in [1..Cardinality(late) -> Messages]
  BY <1>2, GreetingLemma
<1>4. f \in Seq(Messages)
  BY <1>1, <1>3, SeqDef
<1>5. ToSet(f) = {Greeting(slot, s) : slot \in late}
  BY <1>2 DEF ToSet
<1> QED BY <1>4, <1>5

(* onConnect                                                               *)
LEMMA OnConnectStep ==
    ASSUME IInv, OnConnect
    PROVE  IInv'
<1>1. /\ conn = "connecting" /\ link = "ip" /\ conn' = "up"
      /\ session' = 1 - session /\ timeout' = DefaultTimeout
      /\ greeted' = ToSet(components) /\ ghosts' = ghosts
      /\ UNCHANGED <<stationVars, retry, components, arriving, buffer>>
  BY DEF OnConnect
<1>2. PICK late \in SUBSET Slots :
          /\ Sent({Greeting(slot, session') : slot \in Slots \ late})
          /\ \E q \in Bijection(1..Cardinality(late), late) :
                queue' = [n \in DOMAIN q |-> Greeting(q[n], session')]
          /\ tries' = IF late = {} THEN 0 ELSE QueueTries
  BY DEF OnConnect
<1> DEFINE now == {Greeting(slot, session') : slot \in Slots \ late}
<1>3. components \in Seq(Components) /\ session' \in {0, 1}
  BY <1>1 DEF IInv, TypeOK
<1>4. queue' \in Seq(Messages) /\ ToSet(queue') = {Greeting(slot, session') : slot \in late}
  BY <1>2, <1>3, LateLemma
<1>5. ASSUME NEW slot \in Slots
      PROVE  /\ Greeting(slot, session') \in Messages
             /\ Greeting(slot, session').session = session'
             /\ Greeting(slot, session').type = "subscribe" =>
                   Greeting(slot, session').component \in ToSet(components)
  BY <1>3, GreetingLemma
<1>6. topics = {} /\ arriving = NoMessage
  BY <1>1 DEF IInv, SessionInv, OfThisSession
<1>7. /\ topics' = {<<m.topic, m.component>> : m \in Subscribed(now)}
      /\ broker' = broker \cup {m.topic : m \in Subscribed(now)}
  BY <1>2, <1>6 DEF Sent
<1>8. now \subseteq Messages
  BY <1>5
<1>9. \A m \in Subscribed(now) : m.component \in Components /\ m.topic \in Topics
  BY <1>8 DEF Subscribed, Messages
<1> HIDE DEF now
<1>10. TypeOK'
  <2>1. topics' \subseteq Topics \X Components /\ broker' \subseteq Topics
    BY <1>7, <1>9 DEF IInv, TypeOK
  <2>2. greeted' \subseteq Components
    BY <1>1, <1>3, ElementOfSeq DEF ToSet
  <2>3. tries' \in 0..QueueTries /\ timeout' \in 0..MaxBackoff
    BY <1>1, <1>2, MqttAssumption DEF DefaultTimeout
  <2> QED BY <1>1, <1>3, <1>4, <2>1, <2>2, <2>3 DEF IInv, TypeOK
<1>11. StationInv'
  BY <1>1 DEF IInv, StationInv, stationVars
<1>12. OneWayBack'
  BY <1>1 DEF IInv, OneWayBack
<1>13. SessionInv'
  <2>1. \A m \in ToSet(queue') : m.session = session'
    BY <1>4, <1>5
  <2>2. \A e \in topics' : e[1] \in broker'
    BY <1>7
  <2>3. arriving' = NoMessage
    BY <1>1, <1>6
  <2>4. arriving'.total \notin 1..MessageMax
    BY <2>3, MqttAssumption DEF NoMessage
  <2> QED BY <1>1, <2>1, <2>2, <2>3, <2>4 DEF SessionInv, OfThisSession
<1>14. SubscribedOrQueued'
  <2> SUFFICES ASSUME NEW c \in greeted', NEW t \in ToSet(Subscriptions[c])
               PROVE  \/ <<t, c>> \in topics'
                      \/ \E m \in Subscribed(ToSet(queue')) : m.component = c /\ m.topic = t
    BY DEF SubscribedOrQueued
  <2>1. PICK i \in 1..Len(components) : c = components[i]
    BY <1>1, <1>3 DEF ToSet
  <2>2. PICK j \in DOMAIN Subscriptions[c] : t = Subscriptions[c][j]
    BY DEF ToSet
  <2>3. <<i, j>> \in Slots
    BY <1>3, <2>1, <2>2, SlotsLemma
  <2>4. Greeting(<<i, j>>, session') = Message("subscribe", c, t, session')
    BY <2>1, <2>2 DEF Greeting
  <2>5. CASE <<i, j>> \in late
    <3>1. Message("subscribe", c, t, session') \in ToSet(queue')
      BY <1>4, <2>4, <2>5
    <3> QED BY <3>1 DEF Message, Subscribed
  <2>6. CASE <<i, j>> \notin late
    <3>1. Message("subscribe", c, t, session') \in now
      BY <2>3, <2>4, <2>6 DEF now
    <3> QED BY <1>7, <3>1 DEF Message, Subscribed
  <2> QED BY <2>5, <2>6
<1>15. OwnedInv'
  <2>1. \A m \in Subscribed(now) : m.component \in ToSet(components)
    BY <1>5 DEF now, Subscribed
  <2>2. TopicsOwned'
    BY <1>1, <1>7, <2>1 DEF TopicsOwned
  <2>3. QueueOwned'
    BY <1>1, <1>4, <1>5 DEF QueueOwned, Subscribed
  <2> QED BY <2>2, <2>3 DEF OwnedInv
<1> QED BY <1>10, <1>11, <1>12, <1>13, <1>14, <1>15 DEF IInv

(* publish()                                                               *)
LEMMA PublishStep ==
    ASSUME IInv, Publish
    PROVE  IInv'
<1>1. UNCHANGED <<stationVars, conn, timeout, retry, components, topics, session,
                  greeted, ghosts, broker, arriving, buffer>>
  BY DEF Publish
<1> DEFINE m == Message("publish", None, StatusTopic, session)
<1>2. m \in Messages /\ m.type = "publish" /\ m.session = session
  BY DEF IInv, TypeOK, Message, Messages
<1>3. /\ queue' \in Seq(Messages) /\ tries' \in 0..QueueTries
      /\ ToSet(queue) \subseteq ToSet(queue') /\ ToSet(queue') \subseteq ToSet(queue) \cup {m}
  <2>1. CASE UNCHANGED <<queue, tries>>
    BY <2>1 DEF IInv, TypeOK
  <2>2. CASE AddQueue(m)
    <3>1. queue' = Append(queue, m) /\ tries' = QueueTries
      BY <2>2 DEF AddQueue
    <3>2. queue' \in Seq(Messages) /\ ToSet(queue') = ToSet(queue) \cup {m}
      BY <1>2, <3>1, AppendRange DEF IInv, TypeOK
    <3> QED BY <3>1, <3>2, MqttAssumption
  <2> QED BY <2>1, <2>2 DEF Publish
<1> HIDE DEF m
<1>4. TypeOK'
  BY <1>1, <1>3 DEF IInv, TypeOK
<1>5. StationInv' /\ OneWayBack'
  <2>1. StationInv'
    BY <1>1 DEF IInv, StationInv, stationVars
  <2>2. OneWayBack'
    BY <1>1 DEF IInv, OneWayBack, stationVars
  <2> QED BY <2>1, <2>2
<1>6. SessionInv'
  BY <1>1, <1>2, <1>3 DEF IInv, SessionInv, OfThisSession
<1>7. SubscribedOrQueued'
  <2> SUFFICES ASSUME NEW c \in greeted', NEW t \in ToSet(Subscriptions[c])
               PROVE  \/ <<t, c>> \in topics'
                      \/ \E n \in Subscribed(ToSet(queue')) : n.component = c /\ n.topic = t
    BY DEF SubscribedOrQueued
  <2>1. CASE <<t, c>> \in topics
    BY <1>1, <2>1
  <2>2. CASE \E n \in Subscribed(ToSet(queue)) : n.component = c /\ n.topic = t
    BY <1>3, <2>2 DEF Subscribed
  <2> QED BY <1>1, <2>1, <2>2 DEF IInv, SubscribedOrQueued
<1>8. OwnedInv'
  <2>1. TopicsOwned => TopicsOwned'
    BY <1>1 DEF TopicsOwned
  <2>2. QueueOwned => QueueOwned'
    BY <1>1, <1>2, <1>3 DEF QueueOwned, Subscribed
  <2> QED BY <2>1, <2>2 DEF IInv, OwnedInv
<1> QED BY <1>4, <1>5, <1>6, <1>7, <1>8 DEF IInv

(* _queueTimerCallback                                                     *)
LEMMA QueueTimerStep ==
    ASSUME IInv, QueueTimer
    PROVE  IInv'
<1>1. /\ tries > 0
      /\ UNCHANGED <<stationVars, conn, timeout, retry, components, session, greeted, ghosts,
                     arriving, buffer>>
  BY DEF QueueTimer
<1>2. PICK k \in 0..Len(queue) :
          /\ k > 0 => conn = "up"
          /\ Sent(ToSet(SubSeq(queue, 1, k)))
          /\ queue' = SubSeq(queue, k + 1, Len(queue))
          /\ tries' = IF queue' = <<>> THEN 0 ELSE tries - 1
  BY DEF QueueTimer
<1> DEFINE sent == ToSet(SubSeq(queue, 1, k))
<1>3. queue \in Seq(Messages)
  BY DEF IInv, TypeOK
<1>4. /\ SubSeq(queue, 1, k) \in Seq(Messages)
      /\ queue' \in Seq(Messages)
      /\ ToSet(queue) = sent \cup ToSet(queue')
      /\ k = 0 => sent = {}
  BY <1>2, <1>3, SplitLemma
<1>5. /\ topics' = topics \cup {<<m.topic, m.component>> : m \in Subscribed(sent)}
      /\ broker' = broker \cup {m.topic : m \in Subscribed(sent)}
  BY <1>2 DEF Sent
<1>6. sent \subseteq Messages
  BY <1>4, ElementOfSeq DEF ToSet
<1> HIDE DEF sent
<1>7. \A m \in Subscribed(sent) : m.component \in Components /\ m.topic \in Topics
  BY <1>6 DEF Subscribed, Messages
<1>8. TypeOK'
  <2>1. topics' \subseteq Topics \X Components /\ broker' \subseteq Topics
    BY <1>5, <1>7 DEF IInv, TypeOK
  <2>2. tries' \in 0..QueueTries
    BY <1>1, <1>2, MqttAssumption DEF IInv, TypeOK
  <2> QED BY <1>1, <1>4, <2>1, <2>2 DEF IInv, TypeOK
<1>9. StationInv'
  BY <1>1 DEF IInv, StationInv, stationVars
<1>10. OneWayBack'
  BY <1>1 DEF IInv, OneWayBack, stationVars
<1>11. SessionInv'
  <2>1. conn = "up" => \A m \in ToSet(queue') : m.session = session
    BY <1>4 DEF IInv, SessionInv, OfThisSession
  <2>2. \A e \in topics' : conn = "up" /\ e[1] \in broker'
    <3>1. CASE k = 0
      BY <1>4, <1>5, <3>1 DEF IInv, SessionInv, OfThisSession, Subscribed
    <3>2. CASE k > 0
      BY <1>2, <1>5, <3>2 DEF IInv, SessionInv, OfThisSession
    <3> QED BY <3>1, <3>2
  <2> QED BY <1>1, <2>1, <2>2 DEF IInv, SessionInv, OfThisSession
<1>12. SubscribedOrQueued'
  <2> SUFFICES ASSUME NEW c \in greeted', NEW t \in ToSet(Subscriptions[c])
               PROVE  \/ <<t, c>> \in topics'
                      \/ \E n \in Subscribed(ToSet(queue')) : n.component = c /\ n.topic = t
    BY DEF SubscribedOrQueued
  <2>1. CASE <<t, c>> \in topics
    BY <1>5, <2>1
  <2>2. CASE \E n \in Subscribed(ToSet(queue)) : n.component = c /\ n.topic = t
    BY <1>4, <1>5, <2>2 DEF Subscribed
  <2> QED BY <1>1, <2>1, <2>2 DEF IInv, SubscribedOrQueued
<1>13. OwnedInv'
  <2>1. TopicsOwned /\ QueueOwned => TopicsOwned'
    BY <1>1, <1>4, <1>5 DEF TopicsOwned, QueueOwned, Subscribed
  <2>2. QueueOwned => QueueOwned'
    BY <1>1, <1>4 DEF QueueOwned, Subscribed
  <2> QED BY <2>1, <2>2 DEF IInv, OwnedInv
<1> QED BY <1>8, <1>9, <1>10, <1>11, <1>12, <1>13 DEF IInv

-----------------------------------------------------------------------------
(* onMessageRaw                                                            *)
LEMMA OnMessageRawStep ==
    ASSUME IInv, OnMessageRaw
    PROVE  IInv'
<1>1. /\ conn = "up"
      /\ UNCHANGED <<stationVars, conn, timeout, retry, components, topics, queue, tries,
                     session, greeted, ghosts, broker>>
  BY DEF OnMessageRaw
<1>2. PICK p \in NextPackets :
          LET held == Append(IF p.index = 0 THEN <<>> ELSE buffer, session)
          IN  /\ arriving' = IF p.index + 1 = p.total THEN NoMessage
                             ELSE [p EXCEPT !.index = @ + 1]
              /\ buffer' = IF p.total > MessageMax \/ p.index \notin {0, Len(buffer)}
                           THEN buffer
                           ELSE IF Len(held) = p.total THEN <<>> ELSE held
  BY DEF OnMessageRaw
<1> DEFINE held == Append(IF p.index = 0 THEN <<>> ELSE buffer, session)
<1>3. /\ buffer \in Seq({0, 1}) /\ session \in {0, 1}
      /\ MessageMax \in Nat \ {0}
  BY MqttAssumption DEF IInv, TypeOK
<1>4. /\ p \in [index : 0..MessageMax, total : 1..MessageMax + 1]
      /\ p.index < p.total
      /\ p.index # 0 => p = arriving
  <2>1. CASE arriving # NoMessage
    BY <1>3, <2>1 DEF NextPackets, IInv, TypeOK, SessionInv
  <2>2. CASE arriving = NoMessage
    BY <1>3, <2>2 DEF NextPackets
  <2> QED BY <2>1, <2>2
<1>5. \/ p.index + 1 = p.total /\ arriving' = NoMessage
      \/ /\ p.index + 1 < p.total
         /\ arriving' = [index |-> p.index + 1, total |-> p.total]
  <2>1. CASE p.index + 1 = p.total
    BY <1>2, <2>1
  <2>2. CASE p.index + 1 # p.total
    BY <1>2, <1>3, <1>4, <2>2
  <2> QED BY <2>1, <2>2
<1>6. /\ held \in Seq({0, 1})
      /\ Len(held) = IF p.index = 0 THEN 1 ELSE Len(buffer) + 1
      /\ \A k \in 1..(Len(held) - 1) : held[k] = buffer[k]
      /\ held[Len(held)] = session
  BY <1>3
<1>7. \/ p.total > MessageMax /\ buffer' = buffer
      \/ p.index \notin {0, Len(buffer)} /\ buffer' = buffer
      \/ p.index \in {0, Len(buffer)} /\ Len(held) = p.total /\ buffer' = <<>>
      \/ p.index \in {0, Len(buffer)} /\ Len(held) # p.total /\ buffer' = held
  BY <1>2
<1> HIDE DEF held
<1>8. TypeOK'
  <2>1. buffer' \in Seq({0, 1})
    <3>1. buffer' \in {buffer, <<>>, held}
      BY <1>7
    <3>2. <<>> \in Seq({0, 1})
      OBVIOUS
    <3> QED BY <1>3, <1>6, <3>1, <3>2
  <2>2. arriving' \in [index : 0..MessageMax, total : 0..MessageMax + 1]
    BY <1>3, <1>4, <1>5 DEF NoMessage
  <2> QED BY <1>1, <2>1, <2>2 DEF IInv, TypeOK
<1>9. StationInv'
  BY <1>1 DEF IInv, StationInv, stationVars
<1>10. OneWayBack'
  BY <1>1 DEF IInv, OneWayBack, stationVars
<1>11. SessionInv'
  <2>1. arriving' = NoMessage \/ arriving'.index \in 1..(arriving'.total - 1)
    BY <1>3, <1>4, <1>5
  <2>2. ASSUME arriving'.total \in 1..MessageMax
        PROVE  buffer' = [k \in 1..arriving'.index |-> session]
    <3>1. /\ p.index + 1 < p.total /\ p.total \in 1..MessageMax
          /\ arriving' = [index |-> p.index + 1, total |-> p.total]
      BY <1>3, <1>4, <1>5, <2>2 DEF NoMessage
    <3>2. CASE p.index = 0
      <4>1. Len(held) = 1 /\ buffer' = held
        BY <1>3, <1>4, <1>6, <1>7, <3>1, <3>2
      <4> QED BY <1>3, <1>6, <3>1, <3>2, <4>1
    <3>3. CASE p.index # 0
      <4>1. buffer = [k \in 1..p.index |-> session]
        BY <1>4, <3>1, <3>3 DEF IInv, SessionInv, OfThisSession
      <4>2. Len(buffer) = p.index
        BY <1>3, <1>4, <4>1
      <4>3. Len(held) = p.index + 1 /\ buffer' = held
        BY <1>3, <1>4, <1>6, <1>7, <3>1, <3>3, <4>2
      <4>4. \A k \in 1..(p.index + 1) : held[k] = session
        BY <1>3, <1>4, <1>6, <4>1, <4>3
      <4>5. held = [k \in 1..(p.index + 1) |-> session]
        BY <1>3, <1>4, <1>6, <4>3, <4>4
      <4> QED BY <3>1, <4>3, <4>5
    <3> QED BY <3>2, <3>3
  <2> QED BY <1>1, <2>1, <2>2 DEF IInv, SessionInv, OfThisSession
<1>12. SubscribedOrQueued'
  BY <1>1, SameTopicsLemma DEF IInv
<1>13. OwnedInv'
  BY <1>1 DEF IInv, OwnedInv, TopicsOwned, QueueOwned
<1> QED BY <1>8, <1>9, <1>10, <1>11, <1>12, <1>13 DEF IInv

-----------------------------------------------------------------------------
(* What leaves with a component: its topics, and nothing of another one.   *)
LEMMA UnregisterLemma ==
    ASSUME IInv, NEW c \in Components, Leave(c),
           components' \in Seq(Components), IsInjective(components'),
           ToSet(components) \ {c} \subseteq ToSet(components'),
           ghosts' \in SUBSET Components, ghosts \ {c} \subseteq ghosts',
           c \in ToSet(components') \/ (Waits(c) => c \in ghosts'),
           c \in ToSet(components') \/ (components = <<>> => ghosts \subseteq ghosts'),
           UNCHANGED <<stationVars, conn, timeout, retry, queue, tries, session,
                       arriving, buffer>>
    PROVE  IInv'
<1>1. /\ topics' = {e \in topics : e[2] # c} \/ (components = <<>> /\ topics' = topics)
      /\ broker' = broker /\ greeted' = greeted \ {c}
  BY DEF Leave, Forget, TopicInUse
<1>2. TypeOK'
  BY <1>1 DEF IInv, TypeOK
<1>3. StationInv'
  BY DEF IInv, StationInv, stationVars
<1>4. OneWayBack'
  BY DEF IInv, OneWayBack, stationVars
<1>5. SessionInv'
  BY <1>1 DEF IInv, SessionInv, OfThisSession
<1>6. SubscribedOrQueued'
  <2> SUFFICES ASSUME NEW d \in greeted', NEW t \in ToSet(Subscriptions[d])
               PROVE  \/ <<t, d>> \in topics'
                      \/ \E m \in Subscribed(ToSet(queue')) : m.component = d /\ m.topic = t
    BY DEF SubscribedOrQueued
  <2>1. <<t, d>> \in topics => <<t, d>> \in topics'
    BY <1>1
  <2> QED BY <1>1, <2>1 DEF IInv, SubscribedOrQueued
<1>7. OwnedInv'
  <2>1. TopicsOwned'
    <3>1. ASSUME NEW e \in topics', e[2] # c
          PROVE  e[2] \in ToSet(components') \/ e[2] \in ghosts'
      BY <1>1, <3>1 DEF IInv, OwnedInv, TopicsOwned
    <3>2. ASSUME NEW e \in topics', e[2] = c
          PROVE  e[2] \in ToSet(components') \/ e[2] \in ghosts'
      <4>1. components = <<>> /\ e \in topics
        BY <1>1, <3>2
      <4>2. ToSet(components) = {}
        BY <4>1 DEF ToSet
      <4> QED BY <3>2, <4>1, <4>2 DEF IInv, OwnedInv, TopicsOwned
    <3> QED BY <3>1, <3>2 DEF TopicsOwned
  <2>2. QueueOwned'
    <3> SUFFICES ASSUME NEW m \in Subscribed(ToSet(queue))
                 PROVE  m.component \in ToSet(components') \cup ghosts'
      BY DEF QueueOwned
    <3>1. m.component \in ToSet(components) \cup ghosts
      BY DEF IInv, OwnedInv, QueueOwned
    <3> QED BY <3>1 DEF Waits
  <2> QED BY <2>1, <2>2 DEF OwnedInv
<1> QED BY <1>2, <1>3, <1>4, <1>5, <1>6, <1>7 DEF IInv

LEMMA RegisterStep ==
    ASSUME IInv, NEW c \in Components, Register(c)
    PROVE  IInv'
<1> DEFINE rest == ComponentsWithout(c)
<1>1. /\ rest \in Seq(Components) /\ IsInjective(rest)
      /\ ToSet(rest) = ToSet(components) \ {c}
  BY EraseLemma DEF IInv, TypeOK, ComponentsWithout
<1>2. components' = Append(rest, c)
  BY DEF Register
<1> HIDE DEF rest
<1>3. /\ components' \in Seq(Components) /\ IsInjective(components')
      /\ ToSet(components') = ToSet(components) \cup {c}
  BY <1>1, <1>2, AppendLemma
<1>4. ghosts' = ghosts \ {c} /\ ghosts' \in SUBSET Components
  BY DEF Register, IInv, TypeOK
<1> QED BY <1>3, <1>4, UnregisterLemma DEF Register

LEMMA UnregisterStep ==
    ASSUME IInv, NEW c \in Components, Unregister(c)
    PROVE  IInv'
<1>1. /\ components' \in Seq(Components) /\ IsInjective(components')
      /\ ToSet(components') = ToSet(components) \ {c}
  BY EraseLemma DEF IInv, TypeOK, ComponentsWithout, Unregister
<1>2. /\ ghosts' \in SUBSET Components /\ ghosts \ {c} \subseteq ghosts'
      /\ Waits(c) => c \in ghosts'
      /\ components = <<>> => ghosts \subseteq ghosts'
  BY DEF Unregister, IInv, TypeOK
<1> QED BY <1>1, <1>2, UnregisterLemma DEF Unregister

-----------------------------------------------------------------------------
LEMMA InitIInv == ASSUME Init PROVE IInv
<1>1. TypeOK
  <2>1. IsInjective(<<>>)
    BY DEF IsInjective
  <2>2. retry \in BOOLEAN
    BY DEF Init
  <2>3. arriving \in [index : 0..MessageMax, total : 0..MessageMax + 1]
    BY MqttAssumption DEF Init, NoMessage
  <2> QED BY <2>1, <2>2, <2>3, MqttAssumption DEF Init, TypeOK, DefaultTimeout
<1>2. StationInv
  <2>1. wifiConnected \in BOOLEAN
    BY DEF Init, StationInit
  <2> QED BY <2>1 DEF Init, StationInit, StationInv
<1>3. OneWayBack
  BY DEF Init, StationInit, OneWayBack
<1>4. SessionInv
  BY MqttAssumption DEF Init, SessionInv, OfThisSession, NoMessage
<1>5. SubscribedOrQueued
  BY DEF Init, SubscribedOrQueued
<1>6. OwnedInv
  BY DEF Init, OwnedInv, TopicsOwned, QueueOwned, Subscribed, ToSet
<1> QED BY <1>1, <1>2, <1>3, <1>4, <1>5, <1>6 DEF IInv

LEMMA NextIInv == ASSUME IInv, [Next]_vars PROVE IInv'
<1>1. CASE StationNext /\ UNCHANGED clientVars
  BY <1>1, StationStep
<1>2. CASE WiFiConnected
  BY <1>2, WiFiConnectedStep
<1>3. CASE WiFiDisconnected
  BY <1>3, WiFiDisconnectedStep
<1>4. CASE Reconnect
  BY <1>4, ReconnectStep
<1>5. CASE Command
  BY <1>5, AtConnectStep, AtForceDisconnectStep, ReconfigureStep DEF Command
<1>6. CASE Disconnected
  BY <1>6, DisconnectedStep
<1>7. CASE OnConnect
  BY <1>7, OnConnectStep
<1>8. CASE Publish
  BY <1>8, PublishStep
<1>9. CASE QueueTimer
  BY <1>9, QueueTimerStep
<1>10. CASE OnMessageRaw
  BY <1>10, OnMessageRawStep
<1>11. CASE \E c \in Components : Register(c) \/ Unregister(c)
  BY <1>11, RegisterStep, UnregisterStep
<1>12. CASE UNCHANGED vars
  <2>1. UNCHANGED <<stationVars, clientVars>>
    BY <1>12 DEF vars
  <2>2. TypeOK'
    BY <2>1 DEF IInv, TypeOK, clientVars
  <2>3. StationInv'
    BY <2>1 DEF IInv, StationInv, stationVars
  <2>4. OneWayBack'
    BY <2>1 DEF IInv, OneWayBack, stationVars, clientVars
  <2> QED BY <2>1, <2>2, <2>3, <2>4, SameSessionLemma DEF IInv, clientVars
<1> QED BY <1>1, <1>2, <1>3, <1>4, <1>5, <1>6, <1>7, <1>8, <1>9, <1>10, <1>11, <1>12
        DEF Next

THEOREM Invariance == Spec => []IInv
<1> QED BY InitIInv, NextIInv, PTL DEF Spec

(* Every variable of the client keeps its type, and no component is in     *)
(* _components twice.                                                      *)
THEOREM TypeCorrect == Spec => []TypeOK
<1>1. IInv => TypeOK
  BY DEF IInv
<1> QED BY <1>1, Invariance, PTL

(* Whatever the order of WiFi events, commands, timers and disconnects,    *)
(* the client never has two ways back to the broker, and is never without  *)
(* one while it is online and reconnects.                                  *)
THEOREM TheWayBackIsOne == Spec => []OneWayBack
<1>1. IInv => OneWayBack
  BY DEF IInv
<1> QED BY <1>1, Invariance, PTL

(* What is queued, subscribed and half received belongs to the connection  *)
(* the client has.                                                         *)
THEOREM SessionsAreSeparate == Spec => []OfThisSession
<1>1. IInv => OfThisSession
  BY DEF IInv, SessionInv
<1> QED BY <1>1, Invariance, PTL

(* No SUBSCRIBE of a component that was told of the connection is lost     *)
(* between onConnect, the queue and its timer.                             *)
THEOREM NoSubscribeIsLost == Spec => []SubscribedOrQueued
<1>1. IInv => SubscribedOrQueued
  BY DEF IInv
<1> QED BY <1>1, Invariance, PTL

(* _topics only holds components that are registered, and those that left  *)
(* while their SUBSCRIBE was queued.                                       *)
THEOREM TopicsHaveOwners == Spec => []TopicsOwned
<1>1. IInv => TopicsOwned
  BY DEF IInv, OwnedInv
<1> QED BY <1>1, Invariance, PTL

-----------------------------------------------------------------------------
(***************************************************************************)
(* Syslog: the inductive invariant, on a record with the variables.  The   *)
(* parts are about the values of the fields they share.                    *)
(***************************************************************************)
Conn == [isSending : BOOLEAN, isDisconnecting : BOOLEAN, left : Nat, written : Nat,
         sentAck : Nat, id : Nat]
QueueItem == [id : Nat \ {0}, length : Lengths, to : ToSet(Filters), locked : BOOLEAN,
              failures : 0..(MaxFailures - 1)]
Queues == Seq(QueueItem)
Conns == [Tcp -> Conn]
Flags == [Tcp -> BOOLEAN]
Logs == [ToSet(Filters) -> Seq(Nat \ {0})]

States == [items : Queues, curSize : Nat, uniqueId : Nat, tcp : Conns,
           client : [Tcp -> {"closed", "connecting", "connected", "closing"}],
           arrived : Flags, log : Logs, done : SUBSET Nat, given : SUBSET Nat, pos : Nat \ {0}]

Got(l, id) == \E d \in ToSet(Filters) : Contains(l[d], id)
Cop(l, id) == Cardinality(PlacesOf(l, id))
QueuedIn(q) == {q[k].id : k \in DOMAIN q}

(* No two items of the queue q have the same number.                       *)
Distinct(q, u) ==
    /\ \A j, k \in DOMAIN q : q[j].id = q[k].id => j = k
    /\ \A k \in DOMAIN q : q[k].id <= u

SizeOK(q, size) == size = Used(q) /\ size <= MaxSize

(* The logs have numbers that were given, and few copies of each.          *)
LogOK(l, u) ==
    /\ \A d \in ToSet(Filters) : \A j \in DOMAIN l[d] : l[d][j] <= u
    /\ \A id \in 1..u : IsFiniteSet(PlacesOf(l, id)) /\ Cop(l, id) <= MaxFailures

(* Where the numbers are.                                                  *)
KeptOK(q, u, l, sent, lost) ==
    /\ sent \subseteq 1..u /\ lost \subseteq 1..u
    /\ \A id \in sent : Got(l, id)
    /\ \A id \in 1..u : id \in QueuedIn(q) \union sent \union lost

(* A destination that is sending a message, which need not be queued: it   *)
(* is the destination of that message; when the message has not arrived,   *)
(* another copy of it may.                                                 *)
SenderOK(d, q, u, t, a, l) ==
    /\ t[d].id \in 0..u
    /\ a[d] => t[d].isSending
    /\ t[d].isSending =>
          /\ t[d].id \in 1..u
          /\ IF a[d] THEN Got(l, t[d].id) ELSE Cop(l, t[d].id) <= MaxFailures - 1
          /\ \A k \in DOMAIN q : q[k].id = t[d].id => q[k].to = d

SendersOK(q, u, t, a, l) == \A d \in Tcp : SenderOK(d, q, u, t, a, l)

(* An item of the queue is locked by who is sending it, and has as many    *)
(* copies as it has failures, and one more while that arrives.             *)
Sends(t, item) == item.to \in Tcp /\ t[item.to].isSending /\ t[item.to].id = item.id
ItemOK(item, t, a, l) ==
    /\ item.locked <=> Sends(t, item)
    /\ Cop(l, item.id) <= item.failures + (IF item.locked /\ a[item.to] THEN 1 ELSE 0)

Base(s) ==
    /\ Distinct(s.items, s.uniqueId)
    /\ SizeOK(s.items, s.curSize)
    /\ LogOK(s.log, s.uniqueId)
    /\ KeptOK(s.items, s.uniqueId, s.log, s.done, s.given)
    /\ SendersOK(s.items, s.uniqueId, s.tcp, s.arrived, s.log)

ItemsOK(q, t, a, l) == \A k \in DOMAIN q : ItemOK(q[k], t, a, l)

Good(s) == Base(s) /\ ItemsOK(s.items, s.tcp, s.arrived, s.log)

SyslogInv == State \in States /\ uniqueId <= MaxItems /\ online \in BOOLEAN /\ Good(State)

-----------------------------------------------------------------------------
(* Syslog: what the items of a queue use is the sum of their sizes.        *)
LEMMA SizeOfLemma ==
    ASSUME NEW item \in QueueItem
    PROVE  SizeOf(item) \in Nat /\ SizeOf(item) = item.length + ItemSize
<1>1. Lengths \subseteq Nat \ {0} /\ ItemSize \in Nat
  BY SyslogAssumption
<1>2. item.length \in Lengths
  BY DEF QueueItem
<1>3. item.length \in Nat /\ ItemSize \in Nat
  BY <1>1, <1>2
<1> QED BY <1>3 DEF SizeOf

Sums(g, q) ==
    /\ g[0] = 0
    /\ \A m \in 1..Len(q) : g[m] = g[m - 1] + SizeOf(q[m])

LEMMA UsedLemma ==
    ASSUME NEW q \in Queues
    PROVE  \E g \in [0..Len(q) -> Nat] : Sums(g, q) /\ Used(q) = g[Len(q)]
<1> DEFINE n == Len(q)
           upTo[m \in 0..Len(q)] == IF m = 0 THEN 0 ELSE upTo[m - 1] + SizeOf(q[m])
           Step == [m \in 1..n |-> [t \in Nat |-> t + SizeOf(q[m])]]
<1>0. n \in Nat /\ \A m \in 1..n : SizeOf(q[m]) \in Nat
  <2>1. n \in Nat /\ \A m \in 1..n : q[m] \in QueueItem
    BY DEF Queues
  <2> QED BY <2>1, SizeOfLemma
<1>1. Step \in [1..n -> [Nat -> Nat]]
  BY <1>0
<1>2. PICK g \in [0..n -> Nat] : Solves(g, n, 0, Step)
  <2> HIDE DEF Step
  <2> QED BY <1>0, <1>1, RecursionLemma
<1>3. \A m \in 1..n : g[m] = g[m - 1] + SizeOf(q[m])
  <2>1. ASSUME NEW m \in 1..n PROVE g[m] = g[m - 1] + SizeOf(q[m])
    <3>1. m - 1 \in 0..n
      BY <1>0
    <3>2. g[m] = Step[m][g[m - 1]] /\ g[m - 1] \in Nat
      BY <1>2, <3>1 DEF Solves
    <3> QED BY <3>2
  <2> QED BY <2>1
<1>4. g[0] = 0
  BY <1>2 DEF Solves
<1>5. g = [m \in 0..Len(q) |-> IF m = 0 THEN 0 ELSE g[m - 1] + SizeOf(q[m])]
  <2>1. \A m \in 0..n : m = 0 \/ m \in 1..n
    BY <1>0
  <2> QED BY <1>3, <1>4, <2>1
<1>6. upTo = [m \in 0..Len(q) |-> IF m = 0 THEN 0 ELSE upTo[m - 1] + SizeOf(q[m])]
  BY <1>5
<1> HIDE DEF upTo
<1>7. Sums(upTo, q)
  <2>1. \A m \in 0..n : upTo[m] = IF m = 0 THEN 0 ELSE upTo[m - 1] + SizeOf(q[m])
    BY <1>6, Zenon
  <2>2. 0 \in 0..n /\ \A m \in 1..n : m \in 0..n /\ m # 0
    BY <1>0
  <2> QED BY <2>1, <2>2 DEF Sums
<1>8. \A m \in 0..n : upTo[m] \in Nat
  <2>1. upTo[0] \in Nat /\ \A m \in 1..n : upTo[m - 1] \in Nat => upTo[m] \in Nat
    BY <1>0, <1>7 DEF Sums
  <2> QED BY <1>0, <2>1, InductionLemma
<1>9. upTo \in [0..n -> Nat]
  BY <1>6, <1>8
<1>10. Used(q) = upTo[n]
  BY DEF Used, upTo
<1> QED BY <1>7, <1>9, <1>10

(* Two sums over the same lengths, as far as they are the same.            *)
Agree(f, p, g, q, n) ==
    /\ Sums(f, p) /\ Sums(g, q) /\ n <= Len(p) /\ n <= Len(q)
    /\ \A m \in 1..n : p[m].length = q[m].length

LEMMA SumsAgree ==
    ASSUME NEW p \in Queues, NEW q \in Queues, NEW f, NEW g, NEW n \in Nat, Agree(f, p, g, q, n)
    PROVE  \A m \in 0..n : f[m] = g[m]
<1> DEFINE e == [m \in 0..n |-> f[m] = g[m]]
<1>1. e[0] \in {TRUE}
  <2>1. f[0] = g[0] /\ 0 \in 0..n
    BY DEF Sums, Agree
  <2> QED BY <2>1
<1>2. ASSUME NEW m \in 1..n, e[m - 1] \in {TRUE}
      PROVE  e[m] \in {TRUE}
  <2>1. m \in 1..Len(p) /\ m \in 1..Len(q) /\ m - 1 \in 0..n /\ m \in 0..n
    BY DEF Queues, Agree
  <2>2. f[m - 1] = g[m - 1]
    BY <1>2, <2>1
  <2>3. f[m] = f[m - 1] + SizeOf(p[m]) /\ g[m] = g[m - 1] + SizeOf(q[m])
    BY <2>1 DEF Sums, Agree
  <2>4. SizeOf(p[m]) = SizeOf(q[m])
    BY DEF SizeOf, Agree
  <2> QED BY <2>1, <2>2, <2>3, <2>4
<1> HIDE DEF e
<1>3. \A m \in 0..n : e[m] \in {TRUE}
  BY <1>1, <1>2, InductionLemma
<1> QED BY <1>3 DEF e

LEMMA UsedNat ==
    ASSUME NEW q \in Queues
    PROVE  Used(q) \in Nat
<1>1. PICK g \in [0..Len(q) -> Nat] : Sums(g, q) /\ Used(q) = g[Len(q)]
  BY UsedLemma
<1> QED BY <1>1 DEF Queues

LEMMA UsedSame ==
    ASSUME NEW p \in Queues, NEW q \in Queues, Len(p) = Len(q),
           \A m \in 1..Len(p) : p[m].length = q[m].length
    PROVE  Used(p) = Used(q)
<1>1. PICK f \in [0..Len(p) -> Nat] : Sums(f, p) /\ Used(p) = f[Len(p)]
  BY UsedLemma
<1>2. PICK g \in [0..Len(q) -> Nat] : Sums(g, q) /\ Used(q) = g[Len(q)]
  BY UsedLemma
<1>3. Len(p) \in Nat /\ Len(p) \in 0..Len(p)
  BY DEF Queues
<1>4. Agree(f, p, g, q, Len(p))
  BY <1>1, <1>2, <1>3 DEF Agree
<1>5. f[Len(p)] = g[Len(p)]
  BY <1>3, <1>4, SumsAgree
<1> QED BY <1>1, <1>2, <1>5

LEMMA UsedAppend ==
    ASSUME NEW q \in Queues, NEW item \in QueueItem
    PROVE  Used(Append(q, item)) = Used(q) + SizeOf(item)
<1> DEFINE p == Append(q, item)
           n == Len(q)
<1>1. /\ p \in Queues /\ Len(p) = n + 1 /\ p[n + 1] = item /\ n \in Nat
      /\ \A m \in 1..n : p[m] = q[m]
  BY DEF Queues
<1> HIDE DEF p, n
<1>2. PICK f \in [0..Len(p) -> Nat] : Sums(f, p) /\ Used(p) = f[Len(p)]
  BY <1>1, UsedLemma
<1>3. PICK g \in [0..Len(q) -> Nat] : Sums(g, q) /\ Used(q) = g[Len(q)]
  BY UsedLemma
<1>4. \A m \in 0..n : f[m] = g[m]
  <2>1. n <= Len(p) /\ n <= Len(q) /\ \A m \in 1..n : p[m].length = q[m].length
    BY <1>1 DEF n
  <2>2. p \in Queues /\ n \in Nat /\ Agree(f, p, g, q, n)
    BY <1>1, <1>2, <1>3, <2>1 DEF Agree
  <2> QED BY <2>2, SumsAgree
<1>5. f[n + 1] = f[n] + SizeOf(item)
  <2>1. n + 1 \in 1..Len(p) /\ (n + 1) - 1 = n
    BY <1>1
  <2>2. f[n + 1] = f[(n + 1) - 1] + SizeOf(p[n + 1])
    BY <1>2, <2>1 DEF Sums
  <2> QED BY <1>1, <2>1, <2>2
<1>6. f[n] = g[n]
  BY <1>1, <1>4
<1>7. Used(p) = Used(q) + SizeOf(item)
  BY <1>1, <1>2, <1>3, <1>5, <1>6 DEF n
<1> QED BY <1>7 DEF p

LEMMA UsedRemove ==
    ASSUME NEW q \in Queues, NEW k \in 1..Len(q)
    PROVE  Used(RemoveAt(q, k)) = Used(q) - SizeOf(q[k])
<1> DEFINE p == RemoveAt(q, k)
           n == Len(q)
<1>1. /\ p \in Queues /\ Len(p) = n - 1 /\ n \in Nat /\ k \in 1..n
      /\ \A m \in 1..(n - 1) : p[m] = IF m < k THEN q[m] ELSE q[m + 1]
  BY RemoveAtLemma DEF Queues
<1> HIDE DEF p, n
<1>2. PICK f \in [0..Len(p) -> Nat] : Sums(f, p) /\ Used(p) = f[Len(p)]
  BY <1>1, UsedLemma
<1>3. PICK g \in [0..Len(q) -> Nat] : Sums(g, q) /\ Used(q) = g[Len(q)]
  BY UsedLemma
<1>s. n = Len(q) /\ \A m \in 1..n : SizeOf(q[m]) \in Nat
  BY <1>1, SizeOfLemma DEF n, Queues
<1>4. f[k - 1] = g[k - 1]
  <2>1. k - 1 \in Nat /\ k - 1 <= Len(p) /\ k - 1 <= Len(q) /\ k - 1 \in 0..(k - 1)
    BY <1>1, <1>s
  <2>2. \A m \in 1..(k - 1) : p[m].length = q[m].length
    BY <1>1
  <2>3. \A m \in 0..(k - 1) : f[m] = g[m]
    <3>1. p \in Queues /\ Agree(f, p, g, q, k - 1)
      BY <1>1, <1>2, <1>3, <2>1, <2>2 DEF Agree
    <3> QED BY <2>1, <3>1, SumsAgree
  <2> QED BY <2>1, <2>3
<1> DEFINE e == [i \in 0..(n - k) |-> f[(k - 1) + i] + SizeOf(q[k]) = g[k + i]]
<1>5. e[0] \in {TRUE}
  <2>1. g[k] = g[k - 1] + SizeOf(q[k])
    BY <1>1, <1>3, <1>s DEF Sums
  <2>2. 0 \in 0..(n - k) /\ (k - 1) + 0 = k - 1 /\ k + 0 = k
    BY <1>1
  <2> QED BY <1>4, <2>1, <2>2
<1>6. ASSUME NEW i \in 1..(n - k), e[i - 1] \in {TRUE}
      PROVE  e[i] \in {TRUE}
  <2> DEFINE m == (k - 1) + i
  <2>1. /\ m \in 1..Len(p) /\ m + 1 \in 1..Len(q) /\ (k - 1) + (i - 1) = m - 1 /\ k + (i - 1) = m
        /\ k + i = m + 1 /\ (m + 1) - 1 = m /\ ~(m < k) /\ m \in 1..(n - 1)
        /\ i - 1 \in 0..(n - k) /\ i \in 0..(n - k) /\ m - 1 \in 0..Len(p)
    BY <1>1, <1>s
  <2> HIDE DEF m
  <2>2. f[m - 1] + SizeOf(q[k]) = g[m]
    BY <1>6, <2>1
  <2>3. f[m] = f[m - 1] + SizeOf(p[m])
    BY <1>2, <2>1 DEF Sums
  <2>4. g[m + 1] = g[m] + SizeOf(q[m + 1])
    BY <1>3, <2>1 DEF Sums
  <2>5. p[m] = q[m + 1]
    BY <1>1, <2>1
  <2>6. f[m - 1] \in Nat /\ SizeOf(q[m + 1]) \in Nat /\ SizeOf(q[k]) \in Nat
    BY <1>1, <1>2, <1>s, <2>1
  <2>7. f[m] + SizeOf(q[k]) = g[m + 1]
    BY <2>2, <2>3, <2>4, <2>5, <2>6
  <2>8. e[i] = (f[m] + SizeOf(q[k]) = g[m + 1])
    BY <2>1 DEF m
  <2> QED BY <2>7, <2>8
<1> HIDE DEF e
<1>7. n - k \in Nat /\ n - k \in 0..(n - k)
  BY <1>1
<1>8. e[n - k] \in {TRUE}
  BY <1>5, <1>6, <1>7, InductionLemma
<1>9. f[n - 1] + SizeOf(q[k]) = g[n]
  <2>1. (k - 1) + (n - k) = n - 1 /\ k + (n - k) = n
    BY <1>1
  <2> QED BY <1>7, <1>8, <2>1 DEF e
<1>10. f[n - 1] \in Nat /\ g[n] \in Nat /\ SizeOf(q[k]) \in Nat
  <2>1. n - 1 \in 0..Len(p) /\ n \in 0..Len(q)
    BY <1>1, <1>s
  <2> QED BY <1>1, <1>2, <1>3, <1>s, <2>1
<1>11. Used(p) = Used(q) - SizeOf(q[k])
  BY <1>1, <1>2, <1>3, <1>9, <1>10, <1>s
<1> QED BY <1>11 DEF p

-----------------------------------------------------------------------------
(* Syslog: the places of a number in the logs.                             *)
IsPlace(x, l, e) ==
    \E c \in ToSet(Filters) : \E j \in DOMAIN l[c] : x = <<c, j>> /\ l[c][j] = e

LEMMA PlaceLemma ==
    ASSUME NEW l, NEW e, NEW x
    PROVE  x \in PlacesOf(l, e) <=> IsPlace(x, l, e)
<1> DEFINE in(c) == {<<c, j>> : j \in {i \in DOMAIN l[c] : l[c][i] = e}}
<1>1. x \in PlacesOf(l, e) <=> \E c \in ToSet(Filters) : x \in in(c)
  BY Zenon DEF PlacesOf
<1>2. ASSUME NEW c PROVE x \in in(c) <=> \E j \in DOMAIN l[c] : x = <<c, j>> /\ l[c][j] = e
  OBVIOUS
<1> HIDE DEF in
<1> QED BY <1>1, <1>2, Zenon DEF IsPlace

Landed(l, d, id) == [l EXCEPT ![d] = Append(@, id)]

LEMMA LandLemma ==
    ASSUME NEW l \in Logs, NEW d \in ToSet(Filters), NEW u \in Nat, NEW id \in 1..u,
           LogOK(l, u), Cop(l, id) <= MaxFailures - 1,
           NEW l2, l2 = Landed(l, d, id)
    PROVE  /\ l2 \in Logs
           /\ LogOK(l2, u)
           /\ Cop(l2, id) = Cop(l, id) + 1
           /\ \A e \in 1..u : e # id => Cop(l2, e) = Cop(l, e)
           /\ Got(l2, id)
           /\ \A e : Got(l, e) => Got(l2, e)
<1> DEFINE n == Len(l[d])
<1>1. /\ n \in Nat /\ l[d] \in Seq(Nat \ {0}) /\ DOMAIN l[d] = 1..n
      /\ l2[d] = Append(l[d], id) /\ id \in Nat \ {0}
      /\ \A c \in ToSet(Filters) : c # d => l2[c] = l[c]
  BY DEF Logs, Landed
<1>2. /\ l2[d] \in Seq(Nat \ {0}) /\ Len(l2[d]) = n + 1 /\ DOMAIN l2[d] = 1..(n + 1)
      /\ l2[d][n + 1] = id /\ \A j \in 1..n : l2[d][j] = l[d][j]
  BY <1>1
<1> HIDE DEF n
<1>3. l2 \in Logs
  <2>1. l2 = [c \in ToSet(Filters) |-> IF c = d THEN l2[d] ELSE l[c]]
    BY <1>1 DEF Logs, Landed
  <2> QED BY <1>2, <2>1 DEF Logs
<1>4. /\ n + 1 \in 1..(n + 1) /\ n + 1 \notin 1..n
      /\ \A j \in 1..n : j \in 1..(n + 1)
      /\ \A j \in 1..(n + 1) : j = n + 1 \/ j \in 1..n
  BY <1>1
<1>5. /\ PlacesOf(l2, id) = PlacesOf(l, id) \union {<<d, n + 1>>}
      /\ <<d, n + 1>> \notin PlacesOf(l, id)
  <2>1. ASSUME NEW x \in PlacesOf(l2, id)
        PROVE  x \in PlacesOf(l, id) \union {<<d, n + 1>>}
    <3>0. PICK c \in ToSet(Filters) : \E i \in DOMAIN l2[c] : x = <<c, i>> /\ l2[c][i] = id
      BY <2>1, PlaceLemma DEF IsPlace
    <3>1. PICK j \in DOMAIN l2[c] : x = <<c, j>> /\ l2[c][j] = id
      BY <3>0
    <3>2. CASE c # d
      <4>1. j \in DOMAIN l[c] /\ l[c][j] = id
        BY <1>1, <3>1, <3>2
      <4> QED BY <3>1, <4>1, PlaceLemma DEF IsPlace
    <3>3. CASE c = d /\ j \in 1..n
      <4>1. j \in DOMAIN l[c] /\ l[c][j] = id
        BY <1>1, <1>2, <3>1, <3>3
      <4> QED BY <3>1, <4>1, PlaceLemma DEF IsPlace
    <3>4. CASE c = d /\ j = n + 1
      BY <3>1, <3>4
    <3>5. ASSUME c = d PROVE j = n + 1 \/ j \in 1..n
      <4>1. j \in DOMAIN l2[d]
        BY <3>1, <3>5
      <4>2. j \in 1..(n + 1)
        BY <1>2, <4>1
      <4>3. n \in Nat
        BY <1>1
      <4> QED BY <4>2, <4>3
    <3> QED BY <3>2, <3>3, <3>4, <3>5
  <2>2. ASSUME NEW x \in PlacesOf(l, id)
        PROVE  x \in PlacesOf(l2, id) /\ x # <<d, n + 1>>
    <3>0. PICK c \in ToSet(Filters) : \E i \in DOMAIN l[c] : x = <<c, i>> /\ l[c][i] = id
      BY <2>2, PlaceLemma DEF IsPlace
    <3>1. PICK j \in DOMAIN l[c] : x = <<c, j>> /\ l[c][j] = id
      BY <3>0
    <3>2. j \in DOMAIN l2[c] /\ l2[c][j] = id
      <4>1. CASE c = d
        BY <1>1, <1>2, <1>4, <3>1, <4>1
      <4>2. CASE c # d
        BY <1>1, <3>1, <4>2
      <4> QED BY <4>1, <4>2
    <3>3. x # <<d, n + 1>>
      BY <1>1, <1>4, <3>1
    <3> QED BY <3>1, <3>2, <3>3, PlaceLemma DEF IsPlace
  <2>3. <<d, n + 1>> \in PlacesOf(l2, id)
    BY <1>2, <1>4, PlaceLemma DEF IsPlace
  <2> QED BY <2>1, <2>2, <2>3, Zenon
<1>6. ASSUME NEW e, e # id
      PROVE  PlacesOf(l2, e) = PlacesOf(l, e)
  <2>1. ASSUME NEW x \in PlacesOf(l2, e)
        PROVE  x \in PlacesOf(l, e)
    <3>0. PICK c \in ToSet(Filters) : \E i \in DOMAIN l2[c] : x = <<c, i>> /\ l2[c][i] = e
      BY <2>1, PlaceLemma DEF IsPlace
    <3>1. PICK j \in DOMAIN l2[c] : x = <<c, j>> /\ l2[c][j] = e
      BY <3>0
    <3>2. CASE c # d
      <4>1. j \in DOMAIN l[c] /\ l[c][j] = e
        BY <1>1, <3>1, <3>2
      <4> QED BY <3>1, <4>1, PlaceLemma DEF IsPlace
    <3>3. CASE c = d
      <4>0. j \in 1..(n + 1) /\ l2[d][j] = e
        BY <1>2, <3>1, <3>3
      <4>2. j \in 1..n
        <5>1. n \in Nat /\ l2[d][n + 1] = id
          BY <1>1, <1>2
        <5>2. j # n + 1
          BY <1>6, <4>0, <5>1
        <5> QED BY <4>0, <5>1, <5>2
      <4>1. j \in DOMAIN l[c] /\ l[c][j] = e
        BY <1>1, <1>2, <3>3, <4>0, <4>2
      <4> QED BY <3>1, <4>1, PlaceLemma DEF IsPlace
    <3> QED BY <3>2, <3>3
  <2>2. ASSUME NEW x \in PlacesOf(l, e)
        PROVE  x \in PlacesOf(l2, e)
    <3>0. PICK c \in ToSet(Filters) : \E i \in DOMAIN l[c] : x = <<c, i>> /\ l[c][i] = e
      BY <2>2, PlaceLemma DEF IsPlace
    <3>1. PICK j \in DOMAIN l[c] : x = <<c, j>> /\ l[c][j] = e
      BY <3>0
    <3>2. j \in DOMAIN l2[c] /\ l2[c][j] = e
      <4>1. CASE c = d
        BY <1>1, <1>2, <1>4, <3>1, <4>1
      <4>2. CASE c # d
        BY <1>1, <3>1, <4>2
      <4> QED BY <4>1, <4>2
    <3> QED BY <3>1, <3>2, PlaceLemma DEF IsPlace
  <2> QED BY <2>1, <2>2, Zenon
<1>7. /\ \A e \in 1..u : e # id => Cop(l2, e) = Cop(l, e) /\ PlacesOf(l2, e) = PlacesOf(l, e)
      /\ \A e \in 1..u : IsFiniteSet(PlacesOf(l, e)) /\ Cop(l, e) <= MaxFailures
  BY <1>6, Zenon DEF Cop, LogOK
<1>8. /\ Cop(l2, id) = Cop(l, id) + 1 /\ IsFiniteSet(PlacesOf(l2, id))
      /\ Cop(l2, id) <= MaxFailures
  <2>0. IsFiniteSet(PlacesOf(l, id))
    BY <1>7
  <2>1. /\ IsFiniteSet(PlacesOf(l2, id))
        /\ Cardinality(PlacesOf(l2, id)) = Cardinality(PlacesOf(l, id)) + 1
    BY <1>5, <2>0, FS_AddElement
  <2>2. Cop(l, id) \in Nat /\ MaxFailures \in Nat
    BY <1>7, FS_CardinalityType, SyslogAssumption DEF Cop
  <2>3. Cop(l2, id) = Cop(l, id) + 1
    BY <2>1, Zenon DEF Cop
  <2> QED BY <2>1, <2>2, <2>3
<1>9. \A e \in 1..u : IsFiniteSet(PlacesOf(l2, e)) /\ Cop(l2, e) <= MaxFailures
  <2>1. ASSUME NEW e \in 1..u
        PROVE  IsFiniteSet(PlacesOf(l2, e)) /\ Cop(l2, e) <= MaxFailures
    <3>1. CASE e = id
      BY <1>8, <3>1
    <3>2. CASE e # id
      BY <1>7, <3>2, Zenon
    <3> QED BY <3>1, <3>2
  <2> QED BY <2>1
<1>10. \A c \in ToSet(Filters) : \A j \in DOMAIN l2[c] : l2[c][j] <= u
  <2>1. ASSUME NEW c \in ToSet(Filters), NEW j \in DOMAIN l2[c]
        PROVE  l2[c][j] <= u
    <3>1. \A i \in DOMAIN l[c] : l[c][i] <= u
      BY DEF LogOK
    <3>2. CASE c # d
      BY <1>1, <3>1, <3>2
    <3>3. CASE c = d /\ j = n + 1
      BY <1>2, <3>3
    <3>4. CASE c = d /\ j \in 1..n
      BY <1>1, <1>2, <3>1, <3>4
    <3>5. ASSUME c = d PROVE j = n + 1 \/ j \in 1..n
      <4>1. j \in DOMAIN l2[d]
        BY <3>5
      <4>2. j \in 1..(n + 1)
        BY <1>2, <4>1
      <4>3. n \in Nat
        BY <1>1
      <4> QED BY <4>2, <4>3
    <3> QED BY <3>2, <3>3, <3>4, <3>5
  <2> QED BY <2>1
<1>11. Got(l2, id)
  <2>1. Contains(l2[d], id)
    BY <1>2, <1>4 DEF Contains
  <2> QED BY <2>1 DEF Got
<1>12. ASSUME NEW e, Got(l, e) PROVE Got(l2, e)
  <2>1. PICK c \in ToSet(Filters) : Contains(l[c], e)
    BY <1>12 DEF Got
  <2>2. Contains(l2[c], e)
    <3>1. CASE c # d
      BY <1>1, <2>1, <3>1
    <3>2. CASE c = d
      <4>1. PICK j \in 1..n : l[d][j] = e
        BY <2>1, <3>2 DEF Contains, n
      <4>2. l2[d][j] = e /\ j \in 1..Len(l2[d])
        BY <1>2, <1>4, <4>1
      <4> QED BY <3>2, <4>2 DEF Contains
    <3> QED BY <3>1, <3>2
  <2> QED BY <2>2 DEF Got
<1>13. LogOK(l2, u)
  BY <1>9, <1>10 DEF LogOK
<1>14. \A e \in 1..u : e # id => Cop(l2, e) = Cop(l, e)
  BY <1>7, Zenon
<1> QED BY <1>3, <1>8, <1>11, <1>12, <1>13, <1>14

(* A number that was not given has no place.                               *)
LEMMA NewNumber ==
    ASSUME NEW l \in Logs, NEW u \in Nat, LogOK(l, u)
    PROVE  Cop(l, u + 1) = 0 /\ LogOK(l, u + 1)
<1>1. \A d \in ToSet(Filters) : \A j \in DOMAIN l[d] : l[d][j] \in Nat /\ l[d][j] <= u
  <2>1. \A d \in ToSet(Filters) : l[d] \in Seq(Nat \ {0})
    BY DEF Logs
  <2> QED BY <2>1 DEF LogOK
<1>2. PlacesOf(l, u + 1) = {}
  <2>1. ASSUME NEW x \in PlacesOf(l, u + 1) PROVE FALSE
    <3>0. PICK c \in ToSet(Filters) : \E i \in DOMAIN l[c] : x = <<c, i>> /\ l[c][i] = u + 1
      BY <2>1, PlaceLemma DEF IsPlace
    <3>1. PICK j \in DOMAIN l[c] : x = <<c, j>> /\ l[c][j] = u + 1
      BY <3>0
    <3> QED BY <1>1, <3>1
  <2> QED BY <2>1
<1>3. Cop(l, u + 1) = 0 /\ IsFiniteSet(PlacesOf(l, u + 1))
  BY <1>2, FS_EmptySet DEF Cop
<1>4. MaxFailures \in Nat
  BY SyslogAssumption
<1>5. \A id \in 1..(u + 1) : IsFiniteSet(PlacesOf(l, id)) /\ Cop(l, id) <= MaxFailures
  <2>1. \A id \in 1..(u + 1) : id = u + 1 \/ id \in 1..u
    OBVIOUS
  <2>2. \A id \in 1..u : IsFiniteSet(PlacesOf(l, id)) /\ Cop(l, id) <= MaxFailures
    BY DEF LogOK
  <2>3. Cop(l, u + 1) <= MaxFailures
    BY <1>3, <1>4
  <2> QED BY <1>3, <2>1, <2>2, <2>3, Zenon
<1>6. \A d \in ToSet(Filters) : \A j \in DOMAIN l[d] : l[d][j] <= u + 1
  BY <1>1
<1> QED BY <1>3, <1>5, <1>6 DEF LogOK

LEMMA CopNat ==
    ASSUME NEW l, NEW u \in Nat, LogOK(l, u), NEW id \in 1..u
    PROVE  Cop(l, id) \in Nat /\ Cop(l, id) <= MaxFailures
<1>1. IsFiniteSet(PlacesOf(l, id)) /\ Cop(l, id) <= MaxFailures
  BY DEF LogOK
<1> QED BY <1>1, FS_CardinalityType DEF Cop

-----------------------------------------------------------------------------
(* Syslog: changes of the queue.  Two items that differ in their lock and  *)
(* in their failures only.                                                 *)
SameItem(a, b) == a.id = b.id /\ a.length = b.length /\ a.to = b.to

SameButOne(p, q, k) ==
    /\ Len(p) = Len(q) /\ SameItem(p[k], q[k])
    /\ \A j \in 1..Len(q) : j # k => p[j] = q[j]

LEMMA RemovedLemma ==
    ASSUME NEW q \in Queues, NEW p \in Queues, NEW k \in 1..Len(q), NEW u \in Nat,
           Distinct(q, u), SameButOne(p, q, k)
    PROVE  /\ RemoveAt(p, k) \in Queues
           /\ Distinct(RemoveAt(p, k), u)
           /\ Used(RemoveAt(p, k)) = Used(q) - SizeOf(q[k])
           /\ \A i \in DOMAIN RemoveAt(p, k) : RemoveAt(p, k)[i].id # q[k].id
           /\ \A i \in DOMAIN RemoveAt(p, k) : \E j \in DOMAIN q : RemoveAt(p, k)[i] = q[j]
           /\ QueuedIn(q) \subseteq QueuedIn(RemoveAt(p, k)) \union {q[k].id}
<1> DEFINE r == RemoveAt(p, k)
           n == Len(q)
           at == [i \in 1..(n - 1) |-> IF i < k THEN i ELSE i + 1]
<1>1. /\ r \in Queues /\ Len(r) = n - 1 /\ n \in Nat /\ k \in 1..n
      /\ \A i \in 1..(n - 1) : r[i] = IF i < k THEN p[i] ELSE p[i + 1]
  <2>1. p \in Seq(QueueItem) /\ q \in Seq(QueueItem) /\ k \in 1..Len(p) /\ Len(p) = Len(q)
    BY DEF Queues, SameButOne
  <2> HIDE DEF r
  <2>2. /\ r \in Seq(QueueItem) /\ Len(r) = Len(p) - 1
        /\ \A i \in 1..(Len(p) - 1) : r[i] = IF i < k THEN p[i] ELSE p[i + 1]
    BY <2>1, RemoveAtLemma DEF r
  <2>3. n \in Nat /\ Len(p) = n
    BY <2>1
  <2> QED BY <2>1, <2>2, <2>3 DEF Queues
<1>2. Used(r) = Used(p) - SizeOf(p[k])
  <2>1. k \in 1..Len(p)
    BY DEF SameButOne
  <2> QED BY <2>1, UsedRemove
<1>3. DOMAIN r = 1..(n - 1) /\ DOMAIN q = 1..n
  BY <1>1 DEF Queues
<1> HIDE DEF r
<1>4. \A i \in 1..(n - 1) : at[i] \in 1..n /\ at[i] # k
  BY <1>1
<1>5. \A i \in 1..(n - 1) : r[i] = q[at[i]]
  <2>1. \A i \in 1..(n - 1) : r[i] = p[at[i]]
    BY <1>1
  <2> HIDE DEF at, n
  <2>2. \A i \in 1..(n - 1) : p[at[i]] = q[at[i]]
    BY <1>4 DEF n, SameButOne
  <2> QED BY <2>1, <2>2
<1>6. \A i, j \in 1..(n - 1) : at[i] = at[j] => i = j
  BY <1>1
<1>7. \A j \in 1..n : j = k \/ \E i \in 1..(n - 1) : at[i] = j
  <2>1. ASSUME NEW j \in 1..n, j # k PROVE \E i \in 1..(n - 1) : at[i] = j
    <3>1. CASE j < k
      <4>1. j \in 1..(n - 1) /\ at[j] = j
        BY <1>1, <3>1
      <4> QED BY <4>1
    <3>2. CASE j > k
      <4>1. j - 1 \in 1..(n - 1) /\ at[j - 1] = j
        BY <1>1, <3>2
      <4> QED BY <4>1
    <3> QED BY <1>1, <2>1, <3>1, <3>2
  <2> QED BY <2>1
<1> HIDE DEF at, n
<1>8. Used(p) = Used(q) /\ SizeOf(p[k]) = SizeOf(q[k])
  <2>1. \A j \in 1..Len(p) : p[j].length = q[j].length
    BY DEF SameItem, SameButOne
  <2>2. Len(p) = Len(q) /\ SameItem(p[k], q[k])
    BY DEF SameButOne
  <2> QED BY <2>1, <2>2, UsedSame DEF SizeOf, SameItem
<1>9. /\ \A i, j \in 1..n : q[i].id = q[j].id => i = j
      /\ \A i \in 1..n : q[i].id <= u
  BY <1>3 DEF Distinct
<1>10. Distinct(r, u)
  <2>1. ASSUME NEW i \in 1..(n - 1), NEW j \in 1..(n - 1), r[i].id = r[j].id PROVE i = j
    <3>0. /\ r[i] = q[at[i]] /\ r[j] = q[at[j]]
          /\ at[i] \in 1..n /\ at[j] \in 1..n
      BY <1>4, <1>5
    <3>1. at[i] = at[j]
      BY <1>9, <2>1, <3>0
    <3> QED BY <1>6, <3>1
  <2>2. \A i \in 1..(n - 1) : r[i].id <= u
    BY <1>4, <1>5, <1>9
  <2> QED BY <1>3, <2>1, <2>2 DEF Distinct
<1>11. \A i \in DOMAIN r : r[i].id # q[k].id
  <2>1. ASSUME NEW i \in 1..(n - 1) PROVE r[i].id # q[k].id
    <3>1. r[i] = q[at[i]] /\ at[i] \in 1..n /\ at[i] # k /\ k \in 1..n
      BY <1>1, <1>4, <1>5
    <3> QED BY <1>9, <3>1
  <2> QED BY <1>3, <2>1
<1>12. \A i \in DOMAIN r : \E j \in DOMAIN q : r[i] = q[j]
  BY <1>3, <1>4, <1>5
<1>13. QueuedIn(q) \subseteq QueuedIn(r) \union {q[k].id}
  <2>1. ASSUME NEW x \in QueuedIn(q), x # q[k].id PROVE x \in QueuedIn(r)
    <3>1. PICK j \in 1..n : q[j].id = x
      BY <1>3, <2>1 DEF QueuedIn
    <3>2. PICK i \in 1..(n - 1) : at[i] = j
      BY <1>7, <2>1, <3>1
    <3>3. r[i].id = x /\ i \in DOMAIN r
      BY <1>3, <1>5, <3>1, <3>2
    <3> QED BY <3>3 DEF QueuedIn
  <2> QED BY <2>1
<1>14. Used(r) = Used(q) - SizeOf(q[k])
  BY <1>2, <1>8
<1> QED BY <1>1, <1>10, <1>11, <1>12, <1>13, <1>14 DEF r

(* One item is replaced by one with the same number.                       *)
Replaces(p, q, k, item) == p = [q EXCEPT ![k] = item] /\ SameItem(item, q[k])

LEMMA ReplacedLemma ==
    ASSUME NEW q \in Queues, NEW k \in 1..Len(q), NEW item \in QueueItem,
           NEW p, Replaces(p, q, k, item)
    PROVE  /\ p \in Queues /\ Len(p) = Len(q) /\ DOMAIN p = DOMAIN q
           /\ p[k] = item /\ \A j \in 1..Len(q) : j # k => p[j] = q[j]
           /\ \A j \in 1..Len(q) : SameItem(p[j], q[j])
           /\ \A u : Distinct(q, u) => Distinct(p, u)
           /\ Used(p) = Used(q)
           /\ QueuedIn(p) = QueuedIn(q)
<1>1. /\ p \in Queues /\ Len(p) = Len(q) /\ DOMAIN p = 1..Len(q) /\ DOMAIN q = 1..Len(q)
      /\ p[k] = item /\ \A j \in 1..Len(q) : j # k => p[j] = q[j]
  BY DEF Queues, Replaces
<1>2. \A j \in 1..Len(q) : SameItem(p[j], q[j])
  BY <1>1 DEF SameItem, Replaces
<1>3. \A j \in 1..Len(q) : p[j].id = q[j].id /\ p[j].length = q[j].length
  BY <1>2 DEF SameItem
<1>4. \A u : Distinct(q, u) => Distinct(p, u)
  BY <1>1, <1>3 DEF Distinct
<1>5. Used(p) = Used(q)
  BY <1>1, <1>3, UsedSame
<1>6. QueuedIn(p) = QueuedIn(q)
  BY <1>1, <1>3 DEF QueuedIn
<1> QED BY <1>1, <1>2, <1>4, <1>5, <1>6

LEMMA FieldsLemma ==
    ASSUME NEW s \in States
    PROVE  /\ s.items \in Queues /\ s.curSize \in Nat /\ s.uniqueId \in Nat
           /\ s.tcp \in Conns /\ s.arrived \in Flags /\ s.log \in Logs
           /\ s.client \in [Tcp -> {"closed", "connecting", "connected", "closing"}]
           /\ s.done \in SUBSET Nat /\ s.given \in SUBSET Nat /\ s.pos \in Nat \ {0}
BY DEF States

(* All but what an answer changes is the same.                             *)
Around(r, s) ==
    /\ r.uniqueId = s.uniqueId /\ r.tcp = s.tcp /\ r.client = s.client
    /\ r.arrived = s.arrived /\ r.log = s.log /\ r.pos = s.pos

Queue(s, q, size, sent, lost) ==
    [s EXCEPT !.items = q, !.curSize = size, !.done = sent, !.given = lost]

LEMMA QueueLemma ==
    ASSUME NEW s \in States, NEW q \in Queues, NEW size \in Nat,
           NEW sent \in SUBSET Nat, NEW lost \in SUBSET Nat
    PROVE  \A r : r = Queue(s, q, size, sent, lost) =>
              /\ r \in States /\ Around(r, s)
              /\ r.items = q /\ r.curSize = size /\ r.done = sent /\ r.given = lost
<1> DEFINE r == Queue(s, q, size, sent, lost)
<1>1. r \in States
  BY DEF States, Queue
<1>2. r.items = q /\ r.curSize = size /\ r.done = sent /\ r.given = lost /\ Around(r, s)
  BY DEF States, Queue, Around
<1> QED BY <1>1, <1>2

(* A destination stays right when the queue loses items.                   *)
Fewer(r, q) == \A i \in DOMAIN r : \E j \in DOMAIN q : r[i].id = q[j].id /\ r[i].to = q[j].to

LEMMA SendersFewer ==
    ASSUME NEW q, NEW r, NEW u, NEW t, NEW a, NEW l, Fewer(r, q), SendersOK(q, u, t, a, l)
    PROVE  SendersOK(r, u, t, a, l)
<1>1. ASSUME NEW d \in Tcp, t[d].isSending, NEW i \in DOMAIN r, r[i].id = t[d].id
      PROVE  r[i].to = d
  <2>1. PICK j \in DOMAIN q : r[i].id = q[j].id /\ r[i].to = q[j].to
    BY DEF Fewer
  <2>2. \A x \in DOMAIN q : q[x].id = t[d].id => q[x].to = d
    BY <1>1 DEF SenderOK, SendersOK
  <2> QED BY <1>1, <2>1, <2>2
<1>2. ASSUME NEW d \in Tcp PROVE SenderOK(d, r, u, t, a, l)
  <2>1. SenderOK(d, q, u, t, a, l)
    BY DEF SendersOK
  <2> QED BY <1>1, <2>1, Zenon DEF SenderOK
<1> QED BY <1>2 DEF SendersOK

(* The message id of the state s is to be answered: nobody is sending it   *)
(* any more, and if it is queued it is locked.                             *)
AwaitedItem(item, l) == item.locked /\ Cop(l, item.id) <= item.failures + 1
NobodySends(t, id) == \A d \in Tcp : ~(t[d].isSending /\ t[d].id = id)
Awaiting(s, id, success) ==
    /\ Base(s)
    /\ NobodySends(s.tcp, id)
    /\ id \in 1..s.uniqueId
    /\ success => Got(s.log, id)
    /\ \A k \in DOMAIN s.items :
          IF s.items[k].id = id THEN AwaitedItem(s.items[k], s.log)
          ELSE ItemOK(s.items[k], s.tcp, s.arrived, s.log)

(* ... and is taken out of the queue, as sent or as given up.              *)
LEMMA LeaveLemma ==
    ASSUME NEW s \in States, NEW id, NEW k \in DOMAIN s.items, s.items[k].id = id,
           NEW success, Awaiting(s, id, success),
           NEW p \in Queues, SameButOne(p, s.items, k),
           NEW sent, NEW lost, s.done \subseteq sent, s.given \subseteq lost,
           sent \subseteq s.done \union {id}, lost \subseteq s.given \union {id},
           id \in sent \union lost, id \in sent => Got(s.log, id),
           NEW r, r = Queue(s, RemoveAt(p, k), s.curSize - SizeOf(p[k]), sent, lost)
    PROVE  r \in States /\ Around(r, s) /\ Good(r)
<1> DEFINE q == s.items
           q2 == RemoveAt(p, k)
           size == s.curSize - SizeOf(p[k])
           u == s.uniqueId
<1>1. /\ q \in Queues /\ u \in Nat /\ s.curSize \in Nat
      /\ s.done \in SUBSET Nat /\ s.given \in SUBSET Nat
  BY FieldsLemma
<1>2. k \in 1..Len(q) /\ Len(q) \in Nat
  BY <1>1 DEF Queues
<1>3. Base(s) /\ NobodySends(s.tcp, id) /\ id \in 1..u
  BY DEF Awaiting
<1>4. /\ Distinct(q, u) /\ SizeOK(q, s.curSize) /\ LogOK(s.log, u)
      /\ KeptOK(q, u, s.log, s.done, s.given)
      /\ SendersOK(q, u, s.tcp, s.arrived, s.log)
  BY <1>3 DEF Base
<1>5. \A j \in DOMAIN q : q[j].id # id => ItemOK(q[j], s.tcp, s.arrived, s.log)
  BY DEF Awaiting
<1> HIDE DEF q, q2, u
<1>6. /\ q2 \in Queues /\ Distinct(q2, u) /\ Used(q2) = Used(q) - SizeOf(q[k])
      /\ \A i \in DOMAIN q2 : q2[i].id # q[k].id
      /\ \A i \in DOMAIN q2 : \E j \in DOMAIN q : q2[i] = q[j]
      /\ QueuedIn(q) \subseteq QueuedIn(q2) \union {q[k].id}
  <2>1. SameButOne(p, q, k)
    BY DEF q
  <2> QED BY <1>1, <1>2, <1>4, <2>1, RemovedLemma DEF q2
<1>7. q[k].id = id /\ SizeOf(p[k]) = SizeOf(q[k])
  BY DEF q, SameItem, SizeOf, SameButOne
<1>8. size \in Nat /\ SizeOK(q2, size)
  <2>1. Used(q2) \in Nat /\ Used(q2) = Used(q) - SizeOf(q[k])
    BY <1>6, UsedNat
  <2>2. q[k] \in QueueItem
    BY <1>1, <1>2 DEF Queues
  <2>3. SizeOf(q[k]) \in Nat
    BY <2>2, SizeOfLemma
  <2>4. s.curSize = Used(q) /\ s.curSize <= MaxSize /\ MaxSize \in Nat
    BY <1>4, SyslogAssumption DEF SizeOK
  <2> QED BY <1>1, <1>7, <2>1, <2>3, <2>4 DEF SizeOK
<1> HIDE DEF size
<1>9. sent \in SUBSET Nat /\ lost \in SUBSET Nat
  BY <1>1, <1>3
<1>10. r = Queue(s, q2, size, sent, lost)
  BY DEF q2, size
<1>11. /\ r \in States /\ Around(r, s)
       /\ r.items = q2 /\ r.curSize = size /\ r.done = sent /\ r.given = lost
  BY <1>6, <1>8, <1>9, <1>10, QueueLemma
<1>12. KeptOK(q2, u, s.log, sent, lost)
  <2>1. /\ s.done \subseteq 1..u /\ s.given \subseteq 1..u
        /\ \A e \in s.done : Got(s.log, e)
        /\ \A e \in 1..u : e \in QueuedIn(q) \union s.done \union s.given
    BY <1>4 DEF KeptOK
  <2>2. sent \subseteq 1..u /\ lost \subseteq 1..u
    BY <1>3, <2>1
  <2>3. \A e \in sent : Got(s.log, e)
    BY <2>1
  <2>4. \A e \in 1..u : e \in QueuedIn(q2) \union sent \union lost
    BY <1>6, <1>7, <2>1
  <2> QED BY <2>2, <2>3, <2>4 DEF KeptOK
<1>13. SendersOK(q2, u, s.tcp, s.arrived, s.log)
  <2>1. Fewer(q2, q)
    BY <1>6 DEF Fewer
  <2> QED BY <1>4, <2>1, SendersFewer
<1>14. ItemsOK(q2, s.tcp, s.arrived, s.log)
  <2>1. ASSUME NEW i \in DOMAIN q2 PROVE ItemOK(q2[i], s.tcp, s.arrived, s.log)
    <3>1. PICK j \in DOMAIN q : q2[i] = q[j]
      BY <1>6
    <3>2. q[j].id # id
      BY <1>6, <1>7, <3>1
    <3>3. ItemOK(q[j], s.tcp, s.arrived, s.log)
      BY <1>5, <3>2
    <3> QED BY <3>1, <3>3
  <2> QED BY <2>1 DEF ItemsOK
<1>15. Good(r)
  <2>1. /\ r.uniqueId = u /\ r.tcp = s.tcp /\ r.arrived = s.arrived /\ r.log = s.log
    BY <1>11 DEF Around, u
  <2> QED BY <1>4, <1>6, <1>8, <1>11, <1>12, <1>13, <1>14, <2>1 DEF Good, Base
<1> QED BY <1>11, <1>15

(* ... or stays in it with one failure more.                               *)
LEMMA CountLemma ==
    ASSUME NEW s \in States, NEW id, NEW k \in DOMAIN s.items, s.items[k].id = id,
           NEW success, Awaiting(s, id, success),
           NEW item \in QueueItem, SameItem(item, s.items[k]),
           item.locked = FALSE, item.failures = s.items[k].failures + 1,
           NEW r, r = Queue(s, [s.items EXCEPT ![k] = item], s.curSize, s.done, s.given)
    PROVE  r \in States /\ Around(r, s) /\ Good(r)
<1> DEFINE q == s.items
           q2 == [q EXCEPT ![k] = item]
           u == s.uniqueId
<1>1. /\ q \in Queues /\ u \in Nat /\ s.curSize \in Nat
      /\ s.done \in SUBSET Nat /\ s.given \in SUBSET Nat
  BY FieldsLemma
<1>2. k \in 1..Len(q) /\ Len(q) \in Nat /\ DOMAIN q = 1..Len(q)
  BY <1>1 DEF Queues
<1>3. Base(s) /\ NobodySends(s.tcp, id) /\ id \in 1..u
  BY DEF Awaiting
<1>4. /\ Distinct(q, u) /\ SizeOK(q, s.curSize) /\ LogOK(s.log, u)
      /\ KeptOK(q, u, s.log, s.done, s.given)
      /\ SendersOK(q, u, s.tcp, s.arrived, s.log)
  BY <1>3 DEF Base
<1>5. /\ \A j \in DOMAIN q : q[j].id # id => ItemOK(q[j], s.tcp, s.arrived, s.log)
      /\ AwaitedItem(q[k], s.log)
  BY DEF Awaiting
<1>6. /\ q[k].id = id /\ SameItem(item, q[k])
      /\ item.failures = q[k].failures + 1 /\ item.locked = FALSE
  BY DEF q
<1>a. r = Queue(s, q2, s.curSize, s.done, s.given)
  BY DEF q, q2
<1> HIDE DEF q, q2, u
<1>7. /\ q2 \in Queues /\ Len(q2) = Len(q) /\ DOMAIN q2 = DOMAIN q
      /\ q2[k] = item /\ \A j \in 1..Len(q) : j # k => q2[j] = q[j]
      /\ \A j \in 1..Len(q) : SameItem(q2[j], q[j])
      /\ \A v : Distinct(q, v) => Distinct(q2, v)
      /\ Used(q2) = Used(q)
      /\ QueuedIn(q2) = QueuedIn(q)
  <2>1. q \in Queues /\ k \in 1..Len(q) /\ Replaces(q2, q, k, item)
    BY <1>1, <1>2, <1>6 DEF q2, Replaces
  <2> QED BY <2>1, ReplacedLemma
<1>8. /\ r \in States /\ Around(r, s)
      /\ r.items = q2 /\ r.curSize = s.curSize /\ r.done = s.done /\ r.given = s.given
  BY <1>1, <1>7, <1>a, QueueLemma
<1>9. SendersOK(q2, u, s.tcp, s.arrived, s.log)
  <2>1. Fewer(q2, q)
    BY <1>2, <1>7 DEF Fewer, SameItem
  <2> QED BY <1>4, <2>1, SendersFewer
<1>10. ItemsOK(q2, s.tcp, s.arrived, s.log)
  <2>1. ItemOK(item, s.tcp, s.arrived, s.log)
    <3>1. ~Sends(s.tcp, item)
      BY <1>3, <1>6 DEF Sends, NobodySends, SameItem
    <3>2. Cop(s.log, id) \in Nat /\ q[k] \in QueueItem
      <4>1. q[k] \in QueueItem
        BY <1>1, <1>2 DEF Queues
      <4> QED BY <1>1, <1>3, <1>4, <4>1, CopNat
    <3>3. q[k].failures \in Nat
      BY <3>2, SyslogAssumption DEF QueueItem
    <3>4. Cop(s.log, item.id) <= item.failures + 0
      BY <1>5, <1>6, <3>2, <3>3 DEF AwaitedItem, SameItem
    <3> QED BY <1>6, <3>1, <3>4 DEF ItemOK
  <2>2. ASSUME NEW j \in DOMAIN q2 PROVE ItemOK(q2[j], s.tcp, s.arrived, s.log)
    <3>1. CASE j = k
      BY <1>7, <2>1, <3>1
    <3>2. CASE j # k
      <4>1. j \in 1..Len(q) /\ q2[j] = q[j]
        BY <1>2, <1>7, <3>2
      <4>2. q[j].id # id
        BY <1>2, <1>4, <1>6, <3>2, <4>1 DEF Distinct
      <4> QED BY <1>2, <1>5, <4>1, <4>2
    <3> QED BY <3>1, <3>2
  <2> QED BY <2>2 DEF ItemsOK
<1>11. SizeOK(q2, s.curSize) /\ Distinct(q2, u)
  BY <1>4, <1>7 DEF SizeOK
<1>12. KeptOK(q2, u, s.log, s.done, s.given)
  BY <1>4, <1>7 DEF KeptOK
<1>13. /\ r.uniqueId = u /\ r.tcp = s.tcp /\ r.arrived = s.arrived /\ r.log = s.log
  BY <1>8 DEF Around, u
<1> QED BY <1>4, <1>8, <1>9, <1>10, <1>11, <1>12, <1>13 DEF Good, Base

(* Whatever it is answered, the state is right again.                      *)
LEMMA AnswerLemma ==
    ASSUME NEW s \in States, NEW id, NEW success \in BOOLEAN, Awaiting(s, id, success),
           NEW r, r = Answer(s, id, success)
    PROVE  r \in States /\ Around(r, s) /\ Good(r)
<1> DEFINE at == {k \in DOMAIN s.items : s.items[k].id = id /\ s.items[k].locked}
<1>1. CASE at = {}
  <2>1. r = s
    BY <1>1 DEF Answer
  <2>2. ASSUME NEW k \in DOMAIN s.items
        PROVE  ItemOK(s.items[k], s.tcp, s.arrived, s.log)
    <3>1. s.items[k].id # id
      BY <1>1 DEF Awaiting, AwaitedItem
    <3> QED BY <3>1 DEF Awaiting
  <2> QED BY <2>1, <2>2 DEF Good, ItemsOK, Awaiting, Around
<1>2. CASE at # {}
  <2> DEFINE k == CHOOSE j \in at : TRUE
             old == s.items[k]
             free == [old EXCEPT !.locked = FALSE]
             p == [s.items EXCEPT ![k] = free]
             v == [s EXCEPT !.items = p]
  <2>1. k \in DOMAIN s.items /\ old.id = id
    <3>1. k \in at
      BY <1>2
    <3> QED BY <3>1
  <2>2. r = TransmitCallback(v, k, success)
    <3>1. [s EXCEPT !.items[k].locked = FALSE] = v
      BY DEF States
    <3>2. r = TransmitCallback([s EXCEPT !.items[k].locked = FALSE], k, success)
      BY <1>2, Zenon DEF Answer
    <3> QED BY <3>1, <3>2
  <2> HIDE DEF k
  <2>3. /\ s.items \in Queues /\ s.curSize \in Nat /\ s.done \in SUBSET Nat
        /\ s.given \in SUBSET Nat /\ s.uniqueId \in Nat
    BY FieldsLemma
  <2>4. k \in 1..Len(s.items) /\ old \in QueueItem
    BY <2>1, <2>3 DEF Queues
  <2>5. /\ free \in QueueItem /\ SameItem(free, old) /\ free.locked = FALSE
        /\ free.failures = old.failures
    BY <2>4 DEF QueueItem, SameItem
  <2> HIDE DEF free, old
  <2>6. p \in Queues /\ SameButOne(p, s.items, k) /\ p[k] = free
    <3>1. Replaces(p, s.items, k, free)
      BY <2>5 DEF Replaces, old
    <3> HIDE DEF p
    <3> QED BY <2>3, <2>4, <2>5, <3>1, ReplacedLemma DEF SameButOne, old
  <2> HIDE DEF p
  <2>7. /\ v.items = p /\ v.curSize = s.curSize /\ v.done = s.done /\ v.given = s.given
        /\ \A q, size, sent, lost : Queue(v, q, size, sent, lost) = Queue(s, q, size, sent, lost)
    <3>1. v.items = p /\ v.curSize = s.curSize /\ v.done = s.done /\ v.given = s.given
      BY DEF States
    <3>2. ASSUME NEW q, NEW size, NEW sent, NEW lost
          PROVE  Queue(v, q, size, sent, lost) = Queue(s, q, size, sent, lost)
      BY DEF States, Queue
    <3> HIDE DEF v
    <3> QED BY <3>1, <3>2
  <2>8. v = Queue(s, p, s.curSize, s.done, s.given)
    BY DEF States, Queue
  <2>a. v \in States
    BY <2>3, <2>6, <2>8, QueueLemma
  <2> HIDE DEF v
  <2>9. p[k].id = id /\ SizeOf(p[k]) = SizeOf(v.items[k])
    BY <2>1, <2>5, <2>6, <2>7 DEF SameItem
  <2>10. CASE success
    <3>1. r = [RemoveItem(v, k) EXCEPT !.done = @ \union {v.items[k].id}]
      BY <2>2, <2>10 DEF TransmitCallback
    <3>2. r = Queue(v, RemoveAt(v.items, k), v.curSize - SizeOf(v.items[k]),
                    v.done \union {v.items[k].id}, v.given)
      BY <2>a, <3>1 DEF RemoveItem, Queue, States
    <3>3. r = Queue(s, RemoveAt(p, k), s.curSize - SizeOf(p[k]), s.done \union {id}, s.given)
      BY <2>7, <2>9, <3>2
    <3>4. s.done \union {id} \in SUBSET Nat /\ Got(s.log, id)
      BY <2>3, <2>10 DEF Awaiting
    <3> QED BY <2>1, <2>3, <2>6, <3>3, <3>4, LeaveLemma DEF old
  <2>11. CASE ~success /\ v.items[k].failures + 1 >= MaxFailures
    <3>1. r = [RemoveItem(v, k) EXCEPT !.given = @ \union {v.items[k].id}]
      BY <2>2, <2>11 DEF TransmitCallback
    <3>2. r = Queue(v, RemoveAt(v.items, k), v.curSize - SizeOf(v.items[k]),
                    v.done, v.given \union {v.items[k].id})
      BY <2>a, <3>1 DEF RemoveItem, Queue, States
    <3>3. r = Queue(s, RemoveAt(p, k), s.curSize - SizeOf(p[k]), s.done, s.given \union {id})
      BY <2>7, <2>9, <3>2
    <3>4. \A e \in s.done : Got(s.log, e)
      BY DEF Awaiting, Base, KeptOK
    <3> QED BY <2>1, <2>3, <2>6, <3>3, <3>4, LeaveLemma DEF old
  <2>12. CASE ~success /\ ~(v.items[k].failures + 1 >= MaxFailures)
    <3> DEFINE item == [free EXCEPT !.failures = @ + 1]
    <3>1. r = [v EXCEPT !.items[k].failures = @ + 1]
      BY <2>2, <2>12 DEF TransmitCallback
    <3>2. r = Queue(v, [v.items EXCEPT ![k] = [v.items[k] EXCEPT !.failures = @ + 1]],
                    v.curSize, v.done, v.given)
      BY <2>a, <3>1 DEF Queue, States
    <3>3. r = Queue(s, [p EXCEPT ![k] = item], s.curSize, s.done, s.given)
      BY <2>6, <2>7, <3>2
    <3>4. [p EXCEPT ![k] = item] = [s.items EXCEPT ![k] = item]
      BY <2>3, <2>4 DEF p, Queues
    <3>5. /\ item \in QueueItem /\ SameItem(item, old) /\ item.locked = FALSE
          /\ item.failures = old.failures + 1
      <4>1. ~(free.failures + 1 >= MaxFailures) /\ MaxFailures \in Nat
        BY <2>6, <2>7, <2>12, SyslogAssumption
      <4>2. free.failures \in Nat
        BY <2>5, SyslogAssumption DEF QueueItem
      <4>3. free.failures + 1 \in 0..(MaxFailures - 1)
        BY <4>1, <4>2
      <4>4. item \in QueueItem /\ item.locked = free.locked /\ SameItem(item, free)
            /\ item.failures = free.failures + 1
        BY <2>5, <4>3 DEF QueueItem, SameItem
      <4> QED BY <2>5, <4>4 DEF SameItem
    <3> HIDE DEF item
    <3> QED BY <2>1, <3>3, <3>4, <3>5, CountLemma DEF old
  <2> QED BY <2>10, <2>11, <2>12
<1> QED BY <1>1, <1>2

-----------------------------------------------------------------------------
(* Syslog: a destination stops sending.                                    *)
Clients == [Tcp -> {"closed", "connecting", "connected", "closing"}]
Connection(s, t, c, a) == [s EXCEPT !.tcp = t, !.client = c, !.arrived = a]

LEMMA ConnectionLemma ==
    ASSUME NEW s \in States, NEW t \in Conns, NEW c \in Clients, NEW a \in Flags
    PROVE  \A r : r = Connection(s, t, c, a) =>
              /\ r \in States
              /\ r.tcp = t /\ r.client = c /\ r.arrived = a
              /\ r.items = s.items /\ r.curSize = s.curSize /\ r.uniqueId = s.uniqueId
              /\ r.log = s.log /\ r.done = s.done /\ r.given = s.given /\ r.pos = s.pos
<1> DEFINE r == Connection(s, t, c, a)
<1>1. r \in States
  BY DEF States, Connection, Clients
<1>2. /\ r.tcp = t /\ r.client = c /\ r.arrived = a
      /\ r.items = s.items /\ r.curSize = s.curSize /\ r.uniqueId = s.uniqueId
      /\ r.log = s.log /\ r.done = s.done /\ r.given = s.given /\ r.pos = s.pos
  BY DEF States, Connection
<1> QED BY <1>1, <1>2

Stopped(doing) == doing \in Conn /\ doing.isSending = FALSE /\ doing.id = NoItem
Stops(r, s, d, doing, c) ==
    /\ Stopped(doing) /\ c \in Clients
    /\ r = Connection(s, [s.tcp EXCEPT ![d] = doing], c, [s.arrived EXCEPT ![d] = FALSE])

LEMMA AbortLemma ==
    ASSUME NEW s \in States, Good(s), NEW d \in Tcp, s.tcp[d].isSending,
           NEW success \in BOOLEAN, success => s.arrived[d],
           NEW doing, NEW c, NEW r, Stops(r, s, d, doing, c)
    PROVE  r \in States /\ r.uniqueId = s.uniqueId /\ r.pos = s.pos
           /\ Awaiting(r, s.tcp[d].id, success)
<1> DEFINE t == [s.tcp EXCEPT ![d] = doing]
           a == [s.arrived EXCEPT ![d] = FALSE]
           id == s.tcp[d].id
           q == s.items
           u == s.uniqueId
<1>1. s.tcp \in Conns /\ s.arrived \in Flags /\ \A x \in Tcp : x = d
  BY FieldsLemma, SyslogAssumption
<1>2. t \in Conns /\ a \in Flags /\ t[d].isSending = FALSE /\ t[d].id = 0 /\ a[d] = FALSE
  BY <1>1 DEF Conns, Flags, Stopped, Stops, NoItem
<1> HIDE DEF t, a
<1>3. /\ r \in States
      /\ r.tcp = t /\ r.client = c /\ r.arrived = a
      /\ r.items = q /\ r.curSize = s.curSize /\ r.uniqueId = u
      /\ r.log = s.log /\ r.done = s.done /\ r.given = s.given /\ r.pos = s.pos
  <2>1. r = Connection(s, t, c, a)
    BY DEF t, a, Stops
  <2>2. c \in Clients
    BY DEF Stops
  <2> QED BY <1>2, <2>1, <2>2, ConnectionLemma
<1>4. /\ Distinct(q, u) /\ SizeOK(q, s.curSize) /\ LogOK(s.log, u)
      /\ KeptOK(q, u, s.log, s.done, s.given)
      /\ SendersOK(q, u, s.tcp, s.arrived, s.log)
      /\ ItemsOK(q, s.tcp, s.arrived, s.log)
  BY DEF Good, Base
<1>5. /\ id \in 1..u
      /\ s.arrived[d] => Got(s.log, id)
      /\ \A k \in DOMAIN q : q[k].id = id => q[k].to = d
  BY <1>4 DEF SendersOK, SenderOK
<1>6. SendersOK(q, u, t, a, s.log)
  <2>1. SenderOK(d, q, u, t, a, s.log)
    <3>1. 0 \in 0..u
      BY FieldsLemma DEF u
    <3> QED BY <1>2, <3>1 DEF SenderOK
  <2> QED BY <1>1, <2>1 DEF SendersOK
<1>7. ASSUME NEW k \in DOMAIN q, q[k].id = id PROVE AwaitedItem(q[k], s.log)
  <2>1. ItemOK(q[k], s.tcp, s.arrived, s.log)
    BY <1>4 DEF ItemsOK
  <2>2. Sends(s.tcp, q[k])
    BY <1>5, <1>7 DEF Sends
  <2>3. q[k] \in QueueItem
    BY FieldsLemma DEF Queues
  <2>4. q[k].failures \in Nat /\ Cop(s.log, id) \in Nat
    <3>1. u \in Nat
      BY FieldsLemma DEF u
    <3>2. Cop(s.log, id) \in Nat
      BY <1>4, <1>5, <3>1, CopNat
    <3>3. q[k].failures \in 0..(MaxFailures - 1) /\ MaxFailures \in Nat
      BY <2>3, SyslogAssumption DEF QueueItem
    <3> QED BY <3>2, <3>3
  <2>5. Cop(s.log, id) <= q[k].failures + (IF q[k].locked /\ s.arrived[q[k].to] THEN 1 ELSE 0)
    BY <1>7, <2>1 DEF ItemOK
  <2>6. Cop(s.log, id) <= q[k].failures + 1
    BY <2>4, <2>5
  <2> QED BY <1>7, <2>1, <2>2, <2>6 DEF ItemOK, AwaitedItem
<1>8. ASSUME NEW k \in DOMAIN q, q[k].id # id PROVE ItemOK(q[k], t, a, s.log)
  <2>1. ItemOK(q[k], s.tcp, s.arrived, s.log)
    BY <1>4 DEF ItemsOK
  <2>2. ~Sends(s.tcp, q[k])
    BY <1>1, <1>8 DEF Sends
  <2>3. ~Sends(t, q[k])
    BY <1>1, <1>2 DEF Sends
  <2>4. ~q[k].locked /\ Cop(s.log, q[k].id) <= q[k].failures + 0
    BY <2>1, <2>2 DEF ItemOK
  <2> QED BY <2>3, <2>4 DEF ItemOK
<1>9. NobodySends(t, id)
  BY <1>1, <1>2 DEF NobodySends
<1>10. Base(r)
  BY <1>3, <1>4, <1>6 DEF Base
<1> HIDE DEF id, q, u
<1>11. Awaiting(r, id, success)
  <2>1. success => Got(r.log, id)
    BY <1>3, <1>5
  <2>2. \A k \in DOMAIN r.items :
          IF r.items[k].id = id THEN AwaitedItem(r.items[k], r.log)
          ELSE ItemOK(r.items[k], r.tcp, r.arrived, r.log)
    BY <1>3, <1>7, <1>8
  <2>3. NobodySends(r.tcp, id) /\ id \in 1..r.uniqueId
    BY <1>3, <1>5, <1>9
  <2> QED BY <1>10, <2>1, <2>2, <2>3, Zenon DEF Awaiting
<1> QED BY <1>3, <1>11 DEF id, u

LEMMA WriteErrorLemma ==
    ASSUME NEW s \in States, Good(s), NEW d \in Tcp, NEW r, r = WriteError(s, d)
    PROVE  r \in States /\ Good(r) /\ r.uniqueId = s.uniqueId /\ r.pos = s.pos
<1>1. CASE ~s.tcp[d].isSending
  BY <1>1 DEF WriteError
<1>2. CASE s.tcp[d].isSending
  <2> DEFINE doing == [Idle EXCEPT !.isDisconnecting = TRUE]
             c == [s.client EXCEPT ![d] = "closed"]
             v == Connection(s, [s.tcp EXCEPT ![d] = doing], c, [s.arrived EXCEPT ![d] = FALSE])
  <2>1. doing \in Conn /\ Stopped(doing)
    BY DEF Conn, Idle, NoItem, Stopped
  <2>2. c \in Clients
    BY FieldsLemma DEF Clients
  <2>3. r = Answer(v, s.tcp[d].id, FALSE)
    <3>1. [s EXCEPT !.tcp[d] = [Idle EXCEPT !.isDisconnecting = TRUE],
                    !.client[d] = "closed", !.arrived[d] = FALSE] = v
      BY DEF Connection, States
    <3>2. r = Answer([s EXCEPT !.tcp[d] = [Idle EXCEPT !.isDisconnecting = TRUE],
                               !.client[d] = "closed", !.arrived[d] = FALSE], s.tcp[d].id, FALSE)
      BY <1>2, Zenon DEF WriteError
    <3> HIDE DEF v
    <3> QED BY <3>1, <3>2
  <2> HIDE DEF doing, c
  <2>4. /\ v \in States /\ v.uniqueId = s.uniqueId /\ v.pos = s.pos
        /\ Awaiting(v, s.tcp[d].id, FALSE)
    <3>1. Stops(v, s, d, doing, c)
      BY <2>1, <2>2 DEF Stops
    <3> HIDE DEF v
    <3> QED BY <1>2, <3>1, AbortLemma
  <2> HIDE DEF v
  <2>5. r \in States /\ Around(r, v) /\ Good(r)
    BY <2>3, <2>4, AnswerLemma
  <2> QED BY <2>4, <2>5 DEF Around
<1> QED BY <1>1, <1>2

-----------------------------------------------------------------------------
(* Syslog: an item is locked to be sent.                                   *)
Locks(r, s, k) == r = [s EXCEPT !.items[k].locked = TRUE]

Locked(r, s, k) ==
    /\ r \in States /\ Around(r, s)
    /\ r.curSize = s.curSize /\ r.done = s.done /\ r.given = s.given
    /\ r.items \in Queues /\ Len(r.items) = Len(s.items) /\ DOMAIN r.items = DOMAIN s.items
    /\ r.items[k].locked = TRUE /\ r.items[k].failures = s.items[k].failures
    /\ \A j \in 1..Len(s.items) : j # k => r.items[j] = s.items[j]
    /\ \A j \in 1..Len(s.items) : SameItem(r.items[j], s.items[j])
    /\ \A u : Distinct(s.items, u) => Distinct(r.items, u)
    /\ Used(r.items) = Used(s.items)
    /\ QueuedIn(r.items) = QueuedIn(s.items)

LEMMA LockLemma ==
    ASSUME NEW s \in States, NEW k \in DOMAIN s.items, NEW r, Locks(r, s, k)
    PROVE  Locked(r, s, k)
<1> DEFINE old == s.items[k]
           item == [old EXCEPT !.locked = TRUE]
           p == [s.items EXCEPT ![k] = item]
<1>1. /\ s.items \in Queues /\ s.curSize \in Nat /\ s.done \in SUBSET Nat
      /\ s.given \in SUBSET Nat
  BY FieldsLemma
<1>2. k \in 1..Len(s.items) /\ old \in QueueItem
  BY <1>1 DEF Queues
<1>3. /\ item \in QueueItem /\ SameItem(item, old) /\ item.locked = TRUE
      /\ item.failures = old.failures
  BY <1>2 DEF QueueItem, SameItem
<1>4. r = Queue(s, p, s.curSize, s.done, s.given)
  BY DEF States, Queue, Locks
<1> HIDE DEF item, old
<1>5. Replaces(p, s.items, k, item)
  BY <1>3 DEF Replaces, old
<1> HIDE DEF p
<1>6. /\ p \in Queues /\ Len(p) = Len(s.items) /\ DOMAIN p = DOMAIN s.items
      /\ p[k] = item /\ \A j \in 1..Len(s.items) : j # k => p[j] = s.items[j]
      /\ \A j \in 1..Len(s.items) : SameItem(p[j], s.items[j])
      /\ \A u : Distinct(s.items, u) => Distinct(p, u)
      /\ Used(p) = Used(s.items)
      /\ QueuedIn(p) = QueuedIn(s.items)
  BY <1>1, <1>2, <1>3, <1>5, ReplacedLemma
<1>7. /\ r \in States /\ Around(r, s)
      /\ r.items = p /\ r.curSize = s.curSize /\ r.done = s.done /\ r.given = s.given
  BY <1>1, <1>4, <1>6, QueueLemma
<1>8. p[k].locked = TRUE /\ p[k].failures = s.items[k].failures
  BY <1>3, <1>6 DEF old
<1> HIDE DEF p
<1> QED BY <1>6, <1>7, <1>8 DEF Locked

(* An item that is not locked has at most as many copies as failures.      *)
LEMMA FreeLemma ==
    ASSUME NEW s \in States, Good(s), NEW k \in DOMAIN s.items, ~s.items[k].locked
    PROVE  /\ s.items[k] \in QueueItem /\ s.items[k].id \in 1..s.uniqueId
           /\ s.items[k].failures \in 0..(MaxFailures - 1)
           /\ Cop(s.log, s.items[k].id) \in Nat
           /\ Cop(s.log, s.items[k].id) <= s.items[k].failures
           /\ Cop(s.log, s.items[k].id) <= MaxFailures - 1
<1>1. s.items[k] \in QueueItem /\ s.uniqueId \in Nat
  BY FieldsLemma DEF Queues
<1>2. ItemOK(s.items[k], s.tcp, s.arrived, s.log)
  BY DEF Good, ItemsOK
<1>3. s.items[k].id <= s.uniqueId /\ LogOK(s.log, s.uniqueId)
  BY DEF Good, Base, Distinct
<1>4. s.items[k].id \in Nat \ {0} /\ s.items[k].failures \in 0..(MaxFailures - 1)
  BY <1>1 DEF QueueItem
<1>5. s.items[k].id \in 1..s.uniqueId
  BY <1>1, <1>3, <1>4
<1>6. Cop(s.log, s.items[k].id) \in Nat
  BY <1>1, <1>3, <1>5, CopNat
<1>7. Cop(s.log, s.items[k].id) <= s.items[k].failures + 0
  BY <1>2 DEF ItemOK
<1>8. MaxFailures \in Nat
  BY SyslogAssumption
<1> QED BY <1>1, <1>4, <1>5, <1>6, <1>7, <1>8

(* SyslogTCP takes a message.                                              *)
Starts(r, v, d, doing, c) ==
    /\ doing \in Conn /\ doing.isSending = TRUE
    /\ r = Connection(v, [v.tcp EXCEPT ![d] = doing], c, v.arrived)

LEMMA SendLemma ==
    ASSUME NEW s \in States, Good(s), NEW k \in DOMAIN s.items, ~s.items[k].locked,
           NEW d \in Tcp, s.items[k].to = d, ~s.tcp[d].isSending,
           NEW v, Locks(v, s, k), NEW c \in Clients,
           NEW doing, doing.id = s.items[k].id, NEW r, Starts(r, v, d, doing, c)
    PROVE  r \in States /\ Good(r) /\ r.uniqueId = s.uniqueId /\ r.pos = s.pos
           /\ r.tcp[d].isSending
<1> DEFINE t == [s.tcp EXCEPT ![d] = doing]
           a == s.arrived
           id == s.items[k].id
           q == s.items
           p == v.items
           u == s.uniqueId
           l == s.log
<1>1. s.tcp \in Conns /\ s.arrived \in Flags /\ \A x \in Tcp : x = d
  BY FieldsLemma, SyslogAssumption
<1>2. t \in Conns /\ t[d] = doing
  BY <1>1 DEF Conns, Starts
<1> HIDE DEF t
<1>3. /\ v \in States /\ Around(v, s)
      /\ v.curSize = s.curSize /\ v.done = s.done /\ v.given = s.given
      /\ p \in Queues /\ Len(p) = Len(q) /\ DOMAIN p = DOMAIN q
      /\ p[k].locked = TRUE /\ p[k].failures = q[k].failures
      /\ \A j \in 1..Len(q) : j # k => p[j] = q[j]
      /\ \A j \in 1..Len(q) : SameItem(p[j], q[j])
      /\ \A x : Distinct(q, x) => Distinct(p, x)
      /\ Used(p) = Used(q)
      /\ QueuedIn(p) = QueuedIn(q)
  <2>1. Locked(v, s, k)
    BY LockLemma
  <2> QED BY <2>1 DEF Locked
<1>4. /\ r \in States
      /\ r.tcp = t /\ r.client = c /\ r.arrived = a
      /\ r.items = p /\ r.curSize = s.curSize /\ r.uniqueId = u
      /\ r.log = l /\ r.done = s.done /\ r.given = s.given /\ r.pos = s.pos
  <2>1. r = Connection(v, t, c, a)
    BY <1>3 DEF t, Around, Starts
  <2>2. /\ r \in States
        /\ r.tcp = t /\ r.client = c /\ r.arrived = a
        /\ r.items = v.items /\ r.curSize = v.curSize /\ r.uniqueId = v.uniqueId
        /\ r.log = v.log /\ r.done = v.done /\ r.given = v.given /\ r.pos = v.pos
    BY <1>1, <1>2, <1>3, <2>1, ConnectionLemma
  <2> QED BY <1>3, <2>2 DEF Around
<1>5. /\ Distinct(q, u) /\ SizeOK(q, s.curSize) /\ LogOK(l, u)
      /\ KeptOK(q, u, l, s.done, s.given)
      /\ SendersOK(q, u, s.tcp, a, l)
      /\ ItemsOK(q, s.tcp, a, l)
  BY DEF Good, Base
<1>6. /\ q[k] \in QueueItem /\ id \in 1..u
      /\ q[k].failures \in 0..(MaxFailures - 1)
      /\ Cop(l, id) \in Nat /\ Cop(l, id) <= q[k].failures /\ Cop(l, id) <= MaxFailures - 1
  BY FreeLemma
<1>7. k \in 1..Len(q) /\ DOMAIN q = 1..Len(q)
  BY FieldsLemma DEF Queues
<1>8. q[k].to = d /\ ~s.tcp[d].isSending /\ doing.isSending = TRUE /\ doing.id = id
  BY DEF Starts
<1>9. ~a[d]
  BY <1>5, <1>8 DEF SendersOK, SenderOK
<1> HIDE DEF q, p, id, u, a, l
<1>10. SendersOK(p, u, t, a, l)
  <2>1. ASSUME NEW j \in DOMAIN p, p[j].id = id PROVE p[j].to = d
    <3>1. q[j].id = id /\ q[j].to = p[j].to
      BY <1>3, <1>7, <2>1 DEF SameItem
    <3>2. j = k
      BY <1>3, <1>5, <1>7, <3>1 DEF Distinct, id, q
    <3> QED BY <1>8, <3>1, <3>2
  <2>2. SenderOK(d, p, u, t, a, l)
    BY <1>2, <1>6, <1>8, <1>9, <2>1 DEF SenderOK
  <2> QED BY <1>1, <2>2 DEF SendersOK
<1>11. ItemsOK(p, t, a, l)
  <2>1. ASSUME NEW j \in DOMAIN p, j # k PROVE ItemOK(p[j], t, a, l)
    <3>1. j \in DOMAIN q /\ p[j] = q[j]
      BY <1>3, <1>7, <2>1
    <3>2. ItemOK(q[j], s.tcp, a, l) /\ q[j].id # id
      BY <1>5, <1>7, <2>1, <3>1 DEF ItemsOK, Distinct, id, q
    <3>3. ~Sends(s.tcp, q[j])
      BY <1>1, <1>8 DEF Sends
    <3>4. ~Sends(t, q[j])
      BY <1>1, <1>2, <1>8, <3>2 DEF Sends
    <3>5. ~q[j].locked /\ Cop(l, q[j].id) <= q[j].failures + 0
      BY <3>2, <3>3 DEF ItemOK
    <3> QED BY <3>1, <3>4, <3>5 DEF ItemOK
  <2>2. ItemOK(p[k], t, a, l)
    <3>1. SameItem(p[k], q[k])
      BY <1>3, <1>7
    <3>2. p[k].id = id /\ p[k].to = d
      BY <1>8, <3>1 DEF SameItem, id, q
    <3>3. Sends(t, p[k])
      BY <1>2, <1>8, <3>2 DEF Sends
    <3>4. Cop(l, p[k].id) <= p[k].failures + 0
      BY <1>3, <1>6, <3>2
    <3> QED BY <1>3, <1>9, <3>2, <3>3, <3>4 DEF ItemOK
  <2> QED BY <2>1, <2>2 DEF ItemsOK
<1>12. Distinct(p, u) /\ SizeOK(p, s.curSize)
  BY <1>3, <1>5 DEF SizeOK
<1>13. KeptOK(p, u, l, s.done, s.given)
  BY <1>3, <1>5 DEF KeptOK
<1>14. Good(r)
  BY <1>4, <1>5, <1>10, <1>11, <1>12, <1>13 DEF Good, Base
<1> QED BY <1>2, <1>4, <1>8, <1>14 DEF u

(* SyslogUDP: the message is received or not, and is to be answered.       *)
Lands(r, v, d, id, ok) == r = [v EXCEPT !.log = IF ok THEN Landed(v.log, d, id) ELSE v.log]

LEMMA SendUdpLemma ==
    ASSUME NEW s \in States, Good(s), NEW k \in DOMAIN s.items, ~s.items[k].locked,
           s.items[k].to \notin Tcp, NEW v, Locks(v, s, k), NEW ok \in BOOLEAN,
           NEW r, Lands(r, v, s.items[k].to, s.items[k].id, ok)
    PROVE  r \in States /\ r.uniqueId = s.uniqueId /\ r.pos = s.pos
           /\ Awaiting(r, s.items[k].id, ok)
<1> DEFINE id == s.items[k].id
           d == s.items[k].to
           q == s.items
           p == v.items
           u == s.uniqueId
           l == s.log
           l2 == IF ok THEN Landed(l, d, id) ELSE l
           t == s.tcp
           a == s.arrived
<1>1. /\ v \in States /\ Around(v, s)
      /\ v.curSize = s.curSize /\ v.done = s.done /\ v.given = s.given
      /\ p \in Queues /\ Len(p) = Len(q) /\ DOMAIN p = DOMAIN q
      /\ p[k].locked = TRUE /\ p[k].failures = q[k].failures
      /\ \A j \in 1..Len(q) : j # k => p[j] = q[j]
      /\ \A j \in 1..Len(q) : SameItem(p[j], q[j])
      /\ \A x : Distinct(q, x) => Distinct(p, x)
      /\ Used(p) = Used(q)
      /\ QueuedIn(p) = QueuedIn(q)
  <2>1. Locked(v, s, k)
    BY LockLemma
  <2> QED BY <2>1 DEF Locked
<1>2. /\ q[k] \in QueueItem /\ id \in 1..u
      /\ q[k].failures \in 0..(MaxFailures - 1)
      /\ Cop(l, id) \in Nat /\ Cop(l, id) <= q[k].failures /\ Cop(l, id) <= MaxFailures - 1
  BY FreeLemma
<1>3. /\ Distinct(q, u) /\ SizeOK(q, s.curSize) /\ LogOK(l, u)
      /\ KeptOK(q, u, l, s.done, s.given)
      /\ SendersOK(q, u, t, a, l)
      /\ ItemsOK(q, t, a, l)
  BY DEF Good, Base
<1>4. k \in 1..Len(q) /\ DOMAIN q = 1..Len(q) /\ l \in Logs /\ u \in Nat
  BY FieldsLemma DEF Queues
<1>5. d \in ToSet(Filters)
  BY <1>2 DEF QueueItem
<1> HIDE DEF id, d, l2
<1>6. /\ l2 \in Logs /\ LogOK(l2, u)
      /\ Cop(l2, id) <= Cop(l, id) + 1
      /\ \A e \in 1..u : e # id => Cop(l2, e) = Cop(l, e)
      /\ ok => Got(l2, id)
      /\ \A e : Got(l, e) => Got(l2, e)
  <2>1. CASE ok
    <3>1. l2 = Landed(l, d, id)
      BY <2>1 DEF l2
    <3>2. /\ l2 \in Logs /\ LogOK(l2, u)
          /\ Cop(l2, id) = Cop(l, id) + 1
          /\ \A e \in 1..u : e # id => Cop(l2, e) = Cop(l, e)
          /\ Got(l2, id)
          /\ \A e : Got(l, e) => Got(l2, e)
      BY <1>2, <1>3, <1>4, <1>5, <3>1, LandLemma
    <3> QED BY <1>2, <3>2
  <2>2. CASE ~ok
    <3>1. l2 = l
      BY <2>2 DEF l2
    <3> QED BY <1>2, <1>3, <1>4, <2>2, <3>1
  <2> QED BY <2>1, <2>2
<1>7. /\ r \in States /\ r.log = l2 /\ r.items = p /\ r.curSize = s.curSize
      /\ r.uniqueId = u /\ r.tcp = t /\ r.arrived = a
      /\ r.done = s.done /\ r.given = s.given /\ r.pos = s.pos
  <2>1. r = [v EXCEPT !.log = l2]
    BY <1>1 DEF l2, Around, id, d, Lands
  <2>2. /\ r \in States /\ r.log = l2 /\ r.items = v.items /\ r.curSize = v.curSize
        /\ r.uniqueId = v.uniqueId /\ r.tcp = v.tcp /\ r.arrived = v.arrived
        /\ r.done = v.done /\ r.given = v.given /\ r.pos = v.pos
    BY <1>1, <1>6, <2>1 DEF States
  <2> QED BY <1>1, <2>2 DEF Around
<1>8. NobodySends(t, id)
  <2>1. ASSUME NEW x \in Tcp, t[x].isSending, t[x].id = id PROVE FALSE
    <3>1. q[k].to = x
      BY <1>3, <2>1 DEF SendersOK, SenderOK, id
    <3> QED BY <3>1
  <2> QED BY <2>1 DEF NobodySends
<1> HIDE DEF q, p, u, l, t, a
<1>9. SendersOK(p, u, t, a, l2)
  <2>1. ASSUME NEW x \in Tcp PROVE SenderOK(x, p, u, t, a, l2)
    <3>1. SenderOK(x, q, u, t, a, l)
      BY <1>3 DEF SendersOK
    <3>2. ASSUME t[x].isSending
          PROVE  /\ t[x].id \in 1..u
                 /\ IF a[x] THEN Got(l2, t[x].id) ELSE Cop(l2, t[x].id) <= MaxFailures - 1
      <4>1. t[x].id \in 1..u /\ t[x].id # id
        BY <1>8, <3>1, <3>2 DEF SenderOK, NobodySends
      <4> QED BY <1>6, <3>1, <3>2, <4>1 DEF SenderOK
    <3>3. ASSUME t[x].isSending, NEW j \in DOMAIN p, p[j].id = t[x].id PROVE p[j].to = x
      <4>1. j \in DOMAIN q /\ q[j].id = p[j].id /\ q[j].to = p[j].to
        BY <1>1, <1>4 DEF SameItem
      <4> QED BY <3>1, <3>3, <4>1 DEF SenderOK
    <3>4. t[x].id \in 0..u /\ (a[x] => t[x].isSending)
      BY <3>1 DEF SenderOK
    <3> QED BY <3>2, <3>3, <3>4 DEF SenderOK
  <2> QED BY <2>1 DEF SendersOK
<1>10. KeptOK(p, u, l2, s.done, s.given)
  BY <1>1, <1>3, <1>6 DEF KeptOK
<1>11. Distinct(p, u) /\ SizeOK(p, s.curSize)
  BY <1>1, <1>3 DEF SizeOK
<1>12. Base(r)
  BY <1>6, <1>7, <1>9, <1>10, <1>11 DEF Base
<1>13. ASSUME NEW j \in DOMAIN p, p[j].id = id PROVE AwaitedItem(p[j], l2)
  <2>1. q[j].id = id /\ j \in DOMAIN q
    BY <1>1, <1>4, <1>13 DEF SameItem
  <2>2. j = k
    BY <1>3, <1>4, <2>1 DEF Distinct, id, q
  <2>3. Cop(l2, p[j].id) <= p[j].failures + 1
    <3>1. Cop(l2, id) \in Nat
      BY <1>2, <1>4, <1>6, CopNat
    <3> QED BY <1>1, <1>2, <1>6, <1>13, <2>2, <3>1
  <2> QED BY <1>1, <2>2, <2>3 DEF AwaitedItem
<1>14. ASSUME NEW j \in DOMAIN p, p[j].id # id PROVE ItemOK(p[j], t, a, l2)
  <2>1. j # k
    BY <1>1, <1>4, <1>14 DEF SameItem, id, q
  <2>2. j \in DOMAIN q /\ p[j] = q[j]
    BY <1>1, <1>4, <2>1
  <2>3. ItemOK(q[j], t, a, l)
    BY <1>3, <2>2 DEF ItemsOK
  <2>4. q[j].id \in 1..u
    <3>1. q[j] \in QueueItem
      BY <2>2, FieldsLemma DEF Queues, q
    <3>2. q[j].id <= u /\ q[j].id \in Nat \ {0}
      BY <1>3, <2>2, <3>1 DEF Distinct, QueueItem
    <3> QED BY <1>4, <3>2
  <2>5. Cop(l2, q[j].id) = Cop(l, q[j].id)
    BY <1>6, <1>14, <2>2, <2>4
  <2> QED BY <2>2, <2>3, <2>5 DEF ItemOK
<1>15. ok => Got(r.log, id)
  BY <1>6, <1>7
<1>16. \A j \in DOMAIN r.items :
          IF r.items[j].id = id THEN AwaitedItem(r.items[j], r.log)
          ELSE ItemOK(r.items[j], r.tcp, r.arrived, r.log)
  BY <1>7, <1>13, <1>14
<1>17. NobodySends(r.tcp, id) /\ id \in 1..r.uniqueId
  BY <1>2, <1>7, <1>8
<1>18. Awaiting(r, id, ok)
  BY <1>12, <1>15, <1>16, <1>17, Zenon DEF Awaiting
<1> QED BY <1>7, <1>18 DEF id, u

LEMMA TransmitTcpLemma ==
    ASSUME NEW s \in States, Good(s), NEW k \in DOMAIN s.items, ~s.items[k].locked,
           NEW d \in Tcp, s.items[k].to = d, ~s.tcp[d].isSending,
           NEW v, Locks(v, s, k), NEW ok \in BOOLEAN,
           NEW r, r = TransmitTcp(v, d, s.items[k], ok)
    PROVE  r \in States /\ Good(r) /\ r.uniqueId = s.uniqueId /\ r.pos = s.pos
<1> DEFINE item == s.items[k]
           doing == [Idle EXCEPT !.isSending = TRUE, !.id = item.id, !.left = item.length + 1]
           sending == [v EXCEPT !.tcp[d] = doing]
           t == [v.tcp EXCEPT ![d] = doing]
<1>1. item \in QueueItem /\ v \in States
  <2>1. item \in QueueItem
    BY FieldsLemma DEF Queues
  <2>2. v \in States
    BY LockLemma DEF Locked
  <2> QED BY <2>1, <2>2
<1>2. doing \in Conn /\ doing.isSending = TRUE /\ doing.id = item.id
  <2>1. item.id \in Nat /\ item.length \in Lengths
    BY <1>1 DEF QueueItem
  <2> HIDE DEF item
  <2>2. item.length + 1 \in Nat
    <3>1. item.length \in Nat
      BY <2>1, SyslogAssumption
    <3> QED BY <3>1
  <2> QED BY <2>1, <2>2 DEF Conn, Idle
<1> HIDE DEF doing, item
<1>3. v.client \in Clients /\ [v.client EXCEPT ![d] = "connecting"] \in Clients
  BY <1>1, FieldsLemma DEF Clients
<1>4. sending = Connection(v, t, v.client, v.arrived)
  BY <1>1 DEF Connection, States
<1>5. /\ sending \in States /\ Good(sending) /\ sending.uniqueId = s.uniqueId
      /\ sending.pos = s.pos
  <2>1. Starts(sending, v, d, doing, v.client)
    BY <1>2, <1>4 DEF Starts
  <2>2. doing.id = s.items[k].id
    BY <1>2 DEF item
  <2> HIDE DEF sending
  <2> QED BY <1>3, <2>1, <2>2, SendLemma
<1>6. CASE v.client[d] # "closed"
  <2>1. r = sending
    BY <1>6 DEF TransmitTcp, doing, item
  <2> QED BY <1>5, <2>1
<1>7. CASE v.client[d] = "closed" /\ ok
  <2> DEFINE c == [v.client EXCEPT ![d] = "connecting"]
  <2>1. r = [sending EXCEPT !.client[d] = "connecting"]
    BY <1>7, Zenon DEF TransmitTcp, doing, item
  <2>2. [sending EXCEPT !.client[d] = "connecting"] = Connection(v, t, c, v.arrived)
    BY <1>1 DEF Connection, States
  <2>3. r = Connection(v, t, c, v.arrived)
    BY <2>1, <2>2
  <2> HIDE DEF c
  <2>4. c \in Clients
    BY <1>3 DEF c
  <2>5. Starts(r, v, d, doing, c)
    BY <1>2, <2>3 DEF Starts
  <2>6. doing.id = s.items[k].id
    BY <1>2 DEF item
  <2> QED BY <2>4, <2>5, <2>6, SendLemma
<1>8. CASE v.client[d] = "closed" /\ ~ok
  <2>1. r = WriteError(sending, d)
    <3>1. ~(v.client[d] # "closed") /\ ~(v.client[d] = "closed" /\ ok)
      BY <1>8
    <3> QED BY <3>1, Zenon DEF TransmitTcp, doing, item
  <2> HIDE DEF sending
  <2>2. r \in States /\ Good(r) /\ r.uniqueId = sending.uniqueId /\ r.pos = sending.pos
    BY <1>5, <2>1, WriteErrorLemma
  <2> QED BY <1>5, <2>2
<1> QED BY <1>6, <1>7, <1>8

LEMMA TransmitUdpLemma ==
    ASSUME NEW s \in States, Good(s), NEW k \in DOMAIN s.items, ~s.items[k].locked,
           s.items[k].to \notin Tcp, NEW v, Locks(v, s, k), NEW ok \in BOOLEAN,
           NEW r, r = TransmitUdp(v, s.items[k].to, s.items[k], ok)
    PROVE  r \in States /\ Good(r) /\ r.uniqueId = s.uniqueId /\ r.pos = s.pos
<1> DEFINE item == s.items[k]
           w == [v EXCEPT !.log = IF ok THEN Landed(v.log, item.to, item.id) ELSE v.log]
<1>1. r = Answer(w, item.id, ok)
  <2>1. v \in States
    BY LockLemma DEF Locked
  <2>2. (IF ok THEN [v EXCEPT !.log[item.to] = Append(@, item.id)] ELSE v) = w
    BY <2>1 DEF States, Landed
  <2>3. r = Answer(IF ok THEN [v EXCEPT !.log[item.to] = Append(@, item.id)] ELSE v, item.id, ok)
    BY Zenon DEF TransmitUdp
  <2> HIDE DEF w
  <2> QED BY <2>2, <2>3
<1>2. w \in States /\ w.uniqueId = s.uniqueId /\ w.pos = s.pos /\ Awaiting(w, item.id, ok)
  <2>1. Lands(w, v, s.items[k].to, s.items[k].id, ok)
    BY DEF Lands
  <2> HIDE DEF w
  <2> QED BY <2>1, SendUdpLemma
<1> HIDE DEF w
<1>3. r \in States /\ Around(r, w) /\ Good(r)
  BY <1>1, <1>2, AnswerLemma
<1> QED BY <1>2, <1>3 DEF Around

LEMMA TransmitLemma ==
    ASSUME NEW s \in States, Good(s), NEW k \in DOMAIN s.items, ~IsSending(s, s.items[k].to),
           NEW ok \in BOOLEAN, NEW r, r = Transmit(s, k, ok)
    PROVE  r \in States /\ Good(r) /\ r.uniqueId = s.uniqueId /\ r.pos = s.pos
<1> DEFINE item == s.items[k]
           v == [s EXCEPT !.items[k].locked = TRUE]
<1>0. Locks(v, s, k)
  BY DEF Locks
<1>1. CASE ~online \/ item.locked
  BY <1>1 DEF Transmit
<1>2. CASE ~(~online \/ item.locked) /\ item.to \in Tcp
  <2>1. r = TransmitTcp(v, item.to, item, ok)
    BY <1>2, Zenon DEF Transmit
  <2>2. ~item.locked /\ ~s.tcp[item.to].isSending
    BY <1>2 DEF IsSending
  <2> HIDE DEF v
  <2> QED BY <1>0, <1>2, <2>1, <2>2, TransmitTcpLemma
<1>3. CASE ~(~online \/ item.locked) /\ item.to \notin Tcp
  <2>1. r = TransmitUdp(v, item.to, item, ok)
    BY <1>3, Zenon DEF Transmit
  <2>2. ~item.locked
    BY <1>3
  <2> HIDE DEF v
  <2> QED BY <1>0, <1>3, <2>1, <2>2, TransmitUdpLemma
<1> QED BY <1>1, <1>2, <1>3

LEMMA VisitLemma ==
    ASSUME NEW s \in States, Good(s), NEW ok \in BOOLEAN, NEW r, r = Visit(s, ok)
    PROVE  r \in States /\ Good(r) /\ r.uniqueId = s.uniqueId
<1>1. CASE s.pos > Len(s.items)
  BY <1>1 DEF Visit
<1>2. CASE ~(s.pos > Len(s.items))
  <2> DEFINE next == [s EXCEPT !.pos = @ + 1]
             k == s.pos
  <2>1. /\ next \in States /\ next.items = s.items /\ next.curSize = s.curSize
        /\ next.uniqueId = s.uniqueId /\ next.tcp = s.tcp /\ next.arrived = s.arrived
        /\ next.log = s.log /\ next.done = s.done /\ next.given = s.given
    BY DEF States
  <2>2. Good(next)
    BY <2>1 DEF Good, Base
  <2>3. s.items \in Queues /\ k \in Nat \ {0}
    BY FieldsLemma
  <2>4. k \in DOMAIN s.items
    BY <1>2, <2>3 DEF Queues
  <2>5. r = IF IsSending(s, s.items[k].to) THEN next ELSE Transmit(next, k, ok)
    BY <1>2, Zenon DEF Visit
  <2> HIDE DEF next, k
  <2>6. CASE IsSending(s, s.items[k].to)
    BY <2>1, <2>2, <2>5, <2>6
  <2>7. CASE ~IsSending(s, s.items[k].to)
    <3>1. r = Transmit(next, k, ok)
      BY <2>5, <2>7
    <3>2. k \in DOMAIN next.items /\ ~IsSending(next, next.items[k].to)
      BY <2>1, <2>4, <2>7 DEF IsSending
    <3>3. r \in States /\ Good(r) /\ r.uniqueId = next.uniqueId
      BY <2>1, <2>2, <3>1, <3>2, TransmitLemma
    <3> QED BY <2>1, <3>3
  <2> QED BY <2>6, <2>7
<1> QED BY <1>1, <1>2

(* deliverQueue: so is every state that a walk can end in.                 *)
LEMMA DeliverLemma ==
    ASSUME NEW s \in States, Good(s), NEW r \in Deliver(s)
    PROVE  r \in States /\ Good(r) /\ r.uniqueId = s.uniqueId
<1> DEFINE n == Len(s.items)
           Universe == {w \in States : Good(w) /\ w.uniqueId = s.uniqueId}
           T == SUBSET Universe
           Step == [m \in 1..n |-> [W \in T |-> VisitOneOf(W)]]
           walk[m \in 0..Len(s.items)] ==
               IF m = 0 THEN {s} ELSE VisitOneOf(walk[m - 1])
<1>0. n \in Nat
  BY FieldsLemma DEF Queues
<1>1. {s} \in T
  OBVIOUS
<1>2. ASSUME NEW W \in T PROVE VisitOneOf(W) \in T
  <2>1. ASSUME NEW w \in W, NEW ok \in BOOLEAN PROVE Visit(w, ok) \in Universe
    <3>1. w \in States /\ Good(w) /\ w.uniqueId = s.uniqueId
      BY <2>1
    <3>2. Visit(w, ok) \in States /\ Good(Visit(w, ok)) /\ Visit(w, ok).uniqueId = w.uniqueId
      BY <3>1, VisitLemma
    <3> QED BY <3>1, <3>2
  <2> HIDE DEF Universe
  <2> QED BY <2>1 DEF VisitOneOf
<1> HIDE DEF Universe
<1> HIDE DEF T
<1>3. Step \in [1..n -> [T -> T]]
  BY <1>2
<1>4. PICK g \in [0..n -> T] : Solves(g, n, {s}, Step)
  <2> HIDE DEF Step, n
  <2> QED BY <1>0, <1>1, <1>3, RecursionLemma
<1>5. g = [m \in 0..Len(s.items) |->
               IF m = 0 THEN {s} ELSE VisitOneOf(g[m - 1])]
  <2>1. ASSUME NEW m \in 1..n PROVE g[m] = VisitOneOf(g[m - 1])
    <3>1. m - 1 \in 0..n
      BY <1>0
    <3>2. g[m] = Step[m][g[m - 1]] /\ g[m - 1] \in T
      BY <1>4, <3>1 DEF Solves
    <3>3. Step[m][g[m - 1]] = VisitOneOf(g[m - 1])
      BY <3>2
    <3> QED BY <3>2, <3>3
  <2>2. g[0] = {s}
    BY <1>4 DEF Solves
  <2>3. \A m \in 0..n : m = 0 \/ m \in 1..n
    BY <1>0
  <2> QED BY <2>1, <2>2, <2>3
<1>6. walk = [m \in 0..Len(s.items) |->
                 IF m = 0 THEN {s} ELSE VisitOneOf(walk[m - 1])]
  BY <1>5
<1> HIDE DEF walk, Step
<1>7. walk[0] \in T /\ \A m \in 1..n : walk[m - 1] \in T => walk[m] \in T
  <2>1. 0 \in 0..n
    BY <1>0
  <2>2. walk[0] = {s}
    BY <1>6, <2>1
  <2>3. ASSUME NEW m \in 1..n, walk[m - 1] \in T PROVE walk[m] \in T
    <3>1. m \in 0..n /\ m # 0
      BY <1>0
    <3>2. walk[m] = VisitOneOf(walk[m - 1])
      BY <1>6, <3>1
    <3> QED BY <1>2, <2>3, <3>2
  <2> QED BY <1>1, <2>2, <2>3
<1>8. walk[n] \in T
  <2>1. \A m \in 0..n : walk[m] \in T
    <3> HIDE DEF n
    <3> QED BY <1>0, <1>7, InductionLemma
  <2> QED BY <1>0, <2>1
<1>9. Deliver(s) = walk[n]
  BY DEF Deliver, walk
<1>10. r \in Universe
  BY <1>8, <1>9 DEF T
<1> QED BY <1>10 DEF Universe

-----------------------------------------------------------------------------
(* Syslog: a line is queued.                                               *)
LEMMA AddLemma ==
    ASSUME NEW s \in States, Good(s), NEW d \in ToSet(Filters), NEW length \in Lengths,
           NEW r, r = Add(s, d, length)
    PROVE  r \in States /\ Good(r) /\ r.uniqueId \in {s.uniqueId, s.uniqueId + 1}
<1> DEFINE u == s.uniqueId
           item == [id |-> u + 1, length |-> length, to |-> d, locked |-> FALSE, failures |-> 0]
           q == s.items
           p == Append(q, item)
           size == s.curSize + SizeOf(item)
           t == s.tcp
           a == s.arrived
           l == s.log
<1>1. CASE SizeOf(item) + s.curSize > MaxSize
  BY <1>1 DEF Add
<1>2. CASE ~(SizeOf(item) + s.curSize > MaxSize)
  <2>1. r = [s EXCEPT !.items = p, !.uniqueId = u + 1, !.curSize = size]
    <3>1. r = [s EXCEPT !.items = Append(@, item), !.uniqueId = @ + 1,
                        !.curSize = @ + SizeOf(item)]
      BY <1>2, Zenon DEF Add
    <3> HIDE DEF item
    <3> QED BY <3>1 DEF States
  <2>2. /\ q \in Queues /\ u \in Nat /\ s.curSize \in Nat /\ l \in Logs
        /\ s.done \in SUBSET Nat /\ s.given \in SUBSET Nat
    BY FieldsLemma
  <2>3. item \in QueueItem
    <3>1. u + 1 \in Nat \ {0} /\ 0 \in 0..(MaxFailures - 1)
      BY <2>2, SyslogAssumption
    <3> HIDE DEF u
    <3> QED BY <3>1 DEF QueueItem
  <2>4. item.id = u + 1 /\ item.to = d /\ item.locked = FALSE /\ item.failures = 0
    OBVIOUS
  <2> HIDE DEF item
  <2>5. /\ p \in Queues /\ Len(q) \in Nat /\ DOMAIN p = 1..(Len(q) + 1) /\ DOMAIN q = 1..Len(q)
        /\ p[Len(q) + 1] = item /\ \A j \in 1..Len(q) : p[j] = q[j]
    BY <2>2, <2>3 DEF Queues
  <2>6. SizeOf(item) \in Nat /\ Used(p) = Used(q) + SizeOf(item)
    BY <2>2, <2>3, SizeOfLemma, UsedAppend
  <2>7. MaxSize \in Nat /\ MaxFailures \in Nat
    BY SyslogAssumption
  <2>8. /\ Distinct(q, u) /\ SizeOK(q, s.curSize) /\ LogOK(l, u)
        /\ KeptOK(q, u, l, s.done, s.given)
        /\ SendersOK(q, u, t, a, l)
        /\ ItemsOK(q, t, a, l)
    BY DEF Good, Base
  <2>9. size \in Nat /\ SizeOK(p, size)
    BY <1>2, <2>2, <2>6, <2>7, <2>8 DEF SizeOK
  <2> HIDE DEF p, size
  <2>10. /\ r \in States /\ r.items = p /\ r.curSize = size /\ r.uniqueId = u + 1
         /\ r.tcp = t /\ r.arrived = a /\ r.log = l /\ r.done = s.done /\ r.given = s.given
    <3> DEFINE v == u + 1
    <3>1. v \in Nat /\ p \in Queues /\ size \in Nat
      BY <2>2, <2>5, <2>9
    <3>2. r = [s EXCEPT !.items = p, !.uniqueId = v, !.curSize = size]
      BY <2>1
    <3> HIDE DEF v
    <3>3. r \in States
      BY <3>1, <3>2 DEF States
    <3>4. r.items = p /\ r.curSize = size /\ r.uniqueId = v
      BY <3>2 DEF States
    <3>5. r.tcp = t /\ r.arrived = a /\ r.log = l /\ r.done = s.done /\ r.given = s.given
      BY <3>2 DEF States
    <3> QED BY <3>3, <3>4, <3>5 DEF v
  <2>11. Cop(l, u + 1) = 0 /\ LogOK(l, u + 1)
    BY <2>2, <2>8, NewNumber
  <2> HIDE DEF u, q, t, a, l
  <2>12. \A j \in DOMAIN p : j = Len(q) + 1 \/ j \in DOMAIN q
    BY <2>5
  <2>13. \A j \in DOMAIN q : q[j].id \in Nat /\ q[j].id <= u /\ j \in DOMAIN p /\ p[j] = q[j]
    <3>1. \A j \in DOMAIN q : q[j] \in QueueItem
      BY <2>2, <2>5 DEF Queues
    <3>2. \A j \in DOMAIN q : j \in DOMAIN p /\ p[j] = q[j]
      BY <2>5
    <3> QED BY <2>8, <3>1, <3>2 DEF Distinct, QueueItem
  <2>14. Distinct(p, u + 1)
    <3>1. ASSUME NEW i \in DOMAIN p, NEW j \in DOMAIN p, p[i].id = p[j].id PROVE i = j
      <4>1. CASE i \in DOMAIN q /\ j \in DOMAIN q
        <5>1. q[i].id = q[j].id
          BY <2>13, <3>1, <4>1
        <5> QED BY <2>8, <4>1, <5>1 DEF Distinct
      <4>2. CASE i = Len(q) + 1 /\ j \in DOMAIN q
        <5>1. p[i].id = u + 1 /\ p[j].id <= u /\ p[j].id \in Nat
          BY <2>4, <2>5, <2>13, <4>2
        <5> QED BY <2>2, <3>1, <5>1
      <4>3. CASE i \in DOMAIN q /\ j = Len(q) + 1
        <5>1. p[j].id = u + 1 /\ p[i].id <= u /\ p[i].id \in Nat
          BY <2>4, <2>5, <2>13, <4>3
        <5> QED BY <2>2, <3>1, <5>1
      <4> QED BY <2>12, <4>1, <4>2, <4>3
    <3>2. ASSUME NEW j \in DOMAIN p PROVE p[j].id <= u + 1
      <4>1. CASE j \in DOMAIN q
        BY <2>2, <2>13, <4>1
      <4>2. CASE j = Len(q) + 1
        BY <2>2, <2>4, <2>5, <4>2
      <4> QED BY <2>12, <4>1, <4>2
    <3> QED BY <3>1, <3>2 DEF Distinct
  <2>15. KeptOK(p, u + 1, l, s.done, s.given)
    <3>1. \A e \in 1..(u + 1) : e = u + 1 \/ e \in 1..u
      BY <2>2
    <3>2. \A e \in 1..u : e \in 1..(u + 1)
      BY <2>2
    <3>3. u + 1 \in QueuedIn(p) /\ QueuedIn(q) \subseteq QueuedIn(p)
      <4>1. Len(q) + 1 \in DOMAIN p
        BY <2>5
      <4>2. u + 1 \in QueuedIn(p)
        BY <2>4, <2>5, <4>1 DEF QueuedIn
      <4>3. QueuedIn(q) \subseteq QueuedIn(p)
        BY <2>13 DEF QueuedIn
      <4> QED BY <4>2, <4>3
    <3> QED BY <2>8, <3>1, <3>2, <3>3 DEF KeptOK
  <2>16. SendersOK(p, u + 1, t, a, l)
    <3>1. ASSUME NEW x \in Tcp PROVE SenderOK(x, p, u + 1, t, a, l)
      <4>1. SenderOK(x, q, u, t, a, l)
        BY <2>8 DEF SendersOK
      <4>2. ASSUME t[x].isSending PROVE t[x].id \in 1..(u + 1) /\ t[x].id # u + 1
        <5>1. t[x].id \in 1..u
          BY <4>1, <4>2 DEF SenderOK
        <5> QED BY <2>2, <5>1
      <4>3. ASSUME t[x].isSending, NEW j \in DOMAIN p, p[j].id = t[x].id PROVE p[j].to = x
        <5>1. j \in DOMAIN q
          BY <2>4, <2>5, <2>12, <4>2, <4>3
        <5> QED BY <2>13, <4>1, <4>3, <5>1 DEF SenderOK
      <4>4. t[x].id \in 0..u /\ \A e \in 0..u : e \in 0..(u + 1)
        BY <2>2, <4>1 DEF SenderOK
      <4> QED BY <4>1, <4>2, <4>3, <4>4 DEF SenderOK
    <3> QED BY <3>1 DEF SendersOK
  <2>17. ItemsOK(p, t, a, l)
    <3>1. ~Sends(t, item)
      <4>1. ASSUME NEW x \in Tcp, t[x].isSending PROVE t[x].id # u + 1
        <5>1. t[x].id \in 1..u
          BY <2>8, <4>1 DEF SendersOK, SenderOK
        <5> QED BY <2>2, <5>1
      <4> QED BY <2>4, <4>1 DEF Sends
    <3>2. ItemOK(item, t, a, l)
      <4>1. Cop(l, item.id) <= item.failures + 0
        BY <2>4, <2>11
      <4> QED BY <2>4, <3>1, <4>1 DEF ItemOK
    <3> QED BY <2>5, <2>8, <2>12, <2>13, <3>2 DEF ItemsOK
  <2>18. Good(r)
    BY <2>9, <2>10, <2>11, <2>14, <2>15, <2>16, <2>17 DEF Good, Base
  <2> QED BY <2>10, <2>18 DEF u
<1> QED BY <1>1, <1>2

LEMMA AddToAllLemma ==
    ASSUME NEW s \in States, Good(s), NEW length \in Lengths, NEW r, r = AddToAll(s, length)
    PROVE  r \in States /\ Good(r) /\ r.uniqueId <= s.uniqueId + Len(Filters)
<1> DEFINE n == Len(Filters)
           T == {w \in States : Good(w)}
           Step == [m \in 1..n |-> [w \in T |-> Add(w, Filters[m], length)]]
           added[m \in 0..Len(Filters)] ==
               IF m = 0 THEN s ELSE Add(added[m - 1], Filters[m], length)
<1>0. n \in Nat /\ \A m \in 1..n : Filters[m] \in ToSet(Filters)
  BY SyslogAssumption
<1>1. s \in T
  OBVIOUS
<1>2. ASSUME NEW m \in 1..n, NEW w \in T PROVE Add(w, Filters[m], length) \in T
  <2>1. w \in States /\ Good(w) /\ Filters[m] \in ToSet(Filters)
    BY <1>0
  <2> QED BY <2>1, AddLemma
<1> HIDE DEF T
<1>3. Step \in [1..n -> [T -> T]]
  BY <1>2
<1>4. PICK g \in [0..n -> T] : Solves(g, n, s, Step)
  <2> HIDE DEF Step, n
  <2> QED BY <1>0, <1>1, <1>3, RecursionLemma
<1>5. g = [m \in 0..Len(Filters) |-> IF m = 0 THEN s ELSE Add(g[m - 1], Filters[m], length)]
  <2>1. ASSUME NEW m \in 1..n PROVE g[m] = Add(g[m - 1], Filters[m], length)
    <3>1. m - 1 \in 0..n
      BY <1>0
    <3>2. g[m] = Step[m][g[m - 1]] /\ g[m - 1] \in T
      BY <1>4, <3>1 DEF Solves
    <3>3. Step[m][g[m - 1]] = Add(g[m - 1], Filters[m], length)
      BY <3>2
    <3> QED BY <3>2, <3>3
  <2>2. g[0] = s
    BY <1>4 DEF Solves
  <2>3. \A m \in 0..n : m = 0 \/ m \in 1..n
    BY <1>0
  <2> QED BY <2>1, <2>2, <2>3
<1>6. added = [m \in 0..Len(Filters) |->
                  IF m = 0 THEN s ELSE Add(added[m - 1], Filters[m], length)]
  BY <1>5
<1> HIDE DEF added, Step
<1>7. added[0] = s /\ \A m \in 1..n : added[m] = Add(added[m - 1], Filters[m], length)
  <2>1. 0 \in 0..n /\ \A m \in 1..n : m \in 0..n /\ m # 0
    BY <1>0
  <2> QED BY <1>6, <2>1
<1> DEFINE B == [m \in 0..n |-> /\ added[m] \in T
                                /\ added[m].uniqueId <= s.uniqueId + m]
<1>8. B[0] \in {TRUE}
  <2>1. s.uniqueId \in Nat /\ 0 \in 0..n
    BY <1>0, FieldsLemma
  <2> QED BY <1>1, <1>7, <2>1
<1>9. ASSUME NEW m \in 1..n, B[m - 1] \in {TRUE} PROVE B[m] \in {TRUE}
  <2>1. m - 1 \in 0..n /\ m \in 0..n
    BY <1>0
  <2>2. added[m - 1] \in T /\ added[m - 1].uniqueId <= s.uniqueId + (m - 1)
    BY <1>9, <2>1
  <2>3. added[m - 1] \in States /\ Good(added[m - 1])
    BY <2>2 DEF T
  <2>4. /\ added[m] \in States /\ Good(added[m])
        /\ added[m].uniqueId \in {added[m - 1].uniqueId, added[m - 1].uniqueId + 1}
    <3> DEFINE before == added[m - 1]
    <3>1. added[m] = Add(before, Filters[m], length) /\ Filters[m] \in ToSet(Filters)
      BY <1>0, <1>7
    <3>2. before \in States /\ Good(before)
      BY <2>3
    <3> HIDE DEF before
    <3>3. /\ added[m] \in States /\ Good(added[m])
          /\ added[m].uniqueId \in {before.uniqueId, before.uniqueId + 1}
      BY <3>1, <3>2, AddLemma
    <3> QED BY <3>3 DEF before
  <2>5. added[m - 1].uniqueId \in Nat /\ s.uniqueId \in Nat
    BY <2>3, FieldsLemma
  <2>6. added[m].uniqueId <= s.uniqueId + m
    BY <2>2, <2>4, <2>5
  <2>7. added[m] \in T
    BY <2>4 DEF T
  <2> QED BY <2>1, <2>6, <2>7
<1> HIDE DEF B
<1>10. B[n] \in {TRUE} /\ n \in 0..n
  <2>1. \A m \in 0..n : B[m] \in {TRUE}
    <3> HIDE DEF n
    <3> QED BY <1>0, <1>8, <1>9, InductionLemma
  <2> QED BY <1>0, <2>1
<1>11. added[n] \in T /\ added[n].uniqueId <= s.uniqueId + n
  BY <1>10 DEF B
<1>12. r = added[n]
  BY DEF AddToAll, added
<1> QED BY <1>11, <1>12 DEF T

-----------------------------------------------------------------------------
(* Syslog: the actions.                                                    *)
LEMMA StateLemma ==
    /\ State.items = items /\ State.curSize = curSize /\ State.uniqueId = uniqueId
    /\ State.tcp = tcp /\ State.client = client /\ State.arrived = arrived
    /\ State.log = log /\ State.done = done /\ State.given = given
BY DEF State

LEMMA OutcomeLemma ==
    ASSUME NEW outcomes, BecomeOneOf(outcomes), online' \in BOOLEAN,
           \A s \in outcomes : s \in States /\ Good(s) /\ s.uniqueId <= MaxItems
    PROVE  SyslogInv'
<1>1. PICK s \in outcomes :
         /\ items' = s.items /\ curSize' = s.curSize /\ uniqueId' = s.uniqueId
         /\ tcp' = s.tcp /\ client' = s.client /\ arrived' = s.arrived
         /\ log' = s.log /\ done' = s.done /\ given' = s.given
  BY DEF BecomeOneOf
<1>2. s \in States /\ Good(s) /\ s.uniqueId <= MaxItems
  OBVIOUS
<1> DEFINE r == [items |-> items', curSize |-> curSize', uniqueId |-> uniqueId', tcp |-> tcp',
                 client |-> client', arrived |-> arrived', log |-> log', done |-> done',
                 given |-> given', pos |-> 1]
<1>3. r = [s EXCEPT !.pos = 1]
  BY <1>1, <1>2 DEF States
<1>4. r \in States
  BY <1>2, <1>3 DEF States
<1>5. /\ r.items = s.items /\ r.curSize = s.curSize /\ r.uniqueId = s.uniqueId
      /\ r.tcp = s.tcp /\ r.arrived = s.arrived /\ r.log = s.log
      /\ r.done = s.done /\ r.given = s.given
  BY <1>1
<1>6. State' = r
  BY DEF State
<1> HIDE DEF r
<1>7. Good(r)
  BY <1>2, <1>5 DEF Good, Base
<1>8. State' \in States /\ uniqueId' <= MaxItems
  BY <1>1, <1>2, <1>4, <1>6
<1>9. Good(State)' <=> Good(r)
  BY <1>6 DEF Good, Base, Distinct, SizeOK, LogOK, KeptOK, SendersOK, SenderOK, ItemsOK, ItemOK,
         Sends, QueuedIn, Got, Cop, PlacesOf, Used
<1> QED BY <1>7, <1>8, <1>9 DEF SyslogInv

(* A destination goes on with its message, or without one.                 *)
SameMessage(doing, old) == doing.isSending = old.isSending /\ doing.id = old.id

LEMMA GoesOnLemma ==
    ASSUME NEW s \in States, Good(s), NEW d \in Tcp, NEW doing \in Conn,
           SameMessage(doing, s.tcp[d]), NEW c \in Clients,
           NEW r, r = Connection(s, [s.tcp EXCEPT ![d] = doing], c, s.arrived)
    PROVE  r \in States /\ Good(r) /\ r.uniqueId = s.uniqueId
<1> DEFINE t == [s.tcp EXCEPT ![d] = doing]
<1>1. s.tcp \in Conns /\ s.arrived \in Flags
  BY FieldsLemma
<1>2. t \in Conns
  BY <1>1 DEF Conns
<1>3. \A x \in Tcp : t[x].isSending = s.tcp[x].isSending /\ t[x].id = s.tcp[x].id
  BY <1>1 DEF Conns, SameMessage
<1> HIDE DEF t
<1>4. /\ r \in States
      /\ r.tcp = t /\ r.client = c /\ r.arrived = s.arrived
      /\ r.items = s.items /\ r.curSize = s.curSize /\ r.uniqueId = s.uniqueId
      /\ r.log = s.log /\ r.done = s.done /\ r.given = s.given /\ r.pos = s.pos
  <2>1. r = Connection(s, t, c, s.arrived)
    BY DEF t
  <2> QED BY <1>1, <1>2, <2>1, ConnectionLemma
<1>5. /\ Distinct(s.items, s.uniqueId) /\ SizeOK(s.items, s.curSize) /\ LogOK(s.log, s.uniqueId)
      /\ KeptOK(s.items, s.uniqueId, s.log, s.done, s.given)
      /\ SendersOK(s.items, s.uniqueId, s.tcp, s.arrived, s.log)
      /\ ItemsOK(s.items, s.tcp, s.arrived, s.log)
  BY DEF Good, Base
<1>6. SendersOK(s.items, s.uniqueId, t, s.arrived, s.log)
  <2>1. ASSUME NEW x \in Tcp PROVE SenderOK(x, s.items, s.uniqueId, t, s.arrived, s.log)
    <3>1. SenderOK(x, s.items, s.uniqueId, s.tcp, s.arrived, s.log)
      BY <1>5 DEF SendersOK
    <3>2. t[x].isSending = s.tcp[x].isSending /\ t[x].id = s.tcp[x].id
      BY <1>3
    <3> QED BY <3>1, <3>2, Zenon DEF SenderOK
  <2> QED BY <2>1 DEF SendersOK
<1>7. ItemsOK(s.items, t, s.arrived, s.log)
  <2>1. ASSUME NEW k \in DOMAIN s.items PROVE ItemOK(s.items[k], t, s.arrived, s.log)
    <3>1. ItemOK(s.items[k], s.tcp, s.arrived, s.log)
      BY <1>5 DEF ItemsOK
    <3>2. Sends(t, s.items[k]) <=> Sends(s.tcp, s.items[k])
      BY <1>3, Zenon DEF Sends
    <3> QED BY <3>1, <3>2, Zenon DEF ItemOK
  <2> QED BY <2>1 DEF ItemsOK
<1> QED BY <1>4, <1>5, <1>6, <1>7 DEF Good, Base

(* A message arrives.                                                      *)
LEMMA ArriveLemma ==
    ASSUME NEW s \in States, Good(s), NEW d \in Tcp, s.tcp[d].isSending, ~s.arrived[d],
           NEW r, r = [s EXCEPT !.arrived = [s.arrived EXCEPT ![d] = TRUE],
                                !.log = Landed(s.log, d, s.tcp[d].id)]
    PROVE  r \in States /\ Good(r) /\ r.uniqueId = s.uniqueId
<1> DEFINE id == s.tcp[d].id
           q == s.items
           u == s.uniqueId
           l == s.log
           l2 == Landed(l, d, id)
           t == s.tcp
           a == s.arrived
           a2 == [a EXCEPT ![d] = TRUE]
<1>1. /\ a \in Flags /\ l \in Logs /\ u \in Nat /\ q \in Queues
      /\ d \in ToSet(Filters) /\ \A x \in Tcp : x = d
  BY FieldsLemma, SyslogAssumption
<1>2. /\ Distinct(q, u) /\ SizeOK(q, s.curSize) /\ LogOK(l, u)
      /\ KeptOK(q, u, l, s.done, s.given)
      /\ SendersOK(q, u, t, a, l)
      /\ ItemsOK(q, t, a, l)
  BY DEF Good, Base
<1>3. SenderOK(d, q, u, t, a, l)
  BY <1>2 DEF SendersOK
<1>4. /\ id \in 1..u /\ Cop(l, id) <= MaxFailures - 1
      /\ \A k \in DOMAIN q : q[k].id = id => q[k].to = d
  BY <1>3 DEF SenderOK
<1> HIDE DEF id, l2
<1>5. /\ l2 \in Logs /\ LogOK(l2, u)
      /\ Cop(l2, id) = Cop(l, id) + 1
      /\ \A e \in 1..u : e # id => Cop(l2, e) = Cop(l, e)
      /\ Got(l2, id)
      /\ \A e : Got(l, e) => Got(l2, e)
  <2>1. l2 = Landed(l, d, id)
    BY DEF l2
  <2> HIDE DEF l, u
  <2> QED BY <1>1, <1>2, <1>4, <2>1, LandLemma
<1>6. a2 \in Flags /\ a2[d] = TRUE
  BY <1>1 DEF Flags
<1> HIDE DEF a2
<1>7. /\ r \in States /\ r.log = l2 /\ r.arrived = a2
      /\ r.items = q /\ r.curSize = s.curSize /\ r.uniqueId = u /\ r.tcp = t
      /\ r.done = s.done /\ r.given = s.given
  <2>1. r = [s EXCEPT !.arrived = a2, !.log = l2]
    BY DEF a2, l2, id
  <2>2. r \in States
    BY <1>5, <1>6, <2>1 DEF States
  <2>3. r.log = l2 /\ r.arrived = a2
    BY <2>1 DEF States
  <2>4. /\ r.items = q /\ r.curSize = s.curSize /\ r.uniqueId = u /\ r.tcp = t
        /\ r.done = s.done /\ r.given = s.given
    BY <2>1 DEF States
  <2> QED BY <2>2, <2>3, <2>4
<1>8. SendersOK(q, u, t, a2, l2)
  <2>1. SenderOK(d, q, u, t, a2, l2)
    BY <1>4, <1>5, <1>6 DEF SenderOK, id
  <2> QED BY <1>1, <2>1 DEF SendersOK
<1>9. KeptOK(q, u, l2, s.done, s.given)
  BY <1>2, <1>5 DEF KeptOK
<1>10. ASSUME NEW k \in DOMAIN q PROVE ItemOK(q[k], t, a2, l2)
  <2>1. ItemOK(q[k], t, a, l)
    BY <1>2 DEF ItemsOK
  <2>2. q[k] \in QueueItem
    BY <1>1 DEF Queues
  <2>3. q[k].id \in 1..u
    <3>1. q[k].id <= u /\ q[k].id \in Nat \ {0}
      BY <1>2, <2>2 DEF Distinct, QueueItem
    <3> QED BY <1>1, <3>1
  <2>4. CASE q[k].id = id
    <3>1. Sends(t, q[k]) /\ q[k].to = d
      BY <1>4, <2>4 DEF Sends, id
    <3>2. Cop(l, id) <= q[k].failures + 0
      BY <2>1, <2>4, <3>1 DEF ItemOK
    <3>3. q[k].failures \in Nat /\ Cop(l, id) \in Nat
      BY <1>1, <1>2, <1>4, <2>2, CopNat, SyslogAssumption DEF QueueItem
    <3>4. Cop(l2, q[k].id) <= q[k].failures + 1
      BY <1>5, <2>4, <3>2, <3>3
    <3> QED BY <1>6, <2>1, <3>1, <3>4 DEF ItemOK
  <2>5. CASE q[k].id # id
    <3>1. ~Sends(t, q[k])
      BY <1>1, <2>5 DEF Sends, id
    <3>2. ~q[k].locked /\ Cop(l, q[k].id) <= q[k].failures + 0
      BY <2>1, <3>1 DEF ItemOK
    <3>3. Cop(l2, q[k].id) = Cop(l, q[k].id)
      BY <1>5, <2>3, <2>5
    <3> QED BY <3>1, <3>2, <3>3 DEF ItemOK
  <2> QED BY <2>4, <2>5
<1>11. ItemsOK(q, t, a2, l2)
  BY <1>10 DEF ItemsOK
<1> HIDE DEF q, u, t, a, l
<1>12. Good(r)
  BY <1>2, <1>5, <1>7, <1>8, <1>9, <1>11 DEF Good, Base
<1> QED BY <1>7, <1>12 DEF u

(* The queue is cleared.                                                   *)
LEMMA ClearLemma ==
    ASSUME NEW s \in States, Good(s),
           NEW r, r = Queue(s, <<>>, 0, s.done, s.given \union QueuedIn(s.items))
    PROVE  r \in States /\ Good(r) /\ r.uniqueId = s.uniqueId
<1> DEFINE e == <<>>
           lost == s.given \union QueuedIn(s.items)
           u == s.uniqueId
<1>1. /\ s.items \in Queues /\ u \in Nat /\ s.done \in SUBSET Nat /\ s.given \in SUBSET Nat
      /\ e \in Queues /\ DOMAIN e = {} /\ Len(e) = 0
  BY FieldsLemma DEF Queues
<1>2. /\ Distinct(s.items, u) /\ LogOK(s.log, u)
      /\ KeptOK(s.items, u, s.log, s.done, s.given)
      /\ SendersOK(s.items, u, s.tcp, s.arrived, s.log)
  BY DEF Good, Base
<1>3. QueuedIn(s.items) \subseteq 1..u
  <2>1. ASSUME NEW k \in DOMAIN s.items PROVE s.items[k].id \in 1..u
    <3>1. s.items[k].id <= u /\ s.items[k] \in QueueItem
      BY <1>1, <1>2 DEF Distinct, Queues
    <3>2. s.items[k].id \in Nat \ {0}
      BY <3>1 DEF QueueItem
    <3> QED BY <1>1, <3>1, <3>2
  <2> QED BY <2>1 DEF QueuedIn
<1>4. lost \in SUBSET Nat
  BY <1>1, <1>3
<1>5. Used(e) = 0
  <2>1. PICK g \in [0..Len(e) -> Nat] : Sums(g, e) /\ Used(e) = g[Len(e)]
    BY <1>1, UsedLemma
  <2> QED BY <1>1, <2>1 DEF Sums
<1> HIDE DEF e, lost, u
<1>6. r = Queue(s, e, 0, s.done, lost)
  BY DEF e, lost
<1>7. /\ r \in States /\ Around(r, s)
      /\ r.items = e /\ r.curSize = 0 /\ r.done = s.done /\ r.given = lost
  <2> DEFINE zero == 0
  <2>1. zero \in Nat /\ r = Queue(s, e, zero, s.done, lost)
    BY <1>6
  <2>2. e \in Queues /\ s.done \in SUBSET Nat
    BY <1>1
  <2> HIDE DEF zero
  <2>3. /\ r \in States /\ Around(r, s)
        /\ r.items = e /\ r.curSize = zero /\ r.done = s.done /\ r.given = lost
    BY <1>4, <2>1, <2>2, QueueLemma
  <2> QED BY <2>3 DEF zero
<1>8. /\ r.uniqueId = u /\ r.tcp = s.tcp /\ r.arrived = s.arrived /\ r.log = s.log
  BY <1>7 DEF Around, u
<1>9. Distinct(e, u) /\ ItemsOK(e, s.tcp, s.arrived, s.log)
  BY <1>1 DEF Distinct, ItemsOK
<1>10. SizeOK(e, 0)
  <2>1. 0 <= MaxSize
    BY SyslogAssumption
  <2> QED BY <1>5, <2>1 DEF SizeOK
<1>11. KeptOK(e, u, s.log, s.done, lost)
  BY <1>1, <1>2, <1>3 DEF KeptOK, lost
<1>12. SendersOK(e, u, s.tcp, s.arrived, s.log)
  <2>1. Fewer(e, s.items)
    BY <1>1 DEF Fewer
  <2> QED BY <1>2, <2>1, SendersFewer
<1>13. Good(r)
  BY <1>2, <1>7, <1>8, <1>9, <1>10, <1>11, <1>12 DEF Good, Base
<1> QED BY <1>7, <1>8, <1>13 DEF u

LEMMA ConnectionStep ==
    ASSUME SyslogInv, NEW d \in Tcp, NEW doing \in Conn, SameMessage(doing, tcp[d]),
           tcp' = [tcp EXCEPT ![d] = doing], client' \in Clients,
           UNCHANGED <<queueVars, arrived, online, log, done, given>>
    PROVE  SyslogInv'
<1> DEFINE r == Connection(State, [State.tcp EXCEPT ![d] = doing], client', State.arrived)
<1>1. State \in States /\ Good(State) /\ uniqueId <= MaxItems /\ online \in BOOLEAN
  BY DEF SyslogInv
<1>2. SameMessage(doing, State.tcp[d])
  BY StateLemma
<1>3. r \in States /\ Good(r) /\ r.uniqueId = State.uniqueId
  <2> HIDE DEF r
  <2>1. r = Connection(State, [State.tcp EXCEPT ![d] = doing], client', State.arrived)
    BY DEF r
  <2> QED BY <1>1, <1>2, <2>1, GoesOnLemma
<1>4. /\ items' = r.items /\ curSize' = r.curSize /\ uniqueId' = r.uniqueId
      /\ tcp' = r.tcp /\ client' = r.client /\ arrived' = r.arrived
      /\ log' = r.log /\ done' = r.done /\ given' = r.given
  BY DEF Connection, State, queueVars
<1>5. online' \in BOOLEAN /\ r.uniqueId <= MaxItems
  BY <1>1, <1>3, StateLemma
<1> HIDE DEF r
<1>6. BecomeOneOf({r})
  BY <1>4 DEF BecomeOneOf
<1> QED BY <1>3, <1>5, <1>6, OutcomeLemma

LEMMA TypesLemma ==
    ASSUME SyslogInv
    PROVE  /\ items \in Queues /\ curSize \in Nat /\ uniqueId \in Nat
           /\ tcp \in Conns /\ client \in Clients /\ arrived \in Flags /\ log \in Logs
           /\ done \in SUBSET Nat /\ given \in SUBSET Nat
           /\ State \in States /\ Good(State) /\ uniqueId <= MaxItems /\ online \in BOOLEAN
<1>1. State \in States /\ Good(State) /\ uniqueId <= MaxItems /\ online \in BOOLEAN
  BY DEF SyslogInv
<1> QED BY <1>1, FieldsLemma, StateLemma DEF Clients

LEMMA WrittenLemma ==
    ASSUME SyslogInv, NEW d \in Tcp, NEW n \in 1..tcp[d].left, Written(d, n),
           client' \in Clients, UNCHANGED <<queueVars, arrived, online, log, done, given>>
    PROVE  SyslogInv'
<1> DEFINE old == tcp[d]
           doing == [old EXCEPT !.left = @ - n, !.written = @ + n]
<1>1. old \in Conn
  BY TypesLemma DEF Conns
<1>2. old.left \in Nat /\ old.written \in Nat
  BY <1>1 DEF Conn
<1>3. old.left - n \in Nat /\ old.written + n \in Nat
  BY <1>2
<1>4. tcp' = [tcp EXCEPT ![d] = doing]
  BY TypesLemma DEF Written, Conns
<1> HIDE DEF old
<1>5. doing \in Conn /\ SameMessage(doing, old)
  BY <1>1, <1>3 DEF Conn, SameMessage
<1> HIDE DEF doing
<1> QED BY <1>4, <1>5, ConnectionStep DEF old

LEMMA FlushStep ==
    ASSUME SyslogInv, Flush
    PROVE  SyslogInv'
<1>1. State \in States /\ Good(State) /\ online \in BOOLEAN /\ uniqueId \in Nat
  BY TypesLemma
<1>2. PICK length \in Lengths : BecomeOneOf(Deliver(AddToAll(State, length)))
  BY DEF Flush
<1> DEFINE w == AddToAll(State, length)
<1>3. w \in States /\ Good(w) /\ w.uniqueId <= State.uniqueId + Len(Filters)
  BY <1>1, AddToAllLemma
<1>4. uniqueId + Len(Filters) <= MaxItems /\ online' = online
  BY DEF Flush
<1> HIDE DEF w
<1>5. w.uniqueId <= MaxItems
  <2>1. w.uniqueId \in Nat /\ Len(Filters) \in Nat /\ MaxItems \in Nat
    BY <1>3, FieldsLemma, SyslogAssumption
  <2> QED BY <1>1, <1>3, <1>4, <2>1, StateLemma
<1>6. \A s \in Deliver(w) : s \in States /\ Good(s) /\ s.uniqueId <= MaxItems
  BY <1>3, <1>5, DeliverLemma
<1>7. BecomeOneOf(Deliver(w)) /\ online' \in BOOLEAN
  BY <1>1, <1>2, <1>4 DEF w
<1> QED BY <1>6, <1>7, OutcomeLemma

LEMMA DeliverQueueStep ==
    ASSUME SyslogInv, DeliverQueue
    PROVE  SyslogInv'
<1>1. State \in States /\ Good(State) /\ online \in BOOLEAN /\ State.uniqueId <= MaxItems
  BY TypesLemma, StateLemma
<1>2. \A s \in Deliver(State) : s \in States /\ Good(s) /\ s.uniqueId <= MaxItems
  BY <1>1, DeliverLemma
<1>3. BecomeOneOf(Deliver(State)) /\ online' \in BOOLEAN
  BY <1>1 DEF DeliverQueue
<1> QED BY <1>2, <1>3, OutcomeLemma

LEMMA ClearStep ==
    ASSUME SyslogInv, Clear
    PROVE  SyslogInv'
<1> DEFINE r == Queue(State, <<>>, 0, State.done, State.given \union QueuedIn(State.items))
<1>1. State \in States /\ Good(State) /\ online \in BOOLEAN /\ State.uniqueId <= MaxItems
  BY TypesLemma, StateLemma
<1>2. r \in States /\ Good(r) /\ r.uniqueId = State.uniqueId
  BY <1>1, ClearLemma
<1>0. curSize - Used(items) = 0
  <2>1. State.curSize = Used(State.items) /\ State.curSize \in Nat
    BY <1>1, FieldsLemma DEF Good, Base, SizeOK
  <2> QED BY <2>1, StateLemma
<1>3. /\ items' = r.items /\ curSize' = r.curSize /\ uniqueId' = r.uniqueId
      /\ tcp' = r.tcp /\ client' = r.client /\ arrived' = r.arrived
      /\ log' = r.log /\ done' = r.done /\ given' = r.given
  BY <1>0 DEF Clear, Queue, State, QueuedIds, QueuedIn, tcpVars
<1>4. online' \in BOOLEAN
  BY <1>1 DEF Clear
<1> HIDE DEF r
<1>5. BecomeOneOf({r})
  BY <1>3 DEF BecomeOneOf
<1> QED BY <1>1, <1>2, <1>4, <1>5, OutcomeLemma

LEMMA WiFiStep ==
    ASSUME SyslogInv, UNCHANGED <<queueVars, tcpVars, log, done, given>>, online' \in BOOLEAN
    PROVE  SyslogInv'
<1>1. State \in States /\ Good(State) /\ State.uniqueId <= MaxItems
  BY TypesLemma, StateLemma
<1>2. BecomeOneOf({State})
  BY StateLemma DEF BecomeOneOf, queueVars, tcpVars
<1> QED BY <1>1, <1>2, OutcomeLemma

LEMMA WriteErrorStep ==
    ASSUME SyslogInv, NEW d \in Tcp, NEW s, s \in States, Good(s), s.uniqueId = uniqueId,
           BecomeOneOf({WriteError(s, d)}), online' = online
    PROVE  SyslogInv'
<1> DEFINE r == WriteError(s, d)
<1>1. r \in States /\ Good(r) /\ r.uniqueId = s.uniqueId
  BY WriteErrorLemma
<1>2. online' \in BOOLEAN /\ r.uniqueId <= MaxItems
  BY <1>1, TypesLemma
<1>3. BecomeOneOf({r})
  OBVIOUS
<1> HIDE DEF r
<1> QED BY <1>1, <1>2, <1>3, OutcomeLemma

LEMMA OnTcpDisconnectStep ==
    ASSUME SyslogInv, NEW d \in Tcp, OnTcpDisconnect(d)
    PROVE  SyslogInv'
<1> DEFINE c == [client EXCEPT ![d] = "closed"]
           s == [State EXCEPT !.client[d] = "closed"]
           doing == tcp[d]
<1>1. /\ State \in States /\ Good(State) /\ uniqueId <= MaxItems
      /\ tcp \in Conns /\ client \in Clients
  BY TypesLemma
<1>2. c \in Clients /\ doing \in Conn /\ [tcp EXCEPT ![d] = doing] = tcp
  BY <1>1 DEF Clients, Conns
<1>3. s = Connection(State, [State.tcp EXCEPT ![d] = doing], c, State.arrived)
  <2>1. [State.tcp EXCEPT ![d] = doing] = State.tcp
    BY <1>2, StateLemma
  <2>2. s = Connection(State, State.tcp, c, State.arrived)
    BY DEF Connection, State
  <2> QED BY <2>1, <2>2
<1>4. SameMessage(doing, State.tcp[d])
  BY StateLemma DEF SameMessage
<1>5. BecomeOneOf({WriteError(s, d)}) /\ online' = online
  BY DEF OnTcpDisconnect
<1> HIDE DEF c, s, doing
<1>6. s \in States /\ Good(s) /\ s.uniqueId = State.uniqueId
  BY <1>1, <1>2, <1>3, <1>4, GoesOnLemma
<1> QED BY <1>5, <1>6, StateLemma, WriteErrorStep

LEMMA ArriveStep ==
    ASSUME SyslogInv, NEW d \in Tcp, Arrive(d)
    PROVE  SyslogInv'
<1> DEFINE r == [State EXCEPT !.arrived = [State.arrived EXCEPT ![d] = TRUE],
                              !.log = Landed(State.log, d, State.tcp[d].id)]
<1>1. State \in States /\ Good(State) /\ online \in BOOLEAN /\ State.uniqueId <= MaxItems
  BY TypesLemma, StateLemma
<1>2. State.tcp[d].isSending /\ ~State.arrived[d]
  BY StateLemma DEF Arrive
<1>3. r \in States /\ Good(r) /\ r.uniqueId = State.uniqueId
  <2> HIDE DEF r
  <2>1. r = [State EXCEPT !.arrived = [State.arrived EXCEPT ![d] = TRUE],
                          !.log = Landed(State.log, d, State.tcp[d].id)]
    BY DEF r
  <2> QED BY <1>1, <1>2, <2>1, ArriveLemma
<1>4. /\ items' = r.items /\ curSize' = r.curSize /\ uniqueId' = r.uniqueId
      /\ tcp' = r.tcp /\ client' = r.client /\ arrived' = r.arrived
      /\ log' = r.log /\ done' = r.done /\ given' = r.given
  BY DEF Arrive, Landed, State, queueVars
<1>5. online' \in BOOLEAN
  BY <1>1 DEF Arrive
<1> HIDE DEF r
<1>6. BecomeOneOf({r})
  BY <1>4 DEF BecomeOneOf
<1> QED BY <1>1, <1>3, <1>5, <1>6, OutcomeLemma

LEMMA OnIdleStep ==
    ASSUME SyslogInv, NEW d \in Tcp, OnIdle(d)
    PROVE  SyslogInv'
<1> DEFINE old == tcp[d]
           doing == [old EXCEPT !.isDisconnecting = TRUE]
<1>1. tcp \in Conns /\ client \in Clients
  BY TypesLemma
<1>2. old \in Conn
  BY <1>1 DEF Conns
<1>3. tcp' = [tcp EXCEPT ![d] = doing]
  BY <1>1 DEF OnIdle, Conns
<1>4. client' \in Clients
  BY <1>1 DEF OnIdle, Clients
<1> HIDE DEF old
<1>5. doing \in Conn /\ SameMessage(doing, old)
  BY <1>2 DEF Conn, SameMessage
<1> HIDE DEF doing
<1> QED BY <1>3, <1>4, <1>5, ConnectionStep DEF old, OnIdle

LEMMA OnAckStep ==
    ASSUME SyslogInv, NEW d \in Tcp, OnAck(d)
    PROVE  SyslogInv'
<1> DEFINE Acked(n) == [State EXCEPT !.tcp[d].sentAck = @ + n]
           Complete(n) == Acked(n).tcp[d].sentAck = tcp[d].written /\ tcp[d].left = 0
           Freed(n) == [Acked(n) EXCEPT !.tcp[d] = Idle, !.arrived[d] = FALSE]
<1>1. PICK n \in 1..(tcp[d].written - tcp[d].sentAck) :
         /\ Complete(n) => arrived[d]
         /\ BecomeOneOf({IF Complete(n) THEN Answer(Freed(n), tcp[d].id, TRUE) ELSE Acked(n)})
  BY Zenon DEF OnAck
<1>2. /\ State \in States /\ Good(State) /\ online \in BOOLEAN /\ State.uniqueId <= MaxItems
      /\ tcp \in Conns /\ client \in Clients /\ arrived \in Flags
  BY TypesLemma, StateLemma
<1>3. tcp[d].isSending /\ online' = online
  BY DEF OnAck
<1>4. CASE Complete(n)
  <2> DEFINE r == Answer(Freed(n), tcp[d].id, TRUE)
             v == Freed(n)
  <2>1. BecomeOneOf({r})
    BY <1>1, <1>4, Zenon
  <2>2. v = Connection(State, [State.tcp EXCEPT ![d] = Idle], State.client,
                       [State.arrived EXCEPT ![d] = FALSE])
    <3> DEFINE t == [tcp EXCEPT ![d].sentAck = @ + n]
    <3>1. Acked(n) = [State EXCEPT !.tcp = t]
      BY DEF State
    <3>2. [t EXCEPT ![d] = Idle] = [tcp EXCEPT ![d] = Idle]
      BY <1>2 DEF Conns
    <3> HIDE DEF t, Acked
    <3>3. v = [State EXCEPT !.tcp = [t EXCEPT ![d] = Idle],
                            !.arrived = [arrived EXCEPT ![d] = FALSE]]
      BY <3>1 DEF State
    <3>4. v = [State EXCEPT !.tcp = [tcp EXCEPT ![d] = Idle],
                            !.arrived = [arrived EXCEPT ![d] = FALSE]]
      BY <3>2, <3>3
    <3> HIDE DEF v
    <3> QED BY <3>4 DEF Connection, State
  <2>3. Idle \in Conn /\ Stopped(Idle)
    BY DEF Conn, Idle, NoItem, Stopped
  <2>4. State.tcp[d].isSending /\ State.arrived[d] /\ State.client \in Clients
        /\ State.tcp[d].id = tcp[d].id
    BY <1>1, <1>2, <1>3, <1>4, StateLemma
  <2> HIDE DEF Acked, Complete
  <2> HIDE DEF Freed, v
  <2>5. v \in States /\ v.uniqueId = State.uniqueId /\ Awaiting(v, State.tcp[d].id, TRUE)
    <3>1. Stops(v, State, d, Idle, State.client)
      BY <2>2, <2>3, <2>4 DEF Stops
    <3> DEFINE success == TRUE
    <3>2. success \in BOOLEAN
      OBVIOUS
    <3> HIDE DEF success
    <3>3. /\ v \in States /\ v.uniqueId = State.uniqueId
          /\ Awaiting(v, State.tcp[d].id, success)
      BY <1>2, <2>4, <3>1, <3>2, AbortLemma
    <3> QED BY <3>3 DEF success
  <2>6. r = Answer(v, State.tcp[d].id, TRUE)
    BY <2>4 DEF v
  <2> HIDE DEF r
  <2>7. r \in States /\ Around(r, v) /\ Good(r)
    BY <2>5, <2>6, AnswerLemma
  <2>8. r.uniqueId <= MaxItems
    BY <1>2, <2>5, <2>7 DEF Around
  <2>9. online' \in BOOLEAN
    BY <1>2, <1>3
  <2> QED BY <2>1, <2>7, <2>8, <2>9, OutcomeLemma
<1>5. CASE ~Complete(n)
  <2> DEFINE old == tcp[d]
             doing == [old EXCEPT !.sentAck = @ + n]
             s == Acked(n)
  <2>1. BecomeOneOf({s})
    BY <1>1, <1>5, Zenon
  <2>2. s = Connection(State, [State.tcp EXCEPT ![d] = doing], State.client, State.arrived)
    BY <1>2 DEF Connection, State, Conns
  <2>3. old \in Conn
    BY <1>2 DEF Conns
  <2>4. old.sentAck + n \in Nat
    <3>1. old.sentAck \in Nat /\ old.written \in Nat
      BY <2>3 DEF Conn
    <3>2. n \in Nat
      BY <3>1
    <3> QED BY <3>1, <3>2
  <2> HIDE DEF old
  <2>5. doing \in Conn /\ SameMessage(doing, old)
    BY <2>3, <2>4 DEF Conn, SameMessage
  <2>6. State.client \in Clients /\ State.tcp[d] = old
    BY <1>2, StateLemma DEF old
  <2> HIDE DEF doing, s, Acked, Complete, Freed
  <2>7. s \in States /\ Good(s) /\ s.uniqueId = State.uniqueId
    BY <1>2, <2>2, <2>5, <2>6, GoesOnLemma
  <2>8. s.uniqueId <= MaxItems /\ online' \in BOOLEAN
    BY <1>2, <1>3, <2>7
  <2> QED BY <2>1, <2>7, <2>8, OutcomeLemma
<1> QED BY <1>4, <1>5

LEMMA CallbackStep ==
    ASSUME SyslogInv, NEW d \in Tcp, Callback(d)
    PROVE  SyslogInv'
<1>1. CASE OnTcpConnect(d)
  <2>1. client' \in Clients
    BY <1>1, TypesLemma DEF OnTcpConnect, Clients
  <2>2. PICK n \in 1..tcp[d].left : Written(d, n)
    BY <1>1 DEF OnTcpConnect
  <2>3. UNCHANGED <<queueVars, arrived, online, log, done, given>>
    BY <1>1 DEF OnTcpConnect
  <2> QED BY <2>1, <2>2, <2>3, WrittenLemma
<1>2. CASE OnPoll(d)
  <2>1. client' \in Clients
    BY <1>2, TypesLemma DEF OnPoll
  <2>2. PICK n \in 1..tcp[d].left : Written(d, n)
    BY <1>2 DEF OnPoll
  <2>3. UNCHANGED <<queueVars, arrived, online, log, done, given>>
    BY <1>2 DEF OnPoll
  <2> QED BY <2>1, <2>2, <2>3, WrittenLemma
<1>3. CASE OnAck(d)
  BY <1>3, OnAckStep
<1>4. CASE OnTimeout(d) \/ WriteFails(d)
  <2>1. BecomeOneOf({WriteError(State, d)}) /\ online' = online
    BY <1>4 DEF OnTimeout, WriteFails
  <2>2. State \in States /\ Good(State) /\ State.uniqueId = uniqueId
    BY TypesLemma, StateLemma
  <2> QED BY <2>1, <2>2, WriteErrorStep
<1>5. CASE OnTcpDisconnect(d)
  BY <1>5, OnTcpDisconnectStep
<1>6. CASE OnIdle(d)
  BY <1>6, OnIdleStep
<1> QED BY <1>1, <1>2, <1>3, <1>4, <1>5, <1>6 DEF Callback

LEMMA SyslogInitInv ==
    ASSUME SyslogInit
    PROVE  SyslogInv
<1>1. /\ items = <<>> /\ curSize = 0 /\ uniqueId = 0
      /\ tcp = [d \in Tcp |-> Idle] /\ arrived = [d \in Tcp |-> FALSE]
      /\ log = [d \in ToSet(Filters) |-> <<>>] /\ done = {} /\ given = {}
      /\ online \in BOOLEAN
  BY DEF SyslogInit
<1>2. items \in Queues /\ DOMAIN items = {} /\ Len(items) = 0
  BY <1>1 DEF Queues
<1>3. /\ tcp \in Conns
      /\ \A d \in Tcp : tcp[d].isSending = FALSE /\ tcp[d].id = 0 /\ arrived[d] = FALSE
  <2>1. Idle \in Conn /\ Idle.isSending = FALSE /\ Idle.id = 0
    BY DEF Conn, Idle, NoItem
  <2> QED BY <1>1, <2>1 DEF Conns
<1>4. log \in Logs /\ \A d \in ToSet(Filters) : DOMAIN log[d] = {}
  <2>1. <<>> \in Seq(Nat \ {0}) /\ DOMAIN <<>> = {}
    OBVIOUS
  <2> QED BY <1>1, <2>1 DEF Logs
<1>5. State \in States
  <2>1. client \in [Tcp -> {"closed", "connecting", "connected", "closing"}] /\ arrived \in Flags
    BY <1>1 DEF SyslogInit, Flags
  <2>2. curSize \in Nat /\ uniqueId \in Nat /\ done \in SUBSET Nat /\ given \in SUBSET Nat
        /\ 1 \in Nat \ {0}
    BY <1>1
  <2> QED BY <1>2, <1>3, <1>4, <2>1, <2>2 DEF State, States
<1>6. Distinct(items, uniqueId) /\ ItemsOK(items, tcp, arrived, log)
  BY <1>2 DEF Distinct, ItemsOK
<1>7. SizeOK(items, curSize) /\ uniqueId <= MaxItems
  <2>1. PICK g \in [0..Len(items) -> Nat] : Sums(g, items) /\ Used(items) = g[Len(items)]
    BY <1>2, UsedLemma
  <2>2. Used(items) = 0
    BY <1>2, <2>1 DEF Sums
  <2>3. 0 <= MaxSize /\ 0 <= MaxItems
    BY SyslogAssumption
  <2> QED BY <1>1, <2>2, <2>3 DEF SizeOK
<1>8. 1..uniqueId = {}
  BY <1>1
<1>9. LogOK(log, uniqueId) /\ KeptOK(items, uniqueId, log, done, given)
  BY <1>1, <1>4, <1>8 DEF LogOK, KeptOK
<1>10. SendersOK(items, uniqueId, tcp, arrived, log)
  <2>1. 0 \in 0..uniqueId
    BY <1>1
  <2> QED BY <1>3, <2>1 DEF SendersOK, SenderOK
<1>11. Good(State)
  BY <1>6, <1>7, <1>9, <1>10, StateLemma DEF Good, Base
<1> QED BY <1>1, <1>5, <1>7, <1>11 DEF SyslogInv

LEMMA SyslogNextInv ==
    ASSUME SyslogInv, [SyslogNext]_syslogVars
    PROVE  SyslogInv'
<1>1. CASE Flush
  BY <1>1, FlushStep
<1>2. CASE DeliverQueue
  BY <1>2, DeliverQueueStep
<1>3. CASE Clear
  BY <1>3, ClearStep
<1>4. CASE WiFiChanges
  <2>1. online' \in BOOLEAN
    BY <1>4 DEF WiFiChanges
  <2> QED BY <1>4, <2>1, WiFiStep DEF WiFiChanges
<1>5. ASSUME NEW d \in Tcp, Callback(d) PROVE SyslogInv'
  BY <1>5, CallbackStep
<1>6. ASSUME NEW d \in Tcp, Arrive(d) PROVE SyslogInv'
  BY <1>6, ArriveStep
<1>7. CASE UNCHANGED syslogVars
  <2>1. online' \in BOOLEAN /\ UNCHANGED <<queueVars, tcpVars, log, done, given>>
    BY <1>7, TypesLemma DEF syslogVars
  <2> QED BY <2>1, WiFiStep
<1> QED BY <1>1, <1>2, <1>3, <1>4, <1>5, <1>6, <1>7 DEF SyslogNext

(* The invariant holds in every state of a run.                            *)
THEOREM SyslogInvariance == SyslogSpec => []SyslogInv
<1>1. SyslogInit => SyslogInv
  BY SyslogInitInv
<1>2. SyslogInv /\ [SyslogNext]_syslogVars => SyslogInv'
  BY SyslogNextInv
<1> QED BY <1>1, <1>2, PTL DEF SyslogSpec

(* The variables have their types: in particular the queue never uses more *)
(* memory than it was created with, no item that has failed MaxFailures    *)
(* times is in it, and only lines that were queued are received.           *)
THEOREM SyslogTypeCorrect == SyslogSpec => []SyslogTypeOK
<1>1. SyslogInv => SyslogTypeOK
  <2> SUFFICES ASSUME SyslogInv PROVE SyslogTypeOK
    OBVIOUS
  <2>1. /\ items \in Queues /\ curSize \in Nat /\ uniqueId \in Nat
        /\ tcp \in Conns /\ client \in Clients /\ arrived \in Flags /\ log \in Logs
        /\ uniqueId <= MaxItems /\ online \in BOOLEAN
    BY TypesLemma
  <2>2. MaxItems \in Nat /\ MaxSize \in Nat
    BY SyslogAssumption
  <2>3. /\ Distinct(items, uniqueId) /\ SizeOK(items, curSize) /\ LogOK(log, uniqueId)
        /\ KeptOK(items, uniqueId, log, done, given)
    BY TypesLemma, StateLemma DEF Good, Base
  <2>4. \A e \in 1..uniqueId : e \in Ids
    BY <2>1, <2>2 DEF Ids
  <2>5. items \in Seq(Item)
    <3>1. ASSUME NEW k \in 1..Len(items) PROVE items[k] \in Item
      <4>1. items[k] \in QueueItem /\ items[k].id <= uniqueId
        BY <2>1, <2>3 DEF Queues, Distinct
      <4>2. items[k].id \in Nat \ {0}
        BY <4>1 DEF QueueItem
      <4>3. items[k].id \in Ids
        BY <2>1, <2>2, <4>1, <4>2 DEF Ids
      <4> QED BY <4>1, <4>3 DEF QueueItem, Item
    <3>2. items \in Seq(QueueItem)
      BY <2>1 DEF Queues
    <3> QED BY <3>1, <3>2
  <2>6. curSize \in 0..MaxSize /\ uniqueId \in 0..MaxItems
    BY <2>1, <2>2, <2>3 DEF SizeOK
  <2>7. done \subseteq Ids /\ given \subseteq Ids
    BY <2>3, <2>4 DEF KeptOK
  <2>8. log \in [ToSet(Filters) -> Seq(Ids)]
    <3>1. ASSUME NEW d \in ToSet(Filters) PROVE log[d] \in Seq(Ids)
      <4>1. log[d] \in Seq(Nat \ {0})
        BY <2>1 DEF Logs
      <4>2. ASSUME NEW j \in 1..Len(log[d]) PROVE log[d][j] \in Ids
        <5>1. log[d][j] <= uniqueId /\ log[d][j] \in Nat \ {0}
          BY <2>3, <4>1 DEF LogOK
        <5> QED BY <2>1, <2>2, <5>1 DEF Ids
      <4> QED BY <4>1, <4>2
    <3> QED BY <2>1, <3>1 DEF Logs
  <2>9. tcp \in [Tcp -> [isSending : BOOLEAN, isDisconnecting : BOOLEAN, left : Nat,
                         written : Nat, sentAck : Nat, id : {NoItem} \union Ids]]
    <3>1. ASSUME NEW d \in Tcp
          PROVE  tcp[d] \in [isSending : BOOLEAN, isDisconnecting : BOOLEAN, left : Nat,
                             written : Nat, sentAck : Nat, id : {NoItem} \union Ids]
      <4>1. tcp[d] \in Conn /\ tcp[d].id \in 0..uniqueId
        <5>1. SendersOK(items, uniqueId, tcp, arrived, log)
          BY TypesLemma, StateLemma DEF Good, Base
        <5> QED BY <2>1, <5>1 DEF Conns, SendersOK, SenderOK
      <4>2. tcp[d].id \in {NoItem} \union Ids
        BY <2>1, <2>2, <4>1 DEF NoItem, Ids
      <4> QED BY <4>1, <4>2 DEF Conn
    <3> QED BY <2>1, <3>1 DEF Conns
  <2> QED BY <2>1, <2>5, <2>6, <2>7, <2>8, <2>9 DEF SyslogTypeOK, Clients, Flags
<1> QED BY <1>1, SyslogInvariance, PTL

(* The queue keeps its books: curSize is what the items use, and an item   *)
(* is locked exactly while its destination is sending it.                  *)
THEOREM TheQueueIsSound == SyslogSpec => []QueueSound
<1>1. SyslogInv => QueueSound
  <2> SUFFICES ASSUME SyslogInv PROVE QueueSound
    OBVIOUS
  <2>1. SizeOK(items, curSize) /\ ItemsOK(items, tcp, arrived, log)
    BY TypesLemma, StateLemma DEF Good, Base
  <2> QED BY <2>1 DEF QueueSound, SizeOK, ItemsOK, ItemOK, Sends
<1> QED BY <1>1, SyslogInvariance, PTL

(* What left the queue as sent was received, and every line ever queued is *)
(* still queued, or left as sent, given up or cleared.                     *)
THEOREM NoLineIsLost == SyslogSpec => []NothingLost
<1>1. SyslogInv => NothingLost
  <2> SUFFICES ASSUME SyslogInv PROVE NothingLost
    OBVIOUS
  <2>1. KeptOK(items, uniqueId, log, done, given)
    BY TypesLemma, StateLemma DEF Good, Base
  <2> QED BY <2>1 DEF NothingLost, KeptOK, Received, Got, QueuedIds, QueuedIn
<1> QED BY <1>1, SyslogInvariance, PTL

(* No line is received more often than it has failed, and once more while  *)
(* it is not acknowledged, and never more than MaxFailures times.          *)
THEOREM DuplicatesAreRetries == SyslogSpec => []DuplicatesHaveFailed
<1>1. SyslogInv => DuplicatesHaveFailed
  <2> SUFFICES ASSUME SyslogInv PROVE DuplicatesHaveFailed
    OBVIOUS
  <2>1. LogOK(log, uniqueId) /\ ItemsOK(items, tcp, arrived, log)
    BY TypesLemma, StateLemma DEF Good, Base
  <2>2. ASSUME NEW id \in Ids PROVE Copies(id) <= MaxFailures
    <3>1. CASE id \in 1..uniqueId
      BY <2>1, <3>1 DEF LogOK, Cop, Copies
    <3>2. CASE id \notin 1..uniqueId
      <4>1. uniqueId \in Nat /\ id \in Nat \ {0} /\ ~(id <= uniqueId)
        BY <3>2, TypesLemma, SyslogAssumption DEF Ids
      <4>2. PlacesOf(log, id) = {}
        <5>1. ASSUME NEW x \in PlacesOf(log, id) PROVE FALSE
          <6>1. PICK c \in ToSet(Filters) : \E i \in DOMAIN log[c] : x = <<c, i>> /\ log[c][i] = id
            BY <5>1, PlaceLemma DEF IsPlace
          <6> QED BY <2>1, <4>1, <6>1 DEF LogOK
        <5> QED BY <5>1
      <4>3. Copies(id) = 0
        BY <4>2, FS_EmptySet DEF Copies
      <4> QED BY <4>3, SyslogAssumption
    <3> QED BY <3>1, <3>2
  <2>3. \A k \in DOMAIN items :
          Copies(items[k].id) <= items[k].failures
                                 + (IF items[k].locked /\ arrived[items[k].to] THEN 1 ELSE 0)
    BY <2>1 DEF ItemsOK, ItemOK, Cop, Copies
  <2> QED BY <2>2, <2>3 DEF DuplicatesHaveFailed
<1> QED BY <1>1, SyslogInvariance, PTL
=============================================================================
