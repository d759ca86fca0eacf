-------------------------- MODULE SerialPortProofs --------------------------
(***************************************************************************)
(* Theorems about the two users of the serial port: Console, for every set *)
(* of clients, every size of the output buffer and any amount of output,   *)
(* and Stk500Programmer, for every file, any number of retries and faults, *)
(* and every size of the target's buffer.                                  *)
(***************************************************************************)
EXTENDS Console, Stk500Programmer, SequenceTheorems, FiniteSetTheorems, NaturalsInduction,
        WellFoundedInduction, TLAPS

(***************************************************************************)
(* The inductive invariant of Console.  Besides the properties: what a     *)
(* client and its WsClient say together.  Only clients of a socket that was*)
(* deleted or restarted are stale, and who has not authenticated has heard *)
(* nothing.                                                                *)
(***************************************************************************)
ClientInv ==
    /\ IsFiniteSet(auth)
    /\ \A c \in auth : client[c] # "none"
    /\ \A c \in Clients : client[c] = "stale" => console # "up"
    /\ \A c \in Clients \ auth : client[c] \in {"none", "open"} => heard[c] = <<>>

IInv ==
    /\ TypeOK
    /\ ClientInv
    /\ SessionOfClients
    /\ StreamIsComplete

(* The last Len(s) units of output, up to the one numbered top.            *)
Consecutive(s, top) == \A i \in DOMAIN s : s[i] = top - Len(s) + i

-----------------------------------------------------------------------------
(* Whole buffers of b units: the rest is less than one.                    *)
LEMMA DivLemma ==
    ASSUME NEW n \in Nat, NEW b \in Nat \ {0}
    PROVE  /\ b * (n \div b) \in 0..n
           /\ n - b * (n \div b) < b
<1>1. n = b * (n \div b) + (n % b) /\ n % b \in 0..(b - 1) /\ n \div b \in Nat
  OBVIOUS
<1>2. b * (n \div b) \in Nat
  BY <1>1
<1> QED BY <1>1, <1>2

(* New output continues what there is.                                     *)
LEMMA ExtendLemma ==
    ASSUME NEW S, NEW s \in Seq(S), NEW top \in Nat, NEW n \in Nat,
           \A i \in 1..n : top + i \in S, Consecutive(s, top)
    PROVE  /\ [i \in 1..n |-> top + i] \in Seq(S)
           /\ Len([i \in 1..n |-> top + i]) = n
           /\ Consecutive(s \o [i \in 1..n |-> top + i], top + n)
<1> DEFINE d == [i \in 1..n |-> top + i]
<1>1. d \in [1..n -> S]
  OBVIOUS
<1>2. d \in Seq(S) /\ Len(d) = n /\ \A i \in 1..n : d[i] = top + i
  BY <1>1, SeqDef
<1> HIDE DEF d
<1>3. /\ s \o d \in Seq(S) /\ Len(s \o d) = Len(s) + n
      /\ \A i \in 1..Len(s) + n : (s \o d)[i] = IF i <= Len(s) THEN s[i] ELSE d[i - Len(s)]
  BY <1>2, ConcatProperties
<1>4. ASSUME NEW i \in 1..Len(s) + n
      PROVE  (s \o d)[i] = top + n - Len(s \o d) + i
  <2>1. CASE i <= Len(s)
    <3>1. s[i] = top - Len(s) + i
      BY <2>1 DEF Consecutive
    <3>2. top - Len(s) + i = top + n - (Len(s) + n) + i
      OBVIOUS
    <3> QED BY <1>3, <2>1, <3>1, <3>2
  <2>2. CASE i > Len(s)
    <3>1. i - Len(s) \in 1..n
      BY <2>2
    <3>2. d[i - Len(s)] = top + (i - Len(s))
      BY <1>2, <3>1
    <3>3. (s \o d)[i] = d[i - Len(s)]
      BY <1>3, <2>2
    <3>4. top + (i - Len(s)) = top + n - (Len(s) + n) + i
      OBVIOUS
    <3> QED BY <1>3, <3>2, <3>3, <3>4
  <2>3. i <= Len(s) \/ i > Len(s)
    OBVIOUS
  <2> QED BY <2>1, <2>2, <2>3
<1>5. Consecutive(s \o d, top + n)
  <2>1. DOMAIN (s \o d) = 1..Len(s) + n
    BY <1>3
  <2> QED BY <1>4, <2>1 DEF Consecutive
<1> QED BY <1>2, <1>5 DEF d

(* The end of what is consecutive is consecutive.                          *)
LEMMA SuffixLemma ==
    ASSUME NEW S, NEW s \in Seq(S), NEW t \in Seq(S), NEW top \in Nat,
           Consecutive(s \o t, top)
    PROVE  Consecutive(t, top)
<1>1. /\ s \o t \in Seq(S) /\ Len(s \o t) = Len(s) + Len(t)
      /\ DOMAIN (s \o t) = 1..(Len(s) + Len(t))
      /\ \A i \in 1..Len(s) + Len(t) : (s \o t)[i] = IF i <= Len(s) THEN s[i] ELSE t[i - Len(s)]
  BY ConcatProperties
<1>2. ASSUME NEW i \in 1..Len(t) PROVE t[i] = top - Len(t) + i
  <2>1. /\ Len(s) + i \in 1..(Len(s) + Len(t))
        /\ ~(Len(s) + i <= Len(s)) /\ (Len(s) + i) - Len(s) = i
    OBVIOUS
  <2>2. (s \o t)[Len(s) + i] = t[i]
    BY <1>1, <2>1
  <2>3. (s \o t)[Len(s) + i] = top - Len(s \o t) + (Len(s) + i)
    BY <1>1, <2>1, Zenon DEF Consecutive
  <2>4. top - (Len(s) + Len(t)) + (Len(s) + i) = top - Len(t) + i
    OBVIOUS
  <2> QED BY <1>1, <2>2, <2>3, <2>4
<1>3. DOMAIN t = 1..Len(t)
  OBVIOUS
<1> QED BY <1>2, <1>3 DEF Consecutive

(* What is cut in two and sent in two parts is sent whole.                 *)
LEMMA CutLemma ==
    ASSUME NEW S, NEW h \in Seq(S), NEW s \in Seq(S), NEW k \in 0..Len(s)
    PROVE  /\ SubSeq(s, 1, k) \in Seq(S)
           /\ SubSeq(s, k + 1, Len(s)) \in Seq(S)
           /\ Len(SubSeq(s, k + 1, Len(s))) = Len(s) - k
           /\ (h \o SubSeq(s, 1, k)) \o SubSeq(s, k + 1, Len(s)) = h \o s
<1> DEFINE a == SubSeq(s, 1, k)
           b == SubSeq(s, k + 1, Len(s))
<1>1. a \in Seq(S)
  OBVIOUS
<1>2. b \in Seq(S) /\ Len(b) = Len(s) - k
  <2>1. CASE k = Len(s)
    BY <2>1
  <2>2. CASE k < Len(s)
    BY <2>2, SubSeqProperties
  <2> QED BY <2>1, <2>2
<1>3. a \o b = s
  <2>1. 1 \in 1..Len(s) + 1 /\ k \in (1 - 1)..Len(s) /\ Len(s) \in k..Len(s)
    OBVIOUS
  <2> QED BY <2>1, ConcatAdjacentSubSeq, SubSeqFull
<1> HIDE DEF a, b
<1>4. (h \o a) \o b = h \o (a \o b)
  BY <1>1, <1>2, ConcatAssociative, SMTT(20)
<1>5. (h \o a) \o b = h \o s
  BY <1>3, <1>4
<1> QED BY <1>1, <1>2, <1>5 DEF a, b

(* The vector of handlers without the console, and with it.                *)
LEMMA HandlersLemma ==
    ASSUME SessionOfClients, instance \in BOOLEAN
    PROVE  /\ OtherHandlers = <<"at">>
           /\ Registered <=> instance
<1>1. CASE instance
  <2>1. handlers = <<"at", "h2s">>
    BY <1>1 DEF SessionOfClients
  <2>2. {i \in 1..Len(handlers) : handlers[i] = "h2s"} = {2}
    BY <2>1
  <2>3. Min({2}) = 2
    BY DEF Min
  <2>4. OtherHandlers = RemoveAt(handlers, 2)
    BY <2>1, <2>2, <2>3 DEF OtherHandlers, RemoveFirst, SelectInSeq
  <2>5. RemoveAt(handlers, 2) = <<"at">>
    <3>1. SubSeq(handlers, 1, 1) = <<"at">>
      <4>1. handlers \in Seq({"at", "h2s"}) /\ handlers[1] = "at" /\ Len(handlers) = 2
        BY <2>1
      <4>2. /\ SubSeq(handlers, 1, 1) \in Seq({"at", "h2s"})
            /\ Len(SubSeq(handlers, 1, 1)) = 1
            /\ SubSeq(handlers, 1, 1)[1] = "at"
        BY <4>1
      <4>3. <<"at">> \in Seq({"at", "h2s"}) /\ Len(<<"at">>) = 1 /\ <<"at">>[1] = "at"
        OBVIOUS
      <4> DEFINE part == SubSeq(handlers, 1, 1)
                 rest == <<"at">>
      <4> HIDE DEF part, rest
      <4>4. part \in Seq({"at", "h2s"}) /\ Len(part) = 1 /\ part[1] = "at"
        BY <4>2 DEF part
      <4>5. rest \in Seq({"at", "h2s"}) /\ Len(rest) = 1 /\ rest[1] = "at"
        BY <4>3 DEF rest
      <4>6. part = rest
        BY <4>4, <4>5, SeqEqual
      <4> QED BY <4>6 DEF part, rest
    <3>2. SubSeq(handlers, 2 + 1, Len(handlers)) = <<>>
      BY <2>1
    <3>3. <<"at">> \o <<>> = <<"at">>
      OBVIOUS
    <3>4. 2 - 1 = 1
      OBVIOUS
    <3> QED BY <3>1, <3>2, <3>3, <3>4, Zenon DEF RemoveAt
  <2>6. Registered
    BY <2>1 DEF Registered, Range
  <2> QED BY <1>1, <2>4, <2>5, <2>6
<1>2. CASE ~instance
  <2>1. handlers = <<"at">>
    BY <1>2 DEF SessionOfClients
  <2>2. OtherHandlers = handlers
    BY <2>1 DEF OtherHandlers, RemoveFirst
  <2>3. ~Registered
    BY <2>1 DEF Registered, Range
  <2> QED BY <1>2, <2>1, <2>2, <2>3
<1> QED BY <1>1, <1>2

-----------------------------------------------------------------------------
(* Hearing clients by their number.                                        *)
LEMMA CountedLemma ==
    ASSUME NEW S, IsFiniteSet(S)
    PROVE  /\ Counted(S) = 0 <=> \A c \in S : client[c] # "open"
           /\ Counted(S) = 1 => \E c \in S : {d \in S : client[d] = "open"} = {c}
           /\ (\E c \in S : {d \in S : client[d] = "open"} = {c}) => Counted(S) = 1
<1> DEFINE H == {d \in S : client[d] = "open"}
<1>1. IsFiniteSet(H)
  BY FS_Subset
<1>2. Counted(S) = Cardinality(H)
  BY DEF Counted
<1>3. Cardinality(H) = 0 <=> H = {}
  BY <1>1, FS_EmptySet
<1>4. Cardinality(H) = 1 <=> \E c : H = {c}
  BY <1>1, FS_Singleton
<1>5. H = {} <=> \A c \in S : client[c] # "open"
  OBVIOUS
<1>6. \A c : H = {c} => c \in S
  OBVIOUS
<1> HIDE DEF H
<1>7. Counted(S) = 0 <=> \A c \in S : client[c] # "open"
  BY <1>2, <1>3, <1>5
<1>8. /\ Counted(S) = 1 => \E c \in S : H = {c}
      /\ (\E c \in S : H = {c}) => Counted(S) = 1
  BY <1>2, <1>4, <1>6
<1> QED BY <1>7, <1>8 DEF H

(* The stream of each client, in the words of the property.                *)
Streams ==
    \A c \in Hearing :
        /\ Len(heard[c] \o buffer) >= last - since[c]
        /\ Consecutive(heard[c] \o buffer, last)

LEMMA StreamsLemma == StreamIsComplete <=> Streams
BY DEF StreamIsComplete, Streams, Consecutive

LEMMA InitIInv == Init => IInv
<1> SUFFICES ASSUME Init PROVE IInv
  OBVIOUS
<1>1. instance \in BOOLEAN /\ looping \in BOOLEAN /\ waiting \in BOOLEAN
  BY DEF Init
<1>2. TypeOK
  <2>1. handlers \in Seq({"at", "h2s"})
    BY DEF Init
  <2>2. heard \in [Clients -> Seq(1..MaxOutput)]
    BY DEF Init
  <2>3. buffer \in Seq(1..MaxOutput) /\ Len(buffer) <= BufferSize
    BY ConsoleAssumption DEF Init
  <2>4. last \in 0..MaxOutput /\ since \in [Clients -> 0..MaxOutput]
    BY ConsoleAssumption DEF Init
  <2> QED BY <1>1, <2>1, <2>2, <2>3, <2>4 DEF TypeOK, Init
<1>3. ClientInv
  BY FS_EmptySet DEF ClientInv, Init
<1>4. Hearing = {}
  BY DEF Hearing, Init
<1>5. SessionOfClients
  BY <1>4 DEF SessionOfClients, Init
<1>6. StreamIsComplete
  BY <1>4 DEF StreamIsComplete
<1> QED BY <1>2, <1>3, <1>5, <1>6 DEF IInv

(* A reset                                                                 *)
LEMMA RebootStep == Reboot => IInv'
<1>1. Reboot => Init'
  BY DEF Reboot, Init
<1>2. Init' => IInv'
  BY InitIInv, PTL
<1> QED BY <1>1, <1>2

-----------------------------------------------------------------------------
Units == 1..MaxOutput

(* Output: what the clients that hear have heard and what waits for them   *)
(* becomes longer by what is new.                                          *)
LEMMA OutputLemma ==
    ASSUME IInv, NEW n \in Nat \ {0}, Output(n),
           waiting' \in BOOLEAN,
           UNCHANGED <<console, client, auth, session, since>>
    PROVE  IInv'
<1> DEFINE data == [i \in 1..n |-> last + i]
<1>1. last + n <= MaxOutput /\ last' = last + n /\ last \in Nat /\ MaxOutput \in Nat
  BY ConsoleAssumption DEF Output, IInv, TypeOK
<1>2. /\ buffer \in Seq(Units) /\ Len(buffer) <= BufferSize
      /\ heard \in [Clients -> Seq(Units)]
      /\ BufferSize \in Nat \ {0}
      /\ Hearing \subseteq Clients
  BY ConsoleAssumption DEF IInv, TypeOK, Hearing, Units
<1>3. UNCHANGED <<console, client, auth, instance, looping, handlers, reserved, since>>
  BY DEF session
<1>4. Hearing' = Hearing
  BY <1>3 DEF Hearing
<1>5. Streams
  BY StreamsLemma DEF IInv
<1>6. data \in Seq(Units) /\ Len(data) = n
  <2>1. \A i \in 1..n : last + i \in Units
    BY <1>1 DEF Units
  <2>2. data \in [1..n -> Units]
    BY <2>1
  <2> QED BY <2>2, SeqDef
<1>7. ASSUME NEW c \in Hearing
      PROVE  /\ (heard[c] \o buffer) \o data \in Seq(Units)
             /\ Len((heard[c] \o buffer) \o data) >= last' - since[c]
             /\ Consecutive((heard[c] \o buffer) \o data, last')
  <2> DEFINE s == heard[c] \o buffer
  <2>1. heard[c] \in Seq(Units) /\ since[c] \in Nat
    BY <1>2, <1>7 DEF IInv, TypeOK, Units
  <2>2. s \in Seq(Units)
    BY <1>2, <2>1, ConcatProperties
  <2>3. Len(s) >= last - since[c] /\ Consecutive(s, last)
    BY <1>5 DEF Streams
  <2> HIDE DEF s
  <2>4. \A i \in 1..n : last + i \in Units
    BY <1>1 DEF Units
  <2>5. Consecutive(s \o data, last + n)
    BY <1>1, <2>2, <2>3, <2>4, ExtendLemma
  <2>6. s \o data \in Seq(Units) /\ Len(s \o data) = Len(s) + n
    BY <1>6, <2>2, ConcatProperties
  <2> QED BY <1>1, <2>1, <2>2, <2>3, <2>5, <2>6 DEF s
<1>8. ASSUME NEW c \in Hearing PROVE (heard[c] \o buffer) \o data = heard[c] \o (buffer \o data)
  <2>1. heard[c] \in Seq(Units)
    BY <1>2, <1>8
  <2>2. buffer \in Seq(Units) /\ data \in Seq(Units)
    BY <1>2, <1>6
  <2> HIDE DEF data
  <2>3. \A s, t, u \in Seq(Units) : (s \o t) \o u = s \o (t \o u)
    BY ConcatAssociative
  <2> QED BY <2>1, <2>2, <2>3
<1>9. /\ buffer' \in Seq(Units) /\ Len(buffer') <= BufferSize
      /\ heard' \in [Clients -> Seq(Units)]
      /\ due' \in {"later", "passed", "missed"}
      /\ \A c \in Hearing : heard'[c] \o buffer' = (heard[c] \o buffer) \o data
      /\ \A c \in Clients \ Hearing : heard'[c] = heard[c]
  <2>1. CASE Registered /\ instance
    <3> DEFINE all == buffer \o data
               full == BufferSize * ((Len(all) - 1) \div BufferSize)
    <3>1. all \in Seq(Units) /\ Len(all) = Len(buffer) + n
      BY <1>2, <1>6, ConcatProperties
    <3>2. full \in 0..Len(all) /\ Len(all) - full <= BufferSize
      <4>1. Len(all) - 1 \in Nat
        BY <3>1
      <4>2. /\ full \in 0..(Len(all) - 1)
            /\ (Len(all) - 1) - full < BufferSize
        BY <1>2, <4>1, DivLemma
      <4> HIDE DEF all, full
      <4> QED BY <1>2, <3>1, <4>2
    <3>3. PICK time \in IF buffer = <<>> \/ full > 0 THEN Reset ELSE {due} :
            IF time = "passed"
            THEN Flush(all)
            ELSE /\ Broadcast(SubSeq(all, 1, full))
                 /\ buffer' = SubSeq(all, full + 1, Len(all))
                 /\ due' = time
      BY <2>1 DEF Output, WriteOutputBuffer
    <3>4. time \in {"later", "passed", "missed"}
      BY <3>3 DEF IInv, TypeOK, Reset
    <3> HIDE DEF all, full
    <3>5. CASE time = "passed"
      <4>1. /\ heard' = [c \in Clients |-> IF c \in Hearing THEN heard[c] \o all ELSE heard[c]]
            /\ buffer' = <<>> /\ due' \in Reset
        BY <3>3, <3>5 DEF Flush, Broadcast
      <4>2. ASSUME NEW c \in Clients PROVE heard[c] \o all \in Seq(Units)
        BY <1>2, <3>1, ConcatProperties
      <4>3. heard' \in [Clients -> Seq(Units)]
        BY <1>2, <4>1, <4>2
      <4>4. ASSUME NEW c \in Hearing PROVE heard'[c] \o buffer' = (heard[c] \o buffer) \o data
        <5>1. heard'[c] = heard[c] \o all
          BY <1>2, <4>1
        <5>2. (heard[c] \o all) \o <<>> = heard[c] \o all
          BY <1>2, <4>2, ConcatEmptySeq
        <5> QED BY <1>8, <4>1, <5>1, <5>2 DEF all
      <4>5. buffer' \in Seq(Units) /\ Len(buffer') <= BufferSize
        BY <1>2, <4>1
      <4> QED BY <4>1, <4>3, <4>4, <4>5 DEF Reset
    <3>6. CASE time # "passed"
      <4> DEFINE now == SubSeq(all, 1, full)
      <4>1. /\ heard' = [c \in Clients |-> IF c \in Hearing THEN heard[c] \o now ELSE heard[c]]
            /\ buffer' = SubSeq(all, full + 1, Len(all)) /\ due' = time
        BY <3>3, <3>6 DEF Broadcast
      <4>2. ASSUME NEW h \in Seq(Units)
            PROVE  /\ now \in Seq(Units) /\ buffer' \in Seq(Units) /\ Len(buffer') = Len(all) - full
                   /\ (h \o now) \o buffer' = h \o all
        <5>1. all \in Seq(Units) /\ full \in 0..Len(all)
          BY <3>1, <3>2
        <5>2. \A g, s \in Seq(Units) : \A k \in 0..Len(s) :
                 /\ SubSeq(s, 1, k) \in Seq(Units)
                 /\ SubSeq(s, k + 1, Len(s)) \in Seq(Units)
                 /\ Len(SubSeq(s, k + 1, Len(s))) = Len(s) - k
                 /\ (g \o SubSeq(s, 1, k)) \o SubSeq(s, k + 1, Len(s)) = g \o s
          BY CutLemma
        <5> QED BY <4>1, <5>1, <5>2
      <4>3. now \in Seq(Units) /\ buffer' \in Seq(Units) /\ Len(buffer') <= BufferSize
        BY <1>2, <3>2, <4>2
      <4> HIDE DEF now
      <4>4. ASSUME NEW c \in Clients PROVE heard[c] \o now \in Seq(Units)
        BY <1>2, <4>3, ConcatProperties
      <4>5. heard' \in [Clients -> Seq(Units)]
        BY <1>2, <4>1, <4>4
      <4>6. ASSUME NEW c \in Hearing PROVE heard'[c] \o buffer' = (heard[c] \o buffer) \o data
        <5>1. heard'[c] = heard[c] \o now /\ heard[c] \in Seq(Units)
          BY <1>2, <4>1
        <5>2. (heard[c] \o now) \o buffer' = heard[c] \o all
          BY <4>2, <5>1
        <5> QED BY <1>8, <5>1, <5>2 DEF all
      <4> QED BY <3>4, <4>1, <4>3, <4>5, <4>6
    <3> QED BY <3>5, <3>6
  <2>2. CASE ~(Registered /\ instance)
    <3>1. UNCHANGED <<buffer, due, heard>>
      BY <2>2 DEF Output
    <3>2. Hearing = {}
      BY <2>2, HandlersLemma DEF IInv, TypeOK, SessionOfClients
    <3> QED BY <1>2, <3>1, <3>2 DEF IInv, TypeOK, Units
  <2> QED BY <2>1, <2>2
<1>10. TypeOK'
  <2>1. last' \in 0..MaxOutput
    BY <1>1
  <2> QED BY <1>3, <1>9, <2>1 DEF IInv, TypeOK, Units
<1>11. ClientInv'
  <2>1. \A c \in Clients \ auth : heard'[c] = heard[c]
    BY <1>9 DEF Hearing
  <2> QED BY <1>3, <2>1 DEF IInv, ClientInv
<1>12. SessionOfClients'
  BY <1>3, <1>4 DEF IInv, SessionOfClients
<1>13. StreamIsComplete'
  <2>1. Streams'
    BY <1>3, <1>4, <1>7, <1>9 DEF Streams
  <2> QED BY <2>1, StreamsLemma, PTL
<1> QED BY <1>10, <1>11, <1>12, <1>13 DEF IInv

-----------------------------------------------------------------------------
(* broadcastOutputBuffer, by the loop: the buffer becomes part of what has *)
(* been heard.                                                             *)
LEMMA OutputLoopStep ==
    ASSUME IInv, OutputLoop
    PROVE  IInv'
<1>1. /\ heard' = [c \in Clients |-> IF c \in Hearing THEN heard[c] \o buffer ELSE heard[c]]
      /\ buffer' = <<>> /\ due' \in {"later", "passed", "missed"}
      /\ UNCHANGED <<console, client, auth, instance, looping, handlers, reserved,
                     waiting, last, since>>
  BY DEF OutputLoop, Flush, Broadcast, Reset, session
<1>2. /\ buffer \in Seq(Units) /\ heard \in [Clients -> Seq(Units)]
      /\ Hearing \subseteq Clients
  BY DEF IInv, TypeOK, Units, Hearing
<1>3. Hearing' = Hearing
  BY <1>1 DEF Hearing
<1>4. ASSUME NEW c \in Clients
      PROVE  heard[c] \o buffer \in Seq(Units) /\ (heard[c] \o buffer) \o <<>> = heard[c] \o buffer
  <2>1. heard[c] \o buffer \in Seq(Units)
    BY <1>2, ConcatProperties
  <2> QED BY <2>1, ConcatEmptySeq
<1>5. heard' \in [Clients -> Seq(Units)]
  BY <1>1, <1>2, <1>4
<1>6. TypeOK'
  BY <1>1, <1>5, ConsoleAssumption DEF IInv, TypeOK, Units
<1>7. ClientInv'
  BY <1>1, <1>2 DEF IInv, ClientInv, Hearing
<1>8. SessionOfClients'
  BY <1>1, <1>3 DEF IInv, SessionOfClients
<1>9. StreamIsComplete'
  <2>1. Streams
    BY StreamsLemma DEF IInv
  <2>2. ASSUME NEW c \in Hearing PROVE heard'[c] \o buffer' = heard[c] \o buffer
    BY <1>1, <1>2, <1>4
  <2>3. Streams'
    BY <1>1, <1>3, <2>1, <2>2 DEF Streams
  <2> QED BY <2>3, StreamsLemma, PTL
<1> QED BY <1>6, <1>7, <1>8, <1>9 DEF IInv

(* What is heard and waits is the same, for no more clients than before.   *)
LEMMA SameStreamsLemma ==
    ASSUME IInv, Hearing' \subseteq Hearing,
           UNCHANGED <<buffer, last>>,
           \A c \in Hearing' : heard'[c] = heard[c] /\ since'[c] = since[c]
    PROVE  StreamIsComplete'
<1>1. Streams
  BY StreamsLemma DEF IInv
<1>2. Streams'
  BY <1>1 DEF Streams
<1> QED BY <1>2, StreamsLemma, PTL

(* A step that changes no more than the clock and the AT handler.          *)
LEMMA QuietLemma ==
    ASSUME IInv, due' \in {"later", "passed", "missed"}, waiting' \in BOOLEAN,
           UNCHANGED <<console, client, auth, session, buffer, last, heard, since>>
    PROVE  IInv'
<1>1. UNCHANGED <<instance, looping, handlers, reserved>>
  BY DEF session
<1>2. Hearing' = Hearing
  BY DEF Hearing
<1>3. TypeOK'
  BY <1>1 DEF IInv, TypeOK
<1>4. ClientInv'
  BY DEF IInv, ClientInv
<1>5. SessionOfClients'
  BY <1>1, <1>2 DEF IInv, SessionOfClients
<1>6. StreamIsComplete'
  BY <1>2, SameStreamsLemma
<1> QED BY <1>3, <1>4, <1>5, <1>6 DEF IInv

LEMMA ResumeStep ==
    ASSUME IInv, Resume
    PROVE  IInv'
<1>1. waiting' \in BOOLEAN
  BY DEF Resume
<1>2. CASE last < MaxOutput
  BY <1>1, <1>2, OutputLemma DEF Resume
<1>3. CASE ~(last < MaxOutput)
  <2>1. UNCHANGED output
    BY <1>3 DEF Resume
  <2>2. UNCHANGED <<buffer, due, last, heard>>
    BY <2>1 DEF output
  <2> QED BY <1>1, <2>2, QuietLemma DEF Resume, IInv, TypeOK
<1> QED BY <1>2, <1>3

-----------------------------------------------------------------------------
(* Clients                                                                 *)
LEMMA ConnectStep ==
    ASSUME IInv, NEW c \in Clients, Connect(c)
    PROVE  IInv'
<1>1. /\ console = "up" /\ client[c] = "none"
      /\ client' = [client EXCEPT ![c] = "open"]
      /\ UNCHANGED <<console, auth, instance, looping, handlers, reserved,
                     buffer, due, last, heard, waiting, since>>
  BY DEF Connect, session, output
<1>2. c \notin auth
  BY <1>1 DEF IInv, ClientInv
<1>3. client' \in [Clients -> {"none", "open", "closing", "stale"}]
  BY <1>1 DEF IInv, TypeOK
<1>4. \A d \in Clients : client'[d] = IF d = c THEN "open" ELSE client[d]
  BY <1>1 DEF IInv, TypeOK
<1>5. Hearing' = Hearing
  BY <1>1, <1>2, <1>4 DEF Hearing, IInv, TypeOK
<1>6. TypeOK'
  BY <1>1, <1>3 DEF IInv, TypeOK
<1>7. ClientInv'
  BY <1>1, <1>2, <1>4 DEF IInv, ClientInv, TypeOK
<1>8. SessionOfClients'
  BY <1>1, <1>5 DEF IInv, SessionOfClients
<1>9. StreamIsComplete'
  BY <1>1, <1>5, SameStreamsLemma
<1> QED BY <1>6, <1>7, <1>8, <1>9 DEF IInv

LEMMA StartClosingStep ==
    ASSUME IInv, NEW c \in Clients, StartClosing(c)
    PROVE  IInv'
<1>1. /\ client[c] = "open"
      /\ client' = [client EXCEPT ![c] = "closing"]
      /\ UNCHANGED <<console, auth, instance, looping, handlers, reserved,
                     buffer, due, last, heard, waiting, since>>
  BY DEF StartClosing, session, output
<1>2. client' \in [Clients -> {"none", "open", "closing", "stale"}]
  BY <1>1 DEF IInv, TypeOK
<1>3. \A d \in Clients : client'[d] = IF d = c THEN "closing" ELSE client[d]
  BY <1>1 DEF IInv, TypeOK
<1>4. Hearing' \subseteq Hearing
  BY <1>1, <1>3 DEF Hearing, IInv, TypeOK
<1>5. TypeOK'
  BY <1>1, <1>2 DEF IInv, TypeOK
<1>6. ClientInv'
  BY <1>1, <1>3 DEF IInv, ClientInv, TypeOK
<1>7. SessionOfClients'
  BY <1>1, <1>4 DEF IInv, SessionOfClients
<1>8. StreamIsComplete'
  BY <1>1, <1>4, SameStreamsLemma
<1> QED BY <1>5, <1>6, <1>7, <1>8 DEF IInv

LEMMA AuthenticateStep ==
    ASSUME IInv, NEW c \in Clients, Authenticate(c)
    PROVE  IInv'
<1>1. /\ client[c] = "open" /\ c \notin auth
      /\ auth' = auth \cup {c}
      /\ since' = [since EXCEPT ![c] = last]
      /\ UNCHANGED <<console, client, waiting, last, heard>>
  BY DEF Authenticate
<1>2. IsFiniteSet(auth') /\ auth' \subseteq Clients
  BY <1>1, FS_AddElement DEF IInv, ClientInv, TypeOK
<1>3. /\ heard[c] = <<>>
      /\ since' \in [Clients -> 0..MaxOutput] /\ since'[c] = last
      /\ \A d \in Clients \ {c} : since'[d] = since[d]
  BY <1>1 DEF IInv, ClientInv, TypeOK
<1>4. Hearing' = Hearing \cup {c}
  BY <1>1 DEF Hearing
<1>5. ClientInv'
  BY <1>1, <1>2 DEF IInv, ClientInv
<1>6. {d \in auth' : client[d] = "open"} = Hearing'
  BY <1>1 DEF Hearing
<1>7. CASE Counted(auth') = 1
  <2>1. CreateInstance
    BY <1>7 DEF Authenticate
  <2>2. instance' = TRUE /\ looping' = TRUE
    BY <2>1 DEF CreateInstance
  <2>3. handlers' = <<"at", "h2s">>
    <3>1. OtherHandlers = <<"at">>
      BY HandlersLemma DEF IInv, TypeOK
    <3>2. handlers' = Append(OtherHandlers, "h2s")
      BY <2>1 DEF CreateInstance
    <3>3. Append(<<"at">>, "h2s") = <<"at", "h2s">>
      <4> DEFINE one == <<"at">>
                 two == <<"at", "h2s">>
      <4>1. /\ one \in Seq({"at", "h2s"}) /\ Len(one) = 1 /\ one[1] = "at"
            /\ two \in Seq({"at", "h2s"}) /\ Len(two) = 2 /\ two[1] = "at" /\ two[2] = "h2s"
        OBVIOUS
      <4> HIDE DEF one, two
      <4>2. /\ Append(one, "h2s") \in Seq({"at", "h2s"}) /\ Len(Append(one, "h2s")) = 2
            /\ Append(one, "h2s")[1] = "at" /\ Append(one, "h2s")[2] = "h2s"
        <5>1. \A s \in Seq({"at", "h2s"}) :
                 /\ Append(s, "h2s") \in Seq({"at", "h2s"})
                 /\ Len(Append(s, "h2s")) = Len(s) + 1
                 /\ \A i \in 1..Len(s) : Append(s, "h2s")[i] = s[i]
                 /\ Append(s, "h2s")[Len(s) + 1] = "h2s"
          OBVIOUS
        <5>2. /\ Append(one, "h2s") \in Seq({"at", "h2s"})
              /\ Len(Append(one, "h2s")) = Len(one) + 1
              /\ \A i \in 1..Len(one) : Append(one, "h2s")[i] = one[i]
              /\ Append(one, "h2s")[Len(one) + 1] = "h2s"
          BY <4>1, <5>1, Zenon
        <5>3. Len(one) + 1 = 2 /\ 1 \in 1..Len(one)
          BY <4>1
        <5> QED BY <4>1, <5>2, <5>3
      <4>3. \A i \in 1..2 : Append(one, "h2s")[i] = two[i]
        BY <4>1, <4>2
      <4>4. Append(one, "h2s") = two
        BY <4>1, <4>2, <4>3, SeqEqual
      <4> QED BY <4>4 DEF one, two
    <3> QED BY <3>1, <3>2, <3>3
  <2>4. reserved' \in 1..2
    <3>1. Len(handlers') = 2
      BY <2>3
    <3> QED BY <2>1, <3>1 DEF CreateInstance, IInv, TypeOK
  <2>5. buffer' = <<>> /\ due' \in {"later", "passed", "missed"}
    BY <2>1 DEF CreateInstance, Reset
  <2>6. Hearing' = {c}
    BY <1>2, <1>4, <1>6, <1>7, CountedLemma
  <2>7. TypeOK'
    <3>1. instance' \in BOOLEAN /\ looping' \in BOOLEAN
      BY <2>2
    <3>2. handlers' \in Seq({"at", "h2s"})
      BY <2>3
    <3>3. buffer' \in Seq(1..MaxOutput) /\ Len(buffer') <= BufferSize
      BY <2>5, ConsoleAssumption
    <3> QED BY <1>1, <1>2, <1>3, <2>4, <2>5, <3>1, <3>2, <3>3 DEF IInv, TypeOK
  <2>8. SessionOfClients'
    BY <1>1, <2>2, <2>3 DEF SessionOfClients
  <2>9. StreamIsComplete'
    <3>1. <<>> \o <<>> = <<>>
      OBVIOUS
    <3>2. heard'[c] \o buffer' = <<>>
      BY <1>1, <1>3, <2>5, <3>1
    <3>3. last - last >= 0 /\ last' - since'[c] = 0 /\ Len(<<>>) = 0
      BY <1>1, <1>3 DEF IInv, TypeOK
    <3>4. Streams'
      BY <2>6, <3>2, <3>3 DEF Streams, Consecutive
    <3> QED BY <3>4, StreamsLemma, PTL
  <2> QED BY <1>5, <2>7, <2>8, <2>9 DEF IInv
<1>8. CASE Counted(auth') # 1
  <2>1. UNCHANGED <<instance, looping, handlers, reserved, buffer, due>>
    BY <1>8 DEF Authenticate, session
  <2>2. PICK d \in Hearing : d # c
    BY <1>1, <1>2, <1>4, <1>6, <1>8, CountedLemma
  <2>3. TypeOK'
    BY <1>1, <1>2, <1>3, <2>1 DEF IInv, TypeOK
  <2>4. instance
    BY <2>2 DEF IInv, SessionOfClients
  <2>5. SessionOfClients'
    BY <1>1, <2>1, <2>4 DEF IInv, SessionOfClients
  <2>6. StreamIsComplete'
    <3>1. Streams
      BY StreamsLemma DEF IInv
    <3>2. buffer \in Seq(Units) /\ heard[d] \in Seq(Units) /\ last \in Nat
      BY <2>2 DEF IInv, TypeOK, Units, Hearing
    <3>3. Consecutive(buffer, last)
      BY <2>2, <3>1, <3>2, SuffixLemma DEF Streams
    <3>4. heard'[c] \o buffer' = buffer
      BY <1>1, <1>3, <2>1, <3>2, ConcatEmptySeq
    <3>5. Len(buffer) >= last' - since'[c]
      BY <1>1, <1>3, <3>2
    <3>6. ASSUME NEW e \in Hearing, e # c
          PROVE  /\ Len(heard'[e] \o buffer') >= last' - since'[e]
                 /\ Consecutive(heard'[e] \o buffer', last')
      <4>1. e \in Clients
        BY DEF Hearing, IInv, TypeOK
      <4> QED BY <1>1, <1>3, <2>1, <3>1, <3>6, <4>1 DEF Streams
    <3>7. Streams'
      BY <1>1, <1>4, <2>1, <3>3, <3>4, <3>5, <3>6 DEF Streams
    <3> QED BY <3>7, StreamsLemma, PTL
  <2> QED BY <1>5, <2>3, <2>5, <2>6 DEF IInv
<1> QED BY <1>7, <1>8

(* destroyInstance, when nobody hears any more                             *)
LEMMA DestroyLemma ==
    ASSUME IInv, DestroyInstance, Hearing' = {},
           console' \in {"up", "none", "deleted", "restarting"},
           client' \in [Clients -> {"none", "open", "closing", "stale"}],
           auth' \subseteq Clients, waiting' \in BOOLEAN,
           last' \in 0..MaxOutput, since' \in [Clients -> 0..MaxOutput],
           heard' \in [Clients -> Seq(1..MaxOutput)]
    PROVE  TypeOK' /\ SessionOfClients' /\ StreamIsComplete'
<1>1. OtherHandlers = <<"at">>
  BY HandlersLemma DEF IInv, TypeOK
<1>2. /\ instance' = FALSE /\ looping' = FALSE
      /\ handlers' = <<"at">> /\ reserved' = reserved
      /\ buffer' = <<>> /\ due' = "later"
  BY <1>1 DEF DestroyInstance
<1>3. TypeOK'
  <2>1. instance' \in BOOLEAN /\ looping' \in BOOLEAN
    BY <1>2
  <2>2. handlers' \in Seq({"at", "h2s"}) /\ reserved' \in 1..2
    BY <1>2 DEF IInv, TypeOK
  <2>3. buffer' \in Seq(1..MaxOutput) /\ Len(buffer') <= BufferSize
    BY <1>2, ConsoleAssumption
  <2> QED BY <1>2, <2>1, <2>2, <2>3 DEF TypeOK
<1>4. SessionOfClients'
  BY <1>2 DEF SessionOfClients
<1>5. StreamIsComplete'
  BY DEF StreamIsComplete
<1> QED BY <1>3, <1>4, <1>5

(* A client that leaves takes what it has heard with it.                   *)
LEMMA ForgetLemma ==
    ASSUME IInv, NEW c \in Clients, Forget(c)
    PROVE  /\ client' \in [Clients -> {"none", "open", "closing", "stale"}]
           /\ auth' \subseteq Clients
           /\ since' \in [Clients -> 0..MaxOutput]
           /\ heard' \in [Clients -> Seq(1..MaxOutput)]
           /\ Hearing' = Hearing \ {c}
           /\ \A d \in Clients \ {c} :
                 client'[d] = client[d] /\ heard'[d] = heard[d] /\ since'[d] = since[d]
           /\ IsFiniteSet(auth')
           /\ console' = console => ClientInv'
<1>1. /\ client' = [client EXCEPT ![c] = "none"]
      /\ auth' = auth \ {c}
      /\ since' = [since EXCEPT ![c] = 0]
      /\ heard' = [heard EXCEPT ![c] = <<>>]
  BY DEF Forget
<1>2. /\ client' \in [Clients -> {"none", "open", "closing", "stale"}]
      /\ client'[c] = "none"
      /\ \A d \in Clients \ {c} : client'[d] = client[d]
  BY <1>1 DEF IInv, TypeOK
<1>3. since' \in [Clients -> 0..MaxOutput] /\ \A d \in Clients \ {c} : since'[d] = since[d]
  BY <1>1, ConsoleAssumption DEF IInv, TypeOK
<1>4. /\ heard' \in [Clients -> Seq(1..MaxOutput)]
      /\ heard'[c] = <<>>
      /\ \A d \in Clients \ {c} : heard'[d] = heard[d]
  <2>1. <<>> \in Seq(1..MaxOutput)
    OBVIOUS
  <2> QED BY <1>1, <2>1 DEF IInv, TypeOK
<1>5. auth' \subseteq Clients /\ IsFiniteSet(auth')
  BY <1>1, FS_Subset DEF IInv, TypeOK, ClientInv
<1>6. Hearing' = Hearing \ {c}
  BY <1>1, <1>2 DEF Hearing, IInv, TypeOK
<1>7. console' = console => ClientInv'
  BY <1>1, <1>2, <1>4, <1>5 DEF IInv, ClientInv, TypeOK
<1> QED BY <1>2, <1>3, <1>4, <1>5, <1>6, <1>7

LEMMA DisconnectedStep ==
    ASSUME IInv, NEW c \in Clients, Disconnected(c)
    PROVE  IInv'
<1>1. Forget(c) /\ UNCHANGED <<console, waiting, last>> /\ auth' = auth \ {c}
  BY DEF Disconnected, Forget
<1>2. /\ client' \in [Clients -> {"none", "open", "closing", "stale"}]
      /\ auth' \subseteq Clients
      /\ since' \in [Clients -> 0..MaxOutput]
      /\ heard' \in [Clients -> Seq(1..MaxOutput)]
      /\ Hearing' = Hearing \ {c}
      /\ \A d \in Clients \ {c} :
            client'[d] = client[d] /\ heard'[d] = heard[d] /\ since'[d] = since[d]
      /\ IsFiniteSet(auth')
      /\ ClientInv'
  BY <1>1, ForgetLemma
<1>3. /\ console' \in {"up", "none", "deleted", "restarting"}
      /\ waiting' \in BOOLEAN /\ last' \in 0..MaxOutput
  BY <1>1 DEF IInv, TypeOK
<1>4. IsFiniteSet(auth \ {c})
  BY <1>1, <1>2
<1>5. Counted(auth \ {c}) = 0 <=> \A d \in auth \ {c} : client[d] # "open"
  BY <1>4, CountedLemma
<1>6. CASE Counted(auth \ {c}) = 0
  <2>1. DestroyInstance
    BY <1>6 DEF Disconnected
  <2>2. Hearing' = {}
    BY <1>2, <1>5, <1>6 DEF Hearing
  <2> QED BY <1>2, <1>3, <2>1, <2>2, DestroyLemma DEF IInv
<1>7. CASE Counted(auth \ {c}) # 0
  <2>1. UNCHANGED <<instance, looping, handlers, reserved, buffer, due>>
    BY <1>7 DEF Disconnected, session
  <2>2. TypeOK'
    BY <1>2, <1>3, <2>1 DEF IInv, TypeOK
  <2>3. PICK d \in auth \ {c} : client[d] = "open"
    BY <1>5, <1>7
  <2>4. SessionOfClients'
    BY <1>1, <1>2, <2>1, <2>3 DEF IInv, SessionOfClients
  <2>5. Hearing \subseteq Clients
    BY DEF Hearing, IInv, TypeOK
  <2>6. StreamIsComplete'
    BY <1>1, <1>2, <2>1, <2>5, SameStreamsLemma
  <2> QED BY <1>2, <2>2, <2>4, <2>6 DEF IInv
<1> QED BY <1>6, <1>7

LEMMA StaleEventStep ==
    ASSUME IInv, NEW c \in Clients, StaleEvent(c)
    PROVE  IInv'
<1>1. CASE Reboot
  BY <1>1, RebootStep
<1>2. CASE Forget(c) /\ UNCHANGED <<console, session, buffer, due, last, waiting>>
  <2>1. UNCHANGED <<console, instance, looping, handlers, reserved, buffer, due, last, waiting>>
    BY <1>2 DEF session
  <2>2. console # "up"
    BY DEF StaleEvent, IInv, ClientInv
  <2>3. /\ client' \in [Clients -> {"none", "open", "closing", "stale"}]
        /\ auth' \subseteq Clients
        /\ since' \in [Clients -> 0..MaxOutput]
        /\ heard' \in [Clients -> Seq(1..MaxOutput)]
        /\ Hearing' = Hearing \ {c}
        /\ \A d \in Clients \ {c} :
              client'[d] = client[d] /\ heard'[d] = heard[d] /\ since'[d] = since[d]
        /\ ClientInv'
    BY <1>2, <2>1, ForgetLemma
  <2>4. TypeOK'
    BY <2>1, <2>3 DEF IInv, TypeOK
  <2>5. SessionOfClients'
    BY <2>1, <2>2, <2>3 DEF IInv, SessionOfClients
  <2>6. Hearing \subseteq Clients
    BY DEF Hearing, IInv, TypeOK
  <2>7. StreamIsComplete'
    BY <2>1, <2>3, <2>6, SameStreamsLemma
  <2> QED BY <2>3, <2>4, <2>5, <2>7 DEF IInv
<1> QED BY <1>1, <1>2 DEF StaleEvent

-----------------------------------------------------------------------------
(* The end of the server, and of the program                               *)
LEMMA StaleLemma ==
    ASSUME IInv, console' # "up", auth' = auth,
           client' = [c \in Clients |-> IF client[c] = "none" THEN "none" ELSE "stale"],
           UNCHANGED heard
    PROVE  /\ client' \in [Clients -> {"none", "open", "closing", "stale"}]
           /\ ClientInv' /\ Hearing' = {}
<1>1. \A c \in Clients : client[c] = "none" => c \notin auth
  BY DEF IInv, ClientInv
<1>2. ClientInv'
  BY <1>1 DEF IInv, ClientInv, TypeOK
<1>3. Hearing' = {}
  BY DEF Hearing, IInv, TypeOK
<1> QED BY <1>2, <1>3 DEF IInv, TypeOK

LEMMA ReconfigureStep ==
    ASSUME IInv, Reconfigure
    PROVE  IInv'
<1>1. /\ console' = "deleted" /\ auth' = auth
      /\ client' = [c \in Clients |-> IF client[c] = "none" THEN "none" ELSE "stale"]
      /\ UNCHANGED <<instance, looping, handlers, reserved, buffer, due, last, heard,
                     waiting, since>>
  BY DEF Reconfigure, session, output
<1>2. /\ client' \in [Clients -> {"none", "open", "closing", "stale"}]
      /\ ClientInv' /\ Hearing' = {}
  BY <1>1, StaleLemma
<1>3. TypeOK'
  BY <1>1, <1>2 DEF IInv, TypeOK
<1>4. SessionOfClients'
  BY <1>1, <1>2 DEF IInv, SessionOfClients
<1>5. StreamIsComplete'
  BY <1>2 DEF StreamIsComplete
<1> QED BY <1>2, <1>3, <1>4, <1>5 DEF IInv

LEMMA RestartStep ==
    ASSUME IInv, Restart
    PROVE  IInv'
<1>1. CASE /\ console # "none"
           /\ console' = "restarting"
           /\ client' = [c \in Clients |-> IF client[c] = "none" THEN "none" ELSE "stale"]
           /\ DestroyInstance
           /\ UNCHANGED <<auth, last, heard, waiting, since>>
  <2>1. /\ client' \in [Clients -> {"none", "open", "closing", "stale"}]
        /\ ClientInv' /\ Hearing' = {}
    BY <1>1, StaleLemma
  <2>2. /\ waiting' \in BOOLEAN /\ last' \in 0..MaxOutput
        /\ since' \in [Clients -> 0..MaxOutput]
        /\ heard' \in [Clients -> Seq(1..MaxOutput)]
        /\ auth' \subseteq Clients
    BY <1>1 DEF IInv, TypeOK
  <2> QED BY <1>1, <2>1, <2>2, DestroyLemma DEF IInv
<1>2. CASE console # "up" /\ Reboot
  BY <1>2, RebootStep
<1> QED BY <1>1, <1>2 DEF Restart

-----------------------------------------------------------------------------
LEMMA NetworkStep ==
    ASSUME IInv, Network
    PROVE  IInv'
<1>1. PICK c \in Clients : \/ Connect(c) \/ Authenticate(c) \/ IteratorLost(c)
                          \/ StartClosing(c) \/ Disconnected(c) \/ Text(c) \/ StaleEvent(c)
  BY DEF Network
<1>2. CASE IteratorLost(c)
  BY <1>2, RebootStep DEF IteratorLost
<1>3. CASE Text(c)
  <2>1. waiting' \in BOOLEAN
    BY <1>3 DEF Text, IInv, TypeOK
  <2> QED BY <1>3, <2>1, OutputLemma DEF Text
<1> QED BY <1>1, <1>2, <1>3, ConnectStep, AuthenticateStep, StartClosingStep,
           DisconnectedStep, StaleEventStep

LEMMA NextIInv == IInv /\ [Next]_vars => IInv'
<1> SUFFICES ASSUME IInv, [Next]_vars PROVE IInv'
  OBVIOUS
<1>1. CASE Network
  BY <1>1, NetworkStep
<1>2. ASSUME NEW n \in 1..2, Say(n) PROVE IInv'
  <2>1. waiting' \in BOOLEAN
    BY <1>2 DEF Say, IInv, TypeOK
  <2> QED BY <1>2, <2>1, OutputLemma DEF Say
<1>3. CASE Receive
  <2>1. waiting' \in BOOLEAN
    BY <1>3 DEF Receive
  <2> QED BY <1>3, <2>1, OutputLemma DEF Receive
<1>4. CASE Resume
  BY <1>4, ResumeStep
<1>5. CASE OutputLoop
  BY <1>5, OutputLoopStep
<1>6. CASE TimePasses
  <2>1. waiting' \in BOOLEAN
    BY <1>6 DEF TimePasses, IInv, TypeOK
  <2> QED BY <1>6, <2>1, QuietLemma DEF TimePasses
<1>7. CASE Reconfigure
  BY <1>7, ReconfigureStep
<1>8. CASE BroadcastToDeleted
  BY <1>8, RebootStep DEF BroadcastToDeleted
<1>9. CASE Restart
  BY <1>9, RestartStep
<1>10. CASE RestartDevice
  BY <1>10, RebootStep DEF RestartDevice
<1>11. CASE UNCHANGED vars
  <2>1. waiting' \in BOOLEAN
    BY <1>11 DEF vars, IInv, TypeOK
  <2> QED BY <1>11, <2>1, QuietLemma DEF vars, output, IInv, TypeOK
<1> QED BY <1>1, <1>2, <1>3, <1>4, <1>5, <1>6, <1>7, <1>8, <1>9, <1>10, <1>11 DEF Next

(* Every reachable state of every instance satisfies the invariant.        *)
THEOREM Invariance == Spec => []IInv
BY InitIInv, NextIInv, PTL DEF Spec

(* The variables keep their types: the buffer never exceeds its size, and  *)
(* the vector of handlers holds the AT handler and the console only.       *)
THEOREM TypeCorrect == Spec => []TypeOK
<1>1. IInv => TypeOK
  BY DEF IInv
<1> QED BY <1>1, Invariance, PTL

(* Whoever has authenticated and is connected is served, by an instance    *)
(* that is registered once, whatever comes in between: the end of the last *)
(* client, a change of the server's settings, a restart.                   *)
THEOREM SessionsMatchClients == Spec => []SessionOfClients
<1>1. IInv => SessionOfClients
  BY DEF IInv
<1> QED BY <1>1, Invariance, PTL

(* However long the text and however small the buffer: a client gets what  *)
(* the serial port said since it authenticated, in order and once.         *)
THEOREM StreamsAreComplete == Spec => []StreamIsComplete
<1>1. IInv => StreamIsComplete
  BY DEF IInv
<1> QED BY <1>1, Invariance, PTL

-----------------------------------------------------------------------------
(***************************************************************************)
(* The programmer of Stk500Programmer.  Between two pages: the records of  *)
(* the page being collected are those that have been read, and no other    *)
(* page is left behind or ahead of it.                                     *)
(***************************************************************************)
ReaderAt(r) ==
    /\ r.buffer = {k \in 1..r.pos - 1 : File[k] = r.page}
    /\ \A k \in 1..r.pos - 1 : File[k] <= r.page
    /\ \A k \in r.pos..Len(File) : r.page <= File[k]

Below(p) == {q \in Pages : q < p}
UpTo(p) == {q \in Pages : q <= p}
PagesOf(s) == {s[k].page : k \in DOMAIN s}

(* The copy of the page to be sent is complete, and the next page that     *)
(* will be collected is the next one of the file.                          *)
PageReady(p) ==
    /\ p.data = RecordsOf(p.page)
    /\ IF p.last THEN UpTo(p.page) = Pages
       ELSE /\ ReaderAt(p.reader)
            /\ Below(p.reader.page) = UpTo(p.page)

(* How far the programmer has come, and which pages have been sent.        *)
Progress(p, s) ==
    /\ p.waiting \in Early \cup {None} => s = <<>>
    /\ p.waiting = "writeAddress" => PageReady(p) /\ PagesOf(s) = Below(p.page)
    /\ p.waiting = "write" => PageReady(p) /\ PagesOf(s) = UpTo(p.page)

ProgramInv ==
    /\ prog.out = <<>> /\ ~prog.reset
    /\ checking => stage = "running"
    /\ stage \in {"none", "created"} => prog.waiting = None /\ prog.delayed = None
    /\ stage = "running" /\ prog.delayed = None => prog.waiting # None
    /\ prog.delayed = "flash" => prog.waiting = None /\ ~checking
    /\ prog.delayed \in {"signature", "resync", "sync"} => prog.waiting = "sync"
    /\ stage = "closing" => prog.delayed = None
    /\ checking => prog.waiting # None

PagesInv == PagesInOrder /\ (stage # "none" => Progress(prog, sent))

FlashInv == FlashTypeOK /\ ProgramInv /\ PagesInv

-----------------------------------------------------------------------------
(* The commands of a callback that sends no page.                          *)
NoPage(s) == \A k \in DOMAIN s : s[k].cmd # "program"

(* What a callback does to the members that are not about pages.           *)
Keeps(p, q) ==
    /\ q \in Programmer
    /\ q.reader = p.reader /\ q.page = p.page /\ q.data = p.data /\ q.last = p.last

Harmless(p, q) == Keeps(p, q) /\ NoPage(q.out)

LEMMA KeepsLemma ==
    ASSUME NEW p, NEW q, NEW r, Keeps(p, q), Keeps(q, r)
    PROVE  Keeps(p, r)
BY DEF Keeps

LEMMA ByteLemma ==
    /\ InSync \in Seq(Bytes) /\ Signature \in Seq(Bytes)
    /\ \A d \in Records : PageRead(d) \in Seq(Bytes)
<1>1. {} \in Records /\ \A d \in Records : Data(d) \in Bytes
  BY DEF Records, Data, Bytes
<1>2. Byte("insync") \in Bytes /\ Byte("ok") \in Bytes /\ Byte("signature") \in Bytes
  BY <1>1 DEF Byte, Bytes
<1> QED BY <1>1, <1>2 DEF InSync, Signature, PageRead

LEMMA CommandLemma ==
    ASSUME NEW c \in {"sync", "signature", "options", "enter", "address", "program", "read",
                      "leave"}
    PROVE  /\ Command(c) \in Commands /\ Command(c).cmd = c
           /\ \A p \in Pages : [Command(c) EXCEPT !.page = p] \in Commands
                               /\ [Command(c) EXCEPT !.page = p].cmd = c
           /\ \A d \in Records : [Command(c) EXCEPT !.data = d] \in Commands
                                 /\ [Command(c) EXCEPT !.data = d].cmd = c
<1>1. 0 \in Pages /\ {} \in Records
  BY DEF Pages, Records
<1> QED BY <1>1 DEF Command, Commands

LEMMA ExpectLemma ==
    ASSUME NEW p \in Programmer, NEW bytes \in Seq(Bytes)
    PROVE  /\ Keeps(p, Expect(p, bytes)) /\ Expect(p, bytes).out = p.out
           /\ Expect(p, bytes).waiting = p.waiting /\ Expect(p, bytes).delayed = p.delayed
<1> DEFINE q == [p EXCEPT !.expected = bytes]
<1>1. Keeps(p, q) /\ q.out = p.out /\ q.waiting = p.waiting /\ q.delayed = p.delayed
  BY DEF Keeps, Programmer
<1>2. q \in Programmer /\ <<>> \in Seq(Bytes)
  BY <1>1 DEF Keeps
<1>3. Expect(p, bytes) = [q EXCEPT !.response = <<>>]
  BY DEF Expect, q, Programmer
<1> HIDE DEF q
<1>4. /\ Keeps(q, Expect(p, bytes)) /\ Expect(p, bytes).out = q.out
      /\ Expect(p, bytes).waiting = q.waiting /\ Expect(p, bytes).delayed = q.delayed
  <2>1. Expect(p, bytes) \in Programmer
    BY <1>2, <1>3 DEF Programmer
  <2>2. \A f \in DOMAIN q : f # "response" => Expect(p, bytes)[f] = q[f]
    BY <1>3
  <2>3. {"out", "waiting", "delayed", "reader", "page", "data", "last"} \subseteq DOMAIN q
    BY <1>2 DEF Programmer
  <2> QED BY <2>1, <2>2, <2>3 DEF Keeps
<1> QED BY <1>1, <1>4, KeepsLemma

LEMMA AwaitLemma ==
    ASSUME NEW p \in Programmer, NEW w \in Awaited
    PROVE  /\ Keeps(p, Await(p, w)) /\ Await(p, w).out = p.out
           /\ Await(p, w).waiting = w /\ Await(p, w).delayed = p.delayed
BY DEF Await, Keeps, Programmer

LEMMA DelayLemma ==
    ASSUME NEW p \in Programmer, NEW d \in Delays
    PROVE  /\ Keeps(p, Delay(p, d)) /\ Delay(p, d).out = p.out
           /\ Delay(p, d).waiting = p.waiting /\ Delay(p, d).delayed = d
BY DEF Delay, Keeps, Programmer

LEMMA DoneLemma ==
    ASSUME NEW p \in Programmer, NEW ok \in BOOLEAN
    PROVE  /\ Keeps(p, Done(p, ok)) /\ Done(p, ok).out = p.out
           /\ Done(p, ok).waiting = p.waiting /\ Done(p, ok).delayed = "end"
<1> DEFINE q == [p EXCEPT !.verdicts = @ \cup {ok}]
<1>1. Keeps(p, q) /\ q.out = p.out /\ q.waiting = p.waiting
  BY DEF Keeps, Programmer
<1>2. "end" \in Delays /\ q \in Programmer
  BY <1>1 DEF Delays, Keeps
<1> HIDE DEF q
<1>3. /\ Keeps(q, Delay(q, "end")) /\ Delay(q, "end").out = q.out
      /\ Delay(q, "end").waiting = q.waiting /\ Delay(q, "end").delayed = "end"
  BY <1>2, DelayLemma
<1>4. Done(p, ok) = Delay(q, "end")
  BY DEF Done, q
<1> QED BY <1>1, <1>3, <1>4, KeepsLemma

LEMMA SendLemma ==
    ASSUME NEW p \in Programmer, NEW c \in Commands
    PROVE  /\ Keeps(p, Send(p, c)) /\ Send(p, c).out = Append(p.out, c)
           /\ Send(p, c).waiting = p.waiting /\ Send(p, c).delayed = p.delayed
           /\ NoPage(p.out) /\ c.cmd # "program" => NoPage(Send(p, c).out)
<1>1. p.out \in Seq(Commands) /\ Append(p.out, c) \in Seq(Commands) /\ <<>> \in Seq(Bytes)
  BY DEF Programmer
<1>2. /\ Keeps(p, Send(p, c)) /\ Send(p, c).out = Append(p.out, c)
      /\ Send(p, c).waiting = p.waiting /\ Send(p, c).delayed = p.delayed
  BY <1>1 DEF Send, Keeps, Programmer
<1>3. NoPage(p.out) /\ c.cmd # "program" => NoPage(Append(p.out, c))
  BY <1>1 DEF NoPage
<1> QED BY <1>2, <1>3

LEMMA SendPLemma ==
    ASSUME NEW p \in Programmer, NEW c \in {"sync", "signature", "enter", "leave"}
    PROVE  /\ Keeps(p, SendP(p, c))
           /\ SendP(p, c).waiting = p.waiting /\ SendP(p, c).delayed = p.delayed
           /\ NoPage(p.out) => NoPage(SendP(p, c).out)
<1>1. Command(c) \in Commands /\ Command(c).cmd # "program" /\ <<>> \in Seq(Bytes)
  BY CommandLemma
<1>2. CASE p.logging
  BY <1>1, <1>2, SendLemma DEF SendP
<1>3. CASE ~p.logging
  BY <1>1, <1>3 DEF SendP, Keeps, Programmer
<1> QED BY <1>2, <1>3

LEMMA SyncLemma ==
    ASSUME NEW p \in Programmer, NEW n \in Nat \ {0}
    PROVE  /\ Keeps(p, SyncTimes(p, n))
           /\ SyncTimes(p, n).waiting = p.waiting /\ SyncTimes(p, n).delayed = p.delayed
           /\ NoPage(p.out) => NoPage(SyncTimes(p, n).out)
<1> DEFINE q == SendP(p, "sync")
           more == [k \in 1..n-1 |-> Command("sync")]
           r == [q EXCEPT !.out = @ \o more]
<1>1. /\ Keeps(p, q) /\ q.waiting = p.waiting /\ q.delayed = p.delayed
      /\ NoPage(p.out) => NoPage(q.out)
  BY SendPLemma
<1>2. more \in Seq(Commands) /\ NoPage(more)
  <2>1. Command("sync") \in Commands /\ Command("sync").cmd = "sync"
    BY CommandLemma
  <2>2. more \in [1..n-1 -> Commands] /\ n - 1 \in Nat
    BY <2>1
  <2>3. more \in Seq(Commands)
    BY <2>2, SeqDef
  <2> QED BY <2>1, <2>3 DEF NoPage
<1>3. q \in Programmer
  BY <1>1 DEF Keeps
<1> HIDE DEF q, more
<1>4. q.out \in Seq(Commands) /\ q.out \o more \in Seq(Commands)
  BY <1>2, <1>3 DEF Programmer
<1>5. NoPage(q.out) => NoPage(q.out \o more)
  BY <1>2, <1>4 DEF NoPage
<1>6. Keeps(q, r) /\ r.waiting = q.waiting /\ r.delayed = q.delayed /\ r.out = q.out \o more
  BY <1>3, <1>4 DEF Keeps, Programmer
<1>7. SyncTimes(p, n) = IF p.logging THEN r ELSE q
  BY DEF SyncTimes, Sync, q, more
<1> HIDE DEF r
<1>8. CASE p.logging
  <2>1. SyncTimes(p, n) = r
    BY <1>7, <1>8
  <2> QED BY <2>1, <1>1, <1>5, <1>6, KeepsLemma
<1>9. CASE ~p.logging
  BY <1>1, <1>7, <1>9
<1> QED BY <1>8, <1>9

-----------------------------------------------------------------------------
Reader == [pos : 1..Len(File) + 1, page : Pages, buffer : Records]

IsEnd(r, k) ==
    /\ k = Len(File) + 1 \/ File[k] # r.page
    /\ \A j \in r.pos..k-1 : File[j] = r.page

LEMMA FileLemma ==
    /\ Len(File) \in Nat /\ DOMAIN File = 1..Len(File)
    /\ \A k \in 1..Len(File) : File[k] \in Pages
    /\ Pages \subseteq Nat
    /\ \A j, k \in 1..Len(File) : j <= k => File[j] <= File[k]
<1>1. /\ File \in Seq(Nat) /\ Len(File) \in Nat /\ DOMAIN File = 1..Len(File)
      /\ \A j, k \in DOMAIN File : j <= k => File[j] <= File[k]
  BY FileAssumption
<1>2. \A k \in 1..Len(File) : File[k] \in Nat
  BY <1>1
<1>3. \A k \in 1..Len(File) : File[k] \in Pages
  BY <1>1 DEF Pages
<1>4. Pages \subseteq Nat
  BY <1>1, <1>2 DEF Pages
<1>5. \A j, k \in 1..Len(File) : j <= k => File[j] <= File[k]
  BY <1>1
<1> QED BY <1>1, <1>3, <1>4, <1>5

(* The records of a page end somewhere: at the first that is not of it.    *)
LEMMA EndLemma ==
    ASSUME NEW r \in Reader
    PROVE  \E k \in r.pos..Len(File) + 1 : IsEnd(r, k)
<1> DEFINE T == {k \in r.pos..Len(File) + 1 : k = Len(File) + 1 \/ File[k] # r.page}
<1>1. r.pos \in 1..Len(File) + 1 /\ Len(File) \in Nat
  BY FileLemma DEF Reader
<1>2. T \in SUBSET Nat /\ Len(File) + 1 \in T
  BY <1>1
<1>3. \E x \in T : \A y \in T : <<y, x>> \notin OpToRel(<, Nat)
  BY <1>2, NatLessThanWellFounded, WFMin
<1>4. PICK x \in T : \A y \in T : <<y, x>> \notin OpToRel(<, Nat)
  BY <1>3
<1>5. ASSUME NEW j \in r.pos..x-1 PROVE File[j] = r.page
  <2>1. x \in Nat /\ x <= Len(File) + 1 /\ j \in r.pos..Len(File) /\ j < x
    BY <1>1, <1>5
  <2>2. <<j, x>> \in OpToRel(<, Nat)
    <3>1. <<j, x>> \in Nat \X Nat /\ <<j, x>>[1] < <<j, x>>[2]
      BY <1>1, <2>1
    <3> QED BY <3>1, Zenon DEF OpToRel
  <2>3. j \notin T
    BY <1>4, <2>2
  <2> QED BY <1>1, <2>1, <2>3
<1>6. x \in r.pos..Len(File) + 1 /\ IsEnd(r, x)
  BY <1>4, <1>5 DEF IsEnd
<1> QED BY <1>6

(* A page is collected completely, and the next of the file is begun.      *)
LEMMA NextPageLemma ==
    ASSUME NEW r \in Reader
    PROVE  /\ NextPage(r).data \in Records /\ NextPage(r).last \in BOOLEAN
           /\ NextPage(r).reader \in Reader
           /\ ReaderAt(r) =>
                 /\ NextPage(r).data = RecordsOf(r.page)
                 /\ IF NextPage(r).last THEN UpTo(r.page) = Pages
                    ELSE /\ ReaderAt(NextPage(r).reader)
                         /\ Below(NextPage(r).reader.page) = UpTo(r.page)
<1> DEFINE end == CHOOSE k \in r.pos..Len(File) + 1 : IsEnd(r, k)
<1>1. end \in r.pos..Len(File) + 1 /\ IsEnd(r, end)
  BY EndLemma
<1>2. NextPage(r) =
         [data |-> r.buffer \cup r.pos..end-1,
          last |-> end > Len(File),
          reader |-> IF end > Len(File) THEN [pos |-> end, page |-> 0, buffer |-> {}]
                     ELSE [pos |-> end + 1, page |-> File[end], buffer |-> {end}]]
  BY Zenon DEF NextPage, IsEnd
<1> HIDE DEF end
<1> DEFINE data == r.buffer \cup r.pos..end-1
           atEnd == [pos |-> end, page |-> 0, buffer |-> {}]
           begun == [pos |-> end + 1, page |-> File[end], buffer |-> {end}]
<1>3. /\ NextPage(r).data = data /\ NextPage(r).last = (end > Len(File))
      /\ NextPage(r).reader = IF end > Len(File) THEN atEnd ELSE begun
  BY <1>2
<1>4. /\ r.pos \in 1..Len(File) + 1 /\ r.page \in Pages /\ r.page \in Nat
      /\ r.buffer \in Records /\ r.buffer \subseteq 0..Len(File)
      /\ Len(File) \in Nat /\ 0 \in Pages /\ end \in Nat
      /\ DOMAIN File = 1..Len(File)
  <2>1. r.pos \in 1..Len(File) + 1 /\ r.page \in Pages /\ r.buffer \in Records
    BY DEF Reader
  <2> QED BY <1>1, <2>1, FileLemma DEF Records, Pages
<1>5. data \in Records
  BY <1>1, <1>4 DEF Records
<1>6. end > Len(File) => atEnd \in Reader
  BY <1>1, <1>4 DEF Reader, Records
<1>7. ~(end > Len(File)) => begun \in Reader
  <2> SUFFICES ASSUME ~(end > Len(File)) PROVE begun \in Reader
    OBVIOUS
  <2>1. end \in 1..Len(File)
    BY <1>1, <1>4
  <2>2. File[end] \in Pages /\ {end} \in Records /\ end + 1 \in 1..Len(File) + 1
    BY <2>1, <1>4, FileLemma DEF Records
  <2> QED BY <2>2 DEF Reader
<1>8. ASSUME ReaderAt(r)
      PROVE  /\ data = RecordsOf(r.page)
             /\ end > Len(File) => UpTo(r.page) = Pages
             /\ ~(end > Len(File)) => ReaderAt(begun) /\ Below(begun.page) = UpTo(r.page)
  <2>1. /\ r.buffer = {k \in 1..r.pos - 1 : File[k] = r.page}
        /\ \A k \in 1..r.pos - 1 : File[k] <= r.page
        /\ \A k \in r.pos..Len(File) : r.page <= File[k]
    BY <1>8 DEF ReaderAt
  <2>2. \A k \in 1..Len(File) : File[k] \in Nat
    BY FileLemma
  <2>3. \A k \in 1..end - 1 : File[k] <= r.page
    BY <1>1, <1>4, <2>1, <2>2 DEF IsEnd
  <2>4. \A k \in end..Len(File) : r.page < File[k]
    <3> SUFFICES ASSUME NEW k \in end..Len(File) PROVE r.page < File[k]
      OBVIOUS
    <3>1. end \in 1..Len(File) /\ k \in 1..Len(File) /\ end <= k
      BY <1>1, <1>4
    <3>2. File[end] <= File[k]
      BY <3>1, FileLemma
    <3>3. File[end] # r.page /\ r.page <= File[end]
      BY <1>1, <1>4, <2>1, <3>1 DEF IsEnd
    <3> QED BY <1>4, <2>2, <3>1, <3>2, <3>3
  <2>5. data = RecordsOf(r.page)
    <3>1. ASSUME NEW k \in data PROVE k \in 1..Len(File) /\ File[k] = r.page
      BY <1>1, <1>4, <2>1 DEF IsEnd
    <3>2. ASSUME NEW k \in 1..Len(File), File[k] = r.page PROVE k \in data
      <4>1. ~(k \in end..Len(File))
        BY <1>4, <2>2, <2>4, <3>2
      <4>2. k \in 1..r.pos - 1 \/ k \in r.pos..end - 1
        BY <1>1, <1>4, <4>1
      <4> QED BY <2>1, <3>2, <4>2
    <3> QED BY <1>4, <3>1, <3>2 DEF RecordsOf
  <2>6. end > Len(File) => UpTo(r.page) = Pages
    <3> SUFFICES ASSUME end > Len(File), NEW q \in Pages PROVE q <= r.page
      BY DEF UpTo
    <3>1. CASE q = 0
      BY <1>4, <3>1
    <3>2. CASE \E k \in 1..Len(File) : q = File[k]
      BY <1>1, <1>4, <2>3, <3>2
    <3> QED BY <1>4, <3>1, <3>2 DEF Pages
  <2>7. ASSUME ~(end > Len(File)) PROVE ReaderAt(begun) /\ Below(begun.page) = UpTo(r.page)
    <3>1. end \in 1..Len(File)
      BY <1>1, <1>4, <2>7
    <3>2. r.page < File[end] /\ File[end] \in Nat
      BY <1>4, <2>2, <2>4, <3>1
    <3>3. {k \in 1..(end + 1) - 1 : File[k] = File[end]} = {end}
      <4>1. ASSUME NEW k \in 1..end - 1 PROVE File[k] # File[end]
        <5>1. k \in 1..Len(File) /\ File[k] <= r.page
          BY <1>4, <2>3, <3>1
        <5> QED BY <1>4, <2>2, <3>2, <5>1
      <4>2. \A k \in 1..(end + 1) - 1 : k = end \/ k \in 1..end - 1
        BY <1>4
      <4>3. end \in 1..(end + 1) - 1
        BY <1>4, <3>1
      <4> QED BY <4>1, <4>2, <4>3
    <3>4. \A k \in 1..(end + 1) - 1 : File[k] <= File[end]
      BY <1>4, <2>2, <2>3, <3>1, <3>2
    <3>5. \A k \in end + 1..Len(File) : File[end] <= File[k]
      BY <1>4, <3>1, FileLemma
    <3>6. ReaderAt(begun)
      BY <3>3, <3>4, <3>5 DEF ReaderAt
    <3>7. ASSUME NEW q \in Pages PROVE q < File[end] <=> q <= r.page
      <4>1. CASE q = 0
        BY <1>4, <3>2, <4>1
      <4>2. ASSUME NEW k \in 1..Len(File), q = File[k]
            PROVE  q < File[end] <=> q <= r.page
        <5>1. CASE k \in 1..end - 1
          BY <1>4, <2>2, <2>3, <3>2, <4>2, <5>1
        <5>2. CASE k \in end..Len(File)
          <6>1. File[end] <= File[k] /\ r.page < File[k]
            BY <2>4, <3>1, <5>2, FileLemma
          <6> QED BY <1>4, <2>2, <3>2, <4>2, <6>1
        <5> QED BY <1>4, <3>1, <5>1, <5>2
      <4> QED BY <1>4, <4>1, <4>2 DEF Pages
    <3>8. Below(File[end]) = UpTo(r.page)
      BY <3>7 DEF Below, UpTo
    <3> QED BY <3>6, <3>8
  <2> QED BY <2>5, <2>6, <2>7
<1> HIDE DEF data, atEnd, begun
<1>9. (end > Len(File)) \in BOOLEAN
  OBVIOUS
<1>10. CASE end > Len(File)
  BY <1>3, <1>5, <1>6, <1>8, <1>10
<1>11. CASE ~(end > Len(File))
  <2>1. ~NextPage(r).last /\ NextPage(r).reader = begun
    BY <1>3, <1>11, Zenon
  <2>2. NextPage(r).last \in BOOLEAN
    BY <1>3, <1>9, Zenon
  <2>3. NextPage(r).data \in Records /\ NextPage(r).reader \in Reader
    BY <1>3, <1>5, <1>7, <1>11, <2>1
  <2>4. ReaderAt(r) => /\ NextPage(r).data = RecordsOf(r.page)
                       /\ ReaderAt(NextPage(r).reader)
                       /\ Below(NextPage(r).reader.page) = UpTo(r.page)
    BY <1>3, <1>8, <1>11, <2>1
  <2> QED BY <2>1, <2>2, <2>3, <2>4
<1> QED BY <1>10, <1>11

-----------------------------------------------------------------------------
(* What a callback makes of the members: it sends no page and gets no      *)
(* further than what has been sent, or it sends the page that is ready.    *)
SendsPage(q) ==
    /\ q.out = <<Program(q.page, q.data)>> /\ q.waiting = "write"
    /\ PageReady(q) /\ PagesOf(sent) = Below(q.page)

Outcome(q) ==
    /\ q \in Programmer
    /\ (NoPage(q.out) /\ Progress(q, sent)) \/ SendsPage(q)

(* A delay is of its step, and the programmer waits for something.         *)
Coherent(q) ==
    /\ q.waiting # None
    /\ q.delayed # "flash"
    /\ q.delayed \in {"signature", "resync", "sync"} => q.waiting = "sync"

LEMMA NamesLemma ==
    /\ None \notin Awaited /\ None \notin Delays
    /\ Early \subseteq Awaited /\ Late \subseteq Awaited
    /\ \A w \in Late : w \notin Early \cup {None} /\ w \notin {"writeAddress", "write"}
    /\ \A w \in {"writeAddress", "write"} : w \in Awaited /\ w \notin Early \cup {None}
    /\ \A w \in Awaited : w \in Early \cup Late \cup {"writeAddress", "write"}
BY NoneAssumption DEF Awaited, Early, Late, Delays

LEMMA ProgressLemma ==
    ASSUME NEW p, NEW q, NEW s, Keeps(p, q), q.waiting = p.waiting, Progress(p, s)
    PROVE  Progress(q, s)
BY DEF Keeps, Progress, PageReady

LEMMA EarlyLemma ==
    ASSUME NEW q, NEW s, q.waiting \in Early, s = <<>>
    PROVE  Progress(q, s)
BY NoneAssumption DEF Progress, Awaited, Early

LEMMA LateLemma ==
    ASSUME NEW q, NEW s, q.waiting \in Late
    PROVE  Progress(q, s)
BY NamesLemma DEF Progress

LEMMA ReadFileLemma ==
    ASSUME NEW p \in Programmer, NEW w \in Awaited, NoPage(p.out)
    PROVE  /\ ReadFile(p, w) \in Programmer /\ NoPage(ReadFile(p, w).out)
           /\ ReadFile(p, w).waiting = w /\ ReadFile(p, w).delayed = p.delayed
           /\ ReadFile(p, w).page = p.reader.page
           /\ ReaderAt(p.reader) => PageReady(ReadFile(p, w))
<1> DEFINE n == NextPage(p.reader)
           q == [p EXCEPT !.reader = n.reader, !.page = p.reader.page, !.data = n.data,
                          !.last = n.last]
           c == [Command("address") EXCEPT !.page = q.page]
           r == Expect(q, InSync)
           t == Send(r, c)
<1>1. p.reader \in Reader
  BY DEF Programmer, Reader
<1>2. /\ n.data \in Records /\ n.last \in BOOLEAN /\ n.reader \in Reader
      /\ ReaderAt(p.reader) =>
            /\ n.data = RecordsOf(p.reader.page)
            /\ IF n.last THEN UpTo(p.reader.page) = Pages
               ELSE ReaderAt(n.reader) /\ Below(n.reader.page) = UpTo(p.reader.page)
  BY <1>1, NextPageLemma
<1> HIDE DEF n
<1>3. p.reader.page \in Pages
  BY <1>1 DEF Reader
<1>4. /\ q \in Programmer /\ q.out = p.out /\ q.delayed = p.delayed
      /\ q.reader = n.reader /\ q.page = p.reader.page /\ q.data = n.data /\ q.last = n.last
  BY <1>2, <1>3 DEF Programmer, Reader
<1>5. ReaderAt(p.reader) => PageReady(q)
  BY <1>2, <1>4, Zenon DEF PageReady
<1>6. ReadFile(p, w) = Await(t, w)
  BY Zenon DEF ReadFile, n, q, r, t, c
<1> HIDE DEF q
<1>7. c \in Commands /\ c.cmd # "program"
  BY <1>3, <1>4, CommandLemma
<1> HIDE DEF c
<1>8. Keeps(q, r) /\ r.out = q.out /\ r.delayed = q.delayed
  BY <1>4, ByteLemma, ExpectLemma
<1>9. r \in Programmer
  BY <1>8 DEF Keeps
<1> HIDE DEF r
<1>10. Keeps(r, t) /\ t.delayed = r.delayed /\ NoPage(t.out)
  BY <1>4, <1>7, <1>8, <1>9, SendLemma
<1>11. t \in Programmer
  BY <1>10 DEF Keeps
<1> HIDE DEF t
<1>12. /\ Keeps(t, Await(t, w)) /\ Await(t, w).out = t.out
       /\ Await(t, w).waiting = w /\ Await(t, w).delayed = t.delayed
  BY <1>11, AwaitLemma
<1>13. Keeps(q, Await(t, w))
  BY <1>8, <1>10, <1>12, KeepsLemma
<1>14. PageReady(q) => PageReady(Await(t, w))
  BY <1>13 DEF Keeps, PageReady
<1> QED BY <1>4, <1>5, <1>6, <1>8, <1>10, <1>12, <1>13, <1>14 DEF Keeps

LEMMA RewindLemma ==
    ASSUME NEW p \in Programmer
    PROVE  /\ Rewind(p) \in Programmer /\ Rewind(p).out = p.out
           /\ Rewind(p).delayed = p.delayed
           /\ Rewind(p).reader = Rewound /\ Rewound.page = 0 /\ ReaderAt(Rewound)
<1>1. 0 \in Pages /\ {} \in Records /\ 1 \in 1..Len(File) + 1
  BY FileLemma DEF Pages, Records
<1>2. Rewound.page = 0 /\ Rewound \in [pos : 1..Len(File) + 1, page : Pages, buffer : Records]
  BY <1>1 DEF Rewound
<1>3. ReaderAt(Rewound)
  <2>1. Rewound.pos = 1 /\ Rewound.page = 0 /\ Rewound.buffer = {}
    BY DEF Rewound
  <2>2. \A k \in 1..Len(File) : File[k] \in Nat
    BY FileLemma
  <2> QED BY <2>1, <2>2, FileLemma DEF ReaderAt
<1> QED BY <1>2, <1>3 DEF Rewind, Programmer

(* A command is sent and its response awaited.                             *)
LEMMA AskLemma ==
    ASSUME NEW p \in Programmer, NEW bytes \in Seq(Bytes), NEW c \in Commands,
           NEW w \in Awaited, p.out = <<>>
    PROVE  LET q == Await(Send(Expect(p, bytes), c), w)
           IN  Keeps(p, q) /\ q.out = <<c>> /\ q.waiting = w /\ q.delayed = p.delayed
<1> DEFINE r == Expect(p, bytes)
           t == Send(r, c)
<1>1. Keeps(p, r) /\ r.out = <<>> /\ r.delayed = p.delayed
  BY ExpectLemma
<1>2. r \in Programmer
  BY <1>1 DEF Keeps
<1> HIDE DEF r
<1>3. Keeps(r, t) /\ t.out = <<c>> /\ t.delayed = r.delayed
  BY <1>1, <1>2, SendLemma
<1>4. t \in Programmer
  BY <1>3 DEF Keeps
<1> HIDE DEF t
<1>5. /\ Keeps(t, Await(t, w)) /\ Await(t, w).out = t.out
      /\ Await(t, w).waiting = w /\ Await(t, w).delayed = t.delayed
  BY <1>4, AwaitLemma
<1>6. Keeps(p, Await(t, w))
  BY <1>1, <1>3, <1>5, KeepsLemma
<1> QED BY <1>1, <1>3, <1>5, <1>6 DEF r, t

LEMMA AskPLemma ==
    ASSUME NEW p \in Programmer, NEW bytes \in Seq(Bytes),
           NEW c \in {"sync", "signature", "enter", "leave"},
           NEW w \in Awaited, NoPage(p.out)
    PROVE  LET q == Await(SendP(Expect(p, bytes), c), w)
           IN  Harmless(p, q) /\ q.waiting = w /\ q.delayed = p.delayed
<1> DEFINE r == Expect(p, bytes)
           t == SendP(r, c)
<1>1. Keeps(p, r) /\ r.out = p.out /\ r.delayed = p.delayed
  BY ExpectLemma
<1>2. r \in Programmer
  BY <1>1 DEF Keeps
<1> HIDE DEF r
<1>3. Keeps(r, t) /\ NoPage(t.out) /\ t.delayed = r.delayed
  BY <1>1, <1>2, SendPLemma
<1>4. t \in Programmer
  BY <1>3 DEF Keeps
<1> HIDE DEF t
<1>5. /\ Keeps(t, Await(t, w)) /\ Await(t, w).out = t.out
      /\ Await(t, w).waiting = w /\ Await(t, w).delayed = t.delayed
  BY <1>4, AwaitLemma
<1>6. Keeps(p, Await(t, w))
  BY <1>1, <1>3, <1>5, KeepsLemma
<1> QED BY <1>1, <1>3, <1>5, <1>6 DEF r, t, Harmless

(* A page leads to the next, or to the first again.                        *)
LEMMA NextAddressLemma ==
    ASSUME NEW p \in Programmer, p.waiting = "write", ~p.last, NoPage(p.out), Progress(p, sent)
    PROVE  Progress(ReadFile(p, "writeAddress"), sent)
<1>1. PageReady(p) /\ PagesOf(sent) = UpTo(p.page)
  BY DEF Progress
<1>2. ReaderAt(p.reader) /\ Below(p.reader.page) = UpTo(p.page)
  BY <1>1 DEF PageReady
<1> DEFINE q == ReadFile(p, "writeAddress")
<1>3. PageReady(q) /\ q.page = p.reader.page /\ q.waiting = "writeAddress"
  BY <1>2, NamesLemma, ReadFileLemma
<1> HIDE DEF q
<1>4. Progress(q, sent)
  BY <1>1, <1>2, <1>3, NamesLemma DEF Progress
<1> QED BY <1>4 DEF q

LEMMA FirstAddressLemma ==
    ASSUME NEW p \in Programmer, NoPage(p.out), sent = <<>>
    PROVE  Progress(ReadFile(Rewind(p), "writeAddress"), sent)
<1> DEFINE q == ReadFile(Rewind(p), "writeAddress")
<1>1. /\ Rewind(p) \in Programmer /\ NoPage(Rewind(p).out)
      /\ ReaderAt(Rewind(p).reader) /\ Rewind(p).reader.page = 0
  BY RewindLemma
<1>2. PageReady(q) /\ q.page = 0 /\ q.waiting = "writeAddress"
  BY <1>1, NamesLemma, ReadFileLemma
<1> HIDE DEF q
<1>3. Below(0) = {}
  <2>1. \A k \in Pages : k \in Nat
    BY FileLemma
  <2>2. \A k \in Pages : ~(k < 0)
    BY <2>1
  <2> QED BY <2>2 DEF Below
<1>4. PagesOf(sent) = {}
  BY DEF PagesOf
<1>5. Progress(q, sent)
  BY <1>2, <1>3, <1>4, NamesLemma DEF Progress
<1> QED BY <1>5 DEF q

LEMMA OnSuccessLemma ==
    ASSUME NEW p \in Programmer, p.out = <<>>, p.waiting # None, p.delayed = None,
           Progress(p, sent)
    PROVE  Outcome(OnSuccess(p)) /\ Coherent(OnSuccess(p))
<1>1. NoPage(p.out)
  BY DEF NoPage
<1>2. p.waiting \in Awaited
  BY DEF Programmer
<1>3. None \notin Delays /\ None \notin Awaited
  BY NamesLemma
<1>4. p.waiting \in {"sync", "signature", "options", "enter", "writeAddress", "write",
                     "verifyAddress", "verify", "leave"}
  BY <1>2 DEF Awaited, Early, Late
<1>5. /\ p.data \in Records /\ p.page \in Pages /\ {} \in Records /\ 0 \in Pages
  BY DEF Programmer, Records, Pages
<1> DEFINE After(q, w) == q \in Programmer /\ NoPage(q.out) /\ q.waiting = w /\ q.delayed = None
<1>6. ASSUME NEW q, NEW w \in Awaited, After(q, w), Progress(q, sent)
      PROVE  Outcome(q) /\ Coherent(q)
  BY <1>3, <1>6 DEF Outcome, Coherent, Delays
<1>7. CASE p.waiting = "sync"
  <2> DEFINE q == Delay(p, "signature")
  <2>1. Keeps(p, q) /\ q.out = p.out /\ q.waiting = p.waiting /\ q.delayed = "signature"
    BY DelayLemma DEF Delays
  <2>2. OnSuccess(p) = q
    BY <1>7 DEF OnSuccess
  <2> HIDE DEF q
  <2>3. Progress(q, sent) /\ q \in Programmer
    BY <2>1, ProgressLemma DEF Keeps
  <2> QED BY <1>1, <1>3, <1>2, <1>7, <2>1, <2>2, <2>3 DEF Outcome, Coherent
<1>8. CASE p.waiting = "signature"
  <2> DEFINE q == Await(Send(Expect(p, InSync), Command("options")), "options")
  <2>1. Keeps(p, q) /\ q.out = <<Command("options")>> /\ q.waiting = "options"
        /\ q.delayed = None
    BY AskLemma, ByteLemma, CommandLemma DEF Awaited, Early
  <2>2. OnSuccess(p) = q
    BY <1>8 DEF OnSuccess
  <2> HIDE DEF q
  <2>3. NoPage(q.out)
    BY <2>1, CommandLemma DEF NoPage
  <2>4. sent = <<>> /\ q.waiting \in Early
    BY <1>8, <2>1 DEF Progress, Early
  <2>5. Progress(q, sent) /\ "options" \in Awaited
    BY <2>4, EarlyLemma DEF Awaited, Early
  <2> QED BY <1>6, <2>1, <2>2, <2>3, <2>5 DEF Keeps
<1>9. CASE p.waiting = "options"
  <2> DEFINE q == Await(SendP(Expect(p, InSync), "enter"), "enter")
  <2>1. Harmless(p, q) /\ q.waiting = "enter" /\ q.delayed = None
    BY <1>1, AskPLemma, ByteLemma DEF Awaited, Early
  <2>2. OnSuccess(p) = q
    BY <1>9 DEF OnSuccess
  <2> HIDE DEF q
  <2>4. sent = <<>> /\ q.waiting \in Early
    BY <1>9, <2>1 DEF Progress, Early
  <2>5. Progress(q, sent) /\ "enter" \in Awaited
    BY <2>4, EarlyLemma DEF Awaited, Early
  <2> QED BY <1>6, <2>1, <2>2, <2>5 DEF Keeps, Harmless
<1>10. CASE p.waiting = "enter"
  <2> DEFINE q == ReadFile(Rewind(p), "writeAddress")
  <2>1. Rewind(p) \in Programmer /\ Rewind(p).out = p.out /\ Rewind(p).delayed = p.delayed
    BY RewindLemma
  <2>2. After(q, "writeAddress") /\ "writeAddress" \in Awaited
    BY <1>1, <2>1, ReadFileLemma, NamesLemma
  <2>3. sent = <<>>
    BY <1>10 DEF Progress, Early
  <2>4. Progress(q, sent)
    BY <1>1, <2>3, FirstAddressLemma
  <2>5. OnSuccess(p) = q
    BY <1>10 DEF OnSuccess
  <2> HIDE DEF q, After
  <2> QED BY <1>6, <2>2, <2>4, <2>5
<1>11. CASE p.waiting = "writeAddress"
  <2> DEFINE c == Program(p.page, p.data)
             q == Await(Send(Expect(p, InSync), c), "write")
  <2>1. c \in Commands
    BY <1>5 DEF Program, Commands
  <2> HIDE DEF c
  <2>2. Keeps(p, q) /\ q.out = <<c>> /\ q.waiting = "write" /\ q.delayed = None
    BY <2>1, AskLemma, ByteLemma DEF Awaited
  <2>3. OnSuccess(p) = q
    BY <1>11 DEF OnSuccess, c
  <2> HIDE DEF q
  <2>4. PageReady(p) /\ PagesOf(sent) = Below(p.page)
    BY <1>11 DEF Progress
  <2>5. PageReady(q) /\ PagesOf(sent) = Below(q.page) /\ q.out = <<Program(q.page, q.data)>>
    BY <2>2, <2>4 DEF Keeps, PageReady, c
  <2>6. Coherent(q)
    BY <1>3, <2>2 DEF Coherent, Delays, Awaited
  <2> QED BY <2>2, <2>3, <2>5, <2>6 DEF Outcome, SendsPage, Keeps
<1>12. CASE p.waiting = "write"
  <2>1. CASE p.last
    <3> DEFINE q == ReadFile(Rewind(p), "verifyAddress")
    <3>1. Rewind(p) \in Programmer /\ Rewind(p).out = p.out /\ Rewind(p).delayed = p.delayed
      BY RewindLemma
    <3>2. "verifyAddress" \in Awaited /\ "verifyAddress" \in Late
      BY DEF Awaited, Late
    <3>3. After(q, "verifyAddress")
      BY <1>1, <3>1, <3>2, ReadFileLemma
    <3>4. Progress(q, sent)
      BY <3>2, <3>3, LateLemma
    <3>5. OnSuccess(p) = q
      BY <1>12, <2>1 DEF OnSuccess
    <3> HIDE DEF q, After
    <3> QED BY <1>6, <3>2, <3>3, <3>4, <3>5
  <2>2. CASE ~p.last
    <3> DEFINE q == ReadFile(p, "writeAddress")
    <3>1. After(q, "writeAddress") /\ "writeAddress" \in Awaited
      BY <1>1, ReadFileLemma, NamesLemma
    <3>2. Progress(q, sent)
      BY <1>1, <1>12, <2>2, NextAddressLemma
    <3>3. OnSuccess(p) = q
      BY <1>12, <2>2 DEF OnSuccess
    <3> HIDE DEF q, After
    <3> QED BY <1>6, <3>1, <3>2, <3>3
  <2> QED BY <2>1, <2>2
<1>13. CASE p.waiting = "verifyAddress"
  <2> DEFINE c == [Command("read") EXCEPT !.data = p.data]
             q == Await(Send(Expect(p, PageRead(p.data)), c), "verify")
  <2>1. c \in Commands /\ c.cmd = "read" /\ PageRead(p.data) \in Seq(Bytes)
    BY <1>5, CommandLemma, ByteLemma
  <2>2. OnSuccess(p) = q
    BY <1>13 DEF OnSuccess
  <2> HIDE DEF c
  <2>3. Keeps(p, q) /\ q.out = <<c>> /\ q.waiting = "verify" /\ q.delayed = None
    BY <2>1, AskLemma DEF Awaited, Late
  <2> HIDE DEF q
  <2>4. NoPage(q.out)
    BY <2>1, <2>3 DEF NoPage
  <2>5. Progress(q, sent) /\ "verify" \in Awaited
    BY <2>3, LateLemma DEF Late, Awaited
  <2> QED BY <1>6, <2>2, <2>3, <2>4, <2>5 DEF Keeps
<1>14. CASE p.waiting = "verify"
  <2>1. CASE p.last
    <3> DEFINE q == Await(SendP(Expect(p, InSync), "leave"), "leave")
    <3>1. Harmless(p, q) /\ q.waiting = "leave" /\ q.delayed = None
      BY <1>1, AskPLemma, ByteLemma DEF Awaited, Late
    <3>2. OnSuccess(p) = q
      BY <1>14, <2>1 DEF OnSuccess
    <3> HIDE DEF q
    <3>3. Progress(q, sent) /\ "leave" \in Awaited
      BY <3>1, LateLemma DEF Late, Awaited
    <3> QED BY <1>6, <3>1, <3>2, <3>3 DEF Keeps, Harmless
  <2>2. CASE ~p.last
    <3> DEFINE q == ReadFile(p, "verifyAddress")
    <3>1. "verifyAddress" \in Awaited /\ "verifyAddress" \in Late
      BY DEF Awaited, Late
    <3>2. After(q, "verifyAddress")
      BY <1>1, <3>1, ReadFileLemma
    <3>3. Progress(q, sent)
      BY <3>1, <3>2, LateLemma
    <3>4. OnSuccess(p) = q
      BY <1>14, <2>2 DEF OnSuccess
    <3> HIDE DEF q, After
    <3> QED BY <1>6, <3>1, <3>2, <3>3, <3>4
  <2> QED BY <2>1, <2>2
<1>15. CASE p.waiting = "leave"
  <2> DEFINE q == Done(p, TRUE)
  <2>1. Keeps(p, q) /\ q.out = p.out /\ q.waiting = p.waiting /\ q.delayed = "end"
    BY DoneLemma
  <2>2. OnSuccess(p) = q
    BY <1>15 DEF OnSuccess
  <2> HIDE DEF q
  <2>3. Progress(q, sent) /\ q \in Programmer
    BY <2>1, ProgressLemma DEF Keeps
  <2> QED BY <1>1, <1>3, <1>2, <2>1, <2>2, <2>3 DEF Outcome, Coherent
<1> QED BY <1>4, <1>7, <1>8, <1>9, <1>10, <1>11, <1>12, <1>13, <1>14, <1>15

LEMMA OnFailureLemma ==
    ASSUME NEW p \in Programmer, (NoPage(p.out) /\ Progress(p, sent)) \/ SendsPage(p),
           p.waiting # None
    PROVE  Outcome(OnFailure(p)) /\ Coherent(OnFailure(p))
<1>1. /\ RetrySize \in Nat /\ p.retries \in 0..RetrySize - 1
  BY RetriesAssumption DEF Programmer
<1>2. ASSUME NEW r, r \in 0..RetrySize - 1
      PROVE  LET q == [p EXCEPT !.retries = r]
             IN  /\ Keeps(p, q) /\ q.out = p.out /\ q.waiting = p.waiting
  BY <1>2 DEF Programmer, Keeps
<1>3. /\ p.retries # 0 => p.retries - 1 \in 0..RetrySize - 1
      /\ (p.retries + RetrySize - 1) % RetrySize \in 0..RetrySize - 1
  BY <1>1
<1>4. ASSUME NEW q, Keeps(p, q), q.out = p.out, q.waiting = p.waiting
      PROVE  Outcome(q)
  <2>1. Progress(p, sent) => Progress(q, sent)
    BY <1>4, ProgressLemma
  <2>2. SendsPage(p) => SendsPage(q)
    BY <1>4 DEF SendsPage, Keeps, PageReady
  <2> QED BY <1>4, <2>1, <2>2 DEF Outcome, Keeps
<1>5. CASE p.waiting = "sync" /\ p.retries # 0
  <2> DEFINE q == [p EXCEPT !.retries = p.retries - 1]
             r == Delay(q, "resync")
  <2>1. Keeps(p, q) /\ q.out = p.out /\ q.waiting = p.waiting
    BY <1>2, <1>3, <1>5
  <2>2. OnFailure(p) = r
    BY <1>5 DEF OnFailure
  <2> HIDE DEF q
  <2>3. Keeps(q, r) /\ r.out = q.out /\ r.waiting = q.waiting /\ r.delayed = "resync"
    BY <2>1, DelayLemma DEF Keeps, Delays
  <2> HIDE DEF r
  <2>4. Keeps(p, r)
    BY <2>1, <2>3, KeepsLemma
  <2>5. Outcome(r)
    BY <1>4, <2>1, <2>3, <2>4
  <2>6. Coherent(r)
    BY <1>5, <2>1, <2>3, NamesLemma DEF Coherent
  <2> QED BY <2>2, <2>5, <2>6
<1>6. CASE ~(p.waiting = "sync" /\ p.retries # 0)
  <2> DEFINE q == [p EXCEPT !.retries = (p.retries + RetrySize - 1) % RetrySize]
             r == Done(q, FALSE)
  <2>1. Keeps(p, q) /\ q.out = p.out /\ q.waiting = p.waiting
    BY <1>2, <1>3
  <2>2. OnFailure(p) = r
    BY <1>6 DEF OnFailure
  <2> HIDE DEF q
  <2>3. Keeps(q, r) /\ r.out = q.out /\ r.waiting = q.waiting /\ r.delayed = "end"
    BY <2>1, DoneLemma DEF Keeps
  <2> HIDE DEF r
  <2>4. Keeps(p, r)
    BY <2>1, <2>3, KeepsLemma
  <2>5. Outcome(r)
    BY <1>4, <2>1, <2>3, <2>4
  <2>6. Coherent(r)
    BY <2>1, <2>3 DEF Coherent
  <2> QED BY <2>2, <2>5, <2>6
<1> QED BY <1>5, <1>6

(* The callback of a delay; of the last one only the end can follow.       *)
LEMMA OnDelayLemma ==
    ASSUME NEW p \in Programmer, NEW d \in Delays, NoPage(p.out), Progress(p, sent),
           p.delayed = None,
           d = "flash" => p.waiting = None,
           d \in {"signature", "resync", "sync"} => p.waiting = "sync"
    PROVE  /\ Outcome(OnDelay(d, p))
           /\ d # "end" => Coherent(OnDelay(d, p))
           /\ d = "end" => OnDelay(d, p).delayed = None
<1>1. None \notin Delays /\ None \notin Awaited
  BY NamesLemma
<1>2. ASSUME NEW q, Harmless(p, q), q.waiting \in Early, q.delayed = None,
             p.waiting \in Early \cup {None}
      PROVE  Outcome(q) /\ Coherent(q)
  <2>1. sent = <<>>
    BY <1>2 DEF Progress
  <2>2. Progress(q, sent)
    BY <1>2, <2>1, EarlyLemma
  <2> QED BY <1>1, <1>2, <2>2 DEF Outcome, Coherent, Harmless, Keeps, Delays, Awaited
<1>3. CASE d = "flash"
  <2> DEFINE q1 == Expect(p, InSync)
             q2 == ResetTarget(q1)
             q3 == SyncTimes(q2, 3)
             q4 == [q3 EXCEPT !.retries = MaxRetries]
             q5 == Await(q4, "sync")
  <2>1. Keeps(p, q1) /\ q1.out = p.out /\ q1.delayed = p.delayed
    BY ExpectLemma, ByteLemma
  <2>2. OnDelay(d, p) = q5
    BY <1>3, Zenon DEF OnDelay
  <2> HIDE DEF q1
  <2>3. Keeps(q1, q2) /\ q2.out = q1.out /\ q2.delayed = q1.delayed
    BY <2>1 DEF ResetTarget, Keeps, Programmer
  <2> HIDE DEF q2
  <2>4. NoPage(q2.out) /\ q2 \in Programmer
    BY <2>1, <2>3 DEF Keeps
  <2>5. Keeps(q2, q3) /\ NoPage(q3.out) /\ q3.delayed = q2.delayed
    BY <2>4, SyncLemma
  <2> HIDE DEF q3
  <2>6. MaxRetries \in 0..RetrySize - 1
    BY RetriesAssumption
  <2>7. Keeps(q3, q4) /\ q4.out = q3.out /\ q4.delayed = q3.delayed
    BY <2>5, <2>6 DEF Keeps, Programmer
  <2> HIDE DEF q4
  <2>8. q4 \in Programmer /\ "sync" \in Awaited
    BY <2>7 DEF Keeps, Awaited, Early
  <2>9. Keeps(q4, q5) /\ q5.out = q4.out /\ q5.waiting = "sync" /\ q5.delayed = q4.delayed
    BY <2>8, AwaitLemma
  <2> HIDE DEF q5
  <2>10. Keeps(p, q3)
    BY <2>1, <2>3, <2>5, KeepsLemma
  <2>11. Keeps(p, q5)
    BY <2>7, <2>9, <2>10, KeepsLemma
  <2>12. Harmless(p, q5) /\ q5.delayed = None /\ q5.waiting \in Early
    BY <2>1, <2>3, <2>5, <2>7, <2>9, <2>11 DEF Harmless, Early
  <2> QED BY <1>2, <1>3, <2>2, <2>12
<1>4. CASE d = "signature"
  <2> DEFINE q == Await(SendP(Expect(p, Signature), "signature"), "signature")
  <2>1. Harmless(p, q) /\ q.waiting = "signature" /\ q.delayed = None
    BY AskPLemma, ByteLemma DEF Awaited, Early
  <2>2. OnDelay(d, p) = q
    BY <1>4, Zenon DEF OnDelay
  <2> HIDE DEF q
  <2> QED BY <1>2, <1>4, <2>1, <2>2 DEF Early
<1>5. CASE d = "resync" /\ p.retries % ResetEvery = 0
  <2> DEFINE q1 == [p EXCEPT !.response = <<>>]
             q2 == ResetTarget(q1)
             q3 == Delay(q2, "sync")
  <2>1. Keeps(p, q1) /\ q1.out = p.out /\ q1.waiting = p.waiting
    <3>1. <<>> \in Seq(Bytes)
      OBVIOUS
    <3> QED BY <3>1 DEF Keeps, Programmer
  <2>2. OnDelay(d, p) = q3
    BY <1>5, Zenon DEF OnDelay
  <2> HIDE DEF q1
  <2>3. Keeps(q1, q2) /\ q2.out = q1.out /\ q2.waiting = q1.waiting
    BY <2>1 DEF ResetTarget, Keeps, Programmer
  <2> HIDE DEF q2
  <2>4. Keeps(q2, q3) /\ q3.out = q2.out /\ q3.waiting = q2.waiting /\ q3.delayed = "sync"
    BY <2>3, DelayLemma DEF Keeps, Delays
  <2> HIDE DEF q3
  <2>5. Keeps(p, q3)
    BY <2>1, <2>3, <2>4, KeepsLemma
  <2>6. Progress(q3, sent) /\ q3.waiting = p.waiting
    BY <2>1, <2>3, <2>4, <2>5, ProgressLemma
  <2>7. Outcome(q3)
    BY <2>1, <2>3, <2>4, <2>5, <2>6 DEF Outcome, Keeps
  <2>8. Coherent(q3)
    BY <1>5, <2>4, <2>6, NamesLemma DEF Coherent, Awaited, Early
  <2> QED BY <1>5, <2>2, <2>7, <2>8
<1>6. CASE d = "resync" /\ p.retries % ResetEvery # 0
  <2> DEFINE q == SendP(p, "sync")
  <2>1. Keeps(p, q) /\ q.waiting = p.waiting /\ q.delayed = None /\ NoPage(q.out)
    BY SendPLemma
  <2>2. OnDelay(d, p) = q
    BY <1>6, Zenon DEF OnDelay
  <2> HIDE DEF q
  <2> QED BY <1>2, <1>6, <2>1, <2>2 DEF Early, Harmless
<1>7. CASE d = "sync"
  <2> DEFINE q == SyncTimes(p, 4)
  <2>1. Keeps(p, q) /\ q.waiting = p.waiting /\ q.delayed = None /\ NoPage(q.out)
    BY SyncLemma
  <2>2. OnDelay(d, p) = q
    BY <1>7, Zenon DEF OnDelay
  <2> HIDE DEF q
  <2> QED BY <1>2, <1>7, <2>1, <2>2 DEF Early, Harmless
<1>8. CASE d = "end"
  <2> DEFINE q == Expect(p, <<>>)
  <2>1. Keeps(p, q) /\ q.out = p.out /\ q.waiting = p.waiting /\ q.delayed = None
    <3>1. <<>> \in Seq(Bytes)
      OBVIOUS
    <3> QED BY <3>1, ExpectLemma
  <2>2. OnDelay(d, p) = q
    BY <1>8, Zenon DEF OnDelay
  <2> HIDE DEF q
  <2>3. Progress(q, sent)
    BY <2>1, ProgressLemma
  <2> QED BY <1>8, <2>1, <2>2, <2>3 DEF Outcome, Keeps
<1> QED BY <1>3, <1>4, <1>5, <1>6, <1>7, <1>8 DEF Delays

-----------------------------------------------------------------------------
(* PagesInOrder of the commands s                                          *)
InOrder(s) ==
    \A k \in DOMAIN s :
       /\ s[k].page \in Pages
       /\ s[k] = Program(s[k].page, RecordsOf(s[k].page))
       /\ {s[j].page : j \in 1..k-1} = {p \in Pages : p < s[k].page}

(* The next page is the next of the file.                                  *)
LEMMA AppendPageLemma ==
    ASSUME NEW p \in Pages, NEW s \in Seq(Commands), NEW c \in Commands,
           c = Program(p, RecordsOf(p)), PagesOf(s) = Below(p),
           InOrder(s), NEW t, t = s \o <<c>>
    PROVE  t \in Seq(Commands) /\ PagesOf(t) = UpTo(p) /\ InOrder(t)
<1>1. /\ t \in Seq(Commands) /\ Len(t) = Len(s) + 1 /\ Len(s) \in Nat
      /\ DOMAIN s = 1..Len(s) /\ DOMAIN t = 1..Len(s) + 1
      /\ \A k \in 1..Len(s) : t[k] = s[k]
      /\ t[Len(s) + 1] = c
  OBVIOUS
<1>2. c.page = p
  BY DEF Program
<1>3. PagesOf(t) = PagesOf(s) \cup {p}
  BY <1>1, <1>2 DEF PagesOf
<1>4. UpTo(p) = Below(p) \cup {p}
  <2>1. \A r \in Pages : r \in Nat
    BY FileLemma
  <2>2. \A r \in Pages : r <= p <=> r < p \/ r = p
    BY <2>1
  <2> QED BY <2>2 DEF UpTo, Below
<1>5. ASSUME NEW k \in 1..Len(s)
      PROVE  /\ t[k].page \in Pages
             /\ t[k] = Program(t[k].page, RecordsOf(t[k].page))
             /\ {t[j].page : j \in 1..k-1} = {r \in Pages : r < t[k].page}
  <2>1. \A j \in 1..k-1 : t[j] = s[j]
    BY <1>1
  <2>2. {t[j].page : j \in 1..k-1} = {s[j].page : j \in 1..k-1}
    BY <2>1
  <2> QED BY <1>1, <2>2 DEF InOrder
<1>6. {t[j].page : j \in 1..(Len(s) + 1) - 1} = Below(p)
  <2>1. 1..(Len(s) + 1) - 1 = 1..Len(s)
    BY <1>1
  <2>2. {t[j].page : j \in 1..Len(s)} = PagesOf(s)
    BY <1>1 DEF PagesOf
  <2> QED BY <2>1, <2>2
<1>7. /\ t[Len(s) + 1].page = p
      /\ t[Len(s) + 1] = Program(p, RecordsOf(p))
      /\ {t[j].page : j \in 1..(Len(s) + 1) - 1} = {r \in Pages : r < p}
  BY <1>1, <1>2, <1>6 DEF Below
<1>8. ASSUME NEW k \in DOMAIN t
      PROVE  /\ t[k].page \in Pages
             /\ t[k] = Program(t[k].page, RecordsOf(t[k].page))
             /\ {t[j].page : j \in 1..k-1} = {r \in Pages : r < t[k].page}
  <2>1. CASE k = Len(s) + 1
    BY <1>7, <2>1
  <2>2. CASE k # Len(s) + 1
    <3>1. k \in 1..Len(s)
      BY <1>1, <2>2
    <3> QED BY <1>5, <3>1
  <2> QED BY <2>1, <2>2
<1> QED BY <1>1, <1>3, <1>4, <1>8 DEF InOrder

LEMMA TransmitLemma ==
    ASSUME NEW q, Outcome(q), Transmit(q), FlashTypeOK, PagesInOrder
    PROVE  /\ prog' \in Programmer /\ prog'.out = <<>> /\ ~prog'.reset
           /\ prog'.waiting = q.waiting /\ prog'.delayed = q.delayed
           /\ tx' \in Seq(Commands) /\ Len(tx') <= PortSize /\ boot' \in BOOLEAN
           /\ sent' \in Seq(Commands) /\ PagesInOrder' /\ Progress(prog', sent')
<1>1. q \in Programmer /\ q.out \in Seq(Commands) /\ q.reset \in BOOLEAN
  BY DEF Outcome, Programmer
<1>2. tx \in Seq(Commands) /\ sent \in Seq(Commands) /\ boot \in BOOLEAN /\ PortSize \in Nat
  BY RetriesAssumption DEF FlashTypeOK
<1>3. /\ prog' \in Programmer /\ prog'.out = <<>> /\ ~prog'.reset
      /\ prog'.waiting = q.waiting /\ prog'.delayed = q.delayed
      /\ prog'.reader = q.reader /\ prog'.page = q.page /\ prog'.data = q.data
      /\ prog'.last = q.last
  <2>1. prog' = [q EXCEPT !.out = <<>>, !.reset = FALSE]
    BY DEF Transmit
  <2>2. <<>> \in Seq(Commands)
    OBVIOUS
  <2> QED BY <1>1, <2>1, <2>2 DEF Programmer
<1>4. tx' \in Seq(Commands) /\ Len(tx') <= PortSize
  <2> DEFINE all == (IF q.reset THEN <<>> ELSE tx) \o q.out
             n == IF Len(all) < PortSize THEN Len(all) ELSE PortSize
  <2>1. all \in Seq(Commands)
    BY <1>1, <1>2
  <2>2. tx' = SubSeq(all, 1, n)
    BY DEF Transmit
  <2> HIDE DEF all
  <2>3. n \in Nat /\ n <= Len(all) /\ n <= PortSize
    BY <1>2, <2>1
  <2> HIDE DEF n
  <2> QED BY <2>1, <2>2, <2>3
<1>5. boot' \in BOOLEAN
  BY <1>1, <1>2, Zenon DEF Transmit
<1>6. CASE NoPage(q.out) /\ Progress(q, sent)
  <2>1. sent' = sent
    BY <1>6 DEF Transmit, NoPage
  <2>2. Progress(prog', sent')
    BY <1>3, <1>6, <2>1, ProgressLemma DEF Keeps
  <2> QED BY <1>2, <1>3, <1>4, <1>5, <2>1, <2>2 DEF PagesInOrder
<1>7. CASE SendsPage(q)
  <2> DEFINE c == Program(q.page, q.data)
  <2>1. /\ q.out = <<c>> /\ q.waiting = "write" /\ PageReady(q)
        /\ PagesOf(sent) = Below(q.page)
    BY <1>7 DEF SendsPage
  <2>2. q.data = RecordsOf(q.page) /\ q.page \in Pages /\ q.data \in Records
    BY <1>1, <2>1 DEF PageReady, Programmer
  <2>3. c \in Commands /\ c.cmd = "program" /\ c = Program(q.page, RecordsOf(q.page))
    BY <2>2 DEF Program, Commands
  <2> HIDE DEF c
  <2>4. 1 \in DOMAIN q.out /\ q.out[1] = c
    BY <2>1
  <2>5. sent' = sent \o <<c>>
    BY <2>1, <2>3, <2>4 DEF Transmit
  <2>6. InOrder(sent)
    BY Zenon DEF PagesInOrder, InOrder
  <2>7. sent' \in Seq(Commands) /\ PagesOf(sent') = UpTo(q.page) /\ InOrder(sent')
    BY <1>2, <2>1, <2>2, <2>3, <2>5, <2>6, AppendPageLemma
  <2>8. PageReady(prog')
    BY <1>3, <2>1, Zenon DEF PageReady
  <2>9. prog'.waiting = "write" /\ PagesOf(sent') = UpTo(prog'.page)
    BY <1>3, <2>1, <2>7
  <2>10. Progress(prog', sent')
    BY <2>8, <2>9, NamesLemma DEF Progress
  <2>11. PagesInOrder'
    BY <2>7, Zenon DEF PagesInOrder, InOrder
  <2> QED BY <1>3, <1>4, <1>5, <2>7, <2>10, <2>11
<1> QED BY <1>6, <1>7 DEF Outcome

-----------------------------------------------------------------------------
(* A callback of a step.                                                   *)
LEMMA AnswerLemma ==
    ASSUME NEW p \in Programmer, p.out = <<>>, p.waiting # None, p.delayed = None,
           Progress(p, sent), NEW q \in {Answer(p)} \cup FileError(p)
    PROVE  Outcome(q) /\ Coherent(q)
<1>1. NoPage(p.out)
  BY DEF NoPage
<1>2. CASE q = Answer(p)
  <2>1. Outcome(OnSuccess(p)) /\ Coherent(OnSuccess(p))
    BY OnSuccessLemma
  <2>2. Outcome(OnFailure(p)) /\ Coherent(OnFailure(p))
    BY <1>1, OnFailureLemma
  <2> QED BY <1>2, <2>1, <2>2 DEF Answer
<1>3. CASE q \in FileError(p)
  <2>1. q = Done(p, FALSE)
    BY <1>3 DEF FileError
  <2>2. Keeps(p, q) /\ q.out = p.out /\ q.waiting = p.waiting /\ q.delayed = "end"
    BY <2>1, DoneLemma
  <2>3. Progress(q, sent)
    BY <2>2, ProgressLemma
  <2> QED BY <1>1, <2>2, <2>3 DEF Outcome, Keeps, Coherent
<1> QED BY <1>2, <1>3

(* The first page is the first of the file.                                *)
LEMMA FreshLemma ==
    ASSUME NEW l \in BOOLEAN
    PROVE  /\ [Fresh EXCEPT !.logging = l] \in Programmer /\ Fresh \in Programmer
           /\ Fresh.waiting = None /\ Fresh.delayed = None /\ Fresh.out = <<>> /\ ~Fresh.reset
           /\ [Fresh EXCEPT !.logging = l].waiting = None
           /\ [Fresh EXCEPT !.logging = l].delayed = None
           /\ [Fresh EXCEPT !.logging = l].out = <<>>
           /\ ~[Fresh EXCEPT !.logging = l].reset
<1>1. Rewound \in [pos : 1..Len(File) + 1, page : Pages, buffer : Records]
  <2>1. 0 \in Pages /\ {} \in Records /\ 1 \in 1..Len(File) + 1
    BY FileLemma DEF Pages, Records
  <2> QED BY <2>1 DEF Rewound
<1>2. 0 \in 0..RetrySize - 1
  BY RetriesAssumption
<1>3. 0 \in Pages /\ {} \in Records /\ <<>> \in Seq(Bytes) /\ <<>> \in Seq(Commands)
  BY FileLemma DEF Pages, Records
<1> QED BY <1>1, <1>2, <1>3 DEF Fresh, Programmer

LEMMA FlashInitLemma == FlashInit => FlashInv
<1> SUFFICES ASSUME FlashInit PROVE FlashInv
  OBVIOUS
<1>1. /\ Fresh \in Programmer /\ Fresh.waiting = None /\ Fresh.delayed = None
      /\ Fresh.out = <<>> /\ ~Fresh.reset
  BY FreshLemma
<1>2. FlashTypeOK
  <2>1. /\ 0 \in Pages /\ {} \in Records /\ <<>> \in Seq(Bytes) /\ <<>> \in Seq(Commands)
        /\ PortSize \in Nat /\ 0 \in 0..MaxFaults /\ Len(<<>>) = 0
    BY RetriesAssumption DEF Pages, Records
  <2>2. flash \in [Pages -> Records]
    BY <2>1 DEF FlashInit
  <2>3. tx \in Seq(Commands) /\ Len(tx) <= PortSize /\ rx \in Seq(Bytes) /\ sent \in Seq(Commands)
    BY <2>1 DEF FlashInit
  <2> QED BY <1>1, <2>1, <2>2, <2>3 DEF FlashInit, FlashTypeOK
<1>3. ProgramInv
  BY <1>1, NoneAssumption DEF FlashInit, ProgramInv, Delays
<1>4. PagesInv
  BY DEF FlashInit, PagesInv, PagesInOrder
<1> QED BY <1>2, <1>3, <1>4 DEF FlashInv

(* The inductive invariant is preserved by every step.                     *)
LEMMA FlashStepLemma == FlashInv /\ [FlashNext]_flashVars => FlashInv'
<1> SUFFICES ASSUME FlashInv, [FlashNext]_flashVars PROVE FlashInv'
  OBVIOUS
<1>1. FlashTypeOK /\ ProgramInv /\ PagesInOrder /\ (stage # "none" => Progress(prog, sent))
  BY DEF FlashInv, PagesInv
<1>2. None \notin Delays /\ None \notin Awaited
  BY NamesLemma
<1>3. prog \in Programmer /\ prog.delayed \in Delays \cup {None}
  BY <1>1 DEF FlashTypeOK, Programmer
<1>4. CASE UNCHANGED flashVars
  <2> USE <1>1, <1>4 DEF flashVars
  <2>1. FlashTypeOK'
    BY DEF FlashTypeOK
  <2>2. ProgramInv'
    BY DEF ProgramInv
  <2>3. PagesInv'
    BY DEF PagesInv, PagesInOrder
  <2> QED BY <2>1, <2>2, <2>3 DEF FlashInv
<1>5. CASE Create
  <2>1. PICK l \in BOOLEAN : prog' = [Fresh EXCEPT !.logging = l]
    BY <1>5 DEF Create
  <2>2. /\ prog' \in Programmer /\ prog'.waiting = None /\ prog'.delayed = None
        /\ prog'.out = <<>> /\ ~prog'.reset
    BY <2>1, FreshLemma
  <2>3. FlashTypeOK'
    BY <1>1, <1>5, <2>2 DEF Create, FlashTypeOK
  <2>4. ~checking
    BY <1>1, <1>5 DEF Create, ProgramInv
  <2>5. ProgramInv'
    BY <1>2, <1>5, <2>2, <2>4 DEF Create, ProgramInv, Delays
  <2>6. sent' = <<>> /\ PagesInOrder'
    BY <1>5 DEF Create, PagesInOrder
  <2>7. Progress(prog', sent')
    BY <2>2, <2>6, NamesLemma DEF Progress
  <2> QED BY <2>3, <2>5, <2>6, <2>7 DEF FlashInv, PagesInv
<1>6. CASE Begin
  <2>1. PICK d \in {"flash", "end"} : prog' = Delay(prog, d)
    BY <1>6 DEF Begin
  <2>2. d \in Delays
    BY DEF Delays
  <2>3. /\ Keeps(prog, prog') /\ prog'.out = prog.out
        /\ prog'.waiting = prog.waiting /\ prog'.delayed = d
    BY <1>3, <2>1, <2>2, DelayLemma
  <2>4. prog'.reset = prog.reset
    BY <1>3, <2>1 DEF Delay, Programmer
  <2>5. FlashTypeOK'
    BY <1>1, <1>6, <2>3 DEF Begin, FlashTypeOK, Keeps
  <2>6. ~checking /\ prog.waiting = None
    BY <1>1, <1>6 DEF Begin, ProgramInv
  <2>7. ProgramInv'
    BY <1>1, <1>2, <1>6, <2>2, <2>3, <2>4, <2>6 DEF Begin, ProgramInv
  <2>8. PagesInv'
    BY <1>1, <1>6, <2>3, ProgressLemma DEF Begin, PagesInv, PagesInOrder
  <2> QED BY <2>5, <2>7, <2>8 DEF FlashInv
<1>7. CASE LoopDelay
  <2> DEFINE p == [prog EXCEPT !.delayed = None]
             d == prog.delayed
             q == OnDelay(d, p)
  <2>1. Keeps(prog, p) /\ p.out = prog.out /\ p.waiting = prog.waiting /\ p.delayed = None
    BY <1>3 DEF Keeps, Programmer
  <2>2. stage = "running" /\ ~checking /\ d # None /\ d \in Delays /\ Transmit(q)
    BY <1>3, <1>7 DEF LoopDelay
  <2> HIDE DEF p
  <2>3. p \in Programmer /\ Progress(p, sent)
    BY <1>1, <2>1, <2>2, ProgressLemma DEF Keeps
  <2>4. NoPage(p.out)
    BY <1>1, <2>1 DEF ProgramInv, NoPage
  <2>5. /\ d = "flash" => p.waiting = None
        /\ d \in {"signature", "resync", "sync"} => p.waiting = "sync"
    BY <1>1, <2>1 DEF ProgramInv
  <2> HIDE DEF d
  <2>6. /\ Outcome(q)
        /\ d # "end" => Coherent(q)
        /\ d = "end" => q.delayed = None
    BY <2>1, <2>2, <2>3, <2>4, <2>5, OnDelayLemma
  <2> HIDE DEF q
  <2>7. /\ prog' \in Programmer /\ prog'.out = <<>> /\ ~prog'.reset
        /\ prog'.waiting = q.waiting /\ prog'.delayed = q.delayed
        /\ tx' \in Seq(Commands) /\ Len(tx') <= PortSize /\ boot' \in BOOLEAN
        /\ sent' \in Seq(Commands) /\ PagesInOrder' /\ Progress(prog', sent')
    BY <1>1, <2>2, <2>6, TransmitLemma
  <2>8. rx' \in Seq(Bytes)
    BY <1>1, <1>7 DEF LoopDelay, FlashTypeOK
  <2>9. /\ checking' = checking
        /\ IF d = "end" THEN stage' = "closing" /\ serialLoop' = TRUE
           ELSE stage' = stage /\ serialLoop' = serialLoop
    BY <1>7 DEF LoopDelay, d
  <2>10. FlashTypeOK'
    BY <1>1, <1>7, <2>7, <2>8, <2>9 DEF LoopDelay, FlashTypeOK
  <2>11. ProgramInv'
    BY <1>2, <2>2, <2>6, <2>7, <2>9 DEF ProgramInv, Coherent, Delays
  <2> QED BY <2>7, <2>10, <2>11 DEF FlashInv, PagesInv
<1>8. CASE LoopRead
  <2> DEFINE missing == Len(prog.expected) - Len(prog.response)
             complete == missing \in 1..Len(rx)
             n == IF complete THEN missing ELSE Len(rx)
             p == [prog EXCEPT !.response = @ \o SubSeq(rx, 1, n)]
  <2>1. PICK q \in (IF complete THEN {Answer(p)} \cup FileError(p) ELSE {p}) : Transmit(q)
    BY <1>8, Zenon DEF LoopRead
  <2>2. rx' = SubSeq(rx, n + 1, Len(rx))
    BY <1>8, Zenon DEF LoopRead
  <2>3. /\ stage = "running" /\ prog.delayed = None /\ checking'
        /\ UNCHANGED <<stage, serialLoop, address, flash, faults>>
    BY <1>8 DEF LoopRead
  <2>4. n \in Nat /\ n <= Len(rx) /\ rx \in Seq(Bytes) /\ prog.response \in Seq(Bytes)
    <3>1. rx \in Seq(Bytes) /\ prog.response \in Seq(Bytes) /\ prog.expected \in Seq(Bytes)
      BY <1>1 DEF FlashTypeOK, Programmer
    <3> QED BY <3>1
  <2> HIDE DEF n, complete
  <2>5. prog.response \o SubSeq(rx, 1, n) \in Seq(Bytes) /\ rx' \in Seq(Bytes)
    <3>1. SubSeq(rx, 1, n) \in Seq(Bytes)
      BY <2>4
    <3> QED BY <2>2, <2>4, <3>1
  <2>6. Keeps(prog, p) /\ p.out = prog.out /\ p.waiting = prog.waiting /\ p.delayed = None
    BY <1>3, <2>3, <2>5 DEF Keeps, Programmer
  <2> HIDE DEF p
  <2>7. p \in Programmer /\ Progress(p, sent) /\ p.out = <<>> /\ p.waiting # None
    BY <1>1, <2>3, <2>6, ProgressLemma DEF Keeps, ProgramInv
  <2>8. Outcome(q) /\ Coherent(q)
    <3>1. CASE complete
      BY <2>1, <2>6, <2>7, <3>1, AnswerLemma
    <3>2. CASE ~complete
      <4>1. q = p /\ NoPage(p.out)
        BY <2>1, <2>7, <3>2 DEF NoPage
      <4> QED BY <1>2, <2>6, <2>7, <4>1 DEF Outcome, Coherent, Delays
    <3> QED BY <3>1, <3>2
  <2>9. /\ prog' \in Programmer /\ prog'.out = <<>> /\ ~prog'.reset
        /\ prog'.waiting = q.waiting /\ prog'.delayed = q.delayed
        /\ tx' \in Seq(Commands) /\ Len(tx') <= PortSize /\ boot' \in BOOLEAN
        /\ sent' \in Seq(Commands) /\ PagesInOrder' /\ Progress(prog', sent')
    BY <1>1, <2>1, <2>8, TransmitLemma
  <2>10. checking' \in BOOLEAN
    BY <1>8 DEF LoopRead
  <2>11. FlashTypeOK'
    BY <1>1, <2>3, <2>5, <2>9, <2>10 DEF FlashTypeOK
  <2>12. ProgramInv'
    BY <2>3, <2>8, <2>9 DEF ProgramInv, Coherent
  <2> QED BY <2>9, <2>11, <2>12 DEF FlashInv, PagesInv
<1>9. CASE LoopCheck
  <2> DEFINE q == IF prog.deadline = "over" THEN OnFailure(prog) ELSE prog
  <2>1. /\ checking /\ ~checking' /\ checking' \in BOOLEAN /\ Transmit(q)
        /\ UNCHANGED <<stage, serialLoop, rx, address, flash, faults>>
    BY <1>9 DEF LoopCheck
  <2>2. /\ stage = "running" /\ prog.waiting # None /\ prog.out = <<>>
        /\ prog.delayed # "flash" /\ NoPage(prog.out)
        /\ prog.delayed \in {"signature", "resync", "sync"} => prog.waiting = "sync"
    BY <1>1, <2>1 DEF ProgramInv, NoPage
  <2>3. Outcome(prog) /\ Coherent(prog)
    BY <1>1, <1>3, <2>2 DEF Outcome, Coherent
  <2>4. Outcome(OnFailure(prog)) /\ Coherent(OnFailure(prog))
    BY <1>1, <1>3, <2>2, OnFailureLemma
  <2>5. Outcome(q) /\ Coherent(q)
    BY <2>3, <2>4
  <2> HIDE DEF q
  <2>6. /\ prog' \in Programmer /\ prog'.out = <<>> /\ ~prog'.reset
        /\ prog'.waiting = q.waiting /\ prog'.delayed = q.delayed
        /\ tx' \in Seq(Commands) /\ Len(tx') <= PortSize /\ boot' \in BOOLEAN
        /\ sent' \in Seq(Commands) /\ PagesInOrder' /\ Progress(prog', sent')
    BY <1>1, <2>1, <2>5, TransmitLemma
  <2>7. FlashTypeOK'
    BY <1>1, <2>1, <2>6 DEF FlashTypeOK
  <2>8. ProgramInv'
    BY <2>1, <2>2, <2>5, <2>6 DEF ProgramInv, Coherent
  <2> QED BY <2>6, <2>7, <2>8 DEF FlashInv, PagesInv
<1>10. CASE Expire
  <2>1. /\ prog' \in Programmer /\ prog'.out = prog.out /\ prog'.reset = prog.reset
        /\ prog'.waiting = prog.waiting /\ prog'.delayed = prog.delayed /\ Keeps(prog, prog')
    BY <1>3, <1>10 DEF Expire, Programmer, Keeps
  <2>2. FlashTypeOK'
    BY <1>1, <1>10, <2>1 DEF Expire, FlashTypeOK
  <2>3. ProgramInv'
    BY <1>1, <1>10, <2>1 DEF Expire, ProgramInv
  <2>4. PagesInv'
    <3>1. stage' = stage /\ sent' = sent
      BY <1>10 DEF Expire
    <3>2. stage # "none" => Progress(prog', sent)
      BY <1>1, <2>1, ProgressLemma
    <3> QED BY <1>1, <3>1, <3>2 DEF PagesInv, PagesInOrder
  <2> QED BY <2>2, <2>3, <2>4 DEF FlashInv
<1>11. CASE Cleanup
  <2>1. prog' = Fresh /\ stage' = "none" /\ ~checking
    BY <1>11 DEF Cleanup
  <2>2. /\ prog' \in Programmer /\ prog'.waiting = None /\ prog'.delayed = None
        /\ prog'.out = <<>> /\ ~prog'.reset
    BY <2>1, FreshLemma
  <2>3. FlashTypeOK'
    BY <1>1, <1>11, <2>2 DEF Cleanup, FlashTypeOK
  <2>4. ProgramInv'
    BY <1>2, <1>11, <2>1, <2>2 DEF Cleanup, ProgramInv, Delays
  <2>5. PagesInv'
    BY <1>1, <1>11 DEF Cleanup, PagesInv, PagesInOrder
  <2> QED BY <2>3, <2>4, <2>5 DEF FlashInv
<1>12. ASSUME UNCHANGED <<stage, serialLoop, checking, prog, sent>>,
              tx' \in Seq(Commands), Len(tx') <= PortSize, rx' \in Seq(Bytes),
              boot' \in BOOLEAN, address' \in Pages, flash' \in [Pages -> Records],
              faults' \in 0..MaxFaults
       PROVE  FlashInv'
  <2>1. FlashTypeOK'
    BY <1>1, <1>12 DEF FlashTypeOK
  <2>2. ProgramInv'
    BY <1>1, <1>12 DEF ProgramInv
  <2>3. PagesInv'
    BY <1>1, <1>12 DEF PagesInv, PagesInOrder
  <2> QED BY <2>1, <2>2, <2>3 DEF FlashInv
<1>13. /\ tx \in Seq(Commands) /\ Len(tx) <= PortSize /\ PortSize \in Nat /\ rx \in Seq(Bytes)
       /\ boot \in BOOLEAN /\ address \in Pages /\ flash \in [Pages -> Records]
       /\ faults \in 0..MaxFaults /\ MaxFaults \in Nat
  BY <1>1, RetriesAssumption DEF FlashTypeOK
<1>14. ASSUME tx # <<>>
       PROVE  Head(tx) \in Commands /\ Tail(tx) \in Seq(Commands) /\ Len(Tail(tx)) <= PortSize
  BY <1>13, <1>14
<1>15. ASSUME tx # <<>>, Obey(Head(tx))
       PROVE  address' \in Pages /\ flash' \in [Pages -> Records]
  <2>1. Head(tx).page \in Pages /\ Head(tx).data \in Records
    BY <1>14, <1>15 DEF Commands
  <2> QED BY <1>13, <1>15, <2>1 DEF Obey
<1>16. CASE TargetObeys
  <2>1. ReplyTo(Head(tx)) \in Seq(Bytes)
    <3>1. (IF Head(tx).data = {} THEN {} ELSE flash[address]) \in Records
      BY <1>13 DEF Records
    <3> QED BY <3>1, ByteLemma DEF ReplyTo
  <2>2. /\ tx # <<>> /\ Obey(Head(tx)) /\ tx' = Tail(tx)
        /\ rx' = IF stage = "running" THEN rx \o ReplyTo(Head(tx)) ELSE rx
        /\ UNCHANGED <<stage, serialLoop, checking, prog, boot, faults, sent>>
    BY <1>16 DEF TargetObeys
  <2>3. rx' \in Seq(Bytes)
    BY <1>13, <2>1, <2>2
  <2> QED BY <1>12, <1>13, <1>14, <1>15, <2>2, <2>3
<1>17. CASE TargetIgnores
  BY <1>12, <1>13, <1>14, <1>17 DEF TargetIgnores
<1>18. CASE Fault
  <2>1. /\ UNCHANGED <<stage, serialLoop, checking, prog, sent>>
        /\ faults' \in 0..MaxFaults
    BY <1>13, <1>18 DEF Fault
  <2>2. /\ InSync \in Seq(Bytes) /\ <<Byte("other")>> \in Seq(Bytes)
    <3>1. Byte("other") \in Bytes
      BY DEF Byte, Bytes, Records
    <3> QED BY <3>1, ByteLemma
  <2>3. CASE /\ tx # <<>> /\ boot
             /\ Obey(Head(tx)) \/ UNCHANGED <<address, flash>>
             /\ tx' = Tail(tx)
             /\ UNCHANGED <<rx, boot>>
    BY <1>12, <1>13, <1>14, <1>15, <2>1, <2>3
  <2>4. CASE /\ tx # <<>> /\ boot
             /\ Head(tx).cmd = "program" /\ Head(tx).data # {}
             /\ flash' = [flash EXCEPT ![address] = {0}]
             /\ rx' = rx \o InSync
             /\ tx' = Tail(tx)
             /\ UNCHANGED <<boot, address>>
    <3>1. {0} \in Records
      BY FileLemma DEF Records
    <3>2. flash' \in [Pages -> Records] /\ rx' \in Seq(Bytes)
      BY <1>13, <2>2, <2>4, <3>1
    <3> QED BY <1>12, <1>13, <1>14, <2>1, <2>4, <3>2
  <2>5. CASE /\ \E bytes \in {InSync, <<Byte("other")>>} : rx' = rx \o bytes
             /\ UNCHANGED <<tx, boot, address, flash>>
    <3>1. rx' \in Seq(Bytes)
      BY <1>13, <2>2, <2>5
    <3> QED BY <1>12, <1>13, <2>1, <2>5, <3>1
  <2>6. CASE boot /\ boot' = FALSE /\ UNCHANGED <<tx, rx, address, flash>>
    BY <1>12, <1>13, <2>1, <2>6
  <2> QED BY <1>18, <2>3, <2>4, <2>5, <2>6 DEF Fault
<1> QED BY <1>4, <1>5, <1>6, <1>7, <1>8, <1>9, <1>10, <1>11, <1>16, <1>17, <1>18
        DEF FlashNext, Loop

(* The programmer's members, the commands and the answers are of their     *)
(* types, whatever the target does and however long the file is.           *)
THEOREM FlashTypeCorrect == FlashSpec => []FlashTypeOK
<1>1. FlashInv => FlashTypeOK
  BY DEF FlashInv
<1> QED BY <1>1, FlashInitLemma, FlashStepLemma, PTL DEF FlashSpec

(* Every page of the file is sent once, complete and in ascending order,   *)
(* for every file, whatever is lost, late or garbled.                      *)
THEOREM PagesAreSentInOrder == FlashSpec => []PagesInOrder
<1>1. FlashInv => PagesInOrder
  BY DEF FlashInv, PagesInv
<1> QED BY <1>1, FlashInitLemma, FlashStepLemma, PTL DEF FlashSpec
=============================================================================
