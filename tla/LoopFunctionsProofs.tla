------------------------- MODULE LoopFunctionsProofs -------------------------
(***************************************************************************)
(* Theorems about LoopFunctions for every set of loop functions: the       *)
(* vector is sound, and the walk by index implements a round of Listeners. *)
(***************************************************************************)
EXTENDS LoopFunctions, SequenceTheorems, TLAPS

(***************************************************************************)
(* The inductive invariant.  The walk has passed the entries before its    *)
(* index and the one it is calling.  Of those it has called all that       *)
(* stayed, and of the others none; a function that has been called keeps   *)
(* its entry behind the index, so that add() revives it there instead of   *)
(* appending a second one.  Only restartDevice() takes entries away from   *)
(* under the walk, and it happens once.                                    *)
(***************************************************************************)
Passed(k) == k < i \/ (k = i /\ running # None)

WalkSound ==
    \A k \in DOMAIN functions :
        IF Passed(k) THEN functions[k].ptr \in stayed => functions[k].ptr \in called
                     ELSE functions[k].ptr \notin called

CalledStay ==
    \A f \in called : \E k \in DOMAIN functions : Passed(k) /\ functions[k].ptr = f

NoRestartYet ==
    /\ RestartFunction \notin wanted \cup called
    /\ \A k \in DOMAIN functions : functions[k].ptr # RestartFunction

IInv ==
    /\ TypeOK
    /\ VectorSound
    /\ running # None => i # 0
    /\ i # 0 => WalkSound
    /\ ~restarting => NoRestartYet
    /\ i # 0 /\ ~restarting => CalledStay

Entries == [ptr : AllFunctions, deleted : BOOLEAN]

(* No function has two entries.                                            *)
Distinct ==
    \A j, k \in DOMAIN functions : functions[j].ptr = functions[k].ptr => j = k

-----------------------------------------------------------------------------
(* vector::erase takes out one element and keeps the others in order.      *)
LEMMA RemoveAtLemma ==
    ASSUME NEW S, NEW s \in Seq(S), NEW k \in 1..Len(s)
    PROVE  /\ RemoveAt(s, k) \in Seq(S)
           /\ Len(RemoveAt(s, k)) = Len(s) - 1
           /\ \A n \in 1..(Len(s) - 1) :
                 RemoveAt(s, k)[n] = IF n < k THEN s[n] ELSE s[n + 1]
<1> DEFINE a == SubSeq(s, 1, k - 1)
           b == SubSeq(s, k + 1, Len(s))
<1>1. /\ a \in Seq(S) /\ Len(a) = k - 1
      /\ \A n \in 1..(k - 1) : a[n] = s[n]
  OBVIOUS
<1>2. /\ b \in Seq(S) /\ Len(b) = Len(s) - k
      /\ \A n \in 1..(Len(s) - k) : b[n] = s[k + n]
  <2>1. CASE k = Len(s)
    BY <2>1
  <2>2. CASE k < Len(s)
    BY <2>2, SubSeqProperties
  <2> QED BY <2>1, <2>2
<1> HIDE DEF a, b
<1>3. /\ a \o b \in Seq(S) /\ Len(a \o b) = Len(s) - 1
      /\ \A n \in 1..(Len(s) - 1) : (a \o b)[n] = IF n <= k - 1 THEN a[n] ELSE b[n - (k - 1)]
  <2>1. /\ a \o b \in Seq(S) /\ Len(a \o b) = Len(a) + Len(b)
        /\ \A n \in 1..(Len(a) + Len(b)) :
              (a \o b)[n] = IF n <= Len(a) THEN a[n] ELSE b[n - Len(a)]
    BY <1>1, <1>2, ConcatProperties
  <2> QED BY <1>1, <1>2, <2>1
<1>4. ASSUME NEW n \in 1..(Len(s) - 1)
      PROVE  (a \o b)[n] = IF n < k THEN s[n] ELSE s[n + 1]
  <2>1. CASE n < k
    BY <1>1, <1>3, <2>1
  <2>2. CASE ~(n < k)
    <3>1. n - (k - 1) \in 1..(Len(s) - k) /\ k + (n - (k - 1)) = n + 1
      BY <2>2
    <3> QED BY <1>2, <1>3, <2>2, <3>1
  <2> QED BY <2>1, <2>2
<1> QED BY <1>3, <1>4 DEF RemoveAt, a, b

(* The entries carry distinct pointers.                                    *)
LEMMA DistinctLemma ==
    IsInjective([k \in DOMAIN functions |-> functions[k].ptr]) <=> Distinct
  BY DEF IsInjective, Distinct

(* The functions the walk has still to call are the wanted ones.           *)
LEMMA UnmarkedLemma ==
    /\ VectorSound => Unmarked = wanted
    /\ VectorSound' => Unmarked' = wanted'
<1>1. ASSUME VectorSound PROVE Unmarked = wanted
  BY <1>1 DEF VectorSound, Unmarked
<1>2. ASSUME VectorSound' PROVE Unmarked' = wanted'
  BY <1>2 DEF VectorSound, Unmarked
<1> QED BY <1>1, <1>2

-----------------------------------------------------------------------------
LEMMA InitStep == Init => IInv
<1> SUFFICES ASSUME Init PROVE IInv
  OBVIOUS
<1>1. functions = <<>> /\ DOMAIN functions = {}
  BY DEF Init
<1>2. TypeOK
  <2>1. <<>> \in Seq([ptr : AllFunctions, deleted : BOOLEAN])
    OBVIOUS
  <2> QED BY <2>1 DEF Init, TypeOK
<1>3. VectorSound
  BY <1>1 DEF Init, VectorSound, IsInjective
<1>4. NoRestartYet
  BY <1>1 DEF Init, NoRestartYet
<1> QED BY <1>2, <1>3, <1>4 DEF IInv, Init

(* What the walk knows is about pointers: marking changes none of it.      *)
LEMMA SamePointersStep ==
    ASSUME IInv, functions' \in Seq(Entries),
           DOMAIN functions' = DOMAIN functions,
           \A k \in DOMAIN functions : functions'[k].ptr = functions[k].ptr,
           stayed' \subseteq stayed, RestartFunction \in wanted' => RestartFunction \in wanted,
           UNCHANGED <<i, running, restarting, called>>
    PROVE  /\ Distinct'
           /\ running' # None => i' # 0
           /\ i' # 0 => WalkSound'
           /\ ~restarting' => NoRestartYet'
           /\ i' # 0 /\ ~restarting' => CalledStay'
<1>1. Distinct
  BY DistinctLemma DEF IInv, VectorSound
<1>2. Distinct'
  BY <1>1 DEF Distinct
<1>3. ASSUME NEW k PROVE Passed(k)' <=> Passed(k)
  BY DEF Passed
<1>4. i' # 0 => WalkSound'
  <2>1. ASSUME WalkSound PROVE WalkSound'
    BY <1>3, <2>1 DEF WalkSound
  <2> QED BY <2>1 DEF IInv
<1>5. ~restarting' => NoRestartYet'
  BY DEF IInv, NoRestartYet
<1>6. i' # 0 /\ ~restarting' => CalledStay'
  <2>1. ASSUME CalledStay PROVE CalledStay'
    BY <1>3, <2>1 DEF CalledStay
  <2> QED BY <2>1 DEF IInv
<1> QED BY <1>2, <1>4, <1>5, <1>6 DEF IInv

(* LoopFunctions::add of a function that has an entry revives it.          *)
LEMMA ReviveStep ==
    ASSUME IInv, NEW f \in Functions, Add(f), Entry(f) # {}
    PROVE  IInv'
<1>1. /\ functions \in Seq(Entries)
      /\ functions' = [k \in DOMAIN functions |->
                IF k \in Entry(f) THEN [functions[k] EXCEPT !.deleted = FALSE]
                                  ELSE functions[k]]
      /\ wanted' = wanted \cup {f}
      /\ UNCHANGED <<i, running, restarting, stayed, called>>
  BY DEF IInv, TypeOK, Entries, Add
<1>2. /\ functions' \in Seq(Entries)
      /\ DOMAIN functions' = DOMAIN functions
      /\ \A k \in DOMAIN functions :
            /\ functions'[k].ptr = functions[k].ptr
            /\ ~functions'[k].deleted <=> functions[k].ptr = f \/ ~functions[k].deleted
  <2>1. ASSUME NEW k \in DOMAIN functions
        PROVE  /\ functions'[k] \in Entries
               /\ functions'[k].ptr = functions[k].ptr
               /\ ~functions'[k].deleted <=> functions[k].ptr = f \/ ~functions[k].deleted
    <3>1. functions[k] \in Entries
      BY <1>1
    <3>2. CASE k \in Entry(f)
      BY <1>1, <3>1, <3>2 DEF Entries, Entry
    <3>3. CASE k \notin Entry(f)
      BY <1>1, <3>1, <3>3 DEF Entries, Entry
    <3> QED BY <3>2, <3>3
  <2>2. DOMAIN functions = 1..Len(functions) /\ Len(functions) \in Nat
    BY <1>1
  <2>3. DOMAIN functions' = 1..Len(functions)
    BY <1>1, <2>2
  <2>4. functions' \in [1..Len(functions) -> Entries]
    BY <1>1, <2>1, <2>2
  <2> QED BY <2>1, <2>2, <2>3, <2>4, SeqDef
<1>3. f # RestartFunction
  BY FunctionsAssumption
<1>4. /\ Distinct'
      /\ running' # None => i' # 0
      /\ i' # 0 => WalkSound'
      /\ ~restarting' => NoRestartYet'
      /\ i' # 0 /\ ~restarting' => CalledStay'
  BY <1>1, <1>2, <1>3, SamePointersStep
<1>5. TypeOK'
  BY <1>1, <1>2 DEF IInv, TypeOK, Entries, AllFunctions
<1>6. VectorSound'
  <2>1. ASSUME NEW k \in DOMAIN functions'
        PROVE  ~functions'[k].deleted <=> functions'[k].ptr \in wanted'
    <3>1. ~functions[k].deleted <=> functions[k].ptr \in wanted
      BY <1>2 DEF IInv, VectorSound
    <3> QED BY <1>1, <1>2, <3>1
  <2>2. ASSUME NEW g \in wanted' PROVE \E k \in DOMAIN functions' : functions'[k].ptr = g
    BY <1>1, <1>2 DEF IInv, VectorSound, Entry
  <2> QED BY <1>4, <2>1, <2>2, DistinctLemma DEF VectorSound, IsInjective, Distinct
<1> QED BY <1>4, <1>5, <1>6 DEF IInv

(* LoopFunctions::add of a function that has none appends it.              *)
LEMMA AppendStep ==
    ASSUME IInv, NEW f \in Functions, Add(f), Entry(f) = {}
    PROVE  IInv'
<1> DEFINE n == Len(functions) + 1
<1>1. /\ functions \in Seq(Entries)
      /\ functions' = Append(functions, [ptr |-> f, deleted |-> FALSE])
      /\ wanted' = wanted \cup {f}
      /\ UNCHANGED <<i, running, restarting, stayed, called>>
      /\ ~restarting
  BY DEF IInv, TypeOK, Entries, Add, UserCode
<1>2. /\ functions' \in Seq(Entries) /\ DOMAIN functions' = 1..n /\ n \in Nat
      /\ \A k \in DOMAIN functions : k # n /\ k \in 1..n /\ functions'[k] = functions[k]
      /\ functions'[n].ptr = f /\ functions'[n].deleted = FALSE
      /\ n \notin DOMAIN functions /\ 1..n = DOMAIN functions \cup {n}
      /\ \A k \in DOMAIN functions : k < n
  BY <1>1 DEF Entries, AllFunctions
<1> HIDE DEF n
<1>3. f # RestartFunction
  BY FunctionsAssumption
<1>4. \A k \in DOMAIN functions : functions[k].ptr # f
  BY DEF Entry
<1>5. Distinct /\ Distinct'
  <2>1. Distinct
    BY DistinctLemma DEF IInv, VectorSound
  <2> QED BY <1>2, <1>4, <2>1 DEF Distinct
<1>6. TypeOK'
  BY <1>1, <1>2 DEF IInv, TypeOK, Entries, AllFunctions
<1>7. VectorSound'
  <2>1. \A k \in DOMAIN functions' : ~functions'[k].deleted <=> functions'[k].ptr \in wanted'
    BY <1>1, <1>2, <1>4 DEF IInv, VectorSound
  <2>2. ASSUME NEW g \in wanted' PROVE \E k \in DOMAIN functions' : functions'[k].ptr = g
    <3>1. CASE g = f
      BY <1>2, <3>1
    <3>2. CASE g \in wanted
      <4>1. PICK k \in DOMAIN functions : functions[k].ptr = g
        BY <3>2 DEF IInv, VectorSound
      <4> QED BY <1>2, <4>1
    <3> QED BY <1>1, <3>1, <3>2
  <2> QED BY <1>5, <2>1, <2>2, DistinctLemma DEF VectorSound, IsInjective, Distinct
<1>8. ASSUME NEW k PROVE Passed(k)' <=> Passed(k)
  BY <1>1 DEF Passed
<1>9. ASSUME i # 0 PROVE WalkSound' /\ CalledStay'
  <2>1. WalkSound /\ CalledStay
    BY <1>1, <1>9 DEF IInv
  <2>2. f \notin called /\ f \notin stayed
    BY <1>4, <2>1 DEF CalledStay, IInv, TypeOK, VectorSound
  <2>3. WalkSound'
    BY <1>1, <1>2, <1>8, <2>1, <2>2 DEF WalkSound
  <2>4. CalledStay'
    BY <1>1, <1>2, <1>8, <2>1 DEF CalledStay
  <2> QED BY <2>3, <2>4
<1>10. NoRestartYet'
  <2>1. NoRestartYet
    BY <1>1 DEF IInv
  <2> QED BY <1>1, <1>2, <1>3, <2>1 DEF NoRestartYet
<1> QED BY <1>1, <1>6, <1>7, <1>9, <1>10 DEF IInv

(* LoopFunctions::remove marks the entry and leaves it in the vector.      *)
LEMMA RemoveStep ==
    ASSUME IInv, NEW f \in Functions, Remove1(f)
    PROVE  IInv'
<1>1. /\ functions \in Seq(Entries)
      /\ functions' = [k \in DOMAIN functions |->
                IF k \in Entry(f) THEN [functions[k] EXCEPT !.deleted = TRUE]
                                  ELSE functions[k]]
      /\ wanted' = wanted \ {f} /\ stayed' = stayed \ {f}
      /\ UNCHANGED <<i, running, restarting, called>>
  BY DEF IInv, TypeOK, Entries, Remove1
<1>2. /\ functions' \in Seq(Entries)
      /\ DOMAIN functions' = DOMAIN functions
      /\ \A k \in DOMAIN functions :
            /\ functions'[k].ptr = functions[k].ptr
            /\ ~functions'[k].deleted <=> functions[k].ptr # f /\ ~functions[k].deleted
  <2>1. ASSUME NEW k \in DOMAIN functions
        PROVE  /\ functions'[k] \in Entries
               /\ functions'[k].ptr = functions[k].ptr
               /\ ~functions'[k].deleted <=> functions[k].ptr # f /\ ~functions[k].deleted
    <3>1. functions[k] \in Entries
      BY <1>1
    <3>2. CASE k \in Entry(f)
      BY <1>1, <3>1, <3>2 DEF Entries, Entry
    <3>3. CASE k \notin Entry(f)
      BY <1>1, <3>1, <3>3 DEF Entries, Entry
    <3> QED BY <3>2, <3>3
  <2>2. DOMAIN functions = 1..Len(functions) /\ Len(functions) \in Nat
    BY <1>1
  <2>3. DOMAIN functions' = 1..Len(functions)
    BY <1>1, <2>2
  <2>4. functions' \in [1..Len(functions) -> Entries]
    BY <1>1, <2>1, <2>2
  <2> QED BY <2>1, <2>2, <2>3, <2>4, SeqDef
<1>3. /\ Distinct'
      /\ running' # None => i' # 0
      /\ i' # 0 => WalkSound'
      /\ ~restarting' => NoRestartYet'
      /\ i' # 0 /\ ~restarting' => CalledStay'
  BY <1>1, <1>2, SamePointersStep
<1>4. TypeOK'
  BY <1>1, <1>2 DEF IInv, TypeOK, Entries
<1>5. VectorSound'
  <2>1. ASSUME NEW k \in DOMAIN functions'
        PROVE  ~functions'[k].deleted <=> functions'[k].ptr \in wanted'
    <3>1. ~functions[k].deleted <=> functions[k].ptr \in wanted
      BY <1>2 DEF IInv, VectorSound
    <3> QED BY <1>1, <1>2, <3>1
  <2>2. ASSUME NEW g \in wanted' PROVE \E k \in DOMAIN functions' : functions'[k].ptr = g
    BY <1>1, <1>2 DEF IInv, VectorSound
  <2> QED BY <1>3, <2>1, <2>2, DistinctLemma DEF VectorSound, IsInjective, Distinct
<1> QED BY <1>3, <1>4, <1>5 DEF IInv

(* restartDevice() leaves restart_device alone in the vector, which the    *)
(* walk that is under way, if any, has not called.                         *)
LEMMA RestartStep == IInv /\ RestartDevice => IInv'
<1> SUFFICES ASSUME IInv, RestartDevice PROVE IInv'
  OBVIOUS
<1>1. /\ functions' = <<[ptr |-> RestartFunction, deleted |-> FALSE]>>
      /\ restarting' = TRUE /\ wanted' = {RestartFunction} /\ stayed' = {}
      /\ UNCHANGED <<i, running, called>>
      /\ ~restarting /\ (i = 0 \/ running # None)
  BY DEF RestartDevice, UserCode
<1>2. /\ DOMAIN functions' = {1}
      /\ functions'[1].ptr = RestartFunction /\ functions'[1].deleted = FALSE
  BY <1>1
<1>3. TypeOK'
  <2>1. [ptr |-> RestartFunction, deleted |-> FALSE] \in [ptr : AllFunctions, deleted : BOOLEAN]
    BY DEF AllFunctions
  <2>2. functions' \in Seq([ptr : AllFunctions, deleted : BOOLEAN])
    BY <1>1, <2>1
  <2> QED BY <1>1, <2>2 DEF IInv, TypeOK, AllFunctions
<1>4. VectorSound'
  BY <1>1, <1>2 DEF VectorSound, IsInjective
<1>5. RestartFunction \notin called'
  BY <1>1 DEF IInv, NoRestartYet
<1>6. i' # 0 => WalkSound'
  BY <1>1, <1>2, <1>5 DEF WalkSound
<1> QED BY <1>1, <1>3, <1>4, <1>6 DEF IInv

-----------------------------------------------------------------------------
LEMMA LoopStartStep == IInv /\ LoopStart => IInv'
<1> SUFFICES ASSUME IInv, LoopStart PROVE IInv'
  OBVIOUS
<1>1. /\ i = 0 /\ i' = 1 /\ stayed' = wanted /\ called' = {}
      /\ UNCHANGED <<functions, running, restarting, wanted>>
      /\ running = None
  BY DEF LoopStart, IInv
<1>2. TypeOK'
  BY <1>1 DEF IInv, TypeOK
<1>3. VectorSound'
  BY <1>1 DEF IInv, VectorSound
<1>4. WalkSound' /\ CalledStay'
  <2>1. \A k \in DOMAIN functions' : ~Passed(k)'
    BY <1>1 DEF IInv, TypeOK, Passed
  <2> QED BY <1>1, <2>1 DEF WalkSound, CalledStay
<1>5. ~restarting' => NoRestartYet'
  BY <1>1 DEF IInv, NoRestartYet
<1> QED BY <1>1, <1>2, <1>3, <1>4, <1>5 DEF IInv

(* The walk erases an entry nobody wants: the others keep their order, so  *)
(* that the entries before the index are still those it has passed.        *)
LEMMA EraseStep == IInv /\ Erase => IInv' /\ Unmarked' = Unmarked
<1> SUFFICES ASSUME IInv, Erase PROVE IInv' /\ Unmarked' = Unmarked
  OBVIOUS
<1> DEFINE n == Len(functions)
           old(k) == IF k < i THEN k ELSE k + 1
<1>1. /\ functions \in Seq(Entries) /\ i \in 1..n /\ n \in Nat
      /\ functions' = RemoveAt(functions, i) /\ functions[i].deleted /\ running = None
      /\ UNCHANGED <<i, running, restarting, wanted, stayed, called>>
  BY DEF IInv, TypeOK, Entries, Erase, AtEntry
<1>2. /\ functions' \in Seq(Entries) /\ DOMAIN functions' = 1..(n - 1)
      /\ \A k \in 1..(n - 1) : functions'[k] = functions[old(k)]
  <2>1. /\ functions' \in Seq(Entries) /\ Len(functions') = n - 1
        /\ \A k \in 1..(n - 1) :
              functions'[k] = IF k < i THEN functions[k] ELSE functions[k + 1]
    BY <1>1, RemoveAtLemma
  <2> QED BY <1>1, <2>1
<1>3. DOMAIN functions = 1..n
  BY <1>1
<1> HIDE DEF n
<1>4. /\ \A k \in 1..(n - 1) : old(k) \in 1..n /\ (Passed(k)' <=> Passed(old(k)))
      /\ \A j, k \in 1..(n - 1) : old(j) = old(k) => j = k
      /\ \A k \in 1..n : k # i => \E j \in 1..(n - 1) : k = old(j)
  <2>1. \A k \in 1..(n - 1) : old(k) \in 1..n /\ (Passed(k)' <=> Passed(old(k)))
    BY <1>1 DEF Passed
  <2>2. \A j, k \in 1..(n - 1) : old(j) = old(k) => j = k
    BY <1>1
  <2>3. ASSUME NEW k \in 1..n, k # i PROVE \E j \in 1..(n - 1) : k = old(j)
    <3>1. CASE k < i
      BY <1>1, <3>1
    <3>2. CASE k > i
      <4>1. k - 1 \in 1..(n - 1) /\ k = old(k - 1)
        BY <1>1, <3>2
      <4> QED BY <4>1
    <3> QED BY <1>1, <2>3, <3>1, <3>2
  <2> QED BY <2>1, <2>2, <2>3
<1> HIDE DEF old
<1>5. Distinct /\ Distinct'
  <2>1. Distinct
    BY DistinctLemma DEF IInv, VectorSound
  <2> QED BY <1>2, <1>3, <1>4, <2>1 DEF Distinct
<1>6. TypeOK'
  BY <1>1, <1>2 DEF IInv, TypeOK, Entries
<1>7. functions[i].ptr \notin wanted
  BY <1>1, <1>3 DEF IInv, VectorSound
<1>8. VectorSound'
  <2>1. \A k \in DOMAIN functions' : ~functions'[k].deleted <=> functions'[k].ptr \in wanted'
    BY <1>1, <1>2, <1>3, <1>4 DEF IInv, VectorSound
  <2>2. ASSUME NEW g \in wanted' PROVE \E k \in DOMAIN functions' : functions'[k].ptr = g
    <3>1. PICK k \in 1..n : functions[k].ptr = g
      BY <1>1, <1>3 DEF IInv, VectorSound
    <3>2. PICK j \in 1..(n - 1) : k = old(j)
      BY <1>1, <1>4, <1>7, <3>1
    <3> QED BY <1>2, <3>1, <3>2
  <2> QED BY <1>5, <2>1, <2>2, DistinctLemma DEF VectorSound, IsInjective, Distinct
<1>9. WalkSound'
  <2>1. WalkSound
    BY <1>1 DEF IInv
  <2> QED BY <1>1, <1>2, <1>3, <1>4, <2>1 DEF WalkSound
<1>10. ASSUME ~restarting PROVE NoRestartYet' /\ CalledStay'
  <2>1. NoRestartYet /\ CalledStay
    BY <1>1, <1>10 DEF IInv
  <2>2. NoRestartYet'
    BY <1>1, <1>2, <1>3, <1>4, <2>1 DEF NoRestartYet
  <2>3. ASSUME NEW f \in called'
        PROVE  \E k \in DOMAIN functions' : Passed(k)' /\ functions'[k].ptr = f
    <3>1. PICK k \in 1..n : Passed(k) /\ functions[k].ptr = f
      BY <1>1, <1>3, <2>1 DEF CalledStay
    <3>2. k # i
      BY <1>1, <3>1 DEF Passed
    <3>3. PICK j \in 1..(n - 1) : k = old(j)
      BY <1>4, <3>2
    <3> QED BY <1>2, <1>4, <3>1, <3>3
  <2> QED BY <2>2, <2>3 DEF CalledStay
<1>11. Unmarked' = Unmarked
  BY <1>1, <1>8, UnmarkedLemma DEF IInv
<1> QED BY <1>1, <1>6, <1>8, <1>9, <1>10, <1>11 DEF IInv

LEMMA CallStep == IInv /\ Call => IInv'
<1> SUFFICES ASSUME IInv, Call PROVE IInv'
  OBVIOUS
<1>1. /\ running = None /\ i \in DOMAIN functions /\ ~functions[i].deleted
      /\ running' = functions[i].ptr /\ called' = called \cup {functions[i].ptr}
      /\ UNCHANGED <<functions, i, restarting, wanted, stayed>>
  BY DEF Call, AtEntry
<1>2. /\ functions \in Seq(Entries) /\ i \in Nat /\ i # 0
      /\ functions[i].ptr \in AllFunctions /\ functions[i].ptr # None
  <2>1. functions \in Seq(Entries)
    BY DEF IInv, TypeOK, Entries
  <2>2. functions[i] \in Entries /\ i \in 1..Len(functions) /\ Len(functions) \in Nat
    BY <1>1, <2>1
  <2> QED BY <2>1, <2>2, FunctionsAssumption DEF Entries, AllFunctions
<1>3. Distinct
  BY DistinctLemma DEF IInv, VectorSound
<1>4. TypeOK'
  BY <1>1, <1>2 DEF IInv, TypeOK
<1>5. VectorSound'
  BY <1>1 DEF IInv, VectorSound
<1>6. \A k \in DOMAIN functions : Passed(k)' <=> Passed(k) \/ k = i
  BY <1>1, <1>2 DEF Passed
<1>7. WalkSound'
  <2>1. WalkSound
    BY <1>2 DEF IInv
  <2> QED BY <1>1, <1>3, <1>6, <2>1 DEF WalkSound, Distinct
<1>8. ASSUME ~restarting PROVE NoRestartYet' /\ CalledStay'
  <2>1. NoRestartYet /\ CalledStay
    BY <1>2, <1>8 DEF IInv
  <2>2. NoRestartYet'
    BY <1>1, <2>1 DEF NoRestartYet
  <2>3. CalledStay'
    BY <1>1, <1>6, <2>1 DEF CalledStay
  <2> QED BY <2>2, <2>3
<1> QED BY <1>1, <1>2, <1>4, <1>5, <1>7, <1>8 DEF IInv

LEMMA ReturnStep == IInv /\ Return => IInv'
<1> SUFFICES ASSUME IInv, Return PROVE IInv'
  OBVIOUS
<1>1. /\ running # None /\ running' = None /\ i' = i + 1
      /\ UNCHANGED <<functions, restarting, wanted, stayed, called>>
      /\ i \in Nat /\ i # 0
  BY DEF Return, IInv, TypeOK
<1>2. DOMAIN functions \subseteq Nat
  BY DEF IInv, TypeOK
<1>3. \A k \in DOMAIN functions : Passed(k)' <=> Passed(k)
  BY <1>1, <1>2 DEF Passed
<1>4. TypeOK'
  BY <1>1 DEF IInv, TypeOK
<1>5. VectorSound'
  BY <1>1 DEF IInv, VectorSound
<1>6. WalkSound'
  BY <1>1, <1>3 DEF IInv, WalkSound
<1>7. ~restarting' => NoRestartYet' /\ CalledStay'
  BY <1>1, <1>3 DEF IInv, NoRestartYet, CalledStay
<1> QED BY <1>1, <1>4, <1>5, <1>6, <1>7 DEF IInv

LEMMA LoopEndStep == IInv /\ LoopEnd => IInv'
<1> SUFFICES ASSUME IInv, LoopEnd PROVE IInv'
  OBVIOUS
<1>1. /\ running = None /\ i' = 0
      /\ UNCHANGED <<functions, running, restarting, wanted, stayed, called>>
  BY DEF LoopEnd
<1>2. TypeOK' /\ VectorSound'
  BY <1>1 DEF IInv, TypeOK, VectorSound
<1>3. ~restarting' => NoRestartYet'
  BY <1>1 DEF IInv, NoRestartYet
<1> QED BY <1>1, <1>2, <1>3 DEF IInv

LEMMA NextStep == IInv /\ [Next]_vars => IInv'
<1> SUFFICES ASSUME IInv, [Next]_vars PROVE IInv'
  OBVIOUS
<1>1. ASSUME NEW f \in Functions, Add(f) PROVE IInv'
  BY <1>1, ReviveStep, AppendStep
<1>2. ASSUME NEW f \in Functions, Remove1(f) PROVE IInv'
  BY <1>2, RemoveStep
<1>3. CASE UNCHANGED vars
  BY <1>3 DEF vars, IInv, TypeOK, VectorSound, WalkSound, Passed, NoRestartYet, CalledStay
<1> QED BY <1>1, <1>2, <1>3, RestartStep, LoopStartStep, EraseStep, CallStep, ReturnStep,
           LoopEndStep DEF Next, Loop

LEMMA Invariant == Spec => []IInv
  BY InitStep, NextStep, PTL DEF Spec

-----------------------------------------------------------------------------
(* The variables of LoopFunctions never leave their types.                 *)
THEOREM TypeCorrect == Spec => []TypeOK
<1>1. IInv => TypeOK
  BY DEF IInv
<1> QED BY <1>1, Invariant, PTL

(* LoopFunctions::add and remove, from anywhere and at any time, and the   *)
(* walk of loop(): the vector holds the wanted functions, each once.       *)
THEOREM VectorIsSound == Spec => []VectorSound
<1>1. IInv => VectorSound
  BY DEF IInv
<1> QED BY <1>1, Invariant, PTL

(* The walk by index is a round of Listeners, "do not use iterators since  *)
(* the vector can be modifed inside the callback" (kfc_firmware.cpp:355):  *)
(* every behaviour calls all that stayed, none twice, none after its       *)
(* removal.  Marking and unmarking map to a change of who listens, erasing *)
(* to a stutter; that rounds never stop needs fairness and is left to TLC. *)
THEOREM WalkIsSafe == Spec => Walk!Spec
<1>1. Init => Walk!Init
  BY DEF Init, Walk!Init, Unmarked
<1>2. IInv /\ IInv' /\ [Next]_vars => [Walk!Next]_Walk!vars
  <2> SUFFICES ASSUME IInv, IInv', [Next]_vars
               PROVE  Walk!Next \/ Walk!vars' = Walk!vars
    OBVIOUS
  <2>1. Unmarked = wanted /\ Unmarked' = wanted'
    BY UnmarkedLemma DEF IInv
  <2>2. /\ wanted' \subseteq AllFunctions /\ stayed \subseteq wanted
        /\ stayed' \subseteq wanted' /\ i \in Nat /\ i' \in Nat
        /\ running # None => i # 0
    BY DEF IInv, TypeOK
  <2>3. ASSUME UserCode, UNCHANGED <<i, running, called>>,
               stayed' = stayed \cap wanted'
        PROVE  Walk!Change
    BY <2>1, <2>2, <2>3 DEF UserCode, Walk!Change
  <2>4. ASSUME NEW f \in Functions, Add(f) PROVE Walk!Change
    BY <2>2, <2>3, <2>4 DEF Add
  <2>5. ASSUME NEW f \in Functions, Remove1(f) PROVE Walk!Change
    BY <2>2, <2>3, <2>5 DEF Remove1
  <2>6. CASE RestartDevice
    <3>1. RestartFunction \notin stayed
      BY <2>2, <2>6 DEF RestartDevice, UserCode, IInv, NoRestartYet
    <3> QED BY <2>3, <2>6, <3>1 DEF RestartDevice, Walk!Next
  <2>7. CASE LoopStart
    <3>1. Walk!Start
      BY <2>1, <2>2, <2>7 DEF LoopStart, Walk!Start
    <3> QED BY <3>1 DEF Walk!Next, Walk!Round
  <2>8. CASE Erase
    BY <2>8, EraseStep DEF Erase, Walk!vars
  <2>9. CASE Call
    <3>1. /\ i # 0 /\ running = None /\ running' = functions[i].ptr
          /\ i \in DOMAIN functions /\ ~functions[i].deleted
          /\ called' = called \cup {functions[i].ptr}
          /\ UNCHANGED <<functions, i, restarting, wanted, stayed>>
      BY <2>9 DEF Call, AtEntry, IInv, TypeOK
    <3>2. functions[i].ptr \notin called
      <4>1. ~Passed(i) /\ WalkSound
        BY <2>2, <3>1 DEF IInv, Passed
      <4> QED BY <3>1, <4>1 DEF WalkSound
    <3>3. functions[i].ptr \in AllFunctions /\ functions[i].ptr \in Unmarked
      BY <2>1, <2>2, <3>1 DEF Unmarked
    <3>4. Walk!Call(functions[i].ptr)
      BY <2>1, <3>1, <3>2, <3>3 DEF Walk!Call
    <3> QED BY <3>3, <3>4 DEF Walk!Next, Walk!Round
  <2>10. CASE Return
    <3>1. Walk!Return
      BY <2>1, <2>2, <2>10 DEF Return, Walk!Return
    <3> QED BY <3>1 DEF Walk!Next, Walk!Round
  <2>11. CASE LoopEnd
    <3>1. /\ running = None /\ i > Len(functions) /\ i' = 0
          /\ UNCHANGED <<functions, running, restarting, wanted, stayed, called>>
          /\ functions \in Seq(Entries) /\ i # 0
      BY <2>11 DEF LoopEnd, IInv, TypeOK, Entries
    <3>2. ASSUME NEW f \in stayed PROVE f \in called
      <4>1. PICK k \in DOMAIN functions : functions[k].ptr = f
        BY <2>2 DEF IInv, VectorSound
      <4>2. Passed(k)
        BY <2>2, <3>1 DEF Passed
      <4> QED BY <3>1, <4>1, <4>2 DEF IInv, WalkSound
    <3>3. Walk!End
      BY <2>1, <3>1, <3>2 DEF Walk!End
    <3> QED BY <3>3 DEF Walk!Next, Walk!Round
  <2>12. CASE UNCHANGED vars
    BY <2>1, <2>12 DEF vars, Walk!vars
  <2> QED BY <2>4, <2>5, <2>6, <2>7, <2>8, <2>9, <2>10, <2>11, <2>12
      DEF Next, Loop, Walk!Next
<1> QED BY <1>1, <1>2, Invariant, PTL DEF Spec, Walk!Spec
=============================================================================
