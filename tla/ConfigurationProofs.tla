------------------------ MODULE ConfigurationProofs -------------------------
(***************************************************************************)
(* Theorems about MemoryPools and Configuration for all sets of settings,  *)
(* values, words and sizes of pools.                                       *)
(***************************************************************************)
EXTENDS Configuration, SequenceTheorems, FiniteSetTheorems, NaturalsInduction,
        WellFoundedInduction, TLAPS

-----------------------------------------------------------------------------
(* Numbers.  A set of numbers that is not empty has a least element.       *)
LEMMA MinLemma ==
    ASSUME NEW T \in SUBSET Nat, T # {}
    PROVE  Min(T) \in T /\ \A y \in T : Min(T) <= y
<1>1. \E x \in T : \A y \in T : <<y, x>> \notin OpToRel(<, Nat)
  BY NatLessThanWellFounded, WFMin
<1>2. PICK x \in T : \A y \in T : <<y, x>> \notin OpToRel(<, Nat)
  BY <1>1
<1>3. ASSUME NEW y \in T PROVE x <= y
  <2>1. <<y, x>> \in Nat \X Nat /\ <<y, x>>[1] = y /\ <<y, x>>[2] = x
    OBVIOUS
  <2>2. ~(y < x)
    BY <1>2, <2>1, Zenon DEF OpToRel
  <2> QED BY <2>2
<1> QED BY <1>2, <1>3 DEF Min

(* What is true of 0 and of the successor of each number it is true of.    *)
LEMMA InductionLemma ==
    ASSUME NEW f, NEW T, NEW n \in Nat,
           f[0] \in T, \A i \in 1..n : f[i - 1] \in T => f[i] \in T
    PROVE  \A i \in 0..n : f[i] \in T
<1> DEFINE D == {i \in 0..n : f[i] \notin T}
<1> SUFFICES ASSUME D # {} PROVE FALSE
  OBVIOUS
<1>1. D \in SUBSET Nat
  OBVIOUS
<1>2. Min(D) \in D /\ \A y \in D : Min(D) <= y
  BY <1>1, MinLemma
<1>3. Min(D) \in 1..n
  BY <1>2
<1>4. Min(D) - 1 \in 0..n /\ ~(Min(D) <= Min(D) - 1)
  BY <1>3
<1>5. f[Min(D) - 1] \in T
  BY <1>2, <1>4
<1> QED BY <1>2, <1>3, <1>5

(* A function can be defined by recursion.                                 *)
Solves(g, m, zero, Step) == g[0] = zero /\ \A i \in 1..m : g[i] = Step[i][g[i - 1]]

LEMMA RecursionLemma ==
    ASSUME NEW T, NEW zero \in T, NEW n \in Nat, NEW Step \in [1..n -> [T -> T]]
    PROVE  \E g \in [0..n -> T] : Solves(g, n, zero, Step)
<1> DEFINE f == [m \in 0..n |-> IF \E g \in [0..m -> T] : Solves(g, m, zero, Step)
                                THEN 1 ELSE 0]
<1>1. f[0] \in {1}
  <2> DEFINE g == [m \in 0..0 |-> zero]
  <2>1. g \in [0..0 -> T] /\ g[0] = zero /\ 1..0 = {}
    OBVIOUS
  <2> HIDE DEF g
  <2>2. \E h \in [0..0 -> T] : Solves(h, 0, zero, Step)
    BY <2>1 DEF Solves
  <2>3. 0 \in 0..n
    OBVIOUS
  <2> QED BY <2>2, <2>3
<1>2. ASSUME NEW i \in 1..n, f[i - 1] \in {1}
      PROVE  f[i] \in {1}
  <2>1. i - 1 \in 0..n /\ i \in 0..n
    OBVIOUS
  <2>2. PICK g \in [0..(i - 1) -> T] : Solves(g, i - 1, zero, Step)
    BY <1>2, <2>1
  <2> DEFINE h == [m \in 0..i |-> IF m = i THEN Step[i][g[i - 1]] ELSE g[m]]
  <2>3. g[i - 1] \in T /\ Step[i][g[i - 1]] \in T
    <3>1. i - 1 \in 0..(i - 1)
      OBVIOUS
    <3>2. g[i - 1] \in T
      BY <3>1
    <3>3. Step[i] \in [T -> T]
      OBVIOUS
    <3> QED BY <3>2, <3>3
  <2>4. ASSUME NEW m \in 0..i, m # i
        PROVE  m \in 0..(i - 1) /\ g[m] \in T
    <3>1. m \in 0..(i - 1)
      BY <2>4
    <3> QED BY <3>1
  <2>5. h \in [0..i -> T]
    BY <2>3, <2>4
  <2>6. h[0] = zero
    <3>1. 0 \in 0..i /\ 0 # i
      OBVIOUS
    <3>2. h[0] = g[0]
      BY <3>1
    <3> QED BY <2>2, <3>2 DEF Solves
  <2>7. ASSUME NEW j \in 1..i PROVE h[j] = Step[j][h[j - 1]]
    <3>1. j - 1 \in 0..i /\ j - 1 # i /\ j \in 0..i
      OBVIOUS
    <3>2. h[j - 1] = g[j - 1]
      BY <3>1
    <3>3. CASE j = i
      BY <3>1, <3>2, <3>3
    <3>4. CASE j # i
      <4>1. j \in 1..(i - 1)
        BY <3>4
      <4>2. g[j] = Step[j][g[j - 1]]
        BY <2>2, <4>1 DEF Solves
      <4> QED BY <3>1, <3>2, <3>4, <4>2
    <3> QED BY <3>3, <3>4
  <2> HIDE DEF h
  <2>8. \E g2 \in [0..i -> T] : Solves(g2, i, zero, Step)
    BY <2>5, <2>6, <2>7 DEF Solves
  <2> QED BY <2>1, <2>8
<1> HIDE DEF f
<1>3. \A i \in 0..n : f[i] \in {1}
  BY <1>1, <1>2, InductionLemma
<1>4. f[n] = 1 /\ n \in 0..n
  BY <1>3
<1> QED BY <1>4 DEF f

(* Division                                                                *)
LEMMA DivLemma ==
    ASSUME NEW n \in Nat, NEW u \in Nat \ {0}
    PROVE  /\ (n \div u) * u \in 0..n
           /\ n < (n \div u) * u + u
<1>1. n = (u * (n \div u)) + (n % u) /\ n % u \in 0..(u - 1) /\ n \div u \in Nat
  OBVIOUS
<1>2. (n \div u) * u = u * (n \div u) /\ u * (n \div u) \in Nat
  BY <1>1
<1> QED BY <1>1, <1>2

LEMMA AlignLemma ==
    ASSUME NEW n \in Nat
    PROVE  Align(n) \in Nat /\ n < Align(n)
<1>1. n + Word \in Nat /\ Word \in Nat \ {0}
  BY PoolAssumption
<1>2. ((n + Word) \div Word) * Word \in 0..(n + Word)
      /\ n + Word < ((n + Word) \div Word) * Word + Word
  BY <1>1, DivLemma
<1> QED BY <1>1, <1>2 DEF Align

LEMMA RoundUpLemma ==
    ASSUME NEW n \in Nat, NEW u \in Nat \ {0}
    PROVE  RoundUp(n, u) \in Nat /\ n <= RoundUp(n, u)
<1>1. n + u - 1 \in Nat
  OBVIOUS
<1>2. /\ ((n + u - 1) \div u) * u \in 0..(n + u - 1)
      /\ n + u - 1 < ((n + u - 1) \div u) * u + u
  BY <1>1, DivLemma
<1> QED BY <1>1, <1>2 DEF RoundUp

-----------------------------------------------------------------------------
(* _findParam: the sum of the lengths before a parameter.                  *)
LEMMA OffsetLemma ==
    ASSUME NEW ps, Len(ps) \in Nat, \A k \in 1..Len(ps) : ps[k].length \in Nat
    PROVE  /\ \A k \in 1..(Len(ps) + 1) : Offset(ps, k) \in Nat
           /\ Offset(ps, 1) = 0
           /\ \A k \in 1..Len(ps) : Offset(ps, k + 1) = Offset(ps, k) + ps[k].length
<1> DEFINE n == Len(ps)
           sum[m \in 0..Len(ps)] == IF m = 0 THEN 0 ELSE sum[m - 1] + ps[m].length
           Step == [m \in 1..n |-> [t \in Nat |-> t + ps[m].length]]
<1>1. Step \in [1..n -> [Nat -> Nat]]
  OBVIOUS
<1>2. PICK g \in [0..n -> Nat] : Solves(g, n, 0, Step)
  <2> HIDE DEF Step
  <2> QED BY <1>1, RecursionLemma
<1>3. g = [m \in 0..Len(ps) |-> IF m = 0 THEN 0 ELSE g[m - 1] + ps[m].length]
  <2>1. ASSUME NEW m \in 1..n PROVE g[m] = g[m - 1] + ps[m].length
    <3>1. m - 1 \in 0..n
      OBVIOUS
    <3>2. g[m] = Step[m][g[m - 1]] /\ g[m - 1] \in Nat
      BY <1>2, <3>1 DEF Solves
    <3> QED BY <3>2
  <2>2. g[0] = 0
    BY <1>2 DEF Solves
  <2>3. \A m \in 0..n : m = 0 \/ m \in 1..n
    OBVIOUS
  <2> QED BY <2>1, <2>2, <2>3
<1>4. sum = [m \in 0..Len(ps) |-> IF m = 0 THEN 0 ELSE sum[m - 1] + ps[m].length]
  BY <1>3
<1> HIDE DEF sum
<1>5. sum[0] = 0 /\ \A m \in 1..n : sum[m] = sum[m - 1] + ps[m].length
  <2>1. \A m \in 0..n : sum[m] = IF m = 0 THEN 0 ELSE sum[m - 1] + ps[m].length
    BY <1>4, Zenon
  <2> QED BY <2>1
<1>6. \A m \in 0..n : sum[m] \in Nat
  <2>1. sum[0] \in Nat /\ \A m \in 1..n : sum[m - 1] \in Nat => sum[m] \in Nat
    BY <1>5
  <2> QED BY <2>1, InductionLemma
<1>7. \A k : Offset(ps, k) = sum[k - 1]
  BY DEF Offset, sum
<1>8. \A k \in 1..(Len(ps) + 1) : k - 1 \in 0..n
  OBVIOUS
<1>9. ASSUME NEW k \in 1..Len(ps) PROVE Offset(ps, k + 1) = Offset(ps, k) + ps[k].length
  <2>1. (k + 1) - 1 = k
    OBVIOUS
  <2>2. Offset(ps, k + 1) = sum[k] /\ Offset(ps, k) = sum[k - 1]
    BY <1>7, <2>1
  <2> QED BY <1>5, <2>2
<1>10. Offset(ps, 1) = 0
  BY <1>5, <1>7
<1> QED BY <1>6, <1>7, <1>8, <1>9, <1>10

(* EEPROMAccess::read                                                      *)
LEMMA ReadAtLemma ==
    ASSUME NEW data \in Seq(Bytes), NEW offset \in Nat, NEW length \in Nat
    PROVE  ReadAt(data, offset, length) \in Seq(Bytes) /\ Len(ReadAt(data, offset, length)) = length
<1>1. \A b \in 1..length : offset + b \in DOMAIN data => data[offset + b] \in Bytes
  OBVIOUS
<1>2. Junk \in Bytes
  BY DEF Bytes
<1>3. ReadAt(data, offset, length) \in [1..length -> Bytes]
  BY <1>1, <1>2 DEF ReadAt
<1> HIDE DEF ReadAt
<1> QED BY <1>3, SeqDef

(* The types of a parameter in the list                                    *)
LEMMA ParamLemma ==
    ASSUME NEW ps \in Seq(Param), NEW k \in 1..Len(ps)
    PROVE  /\ ps[k] \in Param /\ ps[k].handle \in Handles /\ ps[k].length \in Nat
           /\ ps[k].place \in Place \cup {None} /\ ps[k].data \in Seq(Bytes)
           /\ ps[k].dirty \in BOOLEAN
<1>1. ps[k] \in Param
  BY ElementOfSeq
<1> QED BY <1>1 DEF Param

(* A parameter has all the bytes it is long.                               *)
Filled(p) == p.dirty => p.length <= Len(p.data)

LEMMA DataOfLemma ==
    ASSUME NEW ps \in Seq(Param), NEW k \in 1..Len(ps), Filled(ps[k]), NEW old \in Seq(Bytes)
    PROVE  DataOf(ps, k, old) \in Seq(Bytes) /\ Len(DataOf(ps, k, old)) = ps[k].length
<1>1. ps[k].data \in Seq(Bytes) /\ ps[k].length \in Nat
  BY ParamLemma
<1>2. CASE ps[k].dirty
  <2>1. DataOf(ps, k, old) = SubSeq(ps[k].data, 1, ps[k].length)
    BY <1>2 DEF DataOf
  <2>2. ps[k].length <= Len(ps[k].data)
    BY <1>2 DEF Filled
  <2> DEFINE d == ps[k].data
             m == ps[k].length
  <2> HIDE DEF d, m
  <2>3. SubSeq(d, 1, m) \in Seq(Bytes) /\ Len(SubSeq(d, 1, m)) = m
    BY <1>1, <2>2 DEF d, m
  <2> QED BY <2>1, <2>3 DEF d, m
<1>3. CASE ~ps[k].dirty
  <2>1. DataOf(ps, k, old) = ReadAt(old, Offset(ps, k), ps[k].length)
    BY <1>3 DEF DataOf
  <2>2. \A j \in 1..Len(ps) : ps[j].length \in Nat
    BY ParamLemma
  <2>3. Offset(ps, k) \in Nat
    BY <2>2, OffsetLemma
  <2>4. \A d \in Seq(Bytes), o, m \in Nat :
            ReadAt(d, o, m) \in Seq(Bytes) /\ Len(ReadAt(d, o, m)) = m
    BY ReadAtLemma
  <2>5. /\ ReadAt(old, Offset(ps, k), ps[k].length) \in Seq(Bytes)
        /\ Len(ReadAt(old, Offset(ps, k), ps[k].length)) = ps[k].length
    BY <1>1, <2>3, <2>4, Zenon
  <2> QED BY <2>1, <2>5
<1> QED BY <1>2, <1>3

(* Configuration::write: the image is one, and each parameter finds in it  *)
(* what was stored of it.                                                  *)
LEMMA ImageLemma ==
    ASSUME NEW ps \in Seq(Param), \A k \in 1..Len(ps) : Filled(ps[k]), NEW old \in Seq(Bytes)
    PROVE  /\ Image(ps, old) \in Images
           /\ Len(Image(ps, old).headers) = Len(ps)
           /\ \A k \in 1..Len(ps) :
                /\ Image(ps, old).headers[k].handle = ps[k].handle
                /\ Image(ps, old).headers[k].length = ps[k].length
                /\ ReadAt(Image(ps, old).data, Offset(ps, k), ps[k].length) = DataOf(ps, k, old)
<1> DEFINE n == Len(ps)
           upTo[m \in 0..Len(ps)] == IF m = 0 THEN <<>> ELSE upTo[m - 1] \o DataOf(ps, m, old)
           Step == [m \in 1..n |-> [t \in Seq(Bytes) |-> t \o DataOf(ps, m, old)]]
           headers == [k \in DOMAIN ps |-> [handle |-> ps[k].handle, length |-> ps[k].length]]
<1>1. \A m \in 1..n : DataOf(ps, m, old) \in Seq(Bytes)
  BY DataOfLemma
<1>2. Step \in [1..n -> [Seq(Bytes) -> Seq(Bytes)]] /\ n \in Nat
  BY <1>1
<1>3. PICK g \in [0..n -> Seq(Bytes)] : Solves(g, n, <<>>, Step)
  <2> HIDE DEF Step, n
  <2>1. <<>> \in Seq(Bytes)
    OBVIOUS
  <2> QED BY <1>2, <2>1, RecursionLemma
<1>4. g = [m \in 0..Len(ps) |-> IF m = 0 THEN <<>> ELSE g[m - 1] \o DataOf(ps, m, old)]
  <2>1. ASSUME NEW m \in 1..n PROVE g[m] = g[m - 1] \o DataOf(ps, m, old)
    <3>1. m - 1 \in 0..n
      OBVIOUS
    <3>2. g[m] = Step[m][g[m - 1]] /\ g[m - 1] \in Seq(Bytes)
      BY <1>3, <3>1 DEF Solves
    <3> QED BY <3>2
  <2>2. g[0] = <<>>
    BY <1>3 DEF Solves
  <2>3. \A m \in 0..n : m = 0 \/ m \in 1..n
    OBVIOUS
  <2> QED BY <2>1, <2>2, <2>3
<1>5. upTo = [m \in 0..Len(ps) |-> IF m = 0 THEN <<>> ELSE upTo[m - 1] \o DataOf(ps, m, old)]
  BY <1>4
<1> HIDE DEF upTo
<1>6. upTo[0] = <<>> /\ \A m \in 1..n : upTo[m] = upTo[m - 1] \o DataOf(ps, m, old)
  <2>1. \A m \in 0..n : upTo[m] = IF m = 0 THEN <<>> ELSE upTo[m - 1] \o DataOf(ps, m, old)
    BY <1>5, Zenon
  <2>2. upTo[0] = <<>>
    BY <2>1
  <2>3. ASSUME NEW m \in 1..n PROVE upTo[m] = upTo[m - 1] \o DataOf(ps, m, old)
    <3> m \in 0..n /\ m # 0
      OBVIOUS
    <3> QED BY <2>1, Zenon
  <2> QED BY <2>2, <2>3
<1> HIDE DEF upTo
<1>7. \A f, T : \A m \in Nat : f[0] \in T /\ (\A i \in 1..m : f[i - 1] \in T => f[i] \in T)
                                => \A i \in 0..m : f[i] \in T
  BY InductionLemma
<1>8. \A m \in 0..n : upTo[m] \in Seq(Bytes)
  <2>1. ASSUME NEW m \in 1..n, upTo[m - 1] \in Seq(Bytes) PROVE upTo[m] \in Seq(Bytes)
    <3> DEFINE u == upTo[m - 1]
               d == DataOf(ps, m, old)
    <3>1. u \in Seq(Bytes) /\ d \in Seq(Bytes) /\ upTo[m] = u \o d
      BY <1>1, <1>6, <2>1
    <3> HIDE DEF u, d
    <3>2. u \o d \in Seq(Bytes)
      BY <3>1, ConcatProperties
    <3> QED BY <3>1, <3>2
  <2>2. upTo[0] \in Seq(Bytes)
    BY <1>6
  <2> QED BY <1>2, <1>7, <2>1, <2>2, Zenon
<1>9. \A m \in 1..n : Len(DataOf(ps, m, old)) = ps[m].length /\ ps[m].length \in Nat
  BY DataOfLemma, ParamLemma
<1> DEFINE Holds(m) == /\ Len(upTo[m]) = Offset(ps, m + 1)
                       /\ \A k \in 1..m : \A b \in 1..ps[k].length :
                            /\ Offset(ps, k) + b \in 1..Len(upTo[m])
                            /\ upTo[m][Offset(ps, k) + b] = DataOf(ps, k, old)[b]
           held == [m \in 0..n |-> IF Holds(m) THEN 1 ELSE 0]
<1>10. \A k \in 1..n : /\ Offset(ps, k) \in Nat /\ Offset(ps, 1) = 0
                        /\ Offset(ps, k + 1) = Offset(ps, k) + ps[k].length
  BY <1>9, OffsetLemma
<1>11. Holds(0)
  BY <1>6, <1>9, OffsetLemma
<1>12. ASSUME NEW m \in 1..n, Holds(m - 1) PROVE Holds(m)
  <2> DEFINE u == upTo[m - 1]
             d == DataOf(ps, m, old)
  <2>1. upTo[m] = u \o d
    BY <1>6
  <2>2. u \in Seq(Bytes) /\ d \in Seq(Bytes) /\ Len(u) \in Nat
    <3>1. m - 1 \in 0..n
      OBVIOUS
    <3> QED BY <1>1, <1>8, <3>1
  <2>3. /\ Len(u \o d) = Len(u) + Len(d)
        /\ \A j \in 1..Len(u) + Len(d) : (u \o d)[j] = IF j <= Len(u) THEN u[j] ELSE d[j - Len(u)]
    BY <2>2, ConcatProperties
  <2>4. Len(u) = Offset(ps, m) /\ Len(d) = ps[m].length /\ ps[m].length \in Nat
    <3>1. (m - 1) + 1 = m
      OBVIOUS
    <3> QED BY <1>9, <1>12, <3>1
  <2> DEFINE all == u \o d
  <2>5. Len(all) = Offset(ps, m + 1)
    BY <1>10, <2>3, <2>4
  <2>6. ASSUME NEW k \in 1..(m - 1), NEW b \in 1..ps[k].length
        PROVE  /\ Offset(ps, k) + b \in 1..Len(all)
               /\ all[Offset(ps, k) + b] = DataOf(ps, k, old)[b]
    <3> DEFINE j == Offset(ps, k) + b
    <3>1. j \in 1..Len(u) /\ u[j] = DataOf(ps, k, old)[b]
      BY <1>12
    <3> HIDE DEF j, u, d
    <3>2. j \in 1..Len(u) + Len(d) /\ j <= Len(u)
      BY <2>2, <2>4, <3>1
    <3> QED BY <2>3, <3>1, <3>2 DEF j
  <2>7. ASSUME NEW b \in 1..ps[m].length
        PROVE  Offset(ps, m) + b \in 1..Len(all) /\ all[Offset(ps, m) + b] = d[b]
    <3> DEFINE j == Len(u) + b
    <3> HIDE DEF u, d
    <3>1. j \in 1..Len(u) + Len(d) /\ ~(j <= Len(u)) /\ j - Len(u) = b
      BY <2>2, <2>4
    <3> HIDE DEF j
    <3>2. all[j] = d[b] /\ j \in 1..Len(all)
      BY <2>3, <3>1
    <3> QED BY <2>4, <3>2 DEF j
  <2>8. all = upTo[m]
    BY <2>1
  <2> HIDE DEF all
  <2>9. \A k \in 1..m : k \in 1..(m - 1) \/ k = m
    OBVIOUS
  <2> QED BY <2>5, <2>6, <2>7, <2>8, <2>9
<1> HIDE DEF Holds
<1>13. Holds(n)
  <2>1. held[0] \in {1} /\ \A m \in 1..n : held[m - 1] \in {1} => held[m] \in {1}
    <3>1. ASSUME NEW m \in 1..n, held[m - 1] \in {1} PROVE held[m] \in {1}
      <4>1. m - 1 \in 0..n /\ m \in 0..n
        OBVIOUS
      <4>2. Holds(m - 1)
        BY <3>1, <4>1
      <4> QED BY <1>12, <4>1, <4>2
    <3>2. 0 \in 0..n
      BY <1>2
    <3>3. held[0] = 1
      BY <1>11, <3>2
    <3> QED BY <3>1, <3>3
  <2> HIDE DEF held
  <2>2. \A m \in 0..n : held[m] \in {1}
    BY <1>2, <1>7, <2>1, Zenon
  <2> QED BY <2>2 DEF held
<1>14. \A k \in 1..n : ReadAt(upTo[n], Offset(ps, k), ps[k].length) = DataOf(ps, k, old)
  <2> SUFFICES ASSUME NEW k \in 1..n
               PROVE  ReadAt(upTo[n], Offset(ps, k), ps[k].length) = DataOf(ps, k, old)
    OBVIOUS
  <2> DEFINE d == DataOf(ps, k, old)
             r == ReadAt(upTo[n], Offset(ps, k), ps[k].length)
  <2>1. d \in Seq(Bytes) /\ Len(d) = ps[k].length
    BY <1>1, <1>9
  <2>2. \A b \in 1..ps[k].length : Offset(ps, k) + b \in DOMAIN upTo[n]
                                  /\ upTo[n][Offset(ps, k) + b] = d[b]
    <3>1. n \in 0..n
      OBVIOUS
    <3>2. DOMAIN upTo[n] = 1..Len(upTo[n])
      BY <1>8, <3>1
    <3> QED BY <1>13, <3>2 DEF Holds
  <2>3. r = [b \in 1..ps[k].length |-> d[b]]
    BY <2>2 DEF ReadAt
  <2> HIDE DEF d, r
  <2>4. d = [b \in 1..ps[k].length |-> d[b]]
    BY <2>1
  <2> QED BY <2>3, <2>4 DEF d, r
<1>16. upTo[Len(ps)] \in Seq(Bytes)
  BY <1>8
<1>17. headers \in Seq(Header) /\ Len(headers) = Len(ps)
  <2>1. \A k \in 1..n : ps[k].handle \in Handles /\ ps[k].length \in Nat
    BY ParamLemma
  <2>2. headers \in [1..n -> Header]
    BY <2>1 DEF Header
  <2> HIDE DEF headers, n
  <2>3. headers \in Seq(Header) /\ DOMAIN headers = 1..n /\ n \in Nat
    BY <1>2, <2>2, SeqDef
  <2>4. Len(headers) = n
    BY <2>3
  <2> QED BY <2>3, <2>4 DEF n
<1>18. Image(ps, old) = [headers |-> headers, data |-> upTo[Len(ps)]]
  BY DEF Image, upTo
<1>19. /\ Image(ps, old) \in Images /\ Image(ps, old).headers = headers
       /\ Image(ps, old).data = upTo[n]
  BY <1>16, <1>17, <1>18 DEF Images
<1> QED BY <1>14, <1>17, <1>19

-----------------------------------------------------------------------------
(* Pools.  What is allocated for n bytes is larger than them, and by no    *)
(* more than a word larger than a pool of their own.                       *)
LEMMA FitLemma ==
    ASSUME NEW n \in Nat
    PROVE  /\ RoundUp(n, PoolUnit) \in Nat /\ n <= RoundUp(n, PoolUnit)
           /\ Align(n) \in Nat /\ n < Align(n)
           /\ Align(n) <= RoundUp(n, PoolUnit) + Word
<1>1. Word \in Nat \ {0} /\ PoolUnit \in Nat \ {0}
  BY PoolAssumption
<1>2. RoundUp(n, PoolUnit) \in Nat /\ n <= RoundUp(n, PoolUnit)
  BY <1>1, RoundUpLemma
<1>3. n + Word \in Nat
  BY <1>1
<1>4. ((n + Word) \div Word) * Word \in 0..(n + Word)
  BY <1>1, <1>3, DivLemma
<1>5. Align(n) <= n + Word
  BY <1>4 DEF Align
<1>6. Align(n) \in Nat /\ n < Align(n)
  BY AlignLemma
<1> QED BY <1>1, <1>2, <1>5, <1>6

(* A pool never holds more than it has memory for, with the word behind it. *)
PoolOK(p) == Len(p.mem) = p.size + Word /\ p.length <= p.size + Word

LEMMA PoolLemma ==
    ASSUME NEW pls \in Seq(Pool), NEW i \in 1..Len(pls)
    PROVE  /\ pls[i] \in Pool
           /\ pls[i].size \in Nat /\ pls[i].length \in Nat /\ pls[i].count \in Nat
           /\ pls[i].mem \in Seq(Bytes)
<1>1. pls[i] \in Pool
  BY ElementOfSeq
<1> QED BY <1>1 DEF Pool

LEMMA NewPoolLemma ==
    ASSUME NEW n \in Nat
    PROVE  /\ NewPool(n) \in Pool /\ PoolOK(NewPool(n))
           /\ NewPool(n).length = 0 /\ NewPool(n).count = 0
           /\ NewPool(n).size = RoundUp(n, PoolUnit)
<1> DEFINE size == RoundUp(n, PoolUnit)
           all == size + Word
           mem == [b \in 1..all |-> IF b <= size THEN NUL ELSE Junk]
<1>1. size \in Nat /\ all \in Nat
  BY RoundUpLemma, PoolAssumption
<1>2. NewPool(n) = [size |-> size, length |-> 0, count |-> 0, mem |-> mem]
  BY DEF NewPool
<1>3. mem \in [1..all -> Bytes]
  BY DEF Bytes, NUL
<1> HIDE DEF mem
<1>4. mem \in Seq(Bytes) /\ Len(mem) = all
  <2> HIDE DEF all
  <2>1. mem \in Seq(Bytes) /\ DOMAIN mem = 1..all
    BY <1>1, <1>3, SeqDef
  <2> QED BY <1>1, <2>1
<1> HIDE DEF size
<1>5. 0 <= all
  BY <1>1
<1> QED BY <1>1, <1>2, <1>4, <1>5 DEF Pool, PoolOK, size

(* A vector of sound pools with one more.                                  *)
Sound1(pls) == pls \in Seq(Pool) /\ \A i \in 1..Len(pls) : PoolOK(pls[i])

LEMMA AppendPoolLemma ==
    ASSUME NEW pls, Sound1(pls), NEW n \in Nat
    PROVE  /\ Sound1(Append(pls, NewPool(n)))
           /\ Len(Append(pls, NewPool(n))) = Len(pls) + 1
           /\ \A i \in 1..Len(pls) : Append(pls, NewPool(n))[i] = pls[i]
           /\ Append(pls, NewPool(n))[Len(pls) + 1] = NewPool(n)
<1> DEFINE p == NewPool(n)
<1>1. p \in Pool /\ PoolOK(p) /\ pls \in Seq(Pool)
  BY NewPoolLemma DEF Sound1
<1> HIDE DEF p
<1>2. /\ Append(pls, p) \in Seq(Pool) /\ Len(Append(pls, p)) = Len(pls) + 1
      /\ \A i \in 1..Len(pls) : Append(pls, p)[i] = pls[i]
      /\ Append(pls, p)[Len(pls) + 1] = p
  BY <1>1, AppendProperties
<1>3. \A i \in 1..(Len(pls) + 1) : PoolOK(Append(pls, p)[i])
  BY <1>1, <1>2 DEF Sound1
<1> QED BY <1>2, <1>3 DEF Sound1, p

(* The number of users a pool has, also of one that does not exist yet.    *)
CountOf(pls, i) == IF i \in 1..Len(pls) THEN pls[i].count ELSE 0
LengthOf(pls, i) == IF i \in 1..Len(pls) THEN pls[i].length ELSE 0

(* Configuration::_allocate takes memory at the end of one pool, old or    *)
(* new, that has space for it.                                             *)
LEMMA AllocateLemma ==
    ASSUME NEW pls, Sound1(pls), NEW n \in Nat
    PROVE  \E k \in Nat :
              LET new == Allocate(pls, n)
              IN  /\ new.place = [pool |-> k, offset |-> LengthOf(pls, k)]
                  /\ LengthOf(pls, k) \in Nat
                  /\ Sound1(new.pools)
                  /\ k \in 1..Len(new.pools) /\ Len(pls) <= Len(new.pools)
                  /\ new.pools[k].length = LengthOf(pls, k) + Align(n)
                  /\ LengthOf(pls, k) + n <= new.pools[k].size
                  /\ \A i \in 1..Len(new.pools) :
                        /\ new.pools[i].count = CountOf(pls, i) + IF i = k THEN 1 ELSE 0
                        /\ i # k => new.pools[i].length = LengthOf(pls, i)
                  /\ \A i \in 1..Len(pls) : new.pools[i].mem = pls[i].mem
                                             /\ new.pools[i].size = pls[i].size
<1> DEFINE next == Min({PoolMax, (Len(pls) + 1) * PoolUnit})
           more == IF n < PoolMax /\ Fitting(pls, n) = {} THEN Append(pls, NewPool(next))
                                                          ELSE pls
           fit  == IF n < PoolMax THEN Fitting(more, n) ELSE {}
           all  == IF fit = {} THEN Append(more, NewPool(n)) ELSE more
           k    == IF fit = {} THEN Len(all) ELSE Min(fit)
<1>1. Allocate(pls, n) =
         [pools |-> [all EXCEPT ![k].length = @ + Align(n), ![k].count = @ + 1],
          place |-> [pool |-> k, offset |-> all[k].length]]
  BY DEF Allocate
<1>2. /\ Align(n) \in Nat /\ n < Align(n) /\ Word \in Nat
      /\ RoundUp(n, PoolUnit) \in Nat /\ n <= RoundUp(n, PoolUnit)
      /\ Align(n) <= RoundUp(n, PoolUnit) + Word
  BY FitLemma, PoolAssumption
<1>3. next \in Nat
  <2>1. {PoolMax, (Len(pls) + 1) * PoolUnit} \in SUBSET Nat
    BY PoolAssumption DEF Sound1
  <2>2. Min({PoolMax, (Len(pls) + 1) * PoolUnit}) \in {PoolMax, (Len(pls) + 1) * PoolUnit}
    BY <2>1, MinLemma
  <2> QED BY <2>1, <2>2
<1> DEFINE Extends(q) ==
              /\ Sound1(q) /\ Len(q) \in Nat /\ Len(pls) <= Len(q)
              /\ \A i \in 1..Len(q) : q[i].count = CountOf(pls, i) /\ q[i].length = LengthOf(pls, i)
              /\ \A i \in 1..Len(pls) : q[i] = pls[i]
<1>4. Len(pls) \in Nat
  BY DEF Sound1
<1>5. Extends(more)
  <2> HIDE DEF next
  <2>1. CASE more = pls
    BY <1>4, <2>1 DEF CountOf, LengthOf
  <2>2. CASE more = Append(pls, NewPool(next))
    <3>1. /\ Sound1(more) /\ Len(more) = Len(pls) + 1
          /\ \A i \in 1..Len(pls) : more[i] = pls[i]
          /\ more[Len(pls) + 1] = NewPool(next)
      BY <1>3, <2>2, AppendPoolLemma
    <3>2. NewPool(next).length = 0 /\ NewPool(next).count = 0
      BY <1>3, NewPoolLemma
    <3> HIDE DEF more
    <3>3. ASSUME NEW i \in 1..Len(more)
          PROVE  more[i].count = CountOf(pls, i) /\ more[i].length = LengthOf(pls, i)
      <4>1. CASE i \in 1..Len(pls)
        BY <3>1, <4>1 DEF CountOf, LengthOf
      <4>2. CASE i \notin 1..Len(pls)
        <5>1. i = Len(pls) + 1
          BY <1>4, <3>1, <4>2
        <5> QED BY <3>1, <3>2, <4>2, <5>1 DEF CountOf, LengthOf
      <4> QED BY <4>1, <4>2
    <3> QED BY <1>4, <3>1, <3>3
  <2> QED BY <2>1, <2>2
<1>6. fit \in SUBSET (1..Len(more)) /\ \A i \in fit : more[i].length + Align(n) <= more[i].size
  <2> HIDE DEF more
  <2>1. DOMAIN more = 1..Len(more)
    BY <1>5 DEF Sound1
  <2> QED BY <2>1 DEF Fitting
<1>7. /\ Extends(all) /\ k \in 1..Len(all)
      /\ all[k].length + Align(n) <= all[k].size + Word
      /\ all[k].length + n <= all[k].size
  <2> HIDE DEF more
  <2>1. CASE fit = {}
    <3>1. all = Append(more, NewPool(n)) /\ k = Len(all)
      BY <2>1
    <3>2. /\ Sound1(all) /\ Len(all) = Len(more) + 1
          /\ \A i \in 1..Len(more) : all[i] = more[i]
          /\ all[Len(more) + 1] = NewPool(n)
      BY <1>5, <3>1, AppendPoolLemma
    <3>3. NewPool(n).length = 0 /\ NewPool(n).count = 0 /\ NewPool(n).size = RoundUp(n, PoolUnit)
      BY NewPoolLemma
    <3> HIDE DEF all, k
    <3>4. CountOf(pls, Len(more) + 1) = 0 /\ LengthOf(pls, Len(more) + 1) = 0
      BY <1>4, <1>5 DEF CountOf, LengthOf
    <3>5. Extends(all)
      BY <1>5, <3>2, <3>3, <3>4
    <3> QED BY <1>2, <1>5, <3>1, <3>2, <3>3, <3>5
  <2>2. CASE fit # {}
    <3>1. all = more /\ k = Min(fit)
      BY <2>2
    <3> HIDE DEF fit, all, k
    <3>2. fit \in SUBSET Nat
      BY <1>6
    <3>3. k \in fit
      BY <2>2, <3>1, <3>2, MinLemma
    <3>4. /\ Extends(all) /\ k \in 1..Len(all)
          /\ all[k].length + Align(n) <= all[k].size
      BY <1>5, <1>6, <3>1, <3>3
    <3>5. all[k].length \in Nat /\ all[k].size \in Nat
      BY <3>4, PoolLemma DEF Sound1
    <3> QED BY <1>2, <3>4, <3>5
  <2> QED BY <2>1, <2>2
<1> HIDE DEF next, more, fit, all, k
<1> DEFINE new == [all EXCEPT ![k].length = @ + Align(n), ![k].count = @ + 1]
           p == [all[k] EXCEPT !.length = @ + Align(n), !.count = @ + 1]
<1>8. all \in Seq(Pool) /\ Len(all) \in Nat /\ DOMAIN all = 1..Len(all)
  BY <1>7 DEF Sound1
<1>9. new = [all EXCEPT ![k] = p]
  BY <1>7, <1>8
<1>10. /\ all[k] \in Pool /\ all[k].length \in Nat /\ all[k].count \in Nat
       /\ PoolOK(all[k])
  BY <1>7, <1>8, PoolLemma DEF Sound1
<1>11. /\ p \in Pool /\ PoolOK(p)
       /\ p.length = all[k].length + Align(n) /\ p.count = all[k].count + 1
       /\ p.mem = all[k].mem /\ p.size = all[k].size
  <2> DEFINE old == all[k]
             m == Align(n)
  <2>1. /\ old \in Pool /\ m \in Nat /\ old.length + m <= old.size + Word
        /\ Len(old.mem) = old.size + Word /\ old.length \in Nat /\ old.count \in Nat
    BY <1>2, <1>7, <1>10 DEF PoolOK
  <2>2. p = [old EXCEPT !.length = old.length + m, !.count = old.count + 1]
    BY <2>1 DEF Pool
  <2> HIDE DEF old, m, p
  <2>3. p \in Pool
    <3>1. old.size \in Nat /\ old.mem \in Seq(Bytes)
      BY <2>1 DEF Pool
    <3>2. old.length + m \in Nat /\ old.count + 1 \in Nat
      BY <2>1
    <3>3. p = [size |-> old.size, length |-> old.length + m, count |-> old.count + 1,
               mem |-> old.mem]
      BY <2>1, <2>2 DEF Pool
    <3> QED BY <3>1, <3>2, <3>3 DEF Pool
  <2>4. /\ p.length = old.length + m /\ p.count = old.count + 1
        /\ p.mem = old.mem /\ p.size = old.size
    BY <2>1, <2>2 DEF Pool
  <2> QED BY <2>1, <2>3, <2>4 DEF PoolOK, old, m
<1> HIDE DEF new, p
<1>12. /\ new \in Seq(Pool) /\ Len(new) = Len(all) /\ new[k] = p
       /\ \A i \in 1..Len(all) : i # k => new[i] = all[i]
  <2>1. new \in Seq(Pool) /\ Len(new) = Len(all)
    BY <1>7, <1>8, <1>9, <1>11, ExceptSeq
  <2> QED BY <1>7, <1>8, <1>9, <2>1
<1>13. Sound1(new)
  <2>1. \A i \in 1..Len(new) : PoolOK(new[i])
    BY <1>7, <1>11, <1>12 DEF Sound1
  <2> QED BY <1>12, <2>1 DEF Sound1
<1>14. /\ Allocate(pls, n).pools = new
       /\ Allocate(pls, n).place = [pool |-> k, offset |-> all[k].length]
  BY <1>1 DEF new
<1>15. /\ all[k].length = LengthOf(pls, k)
       /\ \A i \in 1..Len(new) :
            /\ new[i].count = CountOf(pls, i) + IF i = k THEN 1 ELSE 0
            /\ i # k => new[i].length = LengthOf(pls, i)
  <2>1. ASSUME NEW i \in 1..Len(new)
        PROVE  new[i].count = CountOf(pls, i) + IF i = k THEN 1 ELSE 0
    <3>1. all[i].count = CountOf(pls, i) /\ all[i].count \in Nat
      BY <1>7, <1>8, <1>12, PoolLemma
    <3> QED BY <1>11, <1>12, <3>1
  <2> QED BY <1>7, <1>12, <2>1
<1>16. \A i \in 1..Len(pls) : new[i].mem = pls[i].mem /\ new[i].size = pls[i].size
  <2> SUFFICES ASSUME NEW i \in 1..Len(pls)
               PROVE  new[i].mem = pls[i].mem /\ new[i].size = pls[i].size
    OBVIOUS
  <2>1. i \in 1..Len(all) /\ all[i] = pls[i]
    BY <1>7
  <2> QED BY <1>11, <1>12, <2>1
<1> QED BY <1>7, <1>10, <1>11, <1>12, <1>13, <1>14, <1>15, <1>16

(* What is stored changes nothing but the memory of the pool.              *)
LEMMA StoredLemma ==
    ASSUME NEW pls, Sound1(pls), NEW pl \in Place, pl.pool \in 1..Len(pls),
           NEW bytes \in Seq(Bytes), pl.offset + Len(bytes) <= pls[pl.pool].size + Word
    PROVE  /\ Sound1(Stored(pls, pl, bytes)) /\ Len(Stored(pls, pl, bytes)) = Len(pls)
           /\ \A i \in 1..Len(pls) : /\ Stored(pls, pl, bytes)[i].length = pls[i].length
                                     /\ Stored(pls, pl, bytes)[i].count = pls[i].count
                                     /\ Stored(pls, pl, bytes)[i].size = pls[i].size
                                     /\ i # pl.pool => Stored(pls, pl, bytes)[i].mem = pls[i].mem
           /\ \A j \in 1..pl.offset :
                Stored(pls, pl, bytes)[pl.pool].mem[j] = pls[pl.pool].mem[j]
           /\ \A j \in 1..Len(bytes) :
                Stored(pls, pl, bytes)[pl.pool].mem[pl.offset + j] = bytes[j]
<1> DEFINE i == pl.pool
           old == pls[i]
           mem == old.mem
           a == SubSeq(mem, 1, pl.offset)
           b == SubSeq(mem, pl.offset + Len(bytes) + 1, Len(mem))
           p == [old EXCEPT !.mem = a \o bytes \o b]
<1>1. /\ pls \in Seq(Pool) /\ old \in Pool /\ PoolOK(old) /\ i \in 1..Len(pls)
      /\ old.size \in Nat /\ old.length \in Nat /\ old.count \in Nat /\ mem \in Seq(Bytes)
      /\ Len(mem) = old.size + Word
  BY PoolLemma DEF Sound1, PoolOK
<1>2. pl.offset \in Nat /\ Len(bytes) \in Nat /\ pl.offset + Len(bytes) <= Len(mem)
  BY <1>1 DEF Place
<1> HIDE DEF mem
<1>3. a \in Seq(Bytes) /\ Len(a) = pl.offset
  <2> DEFINE m == pl.offset
  <2>1. m \in 0..Len(mem) /\ mem \in Seq(Bytes)
    BY <1>1, <1>2
  <2> HIDE DEF m
  <2>2. SubSeq(mem, 1, m) \in Seq(Bytes) /\ Len(SubSeq(mem, 1, m)) = m
    BY <2>1
  <2> QED BY <2>2 DEF m
<1>4. b \in Seq(Bytes) /\ Len(b) = Len(mem) - (pl.offset + Len(bytes))
  <2> DEFINE m == pl.offset + Len(bytes)
  <2>1. m \in 0..Len(mem) /\ Len(mem) \in Nat
    BY <1>1, <1>2
  <2> HIDE DEF m
  <2>2. SubSeq(mem, m + 1, Len(mem)) \in Seq(Bytes)
        /\ Len(SubSeq(mem, m + 1, Len(mem))) = Len(mem) - m
    <3>1. CASE m = Len(mem)
      BY <1>1, <2>1, <3>1
    <3>2. CASE m < Len(mem)
      BY <1>1, <2>1, <3>2, SubSeqProperties
    <3> QED BY <2>1, <3>1, <3>2
  <2> QED BY <2>2 DEF m
<1> HIDE DEF a, b
<1>5. a \o bytes \o b \in Seq(Bytes) /\ Len(a \o bytes \o b) = Len(mem)
  <2>1. a \o bytes \in Seq(Bytes) /\ Len(a \o bytes) = pl.offset + Len(bytes)
    BY <1>3, ConcatProperties
  <2>2. /\ (a \o bytes) \o b \in Seq(Bytes)
        /\ Len((a \o bytes) \o b) = Len(a \o bytes) + Len(b)
    BY <1>4, <2>1, ConcatProperties
  <2>3. (pl.offset + Len(bytes)) + (Len(mem) - (pl.offset + Len(bytes))) = Len(mem)
    BY <1>1, <1>2
  <2> QED BY <1>4, <2>1, <2>2, <2>3, Zenon
<1>6. /\ \A j \in 1..pl.offset : (a \o bytes \o b)[j] = mem[j]
      /\ \A j \in 1..Len(bytes) : (a \o bytes \o b)[pl.offset + j] = bytes[j]
  <2> DEFINE c == a \o bytes
  <2>1. /\ c \in Seq(Bytes) /\ Len(c) = pl.offset + Len(bytes)
        /\ \A j \in 1..Len(a) + Len(bytes) : c[j] = IF j <= Len(a) THEN a[j] ELSE bytes[j - Len(a)]
    <3>1. a \in Seq(Bytes) /\ bytes \in Seq(Bytes) /\ Len(a) = pl.offset
      BY <1>3
    <3> HIDE DEF p, old, i
    <3>2. /\ a \o bytes \in Seq(Bytes) /\ Len(a \o bytes) = Len(a) + Len(bytes)
          /\ \A j \in 1..Len(a) + Len(bytes) :
               (a \o bytes)[j] = IF j <= Len(a) THEN a[j] ELSE bytes[j - Len(a)]
      BY <3>1, ConcatProperties
    <3> QED BY <3>1, <3>2
  <2> HIDE DEF c
  <2>2. \A j \in 1..Len(c) + Len(b) : (c \o b)[j] = IF j <= Len(c) THEN c[j] ELSE b[j - Len(c)]
    <3>1. c \in Seq(Bytes) /\ b \in Seq(Bytes)
      BY <1>4, <2>1
    <3> QED BY <3>1, ConcatProperties
  <2>3. Len(b) \in Nat
    BY <1>4
  <2>4. ASSUME NEW j \in 1..pl.offset PROVE (c \o b)[j] = mem[j]
    <3>1. a[j] = mem[j]
      BY <1>1, <1>2 DEF a
    <3>2. j \in 1..Len(c) + Len(b) /\ j <= Len(c) /\ j \in 1..Len(a) + Len(bytes) /\ j <= Len(a)
      BY <1>2, <1>3, <2>1, <2>3
    <3> QED BY <2>1, <2>2, <3>1, <3>2
  <2>5. ASSUME NEW j \in 1..Len(bytes) PROVE (c \o b)[pl.offset + j] = bytes[j]
    <3> DEFINE m == pl.offset + j
    <3>1. /\ m \in 1..Len(c) + Len(b) /\ m <= Len(c) /\ m \in 1..Len(a) + Len(bytes)
          /\ ~(m <= Len(a)) /\ m - Len(a) = j
      <4> DEFINE o == pl.offset
                 n == Len(bytes)
                 x == Len(b)
      <4>1. /\ o \in Nat /\ n \in Nat /\ x \in Nat /\ j \in 1..n
            /\ Len(c) = o + n /\ Len(a) = o /\ m = o + j
        BY <1>2, <1>3, <2>1, <2>3
      <4> HIDE DEF o, n, x, m
      <4>2. /\ m \in 1..Len(c) + x /\ m <= Len(c) /\ m \in 1..Len(a) + n
            /\ ~(m <= Len(a)) /\ m - Len(a) = j
        BY <4>1
      <4> QED BY <4>2 DEF n, x
    <3> HIDE DEF m
    <3>2. (c \o b)[m] = bytes[j]
      BY <2>1, <2>2, <3>1
    <3> QED BY <3>2 DEF m
  <2> QED BY <2>4, <2>5 DEF c
<1> DEFINE all == a \o bytes \o b
<1> HIDE DEF all
<1>7. p = [size |-> old.size, length |-> old.length, count |-> old.count, mem |-> all]
  <2>1. p = [old EXCEPT !.mem = all]
    BY DEF all
  <2> HIDE DEF p, old
  <2> QED BY <1>1, <2>1 DEF Pool
<1>8. /\ p \in Pool /\ PoolOK(p)
      /\ p.length = old.length /\ p.count = old.count /\ p.size = old.size /\ p.mem = all
  <2>1. all \in Seq(Bytes) /\ Len(all) = old.size + Word
    BY <1>1, <1>5 DEF all
  <2> HIDE DEF p, old
  <2>2. p \in Pool
    BY <1>1, <1>7, <2>1 DEF Pool
  <2>3. p.size = old.size /\ p.mem = all /\ p.length = old.length /\ p.count = old.count
    BY <1>7
  <2> QED BY <1>1, <2>1, <2>2, <2>3 DEF PoolOK
<1>9. Stored(pls, pl, bytes) = [pls EXCEPT ![i] = p]
  <2>1. Stored(pls, pl, bytes) = [pls EXCEPT ![i].mem = a \o bytes \o b]
    BY DEF Stored, a, b, mem
  <2>2. i \in DOMAIN pls
    BY <1>1
  <2> QED BY <2>1, <2>2
<1> HIDE DEF p, old, i
<1>10. /\ [pls EXCEPT ![i] = p] \in Seq(Pool) /\ Len([pls EXCEPT ![i] = p]) = Len(pls)
      /\ \A j \in 1..Len(pls) : [pls EXCEPT ![i] = p][j] = IF j = i THEN p ELSE pls[j]
  BY <1>1, <1>8, ExceptSeq
<1>11. \A j \in 1..Len(pls) : /\ PoolOK([pls EXCEPT ![i] = p][j])
                              /\ [pls EXCEPT ![i] = p][j].length = pls[j].length
                              /\ [pls EXCEPT ![i] = p][j].count = pls[j].count
                              /\ [pls EXCEPT ![i] = p][j].size = pls[j].size
  BY <1>1, <1>8, <1>10 DEF Sound1, old
<1>12. /\ \A j \in 1..pl.offset : p.mem[j] = pls[i].mem[j]
       /\ \A j \in 1..Len(bytes) : p.mem[pl.offset + j] = bytes[j]
  <2>1. p.mem = a \o bytes \o b
    BY <1>8 DEF all
  <2>2. mem = pls[i].mem
    BY DEF mem, old
  <2> QED BY <1>6, <2>1, <2>2
<1>13. /\ \A j \in 1..Len(pls) : j # i => [pls EXCEPT ![i] = p][j].mem = pls[j].mem
       /\ [pls EXCEPT ![i] = p][i] = p
  BY <1>1, <1>10
<1>14. i = pl.pool
  BY DEF i
<1>15. Sound1([pls EXCEPT ![i] = p]) /\ Len([pls EXCEPT ![i] = p]) = Len(pls)
  BY <1>10, <1>11 DEF Sound1
<1> QED BY <1>9, <1>11, <1>12, <1>13, <1>14, <1>15

-----------------------------------------------------------------------------
(***************************************************************************)
(* The parameters ps and the pools pls fit together: whoever has a place   *)
(* in a pool lies inside it, ends, with all that was allocated for it,     *)
(* where the pool goes on, and lies before or behind the others.  The      *)
(* count is theirs.                                                        *)
(***************************************************************************)
Users(ps, i) == {k \in 1..Len(ps) : ps[k].place # None /\ ps[k].place.pool = i}

InPlace(p, pls) ==
    p.place # None =>
        /\ ~p.dirty
        /\ p.place.pool \in 1..Len(pls)
        /\ p.place.offset + Align(SizeOf(p)) <= pls[p.place.pool].length
        /\ p.place.offset + SizeOf(p) <= pls[p.place.pool].size

Apart(p, q) ==
    p.place # None /\ q.place # None /\ p.place.pool = q.place.pool =>
        \/ p.place.offset + Align(SizeOf(p)) <= q.place.offset
        \/ q.place.offset + Align(SizeOf(q)) <= p.place.offset

Sound(ps, pls) ==
    /\ ps \in Seq(Param)
    /\ Sound1(pls)
    /\ \A k \in 1..Len(ps) : InPlace(ps[k], pls)
    /\ \A k, l \in 1..Len(ps) : k # l => Apart(ps[k], ps[l])
    /\ \A i \in 1..Len(pls) : pls[i].count = Cardinality(Users(ps, i))

LEMMA UsersLemma ==
    ASSUME NEW ps \in Seq(Param), NEW i
    PROVE  IsFiniteSet(Users(ps, i)) /\ Cardinality(Users(ps, i)) \in Nat
<1>1. \A m \in Nat : IsFiniteSet(1..m)
  BY FS_Interval
<1>2. IsFiniteSet(1..Len(ps)) /\ Users(ps, i) \subseteq 1..Len(ps)
  BY <1>1 DEF Users
<1> QED BY <1>2, FS_Subset, FS_CardinalityType

LEMMA SizeLemma ==
    ASSUME NEW p \in Param
    PROVE  SizeOf(p) \in Nat /\ p.length <= SizeOf(p)
BY DEF SizeOf, Param

(* No parameter in a pool, and no pool                                     *)
LEMMA EmptySound ==
    ASSUME NEW ps \in Seq(Param), \A k \in 1..Len(ps) : ps[k].place = None
    PROVE  Sound(ps, <<>>)
<1>1. Sound1(<<>>) /\ Len(<<>>) = 0
  BY DEF Sound1
<1> QED BY <1>1 DEF Sound, InPlace, Apart

(* _getOrCreateParam: a new one has no place.                              *)
LEMMA AppendSound ==
    ASSUME NEW ps, NEW pls, Sound(ps, pls), NEW p \in Param, p.place = None
    PROVE  Sound(Append(ps, p), pls)
<1> DEFINE qs == Append(ps, p)
<1>1. /\ qs \in Seq(Param) /\ Len(qs) = Len(ps) + 1 /\ Len(ps) \in Nat
      /\ \A k \in 1..Len(ps) : qs[k] = ps[k]
      /\ qs[Len(ps) + 1] = p
  BY AppendProperties DEF Sound
<1> HIDE DEF qs
<1>2. \A k \in 1..Len(qs) : k \in 1..Len(ps) \/ k = Len(ps) + 1
  BY <1>1
<1>3. \A k \in 1..Len(qs) : InPlace(qs[k], pls)
  BY <1>1, <1>2 DEF Sound, InPlace
<1>4. \A k, l \in 1..Len(qs) : k # l => Apart(qs[k], qs[l])
  BY <1>1, <1>2 DEF Sound, Apart
<1>5. \A i : Users(qs, i) = Users(ps, i)
  BY <1>1, <1>2 DEF Users
<1> QED BY <1>1, <1>3, <1>4, <1>5 DEF Sound, qs

(* What reading a parameter leaves as it is                                *)
Alike(ps, qs) ==
    /\ Len(qs) = Len(ps)
    /\ \A k \in 1..Len(ps) : /\ qs[k].handle = ps[k].handle /\ qs[k].length = ps[k].length
                             /\ qs[k].dirty = ps[k].dirty /\ qs[k].data = ps[k].data

(* The b-th byte of a parameter in a pool                                  *)
ByteAt(pls, p, b) == pls[p.place.pool].mem[p.place.offset + b]

(* Who has a place keeps it, and its bytes.                                *)
SameBytes(p, pls, q, qls) ==
    /\ q.place = p.place
    /\ p.place # None => \A b \in 1..p.length : ByteAt(qls, q, b) = ByteAt(pls, p, b)

(* ConfigurationParameter::_readData                                       *)
LEMMA LoadSound ==
    ASSUME NEW ps, NEW pls, Sound(ps, pls), NEW k \in 1..Len(ps),
           ps[k].place = None, ~ps[k].dirty, NEW data \in Seq(Bytes)
    PROVE  /\ Sound(Load(ps, pls, data, k).params, Load(ps, pls, data, k).pools)
           /\ Alike(ps, Load(ps, pls, data, k).params)
           /\ \A j \in 1..Len(ps) : j # k =>
                SameBytes(ps[j], pls, Load(ps, pls, data, k).params[j],
                          Load(ps, pls, data, k).pools)
           /\ \A b \in 1..ps[k].length :
                ByteAt(Load(ps, pls, data, k).pools, Load(ps, pls, data, k).params[k], b)
                    = ReadAt(data, Offset(ps, k), ps[k].length)[b]
<1> DEFINE n == SizeOf(ps[k])
           length == ps[k].length
           new == Allocate(pls, n)
           read == RoundUp(length + ((DataStart + Offset(ps, k)) % Word), Word)
           nuls == IF length > 0 /\ read <= Align(n) THEN read - length ELSE 0
           bytes == ReadAt(data, Offset(ps, k), length) \o [b \in 1..nuls |-> NUL]
           qs == [ps EXCEPT ![k].place = new.place]
           qls == Stored(new.pools, new.place, bytes)
<1>1. Load(ps, pls, data, k) = [params |-> qs, pools |-> qls]
  BY DEF Load
<1>2. /\ ps \in Seq(Param) /\ Sound1(pls) /\ ps[k] \in Param
      /\ n \in Nat /\ length \in Nat /\ length <= n
      /\ Align(n) \in Nat /\ n < Align(n)
  BY ParamLemma, SizeLemma, AlignLemma DEF Sound
<1>3. PICK i \in Nat :
         /\ new.place = [pool |-> i, offset |-> LengthOf(pls, i)]
         /\ LengthOf(pls, i) \in Nat
         /\ Sound1(new.pools)
         /\ i \in 1..Len(new.pools) /\ Len(pls) <= Len(new.pools)
         /\ new.pools[i].length = LengthOf(pls, i) + Align(n)
         /\ LengthOf(pls, i) + n <= new.pools[i].size
         /\ \A j \in 1..Len(new.pools) :
               /\ new.pools[j].count = CountOf(pls, j) + IF j = i THEN 1 ELSE 0
               /\ j # i => new.pools[j].length = LengthOf(pls, j)
         /\ \A j \in 1..Len(pls) : new.pools[j].mem = pls[j].mem
                                    /\ new.pools[j].size = pls[j].size
  <2> HIDE DEF n
  <2> QED BY <1>2, AllocateLemma DEF n
<1> DEFINE pl == new.place
           all == new.pools
<1>4. pl \in Place /\ pl.pool = i /\ pl.offset = LengthOf(pls, i) /\ pl # None
  BY <1>3, NoneAssumption DEF Place
<1>5. read \in Nat /\ length <= read
  <2>1. \A j \in 1..Len(ps) : ps[j].length \in Nat
    BY <1>2, ParamLemma
  <2>2. Offset(ps, k) \in Nat
    BY <1>2, <2>1, OffsetLemma
  <2>3. Word \in Nat \ {0} /\ DataStart + Offset(ps, k) \in Nat
    BY <2>2, PoolAssumption, ConfigurationAssumption
  <2>4. (DataStart + Offset(ps, k)) % Word \in Nat
    BY <2>3
  <2>5. length + ((DataStart + Offset(ps, k)) % Word) \in Nat
    BY <1>2, <2>4
  <2>6. read \in Nat /\ length + ((DataStart + Offset(ps, k)) % Word) <= read
    BY <2>3, <2>5, RoundUpLemma
  <2> QED BY <1>2, <2>4, <2>6
<1>6. nuls \in Nat /\ length + nuls <= Align(n)
  <2> HIDE DEF read, n
  <2> QED BY <1>2, <1>5
<1>7. /\ bytes \in Seq(Bytes) /\ Len(bytes) <= Align(n)
      /\ \A b \in 1..length : /\ b \in 1..Len(bytes)
                              /\ bytes[b] = ReadAt(data, Offset(ps, k), length)[b]
  <2> DEFINE r == ReadAt(data, Offset(ps, k), length)
             z == [b \in 1..nuls |-> NUL]
  <2>1. r \in Seq(Bytes) /\ Len(r) = length
    <3>1. \A j \in 1..Len(ps) : ps[j].length \in Nat
      BY <1>2, ParamLemma
    <3>2. Offset(ps, k) \in Nat
      BY <1>2, <3>1, OffsetLemma
    <3>3. \A d \in Seq(Bytes), o, m \in Nat :
            ReadAt(d, o, m) \in Seq(Bytes) /\ Len(ReadAt(d, o, m)) = m
      BY ReadAtLemma
    <3> QED BY <1>2, <3>2, <3>3, Zenon
  <2> HIDE DEF nuls
  <2>2. z \in [1..nuls -> Bytes]
    BY DEF Bytes, NUL
  <2> HIDE DEF z
  <2>3. z \in Seq(Bytes) /\ Len(z) = nuls
    <3>1. z \in Seq(Bytes) /\ DOMAIN z = 1..nuls
      BY <1>6, <2>2, SeqDef
    <3> QED BY <1>6, <3>1
  <2> HIDE DEF r
  <2>4. /\ r \o z \in Seq(Bytes) /\ Len(r \o z) = Len(r) + Len(z)
        /\ \A b \in 1..Len(r) + Len(z) : (r \o z)[b] = IF b <= Len(r) THEN r[b] ELSE z[b - Len(r)]
    BY <2>1, <2>3, ConcatProperties
  <2>5. bytes = r \o z
    BY DEF r, z, nuls
  <2> HIDE DEF bytes
  <2>6. ASSUME NEW b \in 1..length PROVE b \in 1..Len(bytes) /\ bytes[b] = r[b]
    <3>1. b \in 1..Len(r) + Len(z) /\ b <= Len(r)
      BY <1>2, <1>6, <2>1, <2>3
    <3> QED BY <2>4, <2>5, <3>1
  <2>7. Len(bytes) <= Align(n)
    BY <1>6, <2>1, <2>3, <2>4, <2>5
  <2>8. bytes \in Seq(Bytes)
    BY <2>4, <2>5
  <2> QED BY <2>6, <2>7, <2>8 DEF r
<1> HIDE DEF nuls, bytes
<1>8. /\ Sound1(qls) /\ Len(qls) = Len(all)
      /\ \A j \in 1..Len(all) : /\ qls[j].length = all[j].length /\ qls[j].count = all[j].count
                                /\ qls[j].size = all[j].size
                                /\ j # i => qls[j].mem = all[j].mem
      /\ \A j \in 1..pl.offset : qls[i].mem[j] = all[i].mem[j]
      /\ \A j \in 1..Len(bytes) : qls[i].mem[pl.offset + j] = bytes[j]
  <2>1. pl.offset + Len(bytes) <= all[pl.pool].size + Word
    <3>1. all[i].length <= all[i].size + Word /\ all[i].size + Word \in Nat
      BY <1>3, PoolAssumption, PoolLemma DEF Sound1, PoolOK
    <3>2. Len(bytes) \in Nat
      BY <1>7
    <3>3. /\ pl.pool = i /\ pl.offset \in Nat /\ Align(n) \in Nat /\ Len(bytes) <= Align(n)
          /\ all[i].length = pl.offset + Align(n)
      BY <1>2, <1>3, <1>4, <1>7
    <3>4. all[i].length \in Nat
      BY <3>3
    <3> HIDE DEF n, pl, all
    <3> QED BY <3>1, <3>2, <3>3, <3>4
  <2>2. Sound1(all) /\ pl.pool \in 1..Len(all) /\ pl \in Place /\ pl.pool = i
    BY <1>3, <1>4
  <2>3. bytes \in Seq(Bytes)
    BY <1>7
  <2>4. qls = Stored(all, pl, bytes)
    OBVIOUS
  <2> HIDE DEF new, pl, all, qls, n, length, read
  <2> DEFINE after == Stored(all, pl, bytes)
  <2>5. /\ Sound1(after) /\ Len(after) = Len(all)
        /\ \A j \in 1..Len(all) : /\ after[j].length = all[j].length
                                  /\ after[j].count = all[j].count
                                  /\ after[j].size = all[j].size
                                  /\ j # pl.pool => after[j].mem = all[j].mem
        /\ \A j \in 1..pl.offset : after[pl.pool].mem[j] = all[pl.pool].mem[j]
        /\ \A j \in 1..Len(bytes) : after[pl.pool].mem[pl.offset + j] = bytes[j]
    BY <2>1, <2>2, <2>3, StoredLemma
  <2>6. after = qls
    BY <2>4
  <2> HIDE DEF after
  <2> QED BY <2>2, <2>5, <2>6
<1> HIDE DEF new, qls
<1>9. /\ qs \in Seq(Param) /\ Len(qs) = Len(ps)
      /\ qs[k] = [ps[k] EXCEPT !.place = pl]
      /\ \A j \in 1..Len(ps) : j # k => qs[j] = ps[j]
  <2> DEFINE q == [ps[k] EXCEPT !.place = pl]
  <2>1. q \in Param
    BY <1>2, <1>4 DEF Param
  <2>2. qs = [ps EXCEPT ![k] = q]
    BY <1>2
  <2> HIDE DEF q, qs
  <2>3. /\ [ps EXCEPT ![k] = q] \in Seq(Param) /\ Len([ps EXCEPT ![k] = q]) = Len(ps)
        /\ \A j \in 1..Len(ps) : [ps EXCEPT ![k] = q][j] = IF j = k THEN q ELSE ps[j]
    BY <1>2, <2>1, ExceptSeq
  <2> QED BY <2>2, <2>3 DEF q
<1>10. /\ qs[k].place = pl /\ SizeOf(qs[k]) = n /\ ~qs[k].dirty
  BY <1>2, <1>9 DEF Param, SizeOf
<1> HIDE DEF qs, pl, all, n
<1>11. \A j \in 1..Len(qs) : InPlace(qs[j], qls)
  <2>1. InPlace(qs[k], qls)
    <3>1. /\ i \in 1..Len(qls) /\ qls[i].length = LengthOf(pls, i) + Align(n)
          /\ LengthOf(pls, i) + n <= qls[i].size
      BY <1>3, <1>8 DEF all
    <3>2. qs[k].place.pool = i /\ qs[k].place.offset = LengthOf(pls, i)
      BY <1>4, <1>10
    <3> QED BY <1>2, <1>3, <1>10, <3>1, <3>2 DEF InPlace
  <2>2. ASSUME NEW j \in 1..Len(ps), j # k, ps[j].place # None PROVE InPlace(ps[j], qls)
    <3> DEFINE m == ps[j].place.pool
               top == ps[j].place.offset + Align(SizeOf(ps[j]))
    <3>1. /\ ~ps[j].dirty /\ m \in 1..Len(pls) /\ top <= pls[m].length
          /\ ps[j].place.offset + SizeOf(ps[j]) <= pls[m].size
      BY <2>2 DEF Sound, InPlace
    <3>2. LengthOf(pls, m) = pls[m].length /\ pls[m].length \in Nat /\ Len(pls) \in Nat
      BY <1>2, <3>1, PoolLemma DEF LengthOf, Sound1
    <3>3. top \in Nat
      <4>1. ps[j] \in Param /\ ps[j].place \in Place
        BY <1>2, <2>2, ParamLemma
      <4>2. Align(SizeOf(ps[j])) \in Nat
        BY <4>1, SizeLemma, AlignLemma
      <4> QED BY <4>1, <4>2 DEF Place
    <3>4. Len(all) \in Nat /\ m \in 1..Len(qls)
      BY <1>3, <1>8, <3>1, <3>2 DEF all, Sound1
    <3>5. qls[m].length = all[m].length
      BY <1>8, <3>4
    <3>6. all[m].length \in Nat /\ pls[m].length <= all[m].length
      <4>1. CASE m = i
        <5>1. all[m].length = LengthOf(pls, m) + Align(n) /\ Align(n) \in Nat
          BY <1>2, <1>3, <4>1 DEF all
        <5> QED BY <3>2, <5>1
      <4>2. CASE m # i
        <5>1. m \in 1..Len(all)
          BY <1>8, <3>4
        <5>2. all[m].length = LengthOf(pls, m)
          BY <1>3, <4>2, <5>1, Zenon DEF all
        <5> QED BY <3>2, <5>2
      <4> QED BY <4>1, <4>2
    <3>7. top <= qls[m].length
      BY <3>1, <3>2, <3>3, <3>5, <3>6
    <3>8. qls[m].size = pls[m].size
      <4>1. qls[m].size = all[m].size
        BY <1>8, <3>4
      <4>2. all[m].size = pls[m].size
        BY <1>3, <3>1 DEF all
      <4> QED BY <4>1, <4>2
    <3> QED BY <3>1, <3>4, <3>7, <3>8 DEF InPlace
  <2>3. ASSUME NEW j \in 1..Len(ps), j # k, ps[j].place = None PROVE InPlace(ps[j], qls)
    BY <2>3 DEF InPlace
  <2> QED BY <1>9, <2>1, <2>2, <2>3
<1>12. \A j, l \in 1..Len(qs) : j # l => Apart(qs[j], qs[l])
  <2>1. ASSUME NEW j \in 1..Len(ps), j # k PROVE Apart(ps[j], qs[k]) /\ Apart(qs[k], ps[j])
    <3> SUFFICES ASSUME ps[j].place # None, ps[j].place.pool = i
                 PROVE  ps[j].place.offset + Align(SizeOf(ps[j])) <= pl.offset
      BY <1>4, <1>10 DEF Apart
    <3>1. InPlace(ps[j], pls)
      BY DEF Sound
    <3> QED BY <1>4, <3>1 DEF InPlace, LengthOf
  <2>2. \A j, l \in 1..Len(ps) : j # l => Apart(ps[j], ps[l])
    BY DEF Sound
  <2> QED BY <1>9, <2>1, <2>2
<1>13. \A j \in 1..Len(qls) : qls[j].count = Cardinality(Users(qs, j))
  <2> SUFFICES ASSUME NEW j \in 1..Len(qls) PROVE qls[j].count = Cardinality(Users(qs, j))
    OBVIOUS
  <2>1. qls[j].count = CountOf(pls, j) + IF j = i THEN 1 ELSE 0
    BY <1>3, <1>8 DEF all
  <2>2. CountOf(pls, j) = Cardinality(Users(ps, j))
    <3>1. CASE j \in 1..Len(pls)
      BY <3>1 DEF CountOf, Sound
    <3>2. CASE j \notin 1..Len(pls)
      <4>1. Users(ps, j) = {}
        BY <3>2 DEF Users, Sound, InPlace
      <4> QED BY <3>2, <4>1, FS_EmptySet DEF CountOf
    <3> QED BY <3>1, <3>2
  <2>3. CASE j = i
    <3>1. Users(qs, j) = Users(ps, j) \cup {k} /\ k \notin Users(ps, j)
      <4>1. \A m \in 1..Len(ps) : m \in Users(qs, j) <=> m \in Users(ps, j) \/ m = k
        BY <1>4, <1>9, <1>10, <2>3 DEF Users
      <4>2. Users(qs, j) \subseteq 1..Len(ps) /\ Users(ps, j) \subseteq 1..Len(ps)
        BY <1>9 DEF Users
      <4>3. k \notin Users(ps, j)
        BY DEF Users
      <4> QED BY <4>1, <4>2, <4>3
    <3>2. Cardinality(Users(ps, j) \cup {k}) = Cardinality(Users(ps, j)) + 1
      BY <1>2, <3>1, UsersLemma, FS_AddElement
    <3> QED BY <2>1, <2>2, <2>3, <3>1, <3>2
  <2>4. CASE j # i
    <3>1. Users(qs, j) = Users(ps, j)
      BY <1>4, <1>9, <1>10, <2>4 DEF Users
    <3>2. Cardinality(Users(ps, j)) \in Nat
      BY <1>2, UsersLemma
    <3> QED BY <2>1, <2>2, <2>4, <3>1, <3>2
  <2> QED BY <2>3, <2>4
<1>14. Sound(qs, qls)
  BY <1>8, <1>9, <1>11, <1>12, <1>13 DEF Sound
<1>15. Alike(ps, qs)
  <2>1. /\ qs[k].handle = ps[k].handle /\ qs[k].length = ps[k].length
        /\ qs[k].dirty = ps[k].dirty /\ qs[k].data = ps[k].data
    BY <1>2, <1>9 DEF Param
  <2> QED BY <1>9, <2>1 DEF Alike
<1>16. ASSUME NEW j \in 1..Len(ps), j # k PROVE SameBytes(ps[j], pls, qs[j], qls)
  <2> DEFINE m == ps[j].place.pool
             o == ps[j].place.offset
             a == Align(SizeOf(ps[j]))
  <2>1. qs[j] = ps[j]
    BY <1>9, <1>16
  <2>2. ASSUME NEW b \in 1..ps[j].length, ps[j].place # None
        PROVE  qls[m].mem[o + b] = pls[m].mem[o + b]
    <3>1. /\ m \in 1..Len(pls) /\ o + a <= pls[m].length /\ LengthOf(pls, m) = pls[m].length
          /\ pls[m].length \in Nat /\ Len(pls) \in Nat
      BY <1>2, <2>2, PoolLemma DEF Sound, InPlace, LengthOf, Sound1
    <3>2. o \in Nat /\ a \in Nat /\ b \in 1..a
      <4>1. ps[j] \in Param /\ ps[j].place \in Place /\ ps[j].length \in Nat
        BY <1>2, <2>2, ParamLemma
      <4>2. SizeOf(ps[j]) \in Nat /\ ps[j].length <= SizeOf(ps[j])
        BY <4>1, SizeLemma
      <4>3. Align(SizeOf(ps[j])) \in Nat /\ SizeOf(ps[j]) < Align(SizeOf(ps[j]))
        BY <4>2, AlignLemma
      <4> QED BY <2>2, <4>1, <4>2, <4>3 DEF Place
    <3> HIDE DEF m, o, a
    <3>3. o + b \in 1..pls[m].length
      BY <3>1, <3>2
    <3>4. m \in 1..Len(all) /\ all[m].mem = pls[m].mem
      BY <1>3, <3>1 DEF all, Sound1
    <3>5. CASE m = i
      BY <1>4, <1>8, <3>1, <3>3, <3>4, <3>5
    <3>6. CASE m # i
      BY <1>8, <3>4, <3>6
    <3> QED BY <3>5, <3>6
  <2> QED BY <2>1, <2>2 DEF SameBytes, ByteAt
<1>17. ASSUME NEW b \in 1..length
       PROVE  ByteAt(qls, qs[k], b) = ReadAt(data, Offset(ps, k), length)[b]
  <2>1. b \in 1..Len(bytes) /\ bytes[b] = ReadAt(data, Offset(ps, k), length)[b]
    BY <1>7
  <2> QED BY <1>4, <1>8, <1>10, <2>1 DEF ByteAt
<1>18. Load(ps, pls, data, k).params = qs /\ Load(ps, pls, data, k).pools = qls
  BY <1>1 DEF qs, qls
<1> QED BY <1>14, <1>15, <1>16, <1>17, <1>18

(* _makeWriteable and Pool::release: the last user of a pool empties it.   *)
LEMMA ChangeSound ==
    ASSUME NEW ps, NEW pls, Sound(ps, pls), NEW k \in 1..Len(ps),
           NEW length \in Nat, NEW data \in Seq(Bytes), Change(ps, pls, k, length, data)
    PROVE  /\ Sound(params', pools')
           /\ Len(params') = Len(ps)
           /\ params'[k] = Dirty(ps[k].handle, length, data)
           /\ \A j \in 1..Len(ps) : j # k =>
                params'[j] = ps[j] /\ SameBytes(ps[j], pls, params'[j], pools')
<1> DEFINE q == Dirty(ps[k].handle, length, data)
           i == ps[k].place.pool
<1>1. /\ params' = [ps EXCEPT ![k] = Dirty(ps[k].handle, length, data)]
      /\ pools' = IF ps[k].place = None THEN pls ELSE Freed(pls, i)
      /\ ps \in Seq(Param) /\ Sound1(pls)
  BY DEF Change, Sound
<1>2. q \in Param /\ q.place = None
  <2>1. ps[k].handle \in Handles
    BY <1>1, ParamLemma
  <2> QED BY <2>1 DEF Dirty, Param
<1> HIDE DEF q
<1>3. /\ params' \in Seq(Param) /\ Len(params') = Len(ps) /\ params'[k] = q
      /\ \A j \in 1..Len(ps) : j # k => params'[j] = ps[j]
  <2>1. /\ [ps EXCEPT ![k] = q] \in Seq(Param) /\ Len([ps EXCEPT ![k] = q]) = Len(ps)
        /\ \A j \in 1..Len(ps) : [ps EXCEPT ![k] = q][j] = IF j = k THEN q ELSE ps[j]
    BY <1>1, <1>2, ExceptSeq
  <2> QED BY <1>1, <2>1 DEF q
<1>4. \A j, l \in 1..Len(params') : j # l => Apart(params'[j], params'[l])
  BY <1>2, <1>3 DEF Sound, Apart
<1>5. CASE ps[k].place = None
  <2>1. pools' = pls
    BY <1>1, <1>5
  <2>2. \A j \in 1..Len(params') : InPlace(params'[j], pools')
    BY <1>2, <1>3, <2>1 DEF Sound, InPlace
  <2>3. \A j : Users(params', j) = Users(ps, j)
    <3> SUFFICES ASSUME NEW j PROVE Users(params', j) = Users(ps, j)
      OBVIOUS
    <3>1. \A m \in 1..Len(ps) : m \in Users(params', j) <=> m \in Users(ps, j)
      BY <1>2, <1>3, <1>5 DEF Users
    <3>2. Users(params', j) \subseteq 1..Len(ps) /\ Users(ps, j) \subseteq 1..Len(ps)
      BY <1>3 DEF Users
    <3> QED BY <3>1, <3>2
  <2>4. \A j \in 1..Len(ps) : j # k => SameBytes(ps[j], pls, params'[j], pools')
    BY <1>3, <2>1 DEF SameBytes, ByteAt
  <2> QED BY <1>1, <1>3, <1>4, <2>1, <2>2, <2>3, <2>4 DEF Sound, q
<1>6. CASE ps[k].place # None
  <2> DEFINE old == pls[i]
             p == [old EXCEPT !.count = @ - 1, !.length = IF old.count = 1 THEN 0 ELSE @]
  <2>1. i \in 1..Len(pls) /\ i \in DOMAIN pls /\ pls \in Seq(Pool)
    BY <1>1, <1>6 DEF Sound, InPlace, Sound1
  <2>2. /\ old \in Pool /\ PoolOK(old) /\ old.size \in Nat /\ old.length \in Nat
        /\ old.count \in Nat /\ old.mem \in Seq(Bytes)
    BY <1>1, <2>1, PoolLemma DEF Sound1
  <2>3. pools' = [pls EXCEPT ![i] = p]
    BY <1>1, <1>6, <2>1 DEF Freed
  <2>4. old.count = Cardinality(Users(ps, i))
    BY <2>1 DEF Sound
  <2>5. k \in Users(ps, i)
    BY <1>6 DEF Users
  <2>6. /\ IsFiniteSet(Users(ps, i))
        /\ Cardinality(Users(ps, i) \ {k}) = old.count - 1
        /\ old.count - 1 \in Nat
        /\ old.count = 1 => Users(ps, i) \ {k} = {}
    <3>1. IsFiniteSet(Users(ps, i))
      BY <1>1, UsersLemma
    <3>2. IsFiniteSet(Users(ps, i) \ {k}) /\ Cardinality(Users(ps, i) \ {k}) = old.count - 1
      BY <2>4, <2>5, <3>1, FS_RemoveElement
    <3>3. Cardinality(Users(ps, i) \ {k}) \in Nat
      BY <3>2, FS_CardinalityType
    <3>4. Cardinality(Users(ps, i) \ {k}) = 0 <=> Users(ps, i) \ {k} = {}
      BY <3>2, FS_EmptySet
    <3> HIDE DEF old
    <3> QED BY <2>2, <3>1, <3>2, <3>3, <3>4
  <2>7. /\ p \in Pool /\ PoolOK(p) /\ p.count = old.count - 1
        /\ p.length = IF old.count = 1 THEN 0 ELSE old.length
        /\ p.mem = old.mem /\ p.size = old.size
    <3> DEFINE top == IF old.count = 1 THEN 0 ELSE old.length
    <3>0. p = [old EXCEPT !.count = old.count - 1, !.length = top]
      BY <2>2 DEF Pool
    <3> HIDE DEF p, old, top
    <3>1. p = [size |-> old.size, length |-> top, count |-> old.count - 1, mem |-> old.mem]
      BY <2>2, <3>0 DEF Pool
    <3>2. top \in Nat /\ top <= old.size + Word
      BY <2>2, PoolAssumption DEF PoolOK, top
    <3>3. p \in Pool
      BY <2>2, <2>6, <3>1, <3>2 DEF Pool
    <3>4. /\ p.size = old.size /\ p.mem = old.mem /\ p.length = top
          /\ p.count = old.count - 1
      BY <3>1
    <3> QED BY <2>2, <3>2, <3>3, <3>4 DEF PoolOK, top
  <2> HIDE DEF p, old
  <2>8. /\ pools' \in Seq(Pool) /\ Len(pools') = Len(pls)
        /\ \A j \in 1..Len(pls) : pools'[j] = IF j = i THEN p ELSE pls[j]
    <3> HIDE DEF i
    <3>1. /\ [pls EXCEPT ![i] = p] \in Seq(Pool) /\ Len([pls EXCEPT ![i] = p]) = Len(pls)
          /\ \A j \in 1..Len(pls) : [pls EXCEPT ![i] = p][j] = IF j = i THEN p ELSE pls[j]
      BY <2>1, <2>7, ExceptSeq
    <3> QED BY <2>3, <3>1
  <2>9. Sound1(pools')
    BY <1>1, <2>7, <2>8 DEF Sound1
  <2>10. \A j : \A m \in 1..Len(ps) : m \in Users(params', j) <=> m \in Users(ps, j) \ {k}
    BY <1>2, <1>3 DEF Users
  <2>11. \A j : Users(params', j) = Users(ps, j) \ {k}
    <3>1. \A j : Users(params', j) \subseteq 1..Len(ps) /\ Users(ps, j) \subseteq 1..Len(ps)
      BY <1>3 DEF Users
    <3> QED BY <2>10, <3>1
  <2>12. ASSUME NEW j \in 1..Len(params') PROVE InPlace(params'[j], pools')
    <3>1. CASE j = k \/ ps[j].place = None
      BY <1>2, <1>3, <3>1 DEF InPlace
    <3>2. CASE j # k /\ ps[j].place # None
      <4>1. params'[j] = ps[j] /\ InPlace(ps[j], pls)
        BY <1>3, <3>2 DEF Sound
      <4>2. CASE ps[j].place.pool = i
        <5>1. j \in Users(ps, i) \ {k}
          BY <1>3, <3>2, <4>2 DEF Users
        <5>2. p.length = old.length
          BY <2>6, <2>7, <5>1
        <5> QED BY <2>1, <2>7, <2>8, <4>1, <4>2, <5>2 DEF InPlace, old
      <4>3. CASE ps[j].place.pool # i
        BY <2>8, <4>1, <4>3 DEF InPlace
      <4> QED BY <4>2, <4>3
    <3> QED BY <3>1, <3>2
  <2>13. ASSUME NEW j \in 1..Len(pools') PROVE pools'[j].count = Cardinality(Users(params', j))
    <3>1. CASE j = i
      BY <2>6, <2>7, <2>8, <2>11, <3>1
    <3>2. CASE j # i
      <4>1. Users(params', j) = Users(ps, j)
        BY <2>11, <3>2 DEF Users
      <4> QED BY <2>8, <3>2, <4>1 DEF Sound
    <3> QED BY <3>1, <3>2
  <2>14. ASSUME NEW j \in 1..Len(ps), j # k PROVE SameBytes(ps[j], pls, params'[j], pools')
    <3>1. params'[j] = ps[j]
      BY <1>3, <2>14
    <3>2. ASSUME ps[j].place # None
          PROVE  pools'[ps[j].place.pool].mem = pls[ps[j].place.pool].mem
      <4>1. ps[j].place.pool \in 1..Len(pls)
        BY <3>2 DEF Sound, InPlace
      <4> QED BY <2>7, <2>8, <4>1 DEF old
    <3> QED BY <3>1, <3>2 DEF SameBytes, ByteAt
  <2> QED BY <1>3, <1>4, <2>9, <2>12, <2>13, <2>14 DEF Sound, q
<1> QED BY <1>5, <1>6

-----------------------------------------------------------------------------
(* A length a parameter can have ...                                       *)
FineLength(h, n) == h \notin Strings => \A v \in Values[h] : Len(v) = n

(* ... and what a changed one has in memory                                *)
FineData(p) == Len(p.data) = SizeOf(p)

Fine(p) == FineLength(p.handle, p.length) /\ (p.dirty => FineData(p))

Distinct(s) == \A k, l \in 1..Len(s) : k # l => s[k].handle # s[l].handle

FineHeaders(i) ==
    i # None =>
        /\ Distinct(i.headers)
        /\ \A k \in 1..Len(i.headers) : FineLength(i.headers[k].handle, i.headers[k].length)

FineParams(ps) ==
    /\ \A k \in 1..Len(ps) : Fine(ps[k])
    /\ Distinct(ps)

(* The inductive invariant: the pools and the parameters fit together, and *)
(* so will those that are read from the EEPROM, which is readable unless   *)
(* commit() runs.                                                          *)
IInv ==
    /\ Sound(params, pools)
    /\ FineParams(params)
    /\ flash \in Images \cup {None} /\ FineHeaders(flash)
    /\ image \in Images \cup {None} /\ FineHeaders(image)
    /\ image = None => flash # None
    /\ resized \subseteq 1..Len(params)

-----------------------------------------------------------------------------
(* strlen() of a string with a NUL at m + 1                                *)
LEMMA UpToNulLemma ==
    ASSUME NEW d \in Seq(Bytes), NEW m \in Nat, m < Len(d),
           d[m + 1] = NUL, \A b \in 1..m : d[b] # NUL
    PROVE  UpToNul(d) = SubSeq(d, 1, m) /\ Len(UpToNul(d)) = m
<1> DEFINE nuls == {b \in DOMAIN d : d[b] = NUL}
<1>1. nuls \in SUBSET Nat /\ m + 1 \in nuls
  OBVIOUS
<1>2. Min(nuls) \in nuls /\ \A y \in nuls : Min(nuls) <= y
  BY <1>1, MinLemma
<1>3. Min(nuls) \in Nat \ {0} /\ Min(nuls) <= m + 1 /\ Min(nuls) \notin 1..m
  BY <1>1, <1>2
<1>4. Min(nuls) = m + 1
  BY <1>3
<1>5. nuls # {}
  BY <1>1
<1>6. UpToNul(d) = SubSeq(d, 1, Min(nuls) - 1)
  BY <1>5 DEF UpToNul
<1> HIDE DEF nuls
<1>7. UpToNul(d) = SubSeq(d, 1, m)
  BY <1>4, <1>6
<1> QED BY <1>7

(* strlen() of anything                                                    *)
LEMMA StrlenLemma ==
    ASSUME NEW d \in Seq(Bytes)
    PROVE  /\ UpToNul(d) \in Seq(Bytes)
           /\ Len(UpToNul(d)) \in 0..Len(d)
           /\ UpToNul(d) = SubSeq(d, 1, Len(UpToNul(d)))
<1> DEFINE nuls == {b \in DOMAIN d : d[b] = NUL}
<1>1. Len(d) \in Nat /\ DOMAIN d = 1..Len(d)
  OBVIOUS
<1>2. CASE nuls = {}
  <2>1. UpToNul(d) = d
    BY <1>2 DEF UpToNul
  <2>2. SubSeq(d, 1, Len(d)) = d
    OBVIOUS
  <2> QED BY <1>1, <2>1, <2>2
<1>3. CASE nuls # {}
  <2> DEFINE m == Min(nuls) - 1
  <2>1. nuls \in SUBSET Nat
    BY <1>1
  <2>2. Min(nuls) \in nuls /\ \A y \in nuls : Min(nuls) <= y
    BY <1>3, <2>1, MinLemma
  <2>3. Min(nuls) \in 1..Len(d)
    BY <1>1, <2>2
  <2>4. UpToNul(d) = SubSeq(d, 1, m)
    BY <1>3 DEF UpToNul
  <2>5. m \in 0..Len(d)
    BY <1>1, <2>3
  <2> HIDE DEF m, nuls
  <2>6. SubSeq(d, 1, m) \in Seq(Bytes) /\ Len(SubSeq(d, 1, m)) = m
    BY <1>1, <2>5
  <2> QED BY <2>4, <2>5, <2>6
<1> QED BY <1>2, <1>3

(* A value in memory                                                       *)
LEMMA ValueLemma ==
    ASSUME NEW h \in Handles, NEW v \in Values[h]
    PROVE  /\ v \in Seq(Bytes) /\ Len(v) \in Nat
           /\ h \in Strings => \A b \in 1..Len(v) : v[b] # NUL
           /\ InMemory(h, v) \in Seq(Bytes)
           /\ Len(InMemory(h, v)) = IF h \in Strings THEN Len(v) + 1 ELSE Len(v)
           /\ h \in Strings => UpToNul(InMemory(h, v)) = v
           /\ h \notin Strings => InMemory(h, v) = v
<1>1. v \in Seq(Nat) /\ (h \in Strings => v \in Seq(Nat \ {NUL}))
  BY ConfigurationAssumption
<1>2. /\ v \in Seq(Bytes) /\ Len(v) \in Nat
      /\ h \in Strings => \A b \in 1..Len(v) : v[b] # NUL
  BY <1>1 DEF Bytes
<1>3. NUL \in Bytes
  BY DEF Bytes, NUL
<1>4. CASE h \in Strings
  <2>1. InMemory(h, v) = Append(v, NUL)
    BY <1>4 DEF InMemory
  <2>2. /\ Append(v, NUL) \in Seq(Bytes) /\ Len(Append(v, NUL)) = Len(v) + 1
        /\ \A b \in 1..Len(v) : Append(v, NUL)[b] = v[b]
        /\ Append(v, NUL)[Len(v) + 1] = NUL
    BY <1>2, <1>3, AppendProperties
  <2>3. UpToNul(Append(v, NUL)) = v
    <3> DEFINE d == Append(v, NUL)
    <3>1. d \in Seq(Bytes) /\ Len(v) < Len(d) /\ d[Len(v) + 1] = NUL
          /\ \A b \in 1..Len(v) : d[b] # NUL /\ d[b] = v[b]
      BY <1>2, <1>4, <2>2
    <3> HIDE DEF d
    <3>2. UpToNul(d) = SubSeq(d, 1, Len(v))
      BY <1>2, <3>1, UpToNulLemma
    <3>3. SubSeq(d, 1, Len(v)) = v
      BY <1>2, <3>1
    <3> QED BY <3>2, <3>3 DEF d
  <2> QED BY <1>2, <1>4, <2>1, <2>2, <2>3
<1>5. CASE h \notin Strings
  BY <1>2, <1>5 DEF InMemory
<1> QED BY <1>4, <1>5

LEMMA DirtyLemma ==
    ASSUME NEW h \in Handles, NEW n \in Nat, NEW d \in Seq(Bytes)
    PROVE  /\ Dirty(h, n, d) \in Param
           /\ Dirty(h, n, d).handle = h /\ Dirty(h, n, d).length = n
           /\ Dirty(h, n, d).data = d /\ Dirty(h, n, d).dirty /\ Dirty(h, n, d).place = None
BY DEF Dirty, Param

LEMMA CleanLemma ==
    ASSUME NEW h \in Handles, NEW n \in Nat
    PROVE  /\ Clean(h, n, None) \in Param
           /\ Clean(h, n, None).handle = h /\ Clean(h, n, None).length = n
           /\ ~Clean(h, n, None).dirty /\ Clean(h, n, None).place = None
BY DEF Clean, Param

(* setString and set                                                       *)
LEMMA SetFine ==
    ASSUME NEW h \in Handles, NEW v \in Values[h]
    PROVE  Fine(Dirty(h, Len(v), InMemory(h, v)))
<1> DEFINE p == Dirty(h, Len(v), InMemory(h, v))
<1>1. /\ Len(v) \in Nat /\ InMemory(h, v) \in Seq(Bytes)
      /\ Len(InMemory(h, v)) = IF h \in Strings THEN Len(v) + 1 ELSE Len(v)
      /\ h \notin Strings => InMemory(h, v) = v
  BY ValueLemma
<1>2. p.handle = h /\ p.length = Len(v) /\ p.data = InMemory(h, v) /\ p.dirty
  BY <1>1, DirtyLemma
<1> HIDE DEF p
<1>3. FineLength(h, Len(v))
  BY ConfigurationAssumption DEF FineLength
<1>4. Len(p.data) = SizeOf(p)
  BY <1>1, <1>2 DEF SizeOf
<1> QED BY <1>1, <1>2, <1>3, <1>4 DEF Fine, FineData, p

(* getWriteableString                                                      *)
Buffer(v) == [b \in 1..MaxLength + 1 |-> IF b <= Len(v) THEN v[b] ELSE NUL]

LEMMA EditFine ==
    ASSUME NEW h \in Strings, NEW v \in Values[h], Len(v) <= MaxLength
    PROVE  /\ Buffer(v) \in Seq(Bytes) /\ Fine(Dirty(h, MaxLength, Buffer(v)))
           /\ UpToNul(Buffer(v)) = v
<1>1. h \in Handles /\ MaxLength \in Nat
  BY ConfigurationAssumption
<1>2. v \in Seq(Bytes) /\ Len(v) \in Nat /\ \A b \in 1..Len(v) : v[b] # NUL
  BY <1>1, ValueLemma
<1> DEFINE d == Buffer(v)
           p == Dirty(h, MaxLength, d)
<1>3. d \in Seq(Bytes) /\ Len(d) = MaxLength + 1 /\ MaxLength + 1 \in Nat
  <2>1. d \in [1..MaxLength + 1 -> Bytes]
    <3>1. ASSUME NEW b \in 1..MaxLength + 1, b <= Len(v) PROVE v[b] \in Bytes
      <4>1. b \in 1..Len(v)
        BY <1>2, <3>1
      <4> QED BY <1>2, <4>1
    <3>2. NUL \in Bytes
      BY DEF Bytes, NUL
    <3> QED BY <3>1, <3>2 DEF Buffer
  <2> HIDE DEF d
  <2>2. d \in Seq(Bytes) /\ DOMAIN d = 1..MaxLength + 1
    BY <1>1, <2>1, SeqDef
  <2> QED BY <1>1, <2>2
<1>4. UpToNul(d) = v
  <2>1. d[Len(v) + 1] = NUL /\ \A b \in 1..Len(v) : d[b] # NUL /\ d[b] = v[b]
    BY <1>1, <1>2 DEF Buffer
  <2> HIDE DEF d
  <2>2. Len(v) < Len(d)
    BY <1>1, <1>2, <1>3
  <2>3. UpToNul(d) = SubSeq(d, 1, Len(v))
    BY <1>2, <1>3, <2>1, <2>2, UpToNulLemma
  <2>4. SubSeq(d, 1, Len(v)) = v
    BY <1>2, <1>3, <2>1, <2>2
  <2> QED BY <2>3, <2>4
<1> HIDE DEF d
<1>5. p.handle = h /\ p.length = MaxLength /\ p.data = d /\ p.dirty
  BY <1>1, <1>3, DirtyLemma
<1> HIDE DEF p
<1>6. FineLength(h, MaxLength)
  BY DEF FineLength
<1>7. Len(p.data) = SizeOf(p)
  BY <1>3, <1>5 DEF SizeOf
<1> QED BY <1>3, <1>4, <1>5, <1>6, <1>7 DEF Fine, FineData, p, d

-----------------------------------------------------------------------------
(* _readParams, release() and discard(): no parameter is in memory.        *)
LEMMA UnloadedLemma ==
    ASSUME NEW S, NEW hs \in Seq(S), Distinct(hs),
           \A k \in 1..Len(hs) : /\ hs[k].handle \in Handles /\ hs[k].length \in Nat
                                 /\ FineLength(hs[k].handle, hs[k].length)
    PROVE  /\ Sound(Unloaded(hs), <<>>) /\ FineParams(Unloaded(hs))
           /\ Len(Unloaded(hs)) = Len(hs)
<1> DEFINE n == Len(hs)
           ps == Unloaded(hs)
<1>1. n \in Nat /\ DOMAIN hs = 1..n
  OBVIOUS
<1>2. \A k \in 1..n : ps[k] = Clean(hs[k].handle, hs[k].length, None)
  BY DEF Unloaded
<1>3. \A k \in 1..n : /\ ps[k] \in Param
                      /\ ps[k].handle = hs[k].handle /\ ps[k].length = hs[k].length
                      /\ ~ps[k].dirty /\ ps[k].place = None
  BY <1>2, CleanLemma
<1>4. ps \in [1..n -> Param]
  BY <1>1, <1>3 DEF Unloaded
<1> HIDE DEF ps
<1>5. ps \in Seq(Param) /\ DOMAIN ps = 1..n
  <2> HIDE DEF n
  <2> QED BY <1>1, <1>4, SeqDef
<1>6. Len(ps) = n
  BY <1>1, <1>5
<1>7. Sound(ps, <<>>)
  BY <1>3, <1>5, <1>6, EmptySound
<1>8. FineParams(ps)
  BY <1>3, <1>6 DEF FineParams, Fine, Distinct
<1> QED BY <1>6, <1>7, <1>8 DEF ps

(* Configuration::write: what it writes can be read again.                 *)
LEMMA StoreLemma ==
    ASSUME NEW ps \in Seq(Param), Distinct(ps), NEW old \in Seq(Bytes),
           \A k \in 1..Len(ps) : Filled(ps[k]) /\ FineLength(ps[k].handle, ps[k].length)
    PROVE  /\ Image(ps, old) \in Images /\ FineHeaders(Image(ps, old))
           /\ Sound(Unloaded(Image(ps, old).headers), <<>>)
           /\ FineParams(Unloaded(Image(ps, old).headers))
<1> DEFINE i == Image(ps, old)
           hs == i.headers
<1>1. /\ i \in Images /\ Len(hs) = Len(ps)
      /\ \A k \in 1..Len(ps) : hs[k].handle = ps[k].handle /\ hs[k].length = ps[k].length
  BY ImageLemma
<1> HIDE DEF i
<1>2. hs \in Seq(Header)
  BY <1>1 DEF Images
<1>3. \A k \in 1..Len(ps) : ps[k].handle \in Handles /\ ps[k].length \in Nat
  BY ParamLemma
<1> HIDE DEF hs
<1>4. Distinct(hs)
  BY <1>1 DEF Distinct
<1>5. \A k \in 1..Len(hs) : /\ hs[k].handle \in Handles /\ hs[k].length \in Nat
                            /\ FineLength(hs[k].handle, hs[k].length)
  BY <1>1, <1>3
<1>6. FineHeaders(i)
  BY <1>4, <1>5 DEF FineHeaders, hs
<1>7. Sound(Unloaded(hs), <<>>) /\ FineParams(Unloaded(hs))
  BY <1>2, <1>4, <1>5, UnloadedLemma
<1> QED BY <1>1, <1>6, <1>7 DEF hs, i

(* A dirty string gets its real length.                                    *)
LEMMA MeasuredLemma ==
    ASSUME NEW ps \in Seq(Param), FineParams(ps)
    PROVE  /\ Measured(ps) \in Seq(Param) /\ Distinct(Measured(ps))
           /\ Len(Measured(ps)) = Len(ps)
           /\ \A k \in 1..Len(ps) : /\ Filled(Measured(ps)[k])
                                    /\ FineLength(Measured(ps)[k].handle, Measured(ps)[k].length)
<1> DEFINE n == Len(ps)
           ms == Measured(ps)
<1>1. n \in Nat /\ DOMAIN ps = 1..n
  OBVIOUS
<1>2. ASSUME NEW k \in 1..n
      PROVE  /\ ms[k] \in Param /\ ms[k].handle = ps[k].handle
             /\ Filled(ms[k]) /\ FineLength(ms[k].handle, ms[k].length)
  <2> DEFINE p == ps[k]
             m == Len(UpToNul(p.data))
  <2>1. p \in Param /\ p.handle \in Handles /\ p.length \in Nat /\ p.data \in Seq(Bytes)
    BY ParamLemma
  <2>2. Fine(p)
    BY DEF FineParams
  <2>3. ms[k] = IF p.dirty THEN [p EXCEPT !.length = RealLength(p)] ELSE p
    BY <1>1 DEF Measured
  <2>4. m \in 0..Len(p.data)
    BY <2>1, StrlenLemma
  <2>5. RealLength(p) = IF p.handle \in Strings THEN m ELSE p.length
    BY DEF RealLength
  <2> HIDE DEF ms, m, p
  <2>6. CASE p.dirty
    <3> DEFINE r == RealLength(p)
    <3>1. r \in Nat /\ r <= Len(p.data) /\ FineLength(p.handle, r)
      <4>1. CASE p.handle \in Strings
        BY <2>1, <2>4, <2>5, <4>1 DEF FineLength
      <4>2. CASE p.handle \notin Strings
        BY <2>1, <2>2, <2>5, <2>6, <4>2 DEF Fine, FineData, SizeOf
      <4> QED BY <4>1, <4>2
    <3> HIDE DEF r
    <3>2. /\ ms[k] \in Param /\ ms[k].handle = p.handle /\ ms[k].length = r
          /\ ms[k].data = p.data
      BY <2>1, <2>3, <2>6, <3>1 DEF Param, r
    <3> QED BY <3>1, <3>2 DEF Filled, p
  <2>7. CASE ~p.dirty
    BY <2>1, <2>2, <2>3, <2>7 DEF Fine, Filled, p
  <2> QED BY <2>6, <2>7
<1>3. ms \in [1..n -> Param]
  BY <1>1, <1>2 DEF Measured
<1> HIDE DEF ms
<1>4. ms \in Seq(Param) /\ DOMAIN ms = 1..n
  <2> HIDE DEF n
  <2> QED BY <1>1, <1>3, SeqDef
<1>5. Len(ms) = n
  BY <1>1, <1>4
<1>6. Distinct(ms)
  BY <1>2, <1>5 DEF FineParams, Distinct
<1> QED BY <1>2, <1>4, <1>5, <1>6 DEF ms

(* restoreFactorySettings                                                  *)
LEMMA FactoryLemma == FactoryParams \in Seq(Param) /\ FineParams(FactoryParams)
<1> DEFINE n == Len(Order)
           ps == FactoryParams
<1>1. Order \in Seq(Handles) /\ n \in Nat /\ DOMAIN Order = 1..n
  BY ConfigurationAssumption
<1>2. \A k \in 1..n : Order[k] \in Handles /\ Factory[Order[k]] \in Values[Order[k]]
  <2>1. \A k \in 1..n : Order[k] \in ToSet(Order)
    BY <1>1 DEF ToSet
  <2> QED BY <1>1, <2>1, ConfigurationAssumption
<1>3. ASSUME NEW k \in 1..n
      PROVE  /\ ps[k] \in Param /\ ps[k].handle = Order[k] /\ ps[k].place = None
             /\ Fine(ps[k])
  <2> DEFINE h == Order[k]
             v == Factory[Order[k]]
  <2>1. ps[k] = Dirty(h, Len(v), InMemory(h, v))
    BY <1>1 DEF FactoryParams
  <2>2. h \in Handles /\ v \in Values[h]
    BY <1>2
  <2> HIDE DEF h, v
  <2>3. Len(v) \in Nat /\ InMemory(h, v) \in Seq(Bytes)
    BY <2>2, ValueLemma
  <2>4. Fine(Dirty(h, Len(v), InMemory(h, v)))
    BY <2>2, SetFine
  <2> QED BY <2>1, <2>2, <2>3, <2>4, DirtyLemma DEF h
<1>4. ps \in [1..n -> Param]
  BY <1>1, <1>3 DEF FactoryParams
<1> HIDE DEF ps
<1>5. ps \in Seq(Param) /\ DOMAIN ps = 1..n
  <2> HIDE DEF n
  <2> QED BY <1>1, <1>4, SeqDef
<1>6. Len(ps) = n
  BY <1>1, <1>5
<1>7. Distinct(ps)
  <2>1. \A k, l \in 1..n : k # l => Order[k] # Order[l]
    BY <1>1, ConfigurationAssumption DEF IsInjective
  <2> QED BY <1>3, <1>6, <2>1 DEF Distinct
<1> QED BY <1>3, <1>5, <1>6, <1>7 DEF FineParams, ps

-----------------------------------------------------------------------------
(* Who is alike is as fine.                                                *)
LEMMA AlikeFine ==
    ASSUME NEW ps, NEW qs, Alike(ps, qs), FineParams(ps)
    PROVE  FineParams(qs)
<1>1. ASSUME NEW k \in 1..Len(ps) PROVE Fine(qs[k])
  <2>1. Fine(ps[k])
    BY DEF FineParams
  <2>2. /\ qs[k].handle = ps[k].handle /\ qs[k].length = ps[k].length
        /\ qs[k].dirty = ps[k].dirty /\ qs[k].data = ps[k].data
    BY DEF Alike
  <2>3. SizeOf(qs[k]) = SizeOf(ps[k])
    BY <2>2 DEF SizeOf
  <2> QED BY <2>1, <2>2, <2>3 DEF Fine, FineData
<1>2. Distinct(qs)
  BY DEF FineParams, Alike, Distinct
<1>3. Len(qs) = Len(ps)
  BY DEF Alike
<1> QED BY <1>1, <1>2, <1>3 DEF FineParams

LEMMA LoadedLemma ==
    ASSUME NEW ps, NEW pls, Sound(ps, pls), FineParams(ps),
           NEW k \in 1..Len(ps), NEW data \in Seq(Bytes)
    PROVE  /\ Sound(Loaded(ps, pls, data, k).params, Loaded(ps, pls, data, k).pools)
           /\ Alike(ps, Loaded(ps, pls, data, k).params)
           /\ FineParams(Loaded(ps, pls, data, k).params)
<1> DEFINE l == Loaded(ps, pls, data, k)
<1>1. ps \in Seq(Param) /\ ps[k] \in Param
  BY ParamLemma DEF Sound
<1>2. Sound(l.params, l.pools) /\ Alike(ps, l.params)
  <2>1. CASE ps[k].dirty \/ ps[k].place # None
    BY <2>1 DEF Loaded, Alike
  <2>2. CASE ~(ps[k].dirty \/ ps[k].place # None)
    <3>1. l = Load(ps, pls, data, k)
      BY <2>2 DEF Loaded
    <3>2. /\ Sound(Load(ps, pls, data, k).params, Load(ps, pls, data, k).pools)
          /\ Alike(ps, Load(ps, pls, data, k).params)
      BY <2>2, LoadSound
    <3> QED BY <3>1, <3>2
  <2> QED BY <2>1, <2>2
<1> HIDE DEF l
<1>3. FineParams(l.params)
  BY <1>2, AlikeFine
<1> QED BY <1>2, <1>3 DEF l

(* All but one are fine.                                                   *)
FineBut(ps, k) == Distinct(ps) /\ \A j \in 1..Len(ps) : j # k => Fine(ps[j])

LEMMA ChangeLemma ==
    ASSUME NEW ps, NEW pls, Sound(ps, pls), NEW k \in 1..Len(ps), FineBut(ps, k),
           NEW length \in Nat, NEW data \in Seq(Bytes), Change(ps, pls, k, length, data),
           Fine(Dirty(ps[k].handle, length, data))
    PROVE  /\ Sound(params', pools') /\ FineParams(params')
           /\ Len(params') = Len(ps) /\ resized' \subseteq resized \cup {k}
<1>1. /\ Sound(params', pools')
      /\ Len(params') = Len(ps)
      /\ params'[k] = Dirty(ps[k].handle, length, data)
      /\ \A j \in 1..Len(ps) : j # k => params'[j] = ps[j]
  BY ChangeSound
<1>2. params'[k].handle = ps[k].handle
  BY <1>1 DEF Dirty
<1>3. Distinct(params')
  BY <1>1, <1>2 DEF FineBut, Distinct
<1>4. \A j \in 1..Len(ps) : Fine(params'[j])
  BY <1>1 DEF FineBut
<1>5. resized' \subseteq resized \cup {k}
  BY DEF Change
<1> QED BY <1>1, <1>3, <1>4, <1>5 DEF FineParams

(* _getOrCreateParam                                                       *)
LEMMA WithParamLemma ==
    ASSUME Sound(params, pools), FineParams(params), NEW h \in Handles
    PROVE  /\ Sound(WithParam(h), pools) /\ 1..Len(params) \subseteq 1..Len(WithParam(h))
           /\ \A k \in Find(WithParam(h), h) :
                /\ k \in 1..Len(WithParam(h)) /\ WithParam(h)[k].handle = h
                /\ FineBut(WithParam(h), k)
           /\ h \in Strings => FineParams(WithParam(h))
<1> DEFINE ps == WithParam(h)
           p == Clean(h, 0, None)
<1>1. params \in Seq(Param) /\ Len(params) \in Nat /\ DOMAIN params = 1..Len(params)
  BY DEF Sound
<1>2. CASE Find(params, h) # {}
  <2>1. ps = params
    BY <1>2 DEF WithParam
  <2> HIDE DEF ps
  <2>2. \A k \in Find(ps, h) : k \in 1..Len(ps) /\ ps[k].handle = h
    BY <1>1, <2>1 DEF Find
  <2>3. \A k : FineBut(ps, k)
    BY <2>1 DEF FineBut, FineParams
  <2> QED BY <2>1, <2>2, <2>3 DEF ps
<1>3. CASE Find(params, h) = {}
  <2>1. ps = Append(params, p)
    BY <1>3 DEF WithParam
  <2>2. p \in Param /\ p.handle = h /\ p.length = 0 /\ ~p.dirty /\ p.place = None
    BY CleanLemma
  <2> HIDE DEF p, ps
  <2>3. Sound(ps, pools)
    BY <2>1, <2>2, AppendSound
  <2>4. /\ Len(ps) = Len(params) + 1 /\ DOMAIN ps = 1..Len(ps)
        /\ \A j \in 1..Len(params) : ps[j] = params[j]
        /\ ps[Len(params) + 1] = p
    BY <1>1, <2>1, <2>2, AppendProperties
  <2>5. \A j \in 1..Len(params) : params[j].handle # h
    BY <1>1, <1>3 DEF Find
  <2>6. \A j \in 1..Len(ps) : j \in 1..Len(params) \/ j = Len(params) + 1
    BY <1>1, <2>4
  <2>7. Distinct(ps)
    BY <2>2, <2>4, <2>5, <2>6 DEF FineParams, Distinct
  <2>8. ASSUME NEW k \in Find(ps, h)
        PROVE  k \in 1..Len(ps) /\ ps[k].handle = h /\ FineBut(ps, k)
    <3>1. k \in 1..Len(ps) /\ ps[k].handle = h
      BY <2>4 DEF Find
    <3>2. k = Len(params) + 1
      BY <2>4, <2>5, <2>6, <3>1
    <3>3. \A j \in 1..Len(ps) : j # k => Fine(ps[j])
      BY <2>4, <2>6, <3>2 DEF FineParams
    <3> QED BY <2>7, <3>1, <3>3 DEF FineBut
  <2>9. ASSUME h \in Strings PROVE FineParams(ps)
    <3>1. FineLength(h, 0)
      BY <2>9 DEF FineLength
    <3>2. Fine(p)
      BY <2>2, <3>1 DEF Fine
    <3>3. \A j \in 1..Len(ps) : Fine(ps[j])
      BY <2>4, <2>6, <3>2 DEF FineParams
    <3> QED BY <2>7, <3>3 DEF FineParams
  <2>10. 1..Len(params) \subseteq 1..Len(ps)
    BY <1>1, <2>4
  <2> QED BY <2>3, <2>8, <2>9, <2>10 DEF ps
<1> QED BY <1>2, <1>3

-----------------------------------------------------------------------------
(* The steps of the configuration.                                         *)
LEMMA ImagesLemma ==
    ASSUME NEW i \in Images \cup {None}, i # None
    PROVE  i.headers \in Seq(Header) /\ i.data \in Seq(Bytes)
BY DEF Images

LEMMA OldLemma ==
    ASSUME IInv
    PROVE  (IF flash = None THEN <<>> ELSE flash.data) \in Seq(Bytes)
<1>1. CASE flash = None
  BY <1>1
<1>2. CASE flash # None
  <2>1. flash.data \in Seq(Bytes)
    BY <1>2, ImagesLemma DEF IInv
  <2> QED BY <1>2, <2>1
<1> QED BY <1>1, <1>2

LEMMA ImageNotNone == ASSUME NEW i \in Images PROVE i # None
BY NoneAssumption

LEMMA StartWriteStep ==
    ASSUME IInv, NEW ps \in Seq(Param), FineParams(ps), StartWrite(ps)
    PROVE  IInv'
<1> DEFINE old == IF flash = None THEN <<>> ELSE flash.data
           ms == Measured(ps)
<1>1. old \in Seq(Bytes)
  BY OldLemma
<1>2. /\ image' = Image(ms, old) /\ params' = Unloaded(image'.headers)
      /\ pools' = <<>> /\ flash' = None /\ resized' = {}
  BY DEF StartWrite
<1> HIDE DEF old
<1>3. /\ ms \in Seq(Param) /\ Distinct(ms)
      /\ \A k \in 1..Len(ms) : Filled(ms[k]) /\ FineLength(ms[k].handle, ms[k].length)
  BY MeasuredLemma
<1> HIDE DEF ms
<1>4. /\ Image(ms, old) \in Images /\ FineHeaders(Image(ms, old))
      /\ Sound(Unloaded(Image(ms, old).headers), <<>>)
      /\ FineParams(Unloaded(Image(ms, old).headers))
  BY <1>1, <1>3, StoreLemma
<1>5. Sound(params', pools') /\ FineParams(params')
  BY <1>2, <1>4
<1>6. image' \in Images \cup {None} /\ FineHeaders(image') /\ image' # None
  BY <1>2, <1>4, ImageNotNone
<1>7. flash' \in Images \cup {None} /\ FineHeaders(flash')
  BY <1>2 DEF FineHeaders
<1> QED BY <1>2, <1>5, <1>6, <1>7 DEF IInv

(* _readParams                                                             *)
LEMMA ReadBack ==
    ASSUME NEW i \in Images \cup {None}, i # None, FineHeaders(i)
    PROVE  Sound(Unloaded(i.headers), <<>>) /\ FineParams(Unloaded(i.headers))
<1> DEFINE hs == i.headers
<1>1. hs \in Seq(Header)
  BY ImagesLemma
<1>2. Distinct(hs) /\ \A k \in 1..Len(hs) : FineLength(hs[k].handle, hs[k].length)
  BY DEF FineHeaders
<1> HIDE DEF hs
<1>3. \A k \in 1..Len(hs) : hs[k].handle \in Handles /\ hs[k].length \in Nat
  <2> SUFFICES ASSUME NEW k \in 1..Len(hs) PROVE hs[k].handle \in Handles /\ hs[k].length \in Nat
    OBVIOUS
  <2>1. hs[k] \in Header
    BY <1>1, ElementOfSeq
  <2> QED BY <2>1 DEF Header
<1>4. Sound(Unloaded(hs), <<>>) /\ FineParams(Unloaded(hs))
  BY <1>1, <1>2, <1>3, UnloadedLemma
<1> QED BY <1>4 DEF hs

LEMMA InitIInv == Init => IInv
<1> SUFFICES ASSUME Init PROVE IInv
  OBVIOUS
<1> DEFINE ps == FactoryParams
           i == Image(ps, <<>>)
<1>1. ps \in Seq(Param) /\ FineParams(ps)
  BY FactoryLemma
<1>2. /\ flash = i /\ params = Unloaded(flash.headers) /\ pools = <<>> /\ image = None
      /\ resized = {}
  BY DEF Init
<1> HIDE DEF ps
<1>3. ASSUME NEW k \in 1..Len(ps)
      PROVE  Filled(ps[k]) /\ FineLength(ps[k].handle, ps[k].length)
  <2>1. ps[k] \in Param
    BY <1>1, ParamLemma
  <2>2. Fine(ps[k])
    BY <1>1 DEF FineParams
  <2>3. ps[k].length <= SizeOf(ps[k])
    BY <2>1, SizeLemma
  <2> QED BY <2>2, <2>3 DEF Fine, FineData, Filled
<1>4. <<>> \in Seq(Bytes) /\ Distinct(ps)
  BY <1>1 DEF FineParams
<1>5. /\ i \in Images /\ FineHeaders(i)
      /\ Sound(Unloaded(i.headers), <<>>) /\ FineParams(Unloaded(i.headers))
  BY <1>1, <1>3, <1>4, StoreLemma
<1> HIDE DEF i
<1>6. i # None
  BY <1>5, ImageNotNone
<1> QED BY <1>2, <1>5, <1>6 DEF IInv, FineHeaders

LEMMA GetStep ==
    ASSUME IInv, NEW h \in Handles, Get(h)
    PROVE  IInv'
<1>1. flash # None /\ UNCHANGED <<flash, image, resized>>
  BY DEF Get, Idle, IInv
<1>2. flash.data \in Seq(Bytes)
  BY <1>1, ImagesLemma DEF IInv
<1>3. PICK k \in Find(params, h) :
         /\ params' = Loaded(params, pools, flash.data, k).params
         /\ pools' = Loaded(params, pools, flash.data, k).pools
  BY DEF Get
<1>4. k \in 1..Len(params)
  BY DEF Find, IInv, Sound
<1>5. Sound(params', pools') /\ FineParams(params') /\ Len(params') = Len(params)
  BY <1>2, <1>3, <1>4, LoadedLemma DEF IInv, Alike
<1> QED BY <1>1, <1>5 DEF IInv

LEMMA SetStep ==
    ASSUME IInv, NEW h \in Handles, NEW v \in Values[h], Set(h, v)
    PROVE  IInv'
<1> DEFINE ps == WithParam(h)
           d == InMemory(h, v)
<1>1. UNCHANGED <<flash, image>>
  BY DEF Set
<1>2. PICK k \in Find(ps, h) : \/ UNCHANGED <<params, pools, resized>>
                               \/ Change(ps, pools, k, Len(v), d)
  BY DEF Set
<1>3. /\ Sound(ps, pools) /\ k \in 1..Len(ps) /\ ps[k].handle = h
      /\ FineBut(ps, k) /\ 1..Len(params) \subseteq 1..Len(ps)
      /\ resized \subseteq 1..Len(params)
  BY WithParamLemma DEF IInv
<1>4. Len(v) \in Nat /\ d \in Seq(Bytes)
  BY ValueLemma
<1>5. Fine(Dirty(ps[k].handle, Len(v), d))
  BY <1>3, SetFine
<1> HIDE DEF ps, d
<1>6. CASE UNCHANGED <<params, pools, resized>>
  BY <1>1, <1>6 DEF IInv
<1>7. CASE Change(ps, pools, k, Len(v), d)
  <2>1. /\ Sound(params', pools') /\ FineParams(params')
        /\ Len(params') = Len(ps) /\ resized' \subseteq resized \cup {k}
    BY <1>3, <1>4, <1>5, <1>7, ChangeLemma
  <2>2. resized' \subseteq 1..Len(params')
    BY <1>3, <2>1
  <2> QED BY <1>1, <2>1, <2>2 DEF IInv
<1> QED BY <1>2, <1>6, <1>7

(* getWriteableString and getWriteable: loaded first, then changed         *)
LEMMA EditStringStep ==
    ASSUME IInv, NEW h \in Handles, NEW v \in Values[h], EditString(h, v)
    PROVE  IInv'
<1>1. /\ flash # None /\ UNCHANGED <<flash, image>>
      /\ h \in Strings /\ Len(v) <= MaxLength
  BY DEF EditString, Idle, IInv
<1>2. flash.data \in Seq(Bytes)
  BY <1>1, ImagesLemma DEF IInv
<1> DEFINE ps == WithParam(h)
<1>3. PICK k \in Find(ps, h) :
         Change(Loaded(ps, pools, flash.data, k).params, Loaded(ps, pools, flash.data, k).pools,
                k, MaxLength, Buffer(v))
  BY DEF EditString, Buffer
<1>4. /\ Sound(ps, pools) /\ FineParams(ps) /\ k \in 1..Len(ps) /\ ps[k].handle = h
      /\ 1..Len(params) \subseteq 1..Len(ps) /\ resized \subseteq 1..Len(params)
  BY <1>1, WithParamLemma DEF IInv
<1> HIDE DEF ps
<1> DEFINE qs == Loaded(ps, pools, flash.data, k).params
           qls == Loaded(ps, pools, flash.data, k).pools
<1>5. Sound(qs, qls) /\ Alike(ps, qs) /\ FineParams(qs)
  BY <1>2, <1>4, LoadedLemma
<1>6. Change(qs, qls, k, MaxLength, Buffer(v))
  BY <1>3
<1> HIDE DEF qs, qls
<1>7. k \in 1..Len(qs) /\ qs[k].handle = h /\ FineBut(qs, k)
  BY <1>4, <1>5 DEF Alike, FineParams, FineBut
<1>8. Buffer(v) \in Seq(Bytes) /\ Fine(Dirty(h, MaxLength, Buffer(v))) /\ MaxLength \in Nat
  BY <1>1, EditFine, ConfigurationAssumption
<1>9. /\ Sound(params', pools') /\ FineParams(params')
      /\ Len(params') = Len(qs) /\ resized' \subseteq resized \cup {k}
  BY <1>5, <1>6, <1>7, <1>8, ChangeLemma
<1>10. resized' \subseteq 1..Len(params')
  BY <1>4, <1>5, <1>9 DEF Alike
<1> QED BY <1>1, <1>9, <1>10 DEF IInv

LEMMA EditStep ==
    ASSUME IInv, NEW h \in Handles, NEW v \in Values[h], Edit(h, v)
    PROVE  IInv'
<1>1. /\ flash # None /\ UNCHANGED <<flash, image>> /\ h \notin Strings
  BY DEF Edit, Idle, IInv
<1>2. flash.data \in Seq(Bytes)
  BY <1>1, ImagesLemma DEF IInv
<1>3. PICK k \in Find(params, h) :
         Change(Loaded(params, pools, flash.data, k).params,
                Loaded(params, pools, flash.data, k).pools, k, params[k].length, v)
  BY DEF Edit
<1>4. /\ Sound(params, pools) /\ FineParams(params)
      /\ k \in 1..Len(params) /\ params[k].handle = h /\ resized \subseteq 1..Len(params)
  BY DEF Find, IInv, Sound
<1>5. params[k].length = Len(v)
  <2>1. FineLength(h, params[k].length)
    BY <1>4 DEF FineParams, Fine
  <2> QED BY <1>1, <2>1 DEF FineLength
<1> DEFINE qs == Loaded(params, pools, flash.data, k).params
           qls == Loaded(params, pools, flash.data, k).pools
<1>6. Sound(qs, qls) /\ Alike(params, qs) /\ FineParams(qs)
  BY <1>2, <1>4, LoadedLemma
<1>7. Change(qs, qls, k, Len(v), v)
  BY <1>3, <1>5
<1> HIDE DEF qs, qls
<1>8. k \in 1..Len(qs) /\ qs[k].handle = h /\ FineBut(qs, k)
  BY <1>4, <1>6 DEF Alike, FineParams, FineBut
<1>9. v \in Seq(Bytes) /\ Fine(Dirty(h, Len(v), v)) /\ Len(v) \in Nat
  <2>1. InMemory(h, v) = v
    BY <1>1 DEF InMemory
  <2>2. Fine(Dirty(h, Len(v), InMemory(h, v)))
    BY SetFine
  <2> QED BY <2>1, <2>2, ValueLemma
<1>10. /\ Sound(params', pools') /\ FineParams(params')
       /\ Len(params') = Len(qs) /\ resized' \subseteq resized \cup {k}
  BY <1>6, <1>7, <1>8, <1>9, ChangeLemma
<1>11. resized' \subseteq 1..Len(params')
  BY <1>4, <1>6, <1>10 DEF Alike
<1> QED BY <1>1, <1>10, <1>11 DEF IInv

LEMMA ReleaseStep == ASSUME IInv, Release PROVE IInv'
<1> DEFINE n == Len(params)
<1>1. params \in Seq(Param) /\ n \in Nat /\ DOMAIN params = 1..n
  BY DEF IInv, Sound
<1>2. /\ params' = [k \in DOMAIN params |->
                      IF params[k].dirty THEN params[k] ELSE [params[k] EXCEPT !.place = None]]
      /\ pools' = <<>> /\ UNCHANGED <<flash, image, resized>>
  BY DEF Release
<1>3. ASSUME NEW k \in 1..n
      PROVE  /\ params'[k] \in Param /\ params'[k].place = None
             /\ params'[k].handle = params[k].handle /\ params'[k].length = params[k].length
             /\ params'[k].dirty = params[k].dirty /\ params'[k].data = params[k].data
  <2> DEFINE p == params[k]
  <2>1. p \in Param /\ (p.dirty => p.place = None)
    BY <1>1, ParamLemma DEF IInv, Sound, InPlace
  <2>2. params'[k] = IF p.dirty THEN p ELSE [p EXCEPT !.place = None]
    BY <1>1, <1>2
  <2> HIDE DEF p
  <2>3. CASE p.dirty
    BY <2>1, <2>2, <2>3 DEF p
  <2>4. CASE ~p.dirty
    <3>1. params'[k] = [p EXCEPT !.place = None]
      BY <2>2, <2>4
    <3>2. [p EXCEPT !.place = None] \in Param
      BY <2>1 DEF Param
    <3> QED BY <2>1, <3>1, <3>2 DEF Param, p
  <2> QED BY <2>3, <2>4
<1>4. params' \in [1..n -> Param]
  <2>1. DOMAIN params' = 1..n /\ params' = [k \in 1..n |-> params'[k]]
    BY <1>1, <1>2
  <2> QED BY <1>3, <2>1
<1>5. params' \in Seq(Param) /\ DOMAIN params' = 1..n
  <2> HIDE DEF n
  <2> QED BY <1>1, <1>4, SeqDef
<1>6. Len(params') = n
  BY <1>1, <1>5
<1>7. Sound(params', pools')
  BY <1>2, <1>3, <1>5, <1>6, EmptySound
<1>8. Alike(params, params')
  BY <1>3, <1>6 DEF Alike
<1>9. FineParams(params')
  BY <1>8, AlikeFine DEF IInv
<1> QED BY <1>2, <1>6, <1>7, <1>9 DEF IInv

LEMMA DiscardStep == ASSUME IInv, Discard PROVE IInv'
<1>1. /\ params' = Unloaded(params) /\ pools' = <<>> /\ UNCHANGED <<flash, image, resized>>
  BY DEF Discard
<1>2. params \in Seq(Param) /\ FineParams(params)
  BY DEF IInv, Sound
<1>3. Distinct(params)
      /\ \A k \in 1..Len(params) : /\ params[k].handle \in Handles /\ params[k].length \in Nat
                                   /\ FineLength(params[k].handle, params[k].length)
  BY <1>2, ParamLemma DEF FineParams, Fine
<1>4. /\ Sound(Unloaded(params), <<>>) /\ FineParams(Unloaded(params))
      /\ Len(Unloaded(params)) = Len(params)
  BY <1>2, <1>3, UnloadedLemma
<1> QED BY <1>1, <1>4 DEF IInv

LEMMA ReadStep == ASSUME IInv, Read PROVE IInv'
<1>1. CASE flash = None
  <2>1. StartWrite(FactoryParams)
    BY <1>1 DEF Read
  <2> QED BY <2>1, FactoryLemma, StartWriteStep
<1>2. CASE flash # None
  <2>1. params' = Unloaded(flash.headers) /\ pools' = <<>> /\ UNCHANGED <<flash, image>>
        /\ resized' = {}
    BY <1>2 DEF Read
  <2>2. Sound(Unloaded(flash.headers), <<>>) /\ FineParams(Unloaded(flash.headers))
    BY <1>2, ReadBack DEF IInv
  <2> QED BY <2>1, <2>2 DEF IInv
<1> QED BY <1>1, <1>2

LEMMA NextIInv == ASSUME IInv, [Next]_vars PROVE IInv'
<1>1. ASSUME NEW h \in Handles, Get(h) PROVE IInv'
  BY <1>1, GetStep
<1>2. ASSUME NEW h \in Handles, NEW v \in Values[h], Set(h, v) PROVE IInv'
  BY <1>2, SetStep
<1>3. ASSUME NEW h \in Handles, NEW v \in Values[h], EditString(h, v) PROVE IInv'
  BY <1>3, EditStringStep
<1>4. ASSUME NEW h \in Handles, NEW v \in Values[h], Edit(h, v) PROVE IInv'
  BY <1>4, EditStep
<1>5. CASE Release
  BY <1>5, ReleaseStep
<1>6. CASE Discard
  BY <1>6, DiscardStep
<1>7. CASE Write
  <2>1. StartWrite(params) /\ params \in Seq(Param) /\ FineParams(params)
    BY <1>7 DEF Write, IInv, Sound
  <2> QED BY <2>1, StartWriteStep
<1>8. CASE FactoryReset
  <2>1. StartWrite(FactoryParams)
    BY <1>8 DEF FactoryReset
  <2> QED BY <2>1, FactoryLemma, StartWriteStep
<1>9. CASE WriteDone
  BY <1>9 DEF WriteDone, Idle, IInv, FineHeaders
<1>10. CASE Read
  BY <1>10, ReadStep
<1>11. CASE UNCHANGED vars
  BY <1>11 DEF vars, IInv
<1> QED BY <1>1, <1>2, <1>3, <1>4, <1>5, <1>6, <1>7, <1>8, <1>9, <1>10, <1>11 DEF Next

(* Every reachable state of every instance satisfies the invariant.        *)
THEOREM Invariance == Spec => []IInv
BY InitIInv, NextIInv, PTL DEF Spec

(* The variables keep their types, no handle occurs twice, and a changed   *)
(* parameter has no place in a pool.                                       *)
THEOREM TypeCorrect == Spec => []TypeOK
<1>1. IInv => TypeOK
  <2> SUFFICES ASSUME IInv PROVE TypeOK
    OBVIOUS
  <2>1. params \in Seq(Param) /\ DOMAIN params = 1..Len(params) /\ pools \in Seq(Pool)
    BY DEF IInv, Sound, Sound1
  <2>2. \A k \in DOMAIN params : params[k].dirty => params[k].place = None
    BY <2>1 DEF IInv, Sound, InPlace
  <2>3. IsInjective([k \in DOMAIN params |-> params[k].handle])
    BY <2>1 DEF IInv, FineParams, Distinct, IsInjective
  <2> QED BY <2>1, <2>2, <2>3 DEF TypeOK, IInv
<1> QED BY <1>1, Invariance, PTL

(* Whatever is loaded, changed, released, discarded, written and read: a   *)
(* loaded parameter has its place in a pool to itself, inside the pool,    *)
(* and a pool counts its users, so that it is emptied under nobody's feet. *)
THEOREM PlacesAreSound == Spec => []PoolsAreSound
<1>1. IInv => PoolsAreSound
  <2> SUFFICES ASSUME IInv PROVE PoolsAreSound
    OBVIOUS
  <2>1. /\ params \in Seq(Param) /\ DOMAIN params = 1..Len(params)
        /\ pools \in Seq(Pool) /\ DOMAIN pools = 1..Len(pools)
        /\ \A i \in 1..Len(pools) : PoolOK(pools[i])
    BY DEF IInv, Sound, Sound1
  <2>2. \A i \in DOMAIN pools :
           pools[i].count = Cardinality({k \in InPools : params[k].place.pool = i})
    <3>1. \A i : {k \in InPools : params[k].place.pool = i} = Users(params, i)
      BY <2>1 DEF InPools, Users
    <3> QED BY <2>1, <3>1 DEF IInv, Sound
  <2>3. ASSUME NEW k \in InPools
        PROVE  /\ k \in 1..Len(params) /\ params[k].place # None
               /\ params[k].place.offset \in Nat
               /\ SizeOf(params[k]) \in Nat /\ Align(SizeOf(params[k])) \in Nat
               /\ SizeOf(params[k]) < Align(SizeOf(params[k]))
    <3>1. k \in 1..Len(params) /\ params[k].place # None
      BY <2>1 DEF InPools
    <3>2. params[k] \in Param /\ params[k].place \in Place
      BY <2>1, <3>1, ParamLemma
    <3>3. SizeOf(params[k]) \in Nat
      BY <3>2, SizeLemma
    <3>4. Align(SizeOf(params[k])) \in Nat /\ SizeOf(params[k]) < Align(SizeOf(params[k]))
      BY <3>3, AlignLemma
    <3> QED BY <3>1, <3>2, <3>3, <3>4 DEF Place
  <2>4. ASSUME NEW k \in InPools
        PROVE  Extent(k) \subseteq 1..pools[params[k].place.pool].size
    <3> DEFINE i == params[k].place.pool
               o == params[k].place.offset
               n == SizeOf(params[k])
    <3>1. /\ i \in 1..Len(pools) /\ o + n <= pools[i].size
      BY <2>3 DEF IInv, Sound, InPlace
    <3>2. pools[i].size \in Nat
      BY <2>1, <3>1, PoolLemma
    <3>3. o \in Nat /\ n \in Nat /\ Extent(k) = o + 1 .. o + n
      BY <2>3 DEF Extent
    <3> HIDE DEF i, o, n
    <3>4. Extent(k) \subseteq 1..pools[i].size
      BY <3>1, <3>2, <3>3
    <3> QED BY <3>4 DEF i
  <2>5. \A i \in DOMAIN pools : Len(pools[i].mem) = pools[i].size + Word
    BY <2>1 DEF PoolOK
  <2>6. ASSUME NEW k \in InPools, NEW l \in InPools,
               k # l, params[k].place.pool = params[l].place.pool
        PROVE  Extent(k) \cap Extent(l) = {}
    <3>1. Apart(params[k], params[l])
      BY <2>3, <2>6 DEF IInv, Sound
    <3>2. \/ params[k].place.offset + Align(SizeOf(params[k])) <= params[l].place.offset
          \/ params[l].place.offset + Align(SizeOf(params[l])) <= params[k].place.offset
      BY <2>3, <2>6, <3>1 DEF Apart
    <3> DEFINE o(m) == params[m].place.offset
               n(m) == SizeOf(params[m])
               a(m) == Align(SizeOf(params[m]))
    <3>3. /\ Extent(k) = o(k) + 1 .. o(k) + n(k) /\ Extent(l) = o(l) + 1 .. o(l) + n(l)
          /\ o(k) \in Nat /\ n(k) \in Nat /\ a(k) \in Nat /\ n(k) < a(k)
          /\ o(l) \in Nat /\ n(l) \in Nat /\ a(l) \in Nat /\ n(l) < a(l)
      BY <2>3 DEF Extent
    <3>4. o(k) + a(k) <= o(l) \/ o(l) + a(l) <= o(k)
      BY <3>2
    <3> HIDE DEF o, n, a
    <3> QED BY <3>3, <3>4
  <2> QED BY <2>2, <2>4, <2>5, <2>6 DEF PoolsAreSound
<1> QED BY <1>1, Invariance, PTL
-----------------------------------------------------------------------------
(***************************************************************************)
(* The settings.  What the parameter k of ps is worth, with the EEPROM     *)
(* data: what has been changed, or what lies at the sum of the lengths     *)
(* before it.                                                              *)
(***************************************************************************)
Content(ps, data, k) ==
    IF ps[k].dirty THEN SubSeq(ps[k].data, 1, RealLength(ps[k]))
    ELSE ReadAt(data, Offset(ps, k), ps[k].length)

(* What is loaded has the bytes of the EEPROM in its memory.               *)
Mirror(ps, pls, data, k) ==
    ps[k].place # None =>
        \A b \in 1..ps[k].length :
            ByteAt(pls, ps[k], b) = ReadAt(data, Offset(ps, k), ps[k].length)[b]

(* Nobody up to k has changed its length.                                  *)
Before(k, R) == \A j \in R : k < j

(* A parameter is where it was in the EEPROM as long as nobody before it   *)
(* changes its length.                                                     *)
Good(ps, pls, data, R) ==
    \A k \in 1..Len(ps) : Before(k, R) => Mirror(ps, pls, data, k)

(* The parameters begin with those that are in the EEPROM.                 *)
BeginsWith(ps, hs) ==
    /\ Len(hs) <= Len(ps)
    /\ \A k \in 1..Len(hs) : ps[k].handle = hs[k].handle

KeepsLength(ps, hs, k) ==
    /\ k <= Len(hs) => ps[k].length = hs[k].length
    /\ ps[k].dirty => RealLength(ps[k]) = ps[k].length

(* The inductive invariant                                                 *)
StoreInv ==
    /\ IInv
    /\ image # None => flash = None
    /\ BeginsWith(params, Eeprom.headers)
    /\ \A k \in 1..Len(params) : k \notin resized => KeepsLength(params, Eeprom.headers, k)
    /\ Good(params, pools, Eeprom.data, resized)

-----------------------------------------------------------------------------
(* _findParam: only the lengths before a parameter decide where it is.     *)
LEMMA SameOffsets ==
    ASSUME NEW ps, NEW qs, NEW n \in Nat,
           Len(ps) \in Nat, Len(qs) \in Nat, n <= Len(ps), n <= Len(qs),
           \A k \in 1..Len(ps) : ps[k].length \in Nat,
           \A k \in 1..Len(qs) : qs[k].length \in Nat,
           \A k \in 1..n : ps[k].length = qs[k].length
    PROVE  \A k \in 1..(n + 1) : Offset(ps, k) = Offset(qs, k)
<1> DEFINE same == [m \in 0..n |-> IF Offset(ps, m + 1) = Offset(qs, m + 1) THEN 1 ELSE 0]
<1>1. \A k \in 1..n : k \in 1..Len(ps) /\ k \in 1..Len(qs)
  OBVIOUS
<1>2. /\ Offset(ps, 1) = 0
      /\ \A k \in 1..Len(ps) : Offset(ps, k + 1) = Offset(ps, k) + ps[k].length
  BY OffsetLemma
<1>3. /\ Offset(qs, 1) = 0
      /\ \A k \in 1..Len(qs) : Offset(qs, k + 1) = Offset(qs, k) + qs[k].length
  BY OffsetLemma
<1>4. same[0] \in {1}
  BY <1>2, <1>3
<1>5. ASSUME NEW m \in 1..n, same[m - 1] \in {1} PROVE same[m] \in {1}
  <2>1. m - 1 \in 0..n /\ m \in 0..n /\ (m - 1) + 1 = m
    OBVIOUS
  <2>2. Offset(ps, m) = Offset(qs, m)
    BY <1>5, <2>1
  <2>3. Offset(ps, m + 1) = Offset(qs, m + 1)
    BY <1>1, <1>2, <1>3, <2>2
  <2> QED BY <2>1, <2>3
<1> HIDE DEF same
<1>6. \A m \in 0..n : same[m] \in {1}
  BY <1>4, <1>5, InductionLemma
<1>7. ASSUME NEW k \in 1..(n + 1) PROVE Offset(ps, k) = Offset(qs, k)
  <2> DEFINE m == k - 1
  <2>1. m \in 0..n /\ m + 1 = k
    OBVIOUS
  <2> HIDE DEF m
  <2>2. Offset(ps, m + 1) = Offset(qs, m + 1)
    BY <1>6, <2>1 DEF same
  <2> QED BY <2>1, <2>2
<1> QED BY <1>7

LEMMA OffsetsBefore ==
    ASSUME NEW ps \in Seq(Param), NEW qs \in Seq(Param),
           NEW k \in 1..Len(ps), k <= Len(qs),
           \A j \in 1..Len(ps) : j < k => ps[j].length = qs[j].length
    PROVE  Offset(ps, k) = Offset(qs, k)
<1> DEFINE n == k - 1
<1>1. /\ \A j \in 1..Len(ps) : ps[j].length \in Nat
      /\ \A j \in 1..Len(qs) : qs[j].length \in Nat
  BY ParamLemma
<1>2. Len(ps) \in Nat /\ Len(qs) \in Nat /\ k \in Nat
  OBVIOUS
<1>3. n \in Nat /\ n <= Len(ps) /\ n <= Len(qs) /\ k \in 1..(n + 1)
  BY <1>2
<1>4. \A j \in 1..n : ps[j].length = qs[j].length
  <2> SUFFICES ASSUME NEW j \in 1..n PROVE ps[j].length = qs[j].length
    OBVIOUS
  <2>1. j \in 1..Len(ps) /\ j < k
    BY <1>2
  <2> QED BY <2>1
<1> HIDE DEF n
<1>5. \A j \in 1..(n + 1) : Offset(ps, j) = Offset(qs, j)
  BY <1>1, <1>2, <1>3, <1>4, SameOffsets
<1> QED BY <1>3, <1>5

LEMMA OffsetType ==
    ASSUME NEW ps \in Seq(Param), NEW k \in 1..Len(ps)
    PROVE  Offset(ps, k) \in Nat
<1>1. \A j \in 1..Len(ps) : ps[j].length \in Nat
  BY ParamLemma
<1>2. Len(ps) \in Nat
  OBVIOUS
<1> QED BY <1>1, <1>2, OffsetLemma

LEMMA AlikeOffsets ==
    ASSUME NEW ps \in Seq(Param), NEW qs \in Seq(Param), Alike(ps, qs)
    PROVE  \A k \in 1..Len(ps) : Offset(ps, k) = Offset(qs, k)
<1> SUFFICES ASSUME NEW k \in 1..Len(ps) PROVE Offset(ps, k) = Offset(qs, k)
  OBVIOUS
<1>1. k <= Len(qs) /\ \A j \in 1..Len(ps) : j < k => ps[j].length = qs[j].length
  BY DEF Alike
<1> QED BY <1>1, OffsetsBefore

(* A parameter that keeps its place and its bytes mirrors the same.        *)
LEMMA SameMirror ==
    ASSUME NEW ps, NEW pls, NEW qs, NEW qls, NEW data, NEW k,
           Mirror(ps, pls, data, k), SameBytes(ps[k], pls, qs[k], qls),
           qs[k].length = ps[k].length, Offset(ps, k) = Offset(qs, k)
    PROVE  Mirror(qs, qls, data, k)
BY DEF Mirror, SameBytes

(* Loading a parameter changes no byte of another one.                     *)
LEMMA LoadedGood ==
    ASSUME NEW ps, NEW pls, Sound(ps, pls), NEW k \in 1..Len(ps),
           NEW data \in Seq(Bytes), NEW R, Good(ps, pls, data, R)
    PROVE  Good(Loaded(ps, pls, data, k).params, Loaded(ps, pls, data, k).pools, data, R)
<1> DEFINE l == Loaded(ps, pls, data, k)
<1>1. ps \in Seq(Param) /\ ps[k].length \in Nat /\ Offset(ps, k) \in Nat
  BY ParamLemma, OffsetType DEF Sound
<1>2. CASE ps[k].dirty \/ ps[k].place # None
  BY <1>2 DEF Loaded
<1>3. CASE ~(ps[k].dirty \/ ps[k].place # None)
  <2>1. l = Load(ps, pls, data, k)
    BY <1>3 DEF Loaded
  <2> DEFINE qs == Load(ps, pls, data, k).params
             qls == Load(ps, pls, data, k).pools
  <2>2. /\ Sound(qs, qls) /\ Alike(ps, qs)
        /\ \A j \in 1..Len(ps) : j # k => SameBytes(ps[j], pls, qs[j], qls)
        /\ \A b \in 1..ps[k].length :
             ByteAt(qls, qs[k], b) = ReadAt(data, Offset(ps, k), ps[k].length)[b]
    BY <1>3, LoadSound
  <2> HIDE DEF qs, qls
  <2>3. \A j \in 1..Len(ps) : Offset(ps, j) = Offset(qs, j) /\ qs[j].length = ps[j].length
    BY <1>1, <2>2, AlikeOffsets DEF Alike, Sound
  <2>4. ASSUME NEW j \in 1..Len(ps), j # k
        PROVE  Before(j, R) => Mirror(qs, qls, data, j)
    BY <2>2, <2>3, <2>4, SameMirror DEF Good
  <2>5. Mirror(qs, qls, data, k)
    BY <2>2, <2>3 DEF Mirror
  <2>6. Good(qs, qls, data, R)
    BY <2>2, <2>4, <2>5 DEF Good, Alike
  <2> QED BY <2>1, <2>6 DEF qs, qls
<1> QED BY <1>2, <1>3

(* A changed parameter keeps its length, is known to have another one, or  *)
(* is the last one; the others keep everything, and those before it are    *)
(* where they were.                                                        *)
LEMMA ChangeGood ==
    ASSUME NEW ps, NEW pls, Sound(ps, pls), NEW k \in 1..Len(ps),
           NEW length \in Nat, NEW data \in Seq(Bytes), Change(ps, pls, k, length, data),
           NEW R \in SUBSET Nat, NEW Q \in SUBSET Nat, R \subseteq Q,
           length = ps[k].length \/ k \in Q \/ k = Len(ps),
           NEW old, Good(ps, pls, old, R)
    PROVE  /\ Good(params', pools', old, Q)
           /\ \A j \in 1..Len(ps) : Before(j, Q) => Offset(ps, j) = Offset(params', j)
<1>1. /\ Sound(params', pools') /\ Len(params') = Len(ps)
      /\ params'[k] = Dirty(ps[k].handle, length, data)
      /\ \A j \in 1..Len(ps) : j # k =>
           params'[j] = ps[j] /\ SameBytes(ps[j], pls, params'[j], pools')
  BY ChangeSound
<1>2. params'[k].length = length /\ params'[k].place = None
  BY <1>1 DEF Dirty
<1>3. ASSUME NEW j \in 1..Len(ps), Before(j, Q) PROVE Offset(ps, j) = Offset(params', j)
  <2> DEFINE qs == params'
  <2>1. ps \in Seq(Param) /\ qs \in Seq(Param) /\ Len(ps) \in Nat
    BY <1>1 DEF Sound
  <2>2. k < j => length = ps[k].length
    BY <1>3, <2>1 DEF Before
  <2>3. Len(qs) = Len(ps) /\ \A m \in 1..Len(ps) : m < j => ps[m].length = qs[m].length
    BY <1>1, <1>2, <2>2
  <2> HIDE DEF qs
  <2>4. Offset(ps, j) = Offset(qs, j)
    BY <2>1, <2>3, OffsetsBefore
  <2> QED BY <2>4 DEF qs
<1>4. ASSUME NEW j \in 1..Len(ps), j # k
      PROVE  Before(j, Q) => Mirror(params', pools', old, j)
  <2>1. params'[j] = ps[j] /\ SameBytes(ps[j], pls, params'[j], pools')
    BY <1>1, <1>4
  <2>2. Before(j, Q) => Before(j, R)
    BY DEF Before
  <2> QED BY <1>3, <2>1, <2>2, SameMirror DEF Good
<1>5. Mirror(params', pools', old, k)
  BY <1>2 DEF Mirror
<1> QED BY <1>1, <1>3, <1>4, <1>5 DEF Good

-----------------------------------------------------------------------------
(* The memory of a loaded parameter is longer than it.                     *)
LEMMA MemoryLemma ==
    ASSUME NEW ps, NEW pls, Sound(ps, pls), NEW k \in 1..Len(ps), ps[k].place # None
    PROVE  /\ ~ps[k].dirty
           /\ Memory(ps[k], pls) \in Seq(Bytes)
           /\ ps[k].length < Len(Memory(ps[k], pls))
           /\ \A b \in 1..ps[k].length : Memory(ps[k], pls)[b] = ByteAt(pls, ps[k], b)
<1> DEFINE p == ps[k]
           i == p.place.pool
           o == p.place.offset
           mem == pls[i].mem
           a == MemoryAt(pls, p.place)
<1>1. /\ ps \in Seq(Param) /\ Sound1(pls) /\ InPlace(p, pls)
      /\ p \in Param /\ p.place \in Place /\ p.length \in Nat
  BY ParamLemma DEF Sound
<1>2. ~p.dirty /\ i \in 1..Len(pls) /\ o + Align(SizeOf(p)) <= pls[i].length
  BY <1>1 DEF InPlace
<1>3. /\ pls[i].size + Word \in Nat /\ pls[i].length \in Nat /\ mem \in Seq(Bytes)
      /\ Len(mem) = pls[i].size + Word /\ pls[i].length <= pls[i].size + Word
  <2>1. pls[i].size \in Nat /\ pls[i].length \in Nat /\ mem \in Seq(Bytes)
    BY <1>1, <1>2, PoolLemma DEF Sound1
  <2>2. Len(mem) = pls[i].size + Word /\ pls[i].length <= pls[i].size + Word
    BY <1>1, <1>2 DEF Sound1, PoolOK
  <2> HIDE DEF mem
  <2>3. pls[i].size + Word \in Nat
    BY <2>1, PoolAssumption
  <2> QED BY <2>1, <2>2, <2>3
<1>4. /\ o \in Nat /\ SizeOf(p) \in Nat /\ p.length <= SizeOf(p)
      /\ Align(SizeOf(p)) \in Nat /\ SizeOf(p) < Align(SizeOf(p))
  BY <1>1, SizeLemma, AlignLemma DEF Place
<1> DEFINE size == pls[i].size + Word
           length == p.length
<1>5. o + length < size /\ size = Len(mem) /\ size \in Nat
  <2> DEFINE n == SizeOf(p)
             m == Align(SizeOf(p))
             top == pls[i].length
  <2>1. /\ o \in Nat /\ n \in Nat /\ m \in Nat /\ length <= n /\ n < m /\ length \in Nat
        /\ o + m <= top /\ top <= size /\ top \in Nat /\ size \in Nat /\ size = Len(mem)
    BY <1>1, <1>2, <1>3, <1>4
  <2> HIDE DEF o, n, m, top, size, length
  <2> QED BY <2>1
<1>6. a = SubSeq(mem, o + 1, size)
  BY <1>3 DEF MemoryAt
<1> HIDE DEF o, mem, size, length
<1>7. /\ a \in Seq(Bytes) /\ Len(a) = size - o
      /\ \A b \in 1..(size - o) : a[b] = mem[o + b]
  <2>1. \A j \in (o + 1)..size : mem[j] \in Bytes
    BY <1>3, <1>4, <1>5 DEF o
  <2>2. o + 1 \in Int /\ size \in Int /\ o + 1 <= size /\ size - (o + 1) + 1 = size - o
    <3>1. o \in Nat /\ length \in Nat
      BY <1>1, <1>4 DEF o, length
    <3> QED BY <1>5, <3>1
  <2>3. /\ SubSeq(mem, o + 1, size) \in Seq(Bytes)
        /\ Len(SubSeq(mem, o + 1, size)) = size - o
        /\ \A b \in 1..(size - o) : SubSeq(mem, o + 1, size)[b] = mem[(o + 1) + b - 1]
    BY <2>1, <2>2, SubSeqProperties
  <2>4. \A b \in 1..(size - o) : (o + 1) + b - 1 = o + b
    BY <1>4 DEF o
  <2> QED BY <1>6, <2>3, <2>4
<1> HIDE DEF a
<1>8. /\ Append(a, Junk) \in Seq(Bytes) /\ Len(Append(a, Junk)) = Len(a) + 1
      /\ \A b \in 1..Len(a) : Append(a, Junk)[b] = a[b]
  <2>1. Junk \in Bytes
    BY DEF Bytes
  <2> QED BY <1>7, <2>1, AppendProperties
<1>9. Memory(p, pls) = Append(a, Junk)
  BY <1>2 DEF Memory, a
<1>10. length \in Nat /\ o \in Nat
  BY <1>1, <1>4 DEF length, o
<1>11. length < Len(Append(a, Junk))
  BY <1>5, <1>7, <1>8, <1>10
<1>12. \A b \in 1..length : Append(a, Junk)[b] = mem[o + b]
  BY <1>5, <1>7, <1>8, <1>10
<1> QED BY <1>2, <1>8, <1>9, <1>11, <1>12 DEF length, mem, o, ByteAt

(* A handle is found where it is, and nowhere else.                        *)
LEMMA FindLemma ==
    ASSUME NEW ps \in Seq(Param), Distinct(ps), NEW k \in 1..Len(ps)
    PROVE  Find(ps, ps[k].handle) = {k}
<1>1. DOMAIN ps = 1..Len(ps)
  OBVIOUS
<1> QED BY <1>1 DEF Find, Distinct

(* What a setting is worth is what its parameter holds.                    *)
LEMMA HeldLemma ==
    ASSUME NEW ps, NEW pls, Sound(ps, pls), FineParams(ps), NEW i, i.data \in Seq(Bytes),
           NEW k \in 1..Len(ps), Mirror(ps, pls, i.data, k)
    PROVE  HeldBy(ps, pls, i, ps[k].handle) = Content(ps, i.data, k)
<1> DEFINE p == ps[k]
           h == p.handle
           m == p.length
<1>1. /\ ps \in Seq(Param) /\ m \in Nat /\ p.data \in Seq(Bytes) /\ Offset(ps, k) \in Nat
      /\ Find(ps, h) = {k} /\ InPlace(p, pls) /\ Fine(p)
  BY ParamLemma, OffsetType, FindLemma DEF Sound, FineParams
<1> DEFINE r == ReadAt(i.data, Offset(ps, k), m)
<1>2. r \in Seq(Bytes) /\ Len(r) = m
  BY <1>1, ReadAtLemma
<1>3. HeldBy(ps, pls, i, h) = IF p.dirty /\ h \in Strings THEN UpToNul(p.data)
                              ELSE SubSeq(BytesOf(ps, pls, i, k), 1, m)
  <2>1. (CHOOSE n \in {k} : TRUE) = k
    OBVIOUS
  <2> QED BY <1>1, <2>1 DEF HeldBy
<1>4. CASE p.dirty /\ h \in Strings
  <2>1. UpToNul(p.data) = SubSeq(p.data, 1, Len(UpToNul(p.data)))
    BY <1>1, StrlenLemma
  <2> QED BY <1>3, <1>4, <2>1 DEF Content, RealLength
<1>5. CASE p.dirty /\ h \notin Strings
  <2>1. BytesOf(ps, pls, i, k) = p.data
    BY <1>5 DEF BytesOf, Memory
  <2> QED BY <1>3, <1>5, <2>1 DEF Content, RealLength
<1>6. CASE ~p.dirty /\ p.place # None
  <2> DEFINE d == Memory(p, pls)
  <2>1. /\ d \in Seq(Bytes) /\ m < Len(d)
        /\ \A b \in 1..m : d[b] = ByteAt(pls, p, b)
    BY <1>6, MemoryLemma
  <2>2. BytesOf(ps, pls, i, k) = d
    BY <1>6 DEF BytesOf
  <2>3. \A b \in 1..m : d[b] = r[b]
    BY <1>6, <2>1 DEF Mirror
  <2> HIDE DEF d, r, m
  <2>4. SubSeq(d, 1, m) = r
    <3> DEFINE s == SubSeq(d, 1, m)
    <3>1. s \in Seq(Bytes) /\ Len(s) = m /\ \A b \in 1..m : s[b] = d[b]
      BY <1>1, <2>1
    <3> HIDE DEF s
    <3>2. s = r
      BY <1>2, <2>3, <3>1, SeqEqual
    <3> QED BY <3>2 DEF s
  <2> QED BY <1>3, <1>6, <2>2, <2>4 DEF Content, r, m
<1>7. CASE ~p.dirty /\ p.place = None
  <2>1. BytesOf(ps, pls, i, k) = r
    BY <1>7 DEF BytesOf
  <2>2. SubSeq(r, 1, m) = r
    <3> HIDE DEF r, m
    <3> QED BY <1>1, <1>2
  <2> QED BY <1>3, <1>7, <2>1, <2>2 DEF Content
<1> QED BY <1>4, <1>5, <1>6, <1>7

LEMMA NotHeldLemma ==
    ASSUME NEW ps \in Seq(Param), NEW h, \A k \in 1..Len(ps) : ps[k].handle # h,
           NEW pls, NEW i
    PROVE  Find(ps, h) = {} /\ HeldBy(ps, pls, i, h) = None
<1>1. DOMAIN ps = 1..Len(ps)
  OBVIOUS
<1>2. Find(ps, h) = {}
  BY <1>1 DEF Find
<1> QED BY <1>2 DEF HeldBy

-----------------------------------------------------------------------------
(* The EEPROM, or the image of it that commit() writes                     *)
LEMMA EepromLemma ==
    ASSUME IInv
    PROVE  /\ Eeprom \in Images /\ Eeprom # None /\ FineHeaders(Eeprom)
           /\ Eeprom.headers \in Seq(Header) /\ Eeprom.data \in Seq(Bytes)
           /\ Len(Eeprom.headers) \in Nat
<1>1. Eeprom \in Images /\ Eeprom # None /\ FineHeaders(Eeprom)
  BY DEF IInv, Eeprom, Idle
<1>2. Eeprom.headers \in Seq(Header) /\ Eeprom.data \in Seq(Bytes)
  BY <1>1 DEF Images
<1> QED BY <1>1, <1>2

Headers == Unloaded(Eeprom.headers)

LEMMA HeadersLemma ==
    ASSUME IInv
    PROVE  /\ Sound(Headers, <<>>) /\ FineParams(Headers) /\ Headers \in Seq(Param)
           /\ Len(Headers) = Len(Eeprom.headers)
           /\ \A k \in 1..Len(Headers) :
                /\ Headers[k].handle = Eeprom.headers[k].handle
                /\ Headers[k].length = Eeprom.headers[k].length
                /\ ~Headers[k].dirty /\ Headers[k].place = None
<1> DEFINE hs == Eeprom.headers
<1>1. /\ hs \in Seq(Header) /\ Distinct(hs)
      /\ \A k \in 1..Len(hs) : FineLength(hs[k].handle, hs[k].length)
  BY EepromLemma DEF FineHeaders
<1> HIDE DEF hs
<1>2. ASSUME NEW k \in 1..Len(hs) PROVE hs[k].handle \in Handles /\ hs[k].length \in Nat
  <2>1. hs[k] \in Header
    BY <1>1, ElementOfSeq
  <2> QED BY <2>1 DEF Header
<1>3. /\ Sound(Unloaded(hs), <<>>) /\ FineParams(Unloaded(hs))
      /\ Len(Unloaded(hs)) = Len(hs)
  BY <1>1, <1>2, UnloadedLemma
<1>4. ASSUME NEW k \in 1..Len(hs)
      PROVE  /\ Unloaded(hs)[k].handle = hs[k].handle /\ Unloaded(hs)[k].length = hs[k].length
             /\ ~Unloaded(hs)[k].dirty /\ Unloaded(hs)[k].place = None
  <2>1. Unloaded(hs)[k] = Clean(hs[k].handle, hs[k].length, None)
    BY <1>1 DEF Unloaded
  <2> QED BY <1>2, <2>1, CleanLemma
<1> QED BY <1>3, <1>4 DEF hs, Headers, Sound

(* What is not loaded mirrors everything.                                  *)
LEMMA UnloadedGood ==
    ASSUME NEW ps, \A k \in 1..Len(ps) : ps[k].place = None, NEW pls, NEW data, NEW R
    PROVE  Good(ps, pls, data, R) /\ \A k \in 1..Len(ps) : Mirror(ps, pls, data, k)
BY DEF Good, Mirror

(* The settings that are sure: the parameter has been changed, or lies     *)
(* where it was in the EEPROM.                                             *)
Safe(k) == params[k].dirty \/ Before(k, resized)

LEMMA SureLemma ==
    ASSUME StoreInv, NEW k \in 1..Len(params)
    PROVE  /\ params[k].handle \in Handles
           /\ params[k].handle \in Sure <=> Safe(k)
           /\ Safe(k) => Held[params[k].handle] = Content(params, Eeprom.data, k)
<1>1. params \in Seq(Param) /\ Sound(params, pools) /\ FineParams(params)
      /\ Eeprom.data \in Seq(Bytes) /\ InPlace(params[k], pools)
  BY EepromLemma DEF StoreInv, IInv, Sound
<1>2. params[k].handle \in Handles
  BY <1>1, ParamLemma
<1>3. Find(params, params[k].handle) = {k}
  BY <1>1, FindLemma DEF FineParams
<1>4. k \in Settled <=> Before(k, resized)
  <2>1. DOMAIN params = 1..Len(params)
    BY <1>1
  <2> QED BY <2>1 DEF Settled, Before
<1>5. params[k].handle \in Sure <=> Safe(k)
  BY <1>2, <1>3, <1>4 DEF Sure, Safe
<1>6. Safe(k) => Mirror(params, pools, Eeprom.data, k)
  BY <1>1 DEF StoreInv, Good, Safe, Mirror, InPlace
<1>7. Safe(k) => HeldBy(params, pools, Eeprom, params[k].handle) = Content(params, Eeprom.data, k)
  BY <1>1, <1>6, HeldLemma
<1> QED BY <1>2, <1>5, <1>7 DEF Held

(* Each setting has no parameter, or one.                                  *)
LEMMA OneOrNone ==
    ASSUME IInv, NEW h \in Handles
    PROVE  \/ /\ \A k \in 1..Len(params) : params[k].handle # h
              /\ Held[h] = None
           \/ \E k \in 1..Len(params) : params[k].handle = h
<1>1. params \in Seq(Param)
  BY DEF IInv, Sound
<1> QED BY <1>1, NotHeldLemma DEF Held

(* What the EEPROM keeps of them                                           *)
LEMMA HeldBackLemma ==
    ASSUME IInv
    PROVE  /\ \A h \in Handles : (\A k \in 1..Len(Headers) : Headers[k].handle # h)
                                    => HeldBack[h] = None
           /\ \A k \in 1..Len(Headers) :
                /\ Headers[k].handle \in Handles
                /\ HeldBack[Headers[k].handle] = Content(Headers, Eeprom.data, k)
<1>1. /\ Sound(Headers, <<>>) /\ FineParams(Headers) /\ Headers \in Seq(Param)
      /\ Eeprom.data \in Seq(Bytes)
      /\ \A k \in 1..Len(Headers) : Headers[k].place = None
  BY HeadersLemma, EepromLemma
<1>2. HeldBack = [h \in Handles |-> HeldBy(Headers, <<>>, Eeprom, h)]
  BY DEF HeldBack, Headers
<1> HIDE DEF Headers
<1>3. ASSUME NEW h \in Handles, \A k \in 1..Len(Headers) : Headers[k].handle # h
      PROVE  HeldBack[h] = None
  BY <1>1, <1>2, <1>3, NotHeldLemma
<1>4. ASSUME NEW k \in 1..Len(Headers)
      PROVE  /\ Headers[k].handle \in Handles
             /\ HeldBack[Headers[k].handle] = Content(Headers, Eeprom.data, k)
  <2>1. Headers[k].handle \in Handles
    BY <1>1, ParamLemma
  <2>2. Mirror(Headers, <<>>, Eeprom.data, k)
    BY <1>1 DEF Mirror
  <2>3. HeldBy(Headers, <<>>, Eeprom, Headers[k].handle) = Content(Headers, Eeprom.data, k)
    BY <1>1, <2>2, HeldLemma
  <2> QED BY <1>2, <2>1, <2>3
<1> QED BY <1>3, <1>4

(* What holds of the settings in a state holds in the next one, too.       *)
SureFacts ==
    /\ \A h \in Handles : (\A k \in 1..Len(params) : params[k].handle # h) => Held[h] = None
    /\ \A k \in 1..Len(params) :
         /\ params[k].handle \in Sure <=> Safe(k)
         /\ Safe(k) => Held[params[k].handle] = Content(params, Eeprom.data, k)

LEMMA SureFactsLemma == StoreInv => SureFacts
BY SureLemma, OneOrNone DEF StoreInv, SureFacts

LEMMA NextSureLemma == StoreInv' => SureFacts'
BY SureFactsLemma, PTL

LEMMA EepromStays ==
    ASSUME UNCHANGED <<flash, image>>
    PROVE  Eeprom' = Eeprom /\ Headers' = Headers /\ HeldBack' = HeldBack
<1>1. Eeprom' = Eeprom
  BY DEF Eeprom, Idle
<1> QED BY <1>1 DEF Headers, HeldBack

(* What is like another is worth the same.                                 *)
LEMMA AlikeContent ==
    ASSUME NEW ps \in Seq(Param), NEW qs \in Seq(Param), Alike(ps, qs),
           NEW k \in 1..Len(ps), NEW data
    PROVE  Content(qs, data, k) = Content(ps, data, k) /\ RealLength(qs[k]) = RealLength(ps[k])
<1>1. Offset(ps, k) = Offset(qs, k)
  BY AlikeOffsets
<1>2. /\ qs[k].handle = ps[k].handle /\ qs[k].length = ps[k].length
      /\ qs[k].dirty = ps[k].dirty /\ qs[k].data = ps[k].data
  BY DEF Alike
<1>3. RealLength(qs[k]) = RealLength(ps[k])
  BY <1>2 DEF RealLength
<1> QED BY <1>1, <1>2, <1>3 DEF Content

-----------------------------------------------------------------------------
(* Steps that change what is in memory, but no setting.                    *)
Unchanged == (\A h \in Sure : Held'[h] = Held[h]) /\ HeldBack' = HeldBack

LEMMA AlikeStep ==
    ASSUME StoreInv, IInv', UNCHANGED <<flash, image, resized>>, Alike(params, params'),
           Good(params', pools', Eeprom.data, resized)
    PROVE  StoreInv' /\ Unchanged
<1>1. Eeprom' = Eeprom /\ HeldBack' = HeldBack
  BY EepromStays
<1>2. params \in Seq(Param) /\ params' \in Seq(Param)
  BY DEF StoreInv, IInv, Sound
<1>3. ASSUME NEW k \in 1..Len(params)
      PROVE  /\ params'[k].handle = params[k].handle /\ params'[k].length = params[k].length
             /\ params'[k].dirty = params[k].dirty
             /\ Content(params', Eeprom.data, k) = Content(params, Eeprom.data, k)
             /\ RealLength(params'[k]) = RealLength(params[k])
  <2>1. /\ Content(params', Eeprom.data, k) = Content(params, Eeprom.data, k)
        /\ RealLength(params'[k]) = RealLength(params[k])
    BY <1>2, AlikeContent
  <2> QED BY <2>1 DEF Alike
<1>4. Len(params') = Len(params) /\ Len(params) \in Nat
  BY <1>2 DEF Alike
<1>5. StoreInv'
  <2>1. BeginsWith(params', Eeprom.headers)
    <3>1. Len(Eeprom.headers) \in Nat
      BY EepromLemma DEF StoreInv
    <3> QED BY <1>3, <1>4, <3>1 DEF StoreInv, BeginsWith
  <2>2. \A k \in 1..Len(params') : k \notin resized' => KeepsLength(params', Eeprom.headers, k)
    BY <1>3, <1>4 DEF StoreInv, KeepsLength
  <2> QED BY <1>1, <2>1, <2>2 DEF StoreInv
<1>6. ASSUME NEW h \in Sure PROVE Held'[h] = Held[h]
  <2>1. h \in Handles
    BY DEF Sure
  <2>2. CASE \A k \in 1..Len(params) : params[k].handle # h
    <3>1. Held[h] = None
      BY <2>1, <2>2, OneOrNone DEF StoreInv
    <3>2. Held'[h] = None
      BY <1>3, <1>4, <1>5, <2>1, <2>2, NextSureLemma DEF SureFacts
    <3> QED BY <3>1, <3>2
  <2>3. ASSUME NEW k \in 1..Len(params), params[k].handle = h PROVE Held'[h] = Held[h]
    <3>1. Safe(k) /\ Held[h] = Content(params, Eeprom.data, k)
      BY <2>3, SureLemma
    <3>2. Safe(k)'
      BY <1>3, <3>1 DEF Safe
    <3>3. Held'[h] = Content(params', Eeprom'.data, k)
      BY <1>3, <1>4, <1>5, <2>3, <3>2, NextSureLemma DEF SureFacts
    <3> QED BY <1>1, <1>3, <3>1, <3>3
  <2> QED BY <2>2, <2>3
<1> QED BY <1>1, <1>5, <1>6 DEF Unchanged

(* Outside commit()                                                        *)
LEMMA IdleLemma ==
    ASSUME StoreInv, Idle
    PROVE  /\ flash # None /\ Eeprom = flash /\ flash.data \in Seq(Bytes)
           /\ IInv /\ Sound(params, pools) /\ FineParams(params)
           /\ params \in Seq(Param) /\ Len(params) \in Nat
           /\ resized \in SUBSET Nat /\ resized \subseteq 1..Len(params)
           /\ Good(params, pools, flash.data, resized)
<1>1. Eeprom = flash
  BY DEF Eeprom
<1>2. IInv /\ Sound(params, pools) /\ FineParams(params) /\ params \in Seq(Param)
      /\ resized \subseteq 1..Len(params)
  BY DEF StoreInv, IInv, Sound
<1>3. Len(params) \in Nat
  BY <1>2
<1>4. flash # None
  BY DEF StoreInv, IInv, Idle
<1>5. resized \in SUBSET Nat
  BY <1>2
<1> QED BY <1>1, <1>2, <1>3, <1>4, <1>5, EepromLemma DEF StoreInv

LEMMA GetStores ==
    ASSUME StoreInv, NEW h \in Handles, Get(h)
    PROVE  StoreInv' /\ Unchanged
<1>1. Idle /\ UNCHANGED <<flash, image, resized>>
  BY DEF Get
<1>2. PICK k \in Find(params, h) :
         /\ params' = Loaded(params, pools, flash.data, k).params
         /\ pools' = Loaded(params, pools, flash.data, k).pools
  BY DEF Get
<1>3. k \in 1..Len(params)
  BY DEF Find, StoreInv, IInv, Sound
<1>4. Alike(params, params') /\ Good(params', pools', flash.data, resized)
  BY <1>1, <1>2, <1>3, IdleLemma, LoadedLemma, LoadedGood
<1>5. IInv'
  BY GetStep DEF StoreInv
<1> QED BY <1>1, <1>4, <1>5, IdleLemma, AlikeStep

LEMMA ReleaseStores ==
    ASSUME StoreInv, Release
    PROVE  StoreInv' /\ Unchanged
<1>1. Idle /\ UNCHANGED <<flash, image, resized>>
  BY DEF Release
<1>2. IInv'
  BY ReleaseStep DEF StoreInv
<1>3. params \in Seq(Param) /\ DOMAIN params = 1..Len(params)
      /\ params' \in Seq(Param) /\ DOMAIN params' = DOMAIN params
  BY <1>2 DEF StoreInv, IInv, Sound, Release
<1>4. Len(params') = Len(params)
  BY <1>3
<1>5. ASSUME NEW k \in 1..Len(params)
      PROVE  /\ params'[k].handle = params[k].handle /\ params'[k].length = params[k].length
             /\ params'[k].dirty = params[k].dirty /\ params'[k].data = params[k].data
             /\ params'[k].place = None
  <2> DEFINE p == params[k]
  <2>1. p \in Param /\ (p.dirty => p.place = None)
    BY <1>3, ParamLemma DEF StoreInv, IInv, Sound, InPlace
  <2>2. params'[k] = IF p.dirty THEN p ELSE [p EXCEPT !.place = None]
    BY <1>3 DEF Release
  <2> HIDE DEF p
  <2>3. CASE p.dirty
    BY <2>1, <2>2, <2>3 DEF p
  <2>4. CASE ~p.dirty
    <3>1. params'[k] = [p EXCEPT !.place = None]
      BY <2>2, <2>4
    <3> QED BY <2>1, <3>1 DEF Param, p
  <2> QED BY <2>3, <2>4
<1>6. Alike(params, params')
  BY <1>4, <1>5 DEF Alike
<1>7. Good(params', pools', Eeprom.data, resized)
  BY <1>4, <1>5, UnloadedGood
<1> QED BY <1>1, <1>2, <1>6, <1>7, AlikeStep

LEMMA StutterStores ==
    ASSUME StoreInv, UNCHANGED <<params, pools, flash, image, resized>>
    PROVE  StoreInv' /\ Unchanged
<1>1. Eeprom' = Eeprom /\ HeldBack' = HeldBack
  BY EepromStays
<1>2. IInv'
  BY DEF StoreInv, IInv
<1>3. StoreInv'
  BY <1>1, <1>2 DEF StoreInv
<1>4. Held' = Held
  BY <1>1 DEF Held
<1> QED BY <1>1, <1>3, <1>4 DEF Unchanged

LEMMA WriteDoneStores ==
    ASSUME StoreInv, WriteDone
    PROVE  StoreInv' /\ Unchanged
<1>1. /\ image # None /\ flash' = image /\ image' = None
      /\ params' = params /\ pools' = pools /\ resized' = resized
  BY DEF WriteDone, Idle
<1>2. Eeprom' = Eeprom
  BY <1>1 DEF Eeprom, Idle
<1>3. IInv'
  BY <1>1 DEF StoreInv, IInv, FineHeaders
<1>4. StoreInv'
  BY <1>1, <1>2, <1>3 DEF StoreInv
<1>5. HeldBack' = HeldBack /\ Held' = Held
  BY <1>1, <1>2 DEF HeldBack, Held
<1> QED BY <1>4, <1>5 DEF Unchanged

-----------------------------------------------------------------------------
(* The parameters with one for h, at k: all others are as they are.        *)
Grown(ps, h, k) ==
    /\ k \in 1..Len(ps) /\ ps[k].handle = h
    /\ Len(params) <= Len(ps)
    /\ \A j \in 1..Len(ps) : j \in 1..Len(params) \/ j = k
    /\ k \in 1..Len(params) \/ k = Len(ps)
    /\ \A j \in 1..Len(params) :
         /\ ps[j].handle = params[j].handle /\ ps[j].length = params[j].length
         /\ ps[j].dirty = params[j].dirty /\ ps[j].data = params[j].data

LEMMA GrownLoaded ==
    ASSUME NEW ps, NEW qs, Alike(ps, qs), NEW h, NEW k, Grown(ps, h, k), Len(params) \in Nat,
           Len(ps) \in Nat
    PROVE  Grown(qs, h, k)
<1>1. Len(qs) = Len(ps) /\ \A j \in 1..Len(params) : j \in 1..Len(ps)
  BY DEF Alike, Grown
<1>2. \A j \in 1..Len(ps) : /\ qs[j].handle = ps[j].handle /\ qs[j].length = ps[j].length
                            /\ qs[j].dirty = ps[j].dirty /\ qs[j].data = ps[j].data
  BY DEF Alike
<1> QED BY <1>1, <1>2 DEF Grown

(* _getOrCreateParam                                                       *)
LEMMA CreatedLemma ==
    ASSUME StoreInv, Idle, NEW h \in Handles, NEW k \in Find(WithParam(h), h)
    PROVE  /\ Sound(WithParam(h), pools) /\ Grown(WithParam(h), h, k)
           /\ Good(WithParam(h), pools, flash.data, resized)
<1> DEFINE ps == WithParam(h)
           p == Clean(h, 0, None)
<1>1. /\ params \in Seq(Param) /\ Len(params) \in Nat /\ DOMAIN params = 1..Len(params)
      /\ Sound(params, pools) /\ FineParams(params)
      /\ Good(params, pools, flash.data, resized)
  BY IdleLemma
<1>2. Sound(ps, pools) /\ k \in 1..Len(ps) /\ ps[k].handle = h
  BY <1>1, WithParamLemma
<1>3. CASE Find(params, h) # {}
  <2>1. ps = params
    BY <1>3 DEF WithParam
  <2> HIDE DEF ps
  <2>2. k \in 1..Len(params) /\ params[k].handle = h
    BY <1>2, <2>1
  <2>3. Grown(params, h, k)
    <3>1. Len(params) \in Nat
      BY <1>1
    <3> QED BY <2>2, <3>1 DEF Grown
  <2> QED BY <1>1, <1>2, <2>1, <2>3 DEF ps
<1>4. CASE Find(params, h) = {}
  <2>1. ps = Append(params, p)
    BY <1>4 DEF WithParam
  <2>2. p \in Param /\ p.place = None
    BY CleanLemma
  <2> HIDE DEF p, ps
  <2>3. /\ Len(ps) = Len(params) + 1 /\ ps \in Seq(Param)
        /\ \A j \in 1..Len(params) : ps[j] = params[j]
        /\ ps[Len(params) + 1] = p
    BY <1>1, <2>1, <2>2, AppendProperties
  <2>4. \A j \in 1..Len(params) : params[j].handle # h
    BY <1>1, <1>4 DEF Find
  <2>5. \A j \in 1..Len(ps) : j \in 1..Len(params) \/ j = Len(params) + 1
    BY <1>1, <2>3
  <2>6. k = Len(ps)
    BY <1>2, <2>3, <2>4, <2>5
  <2>7. Grown(ps, h, k)
    BY <1>1, <1>2, <2>3, <2>5, <2>6 DEF Grown
  <2>8. ASSUME NEW j \in 1..Len(params) PROVE Offset(params, j) = Offset(ps, j)
    <3>1. j <= Len(ps) /\ \A m \in 1..Len(params) : m < j => params[m].length = ps[m].length
      BY <1>1, <2>3
    <3> QED BY <1>1, <2>3, <3>1, OffsetsBefore
  <2>9. ASSUME NEW j \in 1..Len(params)
        PROVE  Before(j, resized) => Mirror(ps, pools, flash.data, j)
    BY <1>1, <2>3, <2>8 DEF Good, Mirror
  <2>10. Mirror(ps, pools, flash.data, Len(params) + 1)
    BY <2>2, <2>3 DEF Mirror
  <2>11. Good(ps, pools, flash.data, resized)
    BY <2>5, <2>9, <2>10 DEF Good
  <2> QED BY <1>2, <2>7, <2>11 DEF ps
<1> QED BY <1>3, <1>4

(* What write() will measure of a value in memory                          *)
LEMMA MeasureLemma ==
    ASSUME NEW h \in Handles, NEW v \in Values[h], NEW data \in Seq(Bytes), NEW length \in Nat,
           h \in Strings => UpToNul(data) = v,
           h \notin Strings => data = v /\ length = Len(v)
    PROVE  SubSeq(data, 1, RealLength(Dirty(h, length, data))) = v
<1>1. /\ Dirty(h, length, data).handle = h /\ Dirty(h, length, data).length = length
      /\ Dirty(h, length, data).data = data
  BY DEF Dirty
<1>2. CASE h \in Strings
  <2>1. UpToNul(data) = SubSeq(data, 1, Len(UpToNul(data)))
    BY StrlenLemma
  <2> QED BY <1>1, <1>2, <2>1 DEF RealLength
<1>3. CASE h \notin Strings
  <2>1. SubSeq(data, 1, Len(data)) = data
    OBVIOUS
  <2> QED BY <1>1, <1>3, <2>1 DEF RealLength
<1> QED BY <1>2, <1>3

(* One setting is v, the others that are sure, and stay so, are as before. *)
Assigned(h, v) ==
    /\ HeldBack' = HeldBack
    /\ Held'[h] = v
    /\ \A g \in Sure \cap Sure' : g # h => Held'[g] = Held[g]

LEMMA ChangeStores ==
    ASSUME StoreInv, Idle, IInv', UNCHANGED <<flash, image>>,
           NEW h \in Handles, NEW v, NEW ps, NEW pls, Sound(ps, pls), NEW k, Grown(ps, h, k),
           Good(ps, pls, flash.data, resized),
           NEW length \in Nat, NEW data \in Seq(Bytes), Change(ps, pls, k, length, data),
           SubSeq(data, 1, RealLength(Dirty(h, length, data))) = v
    PROVE  StoreInv' /\ Assigned(h, v)
<1>1. /\ params \in Seq(Param) /\ Len(params) \in Nat /\ DOMAIN params = 1..Len(params)
      /\ ps \in Seq(Param) /\ Len(ps) \in Nat /\ k \in 1..Len(ps) /\ ps[k].handle = h
      /\ Eeprom = flash /\ resized \in SUBSET Nat
  BY IdleLemma DEF Sound, Grown
<1>2. Eeprom' = Eeprom /\ HeldBack' = HeldBack
  BY EepromStays
<1>3. /\ Len(params') = Len(ps) /\ params' \in Seq(Param)
      /\ params'[k] = Dirty(h, length, data)
      /\ \A j \in 1..Len(ps) : j # k => params'[j] = ps[j]
  BY <1>1, ChangeSound DEF Sound
<1>4. /\ params'[k].handle = h /\ params'[k].length = length /\ params'[k].data = data
      /\ params'[k].dirty
  BY <1>3 DEF Dirty
<1>5. /\ resized \subseteq resized' /\ resized' \subseteq resized \cup {k}
      /\ k \notin resized' => /\ RealLength(params'[k]) = length
                              /\ k \in 1..Len(params) => length = params[k].length
  BY <1>1 DEF Change
<1>6. resized' \in SUBSET Nat
  BY <1>1, <1>5
<1>7. length = ps[k].length \/ k \in resized' \/ k = Len(ps)
  BY <1>5 DEF Grown
<1>8. /\ Good(params', pools', flash.data, resized')
      /\ \A j \in 1..Len(ps) : Before(j, resized') => Offset(ps, j) = Offset(params', j)
  BY <1>1, <1>5, <1>6, <1>7, ChangeGood
<1>9. ASSUME NEW j \in 1..Len(params), j # k
      PROVE  /\ j \in 1..Len(params') /\ params'[j].handle = params[j].handle
             /\ params'[j].length = params[j].length /\ params'[j].dirty = params[j].dirty
             /\ params'[j].data = params[j].data
             /\ Before(j, resized') => Offset(params', j) = Offset(params, j)
  <2>1. j \in 1..Len(ps)
    BY <1>1 DEF Grown
  <2>2. Offset(params, j) = Offset(ps, j)
    <3>1. j <= Len(ps) /\ \A m \in 1..Len(params) : m < j => params[m].length = ps[m].length
      BY <2>1 DEF Grown
    <3> QED BY <1>1, <3>1, OffsetsBefore
  <2>3. params'[j] = ps[j]
    BY <1>3, <1>9, <2>1
  <2> QED BY <1>3, <1>8, <2>1, <2>2, <2>3 DEF Grown
<1>10. \A j \in 1..Len(params') : j \in 1..Len(params) \/ j = k
  BY <1>3 DEF Grown
<1>11. StoreInv'
  <2>1. Len(Eeprom.headers) \in Nat /\ BeginsWith(params, Eeprom.headers)
    BY EepromLemma DEF StoreInv
  <2>2. BeginsWith(params', Eeprom.headers)
    <3>1. Len(Eeprom.headers) <= Len(params')
      BY <1>1, <1>3, <2>1 DEF BeginsWith, Grown
    <3>2. ASSUME NEW j \in 1..Len(Eeprom.headers)
          PROVE  params'[j].handle = Eeprom.headers[j].handle
      <4>1. j \in 1..Len(params) /\ params[j].handle = Eeprom.headers[j].handle
        BY <1>1, <2>1 DEF BeginsWith
      <4>2. CASE j = k
        BY <1>4, <4>1, <4>2 DEF Grown
      <4>3. CASE j # k
        BY <1>9, <4>1, <4>3
      <4> QED BY <4>2, <4>3
    <3> QED BY <3>1, <3>2 DEF BeginsWith
  <2>3. ASSUME NEW j \in 1..Len(params'), j \notin resized'
        PROVE  KeepsLength(params', Eeprom.headers, j)
    <3>1. j \in 1..Len(params) => KeepsLength(params, Eeprom.headers, j)
      BY <1>5, <2>3 DEF StoreInv
    <3>2. CASE j = k
      <4>1. RealLength(params'[k]) = length
        BY <1>5, <2>3, <3>2
      <4>2. ASSUME k <= Len(Eeprom.headers) PROVE length = Eeprom.headers[k].length
        <5>1. k \in 1..Len(params)
          BY <1>1, <2>1, <4>2 DEF BeginsWith
        <5> QED BY <1>5, <2>3, <3>1, <3>2, <4>2, <5>1 DEF KeepsLength
      <4> QED BY <1>4, <3>2, <4>1, <4>2 DEF KeepsLength
    <3>3. CASE j # k
      <4>1. j \in 1..Len(params)
        BY <1>10, <3>3
      <4>2. RealLength(params'[j]) = RealLength(params[j])
        BY <1>9, <3>3, <4>1 DEF RealLength
      <4> QED BY <1>9, <3>1, <3>3, <4>1, <4>2 DEF KeepsLength
    <3> QED BY <3>2, <3>3
  <2>4. (image # None => flash = None)'
    BY <1>2 DEF StoreInv
  <2> QED BY <1>1, <1>2, <1>8, <2>2, <2>3, <2>4 DEF StoreInv
<1>12. Held'[h] = v
  <2>1. Safe(k)'
    BY <1>4 DEF Safe
  <2>2. k \in 1..Len(params') /\ params'[k].handle = h
    BY <1>1, <1>3, <1>4
  <2>3. Held'[h] = Content(params', Eeprom'.data, k)
    BY <1>11, <2>1, <2>2, NextSureLemma DEF SureFacts
  <2>4. Content(params', Eeprom'.data, k) = SubSeq(data, 1, RealLength(params'[k]))
    BY <1>4 DEF Content
  <2> QED BY <1>3, <2>3, <2>4
<1>13. ASSUME NEW g \in Sure \cap Sure', g # h PROVE Held'[g] = Held[g]
  <2>1. g \in Handles
    BY DEF Sure
  <2>2. CASE \A j \in 1..Len(params) : params[j].handle # g
    <3>1. Held[g] = None
      BY <2>1, <2>2, OneOrNone DEF StoreInv
    <3>2. \A j \in 1..Len(params') : params'[j].handle # g
      <4> SUFFICES ASSUME NEW j \in 1..Len(params') PROVE params'[j].handle # g
        OBVIOUS
      <4>1. CASE j = k
        BY <1>4, <1>13, <4>1
      <4>2. CASE j # k
        BY <1>9, <1>10, <2>2, <4>2
      <4> QED BY <4>1, <4>2
    <3>3. Held'[g] = None
      BY <1>11, <2>1, <3>2, NextSureLemma DEF SureFacts
    <3> QED BY <3>1, <3>3
  <2>3. ASSUME NEW j \in 1..Len(params), params[j].handle = g PROVE Held'[g] = Held[g]
    <3>1. j # k
      BY <1>13, <2>3 DEF Grown
    <3>2. /\ j \in 1..Len(params') /\ params'[j].handle = g
          /\ params'[j].length = params[j].length /\ params'[j].dirty = params[j].dirty
          /\ params'[j].data = params[j].data
          /\ Before(j, resized') => Offset(params', j) = Offset(params, j)
      BY <1>9, <2>3, <3>1
    <3>3. Safe(j) /\ Held[g] = Content(params, Eeprom.data, j)
      BY <1>13, <2>3, SureLemma
    <3>4. Safe(j)' /\ Held'[g] = Content(params', Eeprom'.data, j)
      BY <1>11, <1>13, <3>2, NextSureLemma DEF SureFacts
    <3>5. params[j].dirty \/ Before(j, resized')
      BY <3>2, <3>4 DEF Safe
    <3>6. RealLength(params'[j]) = RealLength(params[j])
      BY <3>2, <2>3 DEF RealLength
    <3>7. Content(params', Eeprom.data, j) = Content(params, Eeprom.data, j)
      BY <3>2, <3>5, <3>6 DEF Content
    <3> QED BY <1>2, <3>3, <3>4, <3>7
  <2> QED BY <2>2, <2>3
<1> QED BY <1>2, <1>11, <1>12, <1>13 DEF Assigned

LEMMA SetStores ==
    ASSUME StoreInv, NEW h \in Handles, NEW v \in Values[h], Set(h, v)
    PROVE  StoreInv' /\ (Unchanged \/ Assigned(h, v))
<1>1. Idle /\ UNCHANGED <<flash, image>> /\ IInv'
  BY SetStep DEF Set, StoreInv
<1>2. PICK k \in Find(WithParam(h), h) :
          \/ UNCHANGED <<params, pools, resized>>
          \/ Change(WithParam(h), pools, k, Len(v), InMemory(h, v))
  BY DEF Set
<1>3. CASE UNCHANGED <<params, pools, resized>>
  BY <1>1, <1>3, StutterStores
<1>4. CASE Change(WithParam(h), pools, k, Len(v), InMemory(h, v))
  <2>1. /\ Len(v) \in Nat /\ InMemory(h, v) \in Seq(Bytes)
        /\ h \in Strings => UpToNul(InMemory(h, v)) = v
        /\ h \notin Strings => InMemory(h, v) = v
    BY ValueLemma
  <2>2. SubSeq(InMemory(h, v), 1, RealLength(Dirty(h, Len(v), InMemory(h, v)))) = v
    BY <2>1, MeasureLemma
  <2>3. /\ Sound(WithParam(h), pools) /\ Grown(WithParam(h), h, k)
        /\ Good(WithParam(h), pools, flash.data, resized)
    BY <1>1, CreatedLemma
  <2> DEFINE ps == WithParam(h)
             d == InMemory(h, v)
  <2> HIDE DEF ps, d
  <2>4. StoreInv' /\ Assigned(h, v)
    BY <1>1, <1>4, <2>1, <2>2, <2>3, ChangeStores DEF ps, d
  <2> QED BY <2>4
<1> QED BY <1>2, <1>3, <1>4

LEMMA EditStringStores ==
    ASSUME StoreInv, NEW h \in Handles, NEW v \in Values[h], EditString(h, v)
    PROVE  StoreInv' /\ Assigned(h, v)
<1>1. /\ Idle /\ UNCHANGED <<flash, image>> /\ IInv'
      /\ h \in Strings /\ Len(v) <= MaxLength /\ MaxLength \in Nat
  BY EditStringStep, ConfigurationAssumption DEF EditString, StoreInv
<1> DEFINE ps == WithParam(h)
<1>2. PICK k \in Find(ps, h) :
         Change(Loaded(ps, pools, flash.data, k).params, Loaded(ps, pools, flash.data, k).pools,
                k, MaxLength, Buffer(v))
  BY DEF EditString, Buffer
<1>3. /\ flash.data \in Seq(Bytes) /\ Len(params) \in Nat
      /\ Sound(params, pools) /\ FineParams(params)
  BY <1>1, IdleLemma
<1>4. /\ Sound(ps, pools) /\ Grown(ps, h, k) /\ Good(ps, pools, flash.data, resized)
      /\ FineParams(ps)
  BY <1>1, <1>3, CreatedLemma, WithParamLemma
<1> HIDE DEF ps
<1> DEFINE qs == Loaded(ps, pools, flash.data, k).params
           qls == Loaded(ps, pools, flash.data, k).pools
<1>5. k \in 1..Len(ps) /\ Len(ps) \in Nat
  BY <1>4 DEF Grown, Sound
<1>6. Sound(qs, qls) /\ Alike(ps, qs) /\ Good(qs, qls, flash.data, resized)
  BY <1>3, <1>4, <1>5, LoadedLemma, LoadedGood
<1>7. Change(qs, qls, k, MaxLength, Buffer(v))
  BY <1>2
<1> HIDE DEF qs, qls
<1>8. Grown(qs, h, k)
  BY <1>3, <1>4, <1>5, <1>6, GrownLoaded
<1>9. Buffer(v) \in Seq(Bytes) /\ UpToNul(Buffer(v)) = v
  BY <1>1, EditFine
<1>10. SubSeq(Buffer(v), 1, RealLength(Dirty(h, MaxLength, Buffer(v)))) = v
  BY <1>1, <1>9, MeasureLemma
<1> QED BY <1>1, <1>6, <1>7, <1>8, <1>9, <1>10, ChangeStores

LEMMA EditStores ==
    ASSUME StoreInv, NEW h \in Handles, NEW v \in Values[h], Edit(h, v)
    PROVE  StoreInv' /\ Assigned(h, v)
<1>1. Idle /\ UNCHANGED <<flash, image>> /\ IInv' /\ h \notin Strings
  BY EditStep DEF Edit, StoreInv
<1>2. PICK k \in Find(params, h) :
         Change(Loaded(params, pools, flash.data, k).params,
                Loaded(params, pools, flash.data, k).pools, k, params[k].length, v)
  BY DEF Edit
<1>3. /\ flash.data \in Seq(Bytes) /\ Len(params) \in Nat
      /\ Sound(params, pools) /\ FineParams(params)
      /\ Good(params, pools, flash.data, resized)
  BY <1>1, IdleLemma
<1>4. k \in 1..Len(params) /\ params[k].handle = h
  BY <1>3 DEF Find, Sound
<1>5. params[k].length = Len(v) /\ Grown(params, h, k)
  <2>1. FineLength(h, params[k].length)
    BY <1>3, <1>4 DEF FineParams, Fine
  <2> QED BY <1>1, <1>3, <1>4, <2>1 DEF FineLength, Grown
<1> DEFINE qs == Loaded(params, pools, flash.data, k).params
           qls == Loaded(params, pools, flash.data, k).pools
<1>6. Sound(qs, qls) /\ Alike(params, qs) /\ Good(qs, qls, flash.data, resized)
  BY <1>3, <1>4, LoadedLemma, LoadedGood
<1>7. Change(qs, qls, k, Len(v), v)
  BY <1>2, <1>5
<1> HIDE DEF qs, qls
<1>8. Grown(qs, h, k)
  BY <1>3, <1>5, <1>6, GrownLoaded
<1>9. v \in Seq(Bytes) /\ Len(v) \in Nat
  BY ValueLemma
<1>10. SubSeq(v, 1, RealLength(Dirty(h, Len(v), v))) = v
  BY <1>1, <1>9, MeasureLemma
<1> QED BY <1>1, <1>6, <1>7, <1>8, <1>9, <1>10, ChangeStores

-----------------------------------------------------------------------------
(* write().  What is measured is the length of what is dirty.              *)
LEMMA MeasuredParams ==
    ASSUME NEW ps \in Seq(Param), NEW k \in 1..Len(ps)
    PROVE  /\ Measured(ps)[k].handle = ps[k].handle
           /\ Measured(ps)[k].length = IF ps[k].dirty THEN RealLength(ps[k]) ELSE ps[k].length
           /\ Measured(ps)[k].dirty = ps[k].dirty /\ Measured(ps)[k].data = ps[k].data
<1> DEFINE p == ps[k]
           r == RealLength(p)
<1>1. p \in Param /\ k \in DOMAIN ps
  BY ParamLemma
<1>2. Measured(ps)[k] = IF p.dirty THEN [p EXCEPT !.length = r] ELSE p
  BY <1>1 DEF Measured
<1> HIDE DEF p, r
<1>3. /\ [p EXCEPT !.length = r].handle = p.handle /\ [p EXCEPT !.length = r].length = r
      /\ [p EXCEPT !.length = r].dirty = p.dirty /\ [p EXCEPT !.length = r].data = p.data
  BY <1>1 DEF Param
<1> QED BY <1>2, <1>3 DEF p, r

(* What is changed, and what lies where it was, is in the image what it    *)
(* was before.                                                             *)
LEMMA ImageContents ==
    ASSUME NEW ps \in Seq(Param), FineParams(ps), NEW old \in Seq(Bytes)
    PROVE  LET i  == Image(Measured(ps), old)
               qs == Unloaded(i.headers)
           IN  /\ i \in Images
               /\ Len(qs) = Len(ps) /\ Len(i.headers) = Len(ps) /\ Sound(qs, <<>>)
               /\ \A k \in 1..Len(ps) :
                    /\ qs[k].handle = ps[k].handle /\ ~qs[k].dirty /\ qs[k].place = None
                    /\ i.headers[k].handle = ps[k].handle /\ qs[k].length = i.headers[k].length
                    /\ \/ ps[k].dirty
                       \/ \A j \in 1..Len(ps) : j < k /\ ps[j].dirty
                                                   => RealLength(ps[j]) = ps[j].length
                       => Content(qs, i.data, k) = Content(ps, old, k)
<1> DEFINE ms == Measured(ps)
           i  == Image(ms, old)
           qs == Unloaded(i.headers)
<1>1. /\ ms \in Seq(Param) /\ Distinct(ms) /\ Len(ms) = Len(ps) /\ Len(ps) \in Nat
      /\ \A k \in 1..Len(ps) : Filled(ms[k]) /\ FineLength(ms[k].handle, ms[k].length)
  BY MeasuredLemma
<1>2. \A k \in 1..Len(ps) :
         /\ ms[k].handle = ps[k].handle
         /\ ms[k].length = IF ps[k].dirty THEN RealLength(ps[k]) ELSE ps[k].length
         /\ ms[k].dirty = ps[k].dirty /\ ms[k].data = ps[k].data
  BY MeasuredParams
<1> HIDE DEF ms
<1>3. /\ i \in Images /\ Len(i.headers) = Len(ms)
      /\ \A k \in 1..Len(ms) :
           /\ i.headers[k].handle = ms[k].handle /\ i.headers[k].length = ms[k].length
           /\ ReadAt(i.data, Offset(ms, k), ms[k].length) = DataOf(ms, k, old)
  BY <1>1, ImageLemma
<1>4. FineHeaders(i) /\ Sound(Unloaded(i.headers), <<>>) /\ FineParams(Unloaded(i.headers))
  BY <1>1, StoreLemma
<1> HIDE DEF i
<1>6. i.headers \in Seq(Header)
  BY <1>3 DEF Images
<1>7. ASSUME NEW k \in 1..Len(ps)
      PROVE  /\ qs[k].handle = ps[k].handle /\ qs[k].length = ms[k].length
             /\ ~qs[k].dirty /\ qs[k].place = None
  <2>1. qs[k] = Clean(i.headers[k].handle, i.headers[k].length, None)
    BY <1>1, <1>3, <1>6 DEF Unloaded
  <2>2. i.headers[k].handle = ps[k].handle /\ i.headers[k].length = ms[k].length
    BY <1>1, <1>2, <1>3
  <2> QED BY <2>1, <2>2 DEF Clean
<1>8. qs \in Seq(Param) /\ Len(qs) = Len(ps)
  <2>1. qs \in Seq(Param)
    BY <1>4 DEF Sound
  <2>2. DOMAIN qs = 1..Len(ps)
    BY <1>1, <1>3, <1>6 DEF Unloaded
  <2> HIDE DEF qs
  <2> QED BY <1>1, <2>1, <2>2
<1> HIDE DEF qs
<1>9. ASSUME NEW k \in 1..Len(ps)
      PROVE  Content(qs, i.data, k) = DataOf(ms, k, old)
  <2>1. Offset(qs, k) = Offset(ms, k)
    <3>1. k \in 1..Len(qs) /\ k <= Len(ms)
      BY <1>1, <1>8
    <3>2. \A j \in 1..Len(qs) : j < k => qs[j].length = ms[j].length
      BY <1>7, <1>8
    <3>3. qs \in Seq(Param) /\ ms \in Seq(Param)
      BY <1>1, <1>8
    <3> QED BY <3>1, <3>2, <3>3, OffsetsBefore
  <2> QED BY <1>1, <1>3, <1>7, <2>1 DEF Content
<1>10. ASSUME NEW k \in 1..Len(ps),
              \/ ps[k].dirty
              \/ \A j \in 1..Len(ps) : j < k /\ ps[j].dirty => RealLength(ps[j]) = ps[j].length
       PROVE  DataOf(ms, k, old) = Content(ps, old, k)
  <2>1. CASE ps[k].dirty
    BY <1>2, <2>1 DEF DataOf, Content
  <2>2. CASE ~ps[k].dirty
    <3>1. \A j \in 1..Len(ps) : j < k => ps[j].length = ms[j].length
      BY <1>2, <1>10, <2>2
    <3>2. Offset(ps, k) = Offset(ms, k)
      BY <1>1, <3>1, OffsetsBefore
    <3> QED BY <1>2, <2>2, <3>2 DEF DataOf, Content
  <2> QED BY <2>1, <2>2
<1>12. Sound(qs, <<>>)
  BY <1>4 DEF qs
<1>13. \A k \in 1..Len(ps) : i.headers[k].handle = ps[k].handle /\ qs[k].length = i.headers[k].length
  BY <1>1, <1>2, <1>3, <1>7
<1> QED BY <1>1, <1>3, <1>7, <1>8, <1>9, <1>10, <1>12, <1>13 DEF ms, i, qs

(* What held keeps of ps: all that is changed or lies where it was         *)
KeepsAll(ps, old, held) ==
    /\ \A h \in Handles : (\A k \in 1..Len(ps) : ps[k].handle # h) => held[h] = None
    /\ \A k \in 1..Len(ps) :
         \/ ps[k].dirty
         \/ \A j \in 1..Len(ps) : j < k /\ ps[j].dirty => RealLength(ps[j]) = ps[j].length
         => held[ps[k].handle] = Content(ps, old, k)

(* The parameters ps were written, and nothing has happened since.         *)
Written(ps, old) ==
    /\ FineParams(ps)
    /\ IInv /\ (image # None => flash = None)
    /\ Eeprom = Image(Measured(ps), old)
    /\ params = Unloaded(Eeprom.headers) /\ pools = <<>>

LEMMA WrittenStores ==
    ASSUME NEW ps \in Seq(Param), NEW old \in Seq(Bytes), Written(ps, old)
    PROVE  StoreInv /\ Held = HeldBack /\ KeepsAll(ps, old, HeldBack)
<1> DEFINE i == Image(Measured(ps), old)
           qs == Unloaded(i.headers)
<1>1. /\ i \in Images
      /\ Len(qs) = Len(ps) /\ Len(i.headers) = Len(ps)
      /\ \A k \in 1..Len(ps) :
           /\ qs[k].handle = ps[k].handle /\ ~qs[k].dirty /\ qs[k].place = None
           /\ i.headers[k].handle = ps[k].handle /\ qs[k].length = i.headers[k].length
           /\ \/ ps[k].dirty
              \/ \A j \in 1..Len(ps) : j < k /\ ps[j].dirty => RealLength(ps[j]) = ps[j].length
              => Content(qs, i.data, k) = Content(ps, old, k)
  BY ImageContents DEF Written
<1>2. Eeprom = i /\ params = qs /\ Headers = qs
  BY DEF Headers, Written
<1> HIDE DEF i, qs
<1>3. Good(params, pools, Eeprom.data, resized)
  BY <1>1, <1>2, UnloadedGood
<1>4. Len(ps) \in Nat
  OBVIOUS
<1>5. StoreInv
  BY <1>1, <1>2, <1>3, <1>4 DEF StoreInv, BeginsWith, KeepsLength, Written
<1>6. Held = HeldBack
  BY DEF Held, HeldBack, Written
<1>7. KeepsAll(ps, old, HeldBack)
  BY <1>1, <1>2, HeldBackLemma DEF KeepsAll, Written
<1> QED BY <1>5, <1>6, <1>7

LEMMA NextWrittenStores ==
    (\A ps \in Seq(Param), old \in Seq(Bytes) :
        Written(ps, old) => StoreInv /\ Held = HeldBack /\ KeepsAll(ps, old, HeldBack))'
<1>1. \A ps \in Seq(Param), old \in Seq(Bytes) :
          Written(ps, old) => StoreInv /\ Held = HeldBack /\ KeepsAll(ps, old, HeldBack)
  BY WrittenStores
<1> QED BY <1>1, PTL

LEMMA StartWriteStores ==
    ASSUME StoreInv, NEW ps \in Seq(Param), FineParams(ps), StartWrite(ps)
    PROVE  /\ StoreInv' /\ Held' = HeldBack'
           /\ \E old \in Seq(Bytes) :
                /\ flash # None => old = flash.data
                /\ KeepsAll(ps, old, HeldBack')
<1>1. (IF flash = None THEN <<>> ELSE flash.data) \in Seq(Bytes)
  BY OldLemma DEF StoreInv
<1> SUFFICES ASSUME NEW old \in Seq(Bytes), old = IF flash = None THEN <<>> ELSE flash.data
             PROVE  StoreInv' /\ Held' = HeldBack' /\ KeepsAll(ps, old, HeldBack')
  BY <1>1
<1>3. /\ image' = Image(Measured(ps), old) /\ flash' = None
      /\ params' = Unloaded(image'.headers) /\ pools' = <<>>
  BY DEF StartWrite
<1>4. IInv'
  BY StartWriteStep DEF StoreInv
<1>5. image' # None
  BY <1>3, <1>4 DEF IInv
<1>6. Eeprom' = image'
  BY <1>5 DEF Eeprom, Idle
<1>7. Written(ps, old)'
  BY <1>3, <1>4, <1>6 DEF Written
<1> QED BY <1>7, NextWrittenStores

LEMMA WriteStores ==
    ASSUME StoreInv, Write
    PROVE  StoreInv' /\ \A h \in Sure : Held'[h] = Held[h] /\ HeldBack'[h] = Held[h]
<1>1. Idle /\ StartWrite(params)
  BY DEF Write
<1>2. /\ params \in Seq(Param) /\ FineParams(params) /\ flash # None /\ Eeprom = flash
      /\ resized \subseteq 1..Len(params) /\ Len(params) \in Nat
  BY <1>1, IdleLemma
<1>3. StoreInv' /\ Held' = HeldBack' /\ KeepsAll(params, Eeprom.data, HeldBack')
  <2>1. /\ StoreInv' /\ Held' = HeldBack'
        /\ \E old \in Seq(Bytes) : /\ flash # None => old = flash.data
                                   /\ KeepsAll(params, old, HeldBack')
    BY <1>1, <1>2, StartWriteStores
  <2> QED BY <1>2, <2>1
<1>4. ASSUME NEW h \in Sure PROVE HeldBack'[h] = Held[h]
  <2>1. h \in Handles
    BY DEF Sure
  <2>2. CASE \A k \in 1..Len(params) : params[k].handle # h
    BY <1>3, <2>1, <2>2, OneOrNone DEF StoreInv, KeepsAll
  <2>3. ASSUME NEW k \in 1..Len(params), params[k].handle = h PROVE HeldBack'[h] = Held[h]
    <3>1. Safe(k) /\ Held[h] = Content(params, Eeprom.data, k)
      BY <2>3, SureLemma
    <3>2. \/ params[k].dirty
          \/ \A j \in 1..Len(params) : j < k /\ params[j].dirty
                                          => RealLength(params[j]) = params[j].length
      <4> SUFFICES ASSUME Before(k, resized), NEW j \in 1..Len(params), j < k, params[j].dirty
                   PROVE  RealLength(params[j]) = params[j].length
        BY <3>1 DEF Safe
      <4>1. j \notin resized
        BY <1>2 DEF Before
      <4> QED BY <4>1 DEF StoreInv, KeepsLength
    <3> QED BY <1>3, <2>3, <3>1, <3>2 DEF KeepsAll
  <2> QED BY <2>2, <2>3
<1> QED BY <1>3, <1>4

-----------------------------------------------------------------------------
(* The factory settings                                                    *)
Default(h) == IF h \in DOMAIN Factory THEN Factory[h] ELSE None

LEMMA FactoryContents ==
    ASSUME NEW old, NEW held, KeepsAll(FactoryParams, old, held)
    PROVE  \A h \in Handles : held[h] = Default(h)
<1>1. Order \in Seq(Handles) /\ DOMAIN Order = 1..Len(Order) /\ Len(Order) \in Nat
      /\ DOMAIN Factory = ToSet(Order)
      /\ \A h \in ToSet(Order) : h \in Handles /\ Factory[h] \in Values[h]
  <2>1. Order \in Seq(Handles) /\ DOMAIN Order = 1..Len(Order) /\ Len(Order) \in Nat
        /\ DOMAIN Factory = ToSet(Order)
        /\ \A h \in ToSet(Order) : Factory[h] \in Values[h]
    BY ConfigurationAssumption
  <2>2. \A k \in 1..Len(Order) : Order[k] \in Handles
    BY <2>1
  <2> QED BY <2>1, <2>2 DEF ToSet
<1>2. \A k \in 1..Len(Order) :
         FactoryParams[k] = Dirty(Order[k], Len(Factory[Order[k]]),
                                  InMemory(Order[k], Factory[Order[k]]))
  BY <1>1 DEF FactoryParams
<1>3. FactoryParams \in Seq(Param) /\ Len(FactoryParams) = Len(Order)
  <2>1. FactoryParams \in Seq(Param)
    BY FactoryLemma
  <2>2. DOMAIN FactoryParams = 1..Len(Order)
    BY <1>1 DEF FactoryParams
  <2> QED BY <1>1, <2>1, <2>2
<1>4. ASSUME NEW k \in 1..Len(Order)
      PROVE  /\ FactoryParams[k].handle = Order[k]
             /\ held[Order[k]] = Factory[Order[k]]
  <2> DEFINE h == Order[k]
             v == Factory[h]
  <2>1. h \in Handles /\ v \in Values[h]
    <3>1. Order[k] \in ToSet(Order)
      BY <1>1 DEF ToSet
    <3> QED BY <1>1, <3>1
  <2>2. FactoryParams[k] = Dirty(h, Len(v), InMemory(h, v))
    BY <1>2
  <2> HIDE DEF h, v
  <2>3. /\ Len(v) \in Nat /\ InMemory(h, v) \in Seq(Bytes)
        /\ h \in Strings => UpToNul(InMemory(h, v)) = v
        /\ h \notin Strings => InMemory(h, v) = v
    BY <2>1, ValueLemma
  <2> DEFINE d == InMemory(h, v)
             p == Dirty(h, Len(v), d)
  <2>4. p.handle = h /\ p.dirty /\ p.data = d
    BY DEF Dirty
  <2> HIDE DEF d
  <2>5. SubSeq(d, 1, RealLength(p)) = v
    BY <2>1, <2>3, MeasureLemma DEF d
  <2> HIDE DEF p
  <2>6. FactoryParams[k] = p
    BY <2>2 DEF p, d
  <2>7. Content(FactoryParams, old, k) = v
    BY <2>4, <2>5, <2>6 DEF Content
  <2>8. held[h] = v
    BY <1>3, <2>4, <2>6, <2>7 DEF KeepsAll
  <2> QED BY <2>4, <2>6, <2>8 DEF h, v
<1>5. ASSUME NEW h \in Handles PROVE held[h] = Default(h)
  <2>1. CASE h \in ToSet(Order)
    <3>1. PICK k \in 1..Len(Order) : Order[k] = h
      BY <1>1, <2>1 DEF ToSet
    <3> QED BY <1>1, <1>4, <2>1, <3>1 DEF Default
  <2>2. CASE h \notin ToSet(Order)
    <3>1. \A k \in 1..Len(FactoryParams) : FactoryParams[k].handle # h
      BY <1>1, <1>3, <1>4, <2>2 DEF ToSet
    <3> QED BY <1>1, <2>2, <3>1 DEF KeepsAll, Default
  <2> QED BY <2>1, <2>2
<1> QED BY <1>5

Restored == \A h \in Handles : Held[h] = Default(h) /\ HeldBack[h] = Default(h)

LEMMA FactoryStores ==
    ASSUME StoreInv, StartWrite(FactoryParams)
    PROVE  StoreInv' /\ Restored'
<1>1. FactoryParams \in Seq(Param) /\ FineParams(FactoryParams)
  BY FactoryLemma
<1>2. StoreInv' /\ Held' = HeldBack'
      /\ \E old \in Seq(Bytes) : KeepsAll(FactoryParams, old, HeldBack')
  BY <1>1, StartWriteStores
<1>3. \A h \in Handles : HeldBack'[h] = Default(h)
  BY <1>2, FactoryContents
<1> QED BY <1>2, <1>3 DEF Restored

LEMMA InitStores == Init => StoreInv /\ Restored
<1> SUFFICES ASSUME Init PROVE StoreInv /\ Restored
  OBVIOUS
<1> DEFINE ps == FactoryParams
           old == <<>>
<1>1. ps \in Seq(Param) /\ FineParams(ps) /\ old \in Seq(Bytes)
  BY FactoryLemma
<1>2. IInv
  BY InitIInv
<1>3. /\ flash = Image(FactoryParams, <<>>) /\ params = Unloaded(flash.headers)
      /\ pools = <<>> /\ image = None /\ Eeprom = flash
  BY DEF Init, Eeprom, Idle
<1>4. Measured(FactoryParams) = FactoryParams
  <2>1. ASSUME NEW k \in DOMAIN FactoryParams
        PROVE  RealLength(FactoryParams[k]) = FactoryParams[k].length
    <3> DEFINE h == Order[k]
               v == Factory[h]
    <3>1. k \in DOMAIN Order /\ FactoryParams[k] = Dirty(h, Len(v), InMemory(h, v))
      BY DEF FactoryParams
    <3>2. h \in Handles /\ v \in Values[h]
      <4>1. Order \in Seq(Handles) /\ h \in ToSet(Order)
        BY <3>1, ConfigurationAssumption DEF ToSet
      <4> QED BY <3>1, <4>1, ConfigurationAssumption
    <3> HIDE DEF h, v
    <3>3. h \in Strings => UpToNul(InMemory(h, v)) = v
      BY <3>2, ValueLemma
    <3> QED BY <3>1, <3>3 DEF RealLength, Dirty
  <2>2. ASSUME NEW k \in DOMAIN FactoryParams
        PROVE  [FactoryParams[k] EXCEPT !.length = RealLength(FactoryParams[k])] = FactoryParams[k]
    <3>1. FactoryParams[k] \in Param
      BY <1>1, ElementOfSeq
    <3> DEFINE p == FactoryParams[k]
    <3>2. RealLength(p) = p.length
      BY <2>1
    <3> HIDE DEF p
    <3>3. p \in Param
      BY <3>1 DEF p
    <3>4. [p EXCEPT !.length = RealLength(p)] = p
      BY <3>2, <3>3 DEF Param
    <3> QED BY <3>4 DEF p
  <2>3. FactoryParams = [k \in DOMAIN FactoryParams |-> FactoryParams[k]]
    BY DEF FactoryParams
  <2> HIDE DEF ps
  <2> QED BY <2>2, <2>3, Zenon DEF Measured
<1>5. Written(ps, old)
  BY <1>1, <1>2, <1>3, <1>4 DEF Written
<1> HIDE DEF ps, old
<1>6. StoreInv /\ Held = HeldBack /\ KeepsAll(ps, old, HeldBack)
  BY <1>1, <1>5, WrittenStores
<1>7. \A h \in Handles : HeldBack[h] = Default(h)
  BY <1>6, FactoryContents DEF ps
<1> QED BY <1>6, <1>7 DEF Restored


-----------------------------------------------------------------------------
(* discard(), and the EEPROM read again                                    *)
LEMMA DiscardStores ==
    ASSUME StoreInv, Discard
    PROVE  /\ StoreInv' /\ HeldBack' = HeldBack
           /\ \A h \in Sure' : HeldBack[h] # None => Held'[h] = HeldBack[h]
<1> DEFINE hs == Eeprom.headers
<1>1. /\ params' = Unloaded(params) /\ pools' = <<>> /\ UNCHANGED <<flash, image, resized>>
      /\ IInv'
  BY DiscardStep DEF Discard, StoreInv
<1>2. Eeprom' = Eeprom /\ Headers' = Headers /\ HeldBack' = HeldBack
  BY <1>1, EepromStays
<1>3. params \in Seq(Param) /\ params' \in Seq(Param) /\ Len(hs) \in Nat
  BY <1>1, EepromLemma DEF StoreInv, IInv, Sound
<1>4. /\ Len(params') = Len(params)
      /\ \A k \in 1..Len(params) :
           /\ params'[k].handle = params[k].handle /\ params'[k].length = params[k].length
           /\ ~params'[k].dirty /\ params'[k].place = None
  <2>1. DOMAIN params = 1..Len(params) /\ DOMAIN params' = DOMAIN params
    BY <1>1, <1>3 DEF Unloaded
  <2>2. \A k \in 1..Len(params) : params'[k] = Clean(params[k].handle, params[k].length, None)
    BY <1>1, <2>1 DEF Unloaded
  <2>3. Len(params') = Len(params)
    <3> DEFINE qs == params'
    <3>1. qs \in Seq(Param) /\ DOMAIN qs = DOMAIN params
      BY <1>3, <2>1
    <3> HIDE DEF qs
    <3>2. Len(qs) = Len(params)
      BY <1>3, <3>1
    <3> QED BY <3>2 DEF qs
  <2>4. ASSUME NEW k \in 1..Len(params)
        PROVE  /\ params'[k].handle = params[k].handle /\ params'[k].length = params[k].length
               /\ ~params'[k].dirty /\ params'[k].place = None
    <3>1. params'[k] = Clean(params[k].handle, params[k].length, None)
      BY <2>2
    <3> QED BY <3>1 DEF Clean
  <2> QED BY <2>3, <2>4
<1>5. StoreInv'
  <2>1. BeginsWith(params', hs)
    BY <1>3, <1>4 DEF StoreInv, BeginsWith
  <2>2. \A k \in 1..Len(params') : k \notin resized' => KeepsLength(params', hs, k)
    BY <1>1, <1>4 DEF StoreInv, KeepsLength
  <2>3. Good(params', pools', Eeprom.data, resized')
    BY <1>4, UnloadedGood
  <2> QED BY <1>1, <1>2, <2>1, <2>2, <2>3 DEF StoreInv
<1>6. ASSUME NEW h \in Sure', HeldBack[h] # None PROVE Held'[h] = HeldBack[h]
  <2>1. h \in Handles
    BY DEF Sure
  <2>2. /\ Headers \in Seq(Param) /\ Len(Headers) = Len(hs)
        /\ \A k \in 1..Len(hs) : /\ Headers[k].handle = hs[k].handle
                                 /\ Headers[k].length = hs[k].length /\ ~Headers[k].dirty
    BY HeadersLemma DEF StoreInv
  <2>3. PICK k \in 1..Len(hs) : Headers[k].handle = h
    BY <1>6, <2>1, <2>2, HeldBackLemma DEF StoreInv
  <2>4. HeldBack[h] = Content(Headers, Eeprom.data, k)
    BY <2>2, <2>3, HeldBackLemma DEF StoreInv
  <2>5. k \in 1..Len(params') /\ params'[k].handle = h
    BY <1>3, <1>4, <2>2, <2>3 DEF StoreInv, BeginsWith
  <2>6. Safe(k)' /\ Held'[h] = Content(params', Eeprom'.data, k)
    BY <1>5, <1>6, <2>5, NextSureLemma DEF SureFacts
  <2>7. Before(k, resized')
    BY <1>4, <2>5, <2>6 DEF Safe
  <2>8. \A j \in 1..Len(params') : j <= k => params'[j].length = Headers[j].length
    <3> SUFFICES ASSUME NEW j \in 1..Len(params'), j <= k
                 PROVE  params'[j].length = Headers[j].length
      OBVIOUS
    <3>1. j \notin resized' /\ j \in 1..Len(hs)
      BY <1>3, <2>7 DEF Before
    <3>2. KeepsLength(params', hs, j)
      BY <1>2, <1>5, <3>1 DEF StoreInv
    <3> QED BY <2>2, <3>1, <3>2 DEF KeepsLength
  <2>9. Offset(params', k) = Offset(Headers, k)
    <3> DEFINE qs == params'
    <3>1. /\ qs \in Seq(Param) /\ k \in 1..Len(qs) /\ k <= Len(Headers)
          /\ \A j \in 1..Len(qs) : j < k => qs[j].length = Headers[j].length
      BY <1>3, <2>2, <2>5, <2>8
    <3> HIDE DEF qs
    <3>2. Offset(qs, k) = Offset(Headers, k)
      BY <2>2, <3>1, OffsetsBefore
    <3> QED BY <3>2 DEF qs
  <2>10. ~params'[k].dirty /\ params'[k].length = Headers[k].length /\ ~Headers[k].dirty
    BY <1>3, <1>4, <2>2, <2>5, <2>8
  <2> QED BY <1>2, <2>4, <2>6, <2>9, <2>10 DEF Content
<1> QED BY <1>2, <1>5, <1>6

LEMMA ReadStores ==
    ASSUME StoreInv, Read, flash # None
    PROVE  StoreInv' /\ Held' = HeldBack /\ HeldBack' = HeldBack
<1>1. /\ params' = Unloaded(flash.headers) /\ pools' = <<>> /\ resized' = {}
      /\ UNCHANGED <<flash, image>> /\ IInv'
  BY ReadStep DEF Read, StoreInv
<1>2. Eeprom = flash /\ Eeprom' = Eeprom /\ HeldBack' = HeldBack
  BY <1>1, EepromStays DEF StoreInv, Eeprom, Idle
<1>3. params' = Headers
  BY <1>1, <1>2 DEF Headers
<1>4. StoreInv'
  <2>1. /\ Len(Headers) = Len(Eeprom.headers) /\ Len(Eeprom.headers) \in Nat
        /\ \A k \in 1..Len(Headers) :
             /\ Headers[k].handle = Eeprom.headers[k].handle
             /\ Headers[k].length = Eeprom.headers[k].length
             /\ ~Headers[k].dirty /\ Headers[k].place = None
    BY HeadersLemma, EepromLemma DEF StoreInv
  <2>2. BeginsWith(params', Eeprom.headers)
    BY <1>3, <2>1 DEF BeginsWith
  <2>3. \A k \in 1..Len(params') : KeepsLength(params', Eeprom.headers, k)
    BY <1>3, <2>1 DEF KeepsLength
  <2>4. Good(params', pools', Eeprom.data, resized')
    BY <1>3, <2>1, UnloadedGood
  <2> QED BY <1>1, <1>2, <2>2, <2>3, <2>4 DEF StoreInv
<1>5. Held' = HeldBack
  BY <1>1, <1>2 DEF Held, HeldBack
<1> QED BY <1>2, <1>4, <1>5

-----------------------------------------------------------------------------
(* What the program reads is what is stored, while the strings end, up to  *)
(* the first NUL.                                                          *)
LEMMA NowLemma ==
    StoreInv => (StringsEnd => \A h \in Handles : Now[h] = Held[h] \/ (h \in Strings /\ NUL \in ToSet(Held[h])))
<1> SUFFICES ASSUME StoreInv, StringsEnd, NEW h \in Handles,
                    ~(h \in Strings /\ NUL \in ToSet(Held[h]))
             PROVE  Now[h] = Held[h]
  OBVIOUS
<1> DEFINE data == Eeprom.data
<1>1. /\ params \in Seq(Param) /\ DOMAIN params = 1..Len(params)
      /\ Sound(params, pools) /\ Distinct(params)
      /\ data \in Seq(Bytes)
  BY EepromLemma DEF StoreInv, IInv, Sound, FineParams
<1>2. ValueOf(params, pools, Eeprom, h) = HeldBy(params, pools, Eeprom, h)
  <2>1. CASE Find(params, h) = {}
    BY <2>1 DEF ValueOf, HeldBy
  <2>2. ASSUME NEW k \in Find(params, h)
        PROVE  ValueOf(params, pools, Eeprom, h) = HeldBy(params, pools, Eeprom, h)
    <3> DEFINE p == params[k]
               m == p.length
               d == BytesOf(params, pools, Eeprom, k)
    <3>1. k \in 1..Len(params) /\ p.handle = h
      BY <1>1 DEF Find
    <3>2. Find(params, h) = {k}
      BY <1>1, <3>1, FindLemma
    <3>3. /\ ValueOf(params, pools, Eeprom, h) = IF h \in Strings THEN UpToNul(d) ELSE SubSeq(d, 1, m)
          /\ HeldBy(params, pools, Eeprom, h) =
               IF p.dirty /\ h \in Strings THEN UpToNul(p.data) ELSE SubSeq(d, 1, m)
      <4>1. (CHOOSE n \in {k} : TRUE) = k
        OBVIOUS
      <4> QED BY <3>2, <4>1 DEF ValueOf, HeldBy
    <3>4. m \in Nat /\ Offset(params, k) \in Nat
      BY <1>1, <3>1, ParamLemma, OffsetType
    <3>9. ASSUME d \in Seq(Bytes), m <= Len(d), h \in Strings, ~p.dirty, NEW b \in 1..m
          PROVE  d[b] # NUL
      <4>1. Held[h] = SubSeq(d, 1, m)
        BY <3>3, <3>9 DEF Held
      <4> HIDE DEF d, m
      <4>2. SubSeq(d, 1, m) \in Seq(Bytes) /\ Len(SubSeq(d, 1, m)) = m
            /\ SubSeq(d, 1, m)[b] = d[b]
        BY <3>4, <3>9
      <4>3. b \in DOMAIN SubSeq(d, 1, m)
        BY <4>2, <3>4
      <4>4. SubSeq(d, 1, m)[b] \in ToSet(Held[h])
        BY <4>1, <4>3 DEF ToSet
      <4> QED BY <3>9, <4>2, <4>4
    <3>5. CASE p.dirty
      <4>1. d = p.data
        BY <3>5 DEF BytesOf, Memory
      <4> QED BY <3>3, <3>5, <4>1
    <3>6. CASE h \notin Strings
      BY <3>3, <3>6
    <3>7. CASE h \in Strings /\ ~p.dirty /\ p.place # None
      <4>1. d = Memory(p, pools)
        BY <3>7 DEF BytesOf
      <4>2. /\ d \in Seq(Bytes) /\ m < Len(d)
            /\ \A b \in 1..m : d[b] = ByteAt(pools, p, b)
        BY <1>1, <3>1, <3>7, <4>1, MemoryLemma
      <4>3. \A b \in 1..m : d[b] # NUL
        BY <3>3, <3>4, <3>7, <4>2, <3>9
      <4>4. d[m + 1] = NUL
        BY <1>1, <3>1, <3>7, <4>1 DEF StringsEnd
      <4> HIDE DEF d, m
      <4>5. UpToNul(d) = SubSeq(d, 1, m)
        BY <3>4, <4>2, <4>3, <4>4, UpToNulLemma
      <4> QED BY <3>3, <3>7, <4>5
    <3>8. CASE h \in Strings /\ ~p.dirty /\ p.place = None
      <4>1. d = ReadAt(data, Offset(params, k), m)
        BY <3>8 DEF BytesOf
      <4> HIDE DEF d, m, data
      <4>2. d \in Seq(Bytes) /\ Len(d) = m
        BY <1>1, <3>4, <4>1, ReadAtLemma
      <4>3. SubSeq(d, 1, m) = d
        BY <4>2
      <4>4. {b \in DOMAIN d : d[b] = NUL} = {}
        BY <3>3, <3>4, <3>8, <3>9, <4>2
      <4>5. UpToNul(d) = d
        BY <4>4 DEF UpToNul
      <4> QED BY <3>3, <3>8, <4>3, <4>5
    <3> QED BY <3>5, <3>6, <3>7, <3>8
  <2> QED BY <2>1, <2>2
<1> QED BY <1>2 DEF Now, Held

-----------------------------------------------------------------------------
(* What a step does to the settings                                        *)
Saved == \A h \in Sure : Held'[h] = Held[h] /\ HeldBack'[h] = Held[h]

Reverted ==
    /\ HeldBack' = HeldBack
    /\ \A h \in Sure' : HeldBack[h] # None => Held'[h] = HeldBack[h]

SettingsStep ==
    \/ Unchanged
    \/ \E h \in Handles : \E v \in Values[h] : Assigned(h, v)
    \/ Saved
    \/ Reverted
    \/ Restored'

LEMMA NextStores == ASSUME StoreInv, [Next]_vars PROVE StoreInv' /\ SettingsStep
<1>1. ASSUME NEW h \in Handles, Get(h) PROVE StoreInv' /\ SettingsStep
  BY <1>1, GetStores DEF SettingsStep
<1>2. ASSUME NEW h \in Handles, NEW v \in Values[h], Set(h, v) PROVE StoreInv' /\ SettingsStep
  BY <1>2, SetStores DEF SettingsStep
<1>3. ASSUME NEW h \in Handles, NEW v \in Values[h], EditString(h, v)
      PROVE  StoreInv' /\ SettingsStep
  BY <1>3, EditStringStores DEF SettingsStep
<1>4. ASSUME NEW h \in Handles, NEW v \in Values[h], Edit(h, v) PROVE StoreInv' /\ SettingsStep
  BY <1>4, EditStores DEF SettingsStep
<1>5. CASE Release
  BY <1>5, ReleaseStores DEF SettingsStep
<1>6. CASE Discard
  BY <1>6, DiscardStores DEF SettingsStep, Reverted
<1>7. CASE Write
  BY <1>7, WriteStores DEF SettingsStep, Saved
<1>8. CASE FactoryReset
  BY <1>8, FactoryStores DEF FactoryReset, SettingsStep
<1>9. CASE WriteDone
  BY <1>9, WriteDoneStores DEF SettingsStep
<1>10. CASE Read
  <2>1. CASE flash = None
    BY <1>10, <2>1, FactoryStores DEF Read, SettingsStep
  <2>2. CASE flash # None
    BY <1>10, <2>2, ReadStores DEF SettingsStep, Reverted
  <2> QED BY <2>1, <2>2
<1>11. CASE UNCHANGED vars
  BY <1>11, StutterStores DEF vars, SettingsStep
<1> QED BY <1>1, <1>2, <1>3, <1>4, <1>5, <1>6, <1>7, <1>8, <1>9, <1>10, <1>11 DEF Next

(* The settings of S are those of Settings.                                *)
LEMMA SettingsOf ==
    ASSUME NEW S \in SUBSET Handles, S \subseteq Sure, S \subseteq Sure', SettingsStep
    PROVE  [StoreOf(S)!Next]_(StoreOf(S)!store)
<1> DEFINE now  == [h \in S |-> HeldBy(params, pools, Eeprom, h)]
           kept == [h \in S |-> HeldBy(Unloaded(Eeprom.headers), <<>>, Eeprom, h)]
           factory == [h \in S |-> IF h \in DOMAIN Factory THEN Factory[h] ELSE None]
<1>1. now = [h \in S |-> Held[h]] /\ kept = [h \in S |-> HeldBack[h]]
  BY DEF Held, HeldBack
<1>2. now' = [h \in S |-> Held'[h]] /\ kept' = [h \in S |-> HeldBack'[h]]
  BY DEF Held, HeldBack
<1>3. CASE Unchanged
  <2>1. now' = now /\ kept' = kept
    BY <1>1, <1>2, <1>3 DEF Unchanged
  <2> QED BY <2>1 DEF StoreOf!store
<1>4. ASSUME NEW g \in Handles, NEW v \in Values[g], Assigned(g, v)
      PROVE  [StoreOf(S)!Next]_(StoreOf(S)!store)
  <2>1. kept' = kept
    BY <1>1, <1>2, <1>4 DEF Assigned
  <2>2. now' = [now EXCEPT ![g] = v]
    <3>1. \A h \in S : Held'[h] = IF h = g THEN v ELSE Held[h]
      BY <1>4 DEF Assigned
    <3>2. now' = [h \in S |-> IF h = g THEN v ELSE Held[h]]
      BY <1>2, <3>1
    <3>3. [[h \in S |-> Held[h]] EXCEPT ![g] = v] = [h \in S |-> IF h = g THEN v ELSE Held[h]]
      OBVIOUS
    <3> QED BY <1>1, <3>2, <3>3
  <2>3. CASE g \in S
    BY <2>1, <2>2, <2>3 DEF StoreOf!Next, StoreOf!Assign
  <2>4. CASE g \notin S
    <3>1. now' = now
      BY <1>1, <1>2, <1>4, <2>4 DEF Assigned
    <3> QED BY <2>1, <3>1 DEF StoreOf!store
  <2> QED BY <2>3, <2>4
<1>5. CASE Saved
  <2>1. now' = now /\ kept' = now
    BY <1>1, <1>2, <1>5 DEF Saved
  <2> QED BY <2>1 DEF StoreOf!Next, StoreOf!Save
<1>6. CASE Reverted
  <2>1. /\ kept' = kept /\ DOMAIN now' = S
        /\ \A n \in S : kept[n] # None => now'[n] = kept[n]
    BY <1>1, <1>2, <1>6 DEF Reverted
  <2> QED BY <2>1 DEF StoreOf!Next, StoreOf!Revert
<1>7. CASE Restored'
  <2>1. now' = factory /\ kept' = factory
    BY <1>2, <1>7 DEF Restored, Default
  <2> QED BY <2>1 DEF StoreOf!Next, StoreOf!Restore, StoreOf!FactorySettings
<1> QED BY <1>3, <1>4, <1>5, <1>6, <1>7 DEF SettingsStep

(* The pools mirror the EEPROM, and the EEPROM the settings, unless a      *)
(* length has changed.                                                     *)
THEOREM StoreInvariance == Spec => []StoreInv
<1>1. Init => StoreInv
  BY InitStores
<1>2. StoreInv /\ [Next]_vars => StoreInv'
  BY NextStores
<1> QED BY <1>1, <1>2, PTL DEF Spec

(* In all instances the configuration keeps the settings as Settings does: *)
(* all settings at first, and in each step those that are changed, new, or *)
(* before the first change of length since the EEPROM was read or written; *)
(* and the program reads them as long as the strings that are loaded end.  *)
THEOREM ImplementsSettings == Spec => KeepsSettings
<1>1. Init => StoreOf(Handles)!Init
  <2> SUFFICES ASSUME Init PROVE StoreOf(Handles)!Init
    OBVIOUS
  <2> DEFINE factory == [h \in Handles |-> IF h \in DOMAIN Factory THEN Factory[h] ELSE None]
  <2>1. Restored
    BY InitStores
  <2>2. Held = factory /\ HeldBack = factory
    BY <2>1 DEF Restored, Default, Held, HeldBack
  <2> QED BY <2>2 DEF StoreOf!Init, StoreOf!FactorySettings, Held, HeldBack
<1>2. StoreInv /\ [Next]_vars =>
        [\A S \in {Sure \cap Sure'} : [StoreOf(S)!Next]_(StoreOf(S)!store)]_vars
  <2> SUFFICES ASSUME StoreInv, [Next]_vars, NEW S \in {Sure \cap Sure'}
               PROVE  [StoreOf(S)!Next]_(StoreOf(S)!store)
    OBVIOUS
  <2>1. S \in SUBSET Handles /\ S \subseteq Sure /\ S \subseteq Sure'
    BY DEF Sure
  <2> QED BY <2>1, NextStores, SettingsOf
<1>3. StoreInv /\ [Next]_vars =>
        [(Release \/ \E h \in Handles : Get(h)) => \A h \in Sure : Held'[h] = Held[h]]_vars
  <2> SUFFICES ASSUME StoreInv, Release \/ \E h \in Handles : Get(h)
               PROVE  \A h \in Sure : Held'[h] = Held[h]
    OBVIOUS
  <2> QED BY GetStores, ReleaseStores DEF Unchanged
<1>4. StoreInv => (StringsEnd => \A h \in Handles : Now[h] = Held[h] \/ (h \in Strings /\ NUL \in ToSet(Held[h])))
  BY NowLemma
<1> QED BY <1>1, <1>2, <1>3, <1>4, StoreInvariance, PTL DEF Spec, KeepsSettings
=============================================================================
