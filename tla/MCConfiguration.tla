-------------------------- MODULE MCConfiguration ---------------------------
(***************************************************************************)
(* Instances of Configuration for TLC, with pools of 6 bytes.              *)
(***************************************************************************)
EXTENDS Configuration

CONSTANTS
    a, b, c,
    Large     \* the size of c

(* The string c, which is either short, or fills a pool of its own and is  *)
(* loaded from a place that is not aligned; the string b behind it, whose  *)
(* last byte ends a word of the flash memory when c is short; and the      *)
(* number a, which is created later.  The short c and a share a pool; b    *)
(* fills one, before or after them.                                        *)
LargeValue == [n \in 1..Large |-> IF n = 1 THEN 7 ELSE 3]
StoreValues ==
    [h \in Handles |-> CASE h = a -> {<<NUL>>}
                         [] h = b -> {<<3, 3, 3>>}
                         [] h = c -> {<<7>>, LargeValue}]
StoreOrder == <<c, b>>
StoreFactory == [h \in {b, c} |-> IF h = b THEN <<3, 3, 3>> ELSE LargeValue]

(* Strings of different lengths.                                           *)
StringValues == [h \in Handles |-> IF h = a THEN {<<1>>, <<1, 2>>} ELSE {<<>>, <<3, 3>>}]
StringOrder == <<a, b>>
StringFactory == [h \in {a, b} |-> IF h = a THEN <<1>> ELSE <<3, 3>>]
=============================================================================
