---------------------------- MODULE MemoryPools -----------------------------
(***************************************************************************)
(* The memory the configuration loads its parameters into (lib/            *)
(* KFCConfiguration, Pool and Configuration::_allocate): a vector of       *)
(* pools, each of which only grows and starts at its front again when the  *)
(* last of its users has released it.  New memory is filled with zeros,    *)
(* memory that is used again keeps its contents.                           *)
(*                                                                         *)
(* Behind a pool lies one word that is nobody's: the allocator of the core *)
(* (external) hands out blocks of 8 bytes less the 4 of its header, and    *)
(* the size of a pool is a multiple of 16.                                 *)
(***************************************************************************)
EXTENDS Naturals, Sequences, FiniteSetsExt

CONSTANTS
    Word,       \* 4: what is allocated is a multiple of it
    PoolUnit,   \* 16: so is the size of a pool
    PoolMax,    \* CONFIG_POOL_MAX_SIZE: more than that has a pool of its own
    Junk        \* a byte nobody has written

ASSUME PoolAssumption ==
    /\ {Word, PoolUnit, PoolMax} \subseteq Nat \ {0}
    /\ PoolUnit % Word = 0

NUL == 0

RoundUp(n, unit) == ((n + unit - 1) \div unit) * unit

(* Pool::align, always a little more than n                                *)
Align(n) == ((n + Word) \div Word) * Word

NewPool(n) ==
    LET size == RoundUp(n, PoolUnit)
    IN  [size |-> size, length |-> 0, count |-> 0,
         mem  |-> [b \in 1..size + Word |-> IF b <= size THEN NUL ELSE Junk]]

(* Configuration::_findPool: the pools with space for n bytes              *)
Fitting(pools, n) ==
    {k \in DOMAIN pools : pools[k].length + Align(n) <= pools[k].size}

(* Configuration::_allocate: the first pool with space, a new one that is  *)
(* larger than those before, or one of its own for the n bytes             *)
Allocate(pools, n) ==
    LET next == Min({PoolMax, (Len(pools) + 1) * PoolUnit})
        more == IF n < PoolMax /\ Fitting(pools, n) = {} THEN Append(pools, NewPool(next))
                                                         ELSE pools
        fit  == IF n < PoolMax THEN Fitting(more, n) ELSE {}
        all  == IF fit = {} THEN Append(more, NewPool(n)) ELSE more
        k    == IF fit = {} THEN Len(all) ELSE Min(fit)
    IN  [pools  |-> [all EXCEPT ![k].length = @ + Align(n), ![k].count = @ + 1],
         place |-> [pool |-> k, offset |-> all[k].length]]

(* Mutant of Freed: the pool starts again with the first release.          *)
FreedAtOnce(pools, k) == [pools EXCEPT ![k].count = @ - 1, ![k].length = 0]

(* Pool::release                                                           *)
Freed(pools, k) ==
    [pools EXCEPT ![k].count = @ - 1,
                  ![k].length = IF pools[k].count = 1 THEN 0 ELSE @]

(* The bytes go to a place, even if they do not fit into the pool.         *)
Stored(pools, place, bytes) ==
    LET mem == pools[place.pool].mem
    IN  [pools EXCEPT ![place.pool].mem =
            SubSeq(mem, 1, place.offset) \o bytes
                \o SubSeq(mem, place.offset + Len(bytes) + 1, Len(mem))]

MemoryAt(pools, place) ==
    LET mem == pools[place.pool].mem
    IN  SubSeq(mem, place.offset + 1, Len(mem))
=============================================================================
