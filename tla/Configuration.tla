--------------------------- MODULE Configuration ----------------------------
(***************************************************************************)
(* lib/KFCConfiguration: the settings of the device, a list of parameters  *)
(* whose data lies in the EEPROM one after the other.  A parameter's data  *)
(* is loaded into a memory pool when it is first read and freed by the     *)
(* garbage collector; a changed parameter has memory of its own and is     *)
(* dirty until write() stores it or discard() drops it.  The place of a    *)
(* parameter in the EEPROM is not stored anywhere: it is the sum of the    *)
(* lengths of the parameters before it.  A string ends with a NUL, which   *)
(* is in memory, but not in the EEPROM.                                    *)
(*                                                                         *)
(* Offsets are counted from _dataOffset.                                   *)
(***************************************************************************)
EXTENDS Integers, SequencesExt, MemoryPools

CONSTANTS
    Handles,
    Strings,      \* the handles of type STRING; the others have a fixed size
    Values,       \* what each handle can be set to, sequences of bytes
    MaxLength,    \* the length getWriteableString() asks for
    Order,        \* restoreFactorySettings(): the handles it sets ...
    Factory,      \* ... and the values it gives them
    DataStart,    \* the address of _dataOffset in the flash memory
    None

ASSUME ConfigurationAssumption ==
    /\ Strings \subseteq Handles
    /\ Values \in [Handles -> SUBSET Seq(Nat)]
    /\ \A h \in Strings : Values[h] \subseteq Seq(Nat \ {NUL})
    /\ \A h \in Handles \ Strings : \A v, w \in Values[h] : Len(v) = Len(w)
    /\ MaxLength \in Nat /\ DataStart \in Nat
    /\ Order \in Seq(Handles) /\ IsInjective(Order)
    /\ Factory \in [ToSet(Order) -> Seq(Nat)]
    /\ \A h \in ToSet(Order) : Factory[h] \in Values[h]
    /\ Junk \notin Nat /\ None \notin UNION {Values[h] : h \in Handles}

VARIABLES
    params,   \* _params: [handle, length, place, data, dirty]; a dirty parameter
              \* has data, another one a place in a pool, or None: not loaded
    pools,    \* _storage
    flash,    \* the EEPROM: [headers, data], None while its CRC is wrong
    image,    \* what commit() is about to write, None outside commit()
    resized   \* history: the parameters whose length has changed, or will in
              \* write(), since the EEPROM was read or written

vars == <<params, pools, flash, image, resized>>

-----------------------------------------------------------------------------
Clean(h, length, place) ==
    [handle |-> h, length |-> length, place |-> place, data |-> <<>>, dirty |-> FALSE]

Dirty(h, length, data) ==
    [handle |-> h, length |-> length, place |-> None, data |-> data, dirty |-> TRUE]

(* Param_t::getSize: a string has a NUL at its end.                        *)
SizeOf(p) == IF p.handle \in Strings THEN p.length + 1 ELSE p.length

InMemory(h, v) == IF h \in Strings THEN Append(v, NUL) ELSE v

Find(ps, h) == {k \in DOMAIN ps : ps[k].handle = h}

(* Configuration::_findParam: the offset of the k-th parameter of ps.      *)
Offset(ps, k) ==
    LET sum[n \in 0..Len(ps)] == IF n = 0 THEN 0 ELSE sum[n - 1] + ps[n].length
    IN  sum[k - 1]

(* EEPROMAccess::read                                                      *)
ReadAt(data, offset, length) ==
    [b \in 1..length |-> IF offset + b \in DOMAIN data THEN data[offset + b] ELSE Junk]

(* What strlen() leaves of a string.                                       *)
UpToNul(d) ==
    LET nuls == {b \in DOMAIN d : d[b] = NUL}
    IN  IF nuls = {} THEN d ELSE SubSeq(d, 1, Min(nuls) - 1)

(* updateStringLength()                                                    *)
RealLength(p) == IF p.handle \in Strings THEN Len(UpToNul(p.data)) ELSE p.length

(* ConfigurationParameter::_readData.  The flash memory is read in words;  *)
(* if these fit into the allocated memory, what was read too much becomes  *)
(* NUL.  Nothing is read of an empty string.                               *)
Load(ps, pls, data, k) ==
    LET length == ps[k].length
        new    == Allocate(pls, SizeOf(ps[k]))
        read   == RoundUp(length + ((DataStart + Offset(ps, k)) % Word), Word)
        nuls   == IF length > 0 /\ read <= Align(SizeOf(ps[k])) THEN read - length ELSE 0
    IN  [params |-> [ps EXCEPT ![k].place = new.place],
         pools  |-> Stored(new.pools, new.place,
                           ReadAt(data, Offset(ps, k), length) \o [b \in 1..nuls |-> NUL])]

Loaded(ps, pls, data, k) ==
    IF ps[k].dirty \/ ps[k].place # None THEN [params |-> ps, pools |-> pls]
    ELSE Load(ps, pls, data, k)

(* The memory from the beginning of a loaded parameter on.                 *)
Memory(p, pls) == IF p.dirty THEN p.data ELSE Append(MemoryAt(pls, p.place), Junk)

(* The parameters of an EEPROM image: _readParams.  A parameter is its own *)
(* header.                                                                 *)
Unloaded(headers) ==
    [k \in DOMAIN headers |-> Clean(headers[k].handle, headers[k].length, None)]

(* restoreFactorySettings: every parameter is created anew and set.        *)
FactoryParams ==
    [k \in DOMAIN Order |-> Dirty(Order[k], Len(Factory[Order[k]]),
                                  InMemory(Order[k], Factory[Order[k]]))]

-----------------------------------------------------------------------------
(* Configuration::write: a dirty string gets its real length first, ...    *)
Measured(ps) ==
    [k \in DOMAIN ps |->
        IF ps[k].dirty THEN [ps[k] EXCEPT !.length = RealLength(ps[k])] ELSE ps[k]]

(* ... the data of a parameter that is not dirty is taken from the EEPROM  *)
(* at the sum of the lengths before it.                                    *)
DataOf(ps, k, old) ==
    IF ps[k].dirty THEN SubSeq(ps[k].data, 1, ps[k].length)
    ELSE ReadAt(old, Offset(ps, k), ps[k].length)

Image(ps, old) ==
    LET upTo[n \in 0..Len(ps)] == IF n = 0 THEN <<>> ELSE upTo[n - 1] \o DataOf(ps, n, old)
    IN  [headers |-> [k \in DOMAIN ps |-> [handle |-> ps[k].handle, length |-> ps[k].length]],
         data |-> upTo[Len(ps)]]

(* Write the parameters ps; EEPROM.commit() erases the sector before it    *)
(* writes it.                                                              *)
StartWrite(ps) ==
    /\ image' = Image(Measured(ps), IF flash = None THEN <<>> ELSE flash.data)
    /\ params' = Unloaded(image'.headers)
    /\ pools' = <<>>
    /\ flash' = None
    /\ resized' = {}

Init ==
    /\ flash = Image(FactoryParams, <<>>)
    /\ params = Unloaded(flash.headers)
    /\ pools = <<>>
    /\ image = None
    /\ resized = {}

Idle == image = None

Write ==
    /\ Idle
    /\ StartWrite(params)

FactoryReset ==
    /\ Idle
    /\ StartWrite(FactoryParams)

WriteDone ==
    /\ ~Idle
    /\ flash' = image
    /\ image' = None
    /\ UNCHANGED <<params, pools, resized>>

-----------------------------------------------------------------------------
(* getString, getBinary, get                                               *)
Get(h) ==
    /\ Idle
    /\ \E k \in Find(params, h) :
          LET loaded == Loaded(params, pools, flash.data, k)
          IN  params' = loaded.params /\ pools' = loaded.pools
    /\ UNCHANGED <<flash, image, resized>>

(* _getOrCreateParam                                                       *)
WithParam(h) ==
    IF Find(params, h) = {} THEN Append(params, Clean(h, 0, None)) ELSE params

(* _makeWriteable and the new data: the place in the pool is released.     *)
Change(ps, pls, k, length, data) ==
    /\ params' = [ps EXCEPT ![k] = Dirty(@.handle, length, data)]
    /\ pools' = IF ps[k].place = None THEN pls ELSE Freed(pls, ps[k].place.pool)
    /\ resized' = IF \/ k \in DOMAIN params /\ length # params[k].length
                     \/ RealLength(params'[k]) # length
                  THEN resized \cup {k} ELSE resized

(* setString, setBinary, set: nothing happens if the loaded data is the    *)
(* same.                                                                   *)
Set(h, v) ==
    /\ Idle
    /\ \E k \in Find(WithParam(h), h) :
          LET p == WithParam(h)[k]
          IN  IF /\ p.dirty \/ p.place # None
                 /\ p.length = Len(v) /\ SubSeq(Memory(p, pools), 1, Len(v)) = v
              THEN UNCHANGED <<params, pools, resized>>
              ELSE Change(WithParam(h), pools, k, Len(v), InMemory(h, v))
    /\ UNCHANGED <<flash, image>>

(* getWriteableString and a strncpy into what it returns: the parameter is *)
(* loaded first.                                                           *)
EditString(h, v) ==
    /\ Idle
    /\ h \in Strings /\ Len(v) <= MaxLength
    /\ \E k \in Find(WithParam(h), h) :
          LET loaded == Loaded(WithParam(h), pools, flash.data, k)
          IN  Change(loaded.params, loaded.pools, k, MaxLength,
                     [b \in 1..MaxLength + 1 |-> IF b <= Len(v) THEN v[b] ELSE NUL])
    /\ UNCHANGED <<flash, image>>

(* getWriteable of a parameter that exists, and an assignment              *)
Edit(h, v) ==
    /\ Idle
    /\ h \notin Strings
    /\ \E k \in Find(params, h) :
          LET loaded == Loaded(params, pools, flash.data, k)
          IN  Change(loaded.params, loaded.pools, k, params[k].length, v)
    /\ UNCHANGED <<flash, image>>

(* Mutant of Release: changed parameters are released, too.                *)
ReleaseAll ==
    /\ Idle
    /\ params' = Unloaded(params)
    /\ pools' = <<>>
    /\ UNCHANGED <<flash, image, resized>>

(* gc() and release(): no pool is left, as nothing clean is.               *)
Release ==
    /\ Idle
    /\ params' = [k \in DOMAIN params |->
                    IF params[k].dirty THEN params[k] ELSE [params[k] EXCEPT !.place = None]]
    /\ pools' = <<>>
    /\ UNCHANGED <<flash, image, resized>>

(* discard(): the lengths stay as they are.                                *)
Discard ==
    /\ Idle
    /\ params' = Unloaded(params)
    /\ pools' = <<>>
    /\ UNCHANGED <<flash, image, resized>>

(* read(), on AT+LOAD and whenever the device starts, which may be in the  *)
(* middle of commit(): an EEPROM that cannot be read is replaced by the    *)
(* factory settings.                                                       *)
Read ==
    IF flash = None
    THEN StartWrite(FactoryParams)
    ELSE /\ params' = Unloaded(flash.headers)
         /\ pools' = <<>>
         /\ resized' = {}
         /\ UNCHANGED <<flash, image>>

Next ==
    \/ \E h \in Handles : Get(h)
    \/ \E h \in Handles : \E v \in Values[h] : Set(h, v) \/ EditString(h, v) \/ Edit(h, v)
    \/ Release
    \/ Discard
    \/ Write
    \/ FactoryReset
    \/ WriteDone
    \/ Read

Spec == Init /\ [][Next]_vars

-----------------------------------------------------------------------------
Bytes == Nat \cup {Junk}
Place == [pool : Nat, offset : Nat]
Param == [handle : Handles, length : Nat, place : Place \cup {None}, data : Seq(Bytes),
          dirty : BOOLEAN]
Header == [handle : Handles, length : Nat]
Images == [headers : Seq(Header), data : Seq(Bytes)]
Pool == [size : Nat, length : Nat, count : Nat, mem : Seq(Bytes)]

ASSUME NoneAssumption == None \notin Place \cup Images

(* Every variable keeps its type, and a handle occurs once.                *)
TypeOK ==
    /\ params \in Seq(Param)
    /\ \A k \in DOMAIN params : params[k].dirty => params[k].place = None
    /\ pools \in Seq(Pool)
    /\ flash \in Images \cup {None} /\ image \in Images \cup {None}
    /\ resized \subseteq DOMAIN params
    /\ IsInjective([k \in DOMAIN params |-> params[k].handle])

-----------------------------------------------------------------------------
(* The settings the parameters ps, the pools pls and the EEPROM image i    *)
(* stand for: what has been loaded or changed is in memory, the rest where *)
(* it is in the EEPROM.  While commit() runs, the image is the one it is   *)
(* about to write.                                                         *)
Eeprom == IF Idle THEN flash ELSE image

BytesOf(ps, pls, i, k) ==
    IF ps[k].dirty \/ ps[k].place # None THEN Memory(ps[k], pls)
    ELSE ReadAt(i.data, Offset(ps, k), ps[k].length)

ValueOf(ps, pls, i, h) ==
    LET k == CHOOSE n \in Find(ps, h) : TRUE
    IN  IF Find(ps, h) = {} THEN None
        ELSE IF h \in Strings THEN UpToNul(BytesOf(ps, pls, i, k))
        ELSE SubSeq(BytesOf(ps, pls, i, k), 1, ps[k].length)

Now == [h \in Handles |-> ValueOf(params, pools, Eeprom, h)]
Kept == [h \in Handles |-> ValueOf(Unloaded(Eeprom.headers), <<>>, Eeprom, h)]

Store == INSTANCE Settings WITH
    Names <- Handles, Defaults <- Factory, now <- Now, kept <- Kept

(* "write dirty parameters to EEPROM" (Configuration.h:251), and "store    *)
(* EEPROM location for unmodified parameters" (Configuration.cpp:197): the *)
(* parameters are a store of settings.  Each reads as it was last set;     *)
(* what write() stores is what could be read before it; and after          *)
(* discard(), read() or a restart, be it inside commit(), a setting reads  *)
(* as it was stored, or all read as the factory set them.  The garbage     *)
(* collector and the loading of others change no setting.                  *)
IsASettingsStore ==
    /\ Store!Spec
    /\ [][(Release \/ \E h \in Handles : Get(h)) => UNCHANGED Now]_vars

(* Known not to hold: a string that is loaded ends where it ended when it  *)
(* was stored (ConfigurationParameter.cpp:359, "last byte not NUL").       *)
StringsEnd ==
    \A k \in DOMAIN params :
        params[k].place # None /\ params[k].handle \in Strings =>
            Memory(params[k], pools)[params[k].length + 1] = NUL

(* The value of a setting by the length of its parameter.  It is what      *)
(* write() stores, and what the program reads as long as the strings end   *)
(* (StringsEnd), and no string has a NUL inside.                           *)
HeldBy(ps, pls, i, h) ==
    LET k == CHOOSE n \in Find(ps, h) : TRUE
    IN  IF Find(ps, h) = {} THEN None
        ELSE IF ps[k].dirty /\ h \in Strings THEN UpToNul(ps[k].data)
        ELSE SubSeq(BytesOf(ps, pls, i, k), 1, ps[k].length)

Held == [h \in Handles |-> HeldBy(params, pools, Eeprom, h)]
HeldBack == [h \in Handles |-> HeldBy(Unloaded(Eeprom.headers), <<>>, Eeprom, h)]

StoreOf(S) == INSTANCE Settings WITH
    Names <- S, Defaults <- Factory,
    now <- [h \in S |-> HeldBy(params, pools, Eeprom, h)],
    kept <- [h \in S |-> HeldBy(Unloaded(Eeprom.headers), <<>>, Eeprom, h)]

(* The settings a length that has changed does no harm to: those that are  *)
(* changed themselves, those that lie before it, and new ones.             *)
Settled == {k \in DOMAIN params : \A j \in resized : k < j}
Sure == {h \in Handles : \A k \in Find(params, h) : params[k].dirty \/ k \in Settled}

(* A change of length harms nobody but unchanged settings behind it, and   *)
(* no longer than until the EEPROM is read or written.  All others are a   *)
(* store ("write dirty parameters to EEPROM", Configuration.h:251): in     *)
(* each step of the program, be it a restart inside commit(), they stay,   *)
(* one of them is set, all are kept, all that were kept come back, or all  *)
(* are as the factory set them; and the garbage collector and the loading  *)
(* of any parameter change none.  As long as every loaded string ends, the *)
(* program reads the same, up to a NUL that a string has got from others.  *)
KeepsSettings ==
    /\ StoreOf(Handles)!Init
    /\ [][\A S \in {Sure \cap Sure'} : [StoreOf(S)!Next]_(StoreOf(S)!store)]_vars
    /\ [][(Release \/ \E h \in Handles : Get(h)) => \A h \in Sure : Held'[h] = Held[h]]_vars
    /\ [](StringsEnd => \A h \in Handles :
            Now[h] = Held[h] \/ (h \in Strings /\ NUL \in ToSet(Held[h])))

(* A parameter that is loaded has its place in a pool to itself, whatever  *)
(* was loaded, changed and released before: places lie inside their pools  *)
(* and do not overlap, and a pool counts its users, so that it starts      *)
(* again at its front ("release pool ptr", ConfigurationParameter.cpp:204) *)
(* under nobody's feet.  What a load writes behind a parameter reaches no  *)
(* further than the word behind the pool.                                  *)
InPools == {k \in DOMAIN params : params[k].place # None}
Extent(k) == params[k].place.offset + 1 .. params[k].place.offset + SizeOf(params[k])

PoolsAreSound ==
    /\ \A i \in DOMAIN pools :
        pools[i].count = Cardinality({k \in InPools : params[k].place.pool = i})
    /\ \A k \in InPools : Extent(k) \subseteq 1..pools[params[k].place.pool].size
    /\ \A i \in DOMAIN pools : Len(pools[i].mem) = pools[i].size + Word
    /\ \A k, l \in InPools :
        k # l /\ params[k].place.pool = params[l].place.pool => Extent(k) \cap Extent(l) = {}

(* Known not to hold: what is loaded fits into its pool ("does not fit     *)
(* into the buffer", ConfigurationHelper.cpp:210).  The NULs behind a      *)
(* parameter that fills its pool are written to the word behind the pool.  *)
LoadsFit ==
    \A i \in DOMAIN pools : \A b \in 1..Word : pools[i].mem[pools[i].size + b] = Junk
=============================================================================
