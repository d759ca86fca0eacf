------------------------------ MODULE Settings ------------------------------
(***************************************************************************)
(* What the configuration promises (lib/KFCConfiguration): every setting   *)
(* reads as it was last set, save() keeps all of them and revert(), or a   *)
(* restart, goes back to what was kept.  Nothing else changes a setting.   *)
(*                                                                         *)
(* Configuration implements it with parameters that are loaded, released   *)
(* and stored one behind the other in the EEPROM.                          *)
(***************************************************************************)
CONSTANTS
    Names,        \* the settings
    Values,       \* Values[n]: what n can be set to
    Defaults,     \* the factory settings, of a subset of Names
    None          \* the setting does not exist

VARIABLES
    now,      \* [Names -> value]: what the program reads
    kept      \* [Names -> value]: what a restart finds

store == <<now, kept>>

FactorySettings == [n \in Names |-> IF n \in DOMAIN Defaults THEN Defaults[n] ELSE None]

Init == now = FactorySettings /\ kept = FactorySettings

Assign(n, v) ==
    /\ now' = [now EXCEPT ![n] = v]
    /\ UNCHANGED kept

Save ==
    /\ kept' = now
    /\ UNCHANGED now

(* A setting that was never kept has no value to go back to: nothing is    *)
(* promised about it.                                                      *)
Revert ==
    /\ DOMAIN now' = Names
    /\ \A n \in Names : kept[n] # None => now'[n] = kept[n]
    /\ UNCHANGED kept

(* On request, and when nothing readable is left.                          *)
Restore == now' = FactorySettings /\ kept' = FactorySettings

Next ==
    \/ \E n \in Names : \E v \in Values[n] : Assign(n, v)
    \/ Save
    \/ Revert
    \/ Restore

Spec == Init /\ [][Next]_store
=============================================================================
