--------------------------- MODULE LoopFunctions ----------------------------
(***************************************************************************)
(* The main loop of the firmware: loop() in src/kfc_firmware.cpp walks the *)
(* vector of loop functions by index while the functions themselves add    *)
(* and remove entries (lib/KFCEventScheduler, LoopFunctions).  An entry is *)
(* only marked when it is removed; the walk erases it when it meets it.    *)
(***************************************************************************)
EXTENDS Integers, Sequences, SequencesExt

CONSTANTS
    Functions,        \* callbackPtr of every loop function
    RestartFunction,  \* restart_device, added by restartDevice()
    None

ASSUME FunctionsAssumption ==
    /\ RestartFunction \notin Functions
    /\ None \notin Functions \cup {RestartFunction}

VARIABLES
    functions,   \* LoopFunctions::_functions: [ptr, deleted]
    i,           \* the index of the walk, 0 between two calls of loop()
    running,     \* the function loop() is calling
    restarting,  \* restartDevice() has been called
    wanted,      \* history: the functions added and not removed since
    stayed,      \* history: wanted since the walk began
    called       \* history: called in this walk

vars == <<functions, i, running, restarting, wanted, stayed, called>>

AllFunctions == Functions \cup {RestartFunction}

Init ==
    /\ functions = <<>>
    /\ i = 0
    /\ running = None
    /\ restarting = FALSE
    /\ wanted = {}
    /\ stayed = {}
    /\ called = {}

(* Code outside loop(), or a loop function.                                *)
UserCode == ~restarting /\ (i = 0 \/ running # None)

Entry(f) == {k \in DOMAIN functions : functions[k].ptr = f}

(* Mutant of Add: an entry that is marked is left alone.                   *)
AddOnce(f) ==
    /\ UserCode
    /\ functions' = IF Entry(f) # {} THEN functions
                    ELSE Append(functions, [ptr |-> f, deleted |-> FALSE])
    /\ wanted' = wanted \cup {f}
    /\ UNCHANGED <<i, running, restarting, stayed, called>>

(* LoopFunctions::add: an entry of the same pointer is revived in place.   *)
Add(f) ==
    /\ UserCode
    /\ functions' =
        IF Entry(f) # {}
        THEN [k \in DOMAIN functions |->
                IF k \in Entry(f) THEN [functions[k] EXCEPT !.deleted = FALSE]
                                  ELSE functions[k]]
        ELSE Append(functions, [ptr |-> f, deleted |-> FALSE])
    /\ wanted' = wanted \cup {f}
    /\ UNCHANGED <<i, running, restarting, stayed, called>>

(* LoopFunctions::remove                                                   *)
Remove1(f) ==
    /\ UserCode
    /\ functions' = [k \in DOMAIN functions |->
                        IF k \in Entry(f) THEN [functions[k] EXCEPT !.deleted = TRUE]
                                          ELSE functions[k]]
    /\ wanted' = wanted \ {f}
    /\ stayed' = stayed \ {f}
    /\ UNCHANGED <<i, running, restarting, called>>

(* KFCFWConfiguration::restartDevice, from a loop function or from outside *)
(* loop(): the vector is cleared under the walk.                           *)
RestartDevice ==
    /\ UserCode
    /\ functions' = <<[ptr |-> RestartFunction, deleted |-> FALSE]>>
    /\ restarting' = TRUE
    /\ wanted' = {RestartFunction}
    /\ stayed' = {}
    /\ UNCHANGED <<i, running, called>>

-----------------------------------------------------------------------------
LoopStart ==
    /\ i = 0
    /\ i' = 1
    /\ stayed' = wanted
    /\ called' = {}
    /\ UNCHANGED <<functions, running, restarting, wanted>>

AtEntry == running = None /\ i \in DOMAIN functions

(* Mutant of Erase: the index moves on.                                    *)
EraseAndSkip ==
    /\ AtEntry
    /\ functions[i].deleted
    /\ functions' = RemoveAt(functions, i)
    /\ i' = i + 1
    /\ UNCHANGED <<running, restarting, wanted, stayed, called>>

(* The entry is marked: erase it and look at this index again.             *)
Erase ==
    /\ AtEntry
    /\ functions[i].deleted
    /\ functions' = RemoveAt(functions, i)
    /\ UNCHANGED <<i, running, restarting, wanted, stayed, called>>

Call ==
    /\ AtEntry
    /\ ~functions[i].deleted
    /\ running' = functions[i].ptr
    /\ called' = called \cup {running'}
    /\ UNCHANGED <<functions, i, restarting, wanted, stayed>>

Return ==
    /\ running # None
    /\ running' = None
    /\ i' = i + 1
    /\ UNCHANGED <<functions, restarting, wanted, stayed, called>>

LoopEnd ==
    /\ running = None
    /\ i > Len(functions)
    /\ i' = 0
    /\ UNCHANGED <<functions, running, restarting, wanted, stayed, called>>

Loop == LoopStart \/ Erase \/ Call \/ Return \/ LoopEnd

Next ==
    \/ \E f \in Functions : Add(f) \/ Remove1(f)
    \/ RestartDevice
    \/ Loop

Spec == Init /\ [][Next]_vars

(* loop() is called for ever and loop functions return.                    *)
FairSpec == Spec /\ WF_vars(Loop)

-----------------------------------------------------------------------------
TypeOK ==
    /\ functions \in Seq([ptr : AllFunctions, deleted : BOOLEAN])
    /\ i \in Nat
    /\ running \in AllFunctions \cup {None}
    /\ restarting \in BOOLEAN
    /\ wanted \subseteq AllFunctions
    /\ stayed \subseteq wanted
    /\ called \subseteq AllFunctions

(* The vector holds every function that has been added and not removed,    *)
(* once, unmarked; what it holds besides is marked.                        *)
VectorSound ==
    /\ IsInjective([k \in DOMAIN functions |-> functions[k].ptr])
    /\ \A k \in DOMAIN functions : ~functions[k].deleted <=> functions[k].ptr \in wanted
    /\ wanted \subseteq {functions[k].ptr : k \in DOMAIN functions}

(* The walk by index keeps the promise of Listeners: "do not use iterators *)
(* since the vector can be modifed inside the callback"                    *)
(* (kfc_firmware.cpp:355).  Whatever the functions add and remove, a walk  *)
(* calls every function that stayed from its start to its end, none twice, *)
(* none that has been removed, and walks never stop.                       *)
Unmarked == {functions[k].ptr : k \in {n \in DOMAIN functions : ~functions[n].deleted}}

Walk == INSTANCE Listeners WITH
    Functions <- AllFunctions,
    listening <- Unmarked,
    calling <- i # 0,
    due <- IF i = 0 THEN {} ELSE stayed,
    called <- IF i = 0 THEN {} ELSE called

WalkIsARound == Walk!FairSpec
=============================================================================
