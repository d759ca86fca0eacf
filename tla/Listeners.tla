------------------------------ MODULE Listeners ------------------------------
(***************************************************************************)
(* What the lists of functions of the firmware promise their users (the    *)
(* loop functions of src/kfc_firmware.cpp and the WiFi callbacks of        *)
(* lib/KFCEventScheduler): functions come and go, even while a round of    *)
(* calls is under way and at the hands of the functions it calls, and yet  *)
(* a round calls every function that was there throughout, none twice, and *)
(* none that has left.                                                     *)
(***************************************************************************)
CONSTANTS
    Functions,
    None         \* none of them

VARIABLES
    listening,   \* the functions that are to be called
    calling,     \* a round is under way
    due,         \* those that listen since the round began
    called,      \* those the round has called
    running      \* the one it is calling

vars == <<listening, calling, due, called, running>>

Init ==
    /\ listening = {}
    /\ calling = FALSE
    /\ due = {}
    /\ called = {}
    /\ running = None

(* Functions are added and removed outside a round or by the one running.  *)
Change ==
    /\ calling => running # None
    /\ listening' \in SUBSET Functions
    /\ due' = due \cap listening'
    /\ UNCHANGED <<calling, called, running>>

(* A round begins; what it is about decides who listens.                   *)
Start ==
    /\ ~calling
    /\ calling' = TRUE
    /\ listening' \in SUBSET Functions
    /\ due' = listening'
    /\ UNCHANGED <<called, running>>

Call(f) ==
    /\ calling
    /\ running = None
    /\ f \in listening \ called
    /\ running' = f
    /\ called' = called \cup {f}
    /\ UNCHANGED <<listening, calling, due>>

Return ==
    /\ running # None
    /\ running' = None
    /\ UNCHANGED <<listening, calling, due, called>>

End ==
    /\ calling
    /\ running = None
    /\ due \subseteq called
    /\ calling' = FALSE
    /\ due' = {}
    /\ called' = {}
    /\ UNCHANGED <<listening, running>>

Round == Start \/ (\E f \in Functions : Call(f)) \/ Return \/ End

Next == Change \/ Round

Spec == Init /\ [][Next]_vars

(* Rounds begin, go on and end as long as there is nothing else to do.     *)
FairSpec == Spec /\ WF_vars(Round)
=============================================================================
