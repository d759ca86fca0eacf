--------------------------- MODULE WiFiCallbacks ----------------------------
(***************************************************************************)
(* lib/KFCEventScheduler, WiFiCallbacks: the functions that are told of    *)
(* WiFi events, and callEvent(), which walks the vector of them while the  *)
(* functions it calls remove entries.  While it does, entries are only     *)
(* emptied; the last thing it does is to erase the empty ones.             *)
(***************************************************************************)
EXTENDS WiFiStation, SequencesExt, FiniteSetsExt

CONSTANTS
    Callbacks,       \* callbackPtr of every WiFi callback
    None

ASSUME CallbacksAssumption == None \notin Callbacks

VARIABLES
    callbacks,       \* WiFiCallbacks::_callbacks: [ptr, events]
    pos,             \* the position of the walk, 0 outside callEvent()
    event,           \* the event callEvent() passes on, or passed on last
    running,         \* the callback it is running
    wanted,          \* history: the events each callback was added for
    stayed,          \* history: wanted this event since callEvent() began
    called           \* history: called for this event

callbackVars == <<callbacks, pos, event, running, wanted, stayed, called>>
vars == <<stationVars, callbackVars>>

Init ==
    /\ StationInit
    /\ callbacks = <<>>
    /\ pos = 0
    /\ event = "disconnected"
    /\ running = None
    /\ wanted = [c \in Callbacks |-> {}]
    /\ stayed = {}
    /\ called = {}

(* Code outside callEvent(), or a callback.                                *)
UserCode == pos = 0 \/ running # None

Entry(c) == {k \in DOMAIN callbacks : callbacks[k].ptr = c}

WithEvents(c, E) ==
    [k \in DOMAIN callbacks |->
        IF k \in Entry(c) THEN [callbacks[k] EXCEPT !.events = E] ELSE callbacks[k]]

(* WiFiCallbacks::add.  No callback of the firmware adds a new entry while *)
(* callEvent() iterates over the vector.                                   *)
Add(c, E) ==
    /\ UserCode
    /\ wanted' = [wanted EXCEPT ![c] = @ \cup E]
    /\ \/ /\ Entry(c) # {}
          /\ \E k \in Entry(c) : callbacks' = WithEvents(c, callbacks[k].events \cup E)
       \/ /\ Entry(c) = {}
          /\ pos = 0
          /\ callbacks' = Append(callbacks, [ptr |-> c, events |-> E])
    /\ UNCHANGED <<stationVars, pos, event, running, stayed, called>>

(* Mutant of Remove1: an entry is erased under the walk.                   *)
RemoveUnlocked(c, E) ==
    /\ UserCode
    /\ wanted' = [wanted EXCEPT ![c] = @ \ E]
    /\ stayed' = IF event \in E THEN stayed \ {c} ELSE stayed
    /\ \E k \in Entry(c) :
          callbacks' = IF callbacks[k].events \subseteq E
                       THEN RemoveAt(callbacks, k)
                       ELSE WithEvents(c, callbacks[k].events \ E)
    /\ UNCHANGED <<stationVars, pos, event, running, called>>

(* WiFiCallbacks::remove; it locks itself out of the vector under the walk.*)
Remove1(c, E) ==
    /\ UserCode
    /\ wanted' = [wanted EXCEPT ![c] = @ \ E]
    /\ stayed' = IF event \in E THEN stayed \ {c} ELSE stayed
    /\ \E k \in Entry(c) :
          callbacks' = IF callbacks[k].events \subseteq E /\ pos = 0
                       THEN RemoveAt(callbacks, k)
                       ELSE WithEvents(c, callbacks[k].events \ E)
    /\ UNCHANGED <<stationVars, pos, event, running, called>>

(* WiFiCallbacks::clear, when the device is restarted.                     *)
Clear ==
    /\ pos = 0
    /\ callbacks' = <<>>
    /\ wanted' = [c \in Callbacks |-> {}]
    /\ UNCHANGED <<stationVars, pos, event, running, stayed, called>>

-----------------------------------------------------------------------------
(* WiFiCallbacks::callEvent                                                *)
Listening == {k \in pos..Len(callbacks) : event \in callbacks[k].events}

EventStart ==
    /\ pos = 0
    /\ \E e \in Events : NextEvent(e) /\ event' = e
    /\ pos' = 1
    /\ stayed' = {c \in Callbacks : event' \in wanted[c]}
    /\ called' = {}
    /\ UNCHANGED <<callbacks, running, wanted>>

EventCall ==
    /\ pos # 0
    /\ running = None
    /\ Listening # {}
    /\ pos' = Min(Listening)
    /\ running' = callbacks[pos'].ptr
    /\ called' = called \cup {running'}
    /\ UNCHANGED <<stationVars, callbacks, event, wanted, stayed>>

EventReturn ==
    /\ running # None
    /\ running' = None
    /\ pos' = pos + 1
    /\ UNCHANGED <<stationVars, callbacks, event, wanted, stayed, called>>

(* std::remove_if and erase: the entries that are left keep their order.   *)
Left == {k \in DOMAIN callbacks : callbacks[k].events # {}}

EventDone ==
    /\ pos # 0
    /\ running = None
    /\ Listening = {}
    /\ pos' = 0
    /\ \E q \in Bijection(1..Cardinality(Left), Left) :
          /\ \A m, n \in DOMAIN q : m < n => q[m] < q[n]
          /\ callbacks' = [n \in DOMAIN q |-> callbacks[q[n]]]
    /\ UNCHANGED <<stationVars, event, running, wanted, stayed, called>>

Next ==
    \/ StationNext /\ UNCHANGED callbackVars
    \/ \E c \in Callbacks, E \in (SUBSET Events) \ {{}} : Add(c, E) \/ Remove1(c, E)
    \/ Clear
    \/ EventStart \/ EventCall \/ EventReturn \/ EventDone

Spec == Init /\ [][Next]_vars

-----------------------------------------------------------------------------
TypeOK ==
    /\ link \in {"down", "associated", "ip"}
    /\ wifiConnected \in BOOLEAN
    /\ scheduled \in Seq(Events) /\ Len(scheduled) <= ScheduleMax
    /\ callbacks \in Seq([ptr : Callbacks, events : SUBSET Events])
    /\ pos \in Nat
    /\ event \in Events
    /\ running \in Callbacks \cup {None}
    /\ wanted \in [Callbacks -> SUBSET Events]
    /\ stayed \subseteq Callbacks
    /\ called \subseteq Callbacks

(* The vector has one entry for every callback that wants events, with     *)
(* these events; outside callEvent() it has no other.                      *)
VectorSound ==
    /\ IsInjective([k \in DOMAIN callbacks |-> callbacks[k].ptr])
    /\ \A k \in DOMAIN callbacks : callbacks[k].events = wanted[callbacks[k].ptr]
    /\ \A c \in Callbacks : wanted[c] # {} => Entry(c) # {}
    /\ pos = 0 => \A k \in DOMAIN callbacks : callbacks[k].events # {}

(* callEvent() keeps the promise of Listeners: it tells everyone who wants *)
(* the event from the moment it is passed on, once, and nobody who has     *)
(* been removed meanwhile, even by another callback for the same event.    *)
Hearing == {callbacks[k].ptr : k \in {n \in DOMAIN callbacks : event \in callbacks[n].events}}

Telling == INSTANCE Listeners WITH
    Functions <- Callbacks,
    listening <- Hearing,
    calling <- pos # 0,
    due <- IF pos = 0 THEN {} ELSE stayed,
    called <- IF pos = 0 THEN {} ELSE called

EventIsARound == Telling!Spec

(* Once all events have been passed on, the last one agrees with the       *)
(* station: subscribers believe it is online exactly while it is.          *)
Informed == scheduled = <<>> => (event = "connected" <=> link = "ip")

(* "disconnect can only occur after connect" (WiFiCallbacks.h:21).         *)
DisconnectAfterConnect ==
    [][pos = 0 /\ pos' = 1 /\ event' = "disconnected" => event = "connected"]_vars
=============================================================================
