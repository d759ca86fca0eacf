------------------------------- MODULE Console -------------------------------
(***************************************************************************)
(* The serial console of the web interface: WsClient (authentication and   *)
(* the start and end of a session), Http2Serial (what the serial port      *)
(* says, collected and broadcast) and SerialHandler with the AT handler.   *)
(* The web server runs in the network task: its events come between two    *)
(* loop functions, and while an AT command (+DLY) waits inside of one.     *)
(* Output is counted in units; a unit is its number.                       *)
(***************************************************************************)
EXTENDS Naturals, FiniteSets, SequencesExt

CONSTANTS
    Clients,      \* connections to /serial_console
    BufferSize,   \* _outputBufferMaxSize
    MaxOutput     \* bound: units of output between two resets

ASSUME ConsoleAssumption == BufferSize \in Nat \ {0} /\ MaxOutput \in Nat

VARIABLES
    console,   \* wsSerialConsole: "up", "none" (null), "deleted", or "restarting"
    client,    \* AsyncWebSocketClient: "none", "open", "closing", or "stale"
    auth,      \* clients with WsClient::_authenticated
    instance,  \* Http2Serial::_instance is set
    looping,   \* Http2Serial::outputLoop is a loop function
    handlers,  \* SerialHandler::_handlers
    reserved,  \* the capacity of that vector
    buffer,    \* _outputBuffer
    due,       \* _outputBufferFlushDelay: "later", "passed", or "missed"
    waiting,   \* writeToReceive is inside the AT handler, which waits
    last,      \* history: units of output so far
    since,     \* history: last when the client authenticated
    heard      \* history: units sent to the client

session == <<instance, looping, handlers, reserved>>
output == <<buffer, due, last, heard>>
vars == <<console, client, auth, session, output, waiting, since>>

Hearing == {c \in auth : client[c] = "open"}
Registered == "h2s" \in Range(handlers)

TypeOK ==
    /\ console \in {"up", "none", "deleted", "restarting"}
    /\ client \in [Clients -> {"none", "open", "closing", "stale"}]
    /\ auth \subseteq Clients
    /\ instance \in BOOLEAN /\ looping \in BOOLEAN /\ waiting \in BOOLEAN
    /\ handlers \in Seq({"at", "h2s"}) /\ reserved \in 1..2
    /\ buffer \in Seq(1..MaxOutput) /\ Len(buffer) <= BufferSize
    /\ due \in {"later", "passed", "missed"}
    /\ last \in 0..MaxOutput
    /\ since \in [Clients -> 0..MaxOutput]
    /\ heard \in [Clients -> Seq(1..MaxOutput)]

(* A boot: at_mode_setup has registered its handler, and the console its   *)
(* socket unless the web server is disabled.                               *)
Init ==
    /\ console \in {"up", "none"}
    /\ client = [c \in Clients |-> "none"]
    /\ auth = {}
    /\ instance = FALSE /\ looping = FALSE
    /\ handlers = <<"at">> /\ reserved = 1
    /\ buffer = <<>> /\ due = "later"
    /\ waiting = FALSE
    /\ last = 0
    /\ since = [c \in Clients |-> 0]
    /\ heard = [c \in Clients |-> <<>>]

Reboot ==
    /\ console' \in {"up", "none"}
    /\ client' = [c \in Clients |-> "none"]
    /\ auth' = {}
    /\ instance' = FALSE /\ looping' = FALSE
    /\ handlers' = <<"at">> /\ reserved' = 1
    /\ buffer' = <<>> /\ due' = "later"
    /\ waiting' = FALSE
    /\ last' = 0
    /\ since' = [c \in Clients |-> 0]
    /\ heard' = [c \in Clients |-> <<>>]

-----------------------------------------------------------------------------
(* Http2Serial                                                             *)

(* resetOutputBufferTimer: millis() + delay is in the future, unless the   *)
(* sum has wrapped around                                                  *)
Reset == {"later", "passed"}

(* WsClient::broadcast to the clients that are connected and authenticated *)
Broadcast(data) ==
    heard' = [c \in Clients |-> IF c \in Hearing THEN heard[c] \o data ELSE heard[c]]

(* broadcastOutputBuffer: the server it is given may have been deleted     *)
Flush(data) ==
    /\ Broadcast(data)
    /\ buffer' = <<>>
    /\ due' \in Reset

(* Mutant: what does not fit is dropped                                    *)
WriteOutputBufferDrops(data) ==
    LET all == buffer \o data
    IN  /\ buffer' = SubSeq(all, 1, IF Len(all) < BufferSize THEN Len(all) ELSE BufferSize)
        /\ due' \in Reset
        /\ UNCHANGED heard

(* writeOutputBuffer: what does not fit is broadcast in full buffers       *)
WriteOutputBuffer(data) ==
    LET all  == buffer \o data
        full == BufferSize * ((Len(all) - 1) \div BufferSize)
        rest == SubSeq(all, full + 1, Len(all))
    IN  \E time \in IF buffer = <<>> \/ full > 0 THEN Reset ELSE {due} :
            IF time = "passed"
            THEN Flush(all)
            ELSE /\ Broadcast(SubSeq(all, 1, full))
                 /\ buffer' = rest
                 /\ due' = time

(* n units go to the serial port, by SerialWrapper::write or from it, and  *)
(* to the handlers for LOCAL_TX or RECEIVE.                                *)
Output(n) ==
    LET data == [i \in 1..n |-> last + i]
    IN  /\ last + n <= MaxOutput
        /\ last' = last + n
        /\ IF Registered /\ instance
           THEN WriteOutputBuffer(data)
           ELSE UNCHANGED <<buffer, due, heard>>

(* SerialHandler::removeHandler erases every occurrence of the callback;   *)
(* the vector never holds it twice (SessionOfClients).                     *)
OtherHandlers == RemoveFirst(handlers, "h2s")

(* Http2Serial::destroyInstance, createInstance                            *)
DestroyInstance ==
    /\ instance' = FALSE
    /\ looping' = FALSE
    /\ handlers' = OtherHandlers
    /\ buffer' = <<>>
    /\ due' = "later"
    /\ UNCHANGED reserved

CreateInstance ==
    /\ instance' = TRUE
    /\ looping' = TRUE
    /\ handlers' = Append(OtherHandlers, "h2s")
    /\ reserved' = IF Len(handlers') > reserved THEN Len(handlers') ELSE reserved
    /\ buffer' = <<>>
    /\ due' \in Reset

-----------------------------------------------------------------------------
(* WsClient: events of the web socket server                               *)
Connect(c) ==
    /\ console = "up"
    /\ client[c] = "none"
    /\ client' = [client EXCEPT ![c] = "open"]
    /\ UNCHANGED <<console, auth, session, output, waiting, since>>

(* onWsEvent with a valid session id: the client counts itself, and the    *)
(* first one starts a session.  The new handler may move the vector that   *)
(* writeToReceive has an iterator of: the return from the AT handler then  *)
(* ends in an exception, or goes unnoticed.                                *)
Counted(clients) == Cardinality({c \in clients : client[c] = "open"})

Authenticate(c) ==
    /\ client[c] = "open" /\ c \notin auth
    /\ auth' = auth \cup {c}
    /\ since' = [since EXCEPT ![c] = last]
    /\ IF Counted(auth') = 1
       THEN CreateInstance
       ELSE UNCHANGED <<session, buffer, due>>
    /\ UNCHANGED <<console, client, waiting, last, heard>>

IteratorLost(c) ==
    /\ waiting
    /\ client[c] = "open" /\ c \notin auth
    /\ Counted(auth \cup {c}) = 1
    /\ ~Registered /\ Len(handlers) = reserved
    /\ Reboot

(* Either side starts the closing handshake; a wrong session id does.      *)
StartClosing(c) ==
    /\ client[c] = "open"
    /\ client' = [client EXCEPT ![c] = "closing"]
    /\ UNCHANGED <<console, auth, session, output, waiting, since>>

(* WS_EVT_DISCONNECT, with or without a handshake: the client has left the *)
(* list of the server, and the last one ends the session.                  *)
Forget(c) ==
    /\ client' = [client EXCEPT ![c] = "none"]
    /\ auth' = auth \ {c}
    /\ since' = [since EXCEPT ![c] = 0]
    /\ heard' = [heard EXCEPT ![c] = <<>>]

(* Mutant: the leaving client is counted as well                           *)
DisconnectedCounts(c) ==
    /\ client[c] \in {"open", "closing"}
    /\ Forget(c)
    /\ IF Counted(auth) = 0
       THEN DestroyInstance
       ELSE UNCHANGED <<session, buffer, due>>
    /\ UNCHANGED <<console, waiting, last>>

Disconnected(c) ==
    /\ client[c] \in {"open", "closing"}
    /\ Forget(c)
    /\ IF Counted(auth \ {c}) = 0
       THEN DestroyInstance
       ELSE UNCHANGED <<session, buffer, due>>
    /\ UNCHANGED <<console, waiting, last>>

(* WsConsoleClient::onText, receivedFromRemote: the AT handler answers,    *)
(* unless writeToReceive is locked, and the text is lost on it.  The text  *)
(* itself goes to the other clients at once; it is no output of the port.  *)
Text(c) ==
    /\ c \in Hearing
    /\ instance
    /\ ~waiting
    /\ Output(1)
    /\ UNCHANGED <<console, client, auth, session, waiting, since>>

-----------------------------------------------------------------------------
(* The loop functions serialLoop and outputLoop, and the rest of the       *)
(* program that prints                                                     *)
Say(n) ==
    /\ console # "restarting"
    /\ Output(n)
    /\ UNCHANGED <<console, client, auth, session, waiting, since>>

(* _serialLoop, writeToReceive in reverse order: the console first, then   *)
(* the AT handler, which may wait (+DLY); its answer is printed after that *)
Receive ==
    /\ console # "restarting"
    /\ ~waiting
    /\ Output(1)
    /\ waiting' \in BOOLEAN
    /\ UNCHANGED <<console, client, auth, session, since>>

Resume ==
    /\ waiting
    /\ waiting' = FALSE
    /\ IF last < MaxOutput THEN Output(1) ELSE UNCHANGED output
    /\ UNCHANGED <<console, client, auth, session, since>>

(* Mutant: the loop leaves a buffer that is not full to the next output    *)
OutputLoopIfFull ==
    /\ looping
    /\ ~waiting
    /\ Len(buffer) = BufferSize /\ due = "passed"
    /\ Flush(buffer)
    /\ UNCHANGED <<console, client, auth, session, waiting, last, since>>

OutputLoop ==
    /\ looping
    /\ ~waiting
    /\ buffer # <<>> /\ due = "passed"
    /\ Flush(buffer)
    /\ UNCHANGED <<console, client, auth, session, waiting, last, since>>

(* millis() > _outputBufferFlushDelay becomes true, or the clock wraps     *)
(* around before a loop has seen it true                                   *)
TimePasses ==
    /\ buffer # <<>> /\ due = "later"
    /\ due' \in {"passed", "missed"}
    /\ UNCHANGED <<console, client, auth, session, buffer, last, heard, waiting, since>>

-----------------------------------------------------------------------------
(* WebServerPlugin::reconfigure deletes the server with the sockets that   *)
(* are registered there.  invokeReconfigureNow asks every plugin whether   *)
(* it depends on itself, so the console does not register a new one: its   *)
(* pointer dangles, and the clients it had, authenticated or not, point to *)
(* a deleted server.                                                       *)
Reconfigure ==
    /\ console = "up"
    /\ ~waiting
    /\ console' = "deleted"
    /\ client' = [c \in Clients |-> IF client[c] = "none" THEN "none" ELSE "stale"]
    /\ UNCHANGED <<auth, session, output, waiting, since>>

(* The next event of such a client: onWsEvent panics, or nobody is called  *)
StaleEvent(c) ==
    /\ client[c] = "stale"
    /\ \/ Reboot
       \/ Forget(c) /\ UNCHANGED <<console, session, buffer, due, last, waiting>>

(* A broadcast to the deleted server                                       *)
BroadcastToDeleted ==
    /\ console = "deleted"
    /\ instance /\ buffer # <<>>
    /\ Reboot

(* Http2SerialPlugin::restart of a live socket closes its clients, whose   *)
(* last event panics; it dereferences the null pointer and the dangling    *)
(* one as well.  The device restarts soon in any case.                     *)
Restart ==
    /\ console # "restarting"
    /\ \/ /\ console # "none"
          /\ console' = "restarting"
          /\ client' = [c \in Clients |-> IF client[c] = "none" THEN "none" ELSE "stale"]
          /\ DestroyInstance
          /\ UNCHANGED <<auth, last, heard, waiting, since>>
       \/ console # "up" /\ Reboot

RestartDevice == console = "restarting" /\ Reboot

Network == \E c \in Clients :
    \/ Connect(c) \/ Authenticate(c) \/ IteratorLost(c) \/ StartClosing(c)
    \/ Disconnected(c) \/ Text(c) \/ StaleEvent(c)

Next ==
    \/ Network
    \/ \E n \in 1..2 : Say(n)
    \/ Receive \/ Resume \/ OutputLoop \/ TimePasses
    \/ Reconfigure \/ BroadcastToDeleted \/ Restart \/ RestartDevice

Spec == Init /\ [][Next]_vars

(* Time passes and the AT handler returns.  A round of the loop calls      *)
(* outputLoop; the waits of the AT handler come between two rounds, so     *)
(* that it is not always enabled.                                          *)
FairSpec == Spec /\ WF_vars(TimePasses) /\ WF_vars(Resume) /\ SF_vars(OutputLoop)

-----------------------------------------------------------------------------
(* Properties                                                              *)

(* Whoever has authenticated and is connected is served by an instance,    *)
(* which is registered once; while the socket exists, no instance outlives *)
(* the authenticated clients (web_socket.cpp:163, :170).                   *)
SessionOfClients ==
    /\ Hearing # {} => instance
    /\ console = "up" /\ instance => auth # {}
    /\ instance = looping
    /\ handlers = IF instance THEN <<"at", "h2s">> ELSE <<"at">>

(* A client gets everything that the serial port has said since it         *)
(* authenticated, in order, once, but for what is still in the buffer.     *)
StreamIsComplete ==
    \A c \in Hearing :
        LET stream == heard[c] \o buffer
        IN  /\ Len(stream) >= last - since[c]
            /\ \A i \in DOMAIN stream : stream[i] = last - Len(stream) + i

(* What is in the buffer reaches a client that stays, unless the clock     *)
(* wrapped around after the buffer's timer was set (http2serial.cpp:64,    *)
(* "a small time delay").                                                  *)
OutputReaches ==
    \A c \in Clients, n \in 1..MaxOutput :
        (c \in Hearing /\ n \in Range(buffer))
            ~> (n \in Range(heard[c]) \/ c \notin Hearing \/ due = "missed")

(* Known not to hold: after a change of the web server's settings the      *)
(* console is registered with the new server ("calls reconfigure for all   *)
(* dependencies", PluginComponent.h:77).                                   *)
Reregistered == console # "deleted"

=============================================================================
