----------------------------- MODULE MqttClient -----------------------------
(***************************************************************************)
(* MQTTClient (src/plugins/mqtt): the connection to the broker over        *)
(* AsyncMqttClient, its reconnect timer, the topics the components are     *)
(* subscribed to, and the queue for what did not fit the TCP buffer.       *)
(*                                                                         *)
(* AsyncMqttClient is external: connect() starts an attempt unless one is  *)
(* under way; a forced disconnect() calls onDisconnect before it returns,  *)
(* a graceful one once DISCONNECT is sent; an operation returns 0 while    *)
(* not connected or while its packet does not fit; the packets of a        *)
(* message come in order, one message at a time, and start anew with the   *)
(* connection.  Its callbacks and the timers run one at a time.  The WiFi  *)
(* events come from WiFiStation.                                           *)
(***************************************************************************)
EXTENDS WiFiStation, SequencesExt, FiniteSets

CONSTANTS
    Components,      \* MQTTComponent objects
    Topics,
    StatusTopic,     \* _lastWillTopic
    Subscriptions,   \* the topics a component subscribes to in onConnect
    QueueTries,      \* calls of the queue timer before it gives up
    QueueMax,        \* bound: messages in the queue
    MaxBackoff,      \* bound: growth steps of _autoReconnectTimeout
    MessageMax,      \* MAX_MESSAGE_SIZE, in packets
    None

ASSUME MqttAssumption ==
    /\ Subscriptions \in [Components -> Seq(Topics)]
    /\ StatusTopic \notin Topics
    /\ QueueTries \in Nat \ {0}
    /\ QueueMax \in Nat
    /\ MaxBackoff \in Nat \ {0}
    /\ MessageMax \in Nat \ {0}
    /\ None \notin Components

DefaultTimeout == 1      \* DEFAULT_RECONNECT_TIMEOUT; a growth step adds 1
NoMessage == [index |-> 0, total |-> 0]

VARIABLES
    conn,        \* AsyncMqttClient: "down", "connecting", "up"
    timeout,     \* _autoReconnectTimeout, 0 disables reconnecting
    retry,       \* _timer, the reconnect timer, is armed
    components,  \* _components
    topics,      \* _topics: <<topic, component>>
    queue,       \* _queue
    tries,       \* calls of _queueTimer left, 0 if it is not active
    session,     \* history: parity of the connections made
    greeted,     \* history: onConnect was called for it in this session
    ghosts,      \* history: left while a SUBSCRIBE of theirs was queued
    broker,      \* the topics the broker has subscribed for the session
    arriving,    \* what AsyncMqttClient reads: [index, total] in packets
    buffer       \* _buffer: of each packet in it, the session it came in

clientVars == <<conn, timeout, retry, components, topics, queue, tries,
                session, greeted, ghosts, broker, arriving, buffer>>
vars == <<stationVars, clientVars>>

Init ==
    /\ StationInit
    /\ conn = "down"
    /\ timeout = DefaultTimeout
    /\ retry = FALSE
    /\ components = <<>>
    /\ topics = {}
    /\ queue = <<>>
    /\ tries = 0
    /\ session = 0
    /\ greeted = {}
    /\ ghosts = {}
    /\ broker = {}
    /\ arriving = NoMessage
    /\ buffer = <<>>

-----------------------------------------------------------------------------
(* A message, and the parity of the connection it is for.                  *)
Message(type, c, t, s) == [type |-> type, component |-> c, topic |-> t, session |-> s]

Subscribed(M) == {m \in M : m.type = "subscribe"}

(* What the client and the broker know once the messages M are sent.       *)
Sent(M) ==
    /\ topics' = topics \cup {<<m.topic, m.component>> : m \in Subscribed(M)}
    /\ broker' = broker \cup {m.topic : m \in Subscribed(M)}

(* _addQueue: the timer starts anew.                                       *)
AddQueue(m) ==
    /\ queue' = Append(queue, m)
    /\ tries' = QueueTries

(* _clearQueue                                                             *)
ClearQueue == queue' = <<>> /\ tries' = 0

(* Mutant of OnDisconnect: the topics are kept.                            *)
OnDisconnectKeepsTopics(t) ==
    /\ conn' = "down"
    /\ greeted' = {}
    /\ ghosts' = {}
    /\ broker' = {}
    /\ arriving' = NoMessage
    /\ UNCHANGED topics
    /\ ClearQueue
    /\ retry' = (t # 0 \/ retry)
    /\ timeout' = IF t # 0 /\ t < MaxBackoff THEN t + 1 ELSE t

(* onDisconnect, with the value t of _autoReconnectTimeout, and            *)
(* autoReconnect: the timer is armed and the timeout grows.                *)
OnDisconnect(t) ==
    /\ conn' = "down"
    /\ topics' = {}
    /\ greeted' = {}
    /\ ghosts' = {}
    /\ broker' = {}
    /\ arriving' = NoMessage
    /\ ClearQueue
    /\ retry' = (t # 0 \/ retry)
    /\ timeout' = IF t # 0 /\ t < MaxBackoff THEN t + 1 ELSE t

(* Mutant of Connect: the reconnect timer is not removed.                  *)
ConnectKeepsTimer(t) ==
    /\ UNCHANGED retry
    /\ conn' = "connecting"
    /\ timeout' = t
    /\ IF conn = "up"
       THEN /\ topics' = {}
            /\ greeted' = {}
            /\ ghosts' = {}
            /\ broker' = {}
            /\ arriving' = NoMessage
            /\ ClearQueue
       ELSE UNCHANGED <<topics, greeted, ghosts, broker, arriving, queue,
                        tries>>

(* connect() after setAutoReconnect(t): reconnecting is disabled while a   *)
(* connection is dropped for a new one.                                    *)
Connect(t) ==
    /\ retry' = FALSE
    /\ conn' = "connecting"
    /\ timeout' = t
    /\ IF conn = "up"
       THEN /\ topics' = {}
            /\ greeted' = {}
            /\ ghosts' = {}
            /\ broker' = {}
            /\ arriving' = NoMessage
            /\ ClearQueue
       ELSE UNCHANGED <<topics, greeted, ghosts, broker, arriving, queue,
                        tries>>

(* setAutoReconnect(0) and disconnect(true)                                *)
ForceDisconnect ==
    IF conn = "up"
    THEN OnDisconnect(0)
    ELSE /\ timeout' = 0
         /\ UNCHANGED <<conn, retry, topics, greeted, ghosts, broker, arriving, queue,
                        tries>>

-----------------------------------------------------------------------------
(* handleWiFiEvents                                                        *)
WiFiConnected ==
    /\ NextEvent("connected")
    /\ IF conn # "up" THEN Connect(DefaultTimeout)
       ELSE UNCHANGED <<conn, timeout, retry, topics, queue, tries, greeted, ghosts,
                        broker, arriving>>
    /\ UNCHANGED <<components, session, buffer>>

WiFiDisconnected ==
    /\ NextEvent("disconnected")
    /\ IF conn = "up" THEN ForceDisconnect
       ELSE UNCHANGED <<conn, timeout, retry, topics, queue, tries, greeted, ghosts,
                        broker, arriving>>
    /\ UNCHANGED <<components, session, buffer>>

(* Mutant of Reconnect: it only connects when it need not.                 *)
ReconnectInverted ==
    /\ retry
    /\ IF conn = "up" THEN Connect(timeout)
       ELSE /\ retry' = FALSE
            /\ UNCHANGED <<conn, timeout, topics, queue, tries, greeted, ghosts, broker,
                            arriving>>
    /\ UNCHANGED <<stationVars, components, session, buffer>>

(* The reconnect timer                                                     *)
Reconnect ==
    /\ retry
    /\ IF conn # "up" THEN Connect(timeout)
       ELSE /\ retry' = FALSE
            /\ UNCHANGED <<conn, timeout, topics, queue, tries, greeted, ghosts, broker,
                            arriving>>
    /\ UNCHANGED <<stationVars, components, session, buffer>>

(* publish(), by a component or, for the status, by disconnect(false); the *)
(* graceful disconnect itself comes later, as a step Disconnected.         *)
Publish ==
    /\ \/ conn = "up" /\ UNCHANGED <<queue, tries>>
       \/ /\ Len(queue) < QueueMax
          /\ AddQueue(Message("publish", None, StatusTopic, session))
    /\ UNCHANGED <<stationVars, conn, timeout, retry, components, topics, session,
                   greeted, ghosts, broker, arriving, buffer>>

(* AT+MQTT=connect, =force-disconnect and =0                          *)
AtConnect ==
    /\ Connect(DefaultTimeout)
    /\ UNCHANGED <<stationVars, components, session, buffer>>

AtForceDisconnect ==
    /\ ForceDisconnect
    /\ UNCHANGED <<stationVars, components, session, buffer>>

-----------------------------------------------------------------------------
(* The attempt to connect fails, or the connection is lost or closed.      *)
Disconnected ==
    /\ conn # "down"
    /\ OnDisconnect(timeout)
    /\ UNCHANGED <<stationVars, components, session, buffer>>

(* Everything onConnect sends, in its order: the status, <<0, 1>>, then    *)
(* whatever each registered component subscribes to.                       *)
Slots ==
    {<<0, 1>>} \cup
        UNION {{i} \X DOMAIN Subscriptions[components[i]] : i \in DOMAIN components}

Sooner(a, b) == a[1] < b[1] \/ (a[1] = b[1] /\ a[2] < b[2])

Greeting(slot, s) ==
    IF slot[1] = 0 THEN Message("publish", None, StatusTopic, s)
    ELSE Message("subscribe", components[slot[1]],
                 Subscriptions[components[slot[1]]][slot[2]], s)

(* onConnect.  The messages that are not sent at once are queued.          *)
OnConnect ==
    /\ conn = "connecting"
    /\ link = "ip"
    /\ conn' = "up"
    /\ session' = 1 - session
    /\ timeout' = DefaultTimeout
    /\ greeted' = ToSet(components)
    /\ \E late \in SUBSET Slots :
          /\ Sent({Greeting(slot, session') : slot \in Slots \ late})
          /\ \E q \in Bijection(1..Cardinality(late), late) :
                /\ \A m, n \in DOMAIN q : m < n => Sooner(q[m], q[n])
                /\ queue' = [n \in DOMAIN q |-> Greeting(q[n], session')]
          /\ tries' = IF late = {} THEN 0 ELSE QueueTries
    /\ UNCHANGED <<stationVars, retry, components, ghosts, arriving, buffer>>

(* Mutant of QueueTimer: a message that fails is dropped, too.             *)
QueueTimerDrops ==
    /\ tries > 0
    /\ conn = "up"
    /\ queue # <<>>
    /\ queue' = Tail(queue)
    /\ tries' = IF Tail(queue) = <<>> THEN 0 ELSE tries - 1
    /\ UNCHANGED <<topics, broker, stationVars, conn, timeout, retry, components,
                   session, greeted, ghosts, arriving, buffer>>

(* _queueTimerCallback: the first k messages are sent, the next one fails; *)
(* the timer stops when the queue is empty or its calls are used up.       *)
QueueTimer ==
    /\ tries > 0
    /\ \E k \in 0..Len(queue) :
        /\ k > 0 => conn = "up"
        /\ Sent(ToSet(SubSeq(queue, 1, k)))
        /\ queue' = SubSeq(queue, k + 1, Len(queue))
        /\ tries' = IF queue' = <<>> THEN 0 ELSE tries - 1
    /\ UNCHANGED <<stationVars, conn, timeout, retry, components, session, greeted,
                   ghosts, arriving, buffer>>

-----------------------------------------------------------------------------
(* The next packet of a message, or the first of another one.              *)
NextPackets ==
    IF arriving # NoMessage THEN {arriving}
    ELSE [index : {0}, total : 1..MessageMax + 1]

(* onMessageRaw: the first packet discards what is in the buffer, a later  *)
(* one is discarded unless it follows it; a message that is complete is    *)
(* passed on to the components.                                            *)
OnMessageRaw ==
    /\ conn = "up"
    /\ \E p \in NextPackets :
          LET held == Append(IF p.index = 0 THEN <<>> ELSE buffer, session)
          IN  /\ arriving' = IF p.index + 1 = p.total THEN NoMessage
                             ELSE [p EXCEPT !.index = @ + 1]
              /\ buffer' = IF p.total > MessageMax \/ p.index \notin {0, Len(buffer)}
                           THEN buffer
                           ELSE IF Len(held) = p.total THEN <<>> ELSE held
    /\ UNCHANGED <<stationVars, conn, timeout, retry, components, topics, queue, tries,
                   session, greeted, ghosts, broker>>

-----------------------------------------------------------------------------
(* _topicInUse                                                             *)
TopicInUse(c, t) == <<t, c>> \in topics

(* Mutant of Forget: the topics stay.                                      *)
ForgetNothing(c) == UNCHANGED <<topics, broker>>

(* remove(): the topics of c are forgotten; those not in use are           *)
(* unsubscribed.                                                           *)
Forget(c) ==
    /\ topics' = {e \in topics : e[2] # c}
    /\ broker' = broker \ {t \in broker : <<t, c>> \in topics /\ ~TopicInUse(c, t)}

(* erase and remove: a component is in _components once.                   *)
ComponentsWithout(c) == RemoveFirst(components, c)

(* unregisterComponent: nothing happens if there are no components.  The   *)
(* queue stays as it is.                                                   *)
Leave(c) ==
    /\ IF components = <<>> THEN UNCHANGED <<topics, broker>> ELSE Forget(c)
    /\ greeted' = greeted \ {c}

Waits(c) == \E m \in Subscribed(ToSet(queue)) : m.component = c

(* registerComponent, which first unregisters the component                *)
Register(c) ==
    /\ Leave(c)
    /\ components' = Append(ComponentsWithout(c), c)
    /\ ghosts' = ghosts \ {c}
    /\ UNCHANGED <<stationVars, conn, timeout, retry, queue, tries, session,
                   arriving, buffer>>

Unregister(c) ==
    /\ Leave(c)
    /\ components' = ComponentsWithout(c)
    /\ ghosts' = IF Waits(c) THEN ghosts \cup {c}
                 ELSE IF components = <<>> THEN ghosts ELSE ghosts \ {c}
    /\ UNCHANGED <<stationVars, conn, timeout, retry, queue, tries, session,
                   arriving, buffer>>

(* reconfigure(): the client is deleted and set up again, without the      *)
(* components that had registered.                                         *)
Reconfigure ==
    /\ conn' = IF link = "ip" THEN "connecting" ELSE "down"
    /\ timeout' = DefaultTimeout
    /\ retry' = FALSE
    /\ components' = <<>>
    /\ topics' = {}
    /\ ClearQueue
    /\ greeted' = {}
    /\ ghosts' = {}
    /\ broker' = {}
    /\ arriving' = NoMessage
    /\ buffer' = <<>>
    /\ UNCHANGED <<stationVars, session>>

-----------------------------------------------------------------------------
Command == AtConnect \/ AtForceDisconnect \/ Reconfigure

Next ==
    \/ StationNext /\ UNCHANGED clientVars
    \/ WiFiConnected \/ WiFiDisconnected
    \/ Reconnect
    \/ Command
    \/ Disconnected
    \/ OnConnect
    \/ Publish
    \/ QueueTimer
    \/ OnMessageRaw
    \/ \E c \in Components : Register(c) \/ Unregister(c)

Spec == Init /\ [][Next]_vars

(* Scheduled events are passed on, timers fire, and an attempt to connect  *)
(* that is made again and again is accepted in the end.                    *)
Fairness ==
    /\ WF_vars(WiFiConnected \/ WiFiDisconnected)
    /\ WF_vars(Reconnect)
    /\ WF_vars(QueueTimer)
    /\ SF_vars(OnConnect)

FairSpec == Spec /\ Fairness

-----------------------------------------------------------------------------
Messages ==
    [type : {"subscribe"}, component : Components, topic : Topics, session : {0, 1}]
    \cup [type : {"publish"}, component : {None}, topic : {StatusTopic}, session : {0, 1}]

TypeOK ==
    /\ conn \in {"down", "connecting", "up"}
    /\ timeout \in 0..MaxBackoff
    /\ retry \in BOOLEAN
    /\ components \in Seq(Components) /\ IsInjective(components)
    /\ topics \subseteq Topics \X Components
    /\ queue \in Seq(Messages)
    /\ tries \in 0..QueueTries
    /\ session \in {0, 1}
    /\ greeted \subseteq Components
    /\ ghosts \subseteq Components
    /\ broker \subseteq Topics
    /\ arriving \in [index : 0..MessageMax, total : 0..MessageMax + 1]
    /\ buffer \in Seq({0, 1})

(* There is one way back, and one only, whatever the order of WiFi events, *)
(* commands, timers and disconnects: the reconnect timer is armed only     *)
(* while no attempt is under way and no connection is up; and unless       *)
(* reconnecting is disabled, a client that is not connected while the      *)
(* station is online waits for its timer or for an answer.                 *)
OneWayBack ==
    /\ retry => conn = "down"
    /\ link = "ip" /\ scheduled = <<>> /\ timeout # 0 => conn # "down" \/ retry

(* Nothing said to one connection is taken over to the next: what is       *)
(* queued was queued in this session, _topics only holds what this session *)
(* has subscribed, and while a message arrives in packets, _buffer, which  *)
(* outlives connections, holds the packets of this message and no others.  *)
OfThisSession ==
    /\ conn = "up" => \A m \in ToSet(queue) : m.session = session
    /\ \A e \in topics : conn = "up" /\ e[1] \in broker
    /\ arriving.total \in 1..MessageMax => buffer = [k \in 1..arriving.index |-> session]

(* A component that was told of the connection is subscribed to its        *)
(* topics, or its SUBSCRIBE waits in the queue.                            *)
SubscribedOrQueued ==
    \A c \in greeted : \A t \in ToSet(Subscriptions[c]) :
        \/ <<t, c>> \in topics
        \/ \E m \in Subscribed(ToSet(queue)) : m.component = c /\ m.topic = t

(* A message is only passed to components that are still registered, as    *)
(* onMessage calls whatever _topics holds, or to one that left while its   *)
(* SUBSCRIBE was queued: _queueTimerCallback enters it into _topics again. *)
TopicsOwned == \A e \in topics : e[2] \in ToSet(components) \/ e[2] \in ghosts

(* Known not to hold: only those that are registered are in _topics.       *)
OnlyRegistered == \A e \in topics : e[2] \in ToSet(components)

(* "check if the topic is in use by another component" (mqtt_client.h:195):*)
(* a topic no component uses is not subscribed any more.                   *)
NoOrphans == \A t \in broker : \E c \in Components : <<t, c>> \in topics

(* Back online, the client connects again and again unless reconnecting    *)
(* is disabled.                                                            *)
Reconnects == <>[](link = "ip" /\ timeout # 0) => []<>(conn = "up")
=============================================================================
