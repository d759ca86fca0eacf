------------------------------- MODULE Syslog -------------------------------
(***************************************************************************)
(* lib/KFCSyslog: log lines are queued once per destination and delivered  *)
(* by walking through the queue, when a line is added and every second.    *)
(* A UDP destination answers during the walk; a TCP destination takes one  *)
(* message at a time, sends it when its connection lets it, and answers    *)
(* from a callback of the connection.  A message that could not be sent    *)
(* stays in the queue and is tried again, until MaxFailures attempts have  *)
(* failed.                                                                 *)
(*                                                                         *)
(* External: AsyncClient (lwIP) with the server at its other end, and the  *)
(* UDP socket.  A message is its number and its length; what is in it and  *)
(* which filters it passes are left out.                                   *)
(***************************************************************************)
EXTENDS Integers, Sequences, FiniteSets, SequencesExt

CONSTANTS
    Filters,      \* SyslogFilter: the destinations in the order of their filters
    Tcp,          \* those that are SyslogTCP, at most one; the others are SyslogUDP
    Lengths,      \* the lengths a message can have
    ItemSize,     \* SYSLOG_MEMORY_QUEUE_ITEM_SIZE
    MaxSize,      \* the size SyslogMemoryQueue is created with
    MaxFailures,  \* SYSLOG_STREAM_MAX_FAILURES
    MaxItems      \* bound: how many items are ever queued

ASSUME SyslogAssumption ==
    /\ Filters \in Seq(ToSet(Filters)) /\ IsInjective(Filters)
    /\ Tcp \subseteq ToSet(Filters) /\ \A c, d \in Tcp : c = d
    /\ Lengths \subseteq Nat \ {0}
    /\ {ItemSize, MaxSize, MaxItems} \subseteq Nat
    /\ MaxFailures \in Nat \ {0}

NoItem == 0
Ids == 1..MaxItems

VARIABLES
    items,     \* SyslogMemoryQueue::_items: [id, length, to, locked, failures]
    curSize,   \* SyslogMemoryQueue::_curSize
    uniqueId,  \* SyslogMemoryQueue::_uniqueId
    tcp,       \* what each SyslogTCP is doing (SyslogTCP::Queue_t)
    client,    \* its AsyncClient: "closed", "connecting", "connected", "closing"
    arrived,   \* whether the server has all of the message being sent
    online,    \* WiFi.isConnected()
    log,       \* what each server has received, in that order
    done,      \* history: the items removed as sent
    given      \* history: the items removed for another reason

tcpVars == <<tcp, client, arrived>>
queueVars == <<items, curSize, uniqueId>>
syslogVars == <<queueVars, tcpVars, online, log, done, given>>

QueuedIds == {items[k].id : k \in DOMAIN items}
SizeOf(item) == item.length + ItemSize
Idle == [isSending |-> FALSE, isDisconnecting |-> FALSE, left |-> 0, written |-> 0,
         sentAck |-> 0, id |-> NoItem]

-----------------------------------------------------------------------------
(* SyslogMemoryQueue and the callback of transmit(), on a record s with    *)
(* the queue and what a walk through it may change.                        *)
State == [items |-> items, curSize |-> curSize, uniqueId |-> uniqueId, tcp |-> tcp,
          client |-> client, arrived |-> arrived, log |-> log, done |-> done,
          given |-> given, pos |-> 1]

BecomeOneOf(outcomes) ==
    \E s \in outcomes :
       /\ items' = s.items /\ curSize' = s.curSize /\ uniqueId' = s.uniqueId
       /\ tcp' = s.tcp /\ client' = s.client /\ arrived' = s.arrived
       /\ log' = s.log /\ done' = s.done /\ given' = s.given

(* Mutant: the overhead of an item is added and never subtracted.          *)
RemoveMessage(s, k) ==
    [s EXCEPT !.items = RemoveAt(s.items, k), !.curSize = @ - s.items[k].length]

(* SyslogMemoryQueue::remove                                               *)
RemoveItem(s, k) ==
    [s EXCEPT !.items = RemoveAt(s.items, k), !.curSize = @ - SizeOf(s.items[k])]

(* SyslogStream::transmitCallback for the item at k.                       *)
TransmitCallback(s, k, success) ==
    IF success
    THEN [RemoveItem(s, k) EXCEPT !.done = @ \union {s.items[k].id}]
    ELSE IF s.items[k].failures + 1 >= MaxFailures
    THEN [RemoveItem(s, k) EXCEPT !.given = @ \union {s.items[k].id}]
    ELSE [s EXCEPT !.items[k].failures = @ + 1]

(* Mutant: a message that could not be sent is only unlocked.              *)
AnswerUncounted(s, id, success) ==
    LET at == {k \in DOMAIN s.items : s.items[k].id = id /\ s.items[k].locked}
    IN  IF at = {} THEN s
        ELSE LET k == CHOOSE j \in at : TRUE
                 unlocked == [s EXCEPT !.items[k].locked = FALSE]
             IN  IF success THEN TransmitCallback(unlocked, k, TRUE) ELSE unlocked

(* The callbacks of a transmit(): the item is unlocked and looked for in   *)
(* the queue by its address and its id.  When the queue was cleared in the *)
(* meantime, unlock() looks at a deleted item: with one TCP destination    *)
(* another item in its memory is not locked, and nothing happens.          *)
Answer(s, id, success) ==
    LET at == {k \in DOMAIN s.items : s.items[k].id = id /\ s.items[k].locked}
    IN  IF at = {} THEN s
        ELSE LET k == CHOOSE j \in at : TRUE
             IN  TransmitCallback([s EXCEPT !.items[k].locked = FALSE], k, success)

-----------------------------------------------------------------------------
(* SyslogTCP                                                               *)

(* Mutant: the callback is called before the state is reset.               *)
WriteErrorSending(s, d) ==
    IF ~s.tcp[d].isSending THEN s
    ELSE Answer([s EXCEPT !.tcp[d] = [Idle EXCEPT !.isSending = TRUE, !.id = s.tcp[d].id],
                          !.client[d] = "closed", !.arrived[d] = FALSE],
                s.tcp[d].id, FALSE)

(* _queueWriteError: the connection is closed; the close calls back into   *)
(* it, which finds isSending cleared.                                      *)
WriteError(s, d) ==
    IF ~s.tcp[d].isSending THEN s
    ELSE Answer([s EXCEPT !.tcp[d] = [Idle EXCEPT !.isDisconnecting = TRUE],
                          !.client[d] = "closed", !.arrived[d] = FALSE],
                s.tcp[d].id, FALSE)

(* transmit and _connect: connect() can fail at once (ok FALSE).           *)
TransmitTcp(s, d, item, ok) ==
    LET sending == [s EXCEPT !.tcp[d] = [Idle EXCEPT !.isSending = TRUE, !.id = item.id,
                                                     !.left = item.length + 1]]
    IN  CASE s.client[d] # "closed" -> sending
          [] s.client[d] = "closed" /\ ok -> [sending EXCEPT !.client[d] = "connecting"]
          [] OTHER -> WriteError(sending, d)

(* SyslogUDP::transmit: the callback is called before it returns.          *)
TransmitUdp(s, d, item, ok) ==
    Answer(IF ok THEN [s EXCEPT !.log[d] = Append(@, item.id)] ELSE s, item.id, ok)

IsSending(s, d) == d \in Tcp /\ s.tcp[d].isSending

(* SyslogQueueItem::transmit for the item at k; ok is the answer of the    *)
(* socket.                                                                 *)
Transmit(s, k, ok) ==
    LET item == s.items[k]
        locked == [s EXCEPT !.items[k].locked = TRUE]
    IN  IF ~online \/ item.locked THEN s
        ELSE IF item.to \in Tcp THEN TransmitTcp(locked, item.to, item, ok)
        ELSE TransmitUdp(locked, item.to, item, ok)

(* deliverQueue: one pass of the loop.                                     *)
Visit(s, ok) ==
    IF s.pos > Len(s.items) THEN s
    ELSE LET item == s.items[s.pos]
             next == [s EXCEPT !.pos = @ + 1]
         IN  IF IsSending(s, item.to) THEN next ELSE Transmit(next, s.pos, ok)

VisitOneOf(states) == {Visit(s, ok) : s \in states, ok \in BOOLEAN}

(* deliverQueue, with every answer of the sockets: pos moves on although   *)
(* an item that was answered during its visit has left the queue, which    *)
(* hides the next item from this walk.                                     *)
Deliver(s) ==
    LET walk[n \in 0..Len(s.items)] == IF n = 0 THEN {s} ELSE VisitOneOf(walk[n - 1])
    IN  walk[Len(s.items)]

(* SyslogMemoryQueue::add                                                  *)
Add(s, d, length) ==
    LET item == [id |-> s.uniqueId + 1, length |-> length, to |-> d,
                 locked |-> FALSE, failures |-> 0]
    IN  IF SizeOf(item) + s.curSize > MaxSize THEN s
        ELSE [s EXCEPT !.items = Append(@, item), !.uniqueId = @ + 1,
                       !.curSize = @ + SizeOf(item)]

(* SyslogFilter: a line is queued for every destination.                   *)
AddToAll(s, length) ==
    LET added[n \in 0..Len(Filters)] ==
            IF n = 0 THEN s ELSE Add(added[n - 1], Filters[n], length)
    IN  added[Len(Filters)]

-----------------------------------------------------------------------------
SyslogInit ==
    /\ items = <<>> /\ curSize = 0 /\ uniqueId = 0
    /\ tcp = [d \in Tcp |-> Idle]
    /\ client = [d \in Tcp |-> "closed"]
    /\ arrived = [d \in Tcp |-> FALSE]
    /\ online \in BOOLEAN
    /\ log = [d \in ToSet(Filters) |-> <<>>]
    /\ done = {} /\ given = {}

(* SyslogStream::flush: a log line ends.                                   *)
Flush ==
    /\ uniqueId + Len(Filters) <= MaxItems
    /\ \E length \in Lengths : BecomeOneOf(Deliver(AddToAll(State, length)))
    /\ UNCHANGED online

(* syslog_process_queue, syslog_deliver                                    *)
DeliverQueue ==
    /\ items # <<>>
    /\ BecomeOneOf(Deliver(State))
    /\ UNCHANGED online

(* The memory of the items of q, which remove() takes off for one after    *)
(* the other.                                                              *)
Used(q) ==
    LET upTo[n \in 0..Len(q)] == IF n = 0 THEN 0 ELSE upTo[n - 1] + SizeOf(q[n])
    IN  upTo[Len(q)]

(* AT+SQC: SyslogQueue::clear                                              *)
Clear ==
    /\ items # <<>>
    /\ items' = <<>> /\ curSize' = curSize - Used(items) /\ given' = given \union QueuedIds
    /\ UNCHANGED <<uniqueId, tcpVars, online, log, done>>

-----------------------------------------------------------------------------
(* Callbacks of AsyncClient                                                *)

(* __onPoll with a message and space for n of its bytes.                   *)
Written(d, n) ==
    tcp' = [tcp EXCEPT ![d].left = @ - n, ![d].written = @ + n]

(* onConnect calls __onPoll, which writes at once.                         *)
OnTcpConnect(d) ==
    /\ client[d] = "connecting"
    /\ client' = [client EXCEPT ![d] = "connected"]
    /\ \E n \in 1..tcp[d].left : Written(d, n)
    /\ UNCHANGED <<queueVars, arrived, online, log, done, given>>

(* onPoll while a message is being sent and AsyncClient::canSend(): all    *)
(* that was written has been acknowledged.                                 *)
OnPoll(d) ==
    /\ client[d] = "connected" /\ tcp[d].isSending
    /\ tcp[d].written = tcp[d].sentAck
    /\ \E n \in 1..tcp[d].left : Written(d, n)
    /\ UNCHANGED <<queueVars, client, arrived, online, log, done, given>>

(* write() takes less than what there was space for.                       *)
WriteFails(d) ==
    /\ client[d] \in {"connecting", "connected"} /\ tcp[d].isSending
    /\ tcp[d].written = tcp[d].sentAck
    /\ BecomeOneOf({WriteError(State, d)})
    /\ UNCHANGED online

(* onPoll of a connection that has been idle for SYSLOG_TCP_MAX_IDLE:      *)
(* close(false) closes it at the next poll.                                *)
OnIdle(d) ==
    /\ client[d] = "connected" /\ ~tcp[d].isSending /\ ~tcp[d].isDisconnecting
    /\ tcp' = [tcp EXCEPT ![d].isDisconnecting = TRUE]
    /\ client' = [client EXCEPT ![d] = "closing"]
    /\ UNCHANGED <<queueVars, arrived, online, log, done, given>>

(* The last byte of a message reaches the server.                          *)
Arrive(d) ==
    /\ client[d] = "connected" /\ tcp[d].isSending
    /\ tcp[d].left = 0 /\ ~arrived[d]
    /\ arrived' = [arrived EXCEPT ![d] = TRUE]
    /\ log' = [log EXCEPT ![d] = Append(@, tcp[d].id)]
    /\ UNCHANGED <<queueVars, tcp, client, online, done, given>>

(* Mutant: the message is answered with the first acknowledgement.         *)
OnAckFirst(d) ==
    /\ client[d] = "connected" /\ tcp[d].isSending
    /\ \E n \in 1..(tcp[d].written - tcp[d].sentAck) :
          /\ n = tcp[d].written - tcp[d].sentAck /\ tcp[d].left = 0 => arrived[d]
          /\ BecomeOneOf({Answer([State EXCEPT !.tcp[d] = Idle, !.arrived[d] = FALSE],
                                 tcp[d].id, TRUE)})
    /\ UNCHANGED online

(* __onAck of n bytes: the last ones only when the server has them.        *)
OnAck(d) ==
    /\ client[d] = "connected" /\ tcp[d].isSending
    /\ \E n \in 1..(tcp[d].written - tcp[d].sentAck) :
          LET acked == [State EXCEPT !.tcp[d].sentAck = @ + n]
              complete == acked.tcp[d].sentAck = tcp[d].written /\ tcp[d].left = 0
          IN  /\ complete => arrived[d]
              /\ BecomeOneOf({IF complete
                              THEN Answer([acked EXCEPT !.tcp[d] = Idle, !.arrived[d] = FALSE],
                                          tcp[d].id, TRUE)
                              ELSE acked})
    /\ UNCHANGED online

(* onTimeout: what was written has not been acknowledged for 5 s.          *)
OnTimeout(d) ==
    /\ client[d] = "connected" /\ tcp[d].sentAck < tcp[d].written
    /\ BecomeOneOf({WriteError(State, d)})
    /\ UNCHANGED online

(* onError and onDisconnect: the connection is lost, refused, or closed by *)
(* the server or by OnIdle.                                                *)
OnTcpDisconnect(d) ==
    /\ client[d] # "closed"
    /\ BecomeOneOf({WriteError([State EXCEPT !.client[d] = "closed"], d)})
    /\ UNCHANGED online

WiFiChanges ==
    /\ online' = ~online
    /\ UNCHANGED <<queueVars, tcpVars, log, done, given>>

Callback(d) ==
    OnTcpConnect(d) \/ OnPoll(d) \/ OnAck(d) \/ OnTimeout(d) \/ OnTcpDisconnect(d)
        \/ WriteFails(d) \/ OnIdle(d)

SyslogNext ==
    \/ Flush \/ DeliverQueue \/ Clear \/ WiFiChanges
    \/ \E d \in Tcp : Callback(d) \/ Arrive(d)

(* The loop function runs every second.  A connection that is being opened *)
(* or closed ends up open or closed; one with a message is polled, and     *)
(* what was written is acknowledged or times out.  The server need not     *)
(* answer, and nothing is assumed about the UDP socket.                    *)
SyslogFairness ==
    /\ WF_syslogVars(DeliverQueue)
    /\ \A d \in Tcp :
          /\ WF_syslogVars(\/ OnTcpConnect(d)
                           \/ client[d] \in {"connecting", "closing"} /\ OnTcpDisconnect(d))
          /\ WF_syslogVars(OnPoll(d))
          /\ WF_syslogVars(OnAck(d) \/ OnTimeout(d))

SyslogSpec == SyslogInit /\ [][SyslogNext]_syslogVars
SyslogFairSpec == SyslogSpec /\ SyslogFairness

-----------------------------------------------------------------------------
(* Types.                                                                  *)
Item == [id : Ids, length : Lengths, to : ToSet(Filters), locked : BOOLEAN,
         failures : 0..(MaxFailures - 1)]

SyslogTypeOK ==
    /\ items \in Seq(Item) /\ curSize \in 0..MaxSize /\ uniqueId \in 0..MaxItems
    /\ tcp \in [Tcp -> [isSending : BOOLEAN, isDisconnecting : BOOLEAN, left : Nat,
                        written : Nat, sentAck : Nat, id : {NoItem} \union Ids]]
    /\ client \in [Tcp -> {"closed", "connecting", "connected", "closing"}]
    /\ arrived \in [Tcp -> BOOLEAN] /\ online \in BOOLEAN
    /\ log \in [ToSet(Filters) -> Seq(Ids)]
    /\ done \subseteq Ids /\ given \subseteq Ids

(* The queue keeps its books, whatever was added, sent, given up and       *)
(* cleared.  The memory it believes it uses is what its items use: an      *)
(* error here would sooner or later make add() drop every line.  And an    *)
(* item is locked exactly as long as its destination is sending it: a lock *)
(* without a sender would keep the item, and its memory, forever, and a    *)
(* sender without a lock would have two owners of one message.             *)
QueueSound ==
    /\ curSize = Used(items)
    /\ \A k \in DOMAIN items :
          items[k].locked <=> /\ items[k].to \in Tcp
                              /\ tcp[items[k].to].isSending
                              /\ tcp[items[k].to].id = items[k].id

(* No line is lost on its way: an item that left the queue as sent has     *)
(* been received, and every item ever queued is still there, was received, *)
(* failed MaxFailures times or was cleared.                                *)
Received(id) == \E d \in ToSet(Filters) : Contains(log[d], id)
NothingLost ==
    /\ \A id \in done : Received(id)
    /\ \A id \in 1..uniqueId : id \in QueuedIds \union done \union given

(* A server receives a line again only after an attempt that failed: the   *)
(* copies of a queued line are at most its failed attempts, and one more   *)
(* while the last has arrived and is not acknowledged yet.                 *)
PlacesOf(l, id) ==
    UNION {{<<d, j>> : j \in {i \in DOMAIN l[d] : l[d][i] = id}} : d \in ToSet(Filters)}
Copies(id) == Cardinality(PlacesOf(log, id))
DuplicatesHaveFailed ==
    /\ \A k \in DOMAIN items :
          Copies(items[k].id) <= items[k].failures
                                 + (IF items[k].locked /\ arrived[items[k].to] THEN 1 ELSE 0)
    /\ \A id \in Ids : Copies(id) <= MaxFailures

(* Once the WiFi stays connected, every line leaves the queue, received or *)
(* given up, although the walk skips items, servers stop answering and     *)
(* connections are lost at any time.                                       *)
QueueDrains ==
    <>[]online => \A id \in Ids : id \in QueuedIds ~> id \notin QueuedIds
=============================================================================
