----------------------------- MODULE MqttClient -----------------------------
(***************************************************************************)
(* The Paho MQTT client (MQTTClient-C/MQTTClient.c) as client_task.c uses  *)
(* it, over the blocking calls of BlockingLink, and the broker.            *)
(*                                                                         *)
(* The client is one thread.  at is its place in the code of the MQTT call *)
(* `task`; a step at "send", "read", "ack" or "ping" is a call on the link *)
(* or its end.  Packets keep their type, packet id and return code.  The   *)
(* broker is external: it answers the requests of a connection in order,   *)
(* late or never, and may close the connection.                            *)
(***************************************************************************)
EXTENDS BlockingLink, Integers, Sequences

CONSTANTS
    MaxPacketId,   \* MAX_PACKET_ID (65535)
    MaxHandlers,   \* MAX_MESSAGE_HANDLERS (5)
    MaxQueue,      \* bound on the packets in flight to the client
    MaxRequests,   \* and to the broker
    EarlyPublish,  \* the broker may publish before it acknowledges SUBSCRIBE
    StaleData,     \* received packets may survive a reconnection in rxbuf
    SplitPackets   \* packets may lie across the end of rxbuf

ASSUME MqttAssumption ==
    /\ MaxPacketId \in Nat \ {0}
    /\ MaxHandlers \in Nat \ {0}
    /\ MaxQueue \in Nat \ {0} /\ MaxRequests \in Nat \ {0}
    /\ EarlyPublish \in BOOLEAN
    /\ StaleData \in BOOLEAN
    /\ SplitPackets \in BOOLEAN

VARIABLES
    isconnected,       \* c->isconnected
    ping_outstanding,  \* c->ping_outstanding
    handlers,          \* used entries of c->messageHandlers
    next_packetid,     \* c->next_packetid
    pingDue,           \* c->ping_timer has expired
    timeUp,            \* the timer of the MQTT call has expired
    task,              \* the MQTT call in progress
    at,                \* place in its code
    packet,            \* the packet read last
    rx,                \* packets from the broker, not yet read
    requests,          \* packets to the broker, not yet taken
    alive,             \* the broker has the connection open
    session,           \* it has accepted a CONNECT on it
    subscribed         \* it has accepted a SUBSCRIBE on it

clientVars == <<isconnected, ping_outstanding, handlers, next_packetid>>
brokerVars == <<alive, session, subscribed>>
mqttVars == <<clientVars, pingDue, timeUp, task, at, packet, rx, requests, brokerVars>>

-----------------------------------------------------------------------------

Packet(type, id, ok) == [type |-> type, id |-> id, ok |-> ok, whole |-> TRUE]

\* Zero bytes of the receive buffer read as a packet of type 0.
Padding == Packet("padding", 0, FALSE)

FromBroker == [type : {"CONNACK", "SUBACK", "PUBACK", "PUBLISH", "PINGRESP"},
               id : 0 .. MaxPacketId, ok : BOOLEAN, whole : BOOLEAN]
ToBroker   == [type : {"CONNECT", "SUBSCRIBE", "PUBLISH", "PUBACK", "PINGREQ"},
               id : 0 .. MaxPacketId, ok : {TRUE}, whole : {TRUE}]

\* What the bytes around the end of rxbuf may read as: a header without its
\* rest, or with another. Any other rest has the effect of one of these.
Pieces ==
    {Padding, Packet("CONNACK", 0, TRUE), Packet("SUBACK", 0, FALSE)}
        \cup {p \in FromBroker : p.id = 0 /\ ~p.ok /\ ~p.whole}

Awaited == [connect |-> "CONNACK", subscribe |-> "SUBACK", publish |-> "PUBACK",
            yield |-> "none"]
Command == [connect |-> "CONNECT", subscribe |-> "SUBSCRIBE", publish |-> "PUBLISH"]

MqttTypeOK ==
    /\ isconnected \in BOOLEAN /\ ping_outstanding \in BOOLEAN
    /\ handlers \in 0 .. MaxHandlers
    /\ next_packetid \in 1 .. MaxPacketId
    /\ pingDue \in BOOLEAN /\ timeUp \in BOOLEAN
    /\ task \in DOMAIN Awaited \cup {"none"}
    /\ packet \in FromBroker \cup {Padding}
    /\ rx \in Seq(FromBroker) /\ Len(rx) <= MaxQueue
    /\ requests \in Seq(ToBroker) /\ Len(requests) <= MaxRequests
    /\ alive \in BOOLEAN /\ session \in BOOLEAN /\ subscribed \in BOOLEAN

MqttInit ==
    /\ isconnected = FALSE /\ ping_outstanding = FALSE
    /\ handlers = 0 /\ next_packetid = 1
    /\ pingDue = FALSE /\ timeUp = FALSE
    /\ task = "none" /\ packet = Padding
    /\ rx = <<>> /\ requests = <<>>
    /\ alive = FALSE /\ session = FALSE /\ subscribed = FALSE

\* Mutant: the id wraps one too late.
getNextPacketId_late == IF next_packetid > MaxPacketId THEN 1 ELSE next_packetid + 1

getNextPacketId == IF next_packetid = MaxPacketId THEN 1 ELSE next_packetid + 1

-----------------------------------------------------------------------------
(* Calls on the link *)

\* sendPacket: one write, which the timer of the call may forestall.  A write
\* that fails may still have reached the broker.
Sent(p) ==
    /\ Len(requests) < MaxRequests
    /\ requests' = IF alive THEN Append(requests, p) ELSE requests

sendPacket(p, expired, sentAt, failedAt) ==
    \/ /\ ~expired /\ Begin("send")
       /\ UNCHANGED <<at, requests, pingDue>>
    \/ /\ Succeed("send")
       /\ Sent(p) /\ pingDue' = FALSE
       /\ at' = sentAt
    \/ /\ Fail("send")
       /\ Sent(p) \/ UNCHANGED requests
       /\ at' = failedAt /\ UNCHANGED pingDue
    \/ /\ Refuse \/ (place = "client" /\ expired /\ UNCHANGED linkVars)
       /\ at' = failedAt /\ UNCHANGED <<requests, pingDue>>

\* MQTTConnect, MQTTSubscribe and MQTTPublish send their packet, then wait.
SendCommand ==
    /\ at = "send"
    /\ sendPacket(Packet(Command[task], IF task = "connect" THEN 0 ELSE next_packetid, TRUE),
                  timeUp, "check", "fail")
    /\ UNCHANGED <<clientVars, timeUp, task, packet, rx, brokerVars>>

ReadOk     == Succeed("read") \/ (ReadAtOnce /\ result' = "ok")
ReadFailed == Fail("read") \/ Refuse \/ (ReadAtOnce /\ result' = "fail")

\* The switch of cycle() and, unless the packet is acknowledged first, the
\* test of keepalive(). MQTTDeserialize_publish returns 1, which is success,
\* for a PUBLISH without its rest too.
Dispatch(p) ==
    /\ packet' = p
    /\ ping_outstanding' = (ping_outstanding /\ p.type # "PINGRESP")
    /\ at' = IF p.type = "PUBLISH" THEN "ack"
             ELSE IF pingDue /\ ~ping_outstanding' THEN "ping" ELSE "cycled"

\* A packet across the end of rxbuf, or behind one.  Bytes of it are discarded
\* and the next receive, or its zeros, are read in their place; what it reads
\* as then is taken to be one piece.  That decodePacket fails is not looked
\* at: the packet is dispatched by its header, with a length of 0.
Misread ==
    /\ SplitPackets /\ (ReadOk \/ ReadFailed)
    /\ rx # <<>> /\ rx' = Tail(rx)
    /\ \E p \in Pieces : Dispatch(p)

\* readPacket: the next packet, zero padding, or a failure.  Its first read
\* may block; the others find their bytes in rxbuf.
readPacket ==
    /\ at = "read"
    /\ \/ Begin("read") /\ UNCHANGED <<at, packet, ping_outstanding, rx>>
       \/ ReadOk /\ rx # <<>> /\ rx' = Tail(rx) /\ Dispatch(Head(rx))
       \/ ReadOk /\ rx' = rx /\ Dispatch(Padding)
       \/ ReadFailed /\ rx' = rx /\ Dispatch(Padding)
       \/ Misread
    /\ UNCHANGED <<isconnected, handlers, next_packetid, pingDue, timeUp, task,
                   requests, brokerVars>>

\* A PUBLISH has been delivered to the handlers whose filter matches, if any;
\* PUBACK is sent in either case. If that fails cycle() returns FAILURE.
SendAck ==
    /\ at = "ack"
    /\ sendPacket(Packet("PUBACK", packet.id, TRUE), timeUp, "cycled",
                  IF task = "yield" THEN "fail" ELSE "check")
    /\ UNCHANGED <<clientVars, timeUp, task, packet, rx, brokerVars>>

\* keepalive() sends PINGREQ under a timer of its own.
SendPing ==
    /\ at = "ping"
    /\ sendPacket(Packet("PINGREQ", 0, TRUE), FALSE, "cycled", "cycled")
    /\ ping_outstanding' = (at' = "cycled" /\ result' = "ok")
    /\ UNCHANGED <<isconnected, handlers, next_packetid, timeUp, task, packet, rx,
                   brokerVars>>

-----------------------------------------------------------------------------
(* The loops of waitfor and MQTTYield, and the ends of the calls *)

Local == place = "client" /\ UNCHANGED <<linkVars, pingDue, rx, requests, brokerVars>>

\* Mutant: the timer is not looked at.
CheckTimer_never ==
    /\ at = "check" /\ Local
    /\ at' = "read"
    /\ UNCHANGED <<clientVars, timeUp, task, packet>>

CheckTimer ==
    /\ at = "check" /\ Local
    /\ at' = IF ~timeUp THEN "read" ELSE IF task = "yield" THEN "ok" ELSE "fail"
    /\ UNCHANGED <<clientVars, timeUp, task, packet>>

\* cycle() returns the type of the packet; the packet is not looked at again.
NotAwaited ==
    /\ at = "cycled" /\ packet.type # Awaited[task] /\ Local
    /\ at' = "check" /\ packet' = Padding
    /\ UNCHANGED <<clientVars, timeUp, task>>

Received(t) == at = "cycled" /\ task = t /\ packet.type = Awaited[t] /\ Local

\* Without its rest CONNACK leaves the return code at 255, a refusal.
ReceivedConnack ==
    /\ Received("connect")
    /\ isconnected' = packet.ok
    /\ at' = IF packet.ok THEN "ok" ELSE "fail"
    /\ UNCHANGED <<ping_outstanding, handlers, next_packetid, timeUp, task, packet>>

\* Mutants: a refused subscription counts as granted, or an answer that comes
\* late is taken without its handler.
SubackUnchecked ==
    /\ Received("subscribe")
    /\ handlers' = handlers + 1 /\ at' = "ok"
    /\ UNCHANGED <<isconnected, ping_outstanding, next_packetid, timeUp, task, packet>>

SubackLate ==
    /\ Received("subscribe")
    /\ handlers' = IF timeUp THEN handlers ELSE handlers + 1
    /\ at' = IF packet.ok THEN "ok" ELSE "fail"
    /\ UNCHANGED <<isconnected, ping_outstanding, next_packetid, timeUp, task, packet>>

\* The handler is entered unless the subscription was refused (0x80): it is
\* too when the rest of SUBACK was not read and the granted QoS is still -1.
\* With all entries in use the QoS, not 0, is the result: a failure.
ReceivedSuback ==
    /\ Received("subscribe")
    /\ IF (packet.ok \/ ~packet.whole) /\ handlers < MaxHandlers
       THEN handlers' = handlers + 1 /\ at' = "ok"
       ELSE handlers' = handlers /\ at' = "fail"
    /\ UNCHANGED <<isconnected, ping_outstanding, next_packetid, timeUp, task, packet>>

\* The packet id of PUBACK is not compared; MQTTDeserialize_ack returns 1 even
\* when there is none.
ReceivedPuback ==
    /\ Received("publish")
    /\ at' = "ok"
    /\ UNCHANGED <<clientVars, timeUp, task, packet>>

MqttStep ==
    \/ SendCommand \/ readPacket \/ SendAck \/ SendPing
    \/ CheckTimer \/ NotAwaited
    \/ ReceivedConnack \/ ReceivedSuback \/ ReceivedPuback

-----------------------------------------------------------------------------
(* How the client begins an MQTT call *)

MQTTClientInit ==
    /\ isconnected' = FALSE /\ ping_outstanding' = FALSE
    /\ handlers' = 0 /\ next_packetid' = 1

\* Mutant: MQTTConnect reports success when the client is connected already.
MQTTConnect_already_ok ==
    /\ task' = "connect" /\ timeUp' = FALSE
    /\ pingDue' = (pingDue /\ isconnected)
    /\ at' = IF isconnected THEN "ok" ELSE "send"
    /\ UNCHANGED clientVars

MQTTConnect ==
    /\ task' = "connect" /\ timeUp' = FALSE
    /\ pingDue' = (pingDue /\ isconnected)
    /\ at' = IF isconnected THEN "fail" ELSE "send"
    /\ UNCHANGED clientVars

\* MQTTSubscribe and MQTTPublish take the next packet id.
Identified(t) ==
    /\ task' = t /\ timeUp' = FALSE
    /\ next_packetid' = IF isconnected THEN getNextPacketId ELSE next_packetid
    /\ at' = IF isconnected THEN "send" ELSE "fail"
    /\ UNCHANGED <<isconnected, ping_outstanding, handlers, pingDue>>

MQTTSubscribe == Identified("subscribe")
MQTTPublish   == Identified("publish")

MQTTYield ==
    /\ task' = "yield" /\ timeUp' = FALSE
    /\ at' = "read"
    /\ UNCHANGED <<clientVars, pingDue>>

-----------------------------------------------------------------------------
(* Time and the broker *)

TimerExpires ==
    /\ task # "none" /\ ~timeUp /\ timeUp' = TRUE
    /\ UNCHANGED <<linkVars, clientVars, pingDue, task, at, packet, rx, requests,
                   brokerVars>>

\* A command lasts 2 s and begins with a packet that restarts the keep-alive
\* interval of 900 s: no ping falls due while it waits.
PingFallsDue ==
    /\ task \in {"none", "yield"} /\ ~pingDue /\ pingDue' = TRUE
    /\ UNCHANGED <<linkVars, clientVars, timeUp, task, at, packet, rx, requests,
                   brokerVars>>

\* The broker sees a new connection. What the old one still had in flight is
\* lost, except what the receive buffer of wifi_task.c holds.
NewConnection ==
    /\ alive' = TRUE /\ session' = FALSE /\ subscribed' = FALSE
    /\ requests' = <<>>
    /\ \E n \in 0 .. (IF StaleData THEN Len(rx) ELSE 0) : rx' = SubSeq(rx, 1, n)

Reply(ps) == Len(rx) + Len(ps) <= MaxQueue /\ rx' = rx \o ps

\* The broker takes the next packet of the client, if it is in place.
BrokerTakes ==
    /\ alive /\ requests # <<>> /\ requests' = Tail(requests)
    /\ LET p == Head(requests) IN
       \/ /\ p.type = "CONNECT" /\ ~session
          /\ \E ok \in BOOLEAN :
                Reply(<<Packet("CONNACK", 0, ok)>>) /\ session' = ok /\ alive' = ok
          /\ UNCHANGED subscribed
       \/ /\ p.type = "SUBSCRIBE" /\ session
          /\ \E ok \in BOOLEAN :
                /\ subscribed' = ok
                /\ \/ Reply(<<Packet("SUBACK", p.id, ok)>>)
                   \/ EarlyPublish /\ ok /\ Reply(<<Packet("PUBLISH", 1, TRUE),
                                                    Packet("SUBACK", p.id, ok)>>)
          /\ UNCHANGED <<alive, session>>
       \/ /\ p.type \in {"PUBLISH", "PINGREQ"} /\ session
          /\ Reply(<<Packet(IF p.type = "PUBLISH" THEN "PUBACK" ELSE "PINGRESP",
                            p.id, TRUE)>>)
          /\ UNCHANGED brokerVars
       \/ /\ p.type = "PUBACK" /\ session
          /\ UNCHANGED <<rx, brokerVars>>
    /\ UNCHANGED <<linkVars, clientVars, pingDue, timeUp, task, at, packet>>

\* A command or configuration for the device, QoS 1.
BrokerPublishes ==
    /\ alive /\ subscribed
    /\ Reply(<<Packet("PUBLISH", 1, TRUE)>>)
    /\ UNCHANGED <<linkVars, clientVars, pingDue, timeUp, task, at, packet,
                   requests, brokerVars>>

\* The connection is lost; the client is not told.
BrokerCloses ==
    /\ alive /\ alive' = FALSE
    /\ requests' = <<>>
    /\ UNCHANGED <<linkVars, clientVars, pingDue, timeUp, task, at, packet, rx,
                   session, subscribed>>

BrokerStep == BrokerTakes \/ BrokerPublishes \/ BrokerCloses

=============================================================================
