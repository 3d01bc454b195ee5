------------------------- MODULE ClientTask_proofs -------------------------
(***************************************************************************)
(* The safety properties of ClientTask, for every number of handlers,      *)
(* sockets and packets in flight.  ClientInv is inductive: one lemma for   *)
(* each of its parts shows that every step preserves it, from the part     *)
(* itself and those before it.                                             *)
(***************************************************************************)
EXTENDS ClientTask, SequenceTheorems, TLAPS

-----------------------------------------------------------------------------
(* Packets and queues *)

\* What the broker and the client send is a packet of the model.
LEMMA BrokerPackets ==
    ASSUME NEW type \in {"CONNACK", "SUBACK", "PUBACK", "PUBLISH", "PINGRESP"},
           NEW id \in 0 .. MaxPacketId, NEW ok \in BOOLEAN
    PROVE  Packet(type, id, ok) \in FromBroker
  BY DEF Packet, FromBroker

\* So is what a packet in part may read as.
LEMMA PiecesRead == Pieces \subseteq FromBroker \cup {Padding}
<1>1. 0 \in 0 .. MaxPacketId
  BY MqttAssumption
<1>2. Packet("CONNACK", 0, TRUE) \in FromBroker /\ Packet("SUBACK", 0, FALSE) \in FromBroker
  BY <1>1, BrokerPackets
<1> QED BY <1>2 DEF Pieces

LEMMA ClientPackets ==
    ASSUME NEW type \in {"CONNECT", "SUBSCRIBE", "PUBLISH", "PUBACK", "PINGREQ"},
           NEW id \in 0 .. MaxPacketId
    PROVE  Packet(type, id, TRUE) \in ToBroker
  BY DEF Packet, ToBroker

\* A write keeps the queue to the broker well formed and bounded, sent or not.
LEMMA SentTypes ==
    ASSUME requests \in Seq(ToBroker), Len(requests) <= MaxRequests, MaxRequests \in Nat,
           NEW p \in ToBroker, NEW expired, NEW sentAt, NEW failedAt,
           sendPacket(p, expired, sentAt, failedAt)
    PROVE  requests' \in Seq(ToBroker) /\ Len(requests') <= MaxRequests
<1>1. CASE Sent(p)
  BY <1>1 DEF Sent
<1>2. CASE UNCHANGED requests
  BY <1>2
<1> QED
  BY <1>1, <1>2 DEF sendPacket

\* So does an answer of the broker with the queue to the client.
LEMMA ReplyTypes ==
    ASSUME rx \in Seq(FromBroker), MaxQueue \in Nat,
           NEW ps \in Seq(FromBroker), Reply(ps)
    PROVE  rx' \in Seq(FromBroker) /\ Len(rx') <= MaxQueue
  BY DEF Reply

\* A prefix of a sequence.
LEMMA PrefixTypes ==
    ASSUME NEW S, NEW s \in Seq(S), NEW n \in 0 .. Len(s)
    PROVE  /\ SubSeq(s, 1, n) \in Seq(S) /\ Len(SubSeq(s, 1, n)) = n
           /\ \A i \in 1 .. n : SubSeq(s, 1, n)[i] = s[i]
  BY SubSeqProperties

\* The invariant holds initially.
LEMMA Initial == ClientInit => ClientInv
<1> SUFFICES ASSUME ClientInit PROVE ClientInv
  OBVIOUS
<1> USE DEF ClientInit, LinkInit, MqttInit
<1>1. ClientTypeOK
  <2>1. MqttTypeOK
    <3>1. next_packetid \in 1 .. MaxPacketId /\ handlers \in 0 .. MaxHandlers
      BY MqttAssumption
    <3>2. rx \in Seq(FromBroker) /\ Len(rx) <= MaxQueue
      BY MqttAssumption
    <3>3. requests \in Seq(ToBroker) /\ Len(requests) <= MaxRequests
      BY MqttAssumption
    <3>4. task \in DOMAIN Awaited \cup {"none"}
      OBVIOUS
    <3> QED
      BY <3>1, <3>2, <3>3, <3>4 DEF MqttTypeOK
  <2> QED
    BY <2>1 DEF ClientTypeOK, LinkTypeOK, ClientStates, Places, Statuses
<1>2. CallOfState /\ HandlerCount
  BY DEF CallOfState, HandlerCount, InCall, Places
<1>3. NothingBeforeSession
  BY DEF NothingBeforeSession, InCall, Places, Incoming, Padding, Packet
<1>4. OneSubscription /\ MessagesBehindSuback
  BY DEF OneSubscription, MessagesBehindSuback, NotSubscribing, Unsubscribed, InCall, Places,
         Incoming, Granted, Padding, Packet
<1> QED BY <1>1, <1>2, <1>3, <1>4 DEF ClientInv

\* The MQTT calls.
LEMMA Tasks == DOMAIN Awaited = {"connect", "subscribe", "publish", "yield"}
  BY DEF Awaited

-----------------------------------------------------------------------------
(* Types *)

\* The calls of wifi_task.h keep the types of the link.
LEMMA LinkTypes == LinkTypeOK /\ [LinkNext]_linkVars => LinkTypeOK'
<1> SUFFICES ASSUME LinkTypeOK, [LinkNext]_linkVars PROVE LinkTypeOK'
  OBVIOUS
<1> USE DEF LinkTypeOK, Statuses, Ops, linkVars
<1>1. CASE StatusChange \/ Refuse \/ ReadAtOnce \/ RequestTime
  BY <1>1 DEF StatusChange, Refuse, ReadAtOnce, RequestTime
<1>2. CASE \E o \in Ops : Begin(o)
  BY <1>2 DEF Begin
<1>3. ASSUME NEW o \in Ops, Succeed(o) PROVE LinkTypeOK'
  BY <1>3 DEF Succeed, Return
<1>4. ASSUME NEW o \in Ops, Fail(o) PROVE LinkTypeOK'
  BY <1>4 DEF Fail, Return
<1>5. CASE ToClient \/ ToLoop
  BY <1>5 DEF ToClient, ToLoop
<1>6. CASE UNCHANGED linkVars
  BY <1>6
<1> QED
  BY <1>1, <1>2, <1>3, <1>4, <1>5, <1>6 DEF LinkNext, CallEnds

\* Every step of the client, the broker and time is a step of the link or
\* leaves it alone.
LEMMA LinkSteps == [ClientNext]_allVars => [LinkNext]_linkVars
<1> SUFFICES ASSUME [ClientNext]_allVars PROVE [LinkNext]_linkVars
  OBVIOUS
<1> USE DEF LinkNext, CallEnds, Ops
<1>1. CASE BeginTurn
  BY <1>1 DEF BeginTurn
<1>2. CASE EndTurn
  BY <1>2 DEF EndTurn
<1>3. CASE client_state_init
  BY <1>3 DEF client_state_init, Quiet
<1>4. CASE client_state_get_time
  BY <1>4 DEF client_state_get_time
<1>5. CASE client_state_connect
  BY <1>5 DEF client_state_connect, Quiet
<1>6. CASE client_state_run
  BY <1>6 DEF client_state_run, Quiet
<1>7. CASE client_connect_socket
  BY <1>7 DEF client_connect_socket
<1>8. CASE client_connected
  BY <1>8 DEF client_connected, Returned, Quiet
<1>9. CASE client_subscribed
  BY <1>9 DEF client_subscribed, Returned, Quiet
<1>10. CASE client_step_over
  BY <1>10 DEF client_step_over, Returned, Quiet
<1>11. CASE SendCommand /\ UNCHANGED taskVars
  BY <1>11 DEF SendCommand, sendPacket
<1>12. CASE readPacket /\ UNCHANGED taskVars
  BY <1>12 DEF readPacket, Misread, ReadOk, ReadFailed
<1>13. CASE SendAck /\ UNCHANGED taskVars
  BY <1>13 DEF SendAck, sendPacket
<1>14. CASE SendPing /\ UNCHANGED taskVars
  BY <1>14 DEF SendPing, sendPacket
<1>15. CASE CheckTimer /\ UNCHANGED taskVars
  BY <1>15 DEF CheckTimer, Local
<1>16. CASE NotAwaited /\ UNCHANGED taskVars
  BY <1>16 DEF NotAwaited, Local
<1>17. CASE ReceivedConnack /\ UNCHANGED taskVars
  BY <1>17 DEF ReceivedConnack, Received, Local
<1>18. CASE ReceivedSuback /\ UNCHANGED taskVars
  BY <1>18 DEF ReceivedSuback, Received, Local
<1>19. CASE ReceivedPuback /\ UNCHANGED taskVars
  BY <1>19 DEF ReceivedPuback, Received, Local
<1>20. CASE ClientTimers
  BY <1>20 DEF ClientTimers
<1>21. CASE TimerExpires /\ UNCHANGED taskVars
  BY <1>21 DEF TimerExpires
<1>22. CASE PingFallsDue /\ UNCHANGED taskVars
  BY <1>22 DEF PingFallsDue
<1>23. CASE BrokerTakes /\ UNCHANGED taskVars
  BY <1>23 DEF BrokerTakes
<1>24. CASE BrokerPublishes /\ UNCHANGED taskVars
  BY <1>24 DEF BrokerPublishes
<1>25. CASE BrokerCloses /\ UNCHANGED taskVars
  BY <1>25 DEF BrokerCloses
<1>26. CASE StatusChange /\ UNCHANGED <<mqttVars, taskVars>>
  BY <1>26
<1>27. CASE UNCHANGED allVars
  BY <1>27 DEF allVars
<1> QED
  BY <1>1, <1>2, <1>3, <1>4, <1>5, <1>6, <1>7, <1>8, <1>9, <1>10, <1>11, <1>12, <1>13, <1>14,
      <1>15, <1>16, <1>17, <1>18, <1>19, <1>20, <1>21, <1>22, <1>23, <1>24, <1>25, <1>26,
      <1>27 DEF ClientNext, ClientStep, client_task, MqttStep, BrokerStep

\* Type correctness.  The packet that is sent depends on the call in progress,
\* so that CallOfState is needed.
LEMMA Types == ClientTypeOK /\ CallOfState /\ [ClientNext]_allVars => ClientTypeOK'
<1> SUFFICES ASSUME ClientTypeOK, CallOfState, [ClientNext]_allVars PROVE ClientTypeOK'
  OBVIOUS
<1> DEFINE Queues == /\ packet \in FromBroker \cup {Padding}
                     /\ rx \in Seq(FromBroker) /\ Len(rx) <= MaxQueue
                     /\ requests \in Seq(ToBroker) /\ Len(requests) <= MaxRequests
           Fields == /\ isconnected \in BOOLEAN /\ ping_outstanding \in BOOLEAN
                     /\ handlers \in 0 .. MaxHandlers
                     /\ next_packetid \in 1 .. MaxPacketId
                     /\ pingDue \in BOOLEAN /\ timeUp \in BOOLEAN
                     /\ task \in DOMAIN Awaited \cup {"none"}
                     /\ alive \in BOOLEAN /\ session \in BOOLEAN /\ subscribed \in BOOLEAN
           Program == /\ cstate \in ClientStates
                     /\ held \in BOOLEAN /\ clock \in BOOLEAN
                     /\ at \in Places
<1> SUFFICES Queues' /\ Fields' /\ Program'
  BY LinkTypes, LinkSteps DEF ClientTypeOK, MqttTypeOK
<1>types. Queues /\ Fields /\ Program
  BY DEF ClientTypeOK, MqttTypeOK
<1>sent. at = "send" => task # "yield" /\ task # "none"
  BY <1>types DEF CallOfState, InCall, Places
<1> USE DEF allVars, mqttVars, taskVars, clientVars, brokerVars
<1>1. CASE BeginTurn
  BY <1>types, <1>1, Tasks, MqttAssumption DEF BeginTurn, ToClient, ClientStates, Places
<1>2. CASE EndTurn
  BY <1>types, <1>2, Tasks, MqttAssumption DEF EndTurn, ToLoop, ClientStates, Places
<1>3. CASE client_state_init
  <2>1. Queues'
    BY <1>types, <1>3, MqttAssumption DEF client_state_init, MQTTClientInit, Turn, Quiet,
        Environment, client_state_update
  <2>2. Fields'
    <3>1. handlers' \in 0 .. MaxHandlers /\ next_packetid' \in 1 .. MaxPacketId
      BY <1>types, <1>3, MqttAssumption DEF client_state_init, MQTTClientInit, Turn, Quiet,
          Environment, client_state_update
    <3>2. /\ isconnected' \in BOOLEAN /\ ping_outstanding' \in BOOLEAN
          /\ pingDue' \in BOOLEAN /\ timeUp' \in BOOLEAN
      BY <1>types, <1>3 DEF client_state_init, MQTTClientInit, Turn, Quiet, Environment,
          client_state_update
    <3>3. task' \in DOMAIN Awaited \cup {"none"}
      BY <1>types, <1>3, Tasks DEF client_state_init, MQTTClientInit, Turn, Quiet, Environment,
          client_state_update
    <3>4. alive' \in BOOLEAN /\ session' \in BOOLEAN /\ subscribed' \in BOOLEAN
      BY <1>types, <1>3 DEF client_state_init, MQTTClientInit, Turn, Quiet, Environment,
          client_state_update
    <3> QED BY <3>1, <3>2, <3>3, <3>4
  <2>3. Program'
    BY <1>types, <1>3 DEF client_state_init, MQTTClientInit, Turn, Quiet, Environment,
        client_state_update, ClientStates, Places
  <2> QED BY <2>1, <2>2, <2>3
<1>4. CASE client_state_get_time
  <2>1. Queues'
    BY <1>types, <1>4, MqttAssumption DEF client_state_get_time, Turn, NoCallYet, Environment,
        client_state_update, RequestTime
  <2>2. Fields'
    BY <1>types, <1>4, Tasks, MqttAssumption DEF client_state_get_time, Turn, NoCallYet,
        Environment, client_state_update, RequestTime
  <2>3. Program'
    BY <1>types, <1>4 DEF client_state_get_time, Turn, NoCallYet, Environment,
        client_state_update, RequestTime, ClientStates, Places
  <2> QED BY <2>1, <2>2, <2>3
<1>5. CASE client_state_connect
  <2>1. Queues'
    BY <1>types, <1>5, MqttAssumption DEF client_state_connect, Turn, NoCallYet, Quiet,
        Environment
  <2>2. Fields'
    BY <1>types, <1>5, Tasks, MqttAssumption DEF client_state_connect, Turn, NoCallYet, Quiet,
        Environment
  <2>3. Program'
    BY <1>types, <1>5 DEF client_state_connect, Turn, NoCallYet, Quiet, Environment,
        ClientStates, Places
  <2> QED BY <2>1, <2>2, <2>3
<1>6. CASE client_state_run
  <2>1. Queues'
    BY <1>types, <1>6, MqttAssumption DEF client_state_run, Turn, Quiet, Environment, NoCallYet,
        MQTTPublish, Identified, getNextPacketId, MQTTYield
  <2>2. Fields'
    <3>1. handlers' \in 0 .. MaxHandlers /\ next_packetid' \in 1 .. MaxPacketId
      BY <1>types, <1>6, MqttAssumption DEF client_state_run, Turn, Quiet, Environment,
          NoCallYet, MQTTPublish, Identified, getNextPacketId, MQTTYield
    <3>2. /\ isconnected' \in BOOLEAN /\ ping_outstanding' \in BOOLEAN
          /\ pingDue' \in BOOLEAN /\ timeUp' \in BOOLEAN
      BY <1>types, <1>6 DEF client_state_run, Turn, Quiet, Environment, NoCallYet, MQTTPublish,
          Identified, getNextPacketId, MQTTYield
    <3>3. task' \in DOMAIN Awaited \cup {"none"}
      BY <1>types, <1>6, Tasks DEF client_state_run, Turn, Quiet, Environment, NoCallYet,
          MQTTPublish, Identified, getNextPacketId, MQTTYield
    <3>4. alive' \in BOOLEAN /\ session' \in BOOLEAN /\ subscribed' \in BOOLEAN
      BY <1>types, <1>6 DEF client_state_run, Turn, Quiet, Environment, NoCallYet, MQTTPublish,
          Identified, getNextPacketId, MQTTYield
    <3> QED BY <3>1, <3>2, <3>3, <3>4
  <2>3. Program'
    BY <1>types, <1>6 DEF client_state_run, Turn, Quiet, Environment, NoCallYet, MQTTPublish,
        Identified, getNextPacketId, MQTTYield, ClientStates, Places
  <2> QED BY <2>1, <2>2, <2>3
<1>7. CASE client_connect_socket
  <2>1. Queues'
    <3>1. ASSUME NewConnection, UNCHANGED packet PROVE Queues'
      BY <1>types, <3>1, MqttAssumption, PrefixTypes DEF NewConnection
    <3> QED
      BY <1>types, <1>7, <3>1 DEF client_connect_socket, NoCallYet, Environment
  <2>2. Fields'
    BY <1>types, <1>7, Tasks, MqttAssumption DEF client_connect_socket, Begin, Succeed, Return,
        Fail, Refuse, NewConnection, MQTTConnect, NoCallYet, Environment
  <2>3. Program'
    BY <1>types, <1>7 DEF client_connect_socket, Begin, Succeed, Return, Fail, Refuse,
        NewConnection, MQTTConnect, NoCallYet, Environment, ClientStates, Places
  <2> QED BY <2>1, <2>2, <2>3
<1>8. CASE client_connected
  <2>1. Queues'
    BY <1>types, <1>8, MqttAssumption DEF client_connected, Returned, Quiet, Environment,
        MQTTSubscribe, Identified, getNextPacketId, NoCallYet
  <2>2. Fields'
    <3>1. handlers' \in 0 .. MaxHandlers /\ next_packetid' \in 1 .. MaxPacketId
      BY <1>types, <1>8, MqttAssumption DEF client_connected, Returned, Quiet, Environment,
          MQTTSubscribe, Identified, getNextPacketId, NoCallYet
    <3>2. /\ isconnected' \in BOOLEAN /\ ping_outstanding' \in BOOLEAN
          /\ pingDue' \in BOOLEAN /\ timeUp' \in BOOLEAN
      BY <1>types, <1>8 DEF client_connected, Returned, Quiet, Environment, MQTTSubscribe,
          Identified, getNextPacketId, NoCallYet
    <3>3. task' \in DOMAIN Awaited \cup {"none"}
      BY <1>types, <1>8, Tasks DEF client_connected, Returned, Quiet, Environment, MQTTSubscribe,
          Identified, getNextPacketId, NoCallYet
    <3>4. alive' \in BOOLEAN /\ session' \in BOOLEAN /\ subscribed' \in BOOLEAN
      BY <1>types, <1>8 DEF client_connected, Returned, Quiet, Environment, MQTTSubscribe,
          Identified, getNextPacketId, NoCallYet
    <3> QED BY <3>1, <3>2, <3>3, <3>4
  <2>3. Program'
    BY <1>types, <1>8 DEF client_connected, Returned, Quiet, Environment, MQTTSubscribe,
        Identified, getNextPacketId, NoCallYet, ClientStates, Places
  <2> QED BY <2>1, <2>2, <2>3
<1>9. CASE client_subscribed
  <2>1. Queues'
    BY <1>types, <1>9, MqttAssumption DEF client_subscribed, Returned, Quiet, Environment,
        client_state_update, NoCallYet
  <2>2. Fields'
    BY <1>types, <1>9, Tasks, MqttAssumption DEF client_subscribed, Returned, Quiet, Environment,
        client_state_update, NoCallYet
  <2>3. Program'
    BY <1>types, <1>9 DEF client_subscribed, Returned, Quiet, Environment, client_state_update,
        NoCallYet, ClientStates, Places
  <2> QED BY <2>1, <2>2, <2>3
<1>10. CASE client_step_over
  <2>1. Queues'
    BY <1>types, <1>10, MqttAssumption DEF client_step_over, Returned, Quiet, Environment,
        NoCallYet
  <2>2. Fields'
    BY <1>types, <1>10, Tasks, MqttAssumption DEF client_step_over, Returned, Quiet, Environment,
        NoCallYet
  <2>3. Program'
    BY <1>types, <1>10 DEF client_step_over, Returned, Quiet, Environment, NoCallYet,
        ClientStates, Places
  <2> QED BY <2>1, <2>2, <2>3
<1>11. CASE SendCommand /\ UNCHANGED taskVars
  <2>1. Queues'
    <3>1. Packet(Command[task], IF task = "connect" THEN 0 ELSE next_packetid, TRUE) \in ToBroker
      <4>1. Command[task] \in {"CONNECT", "SUBSCRIBE", "PUBLISH"}
        BY <1>types, <1>sent, <1>11, Tasks DEF SendCommand, Command
      <4>2. next_packetid \in 0 .. MaxPacketId /\ 0 \in 0 .. MaxPacketId
        BY <1>types, MqttAssumption
      <4> QED BY <4>1, <4>2 DEF Packet, ToBroker
    <3> QED
      BY <1>types, <1>11, <3>1, SentTypes, MqttAssumption DEF SendCommand
  <2>2. Fields'
    BY <1>types, <1>11, Tasks, MqttAssumption DEF SendCommand, sendPacket, Sent, Begin, Succeed,
        Return, Fail, Refuse
  <2>3. Program'
    BY <1>types, <1>11 DEF SendCommand, sendPacket, Sent, Begin, Succeed, Return, Fail, Refuse,
        ClientStates, Places
  <2> QED BY <2>1, <2>2, <2>3
<1>12. CASE readPacket /\ UNCHANGED taskVars
  <2>1. Queues'
    <3>1. packet' \in FromBroker \cup {Padding}
      <4>1. CASE Misread
        BY <4>1, PiecesRead DEF Misread, Dispatch
      <4>2. CASE rx # <<>> /\ Dispatch(Head(rx))
        BY <1>types, <4>2 DEF Dispatch
      <4> QED BY <1>types, <1>12, <4>1, <4>2 DEF readPacket, Dispatch
    <3>2. rx' = rx \/ (rx # <<>> /\ rx' = Tail(rx))
      BY <1>12 DEF readPacket, Misread
    <3> QED
      BY <1>types, <1>12, <3>1, <3>2, MqttAssumption DEF readPacket
  <2>2. Fields'
    BY <1>types, <1>12, Tasks, MqttAssumption DEF readPacket, Misread, ReadOk, ReadFailed,
        ReadAtOnce, Dispatch, Begin, Succeed, Return, Fail, Refuse
  <2>3. Program'
    BY <1>types, <1>12 DEF readPacket, Misread, ReadOk, ReadFailed, ReadAtOnce, Dispatch, Begin,
        Succeed, Return, Fail, Refuse, ClientStates, Places
  <2> QED BY <2>1, <2>2, <2>3
<1>13. CASE SendAck /\ UNCHANGED taskVars
  <2>1. Queues'
    <3>1. Packet("PUBACK", packet.id, TRUE) \in ToBroker
      BY <1>types, <1>13, ClientPackets DEF SendAck, CallOfState, Padding, Packet, FromBroker
    <3> QED
      BY <1>types, <1>13, <3>1, SentTypes, MqttAssumption DEF SendAck
  <2>2. Fields'
    BY <1>types, <1>13, Tasks, MqttAssumption DEF SendAck, sendPacket, Sent, Begin, Succeed,
        Return, Fail, Refuse
  <2>3. Program'
    BY <1>types, <1>13 DEF SendAck, sendPacket, Sent, Begin, Succeed, Return, Fail, Refuse,
        ClientStates, Places
  <2> QED BY <2>1, <2>2, <2>3
<1>14. CASE SendPing /\ UNCHANGED taskVars
  <2>1. Queues'
    <3>1. Packet("PINGREQ", 0, TRUE) \in ToBroker
      BY MqttAssumption DEF Packet, ToBroker
    <3> QED
      BY <1>types, <1>14, <3>1, SentTypes, MqttAssumption DEF SendPing
  <2>2. Fields'
    BY <1>types, <1>14, Tasks, MqttAssumption DEF SendPing, sendPacket, Sent, Begin, Succeed,
        Return, Fail, Refuse
  <2>3. Program'
    BY <1>types, <1>14 DEF SendPing, sendPacket, Sent, Begin, Succeed, Return, Fail, Refuse,
        ClientStates, Places
  <2> QED BY <2>1, <2>2, <2>3
<1>15. CASE CheckTimer /\ UNCHANGED taskVars
  BY <1>types, <1>15, Tasks, MqttAssumption DEF CheckTimer, Local, ClientStates, Places
<1>16. CASE NotAwaited /\ UNCHANGED taskVars
  BY <1>types, <1>16, Tasks, MqttAssumption DEF NotAwaited, Local, ClientStates, Places
<1>17. CASE ReceivedConnack /\ UNCHANGED taskVars
  <2>1. Queues'
    BY <1>types, <1>17, MqttAssumption DEF ReceivedConnack, Received, Local
  <2>2. Fields'
    <3>1. handlers' \in 0 .. MaxHandlers /\ next_packetid' \in 1 .. MaxPacketId
      BY <1>types, <1>17, MqttAssumption DEF ReceivedConnack, Received, Local
    <3>2. /\ isconnected' \in BOOLEAN /\ ping_outstanding' \in BOOLEAN
          /\ pingDue' \in BOOLEAN /\ timeUp' \in BOOLEAN
      <4>1. packet.ok \in BOOLEAN
        <5>1. CASE packet \in FromBroker
          BY <5>1 DEF FromBroker
        <5>2. CASE packet = Padding
          BY <5>2 DEF Packet, Padding
        <5> QED BY <1>types, <5>1, <5>2
      <4> QED BY <1>types, <1>17, <4>1 DEF ReceivedConnack, Received, Local
    <3>3. task' \in DOMAIN Awaited \cup {"none"}
      BY <1>types, <1>17, Tasks DEF ReceivedConnack, Received, Local
    <3>4. alive' \in BOOLEAN /\ session' \in BOOLEAN /\ subscribed' \in BOOLEAN
      BY <1>types, <1>17 DEF ReceivedConnack, Received, Local
    <3> QED BY <3>1, <3>2, <3>3, <3>4
  <2>3. Program'
    BY <1>types, <1>17 DEF ReceivedConnack, Received, Local, ClientStates, Places
  <2> QED BY <2>1, <2>2, <2>3
<1>18. CASE ReceivedSuback /\ UNCHANGED taskVars
  BY <1>types, <1>18, Tasks, MqttAssumption DEF ReceivedSuback, Received, Local, ClientStates,
      Places
<1>19. CASE ReceivedPuback /\ UNCHANGED taskVars
  BY <1>types, <1>19, Tasks, MqttAssumption DEF ReceivedPuback, Received, Local, ClientStates,
      Places
<1>20. CASE ClientTimers
  <2>1. Queues'
    BY <1>types, <1>20, MqttAssumption DEF ClientTimers
  <2>2. Fields'
    BY <1>types, <1>20, Tasks, MqttAssumption DEF ClientTimers
  <2>3. Program'
    BY <1>types, <1>20 DEF ClientTimers, ClientStates, Places
  <2> QED BY <2>1, <2>2, <2>3
<1>21. CASE TimerExpires /\ UNCHANGED taskVars
  BY <1>types, <1>21, Tasks, MqttAssumption DEF TimerExpires, ClientStates, Places
<1>22. CASE PingFallsDue /\ UNCHANGED taskVars
  BY <1>types, <1>22, Tasks, MqttAssumption DEF PingFallsDue, ClientStates, Places
<1>23. CASE BrokerTakes /\ UNCHANGED taskVars
  <2>1. Queues'
    <3>1. requests' \in Seq(ToBroker) /\ Len(requests') <= MaxRequests /\ Head(requests) \in ToBroker
      BY <1>types, <1>23, MqttAssumption DEF BrokerTakes
    <3>2. rx' \in Seq(FromBroker) /\ Len(rx') <= MaxQueue
      <4>1. Head(requests).id \in 0 .. MaxPacketId
        BY <3>1 DEF ToBroker
      <4>2. CASE UNCHANGED rx
        BY <4>2, <1>types
      <4>4. \A q \in FromBroker : <<q>> \in Seq(FromBroker)
        OBVIOUS
      <4>5. \A q, r \in FromBroker : <<q, r>> \in Seq(FromBroker)
        OBVIOUS
      <4>6. \A ok \in BOOLEAN : Packet("CONNACK", 0, ok) \in FromBroker
        BY MqttAssumption, BrokerPackets
      <4>7. \A ok \in BOOLEAN : Packet("SUBACK", Head(requests).id, ok) \in FromBroker
        BY <4>1, BrokerPackets
      <4>8. Packet("PUBLISH", 1, TRUE) \in FromBroker
        BY MqttAssumption DEF Packet, FromBroker
      <4>9. \A type \in {"PUBACK", "PINGRESP"} : Packet(type, Head(requests).id,
          TRUE) \in FromBroker
        BY <4>1 DEF Packet, FromBroker
      <4>12. CASE Head(requests).type = "CONNECT"
        <5>1. PICK ok \in BOOLEAN : Reply(<<Packet("CONNACK", 0, ok)>>)
          BY <1>23, <4>12 DEF BrokerTakes
        <5>2. <<Packet("CONNACK", 0, ok)>> \in Seq(FromBroker)
          BY <4>4, <4>6
        <5> QED BY <5>1, <5>2, <1>types, ReplyTypes, MqttAssumption
      <4>13. CASE Head(requests).type = "SUBSCRIBE"
        <5>1. PICK ok \in BOOLEAN :
                 \/ Reply(<<Packet("SUBACK", Head(requests).id, ok)>>)
                 \/ Reply(<<Packet("PUBLISH", 1, TRUE), Packet("SUBACK", Head(requests).id, ok)>>)
          BY <1>23, <4>13 DEF BrokerTakes
        <5>2. Packet("SUBACK", Head(requests).id, ok) \in FromBroker
          BY <4>7
        <5>3. /\ <<Packet("SUBACK", Head(requests).id, ok)>> \in Seq(FromBroker)
              /\ <<Packet("PUBLISH", 1, TRUE), Packet("SUBACK", Head(requests).id, ok)>>
                    \in Seq(FromBroker)
          BY <5>2, <4>4, <4>5, <4>8
        <5> QED BY <5>1, <5>3, <1>types, ReplyTypes, MqttAssumption
      <4>14. CASE Head(requests).type \in {"PUBLISH", "PINGREQ"}
        <5> DEFINE type == IF Head(requests).type = "PUBLISH" THEN "PUBACK" ELSE "PINGRESP"
        <5>1. Reply(<<Packet(type, Head(requests).id, TRUE)>>)
          BY <1>23, <4>14 DEF BrokerTakes
        <5>2. type \in {"PUBACK", "PINGRESP"}
          OBVIOUS
        <5>3. Packet(type, Head(requests).id, TRUE) \in FromBroker
          BY <5>2, <4>9
        <5>4. <<Packet(type, Head(requests).id, TRUE)>> \in Seq(FromBroker)
          BY <5>3, <4>4
        <5> QED BY <5>1, <5>4, <1>types, ReplyTypes, MqttAssumption
      <4>15. CASE Head(requests).type = "PUBACK"
        BY <1>23, <4>15, <4>2 DEF BrokerTakes
      <4> QED
        BY <3>1, <4>12, <4>13, <4>14, <4>15 DEF ToBroker
    <3> QED BY <1>types, <1>23, <3>1, <3>2 DEF BrokerTakes
  <2>2. Fields'
    BY <1>types, <1>23, Tasks, MqttAssumption DEF BrokerTakes, Reply
  <2>3. Program'
    BY <1>types, <1>23 DEF BrokerTakes, Reply, ClientStates, Places
  <2> QED BY <2>1, <2>2, <2>3
<1>24. CASE BrokerPublishes /\ UNCHANGED taskVars
  <2>1. Queues'
    <3>1. Packet("PUBLISH", 1, TRUE) \in FromBroker
      BY MqttAssumption DEF Packet, FromBroker
    <3>2. \A q \in FromBroker : <<q>> \in Seq(FromBroker)
      OBVIOUS
    <3> QED
      BY <1>types, <1>24, <3>1, <3>2, MqttAssumption, ReplyTypes DEF BrokerPublishes
  <2>2. Fields'
    BY <1>types, <1>24, Tasks, MqttAssumption DEF BrokerPublishes, Reply
  <2>3. Program'
    BY <1>types, <1>24 DEF BrokerPublishes, Reply, ClientStates, Places
  <2> QED BY <2>1, <2>2, <2>3
<1>25. CASE BrokerCloses /\ UNCHANGED taskVars
  <2>1. Queues'
    BY <1>types, <1>25, MqttAssumption DEF BrokerCloses
  <2>2. Fields'
    BY <1>types, <1>25, Tasks, MqttAssumption DEF BrokerCloses
  <2>3. Program'
    BY <1>types, <1>25 DEF BrokerCloses, ClientStates, Places
  <2> QED BY <2>1, <2>2, <2>3
<1>26. CASE StatusChange /\ UNCHANGED <<mqttVars, taskVars>>
  BY <1>types, <1>26, Tasks, MqttAssumption DEF StatusChange, ClientStates, Places
<1>27. CASE UNCHANGED allVars
  BY <1>types, <1>27, Tasks, MqttAssumption DEF allVars, ClientStates, Places
<1> QED
  BY <1>1, <1>2, <1>3, <1>4, <1>5, <1>6, <1>7, <1>8, <1>9, <1>10, <1>11, <1>12, <1>13, <1>14,
      <1>15, <1>16, <1>17, <1>18, <1>19, <1>20, <1>21, <1>22, <1>23, <1>24, <1>25, <1>26,
      <1>27 DEF ClientNext, ClientStep, client_task, MqttStep, BrokerStep

-----------------------------------------------------------------------------
(* The client alone *)

\* The calls in progress belong to the state of client_task.
LEMMA CallOfStateKept ==
    ASSUME ClientTypeOK, CallOfState, [ClientNext]_allVars
    PROVE  CallOfState'
<1> USE DEF CallOfState, InCall, Places, allVars, linkVars, mqttVars, taskVars, clientVars,
    brokerVars
<1>1. CASE BeginTurn
  BY <1>1 DEF BeginTurn, ToClient
<1>2. CASE EndTurn
  BY <1>2 DEF EndTurn, ToLoop
<1>3. CASE client_state_init
  BY <1>3 DEF client_state_init, MQTTClientInit, Turn, Quiet, Environment, client_state_update
<1>4. CASE client_state_get_time
  BY <1>4 DEF client_state_get_time, Turn, NoCallYet, Environment, client_state_update,
      RequestTime
<1>5. CASE client_state_connect
  BY <1>5 DEF client_state_connect, Turn, NoCallYet, Quiet, Environment
<1>6. CASE client_state_run
  BY <1>6 DEF client_state_run, Turn, Quiet, Environment, NoCallYet, MQTTPublish, Identified,
      getNextPacketId, MQTTYield
<1>7. CASE client_connect_socket
  BY <1>7 DEF client_connect_socket, Begin, Succeed, Return, Fail, Refuse, NewConnection,
      MQTTConnect, NoCallYet, Environment
<1>8. CASE client_connected
  BY <1>8 DEF client_connected, Returned, Quiet, Environment, MQTTSubscribe, Identified,
      getNextPacketId, NoCallYet
<1>9. CASE client_subscribed
  BY <1>9 DEF client_subscribed, Returned, Quiet, Environment, client_state_update, NoCallYet
<1>10. CASE client_step_over
  BY <1>10 DEF client_step_over, Returned, Quiet, Environment, NoCallYet
<1>11. CASE SendCommand /\ UNCHANGED taskVars
  BY <1>11 DEF SendCommand, sendPacket, Sent, Begin, Succeed, Return, Fail, Refuse
<1>12. CASE readPacket /\ UNCHANGED taskVars
  BY <1>12 DEF readPacket, Misread, ReadOk, ReadFailed, ReadAtOnce, Dispatch, Begin, Succeed,
      Return, Fail, Refuse
<1>13. CASE SendAck /\ UNCHANGED taskVars
  BY <1>13 DEF SendAck, sendPacket, Sent, Begin, Succeed, Return, Fail, Refuse
<1>14. CASE SendPing /\ UNCHANGED taskVars
  BY <1>14 DEF SendPing, sendPacket, Sent, Begin, Succeed, Return, Fail, Refuse
<1>15. CASE CheckTimer /\ UNCHANGED taskVars
  BY <1>15 DEF CheckTimer, Local
<1>16. CASE NotAwaited /\ UNCHANGED taskVars
  BY <1>16 DEF NotAwaited, Local
<1>17. CASE ReceivedConnack /\ UNCHANGED taskVars
  BY <1>17 DEF ReceivedConnack, Received, Local
<1>18. CASE ReceivedSuback /\ UNCHANGED taskVars
  BY <1>18 DEF ReceivedSuback, Received, Local
<1>19. CASE ReceivedPuback /\ UNCHANGED taskVars
  BY <1>19 DEF ReceivedPuback, Received, Local
<1>20. CASE ClientTimers
  BY <1>20 DEF ClientTimers
<1>21. CASE TimerExpires /\ UNCHANGED taskVars
  BY <1>21 DEF TimerExpires
<1>22. CASE PingFallsDue /\ UNCHANGED taskVars
  BY <1>22 DEF PingFallsDue
<1>23. CASE BrokerTakes /\ UNCHANGED taskVars
  BY <1>23 DEF BrokerTakes, Reply
<1>24. CASE BrokerPublishes /\ UNCHANGED taskVars
  BY <1>24 DEF BrokerPublishes, Reply
<1>25. CASE BrokerCloses /\ UNCHANGED taskVars
  BY <1>25 DEF BrokerCloses
<1>26. CASE StatusChange /\ UNCHANGED <<mqttVars, taskVars>>
  BY <1>26 DEF StatusChange
<1>27. CASE UNCHANGED allVars
  BY <1>27 DEF allVars
<1> QED
  BY <1>1, <1>2, <1>3, <1>4, <1>5, <1>6, <1>7, <1>8, <1>9, <1>10, <1>11, <1>12, <1>13, <1>14,
      <1>15, <1>16, <1>17, <1>18, <1>19, <1>20, <1>21, <1>22, <1>23, <1>24, <1>25, <1>26,
      <1>27 DEF ClientNext, ClientStep, client_task, MqttStep, BrokerStep

\* The table of handlers is empty until SUBACK, and holds one handler then.
LEMMA HandlerCountKept ==
    ASSUME ClientTypeOK, CallOfState, HandlerCount, [ClientNext]_allVars
    PROVE  HandlerCount'
<1> USE DEF HandlerCount, CallOfState, InCall, Places, allVars, linkVars, mqttVars, taskVars,
    clientVars, brokerVars
<1>1. CASE BeginTurn
  BY <1>1 DEF BeginTurn, ToClient
<1>2. CASE EndTurn
  BY <1>2 DEF EndTurn, ToLoop
<1>3. CASE client_state_init
  BY <1>3 DEF client_state_init, MQTTClientInit, Turn, Quiet, Environment, client_state_update
<1>4. CASE client_state_get_time
  BY <1>4 DEF client_state_get_time, Turn, NoCallYet, Environment, client_state_update,
      RequestTime
<1>5. CASE client_state_connect
  BY <1>5 DEF client_state_connect, Turn, NoCallYet, Quiet, Environment
<1>6. CASE client_state_run
  BY <1>6 DEF client_state_run, Turn, Quiet, Environment, NoCallYet, MQTTPublish, Identified,
      getNextPacketId, MQTTYield
<1>7. CASE client_connect_socket
  BY <1>7 DEF client_connect_socket, Begin, Succeed, Return, Fail, Refuse, NewConnection,
      MQTTConnect, NoCallYet, Environment
<1>8. CASE client_connected
  BY <1>8 DEF client_connected, Returned, Quiet, Environment, MQTTSubscribe, Identified,
      getNextPacketId, NoCallYet
<1>9. CASE client_subscribed
  BY <1>9 DEF client_subscribed, Returned, Quiet, Environment, client_state_update, NoCallYet
<1>10. CASE client_step_over
  BY <1>10 DEF client_step_over, Returned, Quiet, Environment, NoCallYet
<1>11. CASE SendCommand /\ UNCHANGED taskVars
  BY <1>11 DEF SendCommand, sendPacket, Sent, Begin, Succeed, Return, Fail, Refuse
<1>12. CASE readPacket /\ UNCHANGED taskVars
  BY <1>12 DEF readPacket, Misread, ReadOk, ReadFailed, ReadAtOnce, Dispatch, Begin, Succeed,
      Return, Fail, Refuse
<1>13. CASE SendAck /\ UNCHANGED taskVars
  BY <1>13 DEF SendAck, sendPacket, Sent, Begin, Succeed, Return, Fail, Refuse
<1>14. CASE SendPing /\ UNCHANGED taskVars
  BY <1>14 DEF SendPing, sendPacket, Sent, Begin, Succeed, Return, Fail, Refuse
<1>15. CASE CheckTimer /\ UNCHANGED taskVars
  BY <1>15 DEF CheckTimer, Local
<1>16. CASE NotAwaited /\ UNCHANGED taskVars
  BY <1>16 DEF NotAwaited, Local
<1>17. CASE ReceivedConnack /\ UNCHANGED taskVars
  BY <1>17 DEF ReceivedConnack, Received, Local
<1>18. CASE ReceivedSuback /\ UNCHANGED taskVars
  BY <1>18 DEF ReceivedSuback, Received, Local
<1>19. CASE ReceivedPuback /\ UNCHANGED taskVars
  BY <1>19 DEF ReceivedPuback, Received, Local
<1>20. CASE ClientTimers
  BY <1>20 DEF ClientTimers
<1>21. CASE TimerExpires /\ UNCHANGED taskVars
  BY <1>21 DEF TimerExpires
<1>22. CASE PingFallsDue /\ UNCHANGED taskVars
  BY <1>22 DEF PingFallsDue
<1>23. CASE BrokerTakes /\ UNCHANGED taskVars
  BY <1>23 DEF BrokerTakes, Reply
<1>24. CASE BrokerPublishes /\ UNCHANGED taskVars
  BY <1>24 DEF BrokerPublishes, Reply
<1>25. CASE BrokerCloses /\ UNCHANGED taskVars
  BY <1>25 DEF BrokerCloses
<1>26. CASE StatusChange /\ UNCHANGED <<mqttVars, taskVars>>
  BY <1>26 DEF StatusChange
<1>27. CASE UNCHANGED allVars
  BY <1>27 DEF allVars
<1> QED
  BY <1>1, <1>2, <1>3, <1>4, <1>5, <1>6, <1>7, <1>8, <1>9, <1>10, <1>11, <1>12, <1>13, <1>14,
      <1>15, <1>16, <1>17, <1>18, <1>19, <1>20, <1>21, <1>22, <1>23, <1>24, <1>25, <1>26,
      <1>27 DEF ClientNext, ClientStep, client_task, MqttStep, BrokerStep

-----------------------------------------------------------------------------
(* The client and the broker *)

\* Reading whole packets adds nothing to what is incoming but padding.
LEMMA ReadIncoming ==
    ASSUME rx \in Seq(FromBroker), readPacket, ~SplitPackets
    PROVE  /\ Incoming' \subseteq Incoming \cup {Padding}
           /\ at' = "read" => packet' = packet
           /\ at' # "read" => packet' \in {rx[i] : i \in 1 .. Len(rx)} \cup {Padding}
<1>1. rx' = rx \/ (rx # <<>> /\ rx' = Tail(rx))
  BY DEF readPacket, Misread
<1>2. \A i \in 1 .. Len(rx') : \E k \in 1 .. Len(rx) : rx'[i] = rx[k]
  <2>1. CASE rx' = rx
    BY <2>1
  <2>2. CASE rx # <<>> /\ rx' = Tail(rx)
    <3>1. \A i \in 1 .. Len(rx') : rx'[i] = rx[i + 1] /\ i + 1 \in 1 .. Len(rx)
      BY <2>2
    <3> QED BY <3>1
  <2> QED BY <1>1, <2>1, <2>2
<1>3. rx # <<>> => Head(rx) = rx[1] /\ 1 \in 1 .. Len(rx)
  OBVIOUS
<1>4. packet' = packet \/ packet' = Padding \/ (rx # <<>> /\ packet' = Head(rx))
  BY DEF readPacket, Misread, Dispatch
<1>5. Incoming' \subseteq Incoming \cup {Padding}
  BY <1>2, <1>3, <1>4 DEF Incoming
<1>6. /\ at' = "read" => packet' = packet
      /\ at' # "read" => packet' = Padding \/ (rx # <<>> /\ packet' = Head(rx))
  BY DEF readPacket, Misread, Dispatch
<1> QED BY <1>3, <1>5, <1>6

\* An answer of the broker is added to what is incoming.
LEMMA ReplyIncoming ==
    ASSUME rx \in Seq(FromBroker), NEW ps \in Seq(FromBroker), Reply(ps), UNCHANGED packet
    PROVE  Incoming' = Incoming \cup {ps[i] : i \in 1 .. Len(ps)}
<1>1. /\ Len(rx') = Len(rx) + Len(ps)
      /\ \A i \in 1 .. Len(rx) : rx'[i] = rx[i]
      /\ \A i \in 1 .. Len(ps) : rx'[Len(rx) + i] = ps[i]
  BY DEF Reply
<1>2. \A i \in 1 .. Len(rx') : i \notin 1 .. Len(rx) =>
          i - Len(rx) \in 1 .. Len(ps) /\ rx'[i] = ps[i - Len(rx)]
  BY <1>1
<1>3. \A i \in 1 .. Len(ps) : Len(rx) + i \in 1 .. Len(rx')
  BY <1>1
<1>4. \A i \in 1 .. Len(rx) : i \in 1 .. Len(rx')
  BY <1>1
<1>5. ASSUME NEW q \in Incoming' PROVE q \in Incoming \cup {ps[i] : i \in 1 .. Len(ps)}
  <2>1. CASE q = packet
    BY <2>1 DEF Incoming
  <2>2. ASSUME NEW i \in 1 .. Len(rx'), q = rx'[i] PROVE <1>5!2
    BY <1>1, <1>2, <2>2 DEF Incoming
  <2> QED BY <1>5, <2>1, <2>2 DEF Incoming
<1>6. ASSUME NEW q \in Incoming \cup {ps[i] : i \in 1 .. Len(ps)} PROVE q \in Incoming'
  <2>1. CASE q = packet
    BY <2>1 DEF Incoming
  <2>2. ASSUME NEW i \in 1 .. Len(rx), q = rx[i] PROVE q \in Incoming'
    BY <1>1, <1>4, <2>2 DEF Incoming
  <2>3. ASSUME NEW i \in 1 .. Len(ps), q = ps[i] PROVE q \in Incoming'
    BY <1>1, <1>3, <2>3 DEF Incoming
  <2> QED BY <1>6, <2>1, <2>2, <2>3 DEF Incoming
<1> QED BY <1>5, <1>6

\* The same for answers of one packet and of two.
LEMMA ReplyOne ==
    ASSUME rx \in Seq(FromBroker), NEW p \in FromBroker, Reply(<<p>>), UNCHANGED packet
    PROVE  Incoming' = Incoming \cup {p}
<1> DEFINE ps == <<p>>
<1>1. ps \in Seq(FromBroker) /\ Len(ps) = 1 /\ ps[1] = p
  OBVIOUS
<1>2. Reply(ps)
  OBVIOUS
<1> HIDE DEF ps
<1>3. {ps[i] : i \in 1 .. Len(ps)} = {p}
  BY <1>1
<1> QED BY <1>1, <1>2, <1>3, ReplyIncoming

LEMMA ReplyTwo ==
    ASSUME rx \in Seq(FromBroker), NEW p \in FromBroker, NEW q \in FromBroker,
           Reply(<<p, q>>), UNCHANGED packet
    PROVE  Incoming' = Incoming \cup {p, q}
<1> DEFINE ps == <<p, q>>
<1>1. ps \in Seq(FromBroker) /\ Len(ps) = 2 /\ ps[1] = p /\ ps[2] = q
  OBVIOUS
<1>2. Reply(ps)
  OBVIOUS
<1> HIDE DEF ps
<1>3. {ps[i] : i \in 1 .. Len(ps)} = {p, q}
  <2>1. 1 .. Len(ps) = {1, 2}
    BY <1>1
  <2> QED BY <1>1, <2>1
<1> QED BY <1>1, <1>2, <1>3, ReplyIncoming

\* Before the session is accepted nothing but CONNECT is under way.
LEMMA NothingBeforeSessionKept ==
    ASSUME ClientTypeOK, CallOfState, HandlerCount, ~StaleData, ~SplitPackets,
           NothingBeforeSession, [ClientNext]_allVars
    PROVE  NothingBeforeSession'
<1> USE DEF NothingBeforeSession, CallOfState, InCall, Places, allVars, linkVars, mqttVars,
    taskVars, clientVars, brokerVars
<1>types. /\ rx \in Seq(FromBroker) /\ requests \in Seq(ToBroker) /\ at \in Places
      /\ Padding.type = "padding"
  BY DEF ClientTypeOK, MqttTypeOK, Padding, Packet
<1>same. UNCHANGED <<rx, packet>> => Incoming' = Incoming
  BY DEF Incoming
<1>read. packet \in Incoming
  BY DEF Incoming
<1>1. CASE BeginTurn
  BY <1>1, <1>types, <1>same DEF BeginTurn, ToClient
<1>2. CASE EndTurn
  <2>1. Incoming' \subseteq Incoming \cup {Padding}
    BY <1>2 DEF EndTurn, Incoming
  <2> QED BY <1>2, <1>types, <2>1 DEF EndTurn
<1>3. CASE client_state_init
  BY <1>3, <1>types, <1>same DEF client_state_init, MQTTClientInit, Turn, Quiet, Environment,
      client_state_update
<1>4. CASE client_state_get_time
  BY <1>4, <1>types, <1>same DEF client_state_get_time, Turn, NoCallYet, Environment,
      client_state_update, RequestTime
<1>5. CASE client_state_connect
  BY <1>5, <1>types, <1>same DEF client_state_connect, Turn, NoCallYet, Quiet, Environment
<1>6. CASE client_state_run
  BY <1>6, <1>types, <1>same DEF client_state_run, Turn, Quiet, Environment, NoCallYet,
      MQTTPublish, Identified, getNextPacketId, MQTTYield
<1>7. CASE client_connect_socket
  <2>1. ASSUME NewConnection, UNCHANGED packet, at = "sock"
        PROVE  Len(requests') = 0 /\ Incoming' = {Padding}
    <3>1. rx' = SubSeq(rx, 1, 0)
      BY <2>1 DEF NewConnection
    <3>2. Len(rx') = 0
      BY <3>1, <1>types, PrefixTypes
    <3> QED BY <2>1, <3>2 DEF NewConnection, Incoming
  <2>2. CASE NewConnection /\ (MQTTConnect \/ (at' = "done" /\ NoCallYet)) /\ UNCHANGED <<packet,
      taskVars>>
    BY <1>7, <1>types, <2>1, <2>2 DEF client_connect_socket, NewConnection, MQTTConnect, NoCallYet
  <2>3. CASE UNCHANGED <<rx, packet, requests, brokerVars, cstate, clientVars, pingDue,
      task>> /\ at' \in {"sock", "done"}
    BY <1>7, <1>types, <1>same, <2>3 DEF client_connect_socket
  <2> QED BY <1>7, <2>2, <2>3 DEF client_connect_socket, Environment, NoCallYet
<1>8. CASE client_connected
  BY <1>8, <1>types, <1>same DEF client_connected, Returned, Quiet, Environment, MQTTSubscribe,
      Identified, getNextPacketId, NoCallYet
<1>9. CASE client_subscribed
  BY <1>9, <1>types, <1>same DEF client_subscribed, Returned, Quiet, Environment,
      client_state_update, NoCallYet
<1>10. CASE client_step_over
  BY <1>10, <1>types, <1>same DEF client_step_over, Returned, Quiet, Environment, NoCallYet
<1>11. CASE SendCommand /\ UNCHANGED taskVars
  <2>1. ~session => requests' \in {<<>>, <<Packet("CONNECT", 0, TRUE)>>}
    <3>1. CASE ~session
      <4>1. requests = <<>> /\ task = "connect" /\ Command[task] = "CONNECT"
        BY <1>11, <3>1 DEF SendCommand, Command
      <4>2. Append(<<>>, Packet("CONNECT", 0, TRUE)) = <<Packet("CONNECT", 0, TRUE)>>
        OBVIOUS
      <4> QED BY <1>11, <4>1, <4>2 DEF SendCommand, sendPacket, Sent
    <3> QED BY <3>1
  <2>2. ~session /\ requests' # <<>> => Len(requests') = 1 /\ requests'[1].type = "CONNECT"
    BY <2>1 DEF Packet
  <2> QED
    BY <1>11, <1>types, <1>same, <2>2 DEF SendCommand, sendPacket, Begin, Succeed, Return, Fail,
        Refuse
<1>12. CASE readPacket /\ UNCHANGED taskVars
  <2>1. packet' \in Incoming \cup {Padding} /\ Incoming' \subseteq Incoming \cup {Padding}
    BY <1>types, <1>12, ReadIncoming DEF Incoming
  <2>2. at' \in {"read", "cycled"} \/ packet'.type = "PUBLISH" \/ pingDue
    BY <1>12 DEF readPacket, Misread, Dispatch
  <2> QED BY <1>12, <1>types, <2>1, <2>2 DEF readPacket, Misread
<1>13. CASE SendAck /\ UNCHANGED taskVars
  BY <1>13, <1>types, <1>same DEF SendAck, sendPacket, Sent, Begin, Succeed, Return, Fail, Refuse
<1>14. CASE SendPing /\ UNCHANGED taskVars
  BY <1>14, <1>types, <1>same DEF SendPing, sendPacket, Sent, Begin, Succeed, Return, Fail, Refuse
<1>15. CASE CheckTimer /\ UNCHANGED taskVars
  BY <1>15, <1>types, <1>same DEF CheckTimer, Local
<1>16. CASE NotAwaited /\ UNCHANGED taskVars
  <2>1. Incoming' \subseteq Incoming \cup {Padding}
    BY <1>16 DEF NotAwaited, Local, Incoming
  <2> QED BY <1>16, <1>types, <2>1 DEF NotAwaited, Local
<1>17. CASE ReceivedConnack /\ UNCHANGED taskVars
  <2>1. packet.type = "CONNACK" /\ task = "connect" /\ at = "cycled"
    BY <1>17 DEF ReceivedConnack, Received, Awaited
  <2>2. ~session => ~packet.ok
    BY <2>1, <1>read
  <2> QED BY <1>17, <1>types, <1>same, <2>1, <2>2 DEF ReceivedConnack, Received, Local
<1>18. CASE ReceivedSuback /\ UNCHANGED taskVars
  BY <1>18, <1>types, <1>same DEF ReceivedSuback, Received, Local
<1>19. CASE ReceivedPuback /\ UNCHANGED taskVars
  BY <1>19, <1>types, <1>same DEF ReceivedPuback, Received, Local
<1>20. CASE ClientTimers
  BY <1>20, <1>types, <1>same DEF ClientTimers
<1>21. CASE TimerExpires /\ UNCHANGED taskVars
  BY <1>21, <1>types, <1>same DEF TimerExpires
<1>22. CASE PingFallsDue /\ UNCHANGED taskVars
  BY <1>22, <1>types, <1>same DEF PingFallsDue
<1>23. CASE BrokerTakes /\ UNCHANGED taskVars
  <2>1. CASE session'
    BY <2>1
  <2>2. CASE ~session'
    <3>1. ~session
      BY <1>23, <2>2 DEF BrokerTakes
    <3>2. requests # <<>> /\ Len(requests) = 1 /\ Head(requests) = requests[1]
      BY <1>types, <1>23, <3>1 DEF BrokerTakes
    <3>3. Reply(<<Packet("CONNACK", 0, FALSE)>>) /\ UNCHANGED <<subscribed, packet>>
      <4>1. UNCHANGED <<subscribed, packet>>
        BY <1>23, <3>1, <3>2 DEF BrokerTakes
      <4>2. PICK ok \in BOOLEAN : Reply(<<Packet("CONNACK", 0, ok)>>) /\ session' = ok
        BY <1>23, <3>1, <3>2 DEF BrokerTakes
      <4>3. ok = FALSE
        BY <2>2, <4>2
      <4> QED BY <4>1, <4>2, <4>3
    <3>4. Len(requests') = 0 /\ requests' = <<>>
      BY <1>types, <1>23, <3>2 DEF BrokerTakes
    <3>5. Incoming' = Incoming \cup {Packet("CONNACK", 0, FALSE)}
      <4>1. Packet("CONNACK", 0, FALSE) \in FromBroker
        BY MqttAssumption DEF Packet, FromBroker
      <4> QED BY <1>types, <3>3, <4>1, ReplyOne
    <3> QED BY <1>23, <3>1, <3>3, <3>4, <3>5 DEF BrokerTakes, Packet
  <2> QED BY <2>1, <2>2
<1>24. CASE BrokerPublishes /\ UNCHANGED taskVars
  BY <1>24, <1>types DEF BrokerPublishes
<1>25. CASE BrokerCloses /\ UNCHANGED taskVars
  BY <1>25, <1>types, <1>same DEF BrokerCloses
<1>26. CASE StatusChange /\ UNCHANGED <<mqttVars, taskVars>>
  BY <1>26, <1>types, <1>same DEF StatusChange
<1>27. CASE UNCHANGED allVars
  BY <1>27, <1>types, <1>same DEF allVars
<1> QED
  BY <1>1, <1>2, <1>3, <1>4, <1>5, <1>6, <1>7, <1>8, <1>9, <1>10, <1>11, <1>12, <1>13, <1>14,
      <1>15, <1>16, <1>17, <1>18, <1>19, <1>20, <1>21, <1>22, <1>23, <1>24, <1>25, <1>26,
      <1>27 DEF ClientNext, ClientStep, client_task, MqttStep, BrokerStep

\* A request that is not SUBSCRIBE adds no SUBSCRIBE.
LEMMA AppendedRequest ==
    ASSUME requests \in Seq(ToBroker), NEW q, q.type # "SUBSCRIBE",
           requests' = requests \/ requests' = Append(requests, q)
    PROVE  \A i \in 1 .. Len(requests') : requests'[i].type = "SUBSCRIBE" =>
              i \in 1 .. Len(requests) /\ requests'[i] = requests[i]
  OBVIOUS

\* Unless rxbuf survives it, nothing is under way on a new connection.
LEMMA NewConnectionEmpties ==
    ASSUME rx \in Seq(FromBroker), ~StaleData, NewConnection, packet' = Padding
    PROVE  Len(requests') = 0 /\ Incoming' = {Padding}
<1>1. rx' = SubSeq(rx, 1, 0)
  BY DEF NewConnection
<1>2. Len(rx') = 0
  BY <1>1, PrefixTypes
<1> QED BY <1>2 DEF NewConnection, Incoming

\* One SUBSCRIBE at most is sent on a connection.
LEMMA OneSubscriptionKept ==
    ASSUME ClientTypeOK, CallOfState, ~StaleData, ~SplitPackets, OneSubscription,
           [ClientNext]_allVars
    PROVE  OneSubscription'
<1> USE DEF OneSubscription, NotSubscribing, Unsubscribed, CallOfState, InCall, Places, allVars,
    linkVars, mqttVars, taskVars, clientVars, brokerVars
<1>types. /\ rx \in Seq(FromBroker) /\ requests \in Seq(ToBroker) /\ at \in Places
      /\ ~Granted(Padding)
  BY DEF ClientTypeOK, MqttTypeOK, Padding, Packet, Granted
<1>same. UNCHANGED <<rx, packet>> => Incoming' = Incoming
  BY DEF Incoming
<1>read. packet \in Incoming
  BY DEF Incoming
<1> DEFINE NoNewSubscribe == \A i \in 1 .. Len(requests') : requests'[i].type = "SUBSCRIBE" =>
                                i \in 1 .. Len(requests) /\ requests[i].type = "SUBSCRIBE"
<1>1. CASE BeginTurn
  BY <1>1, <1>types, <1>same, <1>read DEF BeginTurn, ToClient
<1>2. CASE EndTurn
  <2>1. Incoming' \subseteq Incoming \cup {Padding}
    BY <1>2 DEF EndTurn, Incoming
  <2> QED BY <1>2, <1>types, <2>1 DEF EndTurn
<1>3. CASE client_state_init
  BY <1>3, <1>types, <1>same, <1>read DEF client_state_init, MQTTClientInit, Turn, Quiet,
      Environment, client_state_update
<1>4. CASE client_state_get_time
  BY <1>4, <1>types, <1>same, <1>read DEF client_state_get_time, Turn, NoCallYet, Environment,
      client_state_update, RequestTime
<1>5. CASE client_state_connect
  BY <1>5, <1>types, <1>same, <1>read DEF client_state_connect, Turn, NoCallYet, Quiet,
      Environment
<1>6. CASE client_state_run
  BY <1>6, <1>types, <1>same, <1>read DEF client_state_run, Turn, Quiet, Environment, NoCallYet,
      MQTTPublish, Identified, getNextPacketId, MQTTYield
<1>7. CASE client_connect_socket
  <2>1. CASE /\ NewConnection /\ UNCHANGED <<packet, taskVars>> /\ at = "sock"
             /\ MQTTConnect \/ (at' = "done" /\ NoCallYet)
    <3>1. Len(requests') = 0 /\ Incoming' = {Padding}
      BY <1>types, <2>1, NewConnectionEmpties
    <3>2. /\ subscribed' = FALSE /\ cstate' = "CONNECT"
          /\ task' \in {"connect", "none"} /\ at' \in {"send", "fail", "done"}
      BY <2>1 DEF NewConnection, MQTTConnect, NoCallYet
    <3> QED BY <1>types, <3>1, <3>2
  <2>2. CASE UNCHANGED <<rx, packet, requests, brokerVars, cstate, clientVars, pingDue,
      task>> /\ at' \in {"sock", "done"}
    BY <1>7, <1>types, <1>same, <2>2 DEF client_connect_socket
  <2> QED BY <1>7, <2>1, <2>2 DEF client_connect_socket, Environment, NoCallYet
<1>8. CASE client_connected
  BY <1>8, <1>types, <1>same, <1>read DEF client_connected, Returned, Quiet, Environment,
      MQTTSubscribe, Identified, getNextPacketId, NoCallYet
<1>9. CASE client_subscribed
  BY <1>9, <1>types, <1>same, <1>read DEF client_subscribed, Returned, Quiet, Environment,
      client_state_update, NoCallYet
<1>10. CASE client_step_over
  BY <1>10, <1>types, <1>same, <1>read DEF client_step_over, Returned, Quiet, Environment,
      NoCallYet
<1>11. CASE SendCommand /\ UNCHANGED taskVars
  <2>1. CASE task = "subscribe" /\ requests' # requests
    <3>1. Unsubscribed /\ \A i \in 1 .. Len(requests) : requests[i].type # "SUBSCRIBE"
      BY <1>11, <2>1 DEF SendCommand
    <3>2. at' \in {"check", "fail"}
      BY <1>11, <2>1 DEF SendCommand, sendPacket
    <3>3. \E q : requests' = Append(requests, q)
      BY <1>11, <2>1 DEF SendCommand, sendPacket, Sent
    <3>4. \A i \in 1 .. Len(requests') : requests'[i].type = "SUBSCRIBE" => i = Len(requests) + 1
      BY <1>types, <3>1, <3>3
    <3> QED BY <1>11, <1>types, <1>same, <2>1, <3>1, <3>2, <3>4 DEF SendCommand
  <2>2. CASE task # "subscribe" \/ requests' = requests
    <3>1. NoNewSubscribe
      <4> DEFINE q == Packet(Command[task], IF task = "connect" THEN 0 ELSE next_packetid, TRUE)
      <4>1. requests' = requests \/ (requests' = Append(requests, q) /\ task # "subscribe")
        BY <1>11, <2>2 DEF SendCommand, sendPacket, Sent
      <4>2. task # "subscribe" => q.type # "SUBSCRIBE"
        BY <1>11 DEF SendCommand, Command, Packet
      <4> HIDE DEF q
      <4> QED BY <1>types, <4>1, <4>2, AppendedRequest
    <3> QED BY <1>11, <1>types, <1>same, <2>2, <3>1 DEF SendCommand, sendPacket
  <2> QED BY <2>1, <2>2
<1>12. CASE readPacket /\ UNCHANGED taskVars
  <2>1. Incoming' \subseteq Incoming \cup {Padding}
    BY <1>types, <1>12, ReadIncoming
  <2> QED BY <1>12, <1>types, <2>1 DEF readPacket, Misread, Dispatch
<1>13. CASE SendAck /\ UNCHANGED taskVars
  <2>1. NoNewSubscribe
    <3>1. requests' = requests \/ requests' = Append(requests, Packet("PUBACK", packet.id, TRUE))
      BY <1>13 DEF SendAck, sendPacket, Sent
    <3>2. Packet("PUBACK", packet.id, TRUE).type # "SUBSCRIBE"
      BY DEF Packet
    <3> QED BY <1>types, <3>1, <3>2, AppendedRequest
  <2> QED BY <1>13, <1>types, <1>same, <2>1 DEF SendAck, sendPacket
<1>14. CASE SendPing /\ UNCHANGED taskVars
  <2>1. NoNewSubscribe
    <3>1. requests' = requests \/ requests' = Append(requests, Packet("PINGREQ", 0, TRUE))
      BY <1>14 DEF SendPing, sendPacket, Sent
    <3>2. Packet("PINGREQ", 0, TRUE).type # "SUBSCRIBE"
      BY DEF Packet
    <3> QED BY <1>types, <3>1, <3>2, AppendedRequest
  <2> QED BY <1>14, <1>types, <1>same, <2>1 DEF SendPing, sendPacket
<1>15. CASE CheckTimer /\ UNCHANGED taskVars
  BY <1>15, <1>types, <1>same, <1>read DEF CheckTimer, Local
<1>16. CASE NotAwaited /\ UNCHANGED taskVars
  <2>1. Incoming' \subseteq Incoming \cup {Padding}
    BY <1>16 DEF NotAwaited, Local, Incoming
  <2> QED BY <1>16, <1>types, <2>1 DEF NotAwaited, Local
<1>17. CASE ReceivedConnack /\ UNCHANGED taskVars
  BY <1>17, <1>types, <1>same, <1>read DEF ReceivedConnack, Received, Local
<1>18. CASE ReceivedSuback /\ UNCHANGED taskVars
  <2>1. packet.type = "SUBACK" /\ task = "subscribe" /\ at = "cycled"
    BY <1>18 DEF ReceivedSuback, Received, Awaited
  <2>2. at' = "ok" => Granted(packet)
    BY <1>18, <2>1 DEF ReceivedSuback, Granted
  <2>3. /\ UNCHANGED <<requests, brokerVars, task, cstate>> /\ Incoming' = Incoming
        /\ at' \in {"ok", "fail"}
    BY <1>18, <1>same DEF ReceivedSuback, Received, Local
  <2>4. alive => (at' = "ok" => subscribed)
    BY <1>read, <2>2
  <2> QED BY <2>1, <2>3, <2>4
<1>19. CASE ReceivedPuback /\ UNCHANGED taskVars
  BY <1>19, <1>types, <1>same, <1>read DEF ReceivedPuback, Received, Local
<1>20. CASE ClientTimers
  BY <1>20, <1>types, <1>same, <1>read DEF ClientTimers
<1>21. CASE TimerExpires /\ UNCHANGED taskVars
  BY <1>21, <1>types, <1>same, <1>read DEF TimerExpires
<1>22. CASE PingFallsDue /\ UNCHANGED taskVars
  BY <1>22, <1>types, <1>same, <1>read DEF PingFallsDue
<1>23. CASE BrokerTakes /\ UNCHANGED taskVars
  <2>same. UNCHANGED <<packet, at, task, cstate>>
    BY <1>23 DEF BrokerTakes
  <2>1. \A i \in 1 .. Len(requests') :
           requests'[i] = requests[i + 1] /\ i + 1 \in 1 .. Len(requests)
    BY <1>types, <1>23 DEF BrokerTakes
  <2>2. requests # <<>> /\ Head(requests) = requests[1] /\ 1 \in 1 .. Len(requests)
    BY <1>types, <1>23 DEF BrokerTakes
  <2>3. Head(requests) \in ToBroker
    BY <1>types, <2>2
  <2>id. Head(requests).id \in 0 .. MaxPacketId
    BY <2>3 DEF ToBroker
  <2>4. CASE Head(requests).type = "SUBSCRIBE"
    <3>1. PICK ok \in BOOLEAN :
             /\ subscribed' = ok
             /\ \/ Reply(<<Packet("SUBACK", Head(requests).id, ok)>>)
                \/ Reply(<<Packet("PUBLISH", 1, TRUE), Packet("SUBACK", Head(requests).id, ok)>>)
      BY <1>23, <2>4 DEF BrokerTakes
    <3>2. Packet("SUBACK", Head(requests).id, ok) \in FromBroker
      BY <2>id, BrokerPackets
    <3>3. Packet("PUBLISH", 1, TRUE) \in FromBroker
      BY MqttAssumption DEF Packet, FromBroker
    <3>4. Incoming' \subseteq Incoming \cup {Packet("PUBLISH", 1, TRUE), Packet("SUBACK",
        Head(requests).id, ok)}
      BY <1>types, <2>same, <3>1, <3>2, <3>3, ReplyOne, ReplyTwo
    <3>5. /\ ~Granted(Packet("PUBLISH", 1, TRUE))
          /\ Granted(Packet("SUBACK", Head(requests).id, ok)) => subscribed'
      BY <3>1 DEF Granted, Packet
    <3>6. /\ ~NotSubscribing /\ Unsubscribed
          /\ \A i \in 1 .. Len(requests') : requests'[i].type # "SUBSCRIBE"
      BY <2>1, <2>2, <2>4
    <3>7. UNCHANGED alive
      BY <1>23, <2>4 DEF BrokerTakes
    <3> QED BY <2>same, <3>4, <3>5, <3>6, <3>7
  <2>5. CASE Head(requests).type # "SUBSCRIBE"
    <3>1. UNCHANGED subscribed /\ (alive' => alive)
      BY <1>23, <2>5 DEF BrokerTakes
    <3>2. \A p \in Incoming' : Granted(p) => p \in Incoming
      <4>1. CASE UNCHANGED rx
        BY <4>1, <2>same, <1>same
      <4>2. CASE Head(requests).type = "CONNECT"
        <5>1. PICK ok \in BOOLEAN : Reply(<<Packet("CONNACK", 0, ok)>>)
          BY <1>23, <4>2 DEF BrokerTakes
        <5>2. Packet("CONNACK", 0, ok) \in FromBroker /\ ~Granted(Packet("CONNACK", 0, ok))
          BY MqttAssumption DEF FromBroker, Packet, Granted
        <5> QED BY <1>types, <2>same, <5>1, <5>2, ReplyOne
      <4>3. CASE Head(requests).type \in {"PUBLISH", "PINGREQ"}
        <5> DEFINE q == Packet(IF Head(requests).type = "PUBLISH" THEN "PUBACK" ELSE "PINGRESP",
                               Head(requests).id, TRUE)
        <5>1. Reply(<<q>>)
          BY <1>23, <4>3 DEF BrokerTakes
        <5>2. q \in FromBroker /\ ~Granted(q)
          BY <2>id DEF FromBroker, Packet, Granted
        <5> HIDE DEF q
        <5> QED BY <1>types, <2>same, <5>1, <5>2, ReplyOne
      <4>4. CASE Head(requests).type = "PUBACK"
        BY <1>23, <4>4, <2>same, <1>same DEF BrokerTakes
      <4> QED BY <2>3, <2>5, <4>2, <4>3, <4>4 DEF ToBroker
    <3> QED BY <2>same, <2>1, <3>1, <3>2
  <2> QED BY <2>4, <2>5
<1>24. CASE BrokerPublishes /\ UNCHANGED taskVars
  <2>1. Packet("PUBLISH", 1, TRUE) \in FromBroker /\ ~Granted(Packet("PUBLISH", 1, TRUE))
    BY MqttAssumption DEF Packet, FromBroker, Granted
  <2>2. Incoming' = Incoming \cup {Packet("PUBLISH", 1, TRUE)}
    BY <1>24, <1>types, <2>1, ReplyOne DEF BrokerPublishes
  <2> QED BY <1>24, <1>types, <2>1, <2>2 DEF BrokerPublishes
<1>25. CASE BrokerCloses /\ UNCHANGED taskVars
  BY <1>25, <1>types, <1>same, <1>read DEF BrokerCloses
<1>26. CASE StatusChange /\ UNCHANGED <<mqttVars, taskVars>>
  BY <1>26, <1>types, <1>same, <1>read DEF StatusChange
<1>27. CASE UNCHANGED allVars
  BY <1>27, <1>types, <1>same, <1>read DEF allVars
<1> QED
  BY <1>1, <1>2, <1>3, <1>4, <1>5, <1>6, <1>7, <1>8, <1>9, <1>10, <1>11, <1>12, <1>13, <1>14,
      <1>15, <1>16, <1>17, <1>18, <1>19, <1>20, <1>21, <1>22, <1>23, <1>24, <1>25, <1>26,
      <1>27 DEF ClientNext, ClientStep, client_task, MqttStep, BrokerStep

\* An answer of one packet comes behind all others.
LEMMA AppendedReply ==
    ASSUME rx \in Seq(FromBroker), NEW p \in FromBroker, Reply(<<p>>)
    PROVE  /\ Len(rx') = Len(rx) + 1 /\ rx'[Len(rx) + 1] = p
           /\ \A i \in 1 .. Len(rx) : rx'[i] = rx[i]
  BY DEF Reply

\* Without early messages the broker answers a request with at most one packet,
\* never a message, and grants a subscription with a SUBACK only.
LEMMA BrokerAnswers ==
    ASSUME requests \in Seq(ToBroker), ~EarlyPublish, BrokerTakes
    PROVE  \/ UNCHANGED <<rx, subscribed>>
           \/ \E p \in FromBroker :
                 Reply(<<p>>) /\ p.type # "PUBLISH" /\ (subscribed' => subscribed \/ Granted(p))
<1>1. Head(requests) \in ToBroker
  BY DEF BrokerTakes
<1>2. Head(requests).id \in 0 .. MaxPacketId
  BY <1>1 DEF ToBroker
<1>3. CASE Head(requests).type = "CONNECT"
  <2>1. PICK ok \in BOOLEAN : Reply(<<Packet("CONNACK", 0, ok)>>) /\ UNCHANGED subscribed
    BY <1>3 DEF BrokerTakes
  <2>2. Packet("CONNACK", 0, ok) \in FromBroker /\ Packet("CONNACK", 0, ok).type # "PUBLISH"
    BY MqttAssumption DEF FromBroker, Packet
  <2> QED BY <2>1, <2>2
<1>4. CASE Head(requests).type = "SUBSCRIBE"
  <2>1. PICK ok \in BOOLEAN :
           Reply(<<Packet("SUBACK", Head(requests).id, ok)>>) /\ subscribed' = ok
    BY <1>4 DEF BrokerTakes
  <2> DEFINE p == Packet("SUBACK", Head(requests).id, ok)
  <2>2. p \in FromBroker /\ p.type # "PUBLISH" /\ (subscribed' => Granted(p))
    BY <1>2, <2>1 DEF FromBroker, Packet, Granted
  <2>3. Reply(<<p>>)
    BY <2>1
  <2> HIDE DEF p
  <2> QED BY <2>2, <2>3
<1>5. CASE Head(requests).type \in {"PUBLISH", "PINGREQ"}
  <2> DEFINE p == Packet(IF Head(requests).type = "PUBLISH" THEN "PUBACK" ELSE "PINGRESP",
                         Head(requests).id, TRUE)
  <2>1. Reply(<<p>>) /\ UNCHANGED subscribed
    BY <1>5 DEF BrokerTakes, brokerVars
  <2>2. p \in FromBroker /\ p.type # "PUBLISH"
    BY <1>2 DEF FromBroker, Packet
  <2> HIDE DEF p
  <2> QED BY <2>1, <2>2
<1>6. CASE Head(requests).type = "PUBACK"
  BY <1>6 DEF BrokerTakes, brokerVars
<1> QED BY <1>1, <1>3, <1>4, <1>5, <1>6 DEF ToBroker

\* A message that is incoming while the client waits for SUBACK is behind it.
LEMMA MessagesBehindSubackKept ==
    ASSUME ClientTypeOK, CallOfState, ~StaleData, ~EarlyPublish, ~SplitPackets,
           OneSubscription, MessagesBehindSuback, [ClientNext]_allVars
    PROVE  MessagesBehindSuback'
<1> USE DEF MessagesBehindSuback, NotSubscribing, Answered, CallOfState, InCall, Places, allVars,
    linkVars, mqttVars, taskVars, clientVars, brokerVars
<1>types. /\ rx \in Seq(FromBroker) /\ requests \in Seq(ToBroker) /\ at \in Places
      /\ Padding.type = "padding"
  BY DEF ClientTypeOK, MqttTypeOK, Padding, Packet
<1>same. UNCHANGED <<rx, packet>> => Incoming' = Incoming
  BY DEF Incoming
<1>read. packet \in Incoming /\ \A i \in 1 .. Len(rx) : rx[i] \in Incoming
  BY DEF Incoming
<1>early. NotSubscribing => ~subscribed
  BY DEF OneSubscription, Unsubscribed
<1>suback. Granted(packet) => packet.type = "SUBACK"
  BY DEF Granted
<1>1. CASE BeginTurn
  BY <1>1, <1>same DEF BeginTurn, ToClient
<1>2. CASE EndTurn
  BY <1>2, <1>same DEF EndTurn, ToLoop
<1>3. CASE client_state_init
  BY <1>3, <1>same DEF client_state_init, MQTTClientInit, Turn, Quiet, Environment,
      client_state_update
<1>4. CASE client_state_get_time
  BY <1>4, <1>same DEF client_state_get_time, Turn, NoCallYet, Environment, client_state_update,
      RequestTime
<1>5. CASE client_state_connect
  BY <1>5, <1>same DEF client_state_connect, Turn, NoCallYet, Quiet, Environment
<1>6. CASE client_state_run
  BY <1>6, <1>same DEF client_state_run, Turn, Quiet, Environment, NoCallYet, MQTTPublish,
      Identified, getNextPacketId, MQTTYield
<1>7. CASE client_connect_socket
  <2>1. CASE /\ NewConnection /\ UNCHANGED <<packet, taskVars>> /\ at = "sock"
             /\ MQTTConnect \/ (at' = "done" /\ NoCallYet)
    <3>1. Incoming' = {Padding}
      BY <1>types, <2>1, NewConnectionEmpties
    <3>2. task' \in {"connect", "none"}
      BY <2>1 DEF MQTTConnect, NoCallYet
    <3> QED BY <1>types, <3>1, <3>2
  <2>2. CASE at' \in {"sock", "done"}
    BY <2>2
  <2> QED BY <1>7, <2>1, <2>2 DEF client_connect_socket
<1>8. CASE client_connected
  BY <1>8, <1>same DEF client_connected, Returned, Quiet, Environment, MQTTSubscribe, Identified,
      getNextPacketId, NoCallYet
<1>9. CASE client_subscribed
  BY <1>9, <1>same DEF client_subscribed, Returned, Quiet, Environment, client_state_update,
      NoCallYet
<1>10. CASE client_step_over
  BY <1>10, <1>same DEF client_step_over, Returned, Quiet, Environment, NoCallYet
<1>11. CASE SendCommand /\ UNCHANGED taskVars
  <2>1. UNCHANGED <<rx, packet, task, subscribed>> /\ at = "send" /\ at' \in {"send", "check",
      "fail"}
    BY <1>11 DEF SendCommand, sendPacket
  <2> QED BY <1>same, <1>read, <1>early, <2>1
<1>12. CASE readPacket /\ UNCHANGED taskVars
  <2>1. Incoming' \subseteq Incoming \cup {Padding}
    BY <1>types, <1>12, ReadIncoming
  <2>2. at = "read" /\ UNCHANGED <<task, subscribed>>
    BY <1>12 DEF readPacket
  <2>3. CASE UNCHANGED <<rx, packet, at>>
    BY <1>same, <2>2, <2>3
  <2>4. CASE rx' = rx /\ packet' = Padding /\ at' \in {"ping", "cycled"}
    <3>1. ~Answered
      BY <2>2
    <3>2. CASE task = "subscribe"
      <4>1. /\ \A i \in 1 .. Len(rx) : rx[i].type = "PUBLISH" =>
                  \E j \in 1 .. i - 1 : Granted(rx[j])
            /\ subscribed => \E j \in 1 .. Len(rx) : Granted(rx[j])
        BY <2>2, <3>1, <3>2
      <4>2. /\ \A i \in 1 .. Len(rx') : rx'[i].type = "PUBLISH" =>
                  \E j \in 1 .. i - 1 : Granted(rx'[j])
            /\ subscribed' => \E j \in 1 .. Len(rx') : Granted(rx'[j])
        BY <2>2, <2>4, <4>1
      <4>3. ~NotSubscribing' /\ packet'.type # "PUBLISH"
        BY <1>types, <2>2, <2>4, <3>2
      <4> HIDE DEF Answered
      <4> QED BY <4>2, <4>3
    <3>3. CASE task # "subscribe"
      BY <1>types, <2>1, <2>2, <3>3
    <3> QED BY <3>2, <3>3
  <2>5. CASE rx # <<>> /\ rx' = Tail(rx) /\ Dispatch(Head(rx))
    <3>1. /\ Head(rx) = rx[1] /\ 1 \in 1 .. Len(rx) /\ Len(rx') = Len(rx) - 1
          /\ \A i \in 1 .. Len(rx') : rx'[i] = rx[i + 1] /\ i + 1 \in 1 .. Len(rx)
      BY <1>types, <2>5
    <3>2. packet' = rx[1] /\ (packet'.type # "PUBLISH" => at' \in {"ping", "cycled"})
      BY <2>5, <3>1 DEF Dispatch
    <3>3. CASE task = "subscribe"
      <4>1. /\ \A i \in 1 .. Len(rx) : rx[i].type = "PUBLISH" =>
                  \E j \in 1 .. i - 1 : Granted(rx[j])
            /\ subscribed => \E j \in 1 .. Len(rx) : Granted(rx[j])
        BY <2>2, <3>3
      <4>2. packet'.type # "PUBLISH"
        BY <3>1, <3>2, <4>1
      <4>3. Answered' <=> Granted(rx[1])
        BY <3>2, <4>2
      <4>4. ASSUME NEW i \in 1 .. Len(rx'), rx'[i].type = "PUBLISH", ~Answered'
            PROVE  \E j \in 1 .. i - 1 : Granted(rx'[j])
        <5>1. i + 1 \in 1 .. Len(rx) /\ rx[i + 1].type = "PUBLISH"
          BY <3>1, <4>4
        <5>2. PICK j \in 1 .. (i + 1) - 1 : Granted(rx[j])
          BY <4>1, <5>1
        <5>3. j # 1
          BY <4>3, <4>4, <5>2
        <5>4. j - 1 \in 1 .. i - 1 /\ j - 1 \in 1 .. Len(rx') /\ (j - 1) + 1 = j
          BY <5>2, <5>3
        <5> QED BY <3>1, <5>2, <5>4
      <4>5. ASSUME subscribed, ~Answered'
            PROVE  \E j \in 1 .. Len(rx') : Granted(rx'[j])
        <5>1. PICK j \in 1 .. Len(rx) : Granted(rx[j])
          BY <4>1, <4>5
        <5>2. j # 1
          BY <4>3, <4>5, <5>1
        <5>3. j - 1 \in 1 .. Len(rx') /\ (j - 1) + 1 = j
          BY <1>types, <3>1, <5>1, <5>2
        <5> QED BY <3>1, <5>1, <5>3
      <4>6. ~NotSubscribing'
        BY <2>2, <3>2, <3>3, <4>2
      <4>7. /\ \A i \in 1 .. Len(rx') : rx'[i].type = "PUBLISH" =>
                  Answered' \/ \E j \in 1 .. i - 1 : Granted(rx'[j])
            /\ subscribed' => Answered' \/ \E j \in 1 .. Len(rx') : Granted(rx'[j])
        BY <2>2, <4>4, <4>5
      <4> HIDE DEF Answered
      <4> QED BY <4>2, <4>6, <4>7
    <3>4. CASE task # "subscribe"
      BY <1>types, <2>1, <2>2, <3>4
    <3> QED BY <3>3, <3>4
  <2>6. Dispatch(Padding) => packet' = Padding /\ at' \in {"ping", "cycled"}
    BY <1>types DEF Dispatch
  <2> QED BY <1>12, <2>3, <2>4, <2>5, <2>6 DEF readPacket, Misread
<1>13. CASE SendAck /\ UNCHANGED taskVars
  <2>1. UNCHANGED <<rx, packet, task, subscribed>> /\ at = "ack" /\ packet.type = "PUBLISH"
    BY <1>13 DEF SendAck
  <2>2. task \notin {"connect", "subscribe"}
    BY <1>read, <2>1
  <2> QED BY <2>1, <2>2
<1>14. CASE SendPing /\ UNCHANGED taskVars
  <2>1. /\ UNCHANGED <<rx, packet, task, subscribed>>
        /\ at = "ping" /\ at' \in {"ping", "cycled"}
    BY <1>14 DEF SendPing, sendPacket
  <2> QED BY <1>same, <2>1
<1>15. CASE CheckTimer /\ UNCHANGED taskVars
  <2>1. /\ UNCHANGED <<rx, packet, task, subscribed>>
        /\ at = "check" /\ at' \in {"read", "ok", "fail"}
    BY <1>15 DEF CheckTimer, Local
  <2> QED BY <1>same, <2>1
<1>16. CASE NotAwaited /\ UNCHANGED taskVars
  <2>1. /\ UNCHANGED <<rx, task, subscribed>> /\ packet' = Padding
        /\ at = "cycled" /\ at' = "check" /\ (task = "subscribe" => packet.type # "SUBACK")
    BY <1>16 DEF NotAwaited, Local, Awaited
  <2>2. Incoming' \subseteq Incoming \cup {Padding}
    BY <2>1 DEF Incoming
  <2>3. ~Answered' /\ (task = "subscribe" => ~Answered) /\ packet'.type = "padding"
    BY <1>types, <1>suback, <2>1
  <2> QED BY <1>types, <2>1, <2>2, <2>3
<1>17. CASE ReceivedConnack /\ UNCHANGED taskVars
  BY <1>17, <1>same DEF ReceivedConnack, Received, Local
<1>18. CASE ReceivedSuback /\ UNCHANGED taskVars
  BY <1>18, <1>same DEF ReceivedSuback, Received, Local
<1>19. CASE ReceivedPuback /\ UNCHANGED taskVars
  BY <1>19, <1>same DEF ReceivedPuback, Received, Local
<1>20. CASE ClientTimers
  BY <1>20, <1>same DEF ClientTimers
<1>21. CASE TimerExpires /\ UNCHANGED taskVars
  BY <1>21, <1>same DEF TimerExpires
<1>22. CASE PingFallsDue /\ UNCHANGED taskVars
  BY <1>22, <1>same DEF PingFallsDue
<1>23. CASE BrokerTakes /\ UNCHANGED taskVars
  <2>1. UNCHANGED <<packet, at, task>> /\ Head(requests) = requests[1] /\ 1 \in 1 .. Len(requests)
    BY <1>types, <1>23 DEF BrokerTakes
  <2>2. CASE UNCHANGED <<rx, subscribed>>
    BY <1>same, <2>1, <2>2
  <2>3. ASSUME NEW p \in FromBroker, Reply(<<p>>), p.type # "PUBLISH",
               subscribed' => subscribed \/ Granted(p)
        PROVE  MessagesBehindSuback'
    <3>1. Incoming' = Incoming \cup {p}
      BY <1>types, <2>1, <2>3, ReplyOne
    <3>2. /\ Len(rx') = Len(rx) + 1 /\ rx'[Len(rx) + 1] = p
          /\ \A i \in 1 .. Len(rx) : rx'[i] = rx[i]
      BY <1>types, <2>3, AppendedReply
    <3>3. \A i \in 1 .. Len(rx') : rx'[i].type = "PUBLISH" => i \in 1 .. Len(rx)
      BY <1>types, <2>3, <3>2
    <3>4. Len(rx) \in Nat
      BY <1>types
    <3>5. ASSUME NEW i \in 1 .. Len(rx), \E j \in 1 .. i - 1 : Granted(rx[j])
          PROVE  \E j \in 1 .. i - 1 : Granted(rx'[j])
      BY <3>2, <3>4, <3>5
    <3>6. (\E j \in 1 .. Len(rx) : Granted(rx[j])) \/ Granted(p)
             => \E j \in 1 .. Len(rx') : Granted(rx'[j])
      BY <3>2, <3>4
    <3>7. Answered' <=> Answered
      BY <2>1
    <3>8. (NotSubscribing => \A q \in Incoming : q.type # "PUBLISH")'
      BY <2>1, <2>3, <3>1
    <3>9. ASSUME InCall, task = "subscribe", at \notin {"send", "ok", "fail"}
          PROVE  /\ packet'.type # "PUBLISH"
                 /\ \A i \in 1 .. Len(rx') : rx'[i].type = "PUBLISH" =>
                       Answered' \/ \E j \in 1 .. i - 1 : Granted(rx'[j])
                 /\ subscribed' => Answered' \/ \E j \in 1 .. Len(rx') : Granted(rx'[j])
      <4>1. /\ packet.type # "PUBLISH"
            /\ \A i \in 1 .. Len(rx) : rx[i].type = "PUBLISH" =>
                  Answered \/ \E j \in 1 .. i - 1 : Granted(rx[j])
            /\ subscribed => Answered \/ \E j \in 1 .. Len(rx) : Granted(rx[j])
        BY <3>9
      <4> HIDE DEF Answered, MessagesBehindSuback
      <4>2. ASSUME NEW i \in 1 .. Len(rx'), rx'[i].type = "PUBLISH"
            PROVE  Answered' \/ \E j \in 1 .. i - 1 : Granted(rx'[j])
        <5>1. i \in 1 .. Len(rx) /\ rx[i].type = "PUBLISH"
          BY <3>2, <3>3, <4>2
        <5> QED BY <3>5, <3>7, <4>1, <5>1
      <4> QED BY <2>1, <2>3, <3>6, <3>7, <4>1, <4>2
    <3> HIDE DEF Answered
    <3> QED BY <2>1, <3>8, <3>9
  <2> QED BY <1>types, <1>23, <2>2, <2>3, BrokerAnswers
<1>24. CASE BrokerPublishes /\ UNCHANGED taskVars
  <2>1. UNCHANGED <<packet, at, task, subscribed>> /\ subscribed
    BY <1>24 DEF BrokerPublishes
  <2> DEFINE p == Packet("PUBLISH", 1, TRUE)
  <2>2. p \in FromBroker /\ Reply(<<p>>)
    BY <1>24, MqttAssumption DEF BrokerPublishes, Packet, FromBroker
  <2> HIDE DEF p
  <2>3. /\ Len(rx') = Len(rx) + 1 /\ \A i \in 1 .. Len(rx) : rx'[i] = rx[i]
    BY <1>types, <2>2, AppendedReply
  <2>4. Len(rx) \in Nat
    BY <1>types
  <2>5. \A i \in 1 .. Len(rx') : i \in 1 .. Len(rx) \/ i - 1 = Len(rx)
    BY <2>3, <2>4
  <2>6. ASSUME NEW i \in 1 .. Len(rx), \E j \in 1 .. i - 1 : Granted(rx[j])
        PROVE  \E j \in 1 .. i - 1 : Granted(rx'[j])
    BY <2>3, <2>4, <2>6
  <2>7. (\E j \in 1 .. Len(rx) : Granted(rx[j]))
           => /\ \E j \in 1 .. Len(rx') : Granted(rx'[j])
              /\ \A i \in 1 .. Len(rx') : i - 1 = Len(rx) =>
                    \E j \in 1 .. i - 1 : Granted(rx'[j])
    BY <2>3, <2>4
  <2>8. Answered' <=> Answered
    BY <2>1
  <2>9. ~NotSubscribing'
    BY <1>early, <2>1
  <2> HIDE DEF Answered
  <2> QED BY <2>1, <2>3, <2>5, <2>6, <2>7, <2>8, <2>9
<1>25. CASE BrokerCloses /\ UNCHANGED taskVars
  BY <1>25, <1>same DEF BrokerCloses
<1>26. CASE StatusChange /\ UNCHANGED <<mqttVars, taskVars>>
  BY <1>26, <1>same DEF StatusChange
<1>27. CASE UNCHANGED allVars
  BY <1>27, <1>same DEF allVars
<1> QED
  BY <1>1, <1>2, <1>3, <1>4, <1>5, <1>6, <1>7, <1>8, <1>9, <1>10, <1>11, <1>12, <1>13, <1>14,
      <1>15, <1>16, <1>17, <1>18, <1>19, <1>20, <1>21, <1>22, <1>23, <1>24, <1>25, <1>26,
      <1>27 DEF ClientNext, ClientStep, client_task, MqttStep, BrokerStep

\* Every step preserves the invariant.
LEMMA Preserved == ClientInv /\ [ClientNext]_allVars => ClientInv'
<1> SUFFICES ASSUME ClientInv, [ClientNext]_allVars PROVE ClientInv'
  OBVIOUS
<1>1. ClientTypeOK /\ CallOfState /\ HandlerCount
  BY DEF ClientInv
<1>2. ClientTypeOK' /\ CallOfState' /\ HandlerCount'
  BY <1>1, Types, CallOfStateKept, HandlerCountKept
<1>3. ASSUME ~StaleData, ~SplitPackets PROVE NothingBeforeSession' /\ OneSubscription'
  <2>1. NothingBeforeSession /\ OneSubscription
    BY <1>3 DEF ClientInv
  <2> QED BY <1>1, <1>3, <2>1, NothingBeforeSessionKept, OneSubscriptionKept
<1>4. ASSUME ~StaleData, ~EarlyPublish, ~SplitPackets PROVE MessagesBehindSuback'
  <2>1. OneSubscription /\ MessagesBehindSuback
    BY <1>4 DEF ClientInv
  <2> QED BY <1>1, <1>4, <2>1, MessagesBehindSubackKept
<1> QED BY <1>2, <1>3, <1>4 DEF ClientInv

-----------------------------------------------------------------------------
(* Theorems *)

\* The invariant of the client, its MQTT calls and the broker: the calls that
\* belong to each state of client_task, the number of handlers, and what can
\* be in flight before CONNACK and before SUBACK.
THEOREM ClientInvariance == ClientSpec => []ClientInv
  BY Initial, Preserved, PTL DEF ClientSpec

\* The variables of the client, of MQTTClient.c and of the broker keep their
\* types; the queues stay within their bounds and the packet id within 1 .. 65535.
THEOREM ClientTypes == ClientSpec => []ClientTypeOK
<1>1. ClientInv => ClientTypeOK
  BY DEF ClientInv
<1> QED BY <1>1, ClientInvariance, PTL

\* The client reaches the link by the calls of wifi_task.h only.
THEOREM ClientUsesLink == ClientSpec => LinkInit /\ [][LinkNext]_linkVars
<1>1. ClientInit => LinkInit
  BY DEF ClientInit
<1> QED BY <1>1, LinkSteps, PTL DEF ClientSpec

\* client_task publishes and yields after an accepted CONNACK and with exactly one
\* message handler, whatever the broker sends and the receive buffer holds:
\* packets read in part are among it.
THEOREM RunsSubscribedOnce == ClientSpec => []RunSubscribedOnce
<1>1. ClientInv => RunSubscribedOnce
  BY DEF ClientInv, HandlerCount, RunSubscribedOnce
<1> QED BY <1>1, ClientInvariance, PTL

\* If packets are read whole and on the connection they came on, RUN means that
\* the broker, too, has accepted the session and the subscription of this
\* connection.
THEOREM RunsKnownToBroker ==
    ~StaleData /\ ~SplitPackets => (ClientSpec => []RunKnownToBroker)
<1> SUFFICES ASSUME ~StaleData, ~SplitPackets PROVE ClientSpec => []RunKnownToBroker
  OBVIOUS
<1>1. ClientInv => RunKnownToBroker
  BY DEF ClientInv, NothingBeforeSession, OneSubscription, RunKnownToBroker
<1> QED BY <1>1, ClientInvariance, PTL

\* If packets are read whole and on the connection they came on, the broker sees
\* CONNECT first and alone on every connection.
THEOREM ConnectsFirst ==
    ~StaleData /\ ~SplitPackets => (ClientSpec => []ConnectComesFirst)
<1> SUFFICES ASSUME ~StaleData, ~SplitPackets PROVE ClientSpec => []ConnectComesFirst
  OBVIOUS
<1>1. ClientInv => ConnectComesFirst
  <2>1. ClientInv => requests \in Seq(ToBroker)
    BY DEF ClientInv, ClientTypeOK, MqttTypeOK
  <2>2. ClientInv /\ requests # <<>> => Head(requests) = requests[1]
    BY <2>1
  <2> QED BY <2>2 DEF ClientInv, NothingBeforeSession, ConnectComesFirst
<1> QED BY <1>1, ClientInvariance, PTL

\* With a broker that publishes only behind SUBACK, and no packet lost in or
\* left over in rxbuf, every message that is acknowledged has found its handler.
THEOREM AcknowledgesHandled ==
    ~StaleData /\ ~EarlyPublish /\ ~SplitPackets =>
        (ClientSpec => []AcknowledgedWereHandled)
<1> SUFFICES ASSUME ~StaleData, ~EarlyPublish, ~SplitPackets
             PROVE  ClientSpec => []AcknowledgedWereHandled
  OBVIOUS
<1>1. ClientInv => AcknowledgedWereHandled
  <2> SUFFICES ASSUME ClientInv, at = "ack" PROVE handlers > 0
    BY DEF AcknowledgedWereHandled
  <2>1. CallOfState /\ HandlerCount /\ MessagesBehindSuback
    BY DEF ClientInv
  <2>2. InCall /\ packet.type = "PUBLISH" /\ packet \in Incoming
    BY <2>1 DEF CallOfState, InCall, Places, Incoming
  <2>3. task \notin {"connect", "subscribe"}
    BY <2>1, <2>2 DEF MessagesBehindSuback, NotSubscribing
  <2>4. cstate \in {"RUN", "INIT"}
    BY <2>1, <2>2, <2>3 DEF CallOfState
  <2> QED BY <2>1, <2>2, <2>4 DEF HandlerCount
<1> QED BY <1>1, ClientInvariance, PTL

=============================================================================
