----------------------------- MODULE ClientTask -----------------------------
(***************************************************************************)
(* The client state machine of src/client_task.c over the MQTT client.     *)
(* main calls client_task once in a turn of the main loop, unless the kit  *)
(* protocol holds the lock; a turn ends at "done".                         *)
(***************************************************************************)
EXTENDS MqttClient

VARIABLES
    cstate,   \* g_client_context.state.state
    held,     \* g_client_context.holdoff is not 0
    clock     \* time_utils_get_utc() is not 0

taskVars == <<cstate, held, clock>>
allVars  == <<linkVars, mqttVars, taskVars>>

-----------------------------------------------------------------------------

\* CLIENT_STATE_ERROR is never entered: no transition leads to it.
ClientStates == {"INIT", "GET_TIME", "CONNECT", "RUN"}
Places == {"idle", "sock", "send", "check", "read", "ack", "ping", "cycled", "ok",
           "fail", "done"}

LinkTypeOK ==
    /\ status \in Statuses /\ place \in {"loop", "client", "blocked"}
    /\ op \in Ops \cup {"none"} /\ result \in {"none", "ok", "fail"}
    /\ open \subseteq Socks /\ current \in open \cup {None}

ClientTypeOK ==
    /\ MqttTypeOK /\ LinkTypeOK
    /\ cstate \in ClientStates
    /\ held \in BOOLEAN /\ clock \in BOOLEAN
    /\ at \in Places

ClientInit ==
    /\ LinkInit /\ MqttInit
    /\ at = "idle"
    /\ cstate = "INIT" /\ held = FALSE /\ clock = FALSE

client_state_update(next) == cstate' = next /\ held' = FALSE

-----------------------------------------------------------------------------
(* One step of tiny_state_driver *)

Turn(s) == place = "client" /\ at = "idle" /\ cstate = s

Environment == <<packet, rx, requests, brokerVars, clock>>
Quiet == UNCHANGED <<linkVars, Environment>>
NoCallYet == UNCHANGED <<clientVars, pingDue, timeUp, task>>

\* Mutant: the table of handlers is not cleared.
client_state_init_keeps_handlers ==
    /\ Turn("INIT") /\ Quiet
    /\ isconnected' = FALSE /\ ping_outstanding' = FALSE
    /\ next_packetid' = 1 /\ pingDue' = TRUE
    /\ client_state_update("GET_TIME")
    /\ at' = "done"
    /\ UNCHANGED <<handlers, timeUp, task>>

\* TimerInit leaves the ping timer expired.
client_state_init ==
    /\ Turn("INIT") /\ Quiet
    /\ MQTTClientInit /\ pingDue' = TRUE
    /\ client_state_update("GET_TIME")
    /\ at' = "done"
    /\ UNCHANGED <<timeUp, task>>

\* wifi_request_time does nothing on a link that is not ready.
client_state_get_time ==
    /\ Turn("GET_TIME") /\ NoCallYet
    /\ at' = "done"
    /\ \/ held /\ UNCHANGED <<linkVars, cstate, held>>
       \/ /\ ~held /\ clock
          /\ client_state_update("CONNECT") /\ UNCHANGED linkVars
       \/ /\ ~held /\ ~clock
          /\ IF status = "ready" THEN RequestTime ELSE UNCHANGED linkVars
          /\ held' = TRUE /\ UNCHANGED cstate
    /\ UNCHANGED Environment

\* client_connect_socket: the host is read from the configuration, which may
\* fail, and the socket is connected.
client_state_connect ==
    /\ Turn("CONNECT") /\ NoCallYet /\ Quiet
    /\ \/ held /\ at' = "done" /\ UNCHANGED held
       \/ ~held /\ at' \in {"sock", "done"} /\ held' = TRUE
    /\ UNCHANGED cstate

\* A turn in RUN that sees the error publishes once more before it is over.
client_state_run ==
    /\ Turn("RUN") /\ Quiet
    /\ cstate' = IF status = "error" THEN "INIT" ELSE "RUN"
    /\ \/ /\ ~held \/ status = "error"
          /\ held' = TRUE
          /\ MQTTPublish \/ (at' = "done" /\ NoCallYet)
       \/ /\ held /\ status # "error"
          /\ MQTTYield
          /\ UNCHANGED held

-----------------------------------------------------------------------------
(* The rest of client_state_connect and client_state_run *)

\* wifi_connect, then MQTTConnect.  A configuration string that cannot be read
\* ends the step.
client_connect_socket ==
    /\ at = "sock"
    /\ \/ Begin("connect") /\ UNCHANGED <<mqttVars, taskVars>>
       \/ /\ Succeed("connect")
          /\ NewConnection
          /\ MQTTConnect \/ (at' = "done" /\ NoCallYet)
          /\ UNCHANGED <<packet, taskVars>>
       \/ /\ Fail("connect") \/ Refuse
          /\ at' = "done"
          /\ NoCallYet /\ UNCHANGED <<Environment, cstate, held>>

Returned(t, res) == place = "client" /\ at = res /\ task = t /\ Quiet

client_connected ==
    /\ Returned("connect", "ok")
    /\ MQTTSubscribe \/ (at' = "done" /\ NoCallYet)
    /\ UNCHANGED <<cstate, held>>

client_subscribed ==
    /\ Returned("subscribe", "ok")
    /\ client_state_update("RUN")
    /\ at' = "done" /\ NoCallYet

\* A failed connection or subscription leaves the state alone; the results of
\* MQTTPublish and MQTTYield are not used.
client_step_over ==
    /\ \/ \E t \in {"connect", "subscribe"} : Returned(t, "fail")
       \/ \E t \in {"publish", "yield"}, res \in {"ok", "fail"} : Returned(t, res)
    /\ at' = "done" /\ NoCallYet
    /\ UNCHANGED <<cstate, held>>

-----------------------------------------------------------------------------
(* The main loop and time *)

BeginTurn == ToClient /\ UNCHANGED <<mqttVars, taskVars>>

\* At "idle" the kit lock has kept client_task from running.  The locals of the
\* MQTT calls end with the turn.
EndTurn ==
    /\ at \in {"idle", "done"} /\ at' = "idle"
    /\ ToLoop
    /\ task' = "none" /\ timeUp' = FALSE /\ packet' = Padding
    /\ UNCHANGED <<clientVars, pingDue, rx, requests, brokerVars, taskVars>>

client_task ==
    \/ client_state_init \/ client_state_get_time \/ client_state_connect
    \/ client_state_run
    \/ client_connect_socket \/ client_connected \/ client_subscribed
    \/ client_step_over

ClientStep == BeginTurn \/ client_task \/ (MqttStep /\ UNCHANGED taskVars) \/ EndTurn

\* client_timer_update, and the answer to the time request.  Both are looked at
\* when a turn begins only, so that they may as well happen before it.
ClientTimers ==
    /\ place = "loop"
    /\ \/ held /\ held' = FALSE /\ UNCHANGED clock
       \/ ~clock /\ clock' = TRUE /\ UNCHANGED held
    /\ UNCHANGED <<linkVars, mqttVars, cstate>>

ClientNext ==
    \/ ClientStep
    \/ ClientTimers
    \/ (TimerExpires \/ PingFallsDue \/ BrokerStep) /\ UNCHANGED taskVars
    \/ StatusChange /\ UNCHANGED <<mqttVars, taskVars>>

\* The processor runs the client, the calls of the link return, time passes.
ClientFairness ==
    WF_allVars(ClientStep) /\ WF_allVars(TimerExpires /\ UNCHANGED taskVars)

ClientSpec == ClientInit /\ [][ClientNext]_allVars /\ ClientFairness

-----------------------------------------------------------------------------
(* Properties *)

\* A turn of the client comes to an end: no MQTT call waits for a packet
\* beyond its timer, whatever the link and the broker do.
TurnEnds == at # "idle" ~> at = "idle"

\* The client runs on one subscription: an MQTT session has been accepted, as
\* far as it could read, and a message is handled once. Packets read in part,
\* a SUBACK among them, and data of an old connection do not change that.
RunSubscribedOnce == cstate = "RUN" => isconnected /\ handlers = 1

\* RUN is a state of the broker too: as long as the connection lives the
\* broker has accepted the session and the subscription on it. This is so for
\* packets that are read whole, and read on the connection they came on.
RunKnownToBroker == cstate = "RUN" /\ alive => session /\ subscribed

\* What reaches the broker on a connection begins with CONNECT, and nothing
\* follows before the session is accepted.
ConnectComesFirst ==
    ~session /\ requests # <<>> => Head(requests).type = "CONNECT" /\ Len(requests) = 1

\* A message that is acknowledged to the broker has been handled.
AcknowledgedWereHandled == at = "ack" => handlers > 0

-----------------------------------------------------------------------------
(* The inductive invariant behind the safety properties.                     *)

InCall == at \in Places \ {"idle", "sock", "done"}

\* The calls in progress belong to the state: CONNECT connects and subscribes,
\* RUN publishes and yields, and enters INIT before its last publish.
CallOfState ==
    /\ at \in {"idle", "sock"} => task = "none" /\ packet = Padding
    /\ at = "sock" => cstate = "CONNECT"
    /\ at = "send" => task # "yield"
    /\ at = "ack" => packet.type = "PUBLISH"
    /\ InCall =>
        \/ task \in {"connect", "subscribe"} /\ cstate = "CONNECT"
        \/ task \in {"publish", "yield"} /\ cstate \in {"RUN", "INIT"}

\* The table is empty from INIT to the answer of SUBSCRIBE, and holds one
\* handler from there to INIT.
HandlerCount ==
    /\ cstate \in {"GET_TIME", "CONNECT"} =>
        handlers = (IF task = "subscribe" /\ at = "ok" THEN 1 ELSE 0)
    /\ cstate = "RUN" => isconnected /\ handlers = 1
    /\ cstate = "INIT" /\ InCall => handlers = 1
    /\ InCall /\ (task = "subscribe" \/ (task = "connect" /\ at = "ok")) => isconnected

Incoming == {rx[i] : i \in 1 .. Len(rx)} \cup {packet}

\* Without a session the client is at most waiting for it, and has neither
\* sent nor been sent anything else.
NothingBeforeSession ==
    ~session =>
        /\ cstate # "RUN" /\ ~subscribed
        /\ InCall => task = "connect" /\ at \notin {"ack", "ping", "ok"}
        /\ InCall /\ at # "fail" => ~pingDue
        /\ at = "send" => requests = <<>>
        /\ requests # <<>> => Len(requests) = 1 /\ requests[1].type = "CONNECT"
        /\ \A p \in Incoming : p.type = "padding" \/ (p.type = "CONNACK" /\ ~p.ok)

\* What the client takes for a granted subscription.
Granted(p) == p.type = "SUBACK" /\ (p.ok \/ ~p.whole)

Unsubscribed == ~subscribed /\ \A p \in Incoming : ~Granted(p)

\* SUBSCRIBE has not been sent on this connection.
NotSubscribing == InCall /\ (task = "connect" \/ (task = "subscribe" /\ at = "send"))

\* One SUBSCRIBE at most is sent on a connection, so that its answer, once
\* given, remains true.
OneSubscription ==
    /\ NotSubscribing => Unsubscribed
    /\ \A i \in 1 .. Len(requests) :
        requests[i].type = "SUBSCRIBE" =>
            /\ ~NotSubscribing /\ Unsubscribed
            /\ \A j \in 1 .. Len(requests) : requests[j].type = "SUBSCRIBE" => j = i
    /\ alive /\ ((\E p \in Incoming : Granted(p))
                 \/ (task = "subscribe" /\ at = "ok") \/ cstate = "RUN") => subscribed

\* SUBACK has been read and its handler is about to be entered.
Answered == Granted(packet) /\ at \in {"ping", "cycled"}

\* While the client waits for SUBACK a message can only be behind it.
MessagesBehindSuback ==
    /\ NotSubscribing => \A p \in Incoming : p.type # "PUBLISH"
    /\ InCall /\ task = "subscribe" /\ at \notin {"send", "ok", "fail"} =>
        /\ packet.type # "PUBLISH"
        /\ \A i \in 1 .. Len(rx) : rx[i].type = "PUBLISH" =>
              Answered \/ \E j \in 1 .. i - 1 : Granted(rx[j])
        /\ subscribed => Answered \/ \E j \in 1 .. Len(rx) : Granted(rx[j])

\* Preserved by every step of ClientNext.
ClientInv ==
    /\ ClientTypeOK /\ CallOfState /\ HandlerCount
    /\ ~StaleData /\ ~SplitPackets => NothingBeforeSession /\ OneSubscription
    /\ ~StaleData /\ ~EarlyPublish /\ ~SplitPackets => MessagesBehindSuback

=============================================================================
