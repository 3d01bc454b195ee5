--------------------------- MODULE WifiTask_proofs ---------------------------
(***************************************************************************)
(* Proofs about WifiTask for every number of sockets, every wait and every *)
(* behaviour of the firmware that the constants allow, and the safety part *)
(* of the refinement: every step of WifiTask is a step of BlockingLink or  *)
(* leaves the link alone.                                                  *)
(***************************************************************************)
EXTENDS WifiLink, TLAPS

USE NumSocketsAssumption, MaxSessionAssumption, MaxInflightAssumption,
    WaitAssumption, PassAssumption, LengthAssumption, EnvironmentAssumption
    DEF NumSocketsAssumption, MaxSessionAssumption, MaxInflightAssumption,
    WaitAssumption, PassAssumption, LengthAssumption, EnvironmentAssumption

\* The ids that socket() hands out are never 0.
LEMMA NextSessionType ==
    ASSUME lastSession \in 0 .. MaxSession
    PROVE  NextSession \in 1 .. MaxSession
  BY DEF NextSession

\* A request record of any kind is a Request.
LEMMA RequestTypes ==
    /\ \A op \in {"time", "dns"} : PlainRequest(op) \in Requests
    /\ \A op \in {"connect", "recv", "send"}, s \in Sockets, id \in 1 .. MaxSession :
          [op |-> op, sock |-> s, id |-> id] \in Requests
    /\ Requests \subseteq Commands
    /\ NoCommand \in Commands /\ Join \in Commands
  BY DEF Requests, PlainRequest, Commands, NoCommand, Join

\* The values that the calls give the variable call.
LEMMA CallTypes ==
    /\ NoCall \in Calls /\ Resolving \in Calls
    /\ \A s \in Sockets : Connecting(s) \in Calls
    /\ \A n \in Lengths : Reading(n) \in Calls
    /\ \A n \in Lengths, status \in {0, -1} : Sending(n, status) \in Calls
  BY DEF Calls, NoCall, Resolving, Connecting, Reading, Sending

\* The lengths and sockets a call record may hold.
LEMMA CallFields ==
    ASSUME NEW c \in Calls
    PROVE  c.n \in 0 .. Word - 1 /\ c.s \in Sockets \cup {NoSock}
<1>1. c.n \in Lengths \cup {0} /\ c.s \in Sockets \cup {NoSock}
  BY DEF Calls
<1>2. \A n \in Lengths \cup {0} : n \in 0 .. Word - 1
  OBVIOUS
<1> QED
  BY <1>1, <1>2

\* The buffer position is a word. Inside the buffer it does not wrap, and a read
\* that is served from there ends there.
LEMMA Positions ==
    ASSUME NEW p \in 0 .. Word - 1, NEW n \in 0 .. Word - 1
    PROVE  /\ (p + n) % Word \in 0 .. Word - 1
           /\ p + n < Word => (p + n) % Word = p + n
           /\ p <= BufferSize /\ (BufferSize - p) % Word >= n => p + n <= BufferSize
<1>1. (p + n) % Word \in 0 .. Word - 1
  BY SMT
<1>2. p + n < Word => (p + n) % Word = p + n
  BY SMT
<1>3. p <= BufferSize => (BufferSize - p) % Word = BufferSize - p
  BY SMT
<1> QED
  BY SMT, <1>1, <1>2, <1>3

\* Every state function of wifi_task.c preserves the types.
LEMMA DriverStepType ==
    ASSUME TypeOK, tiny_state_driver
    PROVE  TypeOK'
<1> USE DEF TypeOK, WifiTypeOK, LoopTypeOK, RunState, wifi_state_update, States,
            Links, driverVars, wifiVars
<1>1. CASE wifi_state_init
  BY <1>1 DEF wifi_state_init, DriverTypeOK
<1>2. CASE wifi_state_tls_init
  BY <1>2 DEF wifi_state_tls_init, DriverTypeOK
<1>3. CASE wifi_state_connect
  BY <1>3, RequestTypes DEF wifi_state_connect, DriverTypeOK
<1>4. CASE wifi_state_wait
  BY <1>4 DEF wifi_state_wait, DriverTypeOK
<1>5. CASE wifi_state_idle
  BY <1>5 DEF wifi_state_idle, DriverTypeOK
<1>6. CASE wifi_state_error
  BY <1>6 DEF wifi_state_error, DriverTypeOK
<1> QED
  BY <1>1, <1>2, <1>3, <1>4, <1>5, <1>6 DEF tiny_state_driver

\* Every callback preserves the types.
LEMMA CallbackType ==
    ASSUME TypeOK, m2m_wifi_handle_events
    PROVE  TypeOK'
<1> USE DEF TypeOK, DriverTypeOK, WifiTypeOK, LoopTypeOK, wifi_state_update,
            States, Links, Ready, Error, Same, loopVars
<1>1. ASSUME NEW r \in inflight, wifi_socket_connect_cb(r)
      PROVE  TypeOK'
  BY <1>1, RequestTypes DEF wifi_socket_connect_cb, Callback, Answered
<1>2. ASSUME NEW r \in inflight, wifi_socket_recv_cb(r)
      PROVE  TypeOK'
  BY <1>2, RequestTypes DEF wifi_socket_recv_cb, Callback, Answered, RecvAnswered
<1>3. ASSUME NEW r \in inflight, wifi_socket_send_cb(r)
      PROVE  TypeOK'
  BY <1>3, RequestTypes DEF wifi_socket_send_cb, Callback, Answered
<1>4. ASSUME NEW r \in inflight, wifi_resolve_handler_cb(r)
      PROVE  TypeOK'
  BY <1>4, RequestTypes DEF wifi_resolve_handler_cb, Callback, Answered
<1>5. ASSUME NEW r \in inflight, wifi_app_cb_process_time(r)
      PROVE  TypeOK'
  BY <1>5, RequestTypes DEF wifi_app_cb_process_time, Callback, Answered
<1>6. CASE wifi_app_cb_process_connection
  BY <1>6 DEF wifi_app_cb_process_connection, driverVars
<1>7. CASE wifi_app_cb_process_dhcp
  BY <1>7, RequestTypes DEF wifi_app_cb_process_dhcp, Callback
<1> QED
  BY <1>1, <1>2, <1>3, <1>4, <1>5, <1>6, <1>7 DEF m2m_wifi_handle_events

\* A call of the client preserves the types when it begins.
LEMMA CallType ==
    ASSUME TypeOK, AnyClient
    PROVE  TypeOK'
<1> USE DEF TypeOK, wifi_state_update, States, Links, Error, EnterLoop, driverVars,
            wifiVars, loopVars
<1>1. CASE wifi_request_time
  <2>1. DriverTypeOK'
    BY <1>1, RequestTypes DEF wifi_request_time, DriverTypeOK, Request
  <2>2. WifiTypeOK'
    BY <1>1 DEF wifi_request_time, WifiTypeOK
  <2>3. LoopTypeOK'
    BY <1>1, RequestTypes DEF wifi_request_time, LoopTypeOK
  <2> QED
    BY <2>1, <2>2, <2>3
<1>2. CASE wifi_connect
  <2>1. DriverTypeOK'
    BY <1>2, RequestTypes DEF wifi_connect, DriverTypeOK, Request
  <2>2. WifiTypeOK'
    BY <1>2 DEF wifi_connect, WifiTypeOK
  <2>3. LoopTypeOK'
    <3>1. call' \in Calls
      BY <1>2, CallTypes DEF wifi_connect, LoopTypeOK
    <3>2. cmd' \in Commands
      BY <1>2, RequestTypes DEF wifi_connect, LoopTypeOK
    <3>3. ticks' \in {ticks, 0}
      BY <1>2 DEF wifi_connect
    <3>4. pc' \in {"driver", "events", "app"} /\ ret' \in {"none", "ok", "fail"}
      BY <1>2 DEF wifi_connect, LoopTypeOK
    <3> QED
      BY <1>2, <3>1, <3>2, <3>3, <3>4 DEF wifi_connect, LoopTypeOK
  <2> QED
    BY <2>1, <2>2, <2>3
<1>3. ASSUME NEW n \in Lengths, wifi_send_data(n)
      PROVE  TypeOK'
  <2>1. InUse(sock) => SocketRequest("send", sock) \in Requests
    BY RequestTypes DEF SocketRequest, InUse, DriverTypeOK, WifiTypeOK
  <2>2. SocketRequest("send", sock) \in Commands
    BY RequestTypes DEF SocketRequest, Commands, DriverTypeOK, WifiTypeOK
  <2>3. DriverTypeOK'
    BY <1>3, <2>1 DEF wifi_send_data, Send, DriverTypeOK, Request
  <2>4. WifiTypeOK'
    BY <1>3 DEF wifi_send_data, WifiTypeOK
  <2>5. LoopTypeOK'
    BY <1>3, <2>2, CallTypes DEF wifi_send_data, LoopTypeOK
  <2> QED
    BY <2>3, <2>4, <2>5
<1>4. ASSUME NEW n \in Lengths, NEW t \in ReadTimeouts, wifi_read_data(n, t)
      PROVE  TypeOK'
  <2>1. InUse(sock) => SocketRequest("recv", sock) \in Requests
    BY RequestTypes DEF SocketRequest, InUse, DriverTypeOK, WifiTypeOK
  <2>2. SocketRequest("recv", sock) \in Commands
    BY RequestTypes DEF SocketRequest, Commands, DriverTypeOK, WifiTypeOK
  <2>3. DriverTypeOK'
    <3>1. \A accepted \in BOOLEAN : Receive(sock, accepted) =>
             recvPending' \subseteq Sockets /\ inflight' \subseteq Requests
      BY <2>1 DEF Receive, DriverTypeOK, WifiTypeOK, Request
    <3> QED
      BY <1>4, <3>1 DEF wifi_read_data, DriverTypeOK
  <2>4. WifiTypeOK'
    <3>1. n \in 0 .. Word - 1 /\ n >= 1 /\ rxloc \in 0 .. Word - 1
          /\ BufferSize \in 0 .. Word - 1
      BY DEF WifiTypeOK
    <3>2. \/ rxloc' = rxloc /\ longRead' = longRead
          \/ rxloc' = 0 /\ longRead' = (IF n > BufferSize THEN TRUE ELSE longRead)
          \/ InBuffer(n) /\ Advance(n) /\ longRead' = longRead
      BY <1>4 DEF wifi_read_data
    <3>3. rxloc' \in 0 .. Word - 1 /\ (rxloc' <= BufferSize \/ longRead')
      <4>1. CASE InBuffer(n) /\ Advance(n) /\ longRead' = longRead
        <5>1. rxloc' = (rxloc + n) % Word /\ (BufferSize - rxloc) % Word >= n
          BY <4>1 DEF InBuffer, Advance
        <5>2. rxloc' \in 0 .. Word - 1
          BY <3>1, <5>1, Positions
        <5>3. CASE rxloc <= BufferSize
          <6>1. rxloc + n <= BufferSize /\ rxloc' = rxloc + n
            BY <3>1, <5>1, <5>3, Positions
          <6> QED
            BY <5>2, <6>1
        <5> QED
          BY <4>1, <5>2, <5>3 DEF WifiTypeOK
      <4>2. CASE rxloc' = rxloc /\ longRead' = longRead
        BY <4>2 DEF WifiTypeOK
      <4>3. CASE rxloc' = 0
        BY <3>1, <4>3
      <4> QED
        BY <3>2, <4>1, <4>2, <4>3
    <3>4. state' \in States /\ holdoff' \in {holdoff, t + 1}
      BY <1>4 DEF wifi_read_data, WifiTypeOK
    <3>5. t \in Nat
      OBVIOUS
    <3>6. holdoff' \in Nat
      BY <3>4, <3>5 DEF WifiTypeOK
    <3> QED
      BY <1>4, <3>3, <3>4, <3>6 DEF wifi_read_data, WifiTypeOK
  <2>5. LoopTypeOK'
    <3>1. call' \in Calls
      BY <1>4, CallTypes DEF wifi_read_data, LoopTypeOK
    <3>2. cmd' \in Commands
      BY <1>4, <2>2 DEF wifi_read_data, LoopTypeOK
    <3>3. ticks' \in {ticks, 0}
      BY <1>4 DEF wifi_read_data
    <3>4. pc' \in {"driver", "events", "app"} /\ ret' \in {"none", "ok", "fail"}
      BY <1>4 DEF wifi_read_data, LoopTypeOK
    <3>5. longRead' \in {longRead, TRUE}
      BY <1>4 DEF wifi_read_data
    <3>6. longRead' \in BOOLEAN
      BY <3>5 DEF LoopTypeOK
    <3> QED
      BY <1>4, <3>1, <3>2, <3>3, <3>4, <3>6 DEF wifi_read_data, LoopTypeOK
  <2> QED
    BY <2>3, <2>4, <2>5
<1> QED
  BY <1>1, <1>2, <1>3, <1>4 DEF AnyClient

\* What runs when the events of a pass are done.
AfterEvents ==
    \/ block_again \/ wifi_task_return
    \/ wifi_connect_resolved \/ wifi_connect_connected
    \/ wifi_read_data_received \/ wifi_send_data_sent

\* A call that resumes, and the main loop, preserve the types.  The buffer
\* position stays in the buffer because a read that waited starts at 0.
LEMMA ResumeType ==
    ASSUME TypeOK, SocketOwners, AfterEvents \/ main_loop
    PROVE  TypeOK'
<1> USE DEF TypeOK, wifi_state_update, States, Links, Ready, EnterLoop, Finish,
            Resume, driverVars, wifiVars
<1>1. CASE block_again \/ wifi_task_return \/ main_loop
  <2>1. DriverTypeOK' /\ WifiTypeOK'
    BY <1>1 DEF block_again, wifi_task_return, main_loop, DriverTypeOK, WifiTypeOK
  <2>2. LoopTypeOK'
    BY <1>1 DEF block_again, wifi_task_return, main_loop, LoopTypeOK
  <2> QED
    BY <2>1, <2>2
<1>2. CASE wifi_connect_resolved
  <2>1. ASSUME NEW s \in Sockets, NEW accepted \in BOOLEAN,
               OpenAndConnect(s, accepted)
        PROVE  DriverTypeOK'
    <3>1. [op |-> "connect", sock |-> s, id |-> NextSession] \in Requests
      BY NextSessionType, RequestTypes DEF DriverTypeOK
    <3> QED
      BY <2>1, <3>1, NextSessionType DEF OpenAndConnect, Request, Sockets, DriverTypeOK
  <2>2. ASSUME NEW s \in Sockets, OpenAndConnect(s, TRUE)
        PROVE  session'[s] \in 1 .. MaxSession
    BY <2>2, NextSessionType DEF OpenAndConnect, DriverTypeOK
  <2>3. DriverTypeOK'
    BY <1>2, <2>1 DEF wifi_connect_resolved, DriverTypeOK
  <2>4. WifiTypeOK'
    BY <1>2 DEF wifi_connect_resolved, WifiTypeOK
  <2>5. LoopTypeOK'
    <3>1. call' \in Calls
      BY <1>2, CallTypes DEF wifi_connect_resolved, LoopTypeOK
    <3>2. cmd' \in Commands
      BY <1>2, <2>2, RequestTypes DEF wifi_connect_resolved, LoopTypeOK
    <3>3. ticks' \in {ticks, 0}
      BY <1>2 DEF wifi_connect_resolved
    <3>4. pc' \in {"driver", "events", "app"} /\ ret' \in {"none", "ok", "fail"}
      BY <1>2 DEF wifi_connect_resolved, LoopTypeOK
    <3> QED
      BY <1>2, <3>1, <3>2, <3>3, <3>4 DEF wifi_connect_resolved, LoopTypeOK
  <2> QED
    BY <2>3, <2>4, <2>5
<1>3. CASE wifi_connect_connected
  <2>1. call.s \in Sockets
    BY <1>3 DEF wifi_connect_connected, SocketOwners
  <2>2. DriverTypeOK'
    BY <1>3, <2>1 DEF wifi_connect_connected, CloseSocket, DriverTypeOK
  <2>3. WifiTypeOK' /\ LoopTypeOK'
    BY <1>3, <2>1, CallTypes DEF wifi_connect_connected, WifiTypeOK, LoopTypeOK
  <2> QED
    BY <2>2, <2>3
<1>4. CASE wifi_read_data_received
  <2>1. call.n \in 0 .. Word - 1
    BY CallFields DEF LoopTypeOK
  <2>2. rxloc = 0 /\ (call.n <= BufferSize \/ longRead)
    BY <1>4 DEF wifi_read_data_received, SocketOwners
  <2>3. DriverTypeOK' /\ LoopTypeOK'
    BY <1>4, CallTypes DEF wifi_read_data_received, DriverTypeOK, LoopTypeOK
  <2>4. WifiTypeOK'
    <3>1. (0 + call.n) % Word = call.n
      BY <2>1, Positions
    <3>2. \/ rxloc' = rxloc
          \/ rxloc' = call.n
      BY <1>4, <2>1, <2>2, <3>1 DEF wifi_read_data_received, Advance
    <3>3. longRead' = longRead
      BY <1>4 DEF wifi_read_data_received
    <3>4. rxloc' \in 0 .. Word - 1 /\ (rxloc' <= BufferSize \/ longRead')
      BY <2>1, <2>2, <3>2, <3>3 DEF WifiTypeOK
    <3> QED
      BY <1>4, <3>4 DEF wifi_read_data_received, WifiTypeOK
  <2> QED
    BY <2>3, <2>4
<1>5. CASE wifi_send_data_sent
  <2>1. DriverTypeOK' /\ LoopTypeOK'
    BY <1>5, CallTypes DEF wifi_send_data_sent, DriverTypeOK, LoopTypeOK
  <2>2. WifiTypeOK'
    BY <1>5 DEF wifi_send_data_sent, WifiTypeOK
  <2> QED
    BY <2>1, <2>2
<1> QED
  BY <1>1, <1>2, <1>3, <1>4, <1>5 DEF AfterEvents

\* The timer interrupt and a lost answer preserve the types.
LEMMA EnvironmentType ==
    ASSUME TypeOK, Tick \/ Lose
    PROVE  TypeOK'
<1>1. CASE Tick
  BY <1>1 DEF Tick, TypeOK, DriverTypeOK, WifiTypeOK, LoopTypeOK, driverVars
<1>2. CASE Lose
  BY <1>2 DEF Lose, AnswerLost, TypeOK, DriverTypeOK, WifiTypeOK, LoopTypeOK,
              wifiVars, loopVars
<1> QED
  BY <1>1, <1>2

-----------------------------------------------------------------------------
(* Who owns the sockets *)

\* What a step must leave alone not to disturb SocketOwners.
OwnerVars == <<session, kept, sock, call, rxloc, longRead>>

\* The state functions, the callbacks, the timer and lost answers neither open
\* nor close a socket.
LEMMA OwnersUntouched ==
    ASSUME Tick \/ Lose \/ tiny_state_driver \/ m2m_wifi_handle_events
                \/ block_again \/ wifi_task_return \/ main_loop \/ wifi_request_time
    PROVE  UNCHANGED OwnerVars
<1> USE DEF OwnerVars, driverVars, wifiVars, loopVars
<1>1. CASE Tick \/ Lose
  BY <1>1 DEF Tick, Lose, AnswerLost
<1>2. CASE tiny_state_driver
  BY <1>2 DEF tiny_state_driver, wifi_state_init, wifi_state_tls_init,
              wifi_state_connect, wifi_state_wait, wifi_state_idle, wifi_state_error
<1>3. CASE m2m_wifi_handle_events
  BY <1>3 DEF m2m_wifi_handle_events, Callback, wifi_socket_connect_cb,
              wifi_socket_recv_cb, wifi_socket_send_cb, wifi_resolve_handler_cb,
              wifi_app_cb_process_time, wifi_app_cb_process_connection,
              wifi_app_cb_process_dhcp
<1>4. CASE block_again \/ wifi_task_return \/ main_loop \/ wifi_request_time
  BY <1>4 DEF block_again, wifi_task_return, main_loop, wifi_request_time
<1> QED
  BY <1>1, <1>2, <1>3, <1>4

\* The steps that can disturb SocketOwners: the calls and their resumption.
LEMMA OwnersPreserved ==
    ASSUME IInv, Next
    PROVE  SocketOwners'
<1> USE DEF IInv, SocketOwners, OpenSocketsAccounted, InUse, BlockedStates
<1>1. CASE UNCHANGED OwnerVars
  BY <1>1 DEF OwnerVars
<1>2. CASE wifi_connect
  <2>1. call.op = "none"
    BY <1>2 DEF wifi_connect
  <2>2. call' \in {call, Resolving} /\ UNCHANGED <<session, kept, sock, rxloc, longRead>>
    BY <1>2 DEF wifi_connect, driverVars, wifiVars
  <2> QED
    BY <2>1, <2>2 DEF NoCall, Resolving
<1>3. ASSUME NEW n \in Lengths, wifi_send_data(n)
      PROVE  SocketOwners'
  BY <1>3 DEF wifi_send_data, EnterLoop, Sending, NoCall, driverVars, wifiVars
<1>4. ASSUME NEW n \in Lengths, NEW t \in ReadTimeouts, wifi_read_data(n, t)
      PROVE  SocketOwners'
  <2>1. call.op = "none"
    BY <1>4 DEF wifi_read_data
  <2>2. /\ UNCHANGED <<session, kept, sock>>
        /\ \/ call' = call
           \/ /\ call' = Reading(n) /\ rxloc' = 0
              /\ n > BufferSize => longRead'
        /\ longRead => longRead'
    BY <1>4 DEF wifi_read_data, driverVars, wifiVars
  <2>3. n \in Nat /\ BufferSize \in Nat
    OBVIOUS
  <2>4. ~(n > BufferSize) => n <= BufferSize
    BY <2>3
  <2> QED
    BY <2>1, <2>2, <2>4 DEF NoCall, Reading
<1>5. CASE wifi_connect_resolved
  <2>1. call.op = "resolve" /\ UNCHANGED <<kept, sock>>
    BY <1>5 DEF wifi_connect_resolved, Resume, wifiVars
  <2>2. \/ call' = NoCall /\ UNCHANGED session
        \/ \E s \in Sockets : OpenAndConnect(s, TRUE) /\ call' = Connecting(s)
    BY <1>5 DEF wifi_connect_resolved, Finish, driverVars, OpenAndConnect
  <2>3. CASE call' = NoCall /\ UNCHANGED session
    BY <2>1, <2>3 DEF NoCall
  <2>4. ASSUME NEW s \in Sockets, OpenAndConnect(s, TRUE), call' = Connecting(s)
        PROVE  SocketOwners'
    <3>1. session[s] = 0 /\ session' = [session EXCEPT ![s] = NextSession]
      BY <2>4 DEF OpenAndConnect, NextFree
    <3>2. NextSession # 0
      BY NextSessionType DEF TypeOK, DriverTypeOK
    <3> QED
      BY <2>1, <2>4, <3>1, <3>2 DEF Connecting, TypeOK, DriverTypeOK
  <2> QED
    BY <2>2, <2>3, <2>4
<1>6. CASE wifi_connect_connected
  <2>1. call.op = "connect" /\ call.s \in Sockets \ kept /\ call' = NoCall
    BY <1>6 DEF wifi_connect_connected, Resume, Finish
  <2>2. CASE wifi_is_ready
    BY <1>6, <2>1, <2>2 DEF wifi_connect_connected, NoCall
  <2>3. CASE ~wifi_is_ready
    BY <1>6, <2>1, <2>3 DEF wifi_connect_connected, CloseSocket, NoCall, TypeOK, DriverTypeOK
  <2> QED
    BY <2>2, <2>3
<1>7. CASE wifi_read_data_received \/ wifi_send_data_sent
  BY <1>7 DEF wifi_read_data_received, wifi_send_data_sent, Resume, Finish, NoCall,
              driverVars
<1> QED
  BY <1>1, <1>2, <1>3, <1>4, <1>5, <1>6, <1>7, OwnersUntouched
     DEF Next, wifi_task, AnyClient

-----------------------------------------------------------------------------
(* What a blocked client sees *)

LEMMA BlockedPreserved ==
    ASSUME IInv, Next
    PROVE  BlockedStates'
<1> USE DEF IInv, BlockedStates, NoReconnectInCall, EnterLoop, Finish, Resume,
            wifi_is_busy, wifi_is_ready, wifi_state_update
<1>1. CASE Tick
  BY <1>1 DEF Tick, TypeOK, WifiTypeOK, LoopTypeOK
<1>2. CASE Lose
  BY <1>2 DEF Lose, wifiVars, loopVars
<1>3. CASE tiny_state_driver
  <2>1. pc = "driver" /\ pc' = "events" /\ call' = call
    BY <1>3 DEF tiny_state_driver, wifi_state_init, wifi_state_tls_init, RunState,
                wifi_state_connect, wifi_state_wait, wifi_state_idle, wifi_state_error
  <2>2. call.op # "none" => state' \in {"WAIT", "READY", "TIMEOUT", "ERROR"}
    <3>1. CASE wifi_state_error
      <4>1. call.op # "none" => holdoff > 0
        BY <2>1, <3>1 DEF wifi_state_error, RunState, TypeOK, WifiTypeOK, LoopTypeOK
      <4> QED
        BY <3>1, <4>1 DEF wifi_state_error, RunState, wifi_counter_finished
    <3>2. CASE wifi_state_wait \/ wifi_state_idle
      BY <3>2 DEF wifi_state_wait, wifi_state_idle, RunState, wifiVars
    <3>3. CASE wifi_state_init \/ wifi_state_tls_init \/ wifi_state_connect
      BY <3>3 DEF wifi_state_init, wifi_state_tls_init, wifi_state_connect, RunState
    <3> QED
      BY <1>3, <3>1, <3>2, <3>3 DEF tiny_state_driver
  <2> QED
    BY <2>1, <2>2
<1>4. CASE m2m_wifi_handle_events
  <2>1. pc = "events" /\ pc' = "events" /\ call' = call
    BY <1>4 DEF m2m_wifi_handle_events, Callback, wifi_socket_connect_cb,
                wifi_socket_recv_cb, wifi_socket_send_cb, wifi_resolve_handler_cb,
                wifi_app_cb_process_time, wifi_app_cb_process_connection,
                wifi_app_cb_process_dhcp, loopVars
  <2>2. state' \in {state, "READY", "TIMEOUT", "ERROR"}
    BY <1>4 DEF m2m_wifi_handle_events, Ready, Error, Same, wifi_socket_connect_cb,
                wifi_socket_recv_cb, wifi_socket_send_cb, wifi_resolve_handler_cb,
                wifi_app_cb_process_time, wifi_app_cb_process_connection,
                wifi_app_cb_process_dhcp
  <2> QED
    BY <2>1, <2>2
<1>5. CASE AnyClient
  <2>1. call.op = "none" /\ pc = "app"
    BY <1>5 DEF AnyClient, wifi_request_time, wifi_connect, wifi_send_data,
                wifi_read_data
  <2>2. CASE wifi_request_time
    BY <2>1, <2>2 DEF wifi_request_time, loopVars, NoCall
  <2>3. CASE wifi_connect
    <3>1. \/ call' = call /\ pc' = pc
          \/ pc' = "driver" /\ state' = "WAIT"
          \/ pc' = "driver" /\ state' = "ERROR" /\ holdoff' = ReconnectWait /\ ticks' = 0
      BY <2>3 DEF wifi_connect, Error
    <3> QED
      BY <2>1, <3>1 DEF NoCall
  <2>4. ASSUME NEW n \in Lengths, wifi_send_data(n)
        PROVE  BlockedStates'
    BY <2>1, <2>4 DEF wifi_send_data, NoCall
  <2>5. ASSUME NEW n \in Lengths, NEW t \in ReadTimeouts, wifi_read_data(n, t)
        PROVE  BlockedStates'
    <3>1. \/ call' = call /\ pc' = pc
          \/ pc' = "driver" /\ state' = "WAIT"
      BY <2>5 DEF wifi_read_data
    <3> QED
      BY <2>1, <3>1 DEF NoCall
  <2> QED
    BY <1>5, <2>2, <2>3, <2>4, <2>5 DEF AnyClient
<1>6. CASE block_again
  BY <1>6 DEF block_again, wifiVars
<1>7. CASE wifi_task_return \/ main_loop
  <2>1. call.op = "none" /\ call' = call
    BY <1>7 DEF wifi_task_return, main_loop
  <2> QED
    BY <2>1
<1>8. CASE wifi_connect_resolved
  <2>1. call' = NoCall \/ (state' = "WAIT" /\ pc' = "driver")
    BY <1>8 DEF wifi_connect_resolved
  <2> QED
    BY <2>1 DEF NoCall
<1>9. CASE wifi_connect_connected \/ wifi_read_data_received \/ wifi_send_data_sent
  BY <1>9 DEF wifi_connect_connected, wifi_read_data_received, wifi_send_data_sent,
              NoCall
<1> QED
  BY <1>1, <1>2, <1>3, <1>4, <1>5, <1>6, <1>7, <1>8, <1>9 DEF Next, wifi_task

-----------------------------------------------------------------------------
(* Prompt answers *)

LEMMA PromptPreserved ==
    ASSUME ~LateAnswers, ~DhcpRenewals, IInv, PromptStates, [Next]_vars
    PROVE  PromptStates'
<1> USE DEF PromptStates, TimeoutOnlyInCall, wifi_state_update, Ready, Error, Same,
            wifi_is_busy, wifi_is_ready, wifi_has_error, Resume, Finish
<1>1. CASE Tick \/ Lose \/ UNCHANGED vars
  BY <1>1 DEF Tick, Lose, vars, wifiVars, loopVars
<1>2. CASE tiny_state_driver
  BY <1>2 DEF tiny_state_driver, wifi_state_init, wifi_state_tls_init, RunState, Join,
              PlainRequest, wifi_state_connect, wifi_state_wait, wifi_state_idle,
              wifi_state_error, wifiVars
<1>3. ASSUME NEW r \in inflight,
             \/ wifi_socket_connect_cb(r) \/ wifi_socket_recv_cb(r)
             \/ wifi_socket_send_cb(r) \/ wifi_resolve_handler_cb(r)
             \/ wifi_app_cb_process_time(r)
      PROVE  PromptStates'
  <2>1. state = "WAIT" /\ r = cmd /\ cmd' = NoCommand /\ UNCHANGED call
    BY <1>3 DEF Expected, Callback, loopVars, wifi_socket_connect_cb,
                wifi_socket_recv_cb, wifi_socket_send_cb, wifi_resolve_handler_cb,
                wifi_app_cb_process_time
  <2>2. state' = "TIMEOUT" => r.op = "recv"
    BY <1>3, <2>1 DEF wifi_socket_connect_cb, wifi_socket_recv_cb, RecvAnswered,
                      wifi_socket_send_cb, wifi_resolve_handler_cb,
                      wifi_app_cb_process_time
  <2> QED
    BY <2>1, <2>2 DEF NoCommand, PlainRequest
<1>4. CASE wifi_app_cb_process_connection
  BY <1>4 DEF wifi_app_cb_process_connection, loopVars
<1>5. CASE wifi_app_cb_process_dhcp
  BY <1>5 DEF wifi_app_cb_process_dhcp, Expected, Callback, loopVars
<1>6. CASE block_again \/ wifi_task_return \/ main_loop
  BY <1>6 DEF block_again, wifi_task_return, main_loop, wifiVars
<1>7. CASE wifi_connect_resolved
  <2>1. CASE UNCHANGED <<state, cmd>>
    BY <1>7, <2>1 DEF wifi_connect_resolved
  <2>2. CASE state' = "WAIT" /\ cmd'.op = "connect"
    BY <2>2
  <2>3. \/ UNCHANGED <<state, cmd>>
        \/ \E s \in Sockets :
              /\ state' = "WAIT"
              /\ cmd' = [op |-> "connect", sock |-> s, id |-> session'[s]]
    BY <1>7 DEF wifi_connect_resolved, wifiVars
  <2> QED
    BY <2>1, <2>2, <2>3
<1>8. CASE wifi_connect_connected
  BY <1>8 DEF wifi_connect_connected
<1>9. CASE wifi_read_data_received \/ wifi_send_data_sent
  BY <1>9 DEF wifi_read_data_received, wifi_send_data_sent, IInv, BlockedStates,
              NoReconnectInCall
<1>10. CASE wifi_request_time \/ wifi_connect
  <2>1. CASE UNCHANGED <<state, cmd, call>>
    BY <2>1
  <2>2. CASE state' = "WAIT" /\ cmd' \in {PlainRequest("time"), PlainRequest("dns")}
    BY <2>2 DEF PlainRequest
  <2>3. CASE state' = "ERROR"
    BY <2>3
  <2> QED
    BY <1>10, <2>1, <2>2, <2>3 DEF wifi_request_time, wifi_connect, wifiVars
<1>11. ASSUME NEW n \in Lengths, wifi_send_data(n) PROVE PromptStates'
  BY <1>11 DEF wifi_send_data, SocketRequest, wifiVars
<1>12. ASSUME NEW n \in Lengths, NEW t \in ReadTimeouts, wifi_read_data(n, t)
       PROVE  PromptStates'
  <2>1. CASE UNCHANGED <<state, cmd, call>>
    BY <2>1
  <2>2. CASE state' = "WAIT" /\ call' = Reading(n)
    BY <2>2 DEF Reading
  <2> QED
    BY <1>12, <2>1, <2>2 DEF wifi_read_data, wifiVars
<1> QED
  BY <1>1, <1>2, <1>3, <1>4, <1>5, <1>6, <1>7, <1>8, <1>9, <1>10, <1>11, <1>12
     DEF Next, wifi_task, AnyClient, m2m_wifi_handle_events

-----------------------------------------------------------------------------
(* The theorems *)

LEMMA InitInvariant ==
    ASSUME Init
    PROVE  IInv
<1> USE DEF Init, DriverInit
<1>1. TypeOK
  <2>1. DriverTypeOK
    BY DEF DriverTypeOK, Sockets
  <2>2. longRead \in BOOLEAN
    OBVIOUS
  <2>3. WifiTypeOK /\ LoopTypeOK
    BY <2>2, RequestTypes, CallTypes DEF WifiTypeOK, LoopTypeOK, States, Links, Sockets
  <2> QED
    BY <2>1, <2>3 DEF TypeOK
<1>2. SocketOwners
  BY DEF SocketOwners, OpenSocketsAccounted, InUse, NoCall
<1>3. BlockedStates
  BY DEF BlockedStates, NoReconnectInCall, NoCall
<1> QED
  BY <1>1, <1>2, <1>3 DEF IInv

LEMMA StepInvariant ==
    ASSUME IInv, [Next]_vars
    PROVE  IInv'
<1>1. CASE Next
  <2>1. TypeOK'
    BY <1>1, EnvironmentType, DriverStepType, CallbackType, CallType, ResumeType
       DEF IInv, Next, wifi_task, AfterEvents
  <2>2. SocketOwners' /\ BlockedStates'
    BY <1>1, OwnersPreserved, BlockedPreserved
  <2> QED
    BY <2>1, <2>2 DEF IInv
<1>2. CASE UNCHANGED vars
  <2> USE <1>2 DEF vars, driverVars, wifiVars, loopVars
  <2>1. TypeOK'
    BY DEF IInv, TypeOK, DriverTypeOK, WifiTypeOK, LoopTypeOK
  <2>2. SocketOwners' /\ BlockedStates'
    BY DEF IInv, SocketOwners, OpenSocketsAccounted, InUse, BlockedStates,
           NoReconnectInCall
  <2> QED
    BY <2>1, <2>2 DEF IInv
<1> QED
  BY <1>1, <1>2

\* The inductive invariant holds in every reachable state.
THEOREM Invariance == Spec => []IInv
BY InitInvariant, StepInvariant, PTL DEF Spec

\* Every variable of wifi_task.c and of the driver keeps its type; in particular
\* the buffer position never leaves rxbuf.
THEOREM TypeCorrect == Spec => []TypeOK
BY Invariance, PTL DEF IInv

\* No failure of wifi_connect leaks a socket: each open one has been reported
\* to the client or is being connected.
THEOREM SocketsAccounted == Spec => []OpenSocketsAccounted
<1>1. IInv => OpenSocketsAccounted
  BY DEF IInv, SocketOwners
<1> QED
  BY <1>1, Invariance, PTL

\* Reads and sends of a connected client go to an open socket, whatever fails
\* in later calls of wifi_connect.
THEOREM SavedSocketIsOpen == Spec => []SavedSocketOpen
<1>1. IInv => SavedSocketOpen
  BY DEF IInv, SocketOwners, OpenSocketsAccounted, SavedSocketOpen, TypeOK,
         WifiTypeOK, NoSock, Sockets
<1> QED
  BY <1>1, Invariance, PTL

\* A blocked client never sees the machine reconnect under it: a call resumes in
\* READY, TIMEOUT or ERROR, because a pass is shorter than the reconnect wait.
THEOREM NoReconnect == Spec => []NoReconnectInCall
<1>1. IInv => NoReconnectInCall
  BY DEF IInv, BlockedStates
<1> QED
  BY <1>1, Invariance, PTL

\* With a firmware that answers only what the program waits for, the command that
\* was waited for is over in READY and in TIMEOUT.
THEOREM PromptInvariance ==
    ~LateAnswers /\ ~DhcpRenewals => (Spec => []PromptStates)
<1> SUFFICES ASSUME ~LateAnswers, ~DhcpRenewals PROVE Spec => []PromptStates
  OBVIOUS
<1>1. Init => PromptStates
  BY DEF Init, PromptStates, TimeoutOnlyInCall
<1>2. IInv /\ PromptStates /\ [Next]_vars => PromptStates'
  BY PromptPreserved
<1> QED
  BY <1>1, <1>2, Invariance, PTL DEF Spec

\* wifi_state_ready runs when no command is pending.
THEOREM ReadyIsIdle == ~LateAnswers /\ ~DhcpRenewals => (Spec => []ReadyMeansIdle)
<1> SUFFICES ASSUME ~LateAnswers, ~DhcpRenewals PROVE Spec => []ReadyMeansIdle
  OBVIOUS
<1>1. PromptStates => ReadyMeansIdle
  BY DEF PromptStates, ReadyMeansIdle
<1>2. Spec => []PromptStates
  BY PromptInvariance
<1> QED
  BY <1>1, <1>2, PTL

\* TIMEOUT, which has no exit of its own, is left by the read that caused it.
THEOREM TimeoutHasRead == ~LateAnswers /\ ~DhcpRenewals => (Spec => []TimeoutOnlyInCall)
<1> SUFFICES ASSUME ~LateAnswers, ~DhcpRenewals PROVE Spec => []TimeoutOnlyInCall
  OBVIOUS
<1>1. PromptStates => TimeoutOnlyInCall
  BY DEF PromptStates
<1>2. Spec => []PromptStates
  BY PromptInvariance
<1> QED
  BY <1>1, <1>2, PTL

-----------------------------------------------------------------------------
(* The blocking link *)

\* A result is there only while the client runs.
NoResultYet == pc # "app" => ret = "none"

RefInv == IInv /\ NoResultYet

\* The mapped variables, in terms of those of WifiTask.
Mapped ==
    /\ LinkStatus \in {"ready", "error", "busy"}
    /\ LinkStatus = "ready" <=> state = "READY"
    /\ LinkStatus = "error" <=> state = "ERROR"
    /\ LinkPlace \in {"client", "blocked", "loop"}
    /\ LinkPlace = "client" <=> pc = "app"
    /\ LinkPlace = "loop" <=> pc # "app" /\ call.op = "none"
    /\ Usable = kept
    /\ LinkCurrent = IF kept = {} THEN NoSock ELSE sock

\* The mapping, in this state and in the next.
LEMMA Mapping == IInv => Mapped
<1>1. /\ LinkStatus \in {"ready", "error", "busy"}
      /\ LinkStatus = "ready" <=> state = "READY"
      /\ LinkStatus = "error" <=> state = "ERROR"
  BY DEF LinkStatus
<1>2. /\ LinkPlace \in {"client", "blocked", "loop"}
      /\ LinkPlace = "client" <=> pc = "app"
      /\ LinkPlace = "loop" <=> pc # "app" /\ call.op = "none"
  <2>1. CASE pc = "app"
    BY <2>1 DEF LinkPlace
  <2>2. CASE pc # "app" /\ call.op = "none"
    BY <2>2 DEF LinkPlace
  <2>3. CASE pc # "app" /\ call.op # "none"
    BY <2>3 DEF LinkPlace
  <2> QED BY <2>1, <2>2, <2>3
<1>3. IInv => Usable = kept
  BY DEF IInv, SocketOwners, OpenSocketsAccounted, Usable, TypeOK, LoopTypeOK,
         Sockets, NoSock
<1> QED BY <1>1, <1>2, <1>3 DEF Mapped, LinkCurrent

LEMMA MappingNext == (IInv => Mapped)'
  BY Mapping, PTL

\* No result is left behind when the client stops running.
LEMMA ResultKept == NoResultYet /\ [Next]_vars => NoResultYet'
<1> SUFFICES ASSUME NoResultYet, [Next]_vars PROVE NoResultYet'
  OBVIOUS
<1> USE DEF NoResultYet, EnterLoop, Finish, vars, loopVars, driverVars, wifiVars
<1>1. CASE Tick \/ Lose \/ UNCHANGED vars
  BY <1>1 DEF Tick, Lose
<1>2. CASE tiny_state_driver
  BY <1>2 DEF tiny_state_driver, wifi_state_init, wifi_state_tls_init, RunState,
              wifi_state_connect, wifi_state_wait, wifi_state_idle, wifi_state_error
<1>3. CASE m2m_wifi_handle_events
  BY <1>3 DEF m2m_wifi_handle_events, Callback, wifi_socket_connect_cb,
              wifi_socket_recv_cb, wifi_socket_send_cb, wifi_resolve_handler_cb,
              wifi_app_cb_process_time, wifi_app_cb_process_connection,
              wifi_app_cb_process_dhcp
<1>4. CASE block_again \/ main_loop \/ wifi_task_return
  BY <1>4 DEF block_again, main_loop, wifi_task_return
<1>5. CASE wifi_connect_resolved \/ wifi_connect_connected
  BY <1>5 DEF wifi_connect_resolved, wifi_connect_connected
<1>6. CASE wifi_read_data_received \/ wifi_send_data_sent
  BY <1>6 DEF wifi_read_data_received, wifi_send_data_sent
<1>7. CASE wifi_request_time \/ wifi_connect
  BY <1>7 DEF wifi_request_time, wifi_connect
<1>8. ASSUME NEW n \in Lengths, wifi_send_data(n) PROVE NoResultYet'
  BY <1>8 DEF wifi_send_data
<1>9. ASSUME NEW n \in Lengths, NEW t \in ReadTimeouts, wifi_read_data(n, t)
      PROVE  NoResultYet'
  BY <1>9 DEF wifi_read_data
<1> QED
  BY <1>1, <1>2, <1>3, <1>4, <1>5, <1>6, <1>7, <1>8, <1>9 DEF Next, wifi_task, AnyClient

-----------------------------------------------------------------------------
(* The kinds of steps *)

\* While the client does not run the status may change.
LEMMA StatusSteps ==
    ASSUME IInv, IInv', pc # "app", pc' # "app", UNCHANGED <<ret, sock, kept>>,
           LinkOp' = LinkOp, call.op = "none" <=> call'.op = "none"
    PROVE  Link!StatusChange
<1>1. Mapped /\ Mapped'
  BY Mapping, MappingNext
<1>2. UNCHANGED <<LinkPlace, Usable, LinkCurrent>>
  BY <1>1 DEF Mapped
<1> QED BY <1>1, <1>2 DEF Mapped, Link!StatusChange, Link!Statuses

\* The state functions and the callbacks change the status at most.
LEMMA PassSteps ==
    ASSUME IInv, IInv', tiny_state_driver \/ m2m_wifi_handle_events
    PROVE  Link!StatusChange
<1>1. pc # "app" /\ pc' # "app" /\ UNCHANGED <<ret, call>>
  BY DEF tiny_state_driver, wifi_state_init, wifi_state_tls_init, RunState,
         wifi_state_connect, wifi_state_wait, wifi_state_idle, wifi_state_error,
         m2m_wifi_handle_events, Callback, wifi_socket_connect_cb,
         wifi_socket_recv_cb, wifi_socket_send_cb, wifi_resolve_handler_cb,
         wifi_app_cb_process_time, wifi_app_cb_process_connection,
         wifi_app_cb_process_dhcp, loopVars
<1>2. UNCHANGED <<sock, kept>>
  BY OwnersUntouched DEF OwnerVars
<1>3. UNCHANGED LinkOp
  BY <1>1 DEF LinkOp
<1> QED BY <1>1, <1>2, <1>3, StatusSteps

\* The beginning of a blocking call.
LEMMA BeginSteps ==
    ASSUME IInv, IInv', NEW o, pc = "app", wifi_is_ready, EnterLoop,
           state' \in {"WAIT", "ERROR"}, call'.op # "none", LinkOp' = o,
           UNCHANGED <<sock, kept>>
    PROVE  Link!Begin(o)
<1>1. Mapped /\ Mapped'
  BY Mapping, MappingNext
<1>2. LinkPlace = "client" /\ LinkStatus = "ready"
  BY <1>1 DEF Mapped, wifi_is_ready
<1>3. LinkPlace' = "blocked" /\ ret' = "none"
  BY <1>1 DEF Mapped, EnterLoop
<1>4. LinkStatus' \in {"busy", "error"}
  BY <1>1 DEF Mapped
<1>5. UNCHANGED <<Usable, LinkCurrent>>
  BY <1>1 DEF Mapped
<1> QED BY <1>2, <1>3, <1>4, <1>5 DEF Link!Begin

\* A call that the status refuses.
LEMMA RefuseSteps ==
    ASSUME IInv, IInv', pc = "app", ~wifi_is_ready, ret' = "fail",
           UNCHANGED <<state, pc, call, sock, kept>>
    PROVE  Link!Refuse
<1>1. Mapped /\ Mapped'
  BY Mapping, MappingNext
<1>2. LinkPlace = "client" /\ LinkStatus # "ready"
  BY <1>1 DEF Mapped, wifi_is_ready
<1>3. UNCHANGED <<LinkPlace, LinkStatus, LinkOp, Usable, LinkCurrent>>
  BY <1>1 DEF Mapped, LinkStatus, LinkPlace, LinkOp
<1> QED BY <1>2, <1>3 DEF Link!Refuse

\* The calls of the client, when they begin.
LEMMA ClientSteps ==
    ASSUME IInv, IInv', AnyClient
    PROVE  Link!LinkNext
<1>0. "connect" \in Link!Ops /\ "read" \in Link!Ops /\ "send" \in Link!Ops
  BY DEF Link!Ops
<1>1. CASE wifi_request_time
  <2>1. Mapped /\ Mapped'
    BY Mapping, MappingNext
  <2>2. /\ pc = "app" /\ state = "READY" /\ state' = "WAIT"
        /\ UNCHANGED <<pc, call, ret, sock, kept>>
    BY <1>1 DEF wifi_request_time, wifi_is_ready, wifi_state_update, loopVars
  <2>3. LinkPlace = "client" /\ LinkStatus = "ready" /\ LinkStatus' = "busy"
    BY <2>1, <2>2 DEF Mapped
  <2>4. UNCHANGED <<LinkPlace, LinkOp, Usable, LinkCurrent>>
    BY <2>1, <2>2 DEF Mapped, LinkPlace, LinkOp
  <2> QED BY <2>2, <2>3, <2>4 DEF Link!LinkNext, Link!RequestTime
<1>2. CASE wifi_connect
  <2>1. CASE ~wifi_is_ready
    BY <1>2, <2>1, RefuseSteps DEF wifi_connect, wifiVars, Link!LinkNext
  <2>2. CASE wifi_is_ready
    <3>1. /\ pc = "app" /\ EnterLoop /\ call' = Resolving
          /\ state' \in {"WAIT", "ERROR"} /\ UNCHANGED <<sock, kept>>
      BY <1>2, <2>2 DEF wifi_connect, wifi_state_update, Error
    <3>2. call'.op # "none" /\ LinkOp' = "connect"
      BY <3>1 DEF Resolving, LinkOp
    <3> QED BY <1>0, <2>2, <3>1, <3>2, BeginSteps DEF Link!LinkNext
  <2> QED BY <2>1, <2>2
<1>3. ASSUME NEW n \in Lengths, wifi_send_data(n) PROVE Link!LinkNext
  <2>1. CASE ~wifi_is_ready
    BY <1>3, <2>1, RefuseSteps DEF wifi_send_data, wifiVars, Link!LinkNext
  <2>2. CASE wifi_is_ready
    <3>1. /\ pc = "app" /\ EnterLoop /\ \E status \in {0, -1} : call' = Sending(n, status)
          /\ state' = "WAIT" /\ UNCHANGED <<sock, kept>>
      BY <1>3, <2>2 DEF wifi_send_data, wifi_state_update
    <3>2. call'.op # "none" /\ LinkOp' = "send"
      BY <3>1 DEF Sending, LinkOp
    <3> QED BY <1>0, <2>2, <3>1, <3>2, BeginSteps DEF Link!LinkNext
  <2> QED BY <2>1, <2>2
<1>4. ASSUME NEW n \in Lengths, NEW t \in ReadTimeouts, wifi_read_data(n, t)
      PROVE  Link!LinkNext
  <2>1. CASE ~wifi_is_ready
    BY <1>4, <2>1, RefuseSteps DEF wifi_read_data, wifiVars, Link!LinkNext
  <2>2. CASE wifi_is_ready /\ call' = Reading(n)
    <3>1. /\ pc = "app" /\ EnterLoop /\ state' = "WAIT" /\ UNCHANGED <<sock, kept>>
      <4>1. call # Reading(n)
        BY <1>4 DEF wifi_read_data, IInv, BlockedStates, Reading
      <4> QED BY <1>4, <2>2, <4>1 DEF wifi_read_data, wifi_state_update
    <3>2. call'.op # "none" /\ LinkOp' = "read"
      BY <2>2 DEF Reading, LinkOp
    <3> QED BY <1>0, <2>2, <3>1, <3>2, BeginSteps DEF Link!LinkNext
  <2>3. CASE wifi_is_ready /\ call' # Reading(n)
    <3>1. /\ pc = "app" /\ state = "READY" /\ ret' \in {"ok", "fail"}
          /\ UNCHANGED <<state, pc, call, sock, kept>>
      BY <1>4, <2>3 DEF wifi_read_data, wifi_is_ready
    <3>2. Mapped /\ Mapped'
      BY Mapping, MappingNext
    <3>3. LinkPlace = "client" /\ LinkStatus = "ready"
      BY <3>1, <3>2 DEF Mapped
    <3>4. UNCHANGED <<LinkStatus, LinkPlace, LinkOp, Usable, LinkCurrent>>
      BY <3>1, <3>2 DEF Mapped, LinkStatus, LinkPlace, LinkOp
    <3> QED BY <3>1, <3>3, <3>4 DEF Link!LinkNext, Link!ReadAtOnce
  <2> QED BY <2>1, <2>2, <2>3
<1> QED BY <1>1, <1>2, <1>3, <1>4 DEF AnyClient

\* A call that returns.
LEMMA ReturnSteps ==
    ASSUME IInv, IInv', NEW o \in Link!Ops, NEW res \in {"ok", "fail"},
           pc = "events", LinkOp = o, call.op # "none", Finish(res)
    PROVE  Link!Return(o, res)
<1>1. Mapped /\ Mapped'
  BY Mapping, MappingNext
<1>2. LinkPlace = "blocked" /\ LinkPlace' = "client"
  BY <1>1 DEF Mapped, Finish
<1>3. LinkOp' = "none"
  BY DEF Finish, LinkOp, NoCall
<1> QED BY <1>2, <1>3 DEF Finish, Link!Return

\* A call that fails: the connections stay, and after a read or a send the
\* status is never left busy.
LEMMA FailSteps ==
    ASSUME IInv, IInv', NEW o \in Link!Ops, pc = "events", LinkOp = o, call.op # "none",
           Finish("fail"), UNCHANGED <<sock, kept>>,
           IF o # "connect" /\ state \notin {"READY", "ERROR"}
           THEN state' = "READY" ELSE state' = state
    PROVE  Link!LinkNext
<1>1. Mapped /\ Mapped'
  BY Mapping, MappingNext
<1>2. Link!Return(o, "fail")
  BY ReturnSteps
<1>3. LinkStatus' = IF o # "connect" /\ LinkStatus = "busy" THEN "ready" ELSE LinkStatus
  BY <1>1 DEF Mapped
<1>4. UNCHANGED <<Usable, LinkCurrent>>
  BY <1>1 DEF Mapped
<1> QED BY <1>2, <1>3, <1>4 DEF Link!Fail, Link!CallEnds, Link!LinkNext

\* wifi_connect when the name is resolved: the socket it opens is not yet a
\* connection.
LEMMA ResolvedSteps ==
    ASSUME RefInv, IInv', wifi_connect_resolved
    PROVE  Link!LinkNext
<1>0. IInv /\ "connect" \in Link!Ops
  BY DEF RefInv, Link!Ops
<1>1. /\ pc = "events" /\ call.op = "resolve" /\ LinkOp = "connect"
      /\ UNCHANGED <<sock, kept>>
  BY DEF wifi_connect_resolved, Resume, LinkOp, wifiVars
<1>2. CASE Finish("fail") /\ UNCHANGED state
  BY <1>0, <1>1, <1>2, FailSteps
<1>3. ASSUME NEW s \in Sockets, call' = Connecting(s), EnterLoop PROVE Link!LinkNext
  <2>1. call'.op = "connect" /\ LinkOp' = "connect"
    BY <1>3 DEF Connecting, LinkOp
  <2>2. pc' # "app" /\ UNCHANGED ret
    BY <1>1, <1>3 DEF EnterLoop, RefInv, NoResultYet
  <2> QED BY <1>0, <1>1, <2>1, <2>2, StatusSteps DEF Link!LinkNext
<1> QED BY <1>2, <1>3 DEF wifi_connect_resolved, wifiVars

\* wifi_connect when the socket is connected, or is not.
LEMMA ConnectedSteps ==
    ASSUME IInv, IInv', wifi_connect_connected
    PROVE  Link!LinkNext
<1>0. "connect" \in Link!Ops
  BY DEF Link!Ops
<1>1. pc = "events" /\ call.op = "connect" /\ LinkOp = "connect" /\ UNCHANGED state
  BY DEF wifi_connect_connected, Resume, LinkOp
<1>2. CASE ~wifi_is_ready
  BY <1>0, <1>1, <1>2, FailSteps DEF wifi_connect_connected
<1>3. CASE wifi_is_ready
  <2>1. Mapped /\ Mapped'
    BY Mapping, MappingNext
  <2>2. sock' = call.s /\ kept' = kept \cup {call.s} /\ Finish("ok")
    BY <1>3 DEF wifi_connect_connected
  <2>3. Link!Return("connect", "ok")
    BY <1>0, <1>1, <2>2, ReturnSteps
  <2>4. call.s \in Sockets \ kept
    BY <1>1 DEF IInv, SocketOwners
  <2>5. LinkStatus = "ready" /\ UNCHANGED LinkStatus
    BY <1>1, <1>3, <2>1 DEF Mapped, wifi_is_ready
  <2>6. \E s \in Sockets \ Usable : Usable' = Usable \cup {s} /\ LinkCurrent' = s
    BY <2>1, <2>2, <2>4 DEF Mapped
  <2> QED BY <1>0, <2>3, <2>5, <2>6 DEF Link!Succeed, Link!CallEnds, Link!LinkNext
<1> QED BY <1>2, <1>3

\* wifi_read_data and wifi_send_data when their wait is over.
LEMMA TransferredSteps ==
    ASSUME IInv, IInv', wifi_read_data_received \/ wifi_send_data_sent
    PROVE  Link!LinkNext
<1> DEFINE o == IF wifi_read_data_received THEN "read" ELSE "send"
<1>1. /\ o \in Link!Ops /\ o # "connect"
      /\ pc = "events" /\ call.op = o /\ state # "WAIT" /\ UNCHANGED <<sock, kept>>
  BY DEF wifi_read_data_received, wifi_send_data_sent, Resume, wifi_is_busy, Link!Ops
<1>2. \/ Finish("ok") /\ state = "READY" /\ UNCHANGED state
      \/ /\ Finish("fail")
         /\ state' = IF state \in {"READY", "ERROR"} THEN state ELSE "READY"
  BY DEF wifi_read_data_received, wifi_send_data_sent, wifi_is_ready, wifi_has_error,
         Ready, wifi_state_update
<1> HIDE DEF o
<1>3. LinkOp = o /\ call.op # "none"
  BY <1>1 DEF LinkOp, Link!Ops
<1>4. CASE Finish("ok") /\ state = "READY" /\ UNCHANGED state
  <2>1. Mapped /\ Mapped'
    BY Mapping, MappingNext
  <2>2. Link!Return(o, "ok")
    BY <1>1, <1>3, <1>4, ReturnSteps
  <2>3. LinkStatus = "ready" /\ UNCHANGED <<LinkStatus, Usable, LinkCurrent>>
    BY <1>1, <1>4, <2>1 DEF Mapped
  <2> QED BY <1>1, <2>2, <2>3 DEF Link!Succeed, Link!CallEnds, Link!LinkNext
<1>5. CASE /\ Finish("fail")
           /\ state' = IF state \in {"READY", "ERROR"} THEN state ELSE "READY"
  BY <1>1, <1>3, <1>5, FailSteps
<1> QED BY <1>2, <1>4, <1>5

\* The main loop: the client gets its turn and gives it back.
LEMMA LoopSteps ==
    ASSUME RefInv, IInv', block_again \/ wifi_task_return \/ main_loop
    PROVE  Link!LinkNext
<1>1. IInv /\ Mapped /\ Mapped'
  BY Mapping, MappingNext DEF RefInv
<1>2. UNCHANGED <<state, call, sock, kept>>
  BY DEF block_again, wifi_task_return, main_loop, wifiVars
<1>3. UNCHANGED <<LinkStatus, LinkOp, Usable, LinkCurrent>>
  BY <1>1, <1>2 DEF Mapped, LinkStatus, LinkOp
<1>4. CASE block_again
  <2>1. pc # "app" /\ pc' # "app" /\ UNCHANGED ret
    BY <1>4 DEF block_again, EnterLoop, RefInv, NoResultYet
  <2> QED BY <1>1, <1>2, <1>3, <2>1, StatusSteps DEF Link!LinkNext
<1>5. CASE wifi_task_return
  <2>1. LinkPlace = "loop" /\ LinkPlace' = "client" /\ UNCHANGED ret
    BY <1>1, <1>5 DEF wifi_task_return, Mapped
  <2> QED BY <1>3, <2>1 DEF Link!ToClient, Link!LinkNext
<1>6. CASE main_loop
  <2>1. pc = "app" /\ pc' # "app" /\ call.op = "none" /\ ret' = "none"
    BY <1>1, <1>6 DEF main_loop, EnterLoop, IInv, BlockedStates
  <2>2. LinkPlace = "client" /\ LinkPlace' = "loop"
    BY <1>1, <1>2, <2>1 DEF Mapped
  <2> QED BY <1>3, <2>1, <2>2 DEF Link!ToLoop, Link!LinkNext
<1> QED BY <1>4, <1>5, <1>6

\* The timer interrupt, a lost answer and a stuttering step do not touch the link.
LEMMA UnseenSteps ==
    ASSUME Tick \/ Lose \/ UNCHANGED vars
    PROVE  UNCHANGED Link!linkVars
<1>1. UNCHANGED <<state, pc, call, ret, session, sock>>
  BY DEF Tick, Lose, AnswerLost, vars, driverVars, wifiVars, loopVars
<1>2. UNCHANGED Usable
  BY <1>1 DEF Usable, InUse
<1> QED BY <1>1, <1>2 DEF Link!linkVars, LinkStatus, LinkPlace, LinkOp, LinkCurrent

-----------------------------------------------------------------------------
(* The theorems *)

\* Initial states map to initial states, and steps to steps or stutters.
LEMMA InitRefines == Init => RefInv /\ Link!LinkInit
<1> SUFFICES ASSUME Init PROVE RefInv /\ Link!LinkInit
  OBVIOUS
<1>1. RefInv
  BY InitInvariant DEF RefInv, NoResultYet, Init
<1>2. Usable = {}
  BY DEF Usable, InUse, Init, DriverInit
<1>3. /\ LinkStatus = "busy" /\ LinkPlace = "loop" /\ LinkOp = "none"
      /\ ret = "none" /\ LinkCurrent = NoSock
  BY <1>2 DEF Init, NoCall, LinkStatus, LinkPlace, LinkOp, LinkCurrent
<1> QED BY <1>1, <1>2, <1>3 DEF Link!LinkInit

LEMMA StepRefines ==
    RefInv /\ [Next]_vars => RefInv' /\ [Link!LinkNext]_(Link!linkVars)
<1> SUFFICES ASSUME RefInv, [Next]_vars PROVE RefInv' /\ [Link!LinkNext]_(Link!linkVars)
  OBVIOUS
<1>1. IInv /\ IInv' /\ RefInv'
  BY StepInvariant, ResultKept DEF RefInv
<1>2. CASE tiny_state_driver \/ m2m_wifi_handle_events
  BY <1>1, <1>2, PassSteps DEF Link!LinkNext
<1>3. CASE AnyClient
  BY <1>1, <1>3, ClientSteps
<1>4. CASE wifi_connect_resolved
  BY <1>1, <1>4, ResolvedSteps
<1>5. CASE wifi_connect_connected
  BY <1>1, <1>5, ConnectedSteps
<1>6. CASE wifi_read_data_received \/ wifi_send_data_sent
  BY <1>1, <1>6, TransferredSteps
<1>7. CASE block_again \/ wifi_task_return \/ main_loop
  BY <1>1, <1>7, LoopSteps
<1>8. CASE Tick \/ Lose \/ UNCHANGED vars
  BY <1>1, <1>8, UnseenSteps
<1> QED
  BY <1>1, <1>2, <1>3, <1>4, <1>5, <1>6, <1>7, <1>8 DEF Next, wifi_task

\* wifi_task.c with its driver implements the blocking link on which the client is
\* modelled, as far as safety goes: every behaviour of the one, mapped, is a
\* behaviour of the other.
THEOREM RefinesLink == Spec => Link!LinkInit /\ [][Link!LinkNext]_(Link!linkVars)
BY InitRefines, StepRefines, PTL DEF Spec

=============================================================================
