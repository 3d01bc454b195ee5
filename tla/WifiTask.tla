------------------------------ MODULE WifiTask ------------------------------
(***************************************************************************)
(* The WIFI state machine of src/wifi_task.c with the blocking calls the   *)
(* client makes on it, driven by the main loop of src/main.c.              *)
(*                                                                         *)
(* Three activities interleave: the main loop (wifi_task, then the client, *)
(* which may enter a blocking call that runs wifi_task until the state is  *)
(* no longer WAIT), the 100 ms timer interrupt, and the WINC1500, whose    *)
(* answers reach the program inside m2m_wifi_handle_events only.  pc is    *)
(* the place of the main loop:                                             *)
(*    "driver"   about to run tiny_state_driver                            *)
(*    "events"   inside m2m_wifi_handle_events                             *)
(*    "app"      wifi_task has returned and the client runs                *)
(* Times are counted in ticks of WIFI_UPDATE_PERIOD.                       *)
(***************************************************************************)
EXTENDS WincDriver

CONSTANTS
    GetTimeWait,    \* WIFI_COUNTER_GET_TIME_WAIT in ticks (100)
    ConnectWait,    \* WIFI_COUNTER_CONNECT_WAIT in ticks (100)
    ReconnectWait,  \* WIFI_COUNTER_RECONNECT_WAIT in ticks (300)
    ReadTimeouts,   \* receive timeouts the client passes, in ticks
    TicksPerPass,   \* timer interrupts during one pass of wifi_task
    BufferSize,     \* WIFI_BUFFER_SIZE (1500)
    Word,           \* 2^32, the width of the buffer position
    Lengths,        \* lengths the client reads and sends
    LateAnswers,    \* the firmware may answer a request nobody waits for
    DhcpRenewals    \* the address may be configured again while joined

ASSUME WaitAssumption ==
    /\ GetTimeWait \in Nat \ {0}
    /\ ConnectWait \in Nat \ {0}
    /\ ReconnectWait \in Nat \ {0}
    /\ ReadTimeouts \subseteq Nat

\* A pass of wifi_task takes less than the 30 s of the reconnect wait.
ASSUME PassAssumption == TicksPerPass \in Nat /\ TicksPerPass < ReconnectWait

\* A read may ask for more than the buffer holds: nothing compares the length
\* of a packet with a buffer.
ASSUME LengthAssumption ==
    /\ BufferSize \in Nat /\ Word \in Nat /\ BufferSize < Word
    /\ Lengths \subseteq 1 .. Word - 1

ASSUME EnvironmentAssumption ==
    LateAnswers \in BOOLEAN /\ DhcpRenewals \in BOOLEAN

VARIABLES
    state,    \* g_wifi_context.state.state
    holdoff,  \* g_wifi_context.holdoff
    host,     \* g_wifi_context.host, 0 or an address
    sock,     \* g_wifi_context.sock
    rxloc,    \* g_wifi_context.rxloc
    txlen,    \* g_wifi_context.txlen
    utc,      \* time_utils_get_utc(), 0 until the clock is set
    link,     \* the firmware's association with the access point
    pc,       \* place of the main loop
    ticks,    \* timer interrupts in this pass
    call,     \* the blocking call in progress and its local variables
    ret,      \* what the last call of this pass returned
    cmd,      \* history: the command WAIT was entered for, until answered
    kept,     \* history: the sockets wifi_connect has returned success with
    longRead  \* history: a read has asked for more than the buffer holds

wifiVars == <<state, holdoff, host, sock, rxloc, txlen, utc>>
loopVars == <<pc, ticks, call, ret>>
vars == <<driverVars, wifiVars, link, loopVars, cmd, kept, longRead>>

-----------------------------------------------------------------------------
(* Types *)

States == {"INIT", "TLS_INIT", "CONNECT", "WAIT", "READY", "TIMEOUT", "ERROR"}
Address == 1   \* some IP address
Set     == 1   \* some time
Links  == {"down", "joining", "joined", "up"}

\* s: new_socket of wifi_connect; n: send_length or read_length;
\* status: what send() returned, 0 (SOCK_ERR_NO_ERROR) or an error.
NoCall          == [op |-> "none", s |-> NoSock, n |-> 0, status |-> 0]
Resolving       == [op |-> "resolve", s |-> NoSock, n |-> 0, status |-> 0]
Connecting(s)   == [op |-> "connect", s |-> s, n |-> 0, status |-> 0]
Reading(n)      == [op |-> "read", s |-> NoSock, n |-> n, status |-> 0]
Sending(n, sts) == [op |-> "send", s |-> NoSock, n |-> n, status |-> sts]
Calls ==
    [op : {"none", "resolve", "connect", "read", "send"},
     s : Sockets \cup {NoSock}, n : Lengths \cup {0}, status : {0, -1}]

NoCommand == PlainRequest("none")
Join      == PlainRequest("join")
Commands  == Requests \cup {NoCommand, Join}
        \cup [op : {"recv", "send"}, sock : Sockets, id : {0}]

WifiTypeOK ==
    /\ state \in States
    /\ holdoff \in Nat
    /\ host \in {0, Address}
    /\ sock \in Sockets
    /\ rxloc \in 0 .. Word - 1
    /\ rxloc <= BufferSize \/ longRead
    /\ txlen \in Lengths \cup {0}
    /\ utc \in {0, Set}
    /\ link \in Links

LoopTypeOK ==
    /\ pc \in {"driver", "events", "app"}
    /\ ticks \in 0 .. TicksPerPass
    /\ call \in Calls
    /\ ret \in {"none", "ok", "fail"}
    /\ cmd \in Commands
    /\ kept \subseteq Sockets
    /\ longRead \in BOOLEAN

TypeOK == DriverTypeOK /\ WifiTypeOK /\ LoopTypeOK

\* The context is a zeroed static: state INIT, socket 0, buffer position 0.
Init ==
    /\ DriverInit
    /\ state = "INIT" /\ holdoff = 0 /\ host = 0 /\ sock = 0
    /\ rxloc = 0 /\ txlen = 0 /\ utc = 0
    /\ link = "down"
    /\ pc = "driver" /\ ticks = 0 /\ call = NoCall /\ ret = "none"
    /\ cmd = NoCommand /\ kept = {} /\ longRead = FALSE

-----------------------------------------------------------------------------
(* Helpers of wifi_task.c *)

wifi_counter_finished == holdoff = 0
wifi_is_ready  == state = "READY"
wifi_is_busy   == state = "WAIT"
wifi_has_error == state = "ERROR"

wifi_state_update(next, wait) == state' = next /\ holdoff' = wait

\* Mutant: the decrement is not guarded.
TickUnguarded ==
    /\ ticks < TicksPerPass
    /\ ticks' = ticks + 1
    /\ holdoff' = holdoff - 1
    /\ UNCHANGED <<driverVars, state, host, sock, rxloc, txlen, utc, link, pc,
                   call, ret, cmd, kept, longRead>>

\* wifi_timer_update, called by the timer interrupt at any point of the loop.
Tick ==
    /\ ticks < TicksPerPass
    /\ ticks' = ticks + 1
    /\ holdoff' = IF holdoff > 0 THEN holdoff - 1 ELSE 0
    /\ UNCHANGED <<driverVars, state, host, sock, rxloc, txlen, utc, link, pc,
                   call, ret, cmd, kept, longRead>>

-----------------------------------------------------------------------------
(* One step of tiny_state_driver: the function of the current state *)

RunState(s) == pc = "driver" /\ state = s /\ pc' = "events"

\* m2m_wifi_init may fail, which is retried after a wait, and so may the
\* reading of the firmware version, which is retried at once.
wifi_state_init ==
    /\ RunState("INIT")
    /\ \/ UNCHANGED <<state, holdoff>>
       \/ wifi_counter_finished /\ state' = state /\ holdoff' = ConnectWait
       \/ wifi_counter_finished /\ wifi_state_update("TLS_INIT", 0)
    /\ UNCHANGED <<driverVars, host, sock, rxloc, txlen, utc, link, ticks,
                   call, ret, cmd, kept, longRead>>

wifi_state_tls_init ==
    /\ RunState("TLS_INIT")
    /\ \/ UNCHANGED <<state, holdoff>>
       \/ wifi_state_update("CONNECT", 0)
    /\ UNCHANGED <<driverVars, host, sock, rxloc, txlen, utc, link, ticks,
                   call, ret, cmd, kept, longRead>>

\* The credentials cannot be read or m2m_wifi_connect fails, or the firmware
\* starts to join the access point.
wifi_state_connect ==
    /\ RunState("CONNECT")
    /\ \/ /\ wifi_state_update("WAIT", ConnectWait)
          /\ link' = "joining"
          /\ cmd' = Join
       \/ /\ wifi_state_update("ERROR", ReconnectWait)
          /\ UNCHANGED <<link, cmd>>
    /\ UNCHANGED <<driverVars, host, sock, rxloc, txlen, utc, ticks, call,
                   ret, kept, longRead>>

\* Mutants: the wait never runs out, or its end counts as success.
wifi_state_wait_forever ==
    /\ RunState("WAIT")
    /\ UNCHANGED <<driverVars, wifiVars, link, ticks, call, ret, cmd, kept, longRead>>

wifi_state_wait_optimistic ==
    /\ RunState("WAIT")
    /\ IF wifi_counter_finished THEN wifi_state_update("READY", 0)
                                ELSE UNCHANGED <<state, holdoff>>
    /\ UNCHANGED <<driverVars, host, sock, rxloc, txlen, utc, link, ticks,
                   call, ret, cmd, kept, longRead>>

wifi_state_wait ==
    /\ RunState("WAIT")
    /\ IF wifi_counter_finished THEN wifi_state_update("ERROR", ReconnectWait)
                                ELSE UNCHANGED <<state, holdoff>>
    /\ UNCHANGED <<driverVars, host, sock, rxloc, txlen, utc, link, ticks,
                   call, ret, cmd, kept, longRead>>

\* wifi_state_ready and wifi_state_timeout do nothing.
wifi_state_idle ==
    /\ RunState("READY") \/ RunState("TIMEOUT")
    /\ UNCHANGED <<driverVars, wifiVars, link, ticks, call, ret, cmd, kept, longRead>>

\* Mutant: every pass in ERROR starts the reconnect wait again.
wifi_state_error_restarted ==
    /\ RunState("ERROR")
    /\ IF wifi_counter_finished THEN wifi_state_update("CONNECT", 0)
                                ELSE wifi_state_update("ERROR", ReconnectWait)
    /\ UNCHANGED <<driverVars, host, sock, rxloc, txlen, utc, link, ticks,
                   call, ret, cmd, kept, longRead>>

wifi_state_error ==
    /\ RunState("ERROR")
    /\ IF wifi_counter_finished THEN wifi_state_update("CONNECT", 0)
                                ELSE UNCHANGED <<state, holdoff>>
    /\ UNCHANGED <<driverVars, host, sock, rxloc, txlen, utc, link, ticks,
                   call, ret, cmd, kept, longRead>>

tiny_state_driver ==
    \/ wifi_state_init \/ wifi_state_tls_init \/ wifi_state_connect
    \/ wifi_state_wait \/ wifi_state_idle \/ wifi_state_error

-----------------------------------------------------------------------------
(* Callbacks, dispatched by m2m_wifi_handle_events *)

\* With LateAnswers = FALSE the firmware answers only the command that the
\* program is waiting for.
Expected(r) == LateAnswers \/ (wifi_is_busy /\ r = cmd)

Callback(r) ==
    /\ pc = "events"
    /\ cmd' = IF r = cmd THEN NoCommand ELSE cmd
    /\ UNCHANGED <<session, nextSock, lastSession, sock, rxloc, txlen, loopVars,
                   kept, longRead>>

Ready == wifi_state_update("READY", 0)
Error == wifi_state_update("ERROR", ReconnectWait)
Same  == UNCHANGED <<state, holdoff>>

\* SOCKET_MSG_CONNECT: neither the driver nor the handler looks at which socket
\* the answer is for.
wifi_socket_connect_cb(r) ==
    /\ r.op = "connect" /\ Expected(r) /\ Answered(r) /\ Callback(r)
    /\ Ready \/ Error
    /\ UNCHANGED <<recvPending, host, utc, link>>

\* SOCKET_MSG_RECV: data, a timeout or another error.  When the peer closes
\* (status 0) the driver leaves u16RemainingSize unset, and the handler, which
\* tests it, becomes READY or does nothing.
wifi_socket_recv_cb(r) ==
    /\ RecvAnswered(r) /\ Expected(r) /\ Callback(r)
    /\ IF CurrentSession(r)
       THEN Ready \/ Same \/ Error \/ wifi_state_update("TIMEOUT", 0)
       ELSE Same
    /\ UNCHANGED <<host, utc, link>>

\* SOCKET_MSG_SEND with the number of bytes sent, which the firmware is known
\* to report too high. A partial send leaves the state alone.
wifi_socket_send_cb(r) ==
    /\ r.op = "send" /\ Expected(r) /\ Answered(r) /\ Callback(r)
    /\ \E bytes_sent \in 0 .. Word - 1 :
          IF ~CurrentSession(r) THEN Same
          ELSE IF bytes_sent = 0 \/ bytes_sent > txlen THEN Error
          ELSE IF bytes_sent = txlen THEN Ready
          ELSE Same
    /\ UNCHANGED <<recvPending, host, utc, link>>

wifi_resolve_handler_cb(r) ==
    /\ r.op = "dns" /\ Expected(r) /\ Answered(r) /\ Callback(r)
    /\ \/ host' = Address /\ Ready
       \/ host' = host /\ Error
    /\ UNCHANGED <<recvPending, utc, link>>

\* The clock is set once, and not from an answer without a date.
wifi_app_cb_process_time(r) ==
    /\ r.op = "time" /\ Expected(r) /\ Answered(r) /\ Callback(r)
    /\ utc' \in {utc, Set}
    /\ Ready
    /\ UNCHANGED <<recvPending, host, link>>

wifi_app_cb_process_connection ==
    /\ \/ /\ link = "joining" /\ link' = "joined"
          /\ Same
       \/ /\ link # "down" /\ link' = "down"
          /\ Error
    /\ pc = "events"
    /\ UNCHANGED <<driverVars, host, sock, rxloc, txlen, utc, loopVars, cmd, kept, longRead>>

\* The first address after the association ends the join; later ones are
\* renewals.
wifi_app_cb_process_dhcp ==
    /\ \/ link = "joined" /\ Expected(Join)
       \/ link = "up" /\ DhcpRenewals
    /\ link' = "up"
    /\ Callback(Join)
    /\ Ready
    /\ UNCHANGED <<recvPending, inflight, host, utc>>

m2m_wifi_handle_events ==
    \/ \E r \in inflight :
          \/ wifi_socket_connect_cb(r) \/ wifi_socket_recv_cb(r)
          \/ wifi_socket_send_cb(r) \/ wifi_resolve_handler_cb(r)
          \/ wifi_app_cb_process_time(r)
    \/ wifi_app_cb_process_connection
    \/ wifi_app_cb_process_dhcp

\* The firmware never answers a request it has accepted.
Lose ==
    /\ AnswerLost
    /\ UNCHANGED <<wifiVars, link, loopVars, cmd, kept, longRead>>

-----------------------------------------------------------------------------
(* Blocking calls: the client calls, and the call resumes when the events of *)
(* a pass of wifi_task are done and the state is no longer WAIT.             *)

EnterLoop == pc' = "driver" /\ ticks' = 0 /\ ret' = "none"

Finish(result) ==
    /\ pc' = "app" /\ call' = NoCall /\ ret' = result
    /\ UNCHANGED ticks

\* Mutant: the loop waits for READY instead of the end of WAIT.
block_until_ready ==
    /\ pc = "events" /\ call.op # "none" /\ ~wifi_is_ready
    /\ EnterLoop
    /\ UNCHANGED <<driverVars, wifiVars, link, call, cmd, kept, longRead>>

\* do { wifi_task(); } while (wifi_is_busy());
block_again ==
    /\ pc = "events" /\ call.op # "none" /\ wifi_is_busy
    /\ EnterLoop
    /\ UNCHANGED <<driverVars, wifiVars, link, call, cmd, kept, longRead>>

Resume(op) == pc = "events" /\ call.op = op /\ ~wifi_is_busy

\* wifi_connect: resolve the name, create and connect a socket, keep it.
wifi_connect ==
    /\ pc = "app"
    /\ \/ /\ ~wifi_is_ready
          /\ ret' = "fail"
          /\ UNCHANGED <<driverVars, wifiVars, pc, ticks, call, cmd>>
       \/ /\ wifi_is_ready
          /\ host' = 0
          /\ call' = Resolving
          /\ EnterLoop
          /\ \/ /\ Request(PlainRequest("dns"), TRUE)
                /\ wifi_state_update("WAIT", GetTimeWait)
                /\ cmd' = PlainRequest("dns")
             \/ /\ Request(PlainRequest("dns"), FALSE)
                /\ Error
                /\ UNCHANGED cmd
          /\ UNCHANGED <<session, nextSock, lastSession, recvPending, sock,
                         rxloc, txlen, utc>>
    /\ UNCHANGED <<link, kept, longRead>>

wifi_connect_resolved ==
    /\ Resume("resolve")
    /\ \/ /\ ~wifi_is_ready \/ NoFreeSocket
          /\ Finish("fail")
          /\ UNCHANGED <<driverVars, wifiVars, cmd>>
       \/ /\ wifi_is_ready
          /\ \E new_socket \in Sockets :
                \/ /\ OpenAndConnect(new_socket, FALSE)
                   /\ Finish("fail")
                   /\ UNCHANGED <<wifiVars, cmd>>
                \/ /\ OpenAndConnect(new_socket, TRUE)
                   /\ wifi_state_update("WAIT", ConnectWait)
                   /\ call' = Connecting(new_socket)
                   /\ EnterLoop
                   /\ cmd' = [op |-> "connect", sock |-> new_socket,
                              id |-> session'[new_socket]]
                   /\ UNCHANGED <<host, sock, rxloc, txlen, utc>>
    /\ UNCHANGED <<link, kept, longRead>>

\* Mutants: a failed connection is not closed, or the saved socket is closed in
\* place of the new one.
connect_failure_leaks ==
    /\ Resume("connect")
    /\ Finish(IF wifi_is_ready THEN "ok" ELSE "fail")
    /\ sock' = IF wifi_is_ready THEN call.s ELSE sock
    /\ kept' = IF wifi_is_ready THEN kept \cup {call.s} ELSE kept
    /\ UNCHANGED <<driverVars, state, holdoff, host, rxloc, txlen, utc, link, cmd,
                   longRead>>

connect_failure_closes_saved ==
    /\ Resume("connect")
    /\ \/ ~wifi_is_ready /\ CloseSocket(sock) /\ Finish("fail") /\ UNCHANGED <<sock, kept, longRead>>
       \/ /\ wifi_is_ready /\ Finish("ok")
          /\ sock' = call.s /\ kept' = kept \cup {call.s}
          /\ UNCHANGED <<session, recvPending>>
    /\ UNCHANGED <<nextSock, lastSession, inflight, state, holdoff, host, rxloc,
                   txlen, utc, link, cmd, longRead>>

wifi_connect_connected ==
    /\ Resume("connect")
    /\ \/ /\ ~wifi_is_ready
          /\ CloseSocket(call.s)
          /\ Finish("fail")
          /\ UNCHANGED <<sock, kept, longRead>>
       \/ /\ wifi_is_ready
          /\ sock' = call.s
          /\ kept' = kept \cup {call.s}
          /\ Finish("ok")
          /\ UNCHANGED <<session, recvPending>>
    /\ UNCHANGED <<nextSock, lastSession, inflight, state, holdoff, host, rxloc,
                   txlen, utc, link, cmd, longRead>>

\* The difference is unsigned: behind the end of the buffer it wraps, and the
\* bytes are taken from beyond the buffer.
InBuffer(n) == (BufferSize - rxloc) % Word >= n
Advance(n) == rxloc' = (rxloc + n) % Word

\* The read is served from the buffer whenever read_length more bytes fit
\* before its end; otherwise the buffer is refilled by one receive.
wifi_read_data(n, timeout) ==
    /\ pc = "app"
    /\ \/ /\ ~wifi_is_ready
          /\ ret' = "fail"
          /\ UNCHANGED <<driverVars, wifiVars, pc, ticks, call, cmd, longRead>>
       \/ /\ wifi_is_ready /\ InBuffer(n)
          /\ Advance(n)
          /\ ret' = "ok"
          /\ UNCHANGED <<driverVars, state, holdoff, host, sock, txlen, utc, pc,
                         ticks, call, cmd, longRead>>
       \/ /\ wifi_is_ready /\ ~InBuffer(n)
          /\ rxloc' = 0
          /\ longRead' = IF n > BufferSize THEN TRUE ELSE longRead
          /\ \/ /\ Receive(sock, FALSE)
                /\ ret' = "fail"
                /\ UNCHANGED <<state, holdoff, pc, ticks, call, cmd>>
             \/ /\ Receive(sock, TRUE)
                /\ wifi_state_update("WAIT", timeout + 1)
                /\ call' = Reading(n)
                /\ cmd' = SocketRequest("recv", sock)
                /\ EnterLoop
          /\ UNCHANGED <<session, nextSock, lastSession, host, sock, txlen, utc>>
    /\ UNCHANGED <<link, kept>>

\* Mutant: a timeout is left for the next call to clear.
read_leaves_timeout ==
    /\ Resume("read")
    /\ Finish(IF wifi_is_ready THEN "ok" ELSE "fail")
    /\ IF wifi_is_ready THEN Advance(call.n) ELSE UNCHANGED rxloc
    /\ UNCHANGED <<driverVars, state, holdoff, host, sock, txlen, utc, link, cmd, kept, longRead>>

wifi_read_data_received ==
    /\ Resume("read")
    /\ \/ /\ wifi_has_error
          /\ Finish("fail")
          /\ UNCHANGED <<state, holdoff, rxloc>>
       \/ /\ ~wifi_is_ready /\ ~wifi_has_error
          /\ Ready
          /\ Finish("fail")
          /\ UNCHANGED rxloc
       \/ /\ wifi_is_ready
          /\ Advance(call.n)
          /\ Finish("ok")
          /\ UNCHANGED <<state, holdoff>>
    /\ UNCHANGED <<driverVars, host, sock, txlen, utc, link, cmd, kept, longRead>>

\* The wait is entered whether or not the firmware took the request.
wifi_send_data(n) ==
    /\ pc = "app"
    /\ \/ /\ ~wifi_is_ready
          /\ ret' = "fail"
          /\ UNCHANGED <<driverVars, wifiVars, pc, ticks, call, cmd>>
       \/ /\ wifi_is_ready
          /\ \E status \in {0, -1} :
                /\ Send(sock, status = 0)
                /\ call' = Sending(n, status)
          /\ txlen' = n
          /\ wifi_state_update("WAIT", GetTimeWait)
          /\ cmd' = SocketRequest("send", sock)
          /\ EnterLoop
          /\ UNCHANGED <<session, nextSock, lastSession, recvPending, host, sock,
                         rxloc, utc>>
    /\ UNCHANGED <<link, kept, longRead>>

wifi_send_data_sent ==
    /\ Resume("send")
    /\ \/ /\ wifi_has_error
          /\ Finish("fail")
          /\ UNCHANGED <<state, holdoff>>
       \/ /\ ~wifi_is_ready /\ ~wifi_has_error
          /\ Ready
          /\ Finish("fail")
       \/ /\ wifi_is_ready
          /\ Finish(IF call.status = 0 THEN "ok" ELSE "fail")
          /\ UNCHANGED <<state, holdoff>>
    /\ UNCHANGED <<driverVars, host, sock, rxloc, txlen, utc, link, cmd, kept, longRead>>

\* wifi_request_time does not block: the state is WAIT when it returns.
wifi_request_time ==
    /\ pc = "app"
    /\ wifi_is_ready
    /\ \E accepted \in BOOLEAN : Request(PlainRequest("time"), accepted)
    /\ wifi_state_update("WAIT", GetTimeWait)
    /\ cmd' = PlainRequest("time")
    /\ UNCHANGED <<session, nextSock, lastSession, recvPending, host, sock,
                   rxloc, txlen, utc, link, loopVars, kept, longRead>>

-----------------------------------------------------------------------------
(* The main loop *)

\* wifi_task returns to main.
wifi_task_return ==
    /\ pc = "events" /\ call.op = "none"
    /\ pc' = "app"
    /\ UNCHANGED <<driverVars, wifiVars, link, ticks, call, ret, cmd, kept, longRead>>

\* The rest of the loop is over, or the kit lock kept the client out of it.
main_loop ==
    /\ pc = "app"
    /\ EnterLoop
    /\ UNCHANGED <<driverVars, wifiVars, link, call, cmd, kept, longRead>>

\* What runs without the client.
wifi_task ==
    \/ tiny_state_driver
    \/ m2m_wifi_handle_events
    \/ block_again
    \/ wifi_connect_resolved \/ wifi_connect_connected
    \/ wifi_read_data_received \/ wifi_send_data_sent
    \/ wifi_task_return

\* Any client: calls in any order.
AnyClient ==
    \/ wifi_request_time
    \/ wifi_connect
    \/ \E n \in Lengths : wifi_send_data(n)
    \/ \E n \in Lengths, t \in ReadTimeouts : wifi_read_data(n, t)

Next == Tick \/ Lose \/ wifi_task \/ AnyClient \/ main_loop

\* The processor runs the loop and the timer; the firmware owes nothing.
LoopStep ==
    \/ tiny_state_driver \/ block_again
    \/ wifi_connect_resolved \/ wifi_connect_connected
    \/ wifi_read_data_received \/ wifi_send_data_sent
    \/ wifi_task_return

Fairness == WF_vars(LoopStep) /\ WF_vars(main_loop) /\ WF_vars(Tick)

Spec == Init /\ [][Next]_vars /\ Fairness

-----------------------------------------------------------------------------
(* Properties *)

\* Every open socket has an owner: wifi_connect has returned success with it,
\* or is connecting it now.  No failure path of wifi_connect leaves a socket
\* behind, and none closes a socket the client is using.
OpenSocketsAccounted ==
    {s \in Sockets : InUse(s)} =
        kept \cup (IF call.op = "connect" THEN {call.s} ELSE {})

\* The saved socket never changes under the client's feet: once a connection
\* has succeeded, reads and sends go to an open socket, and one that a
\* wifi_connect still in progress does not use.
SavedSocketOpen ==
    kept # {} => sock \in kept /\ InUse(sock) /\ call.s # sock

\* While the client is blocked the machine never starts to reconnect: the call
\* resumes in READY, TIMEOUT or ERROR, so "not ready and no error" can only
\* mean a receive timeout.
NoReconnectInCall ==
    call.op # "none" => state \in {"WAIT", "READY", "TIMEOUT", "ERROR"}

\* READY runs "when no commands are pending" (comment of wifi_state_ready).
ReadyMeansIdle == pc = "driver" /\ state = "READY" => cmd = NoCommand

\* TIMEOUT has no exit of its own (wifi_state_timeout does nothing): a call in
\* progress must be there to leave it.
TimeoutOnlyInCall == state = "TIMEOUT" => call.op = "read"

\* The machine does not rest in ERROR: after the reconnect wait it tries again.
ErrorRetried == state = "ERROR" ~> state # "ERROR"

-----------------------------------------------------------------------------
(* The inductive invariant behind TypeOK, OpenSocketsAccounted,              *)
(* SavedSocketOpen and NoReconnectInCall.                                    *)

\* Who owns which socket, and what the locals of a call may hold.
SocketOwners ==
    /\ OpenSocketsAccounted
    /\ kept # {} => sock \in kept
    /\ IF call.op = "connect" THEN call.s \in Sockets \ kept ELSE call.s = NoSock
    /\ call.op = "read" => rxloc = 0 /\ (call.n <= BufferSize \/ longRead)

\* A blocked client never sees the reconnect wait run out: ERROR ends the loop
\* in the pass that entered it, and a pass is shorter than that wait.
BlockedStates ==
    /\ NoReconnectInCall
    /\ pc = "app" => call.op = "none"
    /\ pc = "driver" /\ call.op # "none" /\ state = "ERROR" =>
          holdoff + ticks >= ReconnectWait

\* Preserved by every step of Next.
IInv == TypeOK /\ SocketOwners /\ BlockedStates

\* With prompt answers a command is over before the state that says so, and the
\* answer to a receive finds its read waiting.
PromptStates ==
    /\ state \in {"READY", "TIMEOUT"} => cmd = NoCommand
    /\ state = "WAIT" /\ cmd.op = "recv" => call.op = "read"
    /\ TimeoutOnlyInCall

=============================================================================
