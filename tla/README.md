# Formal model of the Google Cloud IoT Core examples

TLA+ modules about the firmware in `src/src`: an MCU that joins an access point
through a WINC1500 module, connects to the MQTT bridge of Google Cloud IoT Core,
publishes temperatures and takes fan settings. Everything below is about that
program; the Raspberry Pi example is a separate one, and of the host scripts only
the side of the kit protocol that the firmware talks to is modelled.

## 1. The system

One thread and three interrupts. `main` loops over `wifi_task`,
`atca_kit_main_handler` and, unless the kit protocol holds its lock,
`client_task` and `sensor_task`. A 100 ms timer interrupt counts down the
hold-offs; the USB interrupt fills the kit protocol's receive buffer; the
interrupt of the WINC1500 counts events. The WINC1500 answers asynchronously, but
its answers reach the program only inside `m2m_wifi_handle_events`, which
`wifi_task` calls.

| Component | State it keeps | Operations | Talks to |
|---|---|---|---|
| WIFI task (`wifi_task.c`) | state, hold-off, resolved host, socket, buffer position, length being sent | state functions, callbacks, `wifi_connect`, `wifi_read_data`, `wifi_send_data`, `wifi_request_time` | driver (calls, callbacks), client (blocking calls), timer interrupt |
| Socket driver (`winc1500/socket`) | socket table with session ids, pending-receive flags | `socket`, `connect`, `send`, `recv`, `close`, `gethostbyname`, `m2m_ip_cb` | firmware (requests, answers) |
| Host interface (`m2m_hif.c`) | interrupt count, RX-done flag, address and size of the event | `isr`, `hif_handle_isr`, `hif_isr`, `hif_receive`, `hif_set_rx_done` | firmware (registers, memory), driver (callbacks) |
| Paho MQTT client (`MQTTClient.c`) | connected flag, handler table, packet id, ping state | `MQTTConnect`, `MQTTSubscribe`, `MQTTPublish`, `MQTTYield` | WIFI task (reads, writes), broker |
| Client task (`client_task.c`) | state, hold-off, report period | five state functions | MQTT client, WIFI task, sensor task |
| Sensor task (`sensor_task.c`, `devices/`) | speed map, override, samples | read, map, set target | client task (settings), I2C |
| Kit protocol (`atca_kit_client.c`, `usb_hid.c`) | receive buffer and index, message count, lock | receive report, parse, execute, answer | USB interrupt, I2C, clock |
| Time (`time_utils.c`) | clock, "is set" flag | convert, set, get | WIFI task and kit protocol (set), client task, sensor task and token (get) |
| Paho timers (`timer_interface.c`) | millisecond counter | countdown, expiry, time left | timer interrupt, MQTT client |

Hard behaviours. A blocking call re-enters the state machine it was called from,
so a reconnection could begin under a blocked client. The firmware may refuse a
request, answer late, for another socket, or never; callbacks do not look at the
command that is pending. `wifi_connect` fails in five places with a socket in
hand. Retries of the client run over new sockets with an MQTT client structure
that only INIT resets. The broker may answer late, publish before it
acknowledges the subscription, or vanish. Interrupts change hold-offs, buffer
and counters under the main loop. The receive buffer of the link forgets how much
was received. Two conversions of the kit protocol work in place, over what older
commands left. The clock is set by two parties, and read in two parts.
`PROJECT.json` lists each hazard at its line.

What makes each component correct:

* WIFI task: every call returns; it never fails or succeeds for another
  command's reason; no socket leaks, and none is taken from under the client;
  ERROR is always retried; the buffer position stays inside the buffer for reads
  that fit in it.
* MQTT and client tasks: RUN only with one accepted session and subscription on
  the connection; CONNECT comes first on every connection; a message that is
  acknowledged is handled; each turn ends.
* Receive buffer: the packets that the broker sent are read whole, once, in order.
* Host interface: no event is lost or read after its memory was given back; the
  memory is given back.
* Kit protocol: one whole command at a time, executed once, answered with its own
  answer, with the data that were written; the bus is given back.
* Time: the conversion is the calendar's; a clock that is set only runs on and
  trails by one answer; a timer is not early and expires when due, to the second
  that a torn read of the counter may cost.
* Sensor and fan: the controller holds the speed that the settings in force or
  the override ask for, and settles there.

## 2. Modules

* `WincDriver` - the driver's socket table and the requests in flight. A request
  is accepted or refused by the (external) firmware; answers come in any order
  or are lost. `OpenAndConnect` joins `socket()` and `connect()`, which
  `wifi_connect` calls back to back, with the `close()` that follows a refusal.
* `WifiTask` - `wifi_task.c` over the driver. `pc` is the place of the main
  loop: one pass of `wifi_task` is a step of `tiny_state_driver` ("driver"), any
  number of callbacks ("events"), then either the blocking call in progress goes
  on (`block_again` or one of the `*_resolved`, `*_connected`, `*_received`,
  `*_sent` continuations) or the client runs ("app"). A blocking call is thus
  one action up to each `wifi_task_block_until_done` and one after it; `call`
  holds its local variables. The timer interrupt (`Tick`) fires between any two
  actions. The client is any client: calls in any order. `cmd` and `kept` are
  history variables that no guard of the program reads. `LateAnswers = FALSE`
  is the assumption that the firmware answers nothing but the pending command;
  then `Expected` reads `cmd`.
* `BlockingLink` - the abstract specification of what `wifi_task.h` promises:
  the status holds still while the client runs, success is returned on a ready
  link only, a failed connect leaves nothing behind, every call returns.
* `WifiLink` - `WifiTask` with the refinement mapping to `BlockingLink`.
* `MqttClient` - the Paho client over `BlockingLink`, and the broker. `at` is
  the place in the code of the current MQTT call; `sendPacket`, `cycle`,
  `waitfor`, `keepalive` and `MQTTYield` are its parts. A packet is a type, an
  id and a return code. A packet is read by three link reads, of which only the
  first can block while the packet lies inside the receive buffer, so they are
  one step. `SplitPackets` adds packets that do not: a part of them is discarded, and
  they are dispatched by their header, without their rest (`MQTTClient.c:124` does not
  look whether the length was read) or with other bytes for it (`Misread`). The
  deserialisers return 1, success, for a packet without a rest too.
* `ClientTask` - `client_task.c` over `MqttClient`, one turn of the main loop
  after another. The composition Client / MQTT / link is checked on the abstract
  link, which `WifiTask` implements.
* `RxBuffer` - `wifi_read_data` under Paho's packet reader, byte by byte. A byte
  carries the packet and place it comes from, which no guard reads. One step is
  one read of the reader (header, each byte of the length, body), served from the
  buffer or by a receive, or failing with a timeout. Segments may carry several
  packets or parts of one. A length that is misread may have up to four bytes and be
  longer than `readbuf`, with which the code does not compare it: a behaviour ends
  where such a body is read (`at = "outside"`). `MqttClient` takes a packet as read
  in one step; `ReadAsSent` is what that rests on.
* `Hif` - the host interface. `pc` is the place in `hif_handle_isr`, `hif_isr`
  and the callback; the decrement of the interrupt count is a load and a store;
  each access of the bus may fail. The firmware shows no event before it has its
  memory back. An event is read in pieces, each handed to the application.
* `KitLink` - USB interrupt, kit handler and lock, statement by statement of
  `atca_kit_main_handler`. The buffer holds reports; a command in it keeps its
  place after the reset of the length, as the bytes do. The host writes a command
  and reads the answer (`at_kit_base.py`), or goes on without it (`GiveUp`), as
  `at_set_time.py` does and `kit_read` after its timeout: then a second command may
  be behind the first, and an old answer in the endpoint.
* `KitPacket` - the two conversions in place, one iteration a step, on buffers of
  `Size` bytes that keep old contents; the host's text in both cases of digits, with
  and without the closing parenthesis. The code compares no length with the buffers:
  a behaviour ends (`pc = "outside"`) where an access leaves one. `Answers` are what
  `atca_kit_convert_data` has left of a chip's answer (123 bytes).
* `PahoTimer` - `Timer` on a counter of `Wrap` milliseconds, with the carries and
  borrows of the `timeval` macros. `get_time_of_day` loads the counter twice (so does
  the shipped listing, `boards/samd21/Debug/fan_control_samd21.lss`), a step each, and
  the interrupt may come between. `elapsed` is the time that does not wrap.
* `TimeUtils` - `time_utils_convert` in unsigned arithmetic, beside a calendar
  that steps from day to day.
* `DeviceClock` - who sets the clock (the radio's answers, the kit protocol) and
  who reads it (`client_state_get_time`, the token). `SAM` boards read date and
  time one after the other.
* `FanControl` - `sensor_task`, the settings of `client_process_message`, the report
  and the fan controller's registers, with the numbers of the code. `setup` is a
  build with simulated sensors, or with chips on a bus that works or fails. On a
  failing bus each access may fail for itself: one of the two target registers is
  not written, the configuration read back at initialisation is wrong and stays so,
  a temperature is the register's number. Measured values are in no variable of the
  program; publishing them sets the controller up, as the sensor task does.
* `MCWifi`, `MCClient`, `MCRxBuffer`, `MCKitPacket`, `MCFanControl` - instances
  for TLC; the other modules are instantiated by their cfg files alone.
* `WifiTask_proofs` (also `WifiLink`), `ClientTask_proofs`, `RxBuffer_proofs`,
  `Hif_proofs`, `KitLink_proofs`, `KitPacket_proofs`, `FanControl_proofs` and
  `Time_proofs` (`DeviceClock`, `TimeUtils`, `PahoTimer`) - the proofs.

Definitions whose comment begins with "Mutant" are variants of the definition
that follows them, with a plausible bug; no specification uses them. They are
there to show that each property can fail.

Abstractions. Times are in ticks of 100 ms, with the order of the code's waits
kept (reconnect wait longest). A buffer is its position; the length of a read is
from a small set. Configuration getters succeed or fail. The driver's status-0
answer (the peer closed) leaves `u16RemainingSize` unset; the handler tests it,
so both outcomes are allowed. Partial sends leave the machine in WAIT, as in the
code. `CLIENT_STATE_ERROR` is never entered by any transition and is left out.
An MQTT timer expires at any time after it was set; the keep-alive interval
(900 s) cannot fall due within a command (2 s). Initialisation of the WINC1500
either fails or succeeds. The bytes of a packet body are all alike, and the length
of a packet the broker sends is one byte, as it is for every packet but a long
PUBLISH. A report of 64 bytes is
one entry of the kit buffer. Statics without initialiser are 0; locals that may be
read before they are set take any value of `Garbage`.

## 3. Runs

All bounds are constants of the cfg files. Where a property holds for a part of
the behaviours only, a variable that is chosen in `Init` and never changes says
which part a behaviour is of, and the property names it as its condition: `orderly`
in `RxBuffer` and `KitLink`, `patient` in `KitLink`, `setup` in `FanControl`, `fault` in `Hif`. Every run
covers both sides.

| Run | Question and instance | States |
|---|---|---|
| `wifi_prompt` | The firmware answers only what the program waits for. Does READY mean idle (`ReadyMeansIdle`), does TIMEOUT end with the read that caused it (`TimeoutOnlyInCall`), does the hold-off stay in range, and the buffer position in the buffer until a read asks for more than that holds (`TypeOK`)? Two sockets, a buffer of 2 and reads of 1 and 3, positions of 3 bits, session ids that wrap. | 5.0 M |
| `wifi_refines` | Answers at any time, for any command, or never; renewed addresses, refusals, losses. `OpenSocketsAccounted`, `SavedSocketOpen`, `NoReconnectInCall`, `ErrorRetried`; `ImplementsLink`: `WifiTask` implements `BlockingLink` with its fairness, so that every blocking call returns. | 0.7 M |
| `client_session` | `RunKnownToBroker`, `ConnectComesFirst`, `AcknowledgedWereHandled`, for two connections, two packets in flight each way and packet ids that wrap. | 1.7 M |
| `client_live` | The same client with messages before SUBACK, data that survives a reconnection and packets that are read in part: `RunSubscribedOnce`, `TurnEnds`. One packet on its way to the broker. | 0.5 M |
| `rx_packets` | `ReadAsSent`, `NothingDiscarded`, `PacketsArrive`. A buffer of 8 bytes, which five packets of two and four bytes (and three of any length, cut anywhere) fill, cross and refill. Header bytes below and above 128: read as a length, the latter go on. A behaviour may end, where a buffer is left. | 136 k |
| `hif_events` | Four events of up to three pieces, one fault anywhere: `TypeOK` (at most one interrupt is counted), `InterruptNotLost`, `DeliveredInOrder`, `MemoryGivenBack`, `HandlerReturns`. | 265 k |
| `kit_commands` | Three commands and answers of up to two reports, from a host that waits for them or goes on: `ProcessesOneCommand`, `ExecutedOnce`, `AnswerIsOwn`, `CommandsAnswered`, `ClientRunsAgain`. | 542 k |
| `packet_text` | Data of up to two bytes and answers of up to three, over the remains of any others, and a command that is too long: `DataAsSent`, `AnswerAsMeant`. A behaviour may end, where a buffer is left. | 88 k |
| `timer_counts` | `NeverEarly`, `ExactUntilWrap`, with the interrupt also between the two reads of the counter. Timeouts below, at and above a second, a counter that wraps in the middle of a second, twice. | 261 k |
| `time_calendar` | `SecondsAreElapsed`: days to 2401 (a full cycle of 400 years and its end), seconds to 2038 (TLC's integers have 31 bits). | 158 k |
| `clock_set` | `ClockTrails`, `ClockRunsOn`, `TokenIsTimely`, `TimeObtained`. A day of three minutes of three seconds, two requests on their way, a midnight, both kinds of board. | 98 k |
| `fan_speeds` | `TargetIsAsked`, `SpeedFromSettings`, `ReportAgrees`, `FanSettles`. Maps of none to three entries, replacing longer ones; two samples in the average; two messages; an override; readings of 0 degrees and above; all three kinds of `setup`, the failing one with every access to the chips failing or not. | 146 k |

Why these bounds are enough. Two sockets let one be saved and one be connecting,
and let both run out; waits of 1 and 2 (2 and 3) ticks keep "the wait runs out" and
"the answer comes first" both possible, with one tick per pass. Two packets let one
overtake the answer that is awaited. Two reports are one with the delimiter and one without.
Deadlock is checked but in three runs: the conversions of `packet_text` come to an end,
the days of `time_calendar` too, and `packet_text` and `rx_packets` stop where an access
leaves a buffer. Two events put an interrupt inside the decrement of another; four leave room for one
that fails and others behind it. The theorems of section 4 hold for every value.

Fairness. The processor runs the main loop (weak fairness of its steps) and the
timer interrupt goes on (weak fairness of `Tick`, of which a pass needs at most
`TicksPerPass`). Nothing is assumed of the firmware, the network or the broker,
and nothing of the client: `main_loop` is fair because a client function that
does not block returns. `ClientFairness` is the same for the client's code and
its timers; that the link's calls return is what `wifi_refines` establishes.
In the other modules too the main loop and the interrupts are weakly fair.
Beyond that, about the world outside: in `RxBuffer` a receive that is repeated for
ever gets the data that waits for it; in `DeviceClock` the radio, when asked for
ever, answers with the time once, and is READY for a request again and again; in
`KitLink` the host polls its endpoint and finishes the command it began. The
premise of `FanSettles` is that the sensor holds still.

What the properties assume of their inputs:

* `ReadAsSent` in full, `NothingDiscarded` and `PacketsArrive`: packets of an even
  number of bytes that arrive whole in a segment. The packets of the broker have an
  even length but for SUBACK (five bytes) and PUBLISH (any). For the others
  `ReadAsSent` says that none is handed over twice or late.
* `CommandsAnswered`: the host takes each report before the next one is due, and
  begins its next command after the handler has returned (`orderly`). The safety
  properties of that run do not need it.
* `ProcessesOneCommand`, `AnswerIsOwn` and the second half of `ExecutedOnce`: the host
  begins a command only after it has the answer to the one before (`patient`). The
  first half of `ExecutedOnce` and `ClientRunsAgain` are for any host.
* `DataAsSent`: a command that fits in the receive buffer. `AnswerAsMeant`: an answer
  that has a status, which all have but that to an application command without data.
* `ExactUntilWrap`: the counter has not wrapped since the timer was set. `PahoTimer`
  in all: the interrupt comes at most once between two reads that are a division
  apart (its period is 100 ms).
* `TargetIsAsked`: a count of 13 bits and a bus that works. `FanSettles`: a bus that
  works.
* `rx_packets` in all: a buffer of an even size, as that of the code, and packets that
  fit in `readbuf` and have a length of one byte. A receive whose time runs out at the
  client has no data: data that comes to the chip after that is not modelled.
* `SpeedFromSettings`, `ReportAgrees` and `FanSettles`: a temperature for which the
  settings have a speed, that is, above some entry of theirs. `ReportAgrees` is about
  the simulator's reports.
* `fan_speeds` in all: maps that are not longer than the array (seven entries).
* `MemoryGivenBack`, `HandlerReturns`: a fault in an access that is tried again.
* `RunKnownToBroker`, `ConnectComesFirst`, `AcknowledgedWereHandled`: nothing of an
  old connection is read on a new one (`StaleData = FALSE`), and each packet is read
  whole (`SplitPackets = FALSE`); the last one also that the broker publishes after
  SUBACK only (`EarlyPublish = FALSE`).
* `client_live`: a packet that is misread is one piece. That its bytes read as several
  packets is left to the packets behind it, which may be misread as well.

### Known deviations

Where the code does something else than what it, its documents or its callers say.
The runs above hold beside these; each is left out by the condition or constant that
is named, and appears as a counterexample when that is dropped.

* `wifi_task.c:221`: each success callback sets READY whatever command is pending, so
  that a late answer ends the wait of another command, and `wifi_state_ready`, "Run
  when no commands are pending" (`wifi_task.c:479`), runs while one is
  (`ReadyMeansIdle` with `LateAnswers = TRUE`).
* `wifi_task.c:637`: a socket that broke is overwritten by the next `wifi_connect` and
  never closed, though the driver expects it (`socket.h:1477`). `OpenSocketsAccounted`
  says how it shows: the open sockets are exactly those that `wifi_connect` ever
  returned success with. After seven reconnections `socket()` fails for good.
* `client_task.c:347`: after a failed subscription `isconnected` stays set, and
  `MQTTConnect` (`MQTTClient.c:372`) refuses every later connection; only INIT clears
  it, which CONNECT does not go back to. There is no property that CONNECT is left:
  it would be false.
* `MQTTClient.c:537`: `MQTTPublish` decodes the packet id of a PUBACK and does not
  compare it, so that a late one acknowledges the wrong message.
* `MQTTClient.c:124`, `:441`: that the length of a packet could not be read is not
  looked at, and the deserialisers return the number of length bytes, 1, when the rest
  is missing. A SUBACK of which the header only was read thus leaves the granted QoS
  at -1, "0, 1, 2 or 0x80" (`MQTTClient.c:442`) by the comment: the handler is
  entered and the client is in RUN, also if the broker refused. A PUBLISH without its
  rest is delivered by what the locals hold, and acknowledged (`RunKnownToBroker` and
  `AcknowledgedWereHandled` with `SplitPackets = TRUE`).
* `MQTTClient.c:250`: a PUBLISH that comes before SUBACK finds no handler and is
  acknowledged all the same (`AcknowledgedWereHandled` with `EarlyPublish = TRUE`).
* `MQTTClient.c:124`: the remaining length of a packet, up to 268435455, is compared
  neither with `readbuf_size` (1024) nor with the buffer of the link.
  `wifi_task.c:690` then copies past `rxbuf` and past the caller's buffer, and `rxloc`
  is behind the end, where the unsigned difference of `wifi_task.c:652` serves every
  read from beyond the buffer. `WifiTask` takes such reads and follows the position
  (`TypeOK` and `longRead` say that nothing else takes it out of the buffer); what the
  copies overwrite is undefined and not followed. In `RxBuffer` a behaviour ends
  there; `ReadAsSent` says that packets which fit, even and whole, do not get there,
  and packets out of place do. `MqttClient` is about packets that fit.
* `wifi_task.c:652`, `:690`: the buffer forgets how much was received. Behind a packet
  of odd length the zeros pair up wrongly and a header is read as a length; a packet
  in two segments is completed with zeros (`ReadAsSent` without `orderly`).
* `MQTTClient.c:202`: a PINGRESP that never comes is not noticed.
* `atca_kit_client.c:1040`: the decrement of the message count is not atomic and can
  undo the increment of the interrupt. It takes a host that writes before the handler
  has returned, and delays that command (`CommandsAnswered` without `orderly`).
* `scripts/at_set_time.py:16`, `scripts/at_kit_base.py:59`: a host that does not read
  its answer leaves the first report of it in the endpoint, where the next host takes
  it for the answer to its own command (`AnswerIsOwn` without `patient`).
* `atca_kit_client.c:1035`: if such a host writes on, two commands may be in the
  buffer. The first is executed; the length is reset for both; as the count is 2 the
  handler comes again and executes what the buffer still begins with, with a length of
  0 (`ProcessesOneCommand` and `ExecutedOnce` without `patient`). Minus 1 (`:967`) that
  is 65535, and the loop of `:980` puts the memory behind the buffer in lower case.
  `KitLink` follows the buffer and the count, not the memory behind them.
* `atca_kit_client.c:444`, `:913`: an application command without data has a length of
  0. The packet is made from it as if it had a status; less one it is 65535 in 16 bits,
  where the loop of `:925` begins to read. The model ends there (`PackLeaves`), and
  `StaysInside` says that this and the next are the only ways out of a buffer.
* `usb_hid.c:159`: the receive buffer has 2300 bytes, and what comes is not counted
  against them. A command that is longer, or reports without a line feed, are written
  behind it. `Receive` ends there.
* `atca_kit_client.c:894`: without the closing parenthesis the line feed is counted as
  data, and the command has one byte more than it was given (`DataAsSent` says so).
* `atca_kit_client.c:985`: the optional "lib" is skipped by a `memchr` over
  `rxBufferIndex` bytes, which is 0, so that such commands are unknown. They are not
  among the commands of the models.
* `atca_kit_client.c:289`: the set-time command passes the minute as the second, and
  the clock is up to a minute off. `ClockTrails` and `TokenIsTimely` say nothing of a
  clock that the host has set (`byKit`); `KitSetTime` models what the code does.
* `timer_interface.c:75`: the counter is loaded once for the seconds and once for the
  rest, without a lock. If the interrupt comes between at the turn of a second, the
  time read is a second old: a timer set with it ends a second early, one asked with
  it seems to have a second more (`NeverEarly` and `ExactUntilWrap` say that it is
  never more, and exact otherwise).
* `timer_interface.c:56`: a timer that the counter wraps behind expires a whole wrap
  (49.7 days) late (`ExactUntilWrap` without its condition).
* `fan_click.c:242`: below 961 rpm the target does not fit its 13 bits
  (`TargetIsAsked` without its condition; a map of the instance has 900 rpm).
* `fan_click.c:242`: the results of the two writes of the target are not looked at,
  nor are those behind them; if one is lost, the registers hold half of the old target
  and half of the new (`TargetIsAsked` on a failing bus).
* `fan_click.c:150`: the configuration is read back once and kept. If that read fails,
  every target from then on is computed with the wrong edges and range.
* `thermo5_click.c:48`: a read that fails leaves the register's number or the stack's
  contents as the temperature, which enter the average as a good sample.
* `sensor_task.c:59`: for an average that no entry is below (0 degrees with the default
  map, an empty map, one that does not begin at 0) the speed is not initialised. The
  properties say nothing of it then; `FanControl` lets it be any value of `Garbage`.
* `sensor_task.c:76`: a map of more than seven entries is written behind the array.
  Such maps are left out (`MapAssumption`).
* `client_task.c:178`: `update-rate` is 32 bits wide and stored in 16.
* `m2m_hif.c:446`: the event bit is cleared before the address is read. If that read or
  the write of RX done fails once, the handler repeats a false interrupt for ever
  (`HandlerReturns` without `Recoverable`).

## 4. Proofs

`WifiTask_proofs` proves for every value of the constants that satisfies the
named assumptions (any number of sockets, waits, buffer size, any firmware):

* `TypeCorrect`: `Spec => []TypeOK`. The interesting parts are the buffer
  position and the hold-off, which are unsigned in the code: the position is in the
  buffer unless a read of more than the buffer has been asked for (`longRead`).
* `SocketsAccounted`, `SavedSocketIsOpen`: socket ownership.
* `NoReconnect`: no reconnection under a blocked client.
* `ReadyIsIdle`, `TimeoutHasRead`: with a firmware that answers only what is waited
  for (`~LateAnswers`, `~DhcpRenewals`), from `PromptStates`: a callback then ends
  the command that WAIT was entered for, and a receive is answered only while its
  read waits.

The others follow from `Invariance`: `Spec => []IInv`, where
`IInv == TypeOK /\ SocketOwners /\ BlockedStates`.
`OpenSocketsAccounted` alone is not inductive: it needs that the socket of a
connect in progress is not among the saved ones, which in turn needs the free
socket search to return an unused entry, and that `sock` is a saved one.
`NoReconnectInCall` is not inductive either: a blocked client in ERROR might see
the reconnect wait run out. It cannot, because ERROR ends the loop at the end of
the pass that entered it, and `BlockedStates` says so in numbers: in the driver
step of a blocked pass, hold-off plus ticks of this pass is still at least the
reconnect wait, and a pass is shorter than that (`PassAssumption`). A read has
`rxloc = 0` while it waits, so that the position after it is the length it
asked for; no bound on that length is assumed. The proof has one lemma per group of actions and one
step per action.

There also is `RefinesLink`, the safety part of `ImplementsLink`: every
step of `WifiTask` is a step of `BlockingLink` or leaves the link alone. It rests on
`IInv` and on the fact that the result of a call is gone when the client stops
running. By `SocketOwners` the connections the client can use are exactly those that
`wifi_connect` has returned, so that opening a socket and closing it again are
invisible; by `BlockedStates` a read or send that ends neither ready nor in error
ended in TIMEOUT, and becomes ready. Together with `ClientUsesLink` below, this is
the composition of the client with the WIFI task: the client calls the link as the
abstract link allows, and the WIFI task behaves as the abstract link does.

`ClientTask_proofs` (any number of sockets, handlers, packet ids and packets in
flight, so any number of reconnections): `ClientTypes`, `RunsSubscribedOnce`,
`RunsKnownToBroker`, `ConnectsFirst`, `AcknowledgesHandled`, all from
`ClientInvariance`: `ClientSpec => []ClientInv`. None of the properties is inductive.
That the broker knows the subscription in RUN needs that the SUBACK the client read
was the answer to *this* connection's SUBSCRIBE, thus that at most one SUBSCRIBE is
sent on a connection (`OneSubscription`), thus that a call belongs to the state it
is made from (`CallOfState`) and a connection begins empty. That CONNECT comes first
needs that neither a ping nor an acknowledgement is due before CONNACK
(`NothingBeforeSession`). That a message finds its handler needs that, while the
client waits for SUBACK, any message is behind it in the stream or SUBACK is the
packet just read (`MessagesBehindSuback`), and that the handler then stays
(`HandlerCount`). The last three parts are conditional on the stream being whole:
`RunsKnownToBroker` and `ConnectsFirst` assume `~StaleData` and `~SplitPackets`,
`AcknowledgesHandled` also `~EarlyPublish`; section 3 says what happens otherwise.
`RunsSubscribedOnce` assumes none of these.
`ClientUsesLink` is the client's half of the composition: it calls the link as
`BlockingLink` allows. The invariant has one lemma for each part, with one step
per action. TLC finds `ClientInv` invariant on the instances of both client runs.

`Hif_proofs` (any number of events, pieces and faults): the count of interrupts
is 0 or 1, no interrupt is lost, the pieces are delivered in order. The argument
is about one token: an event that was raised and not yet taken is an edge on the
line, or a count, or the handler between decrement and the read of the register;
the invariant says that there is never more than one of them, which makes the
load and the store of the decrement harmless - the firmware cannot raise a second
event in between, and the interrupt is disabled while one is handled.

`KitPacket_proofs` (any commands, any answers that fit, buffers of any size below 64
KB): `PacketStaysInside`, `PacketDataAsSent`, `PacketAnswerAsMeant`. That no index leaves
its buffer is proved but for the two cases of section 3, which nothing checks. The
invariants say what part of the buffer is converted, what part is still as it was,
and that the place written is not behind the place read: unpacking writes byte `b`
over text whose digits up to `2b` were read, packing writes at `2b` and above
while the bytes below `b` are to be read.

`RxBuffer_proofs` (a buffer of any even size, any packets that fit in `readbuf` and
have a length of one byte, any number of them): `PacketsAsSent`, `NoByteDiscarded`,
from `RxInv == Sound /\ Aligned`.
`ReadAsSent` speaks of what was handed over only; to be inductive it needs where all
the other bytes are. `Sound` holds for any segments: what is not read yet (of the
packet being read, of the buffer behind `rxloc`, of each segment on its way) is in
the order it was sent, and all of it is later than what was handed over. That alone
makes nothing come twice, also with packets torn by padding. `Aligned` is for even
packets in whole segments: there is an even place `base` where the packet being read
begins, from there on every byte of the broker lies in a packet that is all there and
begins at an odd place, and each packet that was sent is lost, handed over, or begins
in what is to be read. It needs `Size` to be even (`WIFI_BUFFER_SIZE` is 1500): then
the padding, read two zeros at a time, ends exactly with the buffer, a receive begins
only between two packets, and the reads of a length and of a body never fail. The
byte read as a length is the packet's own or a zero, so it is below 128 and the body
fits (`OneLengthByte`): no read of these packets leaves a buffer. What is left for
`ReadAsSent` is that a packet before one that was handed over cannot be still to be
read, since all of that is later.

`KitLink_proofs` (any number of commands, reports and retries): `OneCommand`,
`CommandsOnce`, `OwnAnswers`. For any host, `OrderInv`: the first report of the buffer
is of no command before the last one executed, because it is only ever overwritten by
a report of the newest. For one that waits for its answers, orderly or not, `KitInv`:
at most one command is not executed; while there is one, the buffer
begins with what has come of it and the endpoint is empty. The message count may lose
an increment to the store of the handler, but by the invariant it is 1 only when the
command it stands for is complete and not executed; so a lost increment delays a
command and never repeats one or lets half of one be executed.

`FanControl_proofs` (maps of any length up to the default's, any speeds and durations,
any number of messages): `TargetHolds`, `SpeedsAreSet`, `ReportsAgree`. The map in
force is the last settings, followed by entries that no temperature of 16 bits is
above, so that the remains of a longer map are out of reach: that takes that the
average fits 16 bits, which is shown by induction over the samples, any number of
them. Nothing is assumed of where a map begins or of the readings; both properties
are about temperatures that the settings have a speed for. `TargetHolds` needs
`SetUp`: on a bus that works a controller that is ready is set up as the count is
meant, whether a report or the sensor task has called `fan_click_init`.

`Time_proofs`. The timers (any period below a second, timeouts, interval and wrap):
times stay normalised, no timer is early, and until the counter wraps behind it each
one is exact, but for the second of a torn read. A read is no later than now, by less
than a second earlier, and exactly now if it was not interrupted (`TimeNowMillis`),
also across a wrap, as 2^32 is more than a period above a full second; the normalised
end time stands for `due` on the counter, and borrows and carries cancel out. The calendar: the closed formula equals the calendar, by
one step of the calendar at a time (next day, next month, next year), with the
quotients by 4, 100 and 400 as the lemmas. The clock (any lengths of
day and delay): it trails by at most the delay of an answer, because only the
first answer with a time sets it, and an answer in the queue is no older than that.

So every safety property of the runs is a theorem as well. The library's induction
principle for an arbitrary operator is out of reach of the provers that are used; where
a proof needs induction over data (the sum of the samples) it is stated for a set of
numbers instead, from well-foundedness (`NatSetInduction`).

Only model-checked: all liveness (`ImplementsLink` with its fairness, `ErrorRetried`,
`TurnEnds`, `PacketsArrive`, `MemoryGivenBack`, `HandlerReturns`, `CommandsAnswered`,
`ClientRunsAgain`, `TimeObtained`, `FanSettles`), which is beyond the prover.

## 5. Plan

1. Done: driver, WIFI task, abstract link, refinement; the invariant proofs.
2. Done: MQTT client and client task on the abstract link; the proofs of its safety
   properties.
3. Done: `RxBuffer`, `Hif`; `KitLink`, `KitPacket`; `PahoTimer`, `TimeUtils`,
   `DeviceClock`; `FanControl`; the proofs of section 4.
4. Done: the refinement `WifiTask => BlockingLink`, its safety part, as a theorem;
   the proofs about `RxBuffer`, `KitLink` and `FanControl`.
5. Open: the client's composition with `RxBuffer` instead of whole packets.

## 6. Not modelled

* Vendored libraries without a part in the program's control: parson (JSON), the
  MQTT serialiser, CryptoAuthLib, ASF and CMSIS. The models use what the code in
  `src/src` sees of them: a setting, a packet, a command that succeeds or fails.
* Of the WINC1500 driver, what the program does not call (UDP, server sockets,
  access point, OTA, provisioning), `hif_send`, chip sleep and the SPI protocol.
* Of the kit protocol, discovery of devices and the text of board information.
* Board set-up, the console, I2C registers, the contents of the JWT but its time,
  unsubscribe, disconnect, QoS 2 and Paho's own task.

Most of the repository is the first item, three times over: `src/boards` holds a
copy of ASF, CMSIS and the WINC1500 driver for each of the three boards, over
nine tenths of all lines. The driver is modelled once, from the SAM D21 copy.
