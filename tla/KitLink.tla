------------------------------- MODULE KitLink -------------------------------
(***************************************************************************)
(* The kit protocol over USB HID: the interrupt that collects reports      *)
(* (usb_hid.c), the handler that executes a command and answers it         *)
(* (atca_kit_client.c), and the lock that keeps the client and sensor      *)
(* tasks off the I2C bus meanwhile (main.c). The interrupt fires between   *)
(* any two steps of the main loop, also inside the decrement of            *)
(* g_usb_message_received, which is a load and a store on these targets.   *)
(*                                                                         *)
(* The host writes a command and reads its answer (kit_write and kit_read  *)
(* of scripts/at_kit_base.py). A patient host does nothing else; another   *)
(* goes on without the answer, as scripts/at_set_time.py does, which does  *)
(* not read it, and kit_read, which gives up after a while.                *)
(***************************************************************************)
EXTENDS Integers, Sequences

CONSTANTS
    MaxReports,   \* reports of a command or of an answer, at most
    MaxCommands,  \* bound: commands the host sends
    Retries,      \* send_retries (5)
    HoldTicks     \* 5000 ms in timer interrupts (50)

ASSUME ReportsAssumption == MaxReports \in Nat \ {0}
ASSUME RetriesAssumption == Retries \in Nat
ASSUME HoldAssumption    == HoldTicks \in Nat \ {0}

VARIABLES
    asked,      \* commands begun by the host, also the name of the last one
    toSend,     \* reports of it still to be sent
    patient,    \* the host waits for each answer, throughout
    orderly,    \* it also takes a report before the next one is tried, and
                \* its next command waits until the handler has returned
    host,       \* "idle", "sending" or "waiting"
    got,        \* reports of the answer the host has collected
    mem,        \* pucUsbRxBuffer, one entry per report; keeps old contents
    length,     \* g_usb_buffer_length
    count,      \* g_usb_message_received
    at,         \* place in the main loop
    loaded,     \* register with the value of count that is decremented
    answer,     \* reports of the answer still to be sent
    retries,    \* send_retries
    endpoint,   \* the report the IN endpoint holds, if any
    holdoff,    \* atca_kit_holdoff
    executed,   \* history: commands executed
    answered    \* history: pairs of the command and the answer to it

hostVars == <<patient, orderly, asked, toSend, host, got, answered>>
rxVars   == <<mem, length, count>>
txVars   == <<answer, retries, endpoint>>
vars     == <<hostVars, rxVars, txVars, at, loaded, holdoff, executed>>

-----------------------------------------------------------------------------

NoReport == [of |-> 0, last |-> FALSE]

\* n reports, of which the last holds the delimiter.
Reports(k, n) == [i \in 1 .. n |-> [of |-> k, last |-> i = n]]

Init ==
    /\ patient \in BOOLEAN /\ orderly \in BOOLEAN /\ (orderly => patient)
    /\ asked = 0 /\ toSend = <<>> /\ host = "idle" /\ got = <<>> /\ answered = <<>>
    /\ mem = <<>> /\ length = 0 /\ count = 0
    /\ answer = <<>> /\ retries = 0 /\ endpoint = NoReport
    /\ at = "kit" /\ loaded = 0 /\ holdoff = 0 /\ executed = <<>>

-----------------------------------------------------------------------------
(* Host: one command after the other *)

InHandler == at \in {"process", "reset", "send", "load", "store"}

\* kit_write, in reports.
Ask ==
    /\ host = "idle"
    /\ asked < MaxCommands
    /\ orderly => ~InHandler
    /\ asked' = asked + 1
    /\ \E n \in 1 .. MaxReports : toSend' = Reports(asked + 1, n)
    /\ host' = "sending"
    /\ got' = <<>>
    /\ UNCHANGED <<patient, orderly, answered, rxVars, txVars, at, loaded, holdoff, executed>>

\* kit_read collects reports until one holds the delimiter.
Take ==
    /\ host = "waiting"
    /\ endpoint # NoReport
    /\ endpoint' = NoReport
    /\ got' = Append(got, endpoint)
    /\ IF endpoint.last
       THEN /\ host' = "idle"
            /\ answered' = Append(answered, [to |-> asked, with |-> got'])
       ELSE UNCHANGED <<host, answered>>
    /\ UNCHANGED <<patient, orderly, asked, toSend, rxVars, answer, retries, at, loaded, holdoff, executed>>

\* The answer is not read, or not to its end.  What the endpoint holds of it
\* stays there for whoever reads next.
GiveUp ==
    /\ ~patient
    /\ host = "waiting"
    /\ host' = "idle"
    /\ UNCHANGED <<patient, orderly, asked, toSend, got, answered, rxVars, txVars, at, loaded,
                   holdoff, executed>>

-----------------------------------------------------------------------------
(* Interrupts *)

\* Mutants: every report is counted; a delimiter in the first report is not.
usb_hid_report_out_callback_each ==
    /\ host = "sending"
    /\ LET r == Head(toSend) IN
         /\ mem' = SubSeq(mem, 1, length) \o <<r>> \o SubSeq(mem, length + 2, Len(mem))
         /\ length' = length + 1
         /\ count' = count + 1
         /\ host' = IF r.last THEN "waiting" ELSE "sending"
    /\ toSend' = Tail(toSend)
    /\ UNCHANGED <<patient, orderly, asked, got, answered, txVars, at, loaded, holdoff, executed>>

usb_hid_report_out_callback_first ==
    /\ host = "sending"
    /\ LET r == Head(toSend) IN
         /\ mem' = SubSeq(mem, 1, length) \o <<r>> \o SubSeq(mem, length + 2, Len(mem))
         /\ length' = length + 1
         /\ count' = IF r.last /\ length > 0 THEN count + 1 ELSE count
         /\ host' = IF r.last THEN "waiting" ELSE "sending"
    /\ toSend' = Tail(toSend)
    /\ UNCHANGED <<patient, orderly, asked, got, answered, txVars, at, loaded, holdoff, executed>>

\* usb_hid_report_out_callback: append, count when the delimiter is there.
usb_hid_report_out_callback ==
    /\ host = "sending"
    /\ LET r == Head(toSend) IN
         /\ mem' = SubSeq(mem, 1, length) \o <<r>> \o SubSeq(mem, length + 2, Len(mem))
         /\ length' = length + 1
         /\ count' = IF r.last THEN count + 1 ELSE count
         /\ host' = IF r.last THEN "waiting" ELSE "sending"
    /\ toSend' = Tail(toSend)
    /\ UNCHANGED <<patient, orderly, asked, got, answered, txVars, at, loaded, holdoff, executed>>

\* atca_kit_timer_update
atca_kit_timer_update ==
    /\ holdoff > 0
    /\ holdoff' = holdoff - 1
    /\ UNCHANGED <<hostVars, rxVars, txVars, at, loaded, executed>>

-----------------------------------------------------------------------------
(* Main loop: atca_kit_main_handler and the lock *)

Main == UNCHANGED <<hostVars, endpoint>>

\* Mutant: the lock is renewed in every pass.
TestReceived_always_locks ==
    /\ at = "kit" /\ Main
    /\ holdoff' = HoldTicks
    /\ at' = IF count > 0 THEN "process" ELSE "lock"
    /\ UNCHANGED <<rxVars, answer, retries, loaded, executed>>

TestReceived ==
    /\ at = "kit" /\ Main
    /\ IF count > 0
       THEN at' = "process" /\ holdoff' = HoldTicks
       ELSE at' = "lock" /\ UNCHANGED holdoff
    /\ UNCHANGED <<rxVars, answer, retries, loaded, executed>>

\* atca_kit_process_usb_packet works in place on what the buffer begins with,
\* whatever the length: for a length of 0 it is 65535 behind the minus 1.
atca_kit_process_usb_packet ==
    /\ at = "process" /\ Main
    /\ executed' = Append(executed, mem[1].of)
    /\ \E n \in 1 .. MaxReports : answer' = Reports(mem[1].of, n)
    /\ at' = "reset"
    /\ UNCHANGED <<rxVars, retries, loaded, holdoff>>

\* Mutant: the length is not reset.
ResetBuffer_keeps_length ==
    /\ at = "reset" /\ Main
    /\ retries' = Retries
    /\ at' = "send"
    /\ UNCHANGED <<mem, length, count, answer, loaded, holdoff, executed>>

ResetBuffer ==
    /\ at = "reset" /\ Main
    /\ length' = 0
    /\ retries' = Retries
    /\ at' = "send"
    /\ UNCHANGED <<mem, count, answer, loaded, holdoff, executed>>

\* usb_send_response_message: one report, while the endpoint is free.
SendReport ==
    /\ at = "send"
    /\ answer # <<>> /\ endpoint = NoReport
    /\ endpoint' = Head(answer)
    /\ answer' = Tail(answer)
    /\ UNCHANGED <<hostVars, rxVars, retries, at, loaded, holdoff, executed>>

\* The retries are for the whole answer.
SendRetry ==
    /\ at = "send" /\ Main
    /\ answer # <<>> /\ endpoint # NoReport
    /\ ~orderly
    /\ retries > 0
    /\ retries' = retries - 1
    /\ UNCHANGED <<rxVars, answer, at, loaded, holdoff, executed>>

SendEnds ==
    /\ at = "send" /\ Main
    /\ \/ answer = <<>>
       \/ endpoint # NoReport /\ ~orderly /\ retries = 0
    /\ answer' = <<>>
    /\ at' = "load"
    /\ UNCHANGED <<rxVars, retries, loaded, holdoff, executed>>

LoadCount ==
    /\ at = "load" /\ Main
    /\ loaded' = count
    /\ at' = "store"
    /\ UNCHANGED <<rxVars, answer, retries, holdoff, executed>>

\* Mutant: the message is not counted down.
StoreCount_forgotten ==
    /\ at = "store" /\ Main
    /\ at' = "lock"
    /\ UNCHANGED <<rxVars, answer, retries, loaded, holdoff, executed>>

StoreCount ==
    /\ at = "store" /\ Main
    /\ count' = loaded - 1
    /\ at' = "lock"
    /\ UNCHANGED <<mem, length, answer, retries, loaded, holdoff, executed>>

atca_kit_lock ==
    /\ at = "lock" /\ Main
    /\ at' = IF holdoff > 0 THEN "kit" ELSE "client"
    /\ UNCHANGED <<rxVars, answer, retries, loaded, holdoff, executed>>

\* client_task, sensor_task and the rest of the loop.
OtherTasks ==
    /\ at = "client" /\ Main
    /\ at' = "kit"
    /\ UNCHANGED <<rxVars, answer, retries, loaded, holdoff, executed>>

main_loop ==
    \/ TestReceived \/ atca_kit_process_usb_packet \/ ResetBuffer
    \/ SendReport \/ SendRetry \/ SendEnds
    \/ LoadCount \/ StoreCount \/ atca_kit_lock \/ OtherTasks

Next ==
    \/ Ask \/ Take \/ GiveUp
    \/ usb_hid_report_out_callback \/ atca_kit_timer_update
    \/ main_loop

\* The processor runs, the timer goes on, the host polls the endpoint and
\* finishes what it began.
Spec ==
    /\ Init /\ [][Next]_vars
    /\ WF_vars(main_loop) /\ WF_vars(atca_kit_timer_update)
    /\ WF_vars(Take) /\ WF_vars(usb_hid_report_out_callback)

-----------------------------------------------------------------------------

\* The buffer that is processed holds one command and all of it: the interrupt
\* neither appends to it before the reset nor has been counted for less. This
\* takes a host that waits for its answers.
ProcessesOneCommand ==
    patient /\ at = "process" =>
        /\ length > 0
        /\ \A i \in 1 .. length : mem[i].of = mem[1].of /\ (mem[i].last = (i = length))

\* Commands are executed in the order they were sent, whatever the host does,
\* and none twice if it waits for its answers, though an answered command stays
\* in the buffer and its count is written back late.
ExecutedOnce ==
    \A i \in 1 .. Len(executed) - 1 :
        /\ executed[i] <= executed[i + 1]
        /\ patient => executed[i] # executed[i + 1]

\* What a host that waits takes for the answer to its command is that: every
\* report of it is from this command.
AnswerIsOwn ==
    patient =>
        \A i \in DOMAIN answered :
            \A j \in DOMAIN answered[i].with : answered[i].with[j].of = answered[i].to

\* A command is answered if the host is orderly.
CommandsAnswered == orderly /\ host = "waiting" ~> host = "idle"

\* The client and sensor tasks, kept off the bus, run again when no commands
\* come, whatever became of the last one.
ClientRunsAgain == <>[](host # "sending") => []<>(at = "client")
=============================================================================
