---------------------------- MODULE DeviceClock ----------------------------
(***************************************************************************)
(* The clock of the device: who sets it, who reads it, and what it shows.  *)
(* The client asks the WINC1500 for the time until the clock is set        *)
(* (client_task.c), the answers arrive late and more than once             *)
(* (wifi_task.c), the host may set the clock over USB                      *)
(* (atca_kit_client.c), and every connection is opened with a token signed *)
(* for the time the clock shows (config.c).  Seconds are counted in        *)
(* minutes of Minute seconds, hours of Minute minutes and days of Day      *)
(* seconds; the calendar itself is the matter of TimeUtils.                *)
(***************************************************************************)
EXTENDS Integers, Sequences

CONSTANTS
    Boards,      \* the builds: "SAM0" has a counter, "SAM" a date and a time
    Minute, Day, \* seconds in a minute and in a day, minutes in an hour
    MaxDelay,    \* seconds an answer of the WINC1500 may take
    MaxRequests, \* bound: requests that are not answered yet
    Horizon      \* bound: the last second that is looked at

ASSUME MinuteAssumption == Minute \in Nat \ {0} /\ Day \in Nat \ {0}
ASSUME BoundsAssumption == MaxDelay \in Nat /\ Horizon \in Nat /\ MaxRequests \in Nat
ASSUME BoardsAssumption == Boards \subseteq {"SAM0", "SAM"}

VARIABLES
    board,
    now,        \* the second it is
    rtc,        \* the second the real time clock shows
    g_time_set,
    requests,   \* requests the WINC1500 has not answered
    replies,    \* its answers on their way: the second, 0 for none
    pc,         \* where the client is
    held,       \* the client waits before it asks again
    seen,       \* what rtc showed when its date was read
    iat,        \* the second the last token was signed for
    byKit       \* the host has set the clock

vars == <<board, now, rtc, g_time_set, requests, replies, pc, held, seen, iat, byKit>>
radio == <<requests, replies>>
Reading == pc \in {"get_time_date", "connect_date"}
client == <<pc, held, seen, iat>>

Init ==
    /\ board \in Boards
    /\ now = Day /\ rtc = 0 /\ g_time_set = FALSE
    /\ requests = 0 /\ replies = <<>>
    /\ pc = "get_time" /\ held = FALSE /\ seen = 0 /\ iat = 0
    /\ byKit = FALSE
----------------------------------------------------------------------------
(* The WINC1500 and time. *)

\* A second passes.  No answer takes longer than MaxDelay, and reading the
\* clock takes less than a second.
Tick ==
    /\ now < Horizon
    /\ Reading => rtc = seen
    /\ \A i \in 1..Len(replies) : replies[i] # 0 => now - replies[i] < MaxDelay
    /\ now' = now + 1
    /\ rtc' = IF g_time_set THEN rtc + 1 ELSE rtc
    /\ UNCHANGED <<board, g_time_set, radio, client, byKit>>

\* A request is answered with the time, or with an empty date as long as the
\* WINC1500 does not know it.
Answer(t) ==
    /\ requests > 0
    /\ requests' = requests - 1
    /\ replies' = Append(replies, t)
    /\ UNCHANGED <<board, now, rtc, g_time_set, client, byKit>>

AnswerTime == Answer(now)
AnswerNothing == Answer(0)

\* The host never gets an answer to a request.
Lose ==
    /\ requests > 0
    /\ requests' = requests - 1
    /\ UNCHANGED <<board, now, rtc, g_time_set, replies, client, byKit>>

(* The callbacks and the handlers run in turn in the main loop, never      *)
(* while the clock is being read.                                          *)

\* Mutant: every answer sets the clock.
process_time_always ==
    /\ replies # <<>> /\ ~Reading
    /\ replies' = Tail(replies)
    /\ IF Head(replies) # 0
       THEN rtc' = Head(replies) /\ g_time_set' = TRUE
       ELSE UNCHANGED <<rtc, g_time_set>>
    /\ UNCHANGED <<board, now, requests, client, byKit>>

\* Mutant: an empty date sets the clock.
process_time_empty ==
    /\ replies # <<>> /\ ~Reading
    /\ replies' = Tail(replies)
    /\ IF ~g_time_set
       THEN rtc' = Head(replies) /\ g_time_set' = TRUE
       ELSE UNCHANGED <<rtc, g_time_set>>
    /\ UNCHANGED <<board, now, requests, client, byKit>>

\* wifi_app_cb_process_time: time_utils_get_utc() is 0 until the clock is set.
process_time ==
    /\ replies # <<>> /\ ~Reading
    /\ replies' = Tail(replies)
    /\ IF Head(replies) # 0 /\ ~g_time_set
       THEN rtc' = Head(replies) /\ g_time_set' = TRUE
       ELSE UNCHANGED <<rtc, g_time_set>>
    /\ UNCHANGED <<board, now, requests, client, byKit>>

\* Set Time of the kit protocol: the minute is passed for the second as well.
KitSetTime ==
    /\ ~Reading
    /\ rtc' = (now - (now % Minute)) + ((now \div Minute) % Minute)
    /\ g_time_set' = TRUE /\ byKit' = TRUE
    /\ UNCHANGED <<board, now, radio, client>>
----------------------------------------------------------------------------
(* The client. *)

\* Mutant: the time is read before the date.
Half_swapped(t, first) == IF first THEN t % Day ELSE t - (t % Day)

\* time_utils_get_utc on SAM reads the date first, and then the time.
Half(t, first) == IF first THEN t - (t % Day) ELSE t % Day
Utc == IF ~g_time_set THEN 0
       ELSE IF board = "SAM0" THEN rtc
       ELSE Half(seen, TRUE) + Half(rtc, FALSE)

ReadDate ==
    /\ board = "SAM" /\ g_time_set
    /\ \/ pc = "get_time" /\ ~held /\ pc' = "get_time_date"
       \/ pc = "connect" /\ pc' = "connect_date"
    /\ seen' = rtc
    /\ UNCHANGED <<board, now, rtc, g_time_set, radio, held, iat, byKit>>

(* The client is at a call of time_utils_get_utc that is about to return. *)
Reads(place, inside) ==
    \/ pc = place /\ (board = "SAM0" \/ ~g_time_set)
    \/ pc = inside

\* client_state_get_time, with the clock unset: ask, and wait before the next try.
AskTime ==
    /\ Reads("get_time", "get_time_date") /\ ~held /\ Utc = 0
    /\ \/ requests + Len(replies) < MaxRequests /\ requests' = requests + 1
       \/ UNCHANGED requests            \* the WIFI machine is not READY
    /\ held' = TRUE /\ pc' = "get_time"
    /\ UNCHANGED <<board, now, rtc, g_time_set, replies, seen, iat, byKit>>

\* Mutant: the counter is set again in every turn.
client_counter_finished_set_again ==
    /\ held
    /\ UNCHANGED vars

client_counter_finished ==
    /\ held /\ held' = FALSE
    /\ UNCHANGED <<board, now, rtc, g_time_set, radio, pc, seen, iat, byKit>>

client_state_get_time ==
    /\ Reads("get_time", "get_time_date") /\ ~held /\ Utc # 0
    /\ pc' = "connect"
    /\ UNCHANGED <<board, now, rtc, g_time_set, radio, held, seen, iat, byKit>>

\* config_get_client_password
config_get_client_password ==
    /\ Reads("connect", "connect_date")
    /\ iat' = Utc
    /\ pc' = "connected"
    /\ UNCHANGED <<board, now, rtc, g_time_set, radio, held, seen, byKit>>

\* The connection ends and the client starts over with a new token.
Reconnect ==
    /\ pc = "connected" /\ pc' = "connect"
    /\ UNCHANGED <<board, now, rtc, g_time_set, radio, held, seen, iat, byKit>>

Next ==
    \/ Tick \/ AnswerTime \/ AnswerNothing \/ Lose \/ KitSetTime
    \/ process_time \/ ReadDate \/ AskTime \/ client_counter_finished
    \/ client_state_get_time \/ config_get_client_password \/ Reconnect

Spec == Init /\ [][Next]_vars

(* The main loop and the timer run on.  Of the radio it is assumed that a  *)
(* client that keeps asking is READY to ask time and again, and that a     *)
(* WINC1500 that keeps being asked answers with the time in the end.       *)
FairSpec ==
    /\ Spec
    /\ WF_vars(process_time) /\ WF_vars(ReadDate) /\ WF_vars(client_counter_finished)
    /\ WF_vars(client_state_get_time) /\ WF_vars(config_get_client_password)
    /\ WF_vars(AskTime) /\ SF_vars(AskTime /\ requests' # requests)
    /\ SF_vars(AnswerTime)
----------------------------------------------------------------------------
(* A clock that the host does not set is behind by no more than the time   *)
(* one answer of the WINC1500 takes, however many are on their way         *)
(* (wifi_task.c:285-307).                                                  *)
ClockTrails == g_time_set /\ ~byKit => now - rtc \in 0..MaxDelay

(* Once set, the clock only runs on: an answer to a repeated request never *)
(* puts it back, and never overrides the host (wifi_task.c:296).           *)
ClockRunsOn == [][g_time_set => rtc' \in {rtc, rtc + 1} \/ KitSetTime]_vars

(* A token is never signed for a time to come, and it is as old as the     *)
(* clock is behind; on SAM it may be one day older, because the date and   *)
(* the time are read one after the other (time_utils.c:81-82).             *)
TokenIsTimely ==
    [][config_get_client_password /\ ~byKit =>
          now - iat' \in 0..MaxDelay + (IF board = "SAM" THEN Day ELSE 0)]_vars

(* The client gets the time and connects, though requests and answers are  *)
(* lost or come without a time (client_task.c:232-245).                    *)
TimeObtained == <>(pc = "connected")
============================================================================
