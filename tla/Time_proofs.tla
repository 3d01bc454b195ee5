---------------------------- MODULE Time_proofs ----------------------------
(***************************************************************************)
(* Proofs about time on the device: the clock and who sets it              *)
(* (DeviceClock), the conversion of a date (TimeUtils) and the timers of   *)
(* the MQTT client (PahoTimer). The three share no state.                  *)
(***************************************************************************)
EXTENDS DeviceClock, TimeUtils, PahoTimer, TLAPS

-----------------------------------------------------------------------------
(* The clock, for every delay, length of the day and number of requests.   *)
(* The invariant bounds the age of the answers on their way and says that  *)
(* the clock moves by at most a second while it is read.                   *)

ClockTypes ==
    /\ board \in {"SAM0", "SAM"} /\ now \in Nat /\ rtc \in Nat /\ seen \in Nat
    /\ g_time_set \in BOOLEAN /\ byKit \in BOOLEAN
    /\ requests \in Nat /\ replies \in Seq(Nat)
RepliesTimely ==
    \A i \in 1..Len(replies) :
        replies[i] = 0 \/ (replies[i] <= now /\ now - replies[i] <= MaxDelay)
ReadInTime ==
    Reading => g_time_set /\ board = "SAM" /\ (rtc = seen \/ rtc = seen + 1)
ConnectHasTime ==
    pc \in {"connect", "connect_date", "connected"} => g_time_set

ClockInv == ClockTypes /\ RepliesTimely /\ ReadInTime /\ ConnectHasTime /\ ClockTrails
LEMMA Division ==
    ASSUME NEW d \in Nat \ {0}, NEW t \in Nat
    PROVE  t = d * (t \div d) + (t % d) /\ t \div d \in Nat /\ t % d \in 0..d - 1
  BY SMT

LEMMA Remainder ==
    ASSUME NEW d \in Nat \ {0}, NEW q \in Nat, NEW r \in 0..d - 1
    PROVE  (d * q + r) % d = r
  BY SMT

LEMMA Beginning ==
    ASSUME NEW d \in Nat \ {0}, NEW t \in Nat
    PROVE  t - (t % d) \in Nat
<1>1. t = d * (t \div d) + (t % d) /\ t \div d \in Nat /\ t % d \in 0..d - 1
  BY Division
<1>2. d * (t \div d) \in Nat
  BY <1>1, SMT
<1>. QED  BY <1>1, <1>2, SMT

(* What follows a second in a day. *)
LEMMA NextSecond ==
    ASSUME NEW d \in Nat \ {0}, NEW t \in Nat
    PROVE  \/ (t + 1) % d = (t % d) + 1
           \/ (t + 1) % d = 0 /\ t % d = d - 1
<1> DEFINE q == t \div d
           r == t % d
<1>1. q \in Nat /\ r \in 0..d - 1 /\ t = d * q + r
  BY Division
<1> HIDE DEF q, r
<1>2. CASE r < d - 1
  <2>1. r + 1 \in 0..d - 1 /\ t + 1 = d * q + (r + 1)  BY <1>1, <1>2, SMT
  <2>2. (t + 1) % d = r + 1  BY <1>1, <2>1, Remainder
  <2>. QED  BY <2>2 DEF r
<1>3. CASE r = d - 1
  <2>1. q + 1 \in Nat /\ 0 \in 0..d - 1 /\ t + 1 = d * (q + 1) + 0  BY <1>1, <1>3, SMT
  <2>2. (t + 1) % d = 0  BY <2>1, Remainder
  <2>. QED  BY <1>3, <2>2 DEF r
<1>. QED  BY <1>1, <1>2, <1>3, SMT

(* Reading the clock gives what it shows, or a day less.                   *)
LEMMA UtcRead ==
    ASSUME ClockTypes, ReadInTime, g_time_set,
           Reads("connect", "connect_date")
    PROVE  Utc = rtc \/ (board = "SAM" /\ Utc = rtc - Day)
<1>1. Day \in Nat \ {0} /\ rtc \in Nat /\ seen \in Nat
  BY MinuteAssumption DEF ClockTypes
<1>2. CASE board = "SAM0"
  BY <1>2 DEF Utc
<1>3. CASE board # "SAM0"
  <2>1. Reading /\ board = "SAM"
    BY <1>3 DEF Reads, Reading, ClockTypes
  <2>2. Utc = (seen - (seen % Day)) + (rtc % Day)
    BY <1>3 DEF Utc, Half
  <2>3. seen % Day \in 0..Day - 1 /\ rtc % Day \in 0..Day - 1
    BY <1>1, Division
  <2>4. CASE rtc = seen
    BY <1>1, <2>2, <2>3, <2>4, SMT
  <2>5. CASE rtc = seen + 1
    <3>1. \/ rtc % Day = (seen % Day) + 1
          \/ rtc % Day = 0 /\ seen % Day = Day - 1
      BY <1>1, <2>5, NextSecond
    <3>2. CASE rtc % Day = (seen % Day) + 1
      BY <1>1, <2>2, <2>3, <2>5, <3>2, SMT
    <3>3. CASE rtc % Day = 0 /\ seen % Day = Day - 1
      <4>1. Utc = rtc - Day  BY <1>1, <2>2, <2>5, <3>3, SMT
      <4>. QED  BY <2>1, <4>1
    <3>. QED  BY <3>1, <3>2, <3>3
  <2>. QED  BY <2>1, <2>4, <2>5 DEF ReadInTime
<1>. QED  BY <1>2, <1>3
LEMMA InitClock == Init => ClockInv
<1>. SUFFICES ASSUME Init PROVE ClockInv
  OBVIOUS
<1>1. ClockTypes
  <2>1. <<>> \in Seq(Nat) /\ 0 \in Nat  BY SMT
  <2>. QED  BY <2>1, MinuteAssumption, BoardsAssumption DEF Init, ClockTypes
<1>2. RepliesTimely
  BY SMT DEF Init, RepliesTimely
<1>. QED  BY <1>1, <1>2 DEF Init, ClockInv, ReadInTime, ConnectHasTime, ClockTrails, Reading

LEMMA StepClock == ClockInv /\ [Next]_vars => ClockInv'
<1>. SUFFICES ASSUME ClockInv, [Next]_vars PROVE ClockInv'
  OBVIOUS
<1>0. ClockTypes /\ RepliesTimely /\ ReadInTime /\ ConnectHasTime /\ ClockTrails
  BY DEF ClockInv
<1>. USE <1>0
<1>. USE MinuteAssumption, BoundsAssumption
<1>1. CASE Tick
  <2>1. /\ now' = now + 1 /\ rtc' = (IF g_time_set THEN rtc + 1 ELSE rtc)
        /\ replies' = replies /\ g_time_set' = g_time_set /\ byKit' = byKit
        /\ pc' = pc /\ seen' = seen /\ board' = board /\ requests' = requests
    BY <1>1 DEF Tick, radio, client
  <2>2. RepliesTimely'
    BY <1>1, <2>1, SMT DEF Tick, RepliesTimely, ClockTypes
  <2>3. ReadInTime'
    BY <1>1, <2>1 DEF Tick, ReadInTime, Reading
  <2>4. ClockTrails'
    BY <2>1, SMT DEF ClockTrails, ClockTypes
  <2>5. ClockTypes'
    BY <2>1, SMT DEF ClockTypes
  <2>. QED  BY <2>1, <2>2, <2>3, <2>4, <2>5 DEF ClockInv, ConnectHasTime
<1>2. ASSUME NEW t \in {0, now}, Answer(t) PROVE ClockInv'
  <2>1. /\ replies' = Append(replies, t) /\ requests' = requests - 1 /\ requests > 0
        /\ now' = now /\ rtc' = rtc /\ g_time_set' = g_time_set /\ byKit' = byKit
        /\ pc' = pc /\ seen' = seen /\ board' = board
    BY <1>2 DEF Answer, client
  <2>2. t \in Nat  BY DEF ClockTypes
  <2>3. ClockTypes'
    BY <2>1, <2>2, SMT DEF ClockTypes
  <2>4. RepliesTimely'
    <3>1. ASSUME NEW i \in 1..Len(replies')
          PROVE  replies'[i] = t \/ (i \in 1..Len(replies) /\ replies'[i] = replies[i])
      BY <2>1, <2>2, SMT DEF ClockTypes
    <3>2. now - now = 0 /\ now <= now  BY SMT DEF ClockTypes
    <3>. QED  BY <2>1, <3>1, <3>2, SMT DEF RepliesTimely
  <2>. QED  BY <2>1, <2>3, <2>4 DEF ClockInv, ReadInTime, Reading, ConnectHasTime, ClockTrails
<1>3. CASE Lose
  <2>1. requests' \in Nat
    BY <1>3, SMT DEF Lose, ClockTypes
  <2>. QED
    BY <1>3, <2>1 DEF Lose, client, ClockInv, ClockTypes, RepliesTimely, ReadInTime, Reading,
                      ConnectHasTime, ClockTrails
<1>4. CASE KitSetTime
  <2>1. rtc' \in Nat
    <3>1. now % Minute \in 0..Minute - 1 /\ now = Minute * (now \div Minute) + (now % Minute)
          /\ now \div Minute \in Nat
      BY Division DEF ClockTypes
    <3>2. (now \div Minute) % Minute \in 0..Minute - 1
      BY <3>1, Division
    <3>3. now - (now % Minute) \in Nat
      BY Beginning DEF ClockTypes
    <3>. QED  BY <1>4, <3>2, <3>3, SMT DEF KitSetTime
  <2>. QED
    BY <1>4, <2>1 DEF KitSetTime, radio, client, ClockInv, ClockTypes, RepliesTimely, ReadInTime,
                      Reading, ConnectHasTime, ClockTrails
<1>5. CASE process_time
  <2>1. /\ replies # <<>> /\ ~Reading /\ replies' = Tail(replies)
        /\ now' = now /\ requests' = requests /\ byKit' = byKit
        /\ pc' = pc /\ seen' = seen /\ board' = board
    BY <1>5 DEF process_time, client
  <2>2. /\ replies' \in Seq(Nat) /\ 1 \in 1..Len(replies) /\ Head(replies) = replies[1]
        /\ Head(replies) \in Nat
        /\ \A i \in 1..Len(replies') : i + 1 \in 1..Len(replies) /\ replies'[i] = replies[i + 1]
    BY <2>1, SMT DEF ClockTypes
  <2>3. RepliesTimely'
    BY <2>1, <2>2 DEF RepliesTimely
  <2>4. CASE Head(replies) # 0 /\ ~g_time_set
    <3>1. rtc' = replies[1] /\ g_time_set' = TRUE
      BY <1>5, <2>2, <2>4 DEF process_time
    <3>2. replies[1] <= now /\ now - replies[1] <= MaxDelay
      BY <2>2, <2>4 DEF RepliesTimely
    <3>3. ClockTrails'
      BY <2>1, <2>2, <3>1, <3>2, SMT DEF ClockTrails, ClockTypes
    <3>. QED  BY <2>1, <2>2, <2>3, <3>1, <3>3
                 DEF ClockInv, ClockTypes, ReadInTime, Reading, ConnectHasTime
  <2>5. CASE ~(Head(replies) # 0 /\ ~g_time_set)
    BY <1>5, <2>1, <2>2, <2>3, <2>5
    DEF process_time, ClockInv, ClockTypes, ReadInTime, Reading, ConnectHasTime, ClockTrails
  <2>. QED  BY <2>4, <2>5
<1>6. CASE ReadDate
  BY <1>6 DEF ReadDate, radio, ClockInv, ClockTypes, RepliesTimely, ReadInTime, Reading,
              ConnectHasTime, ClockTrails
<1>7. CASE AskTime
  <2>1. requests' \in Nat /\ pc' = "get_time"
    BY <1>7, SMT DEF AskTime, ClockTypes
  <2>. QED
    BY <1>7, <2>1 DEF AskTime, ClockInv, ClockTypes, RepliesTimely, ReadInTime, Reading,
                      ConnectHasTime, ClockTrails
<1>8. CASE client_counter_finished
  BY <1>8 DEF client_counter_finished, radio, ClockInv, ClockTypes, RepliesTimely, ReadInTime,
              Reading, ConnectHasTime, ClockTrails
<1>9. CASE client_state_get_time
  BY <1>9 DEF client_state_get_time, Utc, radio, ClockInv, ClockTypes, RepliesTimely, ReadInTime,
              Reading, ConnectHasTime, ClockTrails
<1>10. CASE config_get_client_password
  <2>1. g_time_set
    BY <1>10 DEF config_get_client_password, Reads, ConnectHasTime
  <2>. QED
    BY <1>10, <2>1 DEF config_get_client_password, radio, ClockInv, ClockTypes, RepliesTimely,
                       ReadInTime, Reading, ConnectHasTime, ClockTrails
<1>11. CASE Reconnect
  BY <1>11 DEF Reconnect, radio, ClockInv, ClockTypes, RepliesTimely, ReadInTime, Reading,
               ConnectHasTime, ClockTrails
<1>12. CASE UNCHANGED vars
  BY <1>12 DEF vars, ClockInv, ClockTypes, RepliesTimely, ReadInTime, Reading, ConnectHasTime,
               ClockTrails
<1>13. AnswerTime \/ AnswerNothing => ClockInv'
  BY <1>2 DEF AnswerTime, AnswerNothing
<1>. QED  BY <1>1, <1>3, <1>4, <1>5, <1>6, <1>7, <1>8, <1>9, <1>10, <1>11, <1>12, <1>13
             DEF Next

LEMMA ClockInductive == Spec => []ClockInv
  BY InitClock, StepClock, PTL DEF Spec
(* The clock is never ahead, and behind by at most the age of one answer.  *)
THEOREM ClockNeverFarOff == Spec => []ClockTrails
<1>1. ClockInv => ClockTrails  BY DEF ClockInv
<1>. QED  BY <1>1, ClockInductive, PTL

(* Once the clock is set nothing but the host and time itself moves it.    *)
THEOREM ClockOnlyRunsOn == Spec => ClockRunsOn
<1>1. ClockInv /\ [Next]_vars => [g_time_set => rtc' \in {rtc, rtc + 1} \/ KitSetTime]_vars
  BY SMT DEF Next, Tick, AnswerTime, AnswerNothing, Answer, Lose, process_time, ReadDate,
             AskTime, client_counter_finished, client_state_get_time,
             config_get_client_password, Reconnect
<1>. QED  BY <1>1, ClockInductive, PTL DEF Spec, ClockRunsOn

(* A token is not signed for the future, and is never older than an answer *)
(* may take, plus a day where date and time are read separately.           *)
THEOREM TokensAreTimely == Spec => TokenIsTimely
<1>1. ClockInv /\ [Next]_vars =>
        [config_get_client_password /\ ~byKit =>
            now - iat' \in 0..MaxDelay + (IF board = "SAM" THEN Day ELSE 0)]_vars
  <2>. SUFFICES ASSUME ClockInv, config_get_client_password, ~byKit
                PROVE  now - iat' \in 0..MaxDelay + (IF board = "SAM" THEN Day ELSE 0)
    OBVIOUS
  <2>1. ClockTypes /\ ReadInTime /\ g_time_set /\ Reads("connect", "connect_date") /\ iat' = Utc
    BY DEF ClockInv, config_get_client_password, Reads, ConnectHasTime
  <2>2. Utc = rtc \/ (board = "SAM" /\ Utc = rtc - Day)
    BY <2>1, UtcRead
  <2>3. now - rtc \in 0..MaxDelay
    BY <2>1 DEF ClockInv, ClockTrails
  <2>4. now \in Nat /\ rtc \in Nat /\ Day \in Nat /\ MaxDelay \in Nat
    BY <2>1, MinuteAssumption, BoundsAssumption DEF ClockTypes
  <2>. QED  BY <2>1, <2>2, <2>3, <2>4, SMT
<1>. QED  BY <1>1, ClockInductive, PTL DEF Spec, TokenIsTimely

-----------------------------------------------------------------------------
(* The calendar. The conversion to Unix time is right for every date, not  *)
(* only for those a run walks through: each step of the calendar adds one  *)
(* day to the formula.                                                     *)

\* The year of the formula begins with March, so that its leap day is its
\* last: a year adds 365 days, and one more when the next February has 29.
LEMMA YearAdds ==
    ASSUME NEW y \in Nat, y >= 1970
    PROVE  YearDays(y) = YearDays(y - 1) + (IF Leap(y) THEN 366 ELSE 365)
<1>1. /\ (y \div 4) - ((y - 1) \div 4) = IF y % 4 = 0 THEN 1 ELSE 0
      /\ (y \div 100) - ((y - 1) \div 100) = IF y % 100 = 0 THEN 1 ELSE 0
      /\ (y \div 400) - ((y - 1) \div 400) = IF y % 400 = 0 THEN 1 ELSE 0
  BY SMT
<1>2. (y % 400 = 0 => y % 100 = 0) /\ (y % 100 = 0 => y % 4 = 0)
  BY SMT
<1> QED
  BY SMT, <1>1, <1>2 DEF YearDays, Leap

\* Within the formula's year, 30 m + 3 (m + 1) / 5 knows which months have 31
\* days.
LEMMA MonthAdds ==
    ASSUME NEW y \in Nat, NEW m \in 1 .. 12, m # 2
    PROVE  LET next == IF m = 12 THEN 13 ELSE ShiftedMonth(m + 1)
           IN  MonthDays(next) = MonthDays(ShiftedMonth(m)) + MonthLength(y, m)
  BY SMT DEF MonthDays, ShiftedMonth, MonthLength

\* The day after the last one of a month is the first of the next.
LEMMA NextMonthAdds ==
    ASSUME NEW y \in Nat, y >= 1970, NEW m \in 1 .. 11
    PROVE  DaysSince1970(y, m + 1, 1) = DaysSince1970(y, m, MonthLength(y, m)) + 1
<1>1. CASE m = 2
  <2>1. /\ ShiftedYear(y, 2) = y - 1 /\ ShiftedMonth(2) = 14
        /\ ShiftedYear(y, 3) = y /\ ShiftedMonth(3) = 3
    BY SMT DEF ShiftedYear, ShiftedMonth
  <2>2. MonthDays(14) = 429 /\ MonthDays(3) = 92
    BY SMT DEF MonthDays
  <2>3. YearDays(y - 1) \in Int /\ YearDays(y) \in Int
    BY SMT DEF YearDays
  <2> QED
    BY SMT, <1>1, <2>1, <2>2, <2>3, YearAdds DEF DaysSince1970, MonthLength
<1>2. CASE m # 2
  <2>1. ShiftedYear(y, m + 1) = ShiftedYear(y, m)
    BY SMT, <1>2 DEF ShiftedYear
  <2>2. MonthDays(ShiftedMonth(m + 1)) = MonthDays(ShiftedMonth(m)) + MonthLength(y, m)
    BY SMT, <1>2, MonthAdds
  <2>3. /\ YearDays(ShiftedYear(y, m)) \in Int
        /\ MonthDays(ShiftedMonth(m)) \in Int
        /\ MonthLength(y, m) \in Int
    BY SMT DEF YearDays, MonthDays, MonthLength, ShiftedYear, ShiftedMonth
  <2> QED
    BY SMT, <2>1, <2>2, <2>3 DEF DaysSince1970
<1> QED
  BY <1>1, <1>2

LEMMA NextYearAdds ==
    ASSUME NEW y \in Nat, y >= 1970
    PROVE  DaysSince1970(y + 1, 1, 1) = DaysSince1970(y, 12, 31) + 1
<1>1. /\ ShiftedYear(y + 1, 1) = y /\ ShiftedMonth(1) = 13
      /\ ShiftedYear(y, 12) = y /\ ShiftedMonth(12) = 12
  BY SMT DEF ShiftedYear, ShiftedMonth
<1>2. MonthDays(13) = 398 /\ MonthDays(12) = 367
  BY SMT DEF MonthDays
<1>3. YearDays(y) \in Int
  BY SMT DEF YearDays
<1> QED
  BY SMT, <1>1, <1>2, <1>3 DEF DaysSince1970

\* Within a month the formula counts the day.
LEMMA NextDayAdds ==
    ASSUME NEW y \in Nat, NEW m \in 1 .. 12, NEW d \in Nat
    PROVE  DaysSince1970(y, m, d + 1) = DaysSince1970(y, m, d) + 1
<1>1. YearDays(ShiftedYear(y, m)) \in Int /\ MonthDays(ShiftedMonth(m)) \in Int
  BY SMT DEF YearDays, MonthDays, ShiftedYear, ShiftedMonth
<1> QED
  BY SMT, <1>1 DEF DaysSince1970

(* The calendar *)

CalendarInv == CalendarOK /\ DaysAreElapsed

LEMMA InitCalendar == CalendarInit => CalendarInv
<1>1. DaysSince1970(1970, 1, 1) = 0
  BY SMT DEF DaysSince1970, YearDays, MonthDays, ShiftedYear, ShiftedMonth
<1> QED
  BY SMT, <1>1 DEF CalendarInit, CalendarInv, CalendarOK, DaysAreElapsed, MonthLength

LEMMA StepCalendar == CalendarInv /\ [CalendarNext]_calendarVars => CalendarInv'
<1> SUFFICES ASSUME CalendarInv, [CalendarNext]_calendarVars
             PROVE  CalendarInv'
  OBVIOUS
<1>0. \A y \in Nat, m \in 1 .. 12 : MonthLength(y, m) \in 28 .. 31
  BY SMT DEF MonthLength
<1>1. CASE NextDay
  <2>1. CalendarOK'
    BY SMT, <1>0, <1>1 DEF NextDay, CalendarInv, CalendarOK
  <2>2. DaysSince1970(year, month, day + 1) = DaysSince1970(year, month, day) + 1
    BY SMT, <1>0, NextDayAdds DEF CalendarInv, CalendarOK
  <2> QED
    BY SMT, <1>1, <2>1, <2>2 DEF NextDay, CalendarInv, DaysAreElapsed
<1>2. CASE NextMonth
  <2>1. CalendarOK'
    BY SMT, <1>0, <1>2 DEF NextMonth, CalendarInv, CalendarOK
  <2>2. DaysSince1970(year, month + 1, 1) = DaysSince1970(year, month, day) + 1
    BY SMT, <1>2, NextMonthAdds DEF NextMonth, CalendarInv, CalendarOK
  <2> QED
    BY SMT, <1>2, <2>1, <2>2 DEF NextMonth, CalendarInv, DaysAreElapsed
<1>3. CASE NextYear
  <2>1. day = 31
    BY SMT, <1>3 DEF NextYear, MonthLength
  <2>2. CalendarOK'
    BY SMT, <1>0, <1>3 DEF NextYear, CalendarInv, CalendarOK
  <2>3. DaysSince1970(year + 1, 1, 1) = DaysSince1970(year, month, day) + 1
    BY SMT, <1>3, <2>1, NextYearAdds DEF NextYear, CalendarInv, CalendarOK
  <2> QED
    BY SMT, <1>3, <2>2, <2>3 DEF NextYear, CalendarInv, DaysAreElapsed
<1>4. CASE UNCHANGED calendarVars
  BY SMT, <1>4 DEF calendarVars, CalendarInv, CalendarOK, DaysAreElapsed
<1> QED
  BY <1>1, <1>2, <1>3, <1>4 DEF CalendarNext

\* Whatever the date, the formula of time_utils_convert is the number of days
\* since January 1st, 1970.
THEOREM CalendarExact == CalendarSpec => []DaysAreElapsed
<1>1. CalendarInv => DaysAreElapsed
  BY DEF CalendarInv
<1> QED
  BY InitCalendar, StepCalendar, <1>1, PTL DEF CalendarSpec

\* Until the word is full, none of the unsigned operations wraps, at any time
\* of any day.
LEMMA ConvertExact ==
    ASSUME CalendarInv, NEW h \in Nat, NEW m \in Nat, NEW s \in Nat,
           days * 86400 + h * 3600 + m * 60 + s < Word
    PROVE  time_utils_convert(year, month, day, h, m, s) =
               days * 86400 + h * 3600 + m * 60 + s
<1> DEFINE n == days * 86400 + h * 3600 + m * 60 + s
<1>1. DaysSince1970(year, month, day) = days /\ days \in Nat
  BY DEF CalendarInv, CalendarOK, DaysAreElapsed
<1>2. n \in Nat /\ n < Word /\ Word \in Nat
  BY SMT, <1>1, WordAssumption DEF WordAssumption
<1>3. time_utils_convert(year, month, day, h, m, s) = n % Word
  BY SMT, <1>1 DEF time_utils_convert
<1>4. n % Word = n
  <2> HIDE DEF n
  <2> QED
    BY SMT, <1>2
<1> QED
  BY <1>3, <1>4

\* Until February 7th, 2106, when 32 bits are full, the result of
\* time_utils_convert is the number of seconds since the epoch.
THEOREM UnixTimeExact == CalendarSpec => []SecondsAreElapsed
<1>1. CalendarInv => SecondsAreElapsed
  <2> SUFFICES ASSUME CalendarInv, days < Word \div 86400, NEW t \in SecondsOfDay
               PROVE  time_utils_convert(year, month, day, t[1], t[2], t[3]) = Elapsed(t)
    BY DEF SecondsAreElapsed, CalendarInv
  <2>1. /\ t[1] \in Nat /\ t[2] \in Nat /\ t[3] \in Nat
        /\ t[1] * 3600 + t[2] * 60 + t[3] < 86400
    BY SMT DEF SecondsOfDay
  <2>2. days \in Nat /\ 86400 * (Word \div 86400) <= Word /\ Word \div 86400 \in Nat
    BY SMT, WordAssumption DEF CalendarInv, CalendarOK
  <2>3. days * 86400 + t[1] * 3600 + t[2] * 60 + t[3] < Word
    <3>1. days * 86400 + 86400 <= (Word \div 86400) * 86400
      BY SMT, <2>2
    <3>2. PICK of \in Nat : of = t[1] * 3600 + t[2] * 60 + t[3]
      BY SMT, <2>1
    <3>3. days * 86400 + of < Word
      BY SMT, <2>1, <2>2, <3>1, <3>2, WordAssumption
    <3> QED
      BY SMT, <2>1, <2>2, <3>2, <3>3
  <2> QED
    BY <2>1, <2>3, ConvertExact DEF Elapsed
<1> QED
  BY InitCalendar, StepCalendar, <1>1, PTL DEF CalendarSpec

-----------------------------------------------------------------------------
(* The timers, for every period, width of the counter and set of timeouts. *)

\* The time that a pair of whole milliseconds stands for.
Millis(t) == t.tv_sec * 1000 + t.tv_usec \div 1000

\* The pairs the timers compute with: normalised and whole milliseconds.
Timevals ==
    {t \in [tv_sec : Int, tv_usec : Nat] : t.tv_usec < 1000000 /\ t.tv_usec % 1000 = 0}

\* Splitting milliseconds into seconds and microseconds loses nothing.
LEMMA TimevalMillis ==
    ASSUME NEW ms \in Nat
    PROVE  /\ Timeval(ms) \in Timevals
           /\ Timeval(ms).tv_sec \in Nat
           /\ Millis(Timeval(ms)) = ms
<1>1. /\ ms \div 1000 \in Nat /\ ms % 1000 \in 0 .. 999
      /\ ms = 1000 * (ms \div 1000) + (ms % 1000)
  BY SMT
<1>2. /\ (ms % 1000) * 1000 \in Nat /\ (ms % 1000) * 1000 < 1000000
      /\ ((ms % 1000) * 1000) \div 1000 = ms % 1000
      /\ ((ms % 1000) * 1000) % 1000 = 0
  BY SMT, <1>1
<1> QED
  BY SMT, <1>1, <1>2 DEF Timeval, Timevals, Millis

\* The carry of timer_add and the borrow of timer_subtract keep the pairs
\* normalised: they add and subtract milliseconds.
LEMMA AddMillis ==
    ASSUME NEW a \in Timevals, NEW b \in Timevals
    PROVE  /\ timer_add(a, b) \in Timevals
           /\ a.tv_sec \in Nat /\ b.tv_sec \in Nat => timer_add(a, b).tv_sec \in Nat
           /\ Millis(timer_add(a, b)) = Millis(a) + Millis(b)
  BY SMT DEF timer_add, Timevals, Millis

LEMMA SubtractMillis ==
    ASSUME NEW a \in Timevals, NEW b \in Timevals
    PROVE  /\ timer_subtract(a, b) \in Timevals
           /\ Millis(timer_subtract(a, b)) = Millis(a) - Millis(b)
  BY SMT DEF timer_subtract, Timevals, Millis

(* What get_time_of_day returns: no later than now, less than a second     *)
(* earlier, and exactly now if the interrupt did not come in between.      *)

\* Now, on a counter that goes on where the first read was.
Unwrapped == first + (IF interrupted THEN Period ELSE 0)

CallReads ==
    InCall \/ call = "answered" =>
        g_timer_val = IF Unwrapped < Wrap THEN Unwrapped ELSE Unwrapped - Wrap

LEMMA TimeNowMillis ==
    ASSUME CounterOK, CallReads, InCall \/ call = "answered",
           WrapAssumption, PeriodAssumption
    PROVE  /\ TimeNow \in Timevals /\ TimeNow.tv_sec \in Nat
           /\ Millis(TimeNow) \in Nat
           /\ Millis(TimeNow) <= Unwrapped
           /\ Unwrapped <= Millis(TimeNow) + 1000
           /\ ~interrupted => Millis(TimeNow) = Unwrapped
<1> USE WrapAssumption, PeriodAssumption DEF CounterOK
<1> DEFINE s == first \div 1000
           f == first % 1000
           u == g_timer_val % 1000
           q == g_timer_val \div 1000
<1>1. /\ s \in Nat /\ f \in 0 .. 999 /\ first = 1000 * s + f
      /\ q \in Nat /\ u \in 0 .. 999 /\ g_timer_val = 1000 * q + u
  BY SMT
<1>2. /\ u * 1000 \in Nat /\ u * 1000 < 1000000
      /\ (u * 1000) \div 1000 = u /\ (u * 1000) % 1000 = 0
  BY SMT, <1>1
<1>3. /\ TimeNow \in Timevals /\ TimeNow.tv_sec = s
      /\ Millis(TimeNow) = 1000 * s + u
  BY SMT, <1>1, <1>2 DEF TimeNow, Timevals, Millis
<1>4. CASE ~interrupted
  <2>1. Unwrapped = first /\ g_timer_val = first
    BY SMT, <1>4 DEF CallReads, Unwrapped
  <2> QED
    BY SMT, <1>1, <1>3, <2>1
<1>5. CASE interrupted /\ first + Period < Wrap
  <2>1. Unwrapped = first + Period /\ g_timer_val = first + Period
    BY SMT, <1>5 DEF CallReads, Unwrapped
  <2> HIDE DEF s, f, u, q
  <2>2. q = s \/ q = s + 1
    BY SMT, <1>1, <2>1
  <2>3. CASE q = s
    BY SMT, <1>1, <1>3, <1>5, <2>1, <2>3
  <2>4. CASE q = s + 1
    BY SMT, <1>1, <1>3, <1>5, <2>1, <2>4
  <2> QED
    BY SMT, <2>2, <2>3, <2>4
<1>6. CASE interrupted /\ first + Period >= Wrap
  <2>1. Unwrapped = first + Period /\ g_timer_val = first + Period - Wrap
    BY SMT, <1>6 DEF CallReads, Unwrapped
  <2> DEFINE v == Wrap \div 1000
             w == Wrap % 1000
  <2>2. v \in Nat /\ w \in 0 .. 999 /\ Wrap = 1000 * v + w /\ Period <= w
    BY SMT
  <2> HIDE DEF s, f, u, q, v, w
  <2>3. s = v /\ q = 0
    BY SMT, <1>1, <1>6, <2>1, <2>2
  <2> QED
    BY SMT, <1>1, <1>3, <1>6, <2>1, <2>2, <2>3
<1> QED
  BY <1>4, <1>5, <1>6, <1>3, <1>1, SMT

(* Expiry *)

\* In terms of milliseconds, a timer is found expired when the time that was
\* read has reached its end, and what is left is the difference.
LEMMA ExpiredMillis ==
    ASSUME end_time \in Timevals, TimeNow \in Timevals
    PROVE  /\ Millis(end_time) \in Int /\ Millis(TimeNow) \in Int
           /\ TimerIsExpired <=> Millis(TimeNow) >= Millis(end_time)
           /\ TimerLeftMS = IF Millis(TimeNow) >= Millis(end_time) THEN 0
                            ELSE Millis(end_time) - Millis(TimeNow)
<1>1. /\ Remaining \in Timevals
      /\ Millis(Remaining) = Millis(end_time) - Millis(TimeNow)
  BY SMT, SubtractMillis DEF Remaining
<1>2. Millis(end_time) \in Int /\ Millis(TimeNow) \in Int
  BY SMT DEF Millis, Timevals
<1>3. /\ TimerIsExpired <=> Millis(Remaining) <= 0
      /\ TimerLeftMS = IF Millis(Remaining) <= 0 THEN 0 ELSE Millis(Remaining)
  <2> DEFINE r == Remaining
  <2>1. /\ r \in [tv_sec : Int, tv_usec : Nat]
        /\ r.tv_usec < 1000000 /\ r.tv_usec % 1000 = 0
    BY SMT, <1>1 DEF Timevals
  <2>2. /\ r.tv_usec \div 1000 \in 0 .. 999
        /\ r.tv_usec = 1000 * (r.tv_usec \div 1000)
    BY SMT, <2>1
  <2> QED
    BY SMT, <2>1, <2>2 DEF TimerIsExpired, TimerLeftMS, Millis
<1> QED
  BY SMT, <1>1, <1>2, <1>3

(* Invariants *)

\* What the counter loses by wrapping only grows, and a call has read no more
\* of it; the end of a timer, read on the counter, is as far behind its due
\* time as the counter was when it was set, or a second further if that was
\* read with an interrupt.
SetBefore ==
    /\ wrapped <= elapsed - g_timer_val
    /\ InCall \/ call = "answered" => wrapped + Unwrapped <= elapsed
    /\ call \in Setters => wrapped + Unwrapped = elapsed

EndIsDue ==
    call \notin Setters =>
        \/ Millis(end_time) = 0 /\ due = 0
        \/ /\ Millis(end_time) + wrapped <= due
           /\ due <= Millis(end_time) + wrapped + 1000
           /\ ~tornSet => Millis(end_time) + wrapped = due

CounterInv == CounterOK /\ end_time \in Timevals /\ CallReads /\ SetBefore /\ EndIsDue

LEMMA InitCounter == CounterInit /\ WrapAssumption /\ PeriodAssumption => CounterInv
<1> SUFFICES ASSUME CounterInit, WrapAssumption, PeriodAssumption PROVE CounterInv
  OBVIOUS
<1>1. Millis(end_time) = 0 /\ end_time \in Timevals
  BY SMT DEF CounterInit, Millis, Timevals
<1>2. ~InCall /\ call = "idle" /\ call \notin Setters
  BY Zenon DEF CounterInit, InCall, Setters
<1>3. CounterOK
  <2>1. interrupted \in BOOLEAN /\ tornSet \in BOOLEAN
    BY Zenon DEF CounterInit
  <2>2. call \in Setters \cup {"idle", "ask", "answered"}
    BY Zenon DEF CounterInit
  <2> QED
    BY SMT, <2>1, <2>2 DEF CounterInit, CounterOK, WrapAssumption, PeriodAssumption
<1>4. CallReads /\ SetBefore /\ EndIsDue
  BY SMT, <1>1, <1>2 DEF CounterInit, CallReads, SetBefore, EndIsDue
<1> QED
  BY <1>1, <1>3, <1>4 DEF CounterInv

\* Both ways of setting the timer add the timeout to the time they have read.
LEMMA SetTimer ==
    ASSUME CounterInv, WrapAssumption, PeriodAssumption, call \in Setters,
           NEW t \in Timevals, t.tv_sec \in Nat, NEW ms \in Nat, Millis(t) = ms,
           Set(t, ms)
    PROVE  CounterInv'
<1>1. InCall
  BY SMT DEF InCall
<1>2. /\ TimeNow \in Timevals /\ TimeNow.tv_sec \in Nat
      /\ Millis(TimeNow) \in Nat
      /\ Millis(TimeNow) <= Unwrapped
      /\ Unwrapped <= Millis(TimeNow) + 1000
      /\ ~interrupted => Millis(TimeNow) = Unwrapped
  BY SMT, <1>1, TimeNowMillis DEF CounterInv
<1>3. /\ end_time' \in Timevals /\ end_time'.tv_sec \in Nat
      /\ Millis(end_time') = Millis(TimeNow) + ms
  BY SMT, <1>2, AddMillis DEF Set
<1>4. end_time' \in [tv_sec : Nat, tv_usec : Nat] /\ end_time'.tv_usec < 1000000
  BY SMT, <1>3 DEF Timevals
<1>5. CounterOK'
  BY SMT, <1>4 DEF Set, CounterInv, CounterOK, Setters
<1>6. ~InCall' /\ call' # "answered" /\ call' \notin Setters
  BY SMT DEF Set, InCall, Setters
<1>7. wrapped + Unwrapped = elapsed /\ Unwrapped \in Nat
  BY SMT, PeriodAssumption DEF CounterInv, SetBefore, CounterOK, Unwrapped
<1>8. EndIsDue'
  <2>1. /\ due' = elapsed + ms /\ tornSet' = interrupted /\ wrapped' = wrapped
        /\ wrapped \in Nat /\ elapsed \in Nat
    BY SMT DEF Set, CounterInv, CounterOK
  <2>2. Millis(end_time)' = Millis(TimeNow) + ms
    BY SMT, <1>3 DEF Millis
  <2> QED
    BY SMT, <1>2, <1>7, <2>1, <2>2 DEF EndIsDue
<1>9. SetBefore'
  BY SMT, <1>6 DEF SetBefore, Set, CounterInv
<1>10. CallReads'
  BY SMT, <1>6 DEF CallReads
<1> QED
  BY SMT, <1>3, <1>5, <1>8, <1>9, <1>10 DEF CounterInv

\* The end stays where it is.
LEMMA SameEnd ==
    ASSUME CounterInv, end_time' = end_time
    PROVE  /\ Millis(end_time)' = Millis(end_time) /\ Millis(end_time) \in Int
           /\ end_time' \in Timevals
  BY SMT DEF CounterInv, Millis, Timevals

LEMMA StepCounter ==
    ASSUME CounterInv, [CounterNext]_counterVars, WrapAssumption, PeriodAssumption, TimeoutAssumption
    PROVE  CounterInv'
<1> USE WrapAssumption, PeriodAssumption, TimeoutAssumption
<1>1. CASE TimerCallback
  <2>1. /\ Millis(end_time)' = Millis(end_time) /\ Millis(end_time) \in Int
        /\ end_time' \in Timevals
    BY SMT, <1>1, SameEnd DEF TimerCallback
  <2>2. CounterOK'
    BY SMT, <1>1 DEF TimerCallback, CounterInv, CounterOK, InCall
  <2>3. CallReads' /\ SetBefore'
    <3>1. CASE InCall
      <4>1. InCall' /\ ~interrupted /\ interrupted' /\ first' = first /\ call' = call
        <5>1. interrupted \in BOOLEAN
          BY SMT DEF CounterInv, CounterOK
        <5> QED
          BY Zenon, <1>1, <3>1, <5>1 DEF TimerCallback, InCall, Setters
      <4>2. Unwrapped = first /\ Unwrapped' = first + Period /\ g_timer_val = first
        BY SMT, <3>1, <4>1 DEF Unwrapped, CounterInv, CounterOK, CallReads
      <4> QED
        BY SMT, <1>1, <3>1, <4>1, <4>2 DEF TimerCallback, CounterInv, CounterOK, CallReads, SetBefore
    <3>2. CASE ~InCall
      <4>1. ~InCall' /\ call' # "answered" /\ call' \notin Setters
        BY SMT, <1>1, <3>2 DEF TimerCallback, InCall, Setters
      <4> QED
        BY SMT, <1>1, <4>1 DEF TimerCallback, CounterInv, CounterOK, CallReads, SetBefore
    <3> QED
      BY SMT, <3>1, <3>2
  <2>4. EndIsDue'
    BY SMT, <1>1, <2>1 DEF TimerCallback, CounterInv, EndIsDue, Setters
  <2> QED
    BY SMT, <2>1, <2>2, <2>3, <2>4 DEF CounterInv
<1>2. CASE TimerInit
  <2>1. Millis(end_time)' = 0 /\ end_time' \in Timevals
    BY SMT, <1>2 DEF TimerInit, Millis, Timevals
  <2> QED
    <3>1. ~InCall' /\ call' = "idle" /\ call' \notin Setters
      BY Zenon, <1>2 DEF TimerInit, InCall, Setters
    <3>2. CounterOK'
      <4>1. tornSet' \in BOOLEAN
        BY Zenon, <1>2 DEF TimerInit
      <4>2. call' \in Setters \cup {"idle", "ask", "answered"}
        BY Zenon, <3>1
      <4> QED
        BY SMT, <1>2, <4>1, <4>2 DEF TimerInit, CounterInv, CounterOK, SetBefore
    <3>3. CallReads' /\ SetBefore' /\ EndIsDue'
      BY SMT, <1>2, <2>1, <3>1 DEF TimerInit, CounterInv, CounterOK, CallReads, SetBefore, EndIsDue
    <3> QED
      BY <2>1, <3>2, <3>3 DEF CounterInv
<1>3. ASSUME NEW caller \in Setters \cup {"ask"}, NEW argument \in Nat,
             ReadSeconds(caller, argument)
      PROVE  CounterInv'
  <2>1. /\ Millis(end_time)' = Millis(end_time) /\ Millis(end_time) \in Int
        /\ end_time' \in Timevals
    BY SMT, <1>3, SameEnd DEF ReadSeconds
  <2>2. CounterOK'
    <3>1. call' \in Setters \cup {"idle", "ask", "answered"}
      BY Zenon, <1>3 DEF ReadSeconds
    <3>2. wrapped' \in Nat
      BY SMT, <1>3 DEF ReadSeconds, CounterInv, CounterOK, SetBefore
    <3>3. interrupted' \in BOOLEAN
      BY Zenon, <1>3 DEF ReadSeconds
    <3> QED
      BY SMT, <1>3, <3>1, <3>2, <3>3 DEF ReadSeconds, CounterInv, CounterOK
  <2>3. CallReads' /\ SetBefore'
    BY SMT, <1>3 DEF ReadSeconds, CounterInv, CounterOK, CallReads, SetBefore, Unwrapped,
                   Setters
  <2>4. EndIsDue'
    BY SMT, <1>3, <2>1 DEF ReadSeconds, CounterInv, EndIsDue, InCall, Setters
  <2> QED
    BY SMT, <2>1, <2>2, <2>3, <2>4 DEF CounterInv
<1>4. CASE TimerCountdownMS
  <2>1. call \in Setters /\ timeout \in Nat /\ Set(Timeval(timeout), timeout)
    BY SMT, <1>4 DEF TimerCountdownMS, Setters, CounterInv, CounterOK
  <2>2. Timeval(timeout) \in Timevals /\ Timeval(timeout).tv_sec \in Nat
        /\ Millis(Timeval(timeout)) = timeout
    BY SMT, <2>1, TimevalMillis
  <2> QED
    BY SMT, <2>1, <2>2, SetTimer
<1>5. CASE TimerCountdown
  <2> DEFINE t == [tv_sec |-> timeout, tv_usec |-> 0]
  <2>1. call \in Setters /\ timeout \in Nat /\ Set(t, 1000 * timeout)
    BY SMT, <1>5 DEF TimerCountdown, Setters, CounterInv, CounterOK
  <2>2. t \in Timevals /\ t.tv_sec \in Nat /\ Millis(t) = 1000 * timeout
        /\ 1000 * timeout \in Nat
    BY SMT, <2>1 DEF Timevals, Millis
  <2> HIDE DEF t
  <2> QED
    BY SMT, <2>1, <2>2, SetTimer
<1>6. CASE TimerAnswer
  <2>1. /\ Millis(end_time)' = Millis(end_time) /\ Millis(end_time) \in Int
        /\ end_time' \in Timevals
    BY SMT, <1>6, SameEnd DEF TimerAnswer
  <2> QED
    BY SMT, <1>6, <2>1 DEF TimerAnswer, CounterInv, CounterOK, CallReads, SetBefore, EndIsDue,
                   InCall, Setters, Unwrapped
<1>7. CASE UNCHANGED counterVars
  <2>1. /\ Millis(end_time)' = Millis(end_time) /\ Millis(end_time) \in Int
        /\ end_time' \in Timevals
    BY SMT, <1>7, SameEnd DEF counterVars
  <2> QED
    BY SMT, <1>7, <2>1 DEF counterVars, CounterInv, CounterOK, CallReads, SetBefore, EndIsDue,
                   InCall, Setters, Unwrapped
<1> QED
  BY SMT, <1>1, <1>2, <1>3, <1>4, <1>5, <1>6, <1>7 DEF CounterNext, Setters, TimeoutAssumption

LEMMA CounterExact ==
    ASSUME CounterInv, WrapAssumption, PeriodAssumption
    PROVE  NeverEarly /\ ExactUntilWrap
<1> SUFFICES ASSUME call = "answered" PROVE NeverEarly /\ ExactUntilWrap
  BY SMT DEF NeverEarly, ExactUntilWrap
<1> DEFINE E == Millis(end_time)
           R == Millis(TimeNow)
<1>1. /\ TimeNow \in Timevals
      /\ R \in Nat /\ R <= Unwrapped /\ Unwrapped <= R + 1000
      /\ ~interrupted => R = Unwrapped
  BY SMT, TimeNowMillis DEF CounterInv
<1>2. /\ E \in Int /\ R \in Int
      /\ TimerIsExpired <=> R >= E
      /\ TimerLeftMS = IF R >= E THEN 0 ELSE E - R
  BY SMT, <1>1, ExpiredMillis DEF CounterInv
<1>3. /\ due \in Nat /\ elapsed \in Nat /\ g_timer_val \in 0 .. Wrap - 1 /\ wrapped \in Nat
      /\ Unwrapped \in Nat
  BY SMT, WrapAssumption, PeriodAssumption DEF CounterInv, CounterOK, Unwrapped
<1>4. wrapped + Unwrapped <= elapsed
  BY SMT DEF CounterInv, SetBefore
<1>5. \/ E = 0 /\ due = 0
      \/ /\ E + wrapped <= due
         /\ due <= E + wrapped + 1000
         /\ ~tornSet => E + wrapped = due
  BY SMT DEF CounterInv, EndIsDue, Setters
<1>6. elapsed - g_timer_val = wrapped => Unwrapped = g_timer_val
  BY SMT, <1>3, <1>4, WrapAssumption DEF CounterInv, CallReads
<1> HIDE DEF E, R
<1>7. NeverEarly
  BY SMT, <1>1, <1>2, <1>3, <1>4, <1>5 DEF NeverEarly
<1>8. ExactUntilWrap
  <2> SUFFICES ASSUME elapsed - g_timer_val = wrapped
               PROVE  ExactUntilWrap
    BY SMT DEF ExactUntilWrap
  <2>1. wrapped + Unwrapped = elapsed
    BY SMT, <1>3, <1>6
  <2> QED
    <3>1. CASE E = 0 /\ due = 0
      BY SMT, <1>1, <1>2, <1>3, <2>1, <3>1 DEF ExactUntilWrap
    <3>2. CASE /\ E + wrapped <= due
               /\ due <= E + wrapped + 1000
               /\ ~tornSet => E + wrapped = due
      <4>1. /\ elapsed >= due + 1000 => TimerIsExpired
            /\ TimerLeftMS <= (IF elapsed >= due THEN 0 ELSE due - elapsed) + 1000
            /\ TimerLeftMS + 1000 >= due - elapsed
        BY SMT, <1>1, <1>2, <1>3, <2>1, <3>2
      <4>2. ASSUME ~tornSet, ~interrupted
            PROVE  /\ TimerIsExpired <=> elapsed >= due
                   /\ TimerLeftMS = IF elapsed >= due THEN 0 ELSE due - elapsed
        BY SMT, <1>1, <1>2, <1>3, <2>1, <3>2, <4>2
      <4> QED
        BY SMT, <4>1, <4>2 DEF ExactUntilWrap
    <3> QED
      BY <1>5, <3>1, <3>2
<1> QED
  BY SMT, <1>7, <1>8

\* The counter and the pair of seconds and microseconds keep their ranges.
THEOREM TimerTypes == CounterSpec => []CounterOK
<1> USE PeriodAssumption, WrapAssumption, TimeoutAssumption
<1>1. CounterInit => CounterInv
  BY SMT, InitCounter
<1>2. CounterInv /\ [CounterNext]_counterVars => CounterInv'
  BY SMT, StepCounter
<1>3. CounterInv => CounterOK
  BY SMT DEF CounterInv
<1> QED
  BY <1>1, <1>2, <1>3, PTL DEF CounterSpec

\* No timer of the MQTT client is found expired early, however often the counter
\* wraps, but for up to a second if the interrupt came while it was being set.
THEOREM TimerNeverEarly == CounterSpec => []NeverEarly
<1> USE PeriodAssumption, WrapAssumption, TimeoutAssumption
<1>1. CounterInit => CounterInv
  BY SMT, InitCounter
<1>2. CounterInv /\ [CounterNext]_counterVars => CounterInv'
  BY SMT, StepCounter
<1>3. CounterInv => NeverEarly
  BY SMT, CounterExact
<1> QED
  BY <1>1, <1>2, <1>3, PTL DEF CounterSpec

\* A timer that the counter has not wrapped behind is found expired exactly when
\* it is due, and what TimerLeftMS says is what is left, unless the interrupt
\* comes between the two reads of the counter; then both are off by a second at
\* most.
THEOREM TimerExact == CounterSpec => []ExactUntilWrap
<1> USE PeriodAssumption, WrapAssumption, TimeoutAssumption
<1>1. CounterInit => CounterInv
  BY SMT, InitCounter
<1>2. CounterInv /\ [CounterNext]_counterVars => CounterInv'
  BY SMT, StepCounter
<1>3. CounterInv => ExactUntilWrap
  BY SMT, CounterExact
<1> QED
  BY <1>1, <1>2, <1>3, PTL DEF CounterSpec
=============================================================================
