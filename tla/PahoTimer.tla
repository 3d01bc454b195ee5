------------------------------ MODULE PahoTimer ------------------------------
(***************************************************************************)
(* The countdown timers of the MQTT client (platform/timer_interface.c)    *)
(* over the millisecond counter that the timer interrupt advances. The     *)
(* counter is 32 bits wide and wraps. get_time_of_day reads it twice, for   *)
(* the seconds and for the rest, and the interrupt may come between; two    *)
(* reads are a few instructions apart, so that it comes at most once.      *)
(***************************************************************************)
EXTENDS Integers

CONSTANTS
    Period,     \* TIMER_UPDATE_PERIOD (100 ms)
    Wrap,       \* 2^32
    Timeouts,   \* milliseconds that TimerCountdownMS is called with
    Intervals,  \* seconds that TimerCountdown is called with
    Uptime      \* bound: how long the program runs, in milliseconds

\* 2^32 is 296 above a full second.
ASSUME PeriodAssumption  == Period \in 1 .. 1000
ASSUME WrapAssumption    == Wrap \in Nat /\ Period < Wrap /\ Period <= Wrap % 1000
ASSUME TimeoutAssumption == Timeouts \subseteq Nat /\ Intervals \subseteq Nat
ASSUME UptimeAssumption  == Uptime \in Nat

VARIABLES
    g_timer_val,   \* the counter
    end_time,      \* of one timer: tv_sec and tv_usec
    call,          \* the function that is between the two reads, or "idle",
                   \* or "answered": TimerIsExpired and TimerLeftMS have read
    timeout,       \* its argument
    first,         \* the counter at the first read
    interrupted,   \* history: the interrupt came between the two reads
    elapsed,       \* history: milliseconds since the start, which no code reads
    due,           \* history: when the timer is to expire
    wrapped,       \* history: what the counter had lost by wrapping when the
                   \* timer was set
    tornSet        \* history: interrupted, when the timer was set

counterVars == <<g_timer_val, end_time, call, timeout, first, interrupted,
                 elapsed, due, wrapped, tornSet>>

-----------------------------------------------------------------------------

\* Milliseconds split into seconds and microseconds.
Timeval(ms) == [tv_sec |-> ms \div 1000, tv_usec |-> (ms % 1000) * 1000]

\* get_time_of_day, of the counter at its two reads.
TimeNow == [tv_sec |-> first \div 1000, tv_usec |-> (g_timer_val % 1000) * 1000]

\* Mutant: the carry into the seconds is forgotten.
timer_add_no_carry(a, b) == [tv_sec |-> a.tv_sec + b.tv_sec, tv_usec |-> a.tv_usec + b.tv_usec]

timer_add(a, b) ==
    LET sec == a.tv_sec + b.tv_sec
        usec == a.tv_usec + b.tv_usec
    IN  IF usec >= 1000000 THEN [tv_sec |-> sec + 1, tv_usec |-> usec - 1000000]
                           ELSE [tv_sec |-> sec, tv_usec |-> usec]

\* Mutant: the borrow from the seconds is forgotten.
timer_subtract_no_borrow(a, b) ==
    [tv_sec |-> a.tv_sec - b.tv_sec, tv_usec |-> a.tv_usec - b.tv_usec]

timer_subtract(a, b) ==
    LET sec == a.tv_sec - b.tv_sec
        usec == a.tv_usec - b.tv_usec
    IN  IF usec < 0 THEN [tv_sec |-> sec - 1, tv_usec |-> usec + 1000000]
                    ELSE [tv_sec |-> sec, tv_usec |-> usec]

Remaining == timer_subtract(end_time, TimeNow)

TimerIsExpired ==
    \/ Remaining.tv_sec < 0
    \/ Remaining.tv_sec = 0 /\ Remaining.tv_usec <= 0

TimerLeftMS ==
    IF Remaining.tv_sec >= 0
    THEN Remaining.tv_sec * 1000 + Remaining.tv_usec \div 1000
    ELSE 0

-----------------------------------------------------------------------------

Setters == {"TimerCountdownMS", "TimerCountdown"}

CounterOK ==
    /\ g_timer_val \in 0 .. Wrap - 1
    /\ end_time \in [tv_sec : Nat, tv_usec : Nat] /\ end_time.tv_usec < 1000000
    /\ call \in Setters \cup {"idle", "ask", "answered"}
    /\ timeout \in Nat /\ first \in 0 .. Wrap - 1
    /\ interrupted \in BOOLEAN /\ tornSet \in BOOLEAN
    /\ elapsed \in Nat /\ due \in Nat /\ wrapped \in Nat

CounterInit ==
    /\ g_timer_val = 0
    /\ end_time = [tv_sec |-> 0, tv_usec |-> 0]
    /\ call = "idle" /\ timeout = 0 /\ first = 0 /\ interrupted = FALSE
    /\ elapsed = 0
    /\ due = 0 /\ wrapped = 0 /\ tornSet = FALSE

InCall == call \in Setters \cup {"ask"}

\* The timer interrupt; the addition is modulo 2^32.
TimerCallback ==
    /\ elapsed + Period <= Uptime
    /\ ~(InCall /\ interrupted)
    /\ elapsed' = elapsed + Period
    /\ g_timer_val' = IF g_timer_val + Period < Wrap
                      THEN g_timer_val + Period
                      ELSE g_timer_val + Period - Wrap
    /\ interrupted' = InCall
    /\ call' = IF call = "answered" THEN "idle" ELSE call
    /\ UNCHANGED <<end_time, timeout, first, due, wrapped, tornSet>>

TimerInit ==
    /\ ~InCall
    /\ end_time' = [tv_sec |-> 0, tv_usec |-> 0]
    /\ due' = 0 /\ tornSet' = FALSE
    /\ wrapped' = elapsed - g_timer_val
    /\ call' = "idle"
    /\ UNCHANGED <<g_timer_val, timeout, first, interrupted, elapsed>>

\* The first read of get_time_of_day, in the function that calls it.
ReadSeconds(caller, argument) ==
    /\ ~InCall
    /\ call' = caller /\ timeout' = argument
    /\ first' = g_timer_val /\ interrupted' = FALSE
    /\ wrapped' = IF caller \in Setters THEN elapsed - g_timer_val ELSE wrapped
    /\ UNCHANGED <<g_timer_val, end_time, elapsed, due, tornSet>>

\* The second read, and what the caller makes of it.
Set(interval, milliseconds) ==
    /\ end_time' = timer_add(TimeNow, interval)
    /\ due' = elapsed + milliseconds
    /\ tornSet' = interrupted
    /\ call' = "idle"
    /\ UNCHANGED <<g_timer_val, timeout, first, interrupted, elapsed, wrapped>>

TimerCountdownMS ==
    /\ call = "TimerCountdownMS"
    /\ Set(Timeval(timeout), timeout)

TimerCountdown ==
    /\ call = "TimerCountdown"
    /\ Set([tv_sec |-> timeout, tv_usec |-> 0], 1000 * timeout)

\* TimerIsExpired and TimerLeftMS only answer.
TimerAnswer ==
    /\ call = "ask"
    /\ call' = "answered"
    /\ UNCHANGED <<g_timer_val, end_time, timeout, first, interrupted, elapsed, due,
                   wrapped, tornSet>>

CounterNext ==
    \/ TimerCallback
    \/ TimerInit
    \/ \E ms \in Timeouts : ReadSeconds("TimerCountdownMS", ms)
    \/ \E s \in Intervals : ReadSeconds("TimerCountdown", s)
    \/ ReadSeconds("ask", 0)
    \/ TimerCountdownMS
    \/ TimerCountdown
    \/ TimerAnswer

CounterSpec == CounterInit /\ [][CounterNext]_counterVars

-----------------------------------------------------------------------------

\* A timer is not found expired before the time it was set for, not even when
\* the counter wraps while it runs; if the interrupt came between the two reads
\* when it was set, it may be early, but by a second at most.
NeverEarly ==
    call = "answered" /\ TimerIsExpired =>
        IF tornSet THEN elapsed + 1000 >= due ELSE elapsed >= due

\* As long as the counter does not wrap behind it, a timer is found expired
\* exactly from the time it was set for, though it is kept in seconds and
\* microseconds that carry and borrow, and TimerLeftMS, with which the client
\* limits its reads, is what is left of it; an interrupt between the two reads
\* makes either of them wrong by a second at most.
ExactUntilWrap ==
    call = "answered" /\ elapsed - g_timer_val = wrapped =>
        /\ ~tornSet /\ ~interrupted =>
               /\ TimerIsExpired <=> elapsed >= due
               /\ TimerLeftMS = IF elapsed >= due THEN 0 ELSE due - elapsed
        /\ elapsed >= due + 1000 => TimerIsExpired
        /\ TimerLeftMS <= (IF elapsed >= due THEN 0 ELSE due - elapsed) + 1000
        /\ TimerLeftMS + 1000 >= due - elapsed
=============================================================================
