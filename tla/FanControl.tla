----------------------------- MODULE FanControl ------------------------------
(***************************************************************************)
(* The sensor task and the devices it uses: temperature samples and their   *)
(* average, the map from temperature to fan speed, the override, the        *)
(* settings that messages from the cloud bring (client_process_message),    *)
(* and the fan controller's target registers. Numbers are those of the      *)
(* code: millidegrees, revolutions per minute, 16-bit words.                *)
(*                                                                          *)
(* The two chips are external: a reading is any of Raws. On a failing bus   *)
(* any access may fail, each for itself, and no result is looked at: a      *)
(* write is lost, a read leaves the number of the register (SAM D21) or     *)
(* what the stack held (SAM G55).                                           *)
(***************************************************************************)
EXTENDS Integers, Sequences

CONSTANTS
    DefaultMap,    \* initial g_temp_speed_map: pairs [above, speed]
    Maps,          \* fan-speed-map of a message: shorter or equal sequences
    Speeds,        \* fan-speed of an override
    Durations,     \* its duration in seconds
    Rates,         \* update-rate of a message, 0 when it has none
    Raws,          \* sensor readings, in eighths of a degree
    BadRaws,       \* what they are if an access to the sensor fails
    BadConfigs,    \* the configuration read back if an access to it fails
    Tachs,         \* speeds the controller measures
    Samples,       \* TEMP_SENSOR_SAMPLES (4)
    Garbage,       \* what an uninitialised variable may hold
    MaxUtc,        \* bound: seconds that are counted
    MaxMessages    \* bound: messages from the cloud

Word16 == 65536
MapSize == Len(DefaultMap)

Entries == [above : 0 .. Word16 - 1, speed : 0 .. Word16 - 1]

\* update_settings_from_json compares the length of a map with nothing. A longer
\* one (eight entries) is written over what lies behind the array: undefined, and
\* left out. An empty one is taken.
ASSUME MapAssumption ==
    \A m \in Maps \cup {DefaultMap} : m \in Seq(Entries) /\ Len(m) <= MapSize
ASSUME SamplesAssumption  == Samples \in Nat \ {0}
ASSUME RawAssumption      == Raws \cup BadRaws \subseteq 0 .. 2047
ASSUME SettingAssumption  ==
    Speeds \cup Garbage \subseteq 0 .. Word16 - 1 /\ Durations \cup Rates \subseteq Nat

VARIABLES
    setup,           \* "simulated" if CONFIG_SENSOR_SIMULATOR is defined; or
                     \* the bus and the chips are "sound" or "failing"
    map,             \* g_temp_speed_map
    override_speed, override_end,
    buffer, idx,     \* g_temp_buffer, g_temp_buf_idx
    ready,           \* g_fan_click_ready
    cfg1,            \* g_fan_click_cfg1_cached
    low, high,       \* the controller's TACH target registers
    utc,             \* the clock, set
    update_period,   \* of the client's report
    messages,        \* number of messages so far
    settings,        \* history: the map that was last asked for
    asked,           \* history: the speed last written to the controller
    report           \* history: temperature and speed the simulator last published

settingVars == <<map, override_speed, override_end, update_period, messages, settings>>
fanVars     == <<ready, cfg1, low, high, asked>>
sampleVars  == <<buffer, idx>>
vars == <<setup, settingVars, fanVars, sampleVars, utc, report>>

-----------------------------------------------------------------------------
(* Pure parts *)

\* th5_read_sensor. UINT32_MAX is written -1, which is the same in 16 bits.
Reading(raw) == raw * 125
Failure      == -1

\* get_speed_from_map: the last entry that the temperature is above. Without
\* one, target is returned as it was found on the stack.
Above(temp) == {i \in 1 .. MapSize : temp > map[i].above}

\* Mutant: the loop stops one entry early.
SpeedsFor_short(temp) ==
    LET found == {i \in 1 .. MapSize - 1 : temp > map[i].above}
    IN  IF found = {} THEN Garbage
        ELSE {map[i].speed : i \in {i \in found : \A j \in found : j <= i}}

SpeedsFor(temp) ==
    IF Above(temp) = {} THEN Garbage
    ELSE {map[i].speed : i \in {i \in Above(temp) : \A j \in Above(temp) : j <= i}}

Average(b) ==
    LET sum[i \in 0 .. Samples] == IF i = 0 THEN 0 ELSE b[i] + sum[i - 1]
    IN  sum[Samples] \div Samples

\* fan_click_rpm_to_count: two poles, the edges and the range of FAN_CONFIG1.
Config1 == 174
EDGES_VALUE(cfg) == (cfg \div 8) % 4
RANGE_VALUE(cfg) == (cfg \div 32) % 4
TachConstant(cfg) ==
    ((32768 * 60) \div 2) * (2 * (1 + EDGES_VALUE(cfg))) * <<1, 2, 4, 8>>[RANGE_VALUE(cfg) + 1]
fan_click_rpm_to_count(rpm) == (TachConstant(cfg1) \div rpm) % Word16

\* The target is 13 bits wide: five of them in the low register. All ones stop
\* the fan.
TargetLow(count)  == (count * 8) % 256

\* Mutant: the high register is given the wrong bits.
TargetHigh_8bits(count) == (count \div 256) % 256

TargetHigh(count) == (count \div 32) % 256

Stopped == 8191
Target  == high * 32 + low \div 8

\* What the controller is to be told for a speed, as it is set up.
CountFor(rpm) == IF rpm = 0 THEN Stopped ELSE TachConstant(Config1) \div rpm

-----------------------------------------------------------------------------

None == -1

Init ==
    /\ setup \in {"simulated", "sound", "failing"}
    /\ map = DefaultMap /\ settings = DefaultMap
    /\ override_speed = 0 /\ override_end = 0
    /\ buffer = [i \in 1 .. Samples |-> 0] /\ idx = 1
    /\ ready = FALSE /\ cfg1 = 0 /\ low = 248 /\ high = 255 /\ asked = None
    /\ utc = 1
    /\ update_period = 5000
    /\ messages = 0
    /\ report = [temp |-> None, speed |-> None]

-----------------------------------------------------------------------------
(* The two chips *)

\* With a fault or without.
OnBus(good, bad) == {good} \cup (IF setup = "failing" THEN bad ELSE {})

\* fan_click_init finds both ids, sets the controller up and reads back how, or
\* it fails before that. It is not called again once it has succeeded.
fan_click_init ==
    /\ \/ ready' = TRUE /\ cfg1' \in OnBus(Config1, BadConfigs)
       \/ setup = "failing" /\ UNCHANGED <<ready, cfg1>>
    /\ UNCHANGED <<low, high, asked>>

\* fan_click_set_target_tach; the first call only initialises. On a failing bus
\* atcab_init may return an error, and each of the two writes be lost.
fan_click_set_target_tach(speed) ==
    \/ setup = "failing" /\ UNCHANGED fanVars
    \/ ~ready /\ fan_click_init
    \/ /\ ready
       /\ LET count == fan_click_rpm_to_count(speed)
          IN  /\ low'  \in OnBus(IF speed = 0 THEN 255 ELSE TargetLow(count), {low})
              /\ high' \in OnBus(IF speed = 0 THEN 255 ELSE TargetHigh(count), {high})
       /\ asked' = speed
       /\ UNCHANGED <<ready, cfg1>>

\* fan_click_get_tach, which initialises as well and then knows no speed.
fan_click_get_tach(speed) ==
    \/ setup = "failing" /\ speed = Word16 - 1 /\ UNCHANGED fanVars
    \/ ~ready /\ speed = Word16 - 1 /\ fan_click_init
    \/ ready /\ speed \in Tachs /\ UNCHANGED fanVars

\* th5_read_sensor
Temperatures ==
    {Reading(raw) : raw \in Raws} \cup
    (IF setup = "failing" THEN {Reading(raw) : raw \in BadRaws} \cup {Failure} ELSE {})

-----------------------------------------------------------------------------
(* sensor_task *)

NextIdx == IF idx = Samples THEN 1 ELSE idx + 1

\* get_averaged_temp: the sample replaces the oldest one, in 16 bits.
Sample(temp) ==
    /\ buffer' = [buffer EXCEPT ![idx] = temp % Word16]
    /\ idx' = NextIdx

OverrideOver == override_end <= utc

FollowMap(temp) ==
    /\ OverrideOver
    /\ Sample(temp)
    /\ \E speed \in SpeedsFor(Average(buffer')) : fan_click_set_target_tach(speed)

FollowOverride ==
    /\ ~OverrideOver
    /\ fan_click_set_target_tach(override_speed)
    /\ UNCHANGED sampleVars

sensor_task ==
    /\ setup # "simulated"
    /\ (\E temp \in Temperatures : FollowMap(temp)) \/ FollowOverride
    /\ UNCHANGED <<setup, settingVars, utc, report>>

-----------------------------------------------------------------------------
(* client_task: reports and messages *)

\* sensor_get_temperature of the simulator works on the first sample.
Simulated == IF buffer[1] < 24000 \/ buffer[1] > 30000 THEN 24000 ELSE buffer[1] + 1000

\* client_publish_message takes the temperature first, then the speed: simulated
\* both, or measured both. Of what is measured nothing is kept, but asking for
\* it sets the controller up.
PublishSimulated ==
    /\ setup = "simulated"
    /\ buffer' = [buffer EXCEPT ![1] = Simulated]
    /\ \E speed \in SpeedsFor(Simulated) : report' = [temp |-> Simulated, speed |-> speed]
    /\ UNCHANGED <<setup, settingVars, fanVars, idx, utc>>

PublishMeasured ==
    /\ setup # "simulated"
    /\ \E speed \in Tachs \cup {Word16 - 1} : fan_click_get_tach(speed)
    /\ UNCHANGED <<setup, settingVars, sampleVars, utc, report>>

client_publish_message == PublishSimulated \/ PublishMeasured

\* Mutant: the entries behind the new ones are left as they were.
update_settings_from_json_keeps(m) ==
    map' = [i \in 1 .. MapSize |-> IF i <= Len(m) THEN m[i] ELSE map[i]]

\* The entries behind the new ones are put out of reach.
update_settings_from_json(m) ==
    map' = [i \in 1 .. MapSize |->
                IF i <= Len(m) THEN m[i] ELSE [map[i] EXCEPT !.above = Word16 - 1]]

\* Mutant: the duration is taken for milliseconds.
override_from_json_ms(speed, duration) ==
    /\ override_speed' = speed
    /\ override_end' = utc + 1000 * duration

override_from_json(speed, duration) ==
    /\ override_speed' = speed
    /\ override_end' = utc + duration

NewMap == \E m \in Maps : update_settings_from_json(m) /\ settings' = m
\* Bound: an override ends before the clock stops at MaxUtc.
NewOverride ==
    \E speed \in Speeds, d \in Durations :
        utc + d <= MaxUtc /\ override_from_json(speed, d)

\* update_rate is 32 bits wide, update_period 16.
NewRate(rate) ==
    update_period' = IF 1000 < rate THEN rate % Word16 ELSE update_period

client_process_message ==
    /\ messages < MaxMessages
    /\ messages' = messages + 1
    /\ NewMap \/ UNCHANGED <<map, settings>>
    /\ NewOverride \/ UNCHANGED <<override_speed, override_end>>
    /\ \E rate \in Rates \cup {0} : NewRate(rate)
    /\ UNCHANGED <<setup, fanVars, sampleVars, utc, report>>

\* The clock goes on to the bound; at MaxUtc every override is over.
ClockTick ==
    /\ utc < MaxUtc
    /\ utc' = utc + 1
    /\ UNCHANGED <<setup, settingVars, fanVars, sampleVars, report>>

Next == sensor_task \/ client_publish_message \/ client_process_message \/ ClockTick

\* The main loop runs the tasks, time passes.
Spec ==
    /\ Init /\ [][Next]_vars
    /\ WF_vars(sensor_task) /\ WF_vars(ClockTick)

-----------------------------------------------------------------------------

\* What settings m have for a temperature: the speed of the last entry that it
\* is above, if there is one.
Mapped(m, temp) == \E i \in DOMAIN m : temp > m[i].above
IsSpeed(m, temp, speed) == \E i \in DOMAIN m :
    /\ temp > m[i].above
    /\ \A j \in DOMAIN m : j > i => temp <= m[j].above
    /\ speed = m[i].speed

\* The fan is given the override, while there is one, or the speed that the last
\* settings have for the average of good, failed and missing samples; nothing of
\* an earlier, longer map is used again. For an average that the settings have
\* no speed for (0 degrees with the default) nothing is said: the code gives
\* the fan what it finds on its stack (sensor_task.c:59).
SpeedFromSettings ==
    [][asked' # asked =>
        IF OverrideOver
        THEN Mapped(settings, Average(buffer')) =>
                IsSpeed(settings, Average(buffer'), asked')
        ELSE asked' = override_speed]_vars

\* On a bus that works the registers hold the count of the speed that was asked
\* for ("6. Set the TACH Target Register to the desired tachometer count.",
\* fan_click.c:136) if it has 13 bits, which is for no speed at all or at least
\* 961 rpm, whether a report or the sensor task has set the controller up.
TargetIsAsked ==
    setup # "failing" /\ asked # None /\ CountFor(asked) <= Stopped =>
        Target = CountFor(asked)

\* What the simulator publishes belongs together: the speed is the one that the
\* settings in force have for the temperature published with it, if any. (On the
\* boards both are measured.)
ReportAgrees ==
    [][setup = "simulated" /\ report' # report /\ Mapped(settings, report'.temp) =>
        IsSpeed(settings, report'.temp, report'.speed)]_vars

\* When the temperature holds still and the bus is sound, the controller comes
\* to be told the speed that the settings in force have for it, if they have one,
\* and nothing else again: old samples leave the average, the override ends and
\* the controller gets initialised.
Steady(temp) == Mapped(settings, temp) => IsSpeed(settings, temp, asked)

FanSettles ==
    setup = "sound" =>
        \A raw \in Raws :
            <>[][sensor_task /\ OverrideOver => buffer'[idx] = Reading(raw)]_vars
                => <>[]Steady(Reading(raw))
=============================================================================
