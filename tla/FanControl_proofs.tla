-------------------------- MODULE FanControl_proofs ---------------------------
(***************************************************************************)
(* Proofs for FanControl, for maps of any length, any speeds, durations and *)
(* number of messages.                                                      *)
(***************************************************************************)
EXTENDS FanControl, WellFoundedInduction, TLAPS

Words == 0 .. Word16 - 1

FanTypes ==
    /\ map \in [1 .. MapSize -> Entries]
    /\ settings \in Maps \cup {DefaultMap}
    /\ override_speed \in Words
    /\ buffer \in [1 .. Samples -> Words] /\ idx \in 1 .. Samples
    /\ ready \in BOOLEAN
    /\ asked \in Words \cup {None}

\* The map in force is the last settings, and what an earlier, longer map has
\* left behind them is out of reach of 16 bits.
MapInForce ==
    \A i \in 1 .. MapSize :
        IF i <= Len(settings) THEN map[i] = settings[i] ELSE map[i].above = Word16 - 1

\* On a bus that works the controller is set up as intended.
SetUp == setup # "failing" /\ ready => cfg1 = Config1

FanInv == FanTypes /\ MapInForce /\ TargetIsAsked /\ SetUp

-----------------------------------------------------------------------------
(* Induction over the natural numbers, for a set *)

LEMMA NatSetInduction ==
    ASSUME NEW S \in SUBSET Nat, 0 \in S, \A n \in S : n + 1 \in S
    PROVE  S = Nat
<1> DEFINE R == OpToRel(<, Nat)
           T == Nat \ S
<1>1. IsWellFoundedOn(R, Nat)
  BY NatLessThanWellFounded
<1>2. \A x, y \in Nat : x < y <=> <<x, y>> \in R
  BY DEF OpToRel
<1> HIDE DEF R
<1>3. SUFFICES ASSUME T # {} PROVE FALSE
  OBVIOUS
<1>4. PICK x \in T : \A y \in T : ~(<<y, x>> \in R)
  <2>1. T \subseteq Nat  OBVIOUS
  <2> HIDE DEF T
  <2> QED BY <1>1, <1>3, <2>1, WFMin
<1>5. x # 0 /\ x \in Nat
  OBVIOUS
<1>6. x - 1 \in Nat /\ x - 1 < x
  BY <1>5
<1>7. x - 1 \in S
  BY <1>4, <1>6, <1>2, <1>5
<1>8. (x - 1) + 1 \in S
  BY <1>7
<1> QED
  BY <1>8, <1>5

-----------------------------------------------------------------------------
(* The average *)

LEMMA Division ==
    ASSUME NEW n \in Nat \ {0}, NEW x \in Nat
    PROVE  /\ x \div n \in Nat /\ x % n \in 0 .. n - 1
           /\ x = n * (x \div n) + (x % n)
  BY SMT

LEMMA Times ==
    ASSUME NEW n \in Nat, NEW p \in Nat, NEW q \in Nat, p <= q
    PROVE  n * p <= n * q /\ n * p \in Nat
<1>1. q - p \in Nat /\ n * (q - p) >= 0 /\ n * q = n * p + n * (q - p)
  BY SMT
<1>2. n * p \in Nat /\ n * q \in Nat /\ n * (q - p) \in Nat
  BY SMT
<1> QED BY <1>1, <1>2, SMT

LEMMA QuotientBounds ==
    ASSUME NEW n \in Nat \ {0}, NEW x \in Nat
    PROVE  \A w \in Nat : x <= n * w => x \div n \in 0 .. w
<1> DEFINE q == x \div n
           r == x % n
<1>1. q \in Nat /\ r \in 0 .. n - 1 /\ x = n * q + r
  BY Division
<1> HIDE DEF q, r
<1>2. ASSUME NEW w \in Nat, x <= n * w, ~(q <= w)
      PROVE  FALSE
  <2>1. n * (w + 1) <= n * q /\ n * (w + 1) = n * w + n /\ n * w \in Nat
    BY <1>1, <1>2, Times, w + 1 \in Nat, w + 1 <= q
  <2> QED BY <1>1, <1>2, <2>1, n * q \in Nat
<1> QED BY <1>1, <1>2 DEF q

\* Not an equation, which would make the ranges of words ranges of numbers: the
\* provers write those out.
LEMMA WordSize == Word16 \in Nat /\ Word16 > 65535 /\ Word16 < 65537
  BY DEF Word16

LEMMA WordsAreNumbers == \A w : w \in Words <=> w \in Nat /\ w <= 65535
  BY WordSize DEF Words

SumEq(g, b, n) == g = [i \in 0 .. n |-> IF i = 0 THEN 0 ELSE b[i] + g[i - 1]]

LEMMA SumExists ==
    ASSUME NEW b \in [1 .. Samples -> Words]
    PROVE  \E g : SumEq(g, b, Samples)
<1> USE SamplesAssumption
<1> DEFINE S == {n \in Nat : n <= Samples =>
                    \E g \in [0 .. n -> Nat] : SumEq(g, b, n)}
<1>1. 0 \in S
  <2> DEFINE g == [i \in 0 .. 0 |-> 0]
  <2>1. g \in [0 .. 0 -> Nat] /\ SumEq(g, b, 0)
    BY DEF SumEq
  <2> QED BY <2>1
<1>2. ASSUME NEW n \in S PROVE n + 1 \in S
  <2>1. SUFFICES ASSUME n + 1 <= Samples
                 PROVE  \E h \in [0 .. n + 1 -> Nat] : SumEq(h, b, n + 1)
    OBVIOUS
  <2>2. PICK g \in [0 .. n -> Nat] : SumEq(g, b, n)
    BY <2>1
  <2> DEFINE h == [i \in 0 .. n + 1 |-> IF i = n + 1 THEN b[n + 1] + g[n] ELSE g[i]]
  <2>3. b[n + 1] \in Nat
    <3>1. n + 1 \in 1 .. Samples BY <2>1
    <3> QED BY <3>1, WordsAreNumbers
  <2>4. h \in [0 .. n + 1 -> Nat]
    BY <2>3
  <2>5. ASSUME NEW i \in 0 .. n + 1
        PROVE  h[i] = IF i = 0 THEN 0 ELSE b[i] + h[i - 1]
    <3>1. CASE i = n + 1
      BY <3>1
    <3>2. CASE i # n + 1
      <4>1. i \in 0 .. n /\ (i # 0 => i - 1 \in 0 .. n /\ i - 1 # n + 1)
        BY <3>2
      <4>2. g[i] = IF i = 0 THEN 0 ELSE b[i] + g[i - 1]
        BY <2>2, <4>1 DEF SumEq
      <4> QED BY <3>2, <4>1, <4>2
    <3> QED BY <3>1, <3>2
  <2>6. SumEq(h, b, n + 1)
    BY <2>5 DEF SumEq
  <2> QED BY <2>4, <2>6
<1>3. S = Nat
  <2>1. S \in SUBSET Nat OBVIOUS
  <2> HIDE DEF S
  <2> QED BY <1>1, <1>2, <2>1, NatSetInduction
<1> QED BY <1>3

\* The average of the samples is a word.
LEMMA AverageBounds ==
    ASSUME NEW b \in [1 .. Samples -> Words]
    PROVE  Average(b) \in Words
<1> USE SamplesAssumption
<1>0. \A k \in 1 .. Samples : b[k] \in Nat /\ b[k] <= Word16 - 1
  BY WordSize, WordsAreNumbers
<1> DEFINE sum[i \in 0 .. Samples] == IF i = 0 THEN 0 ELSE b[i] + sum[i - 1]
<1>1. sum = [i \in 0 .. Samples |-> IF i = 0 THEN 0 ELSE b[i] + sum[i - 1]]
  BY SumExists DEF SumEq
<1>2. Average(b) = sum[Samples] \div Samples
  BY DEF Average
<1> HIDE DEF sum
<1> DEFINE Bound(n) == /\ sum[n] \in Nat /\ sum[n] <= n * (Word16 - 1)
           S == {n \in Nat : n <= Samples => Bound(n)}
<1>3. 0 \in S
  BY <1>1, WordSize
<1>4. ASSUME NEW n \in S PROVE n + 1 \in S
  <2>1. SUFFICES ASSUME n + 1 <= Samples PROVE Bound(n + 1)
    OBVIOUS
  <2>2. Bound(n) /\ n \in Nat
    BY <2>1
  <2>3. b[n + 1] \in Nat /\ b[n + 1] <= Word16 - 1
    BY <1>0, <2>1, <2>2
  <2>4. sum[n + 1] = b[n + 1] + sum[n]
    BY <1>1, <2>1, <2>2
  <2>5. sum[n + 1] \in Nat /\ sum[n + 1] <= (n + 1) * (Word16 - 1)
    BY <2>2, <2>3, <2>4, WordSize
  <2> QED BY <2>5
<1>5. S = Nat
  <2>1. S \in SUBSET Nat OBVIOUS
  <2> HIDE DEF S
  <2> QED BY <1>3, <1>4, <2>1, NatSetInduction
<1>6. Bound(Samples)
  BY <1>5
<1> QED
  <2>1. Word16 - 1 \in Nat /\ sum[Samples] \in Nat /\ sum[Samples] <= Samples * (Word16 - 1)
    BY <1>6, WordSize
  <2>2. sum[Samples] \div Samples \in 0 .. Word16 - 1
    BY <2>1, QuotientBounds
  <2> QED BY <2>2, <1>2 DEF Words

-----------------------------------------------------------------------------
(* Types, settings and registers *)

LEMMA MapFacts ==
    ASSUME NEW m \in Maps \cup {DefaultMap}
    PROVE  /\ Len(m) \in 0 .. MapSize /\ MapSize \in Nat
           /\ DOMAIN m = 1 .. Len(m)
           /\ \A i \in 1 .. Len(m) : m[i] \in Entries
  BY MapAssumption DEF MapSize

\* The two registers hold a target of 13 bits.
LEMMA Registers ==
    ASSUME NEW c \in Nat, c <= 8191
    PROVE  TargetHigh(c) * 32 + TargetLow(c) \div 8 = c
  BY DEF TargetHigh, TargetLow

\* A count of 13 bits passes the 16 bits of fan_click_rpm_to_count.
LEMMA CountPasses ==
    ASSUME NEW rpm \in Words \ {0}, CountFor(rpm) <= Stopped, cfg1 = Config1
    PROVE  /\ CountFor(rpm) \in Nat /\ CountFor(rpm) <= 8191
           /\ fan_click_rpm_to_count(rpm) = CountFor(rpm)
<1>1. rpm \in Nat \ {0} /\ TachConstant(Config1) \in Nat
  <2>1. EDGES_VALUE(174) = 1 /\ RANGE_VALUE(174) = 1
    BY SMT DEF EDGES_VALUE, RANGE_VALUE
  <2>2. TachConstant(Config1) = ((32768 * 60) \div 2) * (2 * (1 + 1)) * 2
    BY <2>1, SMT DEF TachConstant, Config1
  <2> QED BY <2>2, WordsAreNumbers, SMT
<1> DEFINE c == TachConstant(Config1) \div rpm
<1>2. c \in Nat
  BY <1>1, Division
<1>3. CountFor(rpm) = c /\ fan_click_rpm_to_count(rpm) = c % Word16
  BY <1>1 DEF CountFor, fan_click_rpm_to_count
<1> HIDE DEF c
<1>4. c <= 8191
  BY <1>3 DEF Stopped
<1> QED BY <1>2, <1>3, <1>4, WordSize

LEMMA Initialised ==
    ASSUME FanInv, fan_click_init
    PROVE  /\ ready' \in BOOLEAN /\ asked' = asked
           /\ setup' = setup => TargetIsAsked' /\ SetUp'
<1>1. /\ asked' = asked /\ low' = low /\ high' = high
      /\ setup # "failing" => cfg1' = Config1
  BY DEF fan_click_init, OnBus
<1>2. ready' \in BOOLEAN
  BY DEF FanInv, FanTypes, fan_click_init
<1> QED
  BY <1>1, <1>2 DEF FanInv, TargetIsAsked, Target, SetUp

LEMMA SetTarget ==
    ASSUME FanInv, NEW speed \in Words, fan_click_set_target_tach(speed), setup' = setup
    PROVE  /\ ready' \in BOOLEAN
           /\ asked' \in {asked, speed}
           /\ TargetIsAsked' /\ SetUp'
<1>1. CASE UNCHANGED fanVars
  BY <1>1 DEF fanVars, FanInv, FanTypes, TargetIsAsked, Target, SetUp
<1>2. CASE fan_click_init
  BY <1>2, Initialised
<1>3. CASE /\ ready
           /\ LET count == fan_click_rpm_to_count(speed)
              IN  /\ low'  \in OnBus(IF speed = 0 THEN 255 ELSE TargetLow(count), {low})
                  /\ high' \in OnBus(IF speed = 0 THEN 255 ELSE TargetHigh(count), {high})
           /\ asked' = speed
           /\ UNCHANGED <<ready, cfg1>>
  <2>1. SetUp' /\ ready' \in BOOLEAN /\ asked' = speed
    BY <1>3 DEF FanInv, FanTypes, SetUp
  <2>2. CASE setup = "failing"
    BY <2>1, <2>2 DEF TargetIsAsked
  <2>3. CASE setup # "failing" /\ speed = 0
    BY <1>3, <2>1, <2>3 DEF OnBus, TargetIsAsked, Target, CountFor, Stopped, None
  <2>4. CASE setup # "failing" /\ speed # 0
    <3> DEFINE c == fan_click_rpm_to_count(speed)
    <3>1. low' = TargetLow(c) /\ high' = TargetHigh(c)
      BY <1>3, <2>4 DEF OnBus
    <3>2. cfg1 = Config1
      BY <1>3, <2>4 DEF FanInv, SetUp
    <3>3. CountFor(speed) <= Stopped =>
            c \in Nat /\ c <= 8191 /\ c = CountFor(speed)
      BY <2>4, <3>2, CountPasses
    <3> HIDE DEF c
    <3>4. CountFor(speed) <= Stopped => high' * 32 + low' \div 8 = CountFor(speed)
      BY <3>1, <3>3, Registers
    <3> QED BY <2>1, <3>4 DEF TargetIsAsked, Target
  <2> QED BY <2>1, <2>2, <2>3, <2>4
<1> QED
  BY <1>1, <1>2, <1>3 DEF fan_click_set_target_tach

LEMMA OutOfReach ==
    ASSUME NEW e \in Entries
    PROVE  /\ [e EXCEPT !.above = Word16 - 1] \in Entries
           /\ [e EXCEPT !.above = Word16 - 1].above = Word16 - 1
<1>1. PICK a \in 0 .. Word16 - 1, s \in 0 .. Word16 - 1 : e = [above |-> a, speed |-> s]
  BY DEF Entries
<1>2. Word16 - 1 \in 0 .. Word16 - 1
  BY WordSize
<1>3. [e EXCEPT !.above = Word16 - 1] = [above |-> Word16 - 1, speed |-> s]
  BY <1>1
<1> QED BY <1>2, <1>3 DEF Entries

LEMMA InitFanInv == Init => FanInv
<1> SUFFICES ASSUME Init PROVE FanInv
  OBVIOUS
<1>1. DefaultMap \in [1 .. MapSize -> Entries] /\ MapSize = Len(DefaultMap)
  BY MapAssumption DEF MapSize
<1>2. FanTypes
  <2>1. 0 \in Words /\ None \notin Words
    BY WordsAreNumbers DEF None
  <2>2. buffer \in [1 .. Samples -> Words] /\ idx \in 1 .. Samples
    BY <2>1, SamplesAssumption DEF Init
  <2> QED
    BY <1>1, <2>1, <2>2 DEF Init, FanTypes
<1>3. MapInForce
  BY <1>1 DEF Init, MapInForce
<1> QED
  BY <1>2, <1>3 DEF Init, FanInv, TargetIsAsked, SetUp

\* What the map may yield is a word.
LEMMA SpeedIsWord ==
    ASSUME FanTypes, NEW temp \in Int, NEW speed \in SpeedsFor(temp)
    PROVE  speed \in Words
  BY SettingAssumption DEF FanTypes, SpeedsFor, Above, Entries, Words

LEMMA TemperatureIsWord == \A temp \in Temperatures : temp % Word16 \in Words
<1>1. \A raw \in Raws \cup BadRaws : Reading(raw) \in Int
  <2>1. ASSUME NEW raw \in Raws \cup BadRaws PROVE Reading(raw) \in Int
    <3>0. Raws \cup BadRaws \subseteq 0 .. 2047
      BY RawAssumption
    <3>1. raw \in 0 .. 2047
      BY <3>0
    <3>2. raw * 125 \in Int
      BY <3>1, SMT
    <3> QED BY <3>2 DEF Reading
  <2> QED BY <2>1, Zenon
<1>2. \A temp \in Temperatures : temp \in Int
  BY <1>1 DEF Temperatures, Failure
<1> QED
  BY <1>2, WordSize, WordsAreNumbers

LEMMA StepFanInv == FanInv /\ [Next]_vars => FanInv'
<1> SUFFICES ASSUME FanInv, [Next]_vars PROVE FanInv'
  OBVIOUS
<1>0. FanTypes /\ MapInForce /\ TargetIsAsked /\ SetUp
  BY DEF FanInv
<1>1. CASE sensor_task
  <2>0. UNCHANGED <<setup, map, settings, override_speed>>
    BY <1>1 DEF sensor_task, settingVars
  <2>1. MapInForce'
    BY <1>0, <2>0 DEF MapInForce
  <2>2. ASSUME NEW temp \in Temperatures, FollowMap(temp) PROVE FanInv'
    <3>1. temp % Word16 \in Words
      BY TemperatureIsWord
    <3>2. buffer' \in [1 .. Samples -> Words] /\ idx' \in 1 .. Samples
      BY <1>0, <2>2, <3>1, SamplesAssumption DEF FollowMap, Sample, NextIdx, FanTypes
    <3>3. PICK speed \in SpeedsFor(Average(buffer')) : fan_click_set_target_tach(speed)
      BY <2>2 DEF FollowMap
    <3>4. speed \in Words
      BY <1>0, <3>2, AverageBounds, SpeedIsWord, WordsAreNumbers
    <3> QED
      BY <1>0, <2>0, <2>1, <3>2, <3>3, <3>4, SetTarget DEF FanInv, FanTypes
  <2>3. CASE FollowOverride
    <3>1. fan_click_set_target_tach(override_speed) /\ UNCHANGED <<buffer, idx>>
      BY <2>3 DEF FollowOverride, sampleVars
    <3> QED
      BY <1>0, <2>0, <2>1, <3>1, SetTarget DEF FanInv, FanTypes
  <2> QED BY <1>1, <2>2, <2>3 DEF sensor_task
<1>2. CASE PublishSimulated
  <2>1. Simulated \in Words
    <3>1. 1 \in 1 .. Samples /\ buffer[1] \in Words
      BY <1>0, SamplesAssumption DEF FanTypes
    <3> QED BY <3>1, WordsAreNumbers DEF Simulated
  <2>2. buffer' \in [1 .. Samples -> Words]
    BY <1>0, <1>2, <2>1 DEF PublishSimulated, FanTypes
  <2> QED
    BY <1>0, <1>2, <2>2 DEF PublishSimulated, settingVars, fanVars, FanInv,
       FanTypes, MapInForce, TargetIsAsked, Target, SetUp
<1>5. CASE PublishMeasured
  <2>1. UNCHANGED <<setup, settingVars, sampleVars, utc>>
    BY <1>5 DEF PublishMeasured
  <2>2. MapInForce'
    BY <1>0, <2>1 DEF MapInForce, settingVars
  <2>3. CASE UNCHANGED fanVars
    BY <1>0, <2>1, <2>2, <2>3 DEF settingVars, fanVars, sampleVars, FanInv, FanTypes,
       TargetIsAsked, Target, SetUp
  <2>4. CASE fan_click_init
    BY <1>0, <2>1, <2>2, <2>4, Initialised DEF settingVars, sampleVars, FanInv, FanTypes
  <2> QED BY <1>5, <2>3, <2>4 DEF PublishMeasured, fan_click_get_tach
<1>3. CASE client_process_message
  <2>1. TargetIsAsked' /\ SetUp'
    BY <1>0, <1>3 DEF client_process_message, fanVars, TargetIsAsked, Target, SetUp
  <2>2. override_speed' \in Words
    BY <1>0, <1>3, SettingAssumption DEF client_process_message, NewOverride,
       override_from_json, FanTypes, Words
  <2>3. CASE NewMap
    <3>1. PICK m \in Maps : update_settings_from_json(m) /\ settings' = m
      BY <2>3 DEF NewMap
    <3>2. /\ Len(m) \in 0 .. MapSize /\ MapSize \in Nat
          /\ \A i \in 1 .. Len(m) : m[i] \in Entries
      BY MapFacts
    <3>3. map' = [i \in 1 .. MapSize |->
                    IF i <= Len(m) THEN m[i] ELSE [map[i] EXCEPT !.above = Word16 - 1]]
      BY <3>1 DEF update_settings_from_json
    <3>4. MapInForce'
      <4>1. ASSUME NEW i \in 1 .. MapSize
            PROVE  IF i <= Len(m) THEN map'[i] = m[i] ELSE map'[i].above = Word16 - 1
        <5>1. map[i] \in Entries BY <1>0 DEF FanTypes
        <5> QED BY <3>3, <5>1, OutOfReach
      <4> QED BY <4>1, <3>1 DEF MapInForce
    <3>5. map' \in [1 .. MapSize -> Entries]
      <4>1. ASSUME NEW i \in 1 .. MapSize
            PROVE  (IF i <= Len(m) THEN m[i] ELSE [map[i] EXCEPT !.above = Word16 - 1]) \in Entries
        <5>1. map[i] \in Entries BY <1>0 DEF FanTypes
        <5>2. i <= Len(m) => i \in 1 .. Len(m) BY <3>2
        <5>3. [map[i] EXCEPT !.above = Word16 - 1] \in Entries
          BY <5>1, OutOfReach
        <5> QED BY <3>2, <5>2, <5>3
      <4> QED BY <4>1, <3>3
    <3> QED
      BY <1>0, <1>3, <2>1, <2>2, <3>1, <3>4, <3>5 DEF client_process_message, fanVars,
         sampleVars, FanInv, FanTypes
  <2>4. CASE UNCHANGED <<map, settings>>
    BY <1>0, <1>3, <2>1, <2>2, <2>4 DEF client_process_message, fanVars, sampleVars, FanInv,
       FanTypes, MapInForce
  <2> QED BY <1>3, <2>3, <2>4 DEF client_process_message
<1>4. CASE ClockTick \/ UNCHANGED vars
  <2>1. UNCHANGED <<setup, settingVars, fanVars, sampleVars>>
    BY <1>4 DEF ClockTick, vars
  <2>2. FanTypes'
    BY <1>0, <2>1 DEF settingVars, fanVars, sampleVars, FanTypes
  <2>3. MapInForce'
    BY <1>0, <2>1 DEF settingVars, MapInForce
  <2>4. TargetIsAsked' /\ SetUp'
    BY <1>0, <2>1 DEF fanVars, TargetIsAsked, Target, SetUp
  <2> QED BY <2>2, <2>3, <2>4 DEF FanInv
<1> QED
  BY <1>1, <1>2, <1>3, <1>4, <1>5 DEF Next, client_publish_message

LEMMA Inductive == Spec => []FanInv
  BY InitFanInv, StepFanInv, PTL DEF Spec

\* On a bus that works the fan controller's target is the count of the speed it
\* was last asked for, unless that count does not fit (fan_click.c:136).
THEOREM TargetHolds == Spec => []TargetIsAsked
  BY Inductive, PTL DEF FanInv

-----------------------------------------------------------------------------
(* What is asked for and published *)

\* The loop over the map in force yields the entry that the settings have.
LEMMA LookUp ==
    ASSUME FanInv, NEW temp \in Words, Mapped(settings, temp), NEW speed \in SpeedsFor(temp)
    PROVE  IsSpeed(settings, temp, speed)
<1>1. /\ Len(settings) \in 0 .. MapSize /\ MapSize \in Nat
      /\ DOMAIN settings = 1 .. Len(settings)
  BY MapFacts DEF FanInv, FanTypes
<1>2. temp \in Nat /\ temp <= 65535
  BY WordsAreNumbers
<1>3. \A i \in 1 .. MapSize : IF i <= Len(settings) THEN map[i] = settings[i]
                              ELSE map[i].above = Word16 - 1
  BY DEF FanInv, MapInForce
<1>4. \A i \in 1 .. MapSize : map[i].above \in Nat
  <2>1. \A i \in 1 .. MapSize : map[i] \in Entries
    BY DEF FanInv, FanTypes
  <2>2. \A e \in Entries : e.above \in Nat
    BY WordSize DEF Entries
  <2> QED BY <2>1, <2>2
<1>5. PICK i0 \in 1 .. Len(settings) : temp > settings[i0].above
  BY <1>1 DEF Mapped
<1>6. i0 \in Above(temp)
  BY <1>1, <1>3, <1>5 DEF Above
<1>7. PICK i \in Above(temp) : speed = map[i].speed /\ \A j \in Above(temp) : j <= i
  BY <1>6 DEF SpeedsFor
<1>8. i \in 1 .. MapSize /\ temp > map[i].above
  BY <1>7 DEF Above
<1>9. i <= Len(settings)
  BY <1>2, <1>3, <1>8, WordSize
<1>10. ASSUME NEW j \in 1 .. Len(settings), j > i
       PROVE  temp <= settings[j].above
  <2>1. j \in 1 .. MapSize /\ map[j] = settings[j] /\ ~(j <= i)
    BY <1>1, <1>3, <1>8, <1>10
  <2>2. ~(temp > map[j].above)
    BY <1>7, <2>1 DEF Above
  <2> QED BY <1>2, <1>4, <2>1, <2>2
<1>11. i \in 1 .. Len(settings) /\ map[i] = settings[i]
  BY <1>1, <1>3, <1>8, <1>9
<1> QED
  BY <1>1, <1>7, <1>8, <1>10, <1>11 DEF IsSpeed

LEMMA AskedSpeed ==
    ASSUME NEW speed, fan_click_set_target_tach(speed)
    PROVE  asked' = asked \/ asked' = speed
  BY DEF fan_click_set_target_tach, fan_click_init, fanVars

\* What the fan is given is the override, while there is one, or the speed of
\* the last settings for the average of any mix of readings, failures and
\* missing samples, if they have one for it (sensor_task.c:56): no entry of an
\* earlier, longer map is used again.
THEOREM SpeedsAreSet == Spec => SpeedFromSettings
<1>1. ASSUME FanInv, [Next]_vars, asked' # asked
      PROVE  IF OverrideOver
             THEN Mapped(settings, Average(buffer')) =>
                     IsSpeed(settings, Average(buffer'), asked')
             ELSE asked' = override_speed
  <2>1. sensor_task
    BY <1>1 DEF Next, client_publish_message, PublishSimulated, PublishMeasured,
       fan_click_get_tach, fan_click_init, client_process_message, ClockTick, vars, fanVars
  <2>2. ASSUME NEW temp \in Temperatures, FollowMap(temp),
               Mapped(settings, Average(buffer'))
        PROVE  IsSpeed(settings, Average(buffer'), asked')
    <3>1. PICK speed \in SpeedsFor(Average(buffer')) : fan_click_set_target_tach(speed)
      BY <2>2 DEF FollowMap
    <3>2. buffer' \in [1 .. Samples -> Words]
      BY <1>1, <2>2, TemperatureIsWord DEF FollowMap, Sample, FanInv, FanTypes
    <3>3. IsSpeed(settings, Average(buffer'), speed)
      BY <1>1, <2>2, <3>1, <3>2, AverageBounds, LookUp
    <3> QED BY <1>1, <3>1, <3>3, AskedSpeed
  <2>3. ASSUME NEW temp \in Temperatures, FollowMap(temp) PROVE OverrideOver
    BY <2>3 DEF FollowMap
  <2>4. CASE FollowOverride
    BY <1>1, <2>4, AskedSpeed DEF FollowOverride
  <2> QED
    BY <2>1, <2>2, <2>3, <2>4 DEF sensor_task
<1> QED
  BY <1>1, Inductive, PTL DEF Spec, SpeedFromSettings

\* The speed that the simulator publishes is the one that the settings in force
\* have for the temperature that is published with it, if they have one
\* (client_task.c:119, sensor_task.c:164).
THEOREM ReportsAgree == Spec => ReportAgrees
<1>1. ASSUME FanInv, [Next]_vars, setup = "simulated", report' # report,
             Mapped(settings, report'.temp)
      PROVE  IsSpeed(settings, report'.temp, report'.speed)
  <2>1. PublishSimulated
    BY <1>1 DEF Next, client_publish_message, PublishMeasured, sensor_task,
       client_process_message, ClockTick, vars
  <2>2. PICK speed \in SpeedsFor(Simulated) : report' = [temp |-> Simulated, speed |-> speed]
    BY <2>1 DEF PublishSimulated
  <2>3. Simulated \in Words
    <3>1. 1 \in 1 .. Samples /\ buffer[1] \in Words
      BY <1>1, SamplesAssumption DEF FanInv, FanTypes
    <3> QED BY <3>1, WordsAreNumbers DEF Simulated
  <2> QED
    BY <1>1, <2>2, <2>3, LookUp
<1> QED
  BY <1>1, Inductive, PTL DEF Spec, ReportAgrees
=============================================================================
