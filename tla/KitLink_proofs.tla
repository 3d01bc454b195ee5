--------------------------- MODULE KitLink_proofs ----------------------------
(***************************************************************************)
(* Proofs for KitLink, for any number of commands, reports and retries.     *)
(*                                                                         *)
(* A patient host, orderly or not (KitInv): it begins a command after the   *)
(* answer to the one before, so that at most one command is not executed;   *)
(* as long as there is one, the buffer begins with what has come of it and  *)
(* the endpoint is empty. The message count may lose an increment to the    *)
(* handler's store, but it is never more than the complete commands the     *)
(* handler has to do.                                                       *)
(*                                                                         *)
(* Any host (OrderInv): the first report of the buffer is of no command     *)
(* before the last one executed.                                            *)
(***************************************************************************)
EXTENDS KitLink, SequenceTheorems, TLAPS

Report == [of : Nat, last : BOOLEAN]

KitTypes ==
    /\ asked \in Nat /\ toSend \in Seq(Report)
    /\ host \in {"idle", "sending", "waiting"}
    /\ got \in Seq(Report) /\ answered \in Seq([to : Nat, with : Seq(Report)])
    /\ mem \in Seq(Report) /\ length \in 0 .. Len(mem)
    /\ count \in Nat /\ loaded \in Nat
    /\ answer \in Seq(Report) /\ endpoint \in Report
    /\ at \in {"kit", "process", "reset", "send", "load", "store", "lock", "client"}
    /\ executed \in Seq(Nat)

\* The last command is executed, or still to be.
Done  == Len(executed) = asked
Fresh == Len(executed) = asked - 1

\* What is left of a message of command k.
RestOf(s, k) == \A i \in 1 .. Len(s) : s[i].of = k /\ (s[i].last <=> i = Len(s))

Executions ==
    /\ Done \/ Fresh
    /\ \A i \in 1 .. Len(executed) : executed[i] = i

Host ==
    /\ host = "idle" => Done
    /\ host = "sending" => Fresh /\ toSend # <<>> /\ RestOf(toSend, asked)
    /\ \A j \in 1 .. Len(got) : host # "idle" => got[j].of = asked

Answers ==
    /\ answer # <<>> =>
        Done /\ host = "waiting" /\ at \in {"reset", "send"} /\ RestOf(answer, asked)
    /\ endpoint # NoReport =>
        /\ Done /\ host = "waiting" /\ endpoint.of = asked
        /\ endpoint.last => answer = <<>>

Buffer ==
    /\ Fresh => \A i \in 1 .. length :
                    mem[i].of = asked /\ (mem[i].last <=> host = "waiting" /\ i = length)
    /\ Fresh /\ host = "waiting" => length > 0
    /\ Done /\ at # "reset" => length = 0

\* A complete command that is not executed.
Pending == Fresh /\ host = "waiting"

Counts ==
    /\ at \in {"kit", "lock", "client"} => count = 0 \/ (count = 1 /\ Pending)
    /\ at = "process" => count = 1 /\ Pending
    /\ at = "reset" => count = 1 /\ Done /\ answer # <<>>
    /\ at \in {"send", "load", "store"} => count = IF Pending THEN 2 ELSE 1
    /\ at = "store" => loaded = 1 \/ (loaded = 2 /\ count = 2)

Own == \A i \in DOMAIN answered :
           \A j \in DOMAIN answered[i].with : answered[i].with[j].of = answered[i].to

KitInv == KitTypes /\ Executions /\ Host /\ Answers /\ Buffer /\ Counts /\ Own

-----------------------------------------------------------------------------
LEMMA InitKitInv == Init => KitInv
  BY DEF Init, KitInv, KitTypes, Executions, Host, Answers, Buffer, Counts, Own,
     Done, Fresh, Pending, RestOf, NoReport, Report

LEMMA ReportsAre ==
    ASSUME NEW k \in Nat, NEW n \in 1 .. MaxReports
    PROVE  Reports(k, n) \in Seq(Report) /\ Reports(k, n) # <<>> /\ RestOf(Reports(k, n), k)
<1>1. n \in Nat /\ n > 0
  BY ReportsAssumption
<1>2. Reports(k, n) \in [1 .. n -> Report]
  BY DEF Reports, Report
<1>3. Reports(k, n) \in Seq(Report) /\ Len(Reports(k, n)) = n
  BY <1>1, <1>2, IsASeq, LenProperties
<1>4. \A i \in 1 .. n : Reports(k, n)[i] = [of |-> k, last |-> i = n]
  BY DEF Reports
<1>5. ASSUME NEW i \in 1 .. n
      PROVE  Reports(k, n)[i].of = k /\ (Reports(k, n)[i].last <=> i = n)
  <2>1. CASE i = n
    <3>1. Reports(k, n)[i] = [of |-> k, last |-> TRUE]
      BY <2>1, <1>4
    <3> QED BY <2>1, <3>1
  <2>2. CASE i # n
    <3>1. Reports(k, n)[i] = [of |-> k, last |-> FALSE]
      BY <2>2, <1>4
    <3> QED BY <2>2, <3>1
  <2> QED BY <2>1, <2>2
<1>6. Reports(k, n) # <<>>
  BY <1>1, <1>3
<1> QED
  BY <1>3, <1>5, <1>6 DEF RestOf

LEMMA RestOfTail ==
    ASSUME NEW s \in Seq(Report), NEW k \in Nat, s # <<>>, RestOf(s, k)
    PROVE  /\ Head(s) \in Report /\ Head(s).of = k /\ (Head(s).last <=> Len(s) = 1)
           /\ Tail(s) \in Seq(Report) /\ RestOf(Tail(s), k)
           /\ Len(s) = 1 <=> Tail(s) = <<>>
<1>1. /\ Len(s) \in Nat /\ Len(s) > 0 /\ Head(s) = s[1]
      /\ Tail(s) \in Seq(Report) /\ Len(Tail(s)) = Len(s) - 1
      /\ \A i \in 1 .. Len(Tail(s)) : Tail(s)[i] = s[i + 1]
  BY HeadTailProperties, LenProperties, EmptySeq
<1>2. Head(s) \in Report /\ Head(s).of = k /\ (Head(s).last <=> Len(s) = 1)
  <2>1. 1 \in 1 .. Len(s) /\ Head(s) \in Report
    BY <1>1
  <2> QED
    BY <1>1, <2>1 DEF RestOf
<1>3. ASSUME NEW i \in 1 .. Len(Tail(s))
      PROVE  Tail(s)[i].of = k /\ (Tail(s)[i].last <=> i = Len(Tail(s)))
  <2>1. i + 1 \in 1 .. Len(s) /\ (i + 1 = Len(s) <=> i = Len(Tail(s)))
    BY <1>1
  <2> QED BY <1>1, <2>1 DEF RestOf
<1>4. Len(s) = 1 <=> Tail(s) = <<>>
  <2>1. Tail(s) = <<>> <=> Len(Tail(s)) = 0
    BY <1>1, EmptySeq
  <2> QED BY <1>1, <2>1
<1> QED
  BY <1>1, <1>2, <1>3, <1>4 DEF RestOf

\* A report is written behind the others, over what was there.
LEMMA Written ==
    ASSUME NEW m \in Seq(Report), NEW n \in 0 .. Len(m), NEW r \in Report
    PROVE  LET w == SubSeq(m, 1, n) \o <<r>> \o SubSeq(m, n + 2, Len(m)) IN
            /\ w \in Seq(Report) /\ n + 1 \in 0 .. Len(w)
            /\ w[n + 1] = r /\ \A i \in 1 .. n : w[i] = m[i]
<1> DEFINE a == SubSeq(m, 1, n)
           b == SubSeq(m, n + 2, Len(m))
           c == a \o <<r>>
<1>1. a \in Seq(Report) /\ Len(a) = n /\ \A i \in 1 .. n : a[i] = m[i]
  OBVIOUS
<1>2. b \in Seq(Report)
  OBVIOUS
<1> HIDE DEF a, b
<1>3. c \in Seq(Report) /\ Len(c) = n + 1
      /\ c[n + 1] = r /\ \A i \in 1 .. n : c[i] = m[i]
  BY <1>1
<1> HIDE DEF c
<1>4. /\ c \o b \in Seq(Report) /\ Len(c \o b) = n + 1 + Len(b) /\ Len(b) \in Nat
      /\ \A i \in 1 .. n + 1 : (c \o b)[i] = c[i]
  <2>1. Len(b) \in Nat
    BY <1>2, LenProperties
  <2>2. /\ c \o b \in Seq(Report) /\ Len(c \o b) = Len(c) + Len(b)
        /\ \A i \in 1 .. Len(c) + Len(b) : (c \o b)[i] =
                IF i <= Len(c) THEN c[i] ELSE b[i - Len(c)]
    <3>1. c \in Seq(Report)
      BY <1>3
    <3> QED BY <1>2, <3>1, ConcatProperties
  <2>3. \A i \in 1 .. n + 1 : i <= n + 1 /\ i \in 1 .. n + 1 + Len(b)
    BY <2>1
  <2> QED BY <1>3, <2>1, <2>2, <2>3
<1>5. SubSeq(m, 1, n) \o <<r>> \o SubSeq(m, n + 2, Len(m)) = c \o b
  BY DEF a, b, c
<1> HIDE DEF c
<1>6. /\ n + 1 \in 0 .. Len(c \o b)
      /\ (c \o b)[n + 1] = r /\ \A i \in 1 .. n : (c \o b)[i] = m[i]
  <2>1. n + 1 \in 1 .. n + 1 /\ \A i \in 1 .. n : i \in 1 .. n + 1
    OBVIOUS
  <2> QED
    BY <1>3, <1>4, <2>1
<1> QED
  BY <1>4, <1>5, <1>6

-----------------------------------------------------------------------------
(* The host *)

LEMMA AskKeeps == KitInv /\ Ask => KitInv'
<1> SUFFICES ASSUME KitInv, Ask PROVE KitInv'
  OBVIOUS
<1> USE DEF KitInv
<1>1. KitTypes /\ Executions /\ Host /\ Answers /\ Buffer /\ Counts /\ Own
  OBVIOUS
<1>2. /\ host = "idle" /\ host' = "sending" /\ asked' = asked + 1 /\ got' = <<>>
      /\ UNCHANGED <<answered, mem, length, count, answer, retries, endpoint, at, loaded, executed>>
  BY DEF Ask, rxVars, txVars
<1>3. toSend' \in Seq(Report) /\ toSend' # <<>> /\ RestOf(toSend', asked')
  <2>1. PICK n \in 1 .. MaxReports : toSend' = Reports(asked + 1, n)
    BY DEF Ask
  <2>2. asked + 1 \in Nat
    BY <1>1 DEF KitTypes
  <2> QED BY <1>2, <2>1, <2>2, ReportsAre
<1>4. Done /\ Fresh' /\ ~Done' /\ ~Pending /\ ~Pending' /\ asked \in Nat /\ Len(executed) \in Nat
  <2>1. Done /\ asked \in Nat /\ Len(executed) \in Nat
    BY <1>1, <1>2 DEF Host, KitTypes
  <2> QED BY <1>2, <2>1 DEF Done, Fresh, Pending
<1>5. answer = <<>> /\ endpoint = NoReport /\ at # "reset" /\ at # "process"
  BY <1>1, <1>2, <1>4 DEF Answers, Counts, Pending
<1>6. length = 0
  BY <1>1, <1>4, <1>5 DEF Buffer
<1>7. KitTypes'
  BY <1>1, <1>2, <1>3 DEF KitTypes
<1>8. Executions' /\ Host' /\ Answers' /\ Own'
  BY <1>1, <1>2, <1>3, <1>4, <1>5 DEF Executions, Host, Answers, Own
<1>9. Buffer' /\ Counts'
  BY <1>1, <1>2, <1>4, <1>5, <1>6 DEF Buffer, Counts
<1> QED
  BY <1>7, <1>8, <1>9

LEMMA TakeKeeps == KitInv /\ Take => KitInv'
<1> SUFFICES ASSUME KitInv, Take PROVE KitInv'
  OBVIOUS
<1>1. KitTypes /\ Executions /\ Host /\ Answers /\ Buffer /\ Counts /\ Own
  BY DEF KitInv
<1>2. /\ host = "waiting" /\ endpoint # NoReport /\ endpoint' = NoReport
      /\ got' = Append(got, endpoint)
      /\ UNCHANGED <<asked, toSend, mem, length, count, answer, retries, at, loaded, executed>>
  BY DEF Take, rxVars
<1>3. /\ Done /\ ~Fresh /\ ~Pending /\ endpoint.of = asked /\ asked \in Nat
      /\ endpoint.last => answer = <<>>
  BY <1>1, <1>2 DEF Answers, KitTypes, Done, Fresh, Pending
<1>4. Done' /\ ~Fresh' /\ ~Pending'
  BY <1>2, <1>3 DEF Done, Fresh, Pending
<1>5. /\ got' \in Seq(Report) /\ Len(got') = Len(got) + 1 /\ Len(got) \in Nat
      /\ \A j \in 1 .. Len(got') : got'[j].of = asked
  <2>1. got \in Seq(Report) /\ endpoint \in Report /\ \A j \in 1 .. Len(got) : got[j].of = asked
    BY <1>1, <1>2 DEF KitTypes, Host
  <2>2. Len(got) \in Nat
    BY <2>1, LenProperties
  <2>3. /\ got' \in Seq(Report) /\ Len(got') = Len(got) + 1
        /\ \A j \in 1 .. Len(got) : got'[j] = got[j]
        /\ got'[Len(got) + 1] = endpoint
    BY <1>2, <2>1, AppendProperties
  <2> QED BY <1>3, <2>1, <2>2, <2>3
<1>6. CASE endpoint.last
  <2>1. host' = "idle" /\ answered' = Append(answered, [to |-> asked, with |-> got'])
    BY <1>6 DEF Take
  <2>2. [to |-> asked, with |-> got'] \in [to : Nat, with : Seq(Report)]
    BY <1>3, <1>5
  <2>3. /\ answered' \in Seq([to : Nat, with : Seq(Report)])
        /\ Len(answered') = Len(answered) + 1 /\ Len(answered) \in Nat
        /\ \A i \in 1 .. Len(answered) : answered'[i] = answered[i]
        /\ answered'[Len(answered) + 1] = [to |-> asked, with |-> got']
    BY <1>1, <2>1, <2>2, AppendProperties, LenProperties DEF KitTypes
  <2>4. KitTypes'
    BY <1>1, <1>2, <1>5, <2>1, <2>3 DEF KitTypes, NoReport, Report
  <2>5. Own'
    <3>1. ASSUME NEW i \in DOMAIN answered', NEW j \in DOMAIN answered'[i].with
          PROVE  answered'[i].with[j].of = answered'[i].to
      <4>1. i \in 1 .. Len(answered) + 1
        BY <2>3, LenProperties
      <4>2. CASE i = Len(answered) + 1
        <5>1. j \in 1 .. Len(got')
          BY <1>5, <2>3, <4>2, LenProperties
        <5> QED BY <1>5, <2>3, <4>2, <5>1
      <4>3. CASE i \in 1 .. Len(answered)
        <5>1. answered'[i] = answered[i] /\ i \in DOMAIN answered
          BY <1>1, <2>3, <4>3, LenProperties DEF KitTypes
        <5> QED BY <1>1, <5>1 DEF Own
      <4> QED BY <2>3, <4>1, <4>2, <4>3
    <3> QED BY <3>1 DEF Own
  <2>6. Executions' /\ Host' /\ Answers' /\ Buffer' /\ Counts'
    BY <1>1, <1>2, <1>3, <1>4, <1>6, <2>1 DEF Executions, Host, Answers, Buffer, Counts
  <2> QED BY <2>4, <2>5, <2>6 DEF KitInv
<1>7. CASE ~endpoint.last
  <2>1. UNCHANGED <<host, answered>>
    BY <1>7 DEF Take
  <2>2. KitTypes' /\ Executions' /\ Own'
    BY <1>1, <1>2, <1>5, <2>1 DEF KitTypes, NoReport, Report, Executions, Own,
       Done, Fresh
  <2>3. Host' /\ Answers' /\ Buffer' /\ Counts'
    BY <1>1, <1>2, <1>3, <1>4, <1>5, <2>1 DEF Host, Answers, Buffer, Counts, RestOf
  <2> QED BY <2>2, <2>3 DEF KitInv
<1> QED BY <1>6, <1>7

-----------------------------------------------------------------------------
(* The interrupts *)

LEMMA ReportOutKeeps == KitInv /\ usb_hid_report_out_callback => KitInv'
<1> SUFFICES ASSUME KitInv, usb_hid_report_out_callback PROVE KitInv'
  OBVIOUS
<1>1. KitTypes /\ Executions /\ Host /\ Answers /\ Buffer /\ Counts /\ Own
  BY DEF KitInv
<1> DEFINE r == Head(toSend)
<1>2. /\ host = "sending"
      /\ length' = length + 1
      /\ r.last => count' = count + 1 /\ host' = "waiting"
      /\ ~r.last => count' = count /\ host' = "sending"
      /\ toSend' = Tail(toSend)
      /\ UNCHANGED <<asked, got, answered, answer, retries, endpoint, at, loaded, executed>>
  BY DEF usb_hid_report_out_callback, txVars
<1>0. mem' = SubSeq(mem, 1, length) \o <<r>> \o SubSeq(mem, length + 2, Len(mem))
  BY DEF usb_hid_report_out_callback
<1>3. /\ Fresh /\ toSend \in Seq(Report) /\ toSend # <<>> /\ RestOf(toSend, asked)
      /\ asked \in Nat /\ Len(executed) \in Nat
  BY <1>1, <1>2 DEF Host, KitTypes
<1>4. /\ r \in Report /\ r.of = asked /\ (r.last <=> Len(toSend) = 1)
      /\ Tail(toSend) \in Seq(Report) /\ RestOf(Tail(toSend), asked)
      /\ Len(toSend) = 1 <=> Tail(toSend) = <<>>
  BY <1>3, RestOfTail
<1> HIDE DEF r
<1>5. /\ mem' \in Seq(Report) /\ length + 1 \in 0 .. Len(mem') /\ length \in Nat
      /\ mem'[length + 1] = r /\ \A i \in 1 .. length : mem'[i] = mem[i]
  <2>1. mem \in Seq(Report) /\ length \in 0 .. Len(mem)
    BY <1>1 DEF KitTypes
  <2>2. r \in Report
    BY <1>4
  <2>3. LET w == SubSeq(mem, 1, length) \o <<r>> \o SubSeq(mem, length + 2, Len(mem)) IN
          /\ w \in Seq(Report) /\ length + 1 \in 0 .. Len(w)
          /\ w[length + 1] = r /\ \A i \in 1 .. length : w[i] = mem[i]
    BY <2>1, <2>2, Written, Zenon
  <2>4. length \in Nat
    BY <2>1
  <2> QED BY <1>0, <2>3, <2>4, Zenon
<1>6. ~Done /\ ~Done' /\ Fresh' /\ ~Pending /\ (Pending' <=> r.last)
  BY <1>2, <1>3 DEF Done, Fresh, Pending
<1>7. answer = <<>> /\ endpoint = NoReport /\ at # "process" /\ at # "reset"
  BY <1>1, <1>6 DEF Answers, Counts
<1>8. KitTypes'
  BY <1>1, <1>2, <1>4, <1>5 DEF KitTypes
<1>9. Executions' /\ Answers' /\ Own' /\ Host'
  BY <1>1, <1>2, <1>3, <1>4, <1>6, <1>7 DEF Executions, Answers, Own, Host
<1>10. Buffer'
  <2>1. ASSUME NEW i \in 1 .. length'
        PROVE  mem'[i].of = asked /\ (mem'[i].last <=> host' = "waiting" /\ i = length')
    <3>1. CASE i = length + 1
      BY <1>2, <1>4, <1>5, <3>1
    <3>2. CASE i \in 1 .. length
      <4>1. mem'[i].of = asked /\ ~mem'[i].last
        BY <1>1, <1>2, <1>3, <1>5, <3>2 DEF Buffer
      <4>2. i # length'
        BY <1>2, <1>5, <3>2
      <4> QED BY <4>1, <4>2
    <3> QED BY <1>2, <1>5, <3>1, <3>2
  <2> QED BY <1>2, <1>5, <1>6, <2>1 DEF Buffer
<1>11. Counts'
  BY <1>1, <1>2, <1>6, <1>7 DEF Counts, KitTypes
<1> QED
  BY <1>8, <1>9, <1>10, <1>11 DEF KitInv

LEMMA TimerKeeps == KitInv /\ atca_kit_timer_update => KitInv'
  BY DEF atca_kit_timer_update, hostVars, rxVars, txVars, KitInv, KitTypes, Executions, Host,
     Answers, Buffer, Counts, Own, Done, Fresh, Pending, RestOf

-----------------------------------------------------------------------------
(* The main loop *)

LEMMA ProcessKeeps == KitInv /\ atca_kit_process_usb_packet => KitInv'
<1> SUFFICES ASSUME KitInv, atca_kit_process_usb_packet PROVE KitInv'
  OBVIOUS
<1>1. KitTypes /\ Executions /\ Host /\ Answers /\ Buffer /\ Counts /\ Own
  BY DEF KitInv
<1>2. /\ at = "process" /\ at' = "reset"
      /\ executed' = Append(executed, mem[1].of)
      /\ UNCHANGED <<asked, toSend, host, got, answered, mem, length, count, endpoint, loaded>>
  BY DEF atca_kit_process_usb_packet, Main, hostVars, rxVars
<1>3. count = 1 /\ Fresh /\ host = "waiting" /\ length > 0
  BY <1>1, <1>2 DEF Counts, Pending, Buffer
<1>4. asked \in Nat /\ Len(executed) \in Nat /\ executed \in Seq(Nat) /\ length \in Nat
  BY <1>1 DEF KitTypes
<1>5. mem[1].of = asked
  <2>1. 1 \in 1 .. length
    BY <1>3, <1>4
  <2> QED BY <1>1, <1>3, <2>1 DEF Buffer
<1>6. /\ executed' \in Seq(Nat) /\ Len(executed') = Len(executed) + 1
      /\ \A i \in 1 .. Len(executed) : executed'[i] = executed[i]
      /\ executed'[Len(executed) + 1] = asked
  BY <1>2, <1>4, <1>5, AppendProperties
<1>7. Done' /\ ~Fresh' /\ Len(executed) = asked - 1
  BY <1>2, <1>3, <1>4, <1>6 DEF Done, Fresh
<1>8. answer' \in Seq(Report) /\ answer' # <<>> /\ RestOf(answer', asked)
  <2>1. PICK n \in 1 .. MaxReports : answer' = Reports(asked, n)
    BY <1>5 DEF atca_kit_process_usb_packet
  <2> QED BY <1>4, <2>1, ReportsAre
<1>9. endpoint = NoReport
  BY <1>1, <1>3, <1>4 DEF Answers, Done, Fresh
<1>10. KitTypes'
  BY <1>1, <1>2, <1>6, <1>8 DEF KitTypes
<1>11. Executions'
  <2>1. ASSUME NEW i \in 1 .. Len(executed') PROVE executed'[i] = i
    BY <1>1, <1>4, <1>6, <1>7 DEF Executions
  <2> QED BY <1>7, <2>1 DEF Executions
<1>12. Host' /\ Answers' /\ Buffer' /\ Counts' /\ Own'
  BY <1>1, <1>2, <1>3, <1>7, <1>8, <1>9 DEF Host, Answers, Buffer, Counts, Own, Pending
<1> QED
  BY <1>10, <1>11, <1>12 DEF KitInv

\* Steps that neither the host nor the buffer notices.
LEMMA LoopKeeps ==
    ASSUME KitInv,
           \/ TestReceived \/ ResetBuffer \/ SendRetry \/ SendEnds \/ LoadCount
           \/ StoreCount \/ atca_kit_lock \/ OtherTasks
    PROVE  KitInv'
<1>1. KitTypes /\ Executions /\ Host /\ Answers /\ Buffer /\ Counts /\ Own
  BY DEF KitInv
<1>2. UNCHANGED <<asked, toSend, host, got, answered, mem, endpoint, executed>>
  BY DEF TestReceived, ResetBuffer, SendRetry, SendEnds, LoadCount, StoreCount,
     atca_kit_lock, OtherTasks, Main, hostVars, rxVars
<1>3. Executions' /\ Host' /\ Own' /\ (Done' <=> Done) /\ (Fresh' <=> Fresh)
      /\ (Pending' <=> Pending)
  BY <1>1, <1>2 DEF Executions, Host, Own, Done, Fresh, Pending, RestOf
<1>4. ~(Done /\ Fresh)
  BY <1>1 DEF Done, Fresh, KitTypes
<1>5. CASE TestReceived
  BY <1>1, <1>2, <1>3, <1>4, <1>5 DEF TestReceived, rxVars, KitInv, KitTypes, Answers, RestOf,
     Buffer, Counts, Pending
<1>6. CASE ResetBuffer
  <2>1. /\ at = "reset" /\ at' = "send" /\ length' = 0
        /\ UNCHANGED <<count, answer, loaded>>
    BY <1>6 DEF ResetBuffer
  <2>2. KitTypes' /\ Answers'
    BY <1>1, <1>2, <1>3, <2>1 DEF KitTypes, Answers, RestOf
  <2>3. Buffer' /\ Counts'
    BY <1>1, <1>2, <1>3, <1>4, <2>1 DEF Buffer, Counts, Pending
  <2> QED BY <1>3, <2>2, <2>3 DEF KitInv
<1>7. CASE SendRetry \/ SendEnds
  <2>1. /\ at = "send" /\ UNCHANGED <<length, count, loaded>>
        /\ answer' \in {answer, <<>>} /\ at' \in {"send", "load"}
        /\ at' = "load" => answer' = <<>>
    BY <1>7 DEF SendRetry, SendEnds, rxVars
  <2>2. KitTypes'
    <3>1. answer' \in Seq(Report)
      <4>1. answer \in Seq(Report) /\ <<>> \in Seq(Report)
        BY <1>1 DEF KitTypes
      <4> HIDE DEF Report
      <4>2. answer' = answer \/ answer' = <<>>
        BY <2>1
      <4> QED BY <4>1, <4>2, Zenon
    <3>2. at' \in {"kit", "process", "reset", "send", "load", "store", "lock", "client"}
      BY <2>1
    <3> QED BY <1>1, <1>2, <2>1, <3>1, <3>2, Zenon DEF KitTypes
  <2>3. Answers'
    BY <1>1, <1>2, <1>3, <2>1 DEF Answers, RestOf
  <2>4. Buffer' /\ Counts'
    BY <1>1, <1>2, <1>3, <2>1 DEF Buffer, Counts
  <2> QED BY <1>3, <2>2, <2>3, <2>4 DEF KitInv
<1>8. CASE LoadCount
  BY <1>1, <1>2, <1>3, <1>4, <1>8 DEF LoadCount, rxVars, KitInv, KitTypes, Answers, RestOf,
     Buffer, Counts
<1>9. CASE StoreCount
  BY <1>1, <1>2, <1>3, <1>4, <1>9 DEF StoreCount, KitInv, KitTypes, Answers, RestOf,
     Buffer, Counts
<1>10. CASE atca_kit_lock \/ OtherTasks
  BY <1>1, <1>2, <1>3, <1>4, <1>10 DEF atca_kit_lock, OtherTasks, rxVars, KitInv, KitTypes,
     Answers, RestOf, Buffer, Counts
<1> QED
  BY <1>5, <1>6, <1>7, <1>8, <1>9, <1>10

LEMMA SendKeeps == KitInv /\ SendReport => KitInv'
<1> SUFFICES ASSUME KitInv, SendReport PROVE KitInv'
  OBVIOUS
<1>1. KitTypes /\ Executions /\ Host /\ Answers /\ Buffer /\ Counts /\ Own
  BY DEF KitInv
<1>2. /\ at = "send" /\ answer # <<>> /\ endpoint' = Head(answer) /\ answer' = Tail(answer)
      /\ UNCHANGED <<asked, toSend, host, got, answered, mem, length, count, at, loaded, executed>>
  BY DEF SendReport, hostVars, rxVars
<1>3. Done /\ host = "waiting" /\ RestOf(answer, asked) /\ answer \in Seq(Report) /\ asked \in Nat
  BY <1>1, <1>2 DEF Answers, KitTypes
<1>4. /\ endpoint' \in Report /\ endpoint'.of = asked
      /\ endpoint'.last => answer' = <<>>
      /\ answer' \in Seq(Report) /\ RestOf(answer', asked)
  BY <1>2, <1>3, RestOfTail
<1>5. KitTypes'
  BY <1>1, <1>2, <1>4 DEF KitTypes
<1>6. Executions' /\ Host' /\ Buffer' /\ Counts' /\ Own'
  BY <1>1, <1>2, <1>3 DEF Executions, Host, Buffer, Counts, Own, Done, Fresh,
     Pending, RestOf
<1>7. Answers'
  BY <1>1, <1>2, <1>3, <1>4 DEF Answers, Done
<1> QED
  BY <1>5, <1>6, <1>7 DEF KitInv

LEMMA StutterKeeps == KitInv /\ UNCHANGED vars => KitInv'
  BY DEF vars, hostVars, rxVars, txVars, KitInv, KitTypes, Executions, Host,
     Answers, Buffer, Counts, Own, Done, Fresh, Pending, RestOf

\* The host is patient or not throughout, and a patient one never gives up.
LEMMA SameHost == [Next]_vars => patient' = patient
  BY DEF Next, main_loop, vars, Ask, Take, GiveUp, usb_hid_report_out_callback,
     atca_kit_timer_update, TestReceived, atca_kit_process_usb_packet, ResetBuffer,
     SendReport, SendRetry, SendEnds, LoadCount, StoreCount, atca_kit_lock, OtherTasks,
     Main, hostVars

LEMMA Inductive == Spec => [](patient => KitInv)
<1>1. patient /\ KitInv /\ [Next]_vars => KitInv'
  <2>1. GiveUp => ~patient
    BY DEF GiveUp
  <2> QED
    BY <2>1, AskKeeps, TakeKeeps, ReportOutKeeps, TimerKeeps, ProcessKeeps, LoopKeeps, SendKeeps,
       StutterKeeps DEF Next, main_loop
<1>2. (patient => KitInv) /\ [Next]_vars => (patient => KitInv)'
  BY SameHost, <1>1
<1>3. Init => (patient => KitInv)
  BY InitKitInv
<1> QED
  BY <1>2, <1>3, PTL DEF Spec

-----------------------------------------------------------------------------
(* Any host *)

OrderInv ==
    /\ asked \in Nat /\ toSend \in Seq(Report)
    /\ host = "sending" => toSend # <<>> /\ RestOf(toSend, asked)
    /\ mem \in Seq(Report) /\ length \in 0 .. Len(mem)
    /\ mem # <<>> => mem[1].of <= asked
    /\ mem = <<>> => count = 0 /\ at \in {"kit", "lock", "client"}
    /\ executed \in Seq(Nat)
    /\ \A i \in 1 .. Len(executed) : mem # <<>> /\ executed[i] <= mem[1].of
    /\ \A i \in 1 .. Len(executed) - 1 : executed[i] <= executed[i + 1]

LEMMA FirstReport ==
    ASSUME NEW s \in Seq(Report), s # <<>>
    PROVE  s[1] \in Report /\ s[1].of \in Nat
<1>1. Len(s) \in Nat /\ Len(s) # 0
  BY LenProperties, EmptySeq
<1>2. 1 \in 1 .. Len(s)
  BY <1>1
<1>3. s[1] \in Report
  BY <1>2
<1> QED
  BY <1>3 DEF Report

LEMMA InitOrder == Init => OrderInv
  BY DEF Init, OrderInv

LEMMA AskOrders == OrderInv /\ Ask => OrderInv'
<1> SUFFICES ASSUME OrderInv, Ask PROVE OrderInv'
  OBVIOUS
<1>1. asked' = asked + 1 /\ UNCHANGED <<mem, length, count, at, executed>>
  BY DEF Ask, rxVars
<1>2. PICK k \in 1 .. MaxReports : toSend' = Reports(asked + 1, k)
  BY DEF Ask
<1>3. asked + 1 \in Nat /\ asked \in Nat
  BY DEF OrderInv
<1>4. toSend' \in Seq(Report) /\ toSend' # <<>> /\ RestOf(toSend', asked')
  BY <1>1, <1>2, <1>3, ReportsAre
<1>5. mem # <<>> => mem[1].of \in Nat
  BY FirstReport DEF OrderInv
<1>6. mem # <<>> => mem[1].of <= asked + 1
  BY <1>3, <1>5 DEF OrderInv
<1> QED
  BY <1>1, <1>3, <1>4, <1>6 DEF OrderInv

\* A report of the last command takes the first place, or the place is kept.
LEMMA ReportOutOrders == OrderInv /\ usb_hid_report_out_callback => OrderInv'
<1> SUFFICES ASSUME OrderInv, usb_hid_report_out_callback PROVE OrderInv'
  OBVIOUS
<1> DEFINE r == Head(toSend)
<1>1. /\ host = "sending" /\ length' = length + 1
      /\ r.last => host' = "waiting"
      /\ toSend' = Tail(toSend)
      /\ UNCHANGED <<asked, at, executed>>
      /\ host' = "sending" => ~r.last
  BY DEF usb_hid_report_out_callback
<1>2. mem' = SubSeq(mem, 1, length) \o <<r>> \o SubSeq(mem, length + 2, Len(mem))
  BY DEF usb_hid_report_out_callback
<1>3. /\ asked \in Nat /\ toSend \in Seq(Report) /\ toSend # <<>> /\ RestOf(toSend, asked)
      /\ mem \in Seq(Report) /\ length \in 0 .. Len(mem) /\ Len(mem) \in Nat
  BY <1>1, LenProperties DEF OrderInv
<1>4. /\ r \in Report /\ r.of = asked /\ (r.last <=> Len(toSend) = 1)
      /\ Tail(toSend) \in Seq(Report) /\ RestOf(Tail(toSend), asked)
      /\ Len(toSend) = 1 <=> Tail(toSend) = <<>>
  BY <1>3, RestOfTail
<1> HIDE DEF r
<1>5. /\ mem' \in Seq(Report) /\ length + 1 \in 0 .. Len(mem') /\ length \in Nat
      /\ mem'[length + 1] = r /\ \A i \in 1 .. length : mem'[i] = mem[i]
  <2>1. LET w == SubSeq(mem, 1, length) \o <<r>> \o SubSeq(mem, length + 2, Len(mem)) IN
          /\ w \in Seq(Report) /\ length + 1 \in 0 .. Len(w)
          /\ w[length + 1] = r /\ \A i \in 1 .. length : w[i] = mem[i]
    BY <1>3, <1>4, Written, Zenon
  <2>2. length \in Nat
    BY <1>3
  <2> QED BY <1>2, <2>1, <2>2, Zenon
<1>6. mem' # <<>>
  <2>1. Len(mem') >= 1
    BY <1>5, LenProperties
  <2> QED BY <2>1
<1>7. CASE length = 0
  <2>1. mem'[1].of = asked
    BY <1>4, <1>5, <1>7
  <2>2. \A i \in 1 .. Len(executed) : executed[i] <= asked
    <3> SUFFICES ASSUME NEW i \in 1 .. Len(executed) PROVE executed[i] <= asked
      OBVIOUS
    <3>1. mem # <<>> /\ executed[i] <= mem[1].of /\ mem[1].of <= asked
      BY DEF OrderInv
    <3>2. executed[i] \in Nat /\ mem[1].of \in Nat
      BY <1>3, <3>1, FirstReport DEF OrderInv
    <3> QED BY <1>3, <3>1, <3>2
  <2> QED BY <1>1, <1>3, <1>4, <1>5, <1>6, <2>1, <2>2 DEF OrderInv
<1>8. CASE length # 0
  <2>1. mem'[1] = mem[1] /\ mem # <<>>
    <3>1. 1 \in 1 .. length
      BY <1>5, <1>8
    <3> QED BY <1>3, <1>5, <3>1
  <2> QED BY <1>1, <1>3, <1>4, <1>5, <1>6, <2>1 DEF OrderInv
<1> QED
  BY <1>7, <1>8

LEMMA ProcessOrders == OrderInv /\ atca_kit_process_usb_packet => OrderInv'
<1> SUFFICES ASSUME OrderInv, atca_kit_process_usb_packet PROVE OrderInv'
  OBVIOUS
<1>1. /\ at = "process" /\ at' = "reset" /\ executed' = Append(executed, mem[1].of)
      /\ UNCHANGED <<asked, toSend, host, mem, length, count>>
  BY DEF atca_kit_process_usb_packet, Main, hostVars, rxVars
<1>2. mem # <<>> /\ mem \in Seq(Report) /\ executed \in Seq(Nat) /\ Len(executed) \in Nat
  BY <1>1, LenProperties DEF OrderInv
<1>3. mem[1].of \in Nat
  BY <1>2, FirstReport
<1>4. /\ executed' \in Seq(Nat) /\ Len(executed') = Len(executed) + 1
      /\ \A i \in 1 .. Len(executed) : executed'[i] = executed[i]
      /\ executed'[Len(executed) + 1] = mem[1].of
  BY <1>1, <1>2, <1>3, AppendProperties
<1>5. \A i \in 1 .. Len(executed') : executed'[i] <= mem[1].of
  <2> SUFFICES ASSUME NEW i \in 1 .. Len(executed') PROVE executed'[i] <= mem[1].of
    OBVIOUS
  <2>1. CASE i = Len(executed) + 1
    BY <1>3, <1>4, <2>1
  <2>2. CASE i # Len(executed) + 1
    <3>1. i \in 1 .. Len(executed)
      BY <1>2, <1>4, <2>2
    <3> QED BY <1>4, <3>1 DEF OrderInv
  <2> QED BY <2>1, <2>2
<1>6. \A i \in 1 .. Len(executed') - 1 : executed'[i] <= executed'[i + 1]
  <2> SUFFICES ASSUME NEW i \in 1 .. Len(executed) PROVE executed'[i] <= executed'[i + 1]
    BY <1>2, <1>4
  <2>1. CASE i = Len(executed)
    BY <1>2, <1>4, <2>1 DEF OrderInv
  <2>2. CASE i # Len(executed)
    <3>1. i \in 1 .. Len(executed) - 1 /\ i + 1 \in 1 .. Len(executed)
      BY <1>2, <2>2
    <3> QED BY <1>4, <3>1 DEF OrderInv
  <2> QED BY <2>1, <2>2
<1> QED
  BY <1>1, <1>2, <1>4, <1>5, <1>6 DEF OrderInv

LEMMA OtherOrders ==
    ASSUME OrderInv,
           \/ Take \/ GiveUp \/ atca_kit_timer_update \/ TestReceived \/ ResetBuffer
           \/ SendReport \/ SendRetry \/ SendEnds \/ LoadCount \/ StoreCount
           \/ atca_kit_lock \/ OtherTasks \/ UNCHANGED vars
    PROVE  OrderInv'
<1>1. UNCHANGED <<asked, toSend, mem, executed>> /\ host' \in {host, "idle"}
      /\ length' \in {length, 0}
  BY DEF Take, GiveUp, atca_kit_timer_update, TestReceived, ResetBuffer, SendReport, SendRetry,
     SendEnds, LoadCount, StoreCount, atca_kit_lock, OtherTasks, Main, vars, hostVars, rxVars
<1>2. mem = <<>> => count' = 0 /\ at' \in {"kit", "lock", "client"}
  BY DEF OrderInv, Take, GiveUp, atca_kit_timer_update, TestReceived, ResetBuffer, SendReport,
     SendRetry, SendEnds, LoadCount, StoreCount, atca_kit_lock, OtherTasks, vars, rxVars
<1>3. length' \in 0 .. Len(mem)
  BY <1>1, LenProperties DEF OrderInv
<1> QED
  BY <1>1, <1>2, <1>3 DEF OrderInv, RestOf

LEMMA Ordered == Spec => []OrderInv
<1>1. OrderInv /\ [Next]_vars => OrderInv'
  BY AskOrders, ReportOutOrders, ProcessOrders, OtherOrders DEF Next, main_loop
<1> QED
  BY InitOrder, <1>1, PTL DEF Spec

-----------------------------------------------------------------------------

\* The handler finds one command in the buffer and all of it, if the host waits
\* for its answers, though it may send while the handler still answers
\* (atca_kit_client.c:1034, usb_hid.c:152).
THEOREM OneCommand == Spec => []ProcessesOneCommand
<1>1. (patient => KitInv) => ProcessesOneCommand
  <2> SUFFICES ASSUME patient, KitInv, at = "process"
               PROVE  /\ length > 0
                      /\ \A i \in 1 .. length :
                            mem[i].of = mem[1].of /\ (mem[i].last = (i = length))
    BY DEF ProcessesOneCommand
  <2>1. Fresh /\ host = "waiting" /\ length > 0 /\ length \in Nat
    BY DEF KitInv, KitTypes, Counts, Pending, Buffer
  <2>2. \A i \in 1 .. length : mem[i].of = asked /\ (mem[i].last <=> i = length)
    BY <2>1 DEF KitInv, Buffer
  <2>3. ASSUME NEW i \in 1 .. length PROVE mem[i].last \in BOOLEAN
    <3>1. mem \in Seq(Report) /\ length \in 0 .. Len(mem)
      BY DEF KitInv, KitTypes
    <3>2. Len(mem) \in Nat
      BY <3>1, LenProperties
    <3>3. i \in 1 .. Len(mem)
      BY <3>1, <3>2
    <3>4. mem[i] \in Report
      BY <3>1, <3>3
    <3> QED BY <3>4 DEF Report
  <2>4. 1 \in 1 .. length
    BY <2>1
  <2> QED BY <2>1, <2>2, <2>3, <2>4
<1> QED
  BY <1>1, Inductive, PTL

\* Commands are executed in the order they were sent, for any host; by a host that
\* waits for its answers none is executed twice, however late the handler writes
\* the count back (atca_kit_client.c:1040).
THEOREM CommandsOnce == Spec => []ExecutedOnce
<1>1. OrderInv /\ (patient => KitInv) => ExecutedOnce
  <2> SUFFICES ASSUME OrderInv, patient => KitInv, NEW i \in 1 .. Len(executed) - 1
               PROVE  executed[i] <= executed[i + 1] /\ (patient => executed[i] # executed[i + 1])
    BY DEF ExecutedOnce
  <2>1. executed[i] <= executed[i + 1]
    BY DEF OrderInv
  <2>2. ASSUME patient PROVE executed[i] # executed[i + 1]
    <3>1. Len(executed) \in Nat /\ \A j \in 1 .. Len(executed) : executed[j] = j
      BY <2>2, LenProperties DEF KitInv, KitTypes, Executions
    <3>2. i \in 1 .. Len(executed) /\ i + 1 \in 1 .. Len(executed) /\ i \in Int
      BY <3>1
    <3>3. executed[i] = i /\ executed[i + 1] = i + 1
      BY <3>1, <3>2
    <3> QED BY <3>2, <3>3
  <2> QED BY <2>1, <2>2
<1> QED
  BY <1>1, Inductive, Ordered, PTL

\* What a host that waits takes for the answer to a command is made of reports of
\* that answer only, though its rest may have been given up after the retries
\* (usb_hid.c:102).
THEOREM OwnAnswers == Spec => []AnswerIsOwn
<1>1. (patient => KitInv) => AnswerIsOwn
  BY DEF KitInv, Own, AnswerIsOwn
<1> QED
  BY <1>1, Inductive, PTL
=============================================================================
