-------------------------- MODULE KitPacket_proofs --------------------------
(***************************************************************************)
(* Proofs for KitPacket, for any commands, answers and buffers.  The       *)
(* inductive invariant says how far each loop has come: what it has        *)
(* written is right, and what it has still to read is untouched, because   *)
(* the front loop writes behind the place it reads and the back loop       *)
(* writes beyond it.  A command that does not end in the buffer is not     *)
(* looked at, and one without data does not come further than "packing".   *)
(***************************************************************************)
EXTENDS KitPacket, TLAPS

n == Len(command.load)
total == IF command.closed THEN n ELSE n + 1
ending == IF command.closed THEN 2 * n + 1 ELSE 2 * n + 2
High(k) == ascii_to_nibble(rx[2 * k - 1])
Low(k) == ascii_to_nibble(rx[2 * k])
Unread(from) ==
    \A k \in from..n : High(k) = command.load[k] \div 16 /\ Low(k) = command.load[k] % 16
Value(k) == 16 * ascii_to_nibble(tx[k]) + ascii_to_nibble(tx[k + 1])
Fits == length = Len(answer) /\ length >= 1 /\ 2 * length + 3 <= TxSize

LengthInv ==
    pc \in {"parse", "extract", "unpack", "execute"} => TextLength(command) < Size
TextInv ==
    pc = "parse" => /\ \A k \in 0..TextLength(command) - 1 : rx[k] = Text(command, k)
                    /\ rx[TextLength(command)] = 0
LowerInv ==
    pc = "extract" => /\ \A k \in 0..ending - 1 : rx[k] \notin {0, Close}
                      /\ rx[ending] = IF command.closed THEN Close ELSE 0
                      /\ Unread(1)
UnpackInv ==
    pc = "unpack" => /\ asciiLength = 2 * total /\ asciiIndex = 2 * binIndex
                     /\ binIndex <= total
                     /\ \A k \in 1..n : k <= binIndex => rx[k] = command.load[k]
                     /\ Unread(binIndex + 1)
ClearInv ==
    pc \in {"extract", "unpack", "execute"} => \A k \in TxIndex : tx[k] = 0
AnswerInv ==
    pc = "pack" => \/ length = 0 /\ NoData(command)
                   \/ Fits /\ \A k \in 1..length : tx[k - 1] = answer[k]
Packing ==
    /\ Fits /\ asciiLength = 2 * length + 3
    /\ binIndex <= length - 1 /\ asciiIndex = 2 * binIndex + 2
    /\ \A k \in 1..binIndex + 1 : tx[k - 1] = answer[k]
    /\ \A k \in binIndex + 2..length : Value(2 * k - 1) = answer[k]
    /\ tx[2 * length + 1] = Close /\ tx[2 * length + 2] = EOP
PackInv ==
    pc = "packing" => (binIndex = 65535 /\ NoData(command)) \/ Packing

IInv == /\ TypeOK /\ StaysInside /\ LengthInv /\ TextInv /\ LowerInv /\ UnpackInv
        /\ ClearInv /\ DataAsSent /\ AnswerInv /\ PackInv /\ AnswerAsMeant
----------------------------------------------------------------------------
(* The two halves of a byte, as characters, give the byte back. *)
LEMMA NibblesRoundTrip ==
    ASSUME NEW b \in Byte
    PROVE  /\ ascii_to_nibble(nibble_to_ascii(b)) = b % 16
           /\ ascii_to_nibble(nibble_to_ascii(b \div 16)) = b \div 16
           /\ nibble_to_ascii(b) \in Byte
           /\ nibble_to_ascii(b \div 16) \in Byte
           /\ 16 * (b \div 16) + (b % 16) = b
  BY SMT DEF Byte, ascii_to_nibble, nibble_to_ascii

(* A digit of the host, in lower case, gives its value and is neither the  *)
(* end of the string nor a parenthesis.                                    *)
LEMMA HostDigits ==
    ASSUME NEW d \in 0..15, NEW u \in BOOLEAN
    PROVE  /\ ascii_to_nibble(tolower(HostDigit(d, u))) = d
           /\ tolower(HostDigit(d, u)) \notin {0, Close}
           /\ HostDigit(d, u) \in Byte
  BY SMT DEF Byte, Close, ascii_to_nibble, tolower, HostDigit

LEMMA NibbleType == ASSUME NEW c PROVE ascii_to_nibble(c) \in 0..15
  BY SMT DEF ascii_to_nibble

(* What a command is. *)
LEMMA CommandFacts ==
    ASSUME NEW c \in Commands
    PROVE  /\ c.kind \in {"ecc", "board"} /\ c.load \in Seq(Byte)
           /\ c.closed \in BOOLEAN /\ c.upper \in BOOLEAN
           /\ Len(c.load) \in Nat
           /\ TextLength(c) = 2 * Len(c.load) + (IF c.closed THEN 3 ELSE 2)
           /\ TextLength(c) \in Nat
           /\ \A k \in 1..Len(c.load) : c.load[k] \in Byte
<1>1. /\ c.kind \in {"ecc", "board"} /\ c.load \in Seq(Byte)
      /\ c.closed \in BOOLEAN /\ c.upper \in BOOLEAN
  BY CommandsAssumption DEF CommandsAssumption
<1>2. Len(c.load) \in Nat /\ \A k \in 1..Len(c.load) : c.load[k] \in Byte
  BY <1>1
<1>3. TextLength(c) = 2 * Len(c.load) + (IF c.closed THEN 3 ELSE 2)
  BY <1>1, <1>2, SMT DEF TextLength
<1>4. TextLength(c) \in Nat
  <2>1. TextLength(c) = 2 * Len(c.load) + 3 \/ TextLength(c) = 2 * Len(c.load) + 2
    BY <1>3
  <2> HIDE DEF TextLength
  <2>. QED  BY <1>2, <2>1
<1>. QED  BY <1>1, <1>2, <1>3, <1>4

(* Where the text of a command has its digits and its parentheses. *)
LEMMA TextAt ==
    ASSUME NEW c \in Commands, NEW j \in Nat
    PROVE  /\ j = 0 => Text(c, j) = Open
           /\ j = 2 * Len(c.load) + 1 /\ c.closed => Text(c, j) = Close
           /\ j = 2 * Len(c.load) + 1 /\ ~c.closed => Text(c, j) = EOP
           /\ j \in 1..2 * Len(c.load) /\ j % 2 = 1 =>
                 Text(c, j) = HostDigit(c.load[(j + 1) \div 2] \div 16, c.upper)
           /\ j \in 1..2 * Len(c.load) /\ j % 2 = 0 =>
                 Text(c, j) = HostDigit(c.load[(j + 1) \div 2] % 16, c.upper)
<1>1. Len(c.load) \in Nat  BY CommandFacts
<1>2. j \in 1..2 * Len(c.load) => j # 0  BY <1>1, SMT
<1>3. j = 2 * Len(c.load) + 1 => j \notin 1..2 * Len(c.load) /\ j # 0  BY <1>1, SMT
<1>4. j % 2 = 0 => j % 2 # 1  BY SMT
<1>. QED  BY <1>2, <1>3, <1>4, Zenon DEF Text

(* The text of a command is bytes. *)
LEMMA TextType ==
    ASSUME NEW c \in Commands, NEW k \in Nat
    PROVE  Text(c, k) \in Byte
<1>1. CASE k \in 1..2 * Len(c.load)
  <2>1. (k + 1) \div 2 \in 1..Len(c.load)  BY <1>1, CommandFacts, SMT
  <2> DEFINE b == c.load[(k + 1) \div 2]
  <2>2. b \in Byte  BY <2>1, CommandFacts
  <2>3. b \div 16 \in 0..15 /\ b % 16 \in 0..15  BY <2>2, SMT DEF Byte
  <2>4. HostDigit(b \div 16, c.upper) \in Byte /\ HostDigit(b % 16, c.upper) \in Byte
    BY <2>3, HostDigits, CommandFacts
  <2>5. k # 0  BY <1>1, CommandFacts, SMT
  <2>. QED  BY <1>1, <2>4, <2>5, CommandFacts, SMT DEF Text
<1>2. CASE k \notin 1..2 * Len(c.load)
  BY <1>2, SMT DEF Text, Open, Close, EOP, Byte
<1>. QED  BY <1>1, <1>2
----------------------------------------------------------------------------
(* Typing, used by every step below. *)
LEMMA NType == ASSUME TypeOK
               PROVE  /\ n \in Nat /\ total \in {n, n + 1} /\ Size \in Nat
                      /\ ending \in Nat /\ TextLength(command) \in Nat
                      /\ TextLength(command) = IF command.closed THEN ending + 2 ELSE ending
                      /\ \A k \in 1..n : command.load[k] \in Byte
                      /\ command \in Commands /\ command.closed \in BOOLEAN
                      /\ command.load \in Seq(Byte)
<1>1. command \in Commands  BY DEF TypeOK
<1>2. /\ n \in Nat /\ TextLength(command) = 2 * n + (IF command.closed THEN 3 ELSE 2)
      /\ command.closed \in BOOLEAN /\ command.load \in Seq(Byte)
      /\ \A k \in 1..n : command.load[k] \in Byte
  BY <1>1, CommandFacts DEF n
<1>. QED  BY <1>1, <1>2, SizeAssumption, SMT DEF total, ending

LEMMA InitInv == Init => IInv
<1>. SUFFICES ASSUME Init PROVE IInv
  OBVIOUS
<1>1. TypeOK
  <2>1. <<0>> \in Seq(Byte) /\ 0 \in Byte  BY SMT DEF Byte
  <2>2. 0 \in 0..TxSize  BY SizeAssumption DEF TxSize
  <2>. QED  BY <2>1, <2>2 DEF Init, TypeOK
<1>2. pc = "idle"
  BY DEF Init
<1>. QED  BY <1>1, <1>2 DEF IInv, StaysInside, LengthInv, TextInv, LowerInv, UnpackInv,
                           ClearInv, DataAsSent, AnswerInv, PackInv, AnswerAsMeant

LEMMA ReceiveInv == TypeOK /\ IInv /\ Receive => IInv'
<1>. SUFFICES ASSUME TypeOK, Receive PROVE IInv'
  OBVIOUS
<1> DEFINE c == command'
           T == TextLength(c)
<1>0. /\ c \in Commands /\ T \in Nat /\ Size \in Nat
      /\ rx' = [k \in Index |-> IF k < T THEN Text(c, k) ELSE IF k = T THEN 0 ELSE rx[k]]
  <2>1. c \in Commands  BY DEF Receive
  <2>2. T \in Nat  BY <2>1, CommandFacts
  <2>. QED  BY <2>1, <2>2, SizeAssumption DEF Receive
<1>1. rx' \in [Index -> Byte]
  <2>1. \A k \in Index : k \in Nat  BY <1>0, SMT DEF Index
  <2>2. \A k \in Index : Text(c, k) \in Byte
    BY <1>0, <2>1, TextType
  <2>3. 0 \in Byte  BY SMT DEF Byte
  <2>. QED  BY <1>0, <2>2, <2>3 DEF TypeOK
<1> HIDE DEF T, c
<1>2. pc' = IF T < Size THEN "parse" ELSE "outside"
  BY DEF Receive, T, c
<1>3. TypeOK'
  <2>1. pc' \in {"parse", "outside"}  BY <1>2
  <2>. QED  BY <1>0, <1>1, <2>1 DEF TypeOK, Receive, c
<1>4. StaysInside' /\ LengthInv'
  BY <1>0, <1>2, SMT DEF StaysInside, LengthInv, T, c
<1>5. TextInv'
  <2>1. ASSUME T < Size PROVE /\ \A k \in 0..T - 1 : k \in Index /\ k < T
                              /\ T \in Index /\ ~(T < T)
    BY <1>0, <2>1, SMT DEF Index
  <2>2. ASSUME pc' = "parse" PROVE (\A k \in 0..T - 1 : rx'[k] = Text(c, k)) /\ rx'[T] = 0
    BY <1>0, <1>2, <2>1, <2>2
  <2>. QED  BY <2>2 DEF TextInv, T, c
<1>6. pc' \in {"parse", "outside"}
  BY <1>2
<1>. QED  BY <1>3, <1>4, <1>5, <1>6 DEF IInv, LowerInv, UnpackInv, ClearInv, DataAsSent,
                                       AnswerInv, PackInv, AnswerAsMeant

(* In lower case the text has neither a 0 nor a closing parenthesis before *)
(* its end.                                                                *)
LEMMA LowerStep == IInv /\ Lower => IInv'
<1>. SUFFICES ASSUME IInv, Lower PROVE IInv'
  OBVIOUS
<1>0. TypeOK /\ TextInv /\ LengthInv /\ pc = "parse" /\ pc' = "extract"
  BY DEF IInv, Lower
<1>1. /\ n \in Nat /\ Size \in Nat /\ ending \in Nat /\ command \in Commands
      /\ TextLength(command) = IF command.closed THEN ending + 2 ELSE ending
      /\ ending = IF command.closed THEN 2 * n + 1 ELSE 2 * n + 2
      /\ \A k \in 1..n : command.load[k] \in Byte
  BY <1>0, NType DEF ending
<1>2. command' = command /\ n' = n /\ ending' = ending
  BY DEF Lower, n, ending
<1>3. command.upper \in BOOLEAN /\ command.closed \in BOOLEAN /\ TextLength(command) < Size
  BY <1>0, <1>1, CommandFacts DEF LengthInv
<1>4. TypeOK'
  <2>1. \A c \in Byte : tolower(c) \in Byte  BY SMT DEF tolower, Byte
  <2>2. 0 \in Byte  BY SMT DEF Byte
  <2>3. rx' \in [Index -> Byte] /\ tx' \in [TxIndex -> Byte]
    BY <1>0, <2>1, <2>2 DEF Lower, TypeOK
  <2>. QED  BY <1>0, <2>3 DEF TypeOK, Lower
<1>5. ClearInv' /\ LengthInv'
  BY <1>2, <1>3 DEF Lower, ClearInv, LengthInv
<1>6. \A k \in 0..2 * n : rx'[k] = tolower(Text(command, k))
  <2>1. \A k \in 0..2 * n : /\ k \in Index /\ k < TextLength(command) - 1
                            /\ k \in 0..TextLength(command) - 1
    BY <1>1, <1>3, SMT DEF Index
  <2>. QED  BY <1>0, <2>1 DEF TextInv, Lower
<1>7. rx'[ending] = IF command.closed THEN Close ELSE 0
  <2>1. tolower(Close) = Close  BY SMT DEF tolower, Close
  <2>2. CASE command.closed
    <3>1. /\ ending \in Index /\ ending < TextLength(command) - 1
          /\ ending \in 0..TextLength(command) - 1
      BY <1>1, <1>3, <2>2, SMT DEF Index
    <3>2. rx'[ending] = tolower(Text(command, ending))
      BY <1>0, <3>1 DEF TextInv, Lower
    <3>3. Text(command, ending) = Close
      BY <1>1, <2>2, TextAt DEF n
    <3>. QED  BY <2>1, <2>2, <3>2, <3>3
  <2>3. CASE ~command.closed
    <3>1. ending \in Index /\ ~(ending < TextLength(command) - 1) /\ ending = TextLength(command)
      BY <1>1, <1>3, <2>3, SMT DEF Index
    <3>. QED  BY <1>0, <2>3, <3>1 DEF TextInv, Lower
  <2>. QED  BY <1>3, <2>2, <2>3
<1>8. ASSUME NEW k \in 1..n
      PROVE  /\ rx'[2 * k - 1] = tolower(HostDigit(command.load[k] \div 16, command.upper))
             /\ rx'[2 * k] = tolower(HostDigit(command.load[k] % 16, command.upper))
  <2>1. /\ 2 * k - 1 \in 1..2 * n /\ 2 * k \in 1..2 * n
        /\ (2 * k - 1 + 1) \div 2 = k /\ (2 * k + 1) \div 2 = k
        /\ (2 * k - 1) % 2 = 1 /\ (2 * k) % 2 = 0
    BY <1>1, SMT
  <2>2. 2 * k - 1 \in Nat /\ 2 * k \in Nat
    BY <1>1, <2>1, SMT
  <2>3. /\ Text(command, 2 * k - 1) = HostDigit(command.load[k] \div 16, command.upper)
        /\ Text(command, 2 * k) = HostDigit(command.load[k] % 16, command.upper)
    BY <1>1, <2>1, <2>2, TextAt, Zenon DEF n
  <2>4. 2 * k - 1 \in 0..2 * n /\ 2 * k \in 0..2 * n
    BY <1>1, SMT
  <2>. QED  BY <1>6, <2>3, <2>4
<1>9. ASSUME NEW k \in 1..n
      PROVE  /\ ascii_to_nibble(rx'[2 * k - 1]) = command.load[k] \div 16
             /\ ascii_to_nibble(rx'[2 * k]) = command.load[k] % 16
             /\ rx'[2 * k - 1] \notin {0, Close} /\ rx'[2 * k] \notin {0, Close}
  <2>1. \A b \in Byte : b \div 16 \in 0..15 /\ b % 16 \in 0..15
    BY SMT DEF Byte
  <2>2. command.load[k] \div 16 \in 0..15 /\ command.load[k] % 16 \in 0..15
    BY <1>1, <2>1
  <2>. QED  BY <1>3, <1>8, <2>2, HostDigits
<1>10. ASSUME NEW j \in 0..ending - 1 PROVE rx'[j] \notin {0, Close}
  <2>1. j = 0 \/ (~command.closed /\ j = 2 * n + 1) \/ \E k \in 1..n : j = 2 * k - 1 \/ j = 2 * k
    <3>1. j \in 1..2 * n => /\ (j + 1) \div 2 \in 1..n
                            /\ (j = 2 * ((j + 1) \div 2) - 1 \/ j = 2 * ((j + 1) \div 2))
      BY <1>1, SMT
    <3>2. j = 0 \/ j \in 1..2 * n \/ (~command.closed /\ j = 2 * n + 1)
      BY <1>1, <1>3, SMT
    <3>. QED  BY <3>1, <3>2
  <2>2. CASE j = 0
    <3>1. Text(command, 0) = Open /\ 0 \in 0..2 * n  BY <1>1, TextAt
    <3>2. tolower(Open) \notin {0, Close}  BY SMT DEF tolower, Open, Close
    <3>. QED  BY <1>6, <2>2, <3>1, <3>2
  <2>3. CASE ~command.closed /\ j = 2 * n + 1
    <3>1. /\ j \in Nat /\ j \in Index /\ ~(j < TextLength(command) - 1)
          /\ j \in 0..TextLength(command) - 1
      BY <1>1, <1>3, <2>3, SMT DEF Index
    <3>2. rx'[j] = Text(command, j)
      BY <1>0, <3>1 DEF TextInv, Lower
    <3>3. Text(command, j) = EOP
      BY <1>1, <2>3, <3>1, TextAt DEF n
    <3>. QED  BY <3>2, <3>3, SMT DEF EOP, Close
  <2>. QED  BY <1>9, <2>1, <2>2, <2>3
<1>11. LowerInv'
  BY <1>2, <1>7, <1>9, <1>10 DEF LowerInv, Unread, High, Low
<1>. QED  BY <1>0, <1>4, <1>5, <1>11 DEF IInv, StaysInside, TextInv, UnpackInv, DataAsSent,
                                        AnswerInv, PackInv, AnswerAsMeant

(* The first closing parenthesis ends the data, and there is no other end. *)
LEMMA ExtractStep == IInv /\ extract_data_load => IInv'
<1>. SUFFICES ASSUME IInv, extract_data_load PROVE IInv'
  OBVIOUS
<1>0. TypeOK /\ LowerInv /\ LengthInv /\ ClearInv /\ pc = "extract" /\ pc' = "unpack"
  BY DEF IInv, extract_data_load
<1>1. /\ n \in Nat /\ Size \in Nat /\ ending \in Nat /\ TextLength(command) < Size
      /\ TextLength(command) = IF command.closed THEN ending + 2 ELSE ending
      /\ ending = (IF command.closed THEN 2 * n + 1 ELSE 2 * n + 2)
      /\ total = (IF command.closed THEN n ELSE n + 1) /\ command.closed \in BOOLEAN
  BY <1>0, NType DEF LengthInv, ending, total
<1>2. PICK k \in Index : DataEnd(k) /\ asciiLength' = k
  BY DEF extract_data_load
<1>3. /\ rx[ending] = IF command.closed THEN Close ELSE 0
      /\ \A j \in 0..ending - 1 : rx[j] \notin {0, Close}
  BY <1>0 DEF LowerInv
<1>4. ending \in Index /\ k \in Nat
  BY <1>1, SMT DEF Index
<1>5. ASSUME IsClosing(k + 1) PROVE k + 1 = ending /\ command.closed
  <2>1. rx[k + 1] = Close /\ \A j \in 0..(k + 1) - 1 : rx[j] \notin {0, Close}
    BY <1>5 DEF IsClosing
  <2>2. ~(k + 1 < ending)
    <3>1. k + 1 < ending => k + 1 \in 0..ending - 1  BY <1>1, <1>4, SMT
    <3>. QED  BY <1>3, <2>1, <3>1
  <2>3. ~(k + 1 > ending)
    <3>1. k + 1 > ending => ending \in 0..(k + 1) - 1  BY <1>1, <1>4, SMT
    <3>2. rx[ending] \in {0, Close}  BY <1>1, <1>3
    <3>. QED  BY <2>1, <3>1, <3>2
  <2>4. k + 1 = ending  BY <1>1, <1>4, <2>2, <2>3, SMT
  <2>5. 0 # Close  BY SMT DEF Close
  <2>. QED  BY <1>1, <1>3, <2>1, <2>4, <2>5
<1>6. ASSUME IsEnd(k), \A j \in 0..k - 1 : ~IsClosing(j) PROVE k = ending /\ ~command.closed
  <2>1. rx[k] = 0 /\ \A j \in 0..k - 1 : rx[j] # 0
    BY <1>6 DEF IsEnd
  <2>2. ~(k < ending)
    <3>1. k < ending => k \in 0..ending - 1  BY <1>1, <1>4, SMT
    <3>. QED  BY <1>3, <2>1, <3>1
  <2>3. command.closed => IsClosing(ending)
    BY <1>1, <1>3, <1>4 DEF IsClosing
  <2>4. ~(k > ending)
    <3>1. k > ending => ending \in 0..k - 1  BY <1>1, <1>4, SMT
    <3>. QED  BY <1>1, <1>3, <1>6, <2>1, <2>3, <3>1
  <2>5. k = ending  BY <1>1, <1>4, <2>2, <2>4, SMT
  <2>6. 0 # Close  BY SMT DEF Close
  <2>. QED  BY <1>1, <1>3, <2>1, <2>5, <2>6
<1>20. k = 2 * total
  <2>1. CASE IsClosing(k + 1)  BY <1>1, <1>4, <1>5, <2>1, SMT
  <2>2. CASE IsEnd(k) /\ \A j \in 0..k - 1 : ~IsClosing(j)  BY <1>1, <1>4, <1>6, <2>2, SMT
  <2>. QED  BY <1>2, <2>1, <2>2 DEF DataEnd
<1>7. TypeOK'
  <2>1. 2 * total \in 0..TxSize /\ 0 \in 0..TxSize  BY <1>1, <1>4, <1>20, SMT DEF Index, TxSize
  <2>. QED  BY <1>0, <1>2, <1>20, <2>1 DEF TypeOK, extract_data_load
<1>8. UnpackInv'
  <2>1. /\ asciiLength' = 2 * total' /\ binIndex' = 0 /\ asciiIndex' = 0 /\ n' = n
        /\ command' = command /\ rx' = rx /\ total' = total
    BY <1>2, <1>20 DEF extract_data_load, n, total
  <2>2. Unread(1)  BY <1>0 DEF LowerInv
  <2>3. Unread(1)'  BY <2>1, <2>2 DEF Unread, High, Low
  <2>4. /\ 0 = 2 * 0 /\ 0 + 1 = 1 /\ 0 <= total'
        /\ \A j \in 1..n' : ~(j <= 0)
    BY <1>1, <2>1, SMT
  <2>5. Unread(binIndex + 1)'  BY <2>1, <2>3, <2>4 DEF Unread, High, Low
  <2>. QED  BY <2>1, <2>4, <2>5 DEF UnpackInv
<1>9. ClearInv' /\ LengthInv'
  BY <1>0, <1>1 DEF ClearInv, LengthInv, extract_data_load
<1>. QED  BY <1>0, <1>7, <1>8, <1>9 DEF IInv, StaysInside, TextInv, LowerInv, DataAsSent,
                                       AnswerInv, PackInv, AnswerAsMeant

(* An iteration writes behind the digits it has still to read. *)
LEMMA UnpackStep == IInv /\ ascii_to_binary => IInv'
<1>. SUFFICES ASSUME IInv, ascii_to_binary PROVE IInv'
  OBVIOUS
<1>0. TypeOK /\ UnpackInv /\ LengthInv /\ ClearInv /\ pc = "unpack" /\ pc' = "unpack"
  BY DEF IInv, ascii_to_binary
<1>1. /\ n \in Nat /\ Size \in Nat /\ total \in Nat /\ n <= total /\ 2 * total < Size
      /\ \A k \in 1..n : command.load[k] \in Byte
  BY <1>0, NType, SMT DEF LengthInv, ending, total
<1>2. /\ asciiLength = 2 * total /\ asciiIndex = 2 * binIndex
      /\ binIndex <= total /\ binIndex \in Nat
      /\ \A k \in 1..n : k <= binIndex => rx[k] = command.load[k]
      /\ Unread(binIndex + 1)
  BY <1>0, <1>1, SizeAssumption, SMT DEF UnpackInv, TypeOK, TxSize
<1>3. /\ command' = command /\ n' = n /\ total' = total /\ asciiLength' = asciiLength /\ tx' = tx
      /\ binIndex' = binIndex + 1 /\ asciiIndex' = asciiIndex + 2
  BY DEF ascii_to_binary, n, total
<1> DEFINE p == binIndex + 1
           x == ascii_to_nibble(rx[2 * p - 1])
           y == ascii_to_nibble(rx[2 * p])
           v == ((x * 16) % 256) + y
<1>4. /\ p \in 1..total /\ p \in Index /\ 1 + binIndex = p /\ 2 * p \in Index
      /\ 1 + asciiIndex = 2 * p - 1 /\ 2 + asciiIndex = 2 * p /\ 2 * p # p
  BY <1>1, <1>2, SMT DEF ascii_to_binary, Index
<1>5. x \in 0..15 /\ y \in 0..15
  BY NibbleType
<1>6. v \in Byte
  <2>1. ASSUME NEW i \in 0..15, NEW j \in 0..15 PROVE ((i * 16) % 256) + j \in Byte
    BY SMT DEF Byte
  <2>. QED  BY <1>5, <2>1
<1>7. rx' = [rx EXCEPT ![p] = v]
  <2> DEFINE high == [rx EXCEPT ![p] = (x * 16) % 256]
  <2>1. high[2 * p] = rx[2 * p]
    BY <1>0, <1>4 DEF TypeOK
  <2>2. rx' = [high EXCEPT ![p] = @ + ascii_to_nibble(high[2 * p])]
    BY <1>4 DEF ascii_to_binary, Unpack
  <2>3. high[p] = (x * 16) % 256
    BY <1>0, <1>4 DEF TypeOK
  <2>4. rx' = [high EXCEPT ![p] = v]
    BY <2>1, <2>2, <2>3
  <2>5. rx \in [Index -> Byte]
    BY <1>0 DEF TypeOK
  <2> DEFINE w == (x * 16) % 256
  <2> HIDE DEF v, w
  <2>6. high = [rx EXCEPT ![p] = w]
    BY DEF w
  <2> HIDE DEF p, high
  <2>. QED  BY <2>4, <2>5, <2>6
<1>8. p \in 1..n => v = command.load[p]
  <2>1. SUFFICES ASSUME p \in 1..n PROVE v = command.load[p]
    OBVIOUS
  <2>2. x = command.load[p] \div 16 /\ y = command.load[p] % 16 /\ command.load[p] \in Byte
    BY <1>1, <1>2, <2>1 DEF Unread, High, Low
  <2>3. \A b \in Byte : (((b \div 16) * 16) % 256) + (b % 16) = b
    BY SMT DEF Byte
  <2>. QED  BY <2>2, <2>3
<1> HIDE DEF v, x, y
<1>9. TypeOK'
  <2>1. rx' \in [Index -> Byte]
    <3>1. rx \in [Index -> Byte]
      BY <1>0 DEF TypeOK
    <3> HIDE DEF p
    <3>. QED  BY <1>6, <1>7, <3>1
  <2>2. binIndex + 1 \in 0..TxSize /\ asciiIndex + 2 \in 0..TxSize
    BY <1>1, <1>2, <1>4, SMT DEF TxSize
  <2>. QED  BY <1>0, <1>3, <2>1, <2>2 DEF TypeOK, ascii_to_binary
<1>10. \A k \in 1..n : k <= p => rx'[k] = command.load[k]
  <2>1. \A k \in 1..n : k <= p => k \in Index /\ (k = p \/ k <= binIndex)
    BY <1>1, <1>2, <1>4, SMT DEF Index
  <2>. QED  BY <1>0, <1>2, <1>4, <1>7, <1>8, <2>1 DEF TypeOK
<1>11. \A k \in p + 1..n : /\ ascii_to_nibble(rx'[2 * k - 1]) = command.load[k] \div 16
                           /\ ascii_to_nibble(rx'[2 * k]) = command.load[k] % 16
  <2>1. \A k \in p + 1..n : /\ k \in p..n /\ 2 * k - 1 # p /\ 2 * k # p
                            /\ 2 * k - 1 \in Index /\ 2 * k \in Index
    BY <1>1, <1>4, SMT DEF Index
  <2>2. \A k \in p + 1..n : rx'[2 * k - 1] = rx[2 * k - 1] /\ rx'[2 * k] = rx[2 * k]
    BY <1>0, <1>7, <2>1 DEF TypeOK
  <2>. QED  BY <1>2, <1>3, <2>1, <2>2 DEF Unread, High, Low
<1>12. UnpackInv'
  <2>1. binIndex' <= total' /\ asciiIndex' = 2 * binIndex' /\ asciiLength' = 2 * total'
    BY <1>1, <1>2, <1>3, <1>4, SMT
  <2>. QED  BY <1>3, <1>10, <1>11, <2>1 DEF UnpackInv, Unread, High, Low
<1>13. ClearInv' /\ LengthInv'
  BY <1>0, <1>3 DEF ClearInv, LengthInv
<1>. QED  BY <1>0, <1>9, <1>12, <1>13 DEF IInv, StaysInside, TextInv, LowerInv, DataAsSent,
                                         AnswerInv, PackInv, AnswerAsMeant

(* The loop ends with every byte of the load. *)
LEMMA ExtractedStep == IInv /\ Extracted => IInv'
<1>. SUFFICES ASSUME IInv, Extracted PROVE IInv'
  OBVIOUS
<1>0. TypeOK /\ UnpackInv /\ LengthInv /\ ClearInv /\ pc = "unpack" /\ pc' = "execute"
  BY DEF IInv, Extracted
<1>1. n \in Nat /\ total \in Nat /\ n <= total /\ binIndex \in Nat
  BY <1>0, NType, SizeAssumption, SMT DEF TypeOK, TxSize
<1>2. /\ asciiLength = 2 * total /\ asciiIndex = 2 * binIndex /\ binIndex <= total
      /\ \A k \in 1..n : k <= binIndex => rx[k] = command.load[k]
  BY <1>0 DEF UnpackInv
<1>3. binIndex = total
  BY <1>1, <1>2, SMT DEF Extracted
<1>4. DataAsSent'
  <2>1. \A k \in 1..n : k <= binIndex
    BY <1>1, <1>3, SMT
  <2>. QED  BY <1>2, <1>3, <2>1 DEF DataAsSent, Extracted, n, total
<1>5. TypeOK' /\ ClearInv' /\ LengthInv'
  BY <1>0 DEF TypeOK, ClearInv, LengthInv, Extracted
<1>. QED  BY <1>0, <1>4, <1>5 DEF IInv, StaysInside, TextInv, LowerInv, UnpackInv,
                                 AnswerInv, PackInv, AnswerAsMeant

LEMMA Sizes == TxSize \in Nat /\ TxSize = Size + 3 /\ TxSize < 65536 /\ Size \in Nat
  BY SizeAssumption, SMT DEF TxSize

LEMMA StatusFirst ==
    ASSUME NEW s \in Byte, NEW m \in Nat, m >= 1,
           NEW a, a = <<s>> \o [k \in 1..m - 1 |-> 0]
    PROVE  /\ a \in Seq(Byte) /\ Len(a) = m
           /\ \A k \in 1..m : a[k] = IF k = 1 THEN s ELSE 0
<1> DEFINE z == [k \in 1..m - 1 |-> 0]
<1>1. z \in [1..m - 1 -> Byte] /\ m - 1 \in Nat  BY SMT DEF Byte
<1>2. \A k \in 1..m : k # 1 => k - 1 \in 1..m - 1  BY SMT
<1>3. \A k \in 1..m - 1 : z[k] = 0  OBVIOUS
<1> HIDE DEF z
<1>4. /\ <<s>> \o z \in Seq(Byte) /\ Len(<<s>> \o z) = m
      /\ \A k \in 1..m : (<<s>> \o z)[k] = IF k = 1 THEN s ELSE z[k - 1]
  BY <1>1, SMT
<1>. QED  BY <1>2, <1>3, <1>4 DEF z

LEMMA ChipAnswers == IInv /\ parse_ecc_commands => IInv'
<1>. SUFFICES ASSUME IInv, parse_ecc_commands PROVE IInv'
  OBVIOUS
<1>0. TypeOK /\ pc' = "pack"
  BY DEF IInv, parse_ecc_commands
<1>1. PICK a \in Answers : /\ answer' = a /\ length' = Len(a)
                           /\ tx' = [k \in TxIndex |-> IF k < Len(a) THEN a[k + 1] ELSE tx[k]]
  BY DEF parse_ecc_commands
<1>2. /\ a \in Seq(Byte) /\ Len(a) \in Nat /\ Len(a) >= 1 /\ 2 * Len(a) + 3 <= TxSize
      /\ \A k \in 1..Len(a) : a[k] \in Byte
  BY AnswersAssumption, SMT
<1>3. TypeOK'
  <2>1. \A k \in TxIndex : k < Len(a) => k + 1 \in 1..Len(a)
    BY <1>2, SizeAssumption, SMT DEF TxIndex, TxSize
  <2>2. tx' \in [TxIndex -> Byte]
    BY <1>0, <1>1, <1>2, <2>1 DEF TypeOK
  <2>3. Len(a) \in 0..TxSize
    BY <1>2, Sizes, SMT
  <2>. QED  BY <1>0, <1>1, <1>2, <2>2, <2>3 DEF TypeOK, parse_ecc_commands
<1>4. AnswerInv'
  <2>1. \A k \in 1..Len(a) : k - 1 \in TxIndex /\ k - 1 < Len(a) /\ (k - 1) + 1 = k
    BY <1>2, SizeAssumption, SMT DEF TxIndex, TxSize
  <2>2. \A k \in 1..Len(a) : tx'[k - 1] = a[k]
    BY <1>1, <2>1
  <2>. QED  BY <1>1, <1>2, <2>2 DEF AnswerInv, Fits
<1>. QED  BY <1>0, <1>3, <1>4 DEF IInv, StaysInside, LengthInv, TextInv, LowerInv,
                                 UnpackInv, ClearInv, DataAsSent, PackInv, AnswerAsMeant

(* The answer to an application command has a status byte, but its length   *)
(* is 0 if the command had no data.                                        *)
LEMMA BoardAnswers == IInv /\ parse_board_commands => IInv'
<1>. SUFFICES ASSUME IInv, parse_board_commands PROVE IInv'
  OBVIOUS
<1>0. /\ TypeOK /\ DataAsSent /\ LengthInv /\ ClearInv /\ pc = "execute" /\ pc' = "pack"
      /\ command.kind = "board"
  BY DEF IInv, parse_board_commands
<1>1. PICK status \in {0, 225} :
          /\ answer' = <<status>> \o [k \in 1..binIndex - 1 |-> 0]
          /\ tx' = [tx EXCEPT ![0] = status]
  BY DEF parse_board_commands
<1>2. /\ n \in Nat /\ total \in Nat /\ 2 * total < Size /\ Size \in Nat
      /\ total = (IF command.closed THEN n ELSE n + 1)
  BY <1>0, NType, SMT DEF LengthInv, ending, total
<1>3. binIndex = total /\ length' = binIndex
  BY <1>0 DEF DataAsSent, n, total, parse_board_commands
<1>4. status \in Byte /\ 0 \in Byte
  BY SMT DEF Byte
<1>5. ASSUME binIndex >= 1
      PROVE  /\ answer' \in Seq(Byte) /\ Len(answer') = binIndex
             /\ \A k \in 1..binIndex : answer'[k] = IF k = 1 THEN status ELSE 0
  BY <1>1, <1>2, <1>3, <1>4, <1>5, StatusFirst
<1>6. answer' \in Seq(Byte)
  <2>1. CASE binIndex = 0
    <3>1. 1..binIndex - 1 = 1..0  BY <2>1, SMT
    <3>2. [k \in 1..0 |-> 0] \in Seq(Byte)  BY <1>4
    <3>3. <<status>> \in Seq(Byte)  BY <1>4
    <3> DEFINE z == [k \in 1..0 |-> 0]
    <3>4. answer' = <<status>> \o z  BY <1>1, <3>1
    <3> HIDE DEF z
    <3>. QED  BY <3>2, <3>3, <3>4 DEF z
  <2>2. CASE binIndex >= 1  BY <1>5, <2>2
  <2>. QED  BY <1>2, <1>3, <2>1, <2>2, SMT
<1>7. TypeOK'
  <2>1. length' \in 0..TxSize  BY <1>2, <1>3, Sizes, SMT
  <2>2. tx \in [TxIndex -> Byte]  BY <1>0 DEF TypeOK
  <2>3. tx' \in [TxIndex -> Byte]  BY <1>1, <1>4, <2>2
  <2>. QED  BY <1>0, <1>6, <2>1, <2>3 DEF TypeOK, parse_board_commands
<1>8. AnswerInv'
  <2>1. CASE binIndex = 0
    <3>1. command.closed /\ n = 0
      BY <1>2, <1>3, <2>1, SMT
    <3>2. command.load = <<>>
      BY <1>0, <3>1, NType DEF n
    <3>. QED  BY <1>0, <1>3, <2>1, <3>1, <3>2 DEF AnswerInv, NoData, parse_board_commands
  <2>2. CASE binIndex >= 1
    <3>1. \A k \in 1..binIndex : k - 1 \in TxIndex /\ (k = 1 => k - 1 = 0) /\ (k # 1 => k - 1 # 0)
      BY <1>2, <1>3, Sizes, SMT DEF TxIndex
    <3>2. \A k \in 1..binIndex : tx'[k - 1] = answer'[k]
      BY <1>0, <1>1, <1>5, <2>2, <3>1 DEF TypeOK, ClearInv
    <3>3. 2 * binIndex + 3 <= TxSize
      BY <1>2, <1>3, Sizes, SMT
    <3>. QED  BY <1>3, <1>5, <2>2, <3>2, <3>3 DEF AnswerInv, Fits
  <2>. QED  BY <1>2, <1>3, <2>1, <2>2, SMT
<1>. QED  BY <1>0, <1>7, <1>8 DEF IInv, StaysInside, LengthInv, TextInv, LowerInv, UnpackInv,
                                 ClearInv, DataAsSent, PackInv, AnswerAsMeant

LEMMA PackStarts == IInv /\ create_usb_packet => IInv'
<1>. SUFFICES ASSUME IInv, create_usb_packet PROVE IInv'
  OBVIOUS
<1>0. TypeOK /\ AnswerInv /\ pc = "pack" /\ pc' = "packing" /\ length' = length
      /\ answer' = answer /\ command' = command
  BY DEF IInv, create_usb_packet
<1>1. length \in Nat /\ (length = 0 \/ 2 * length + 3 <= TxSize)
  BY <1>0, Sizes, SMT DEF AnswerInv, Fits, TypeOK
<1>2. /\ binIndex' = (length + 65535) % 65536 /\ asciiIndex' = 2 * length
      /\ asciiLength' = 2 * (length - 1) + 5
      /\ tx' = [tx EXCEPT ![2 * length + 2] = EOP, ![2 * length + 1] = Close]
  BY DEF create_usb_packet
<1>3. length = 0 => binIndex' = 65535
  <2>1. (0 + 65535) % 65536 = 65535  BY SMT
  <2>. QED  BY <1>2, <2>1
<1>4. length >= 1 => binIndex' = length - 1
  BY <1>1, <1>2, Sizes, SMT
<1>5. TypeOK'
  <2>1. EOP \in Byte /\ Close \in Byte  BY SMT DEF EOP, Close, Byte
  <2>2. asciiLength' \in 0..TxSize /\ asciiIndex' \in 0..TxSize
    BY <1>1, <1>2, Sizes, SMT
  <2>3. binIndex' \in 0..TxSize \union {65535}
    BY <1>1, <1>3, <1>4, Sizes, SMT
  <2>4. tx' \in [TxIndex -> Byte]
    <3> DEFINE i == 2 * length + 2
               j == 2 * length + 1
    <3>1. tx \in [TxIndex -> Byte] /\ tx' = [tx EXCEPT ![i] = EOP, ![j] = Close]
      BY <1>0, <1>2 DEF TypeOK
    <3> HIDE DEF i, j
    <3>. QED  BY <2>1, <3>1
  <2>. QED  BY <1>0, <2>2, <2>3, <2>4 DEF TypeOK, create_usb_packet
<1>6. PackInv'
  <2>1. CASE length = 0
    <3>1. NoData(command)
      BY <1>0, <2>1, SMT DEF AnswerInv, Fits
    <3>. QED  BY <1>0, <1>3, <2>1, <3>1 DEF PackInv, NoData
  <2>2. CASE length >= 1
    <3>1. Fits /\ \A k \in 1..length : tx[k - 1] = answer[k]
      BY <1>0, <2>2, SMT DEF AnswerInv
    <3>2. /\ 2 * length + 2 \in TxIndex /\ 2 * length + 1 \in TxIndex
          /\ 2 * length + 2 # 2 * length + 1
          /\ \A k \in 1..length : k - 1 \in TxIndex /\ k - 1 # 2 * length + 2 /\ k - 1 # 2 * length + 1
      BY <1>1, <2>2, Sizes, SMT DEF TxIndex
    <3>3. tx'[2 * length + 1] = Close /\ tx'[2 * length + 2] = EOP
      BY <1>0, <1>2, <3>2 DEF TypeOK
    <3>4. \A k \in 1..length : tx'[k - 1] = answer[k]
      BY <1>0, <1>2, <3>1, <3>2 DEF TypeOK
    <3>5. /\ asciiLength' = 2 * length + 3 /\ binIndex' <= length - 1
          /\ asciiIndex' = 2 * binIndex' + 2 /\ binIndex' + 1 = length
          /\ binIndex' + 2..length = {}
      BY <1>1, <1>2, <1>4, <2>2, SMT
    <3>6. Fits'  BY <1>0, <3>1 DEF Fits
    <3>7. Packing'  BY <1>0, <3>3, <3>4, <3>5, <3>6 DEF Packing
    <3>. QED  BY <3>7 DEF PackInv
  <2>. QED  BY <1>1, <2>1, <2>2, SMT
<1>. QED  BY <1>0, <1>5, <1>6 DEF IInv, StaysInside, LengthInv, TextInv, LowerInv, UnpackInv,
                                 ClearInv, DataAsSent, AnswerInv, AnswerAsMeant

(* Only a length of 0 brings an index out of the buffer.                   *)
LEMMA LeavesStep == IInv /\ PackLeaves => IInv'
<1>. SUFFICES ASSUME IInv, PackLeaves PROVE IInv'
  OBVIOUS
<1>0. TypeOK /\ PackInv /\ pc = "packing" /\ pc' = "outside" /\ command' = command
  BY DEF IInv, PackLeaves
<1>1. NoData(command)
  <2>1. ~Packing
    BY <1>0, Sizes, SMT DEF Packing, Fits, PackLeaves, TxIndex, TypeOK
  <2>. QED  BY <1>0, <2>1 DEF PackInv
<1>2. StaysInside' /\ TypeOK'
  BY <1>0, <1>1 DEF StaysInside, NoData, TypeOK, PackLeaves
<1>. QED  BY <1>0, <1>2 DEF IInv, LengthInv, TextInv, LowerInv, UnpackInv, ClearInv, DataAsSent,
                           AnswerInv, PackInv, AnswerAsMeant

(* An iteration writes beyond the bytes it has still to read. *)
LEMMA PackStep == IInv /\ PackByte => IInv'
<1>. SUFFICES ASSUME IInv, PackByte PROVE IInv'
  OBVIOUS
<1>0. TypeOK /\ PackInv /\ pc = "packing" /\ pc' = "packing"
  BY DEF IInv, PackByte
<1>20. Packing
  <2>1. binIndex # 65535  BY Sizes, SMT DEF PackByte, TxIndex
  <2>. QED  BY <1>0, <2>1 DEF PackInv
<1>1. /\ Fits /\ length \in Nat /\ TxSize \in Nat /\ asciiLength = 2 * length + 3
      /\ binIndex \in Nat /\ binIndex >= 1 /\ binIndex <= length - 1
      /\ asciiIndex = 2 * binIndex + 2
      /\ \A k \in 1..binIndex + 1 : tx[k - 1] = answer[k]
      /\ \A k \in binIndex + 2..length : Value(2 * k - 1) = answer[k]
      /\ tx[2 * length + 1] = Close /\ tx[2 * length + 2] = EOP
  BY <1>0, <1>20, Sizes, SMT DEF Packing, TypeOK, PackByte, TxIndex
<1>2. /\ binIndex' = binIndex - 1 /\ asciiIndex' = asciiIndex - 2 /\ length' = length
      /\ answer' = answer /\ asciiLength' = asciiLength
  BY DEF PackByte
<1> DEFINE b == answer[binIndex + 1]
           c == 2 * binIndex + 1
<1>3. /\ binIndex + 1 \in 1..binIndex + 1 /\ (binIndex + 1) - 1 = binIndex
      /\ binIndex \in TxIndex /\ c \in TxIndex /\ c + 1 \in TxIndex /\ c \in Nat
      /\ asciiIndex = c + 1 /\ asciiIndex - 1 = c
  BY <1>1, SMT DEF Fits, TxIndex
<1>4. tx[binIndex] = b /\ b \in Byte
  BY <1>0, <1>1, <1>3 DEF TypeOK
<1> DEFINE lo == nibble_to_ascii(b)
           hi == nibble_to_ascii(b \div 16)
<1>5. tx' = [tx EXCEPT ![c + 1] = lo, ![c] = hi]
  BY <1>3, <1>4 DEF PackByte, Pack
<1>6. /\ lo \in Byte /\ hi \in Byte
      /\ 16 * ascii_to_nibble(hi) + ascii_to_nibble(lo) = b
  BY <1>4, NibblesRoundTrip
<1> HIDE DEF b, lo, hi
<1>7. /\ tx' \in [TxIndex -> Byte] /\ tx'[c] = hi /\ tx'[c + 1] = lo
      /\ \A k \in TxIndex : k # c /\ k # c + 1 => tx'[k] = tx[k]
  <2>1. c # c + 1  BY <1>3, SMT
  <2>. QED  BY <1>0, <1>3, <1>5, <1>6, <2>1 DEF TypeOK
<1>8. TypeOK'
  <2>1. binIndex' \in 0..TxSize /\ asciiIndex' \in 0..TxSize
    BY <1>1, <1>2, SMT DEF Fits
  <2>. QED  BY <1>0, <1>2, <1>7, <2>1 DEF TypeOK, PackByte
<1>9. \A k \in 1..binIndex' + 1 : tx'[k - 1] = answer[k]
  <2>1. \A k \in 1..binIndex' + 1 : /\ k \in 1..binIndex + 1 /\ k - 1 \in TxIndex
                                    /\ k - 1 # c /\ k - 1 # c + 1
    BY <1>1, <1>2, SMT DEF Fits, TxIndex
  <2>. QED  BY <1>1, <1>7, <2>1
<1>10. \A k \in binIndex' + 2..length :
          16 * ascii_to_nibble(tx'[2 * k - 1]) + ascii_to_nibble(tx'[2 * k - 1 + 1]) = answer[k]
  <2>1. ASSUME NEW k \in binIndex' + 2..length, k = binIndex + 1
        PROVE  16 * ascii_to_nibble(tx'[2 * k - 1]) + ascii_to_nibble(tx'[2 * k - 1 + 1]) = answer[k]
    <3>1. 2 * k - 1 = c /\ 2 * k - 1 + 1 = c + 1
      BY <1>1, <2>1, SMT
    <3>. QED  BY <1>6, <1>7, <2>1, <3>1 DEF b
  <2>2. ASSUME NEW k \in binIndex' + 2..length, k # binIndex + 1
        PROVE  16 * ascii_to_nibble(tx'[2 * k - 1]) + ascii_to_nibble(tx'[2 * k - 1 + 1]) = answer[k]
    <3>1. k \in binIndex + 2..length /\ k >= binIndex + 2 /\ k <= length /\ k \in Nat
      BY <1>1, <1>2, <2>2, SMT
    <3>2. 2 * k - 1 \in TxIndex /\ 2 * k - 1 + 1 \in TxIndex
      BY <1>1, <3>1, SMT DEF Fits, TxIndex
    <3>3. 2 * k - 1 > c + 1
      BY <1>1, <3>1, SMT
    <3>4. 2 * k - 1 # c /\ 2 * k - 1 # c + 1 /\ 2 * k - 1 + 1 # c /\ 2 * k - 1 + 1 # c + 1
      BY <1>3, <3>1, <3>3, SMT
    <3>. QED  BY <1>1, <1>7, <3>1, <3>2, <3>4 DEF Value
  <2>. QED  BY <2>1, <2>2
<1>11. tx'[2 * length + 1] = Close /\ tx'[2 * length + 2] = EOP
  <2>1. /\ 2 * length + 1 \in TxIndex /\ 2 * length + 2 \in TxIndex
        /\ 2 * length + 1 # c /\ 2 * length + 1 # c + 1
        /\ 2 * length + 2 # c /\ 2 * length + 2 # c + 1
    BY <1>1, SMT DEF Fits, TxIndex
  <2>. QED  BY <1>1, <1>7, <2>1
<1>12. PackInv'
  <2>1. binIndex' <= length' - 1 /\ asciiIndex' = 2 * binIndex' + 2
    BY <1>1, <1>2, SMT
  <2>2. Fits'  BY <1>1, <1>2 DEF Fits
  <2>. QED  BY <1>1, <1>2, <1>9, <1>10, <1>11, <2>1, <2>2 DEF PackInv, Packing, Value
<1>. QED  BY <1>0, <1>8, <1>12 DEF IInv, StaysInside, LengthInv, TextInv, LowerInv,
                                  UnpackInv, ClearInv, DataAsSent,
                                  AnswerInv, AnswerAsMeant

(* The status byte and the opening parenthesis complete the text. *)
LEMMA StatusStep == IInv /\ PackStatus => IInv'
<1>. SUFFICES ASSUME IInv, PackStatus PROVE IInv'
  OBVIOUS
<1>0. TypeOK /\ PackInv /\ pc = "packing" /\ pc' = "answered" /\ binIndex = 0
  BY DEF IInv, PackStatus
<1>20. Packing
  <2>1. 0 # 65535  BY SMT
  <2>. QED  BY <1>0, <2>1 DEF PackInv
<1>1. /\ length = Len(answer) /\ length >= 1 /\ 2 * length + 3 <= TxSize
      /\ length \in Nat /\ TxSize \in Nat /\ asciiLength = 2 * length + 3
      /\ asciiIndex = 2 /\ tx[0] = answer[1]
      /\ \A k \in 2..length : Value(2 * k - 1) = answer[k]
      /\ tx[2 * length + 1] = Close /\ tx[2 * length + 2] = EOP
  <2>1. 2 * 0 + 2 = 2 /\ 0 + 2 = 2 /\ 1 \in 1..0 + 1 /\ 1 - 1 = 0  BY SMT
  <2>2. asciiIndex = 2 * 0 + 2 /\ tx[1 - 1] = answer[1]
        /\ \A k \in 0 + 2..length : Value(2 * k - 1) = answer[k]
    BY <1>0, <1>20, <2>1 DEF Packing
  <2>3. length \in Nat  BY <1>0, Sizes, SMT DEF TypeOK
  <2>. QED  BY <1>0, <1>20, <2>1, <2>2, <2>3, Sizes DEF Packing, Fits
<1> DEFINE b == answer[1]
           lo == nibble_to_ascii(b)
           hi == nibble_to_ascii(b \div 16)
<1>2. 0 \in TxIndex /\ 1 \in TxIndex /\ 2 \in TxIndex
  BY <1>1, SMT DEF TxIndex
<1>3. b \in Byte
  BY <1>0, <1>1, <1>2 DEF TypeOK
<1>4. /\ lo \in Byte /\ hi \in Byte /\ Open \in Byte
      /\ 16 * ascii_to_nibble(hi) + ascii_to_nibble(lo) = b
  <2>1. Open \in Byte  BY SMT DEF Open, Byte
  <2>. QED  BY <1>3, <2>1, NibblesRoundTrip
<1>5. tx' = [tx EXCEPT ![2] = Open, ![1] = lo, ![0] = hi] /\ asciiIndex' = 0
  <2>1. 2 - 1 = 1 /\ 2 - 2 = 0  BY SMT
  <2>. QED  BY <1>1, <2>1 DEF PackStatus
<1> HIDE DEF lo, hi
<1>6. /\ tx' \in [TxIndex -> Byte] /\ tx'[2] = Open /\ tx'[1] = lo /\ tx'[0] = hi
      /\ \A k \in TxIndex : k \notin 0..2 => tx'[k] = tx[k]
  BY <1>0, <1>2, <1>4, <1>5, SMT DEF TypeOK
<1>7. TypeOK'
  <2>1. asciiIndex' \in 0..TxSize  BY <1>1, <1>5, SMT
  <2>. QED  BY <1>0, <1>6, <2>1 DEF TypeOK, PackStatus
<1>8. /\ tx'[2 * length + 1] = Close /\ tx'[2 * length + 2] = EOP
  <2>1. /\ 2 * length + 1 \in TxIndex /\ 2 * length + 1 \notin 0..2
        /\ 2 * length + 2 \in TxIndex /\ 2 * length + 2 \notin 0..2
    BY <1>1, SMT DEF TxIndex
  <2>. QED  BY <1>1, <1>6, <2>1
<1>9. \A k \in 2..length :
         16 * ascii_to_nibble(tx'[2 * k - 1]) + ascii_to_nibble(tx'[2 * k - 1 + 1]) = answer[k]
  <2>1. \A k \in 2..length : /\ 2 * k - 1 \in TxIndex /\ 2 * k - 1 + 1 \in TxIndex
                             /\ 2 * k - 1 \notin 0..2 /\ 2 * k - 1 + 1 \notin 0..2
    BY <1>1, SMT DEF TxIndex
  <2>. QED  BY <1>1, <1>6, <2>1 DEF Value
<1>10. AnswerAsMeant'
  <2>1. answer' = answer /\ asciiLength' = asciiLength
    BY DEF PackStatus
  <2>2. 0 + 1 = 1  BY SMT
  <2>3. 16 * ascii_to_nibble(tx'[0]) + ascii_to_nibble(tx'[0 + 1]) = answer[1]
    BY <1>4, <1>6, <2>2
  <2>. QED  BY <1>1, <1>6, <1>8, <1>9, <2>1, <2>3 DEF AnswerAsMeant
<1>. QED  BY <1>0, <1>7, <1>10 DEF IInv, StaysInside, LengthInv, TextInv, LowerInv,
                                  UnpackInv, ClearInv, DataAsSent,
                                  AnswerInv, PackInv
----------------------------------------------------------------------------
(* The invariant is inductive. *)
LEMMA Inductive == Spec => []IInv
<1>1. IInv /\ [Next]_vars => IInv'
  <2>. SUFFICES ASSUME IInv, [Next]_vars PROVE IInv'
    OBVIOUS
  <2>1. CASE Receive            BY <2>1, ReceiveInv DEF IInv
  <2>2. CASE Lower              BY <2>2, LowerStep
  <2>3. CASE extract_data_load  BY <2>3, ExtractStep
  <2>4. CASE ascii_to_binary    BY <2>4, UnpackStep
  <2>5. CASE Extracted          BY <2>5, ExtractedStep
  <2>6. CASE parse_ecc_commands    BY <2>6, ChipAnswers
  <2>7. CASE parse_board_commands  BY <2>7, BoardAnswers
  <2>8. CASE create_usb_packet  BY <2>8, PackStarts
  <2>9. CASE PackByte           BY <2>9, PackStep
  <2>10. CASE PackStatus        BY <2>10, StatusStep
  <2>11. CASE PackLeaves        BY <2>11, LeavesStep
  <2>12. CASE UNCHANGED vars
    BY <2>12 DEF vars, IInv, TypeOK, StaysInside, LengthInv, TextInv, LowerInv, UnpackInv,
                 ClearInv, DataAsSent, AnswerInv, PackInv, Packing, AnswerAsMeant, Unread,
                 High, Low, Value, Fits, n, total, ending
  <2>. QED  BY <2>1, <2>2, <2>3, <2>4, <2>5, <2>6, <2>7, <2>8, <2>9, <2>10, <2>11, <2>12 DEF Next
<1>. QED  BY <1>1, InitInv, PTL DEF Spec

(* No index leaves its buffer, for commands and answers of every length,   *)
(* but for a command that does not fit and one without data                *)
(* (atca_kit_client.c:148-162 and 911-942, usb_hid.c:159).                 *)
THEOREM PacketStaysInside == Spec => [](TypeOK /\ StaysInside)
<1>1. IInv => TypeOK /\ StaysInside  BY DEF IInv
<1>. QED  BY <1>1, Inductive, PTL

(* A command of any length that fits is executed with the bytes the host   *)
(* meant (atca_kit_client.c:881).                                          *)
THEOREM PacketDataAsSent == Spec => []DataAsSent
<1>1. IInv => DataAsSent  BY DEF IInv
<1>. QED  BY <1>1, Inductive, PTL

(* The text of an answer of any length says its status and its data        *)
(* (atca_kit_client.c:911).                                                *)
THEOREM PacketAnswerAsMeant == Spec => []AnswerAsMeant
<1>1. IInv => AnswerAsMeant  BY DEF IInv
<1>. QED  BY <1>1, Inductive, PTL
============================================================================
