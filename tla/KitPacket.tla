----------------------------- MODULE KitPacket -----------------------------
(***************************************************************************)
(* The text of the kit protocol (atca_kit_client.c).  A command carries    *)
(* its data as hexadecimal digits between parentheses; the handler turns   *)
(* them into bytes in the receive buffer itself, from the front.  The      *)
(* answer, a status byte and data, is turned into text in the transmit     *)
(* buffer itself, from the back.  Both loops read and write the same       *)
(* buffer: one step of the model is one iteration.  Receive buffer and     *)
(* transmit buffer keep what earlier commands left in them.  No length is  *)
(* compared with a buffer: what happens once an access is outside of it is *)
(* undefined, and a behaviour of the model ends there (pc = "outside").    *)
(***************************************************************************)
EXTENDS Integers, Sequences

CONSTANTS
    Commands,   \* commands the host sends: [kind, load, closed, upper]
    Answers,    \* what the chip answers: a status byte and data
    Size        \* bytes of the receive buffer from the '(' of a command on

Byte == 0..255

(* The buffers are of one size, and "b:a" or "s:t" comes before the '('.   *)
TxSize == Size + 3

ASSUME CommandsAssumption ==
    Commands \subseteq [kind : {"ecc", "board"}, load : Seq(Byte),
                        closed : BOOLEAN, upper : BOOLEAN]
(* A status at least, and no more than atca_kit_convert_data lets pass.    *)
ASSUME AnswersAssumption ==
    /\ Answers \subseteq Seq(Byte)
    /\ \A a \in Answers : Len(a) >= 1 /\ 2 * Len(a) + 3 <= TxSize
ASSUME SizeAssumption == Size \in Nat /\ TxSize < 65536

VARIABLES
    pc,          \* where atca_kit_process_usb_packet is
    command,     \* the command being processed
    rx,          \* pucUsbRxBuffer from the '(' on
    asciiLength, \* characters to convert, and later characters of the answer
    binIndex,    \* binIndex, and later binBufferIndex
    asciiIndex,  \* i, and later asciiBufferIndex
    answer,      \* what the answer should say: status byte, then data
    length,      \* length argument of atca_kit_create_usb_packet
    tx           \* pucUsbTxBuffer

vars == <<pc, command, rx, asciiLength, binIndex, asciiIndex, answer, length, tx>>
Index == 0..Size - 1
TxIndex == 0..TxSize - 1
Open == 40
Close == 41
EOP == 10
----------------------------------------------------------------------------
(* Characters. *)

\* Mutant: the letters begin one too early.
nibble_to_ascii_early(n) ==
    LET low == n % 16 IN IF low <= 9 THEN low + 48 ELSE low + 54

nibble_to_ascii(n) ==
    LET low == n % 16 IN IF low <= 9 THEN low + 48 ELSE low + 55

ascii_to_nibble(c) ==
    IF c \in 48..57 THEN c - 48
    ELSE IF c \in 65..70 THEN c - 55
    ELSE IF c \in 97..102 THEN c - 87
    ELSE 0

tolower(c) == IF c \in 65..90 THEN c + 32 ELSE c

(* What the host writes for half a byte. *)
HostDigit(n, upper) == IF n <= 9 THEN n + 48 ELSE IF upper THEN n + 55 ELSE n + 87

(* The character at place k of the text of command c. *)
TextLength(c) == 2 * Len(c.load) + IF c.closed THEN 3 ELSE 2
Text(c, k) ==
    IF k = 0 THEN Open
    ELSE IF k \in 1..2 * Len(c.load)
         THEN LET b == c.load[(k + 1) \div 2]
              IN HostDigit(IF k % 2 = 1 THEN b \div 16 ELSE b % 16, c.upper)
    ELSE IF k = 2 * Len(c.load) + 1 /\ c.closed THEN Close
    ELSE EOP
----------------------------------------------------------------------------
Init ==
    /\ pc = "idle"
    /\ command \in Commands
    /\ rx = [k \in Index |-> 0] /\ tx = [k \in TxIndex |-> 0]
    /\ asciiLength = 0 /\ binIndex = 0 /\ asciiIndex = 0 /\ length = 0
    /\ answer = <<0>>

(* A command lies in the receive buffer, over what was there before, and a *)
(* terminating 0 behind it.                                                *)
Receive ==
    /\ pc \in {"idle", "answered"}
    /\ command' \in Commands
    /\ rx' = [k \in Index |-> IF k < TextLength(command') THEN Text(command', k)
                              ELSE IF k = TextLength(command') THEN 0 ELSE rx[k]]
    /\ pc' = IF TextLength(command') < Size THEN "parse" ELSE "outside"
    /\ UNCHANGED <<asciiLength, binIndex, asciiIndex, answer, length, tx>>

(* The transmit buffer is cleared and the command, but for its line feed,  *)
(* put in lower case.                                                      *)
Lower ==
    /\ pc = "parse"
    /\ tx' = [k \in TxIndex |-> 0]
    /\ rx' = [k \in Index |-> IF k < TextLength(command) - 1 THEN tolower(rx[k]) ELSE rx[k]]
    /\ pc' = "extract"
    /\ UNCHANGED <<command, asciiLength, binIndex, asciiIndex, answer, length>>

(* What strchr and strlen find. *)
IsClosing(k) == k \in Index /\ rx[k] = Close /\ \A j \in 0..k - 1 : rx[j] \notin {0, Close}
IsEnd(k) == rx[k] = 0 /\ \A j \in 0..k - 1 : rx[j] # 0

\* Mutant: the closing parenthesis is taken for data.
DataEnd_keeps_paren(k) ==
    \/ IsClosing(k)
    \/ IsEnd(k) /\ \A j \in 0..k - 1 : ~IsClosing(j)

DataEnd(k) ==
    \/ IsClosing(k + 1)
    \/ IsEnd(k) /\ \A j \in 0..k - 1 : ~IsClosing(j)

extract_data_load ==
    /\ pc = "extract"
    /\ \E k \in Index : DataEnd(k) /\ asciiLength' = k
    /\ binIndex' = 0 /\ asciiIndex' = 0
    /\ pc' = "unpack"
    /\ UNCHANGED <<command, rx, answer, length, tx>>

(* One iteration of atca_kit_convert_ascii_to_binary: the high half is     *)
(* stored before the low half is read.                                     *)
Unpack(buf) ==
    LET high == [buf EXCEPT ![1 + binIndex] = (ascii_to_nibble(buf[1 + asciiIndex]) * 16) % 256]
    IN [high EXCEPT ![1 + binIndex] = @ + ascii_to_nibble(high[2 + asciiIndex])]

ascii_to_binary ==
    /\ pc = "unpack" /\ asciiLength >= 2 /\ asciiIndex < asciiLength
    /\ rx' = Unpack(rx)
    /\ binIndex' = binIndex + 1
    /\ asciiIndex' = asciiIndex + 2
    /\ UNCHANGED <<pc, command, asciiLength, answer, length, tx>>

(* The bytes are there, binIndex of them: dataLength of the caller. *)
Extracted ==
    /\ pc = "unpack" /\ (asciiLength < 2 \/ asciiIndex >= asciiLength)
    /\ pc' = "execute"
    /\ UNCHANGED <<command, rx, asciiLength, binIndex, asciiIndex, answer, length, tx>>
----------------------------------------------------------------------------
(* The chip answers a command for it: status and data go to the front of   *)
(* the transmit buffer.                                                    *)
parse_ecc_commands ==
    /\ pc = "execute" /\ command.kind = "ecc"
    /\ \E a \in Answers :
          /\ answer' = a
          /\ tx' = [k \in TxIndex |-> IF k < Len(a) THEN a[k + 1] ELSE tx[k]]
          /\ length' = Len(a)
    /\ pc' = "pack"
    /\ UNCHANGED <<command, rx, asciiLength, binIndex, asciiIndex>>

(* An application command ("b:a"): the answer is a status and as many      *)
(* bytes, all zero, as fill the length of the command's own data.  With no *)
(* data the length is 0, although there is a status.                       *)
parse_board_commands ==
    /\ pc = "execute" /\ command.kind = "board"
    /\ \E status \in {0, 225} :
          /\ answer' = <<status>> \o [k \in 1..binIndex - 1 |-> 0]
          /\ tx' = [tx EXCEPT ![0] = status]
    /\ length' = binIndex
    /\ pc' = "pack"
    /\ UNCHANGED <<command, rx, asciiLength, binIndex, asciiIndex>>

(* atca_kit_create_usb_packet up to its loop, in 16 bits.                  *)
create_usb_packet ==
    /\ pc = "pack"
    /\ asciiLength' = 2 * (length - 1) + 5
    /\ tx' = [tx EXCEPT ![2 * length + 2] = EOP, ![2 * length + 1] = Close]
    /\ binIndex' = (length + 65535) % 65536   \* length - 1
    /\ asciiIndex' = 2 * length
    /\ pc' = "packing"
    /\ UNCHANGED <<command, rx, answer, length>>

(* One iteration: the last byte not yet converted. *)
Pack(buf) ==
    [buf EXCEPT ![asciiIndex] = nibble_to_ascii(buf[binIndex]),
                ![asciiIndex - 1] = nibble_to_ascii(buf[binIndex] \div 16)]

PackByte ==
    /\ pc = "packing" /\ binIndex \in TxIndex \ {0}
    /\ tx' = Pack(tx)
    /\ binIndex' = binIndex - 1
    /\ asciiIndex' = asciiIndex - 2
    /\ UNCHANGED <<pc, command, rx, asciiLength, answer, length>>

(* The byte to be converted is not in the buffer.                          *)
PackLeaves ==
    /\ pc = "packing" /\ binIndex \notin TxIndex
    /\ pc' = "outside"
    /\ UNCHANGED <<command, rx, asciiLength, binIndex, asciiIndex, answer, length, tx>>

PackStatus ==
    /\ pc = "packing" /\ binIndex = 0
    /\ tx' = [tx EXCEPT ![asciiIndex] = Open,
                        ![asciiIndex - 1] = nibble_to_ascii(tx[0]),
                        ![asciiIndex - 2] = nibble_to_ascii(tx[0] \div 16)]
    /\ asciiIndex' = asciiIndex - 2
    /\ pc' = "answered"
    /\ UNCHANGED <<command, rx, asciiLength, binIndex, answer, length>>

Next ==
    \/ Receive \/ Lower \/ extract_data_load \/ ascii_to_binary \/ Extracted
    \/ parse_ecc_commands \/ parse_board_commands
    \/ create_usb_packet \/ PackByte \/ PackLeaves \/ PackStatus

Spec == Init /\ [][Next]_vars
----------------------------------------------------------------------------
(* Type invariant.  A length of 0 less one is the only index that leaves   *)
(* its range: binIndex of atca_kit_create_usb_packet.                      *)
TypeOK ==
    /\ pc \in {"idle", "parse", "extract", "unpack", "execute", "pack", "packing",
              "answered", "outside"}
    /\ command \in Commands
    /\ rx \in [Index -> Byte] /\ tx \in [TxIndex -> Byte]
    /\ asciiLength \in 0..TxSize /\ binIndex \in 0..TxSize \union {65535}
    /\ asciiIndex \in 0..TxSize
    /\ length \in 0..TxSize
    /\ answer \in Seq(Byte)

(* An application command that has no data.                                *)
NoData(c) == c.kind = "board" /\ c.closed /\ c.load = <<>>

(* Neither loop leaves its buffer, whatever the buffers hold: only a       *)
(* command that is longer than the receive buffer or an application        *)
(* command without data does (usb_hid.c:159, atca_kit_client.c:913).       *)
StaysInside ==
    pc = "outside" => TextLength(command) >= Size \/ NoData(command)

(* The bytes a command is executed with are the bytes the host wrote,      *)
(* though the conversion overwrites the text it is still reading and the   *)
(* buffer holds the remains of longer commands.  Without the closing       *)
(* parenthesis there is one more.                                          *)
DataAsSent ==
    pc = "execute" =>
        /\ binIndex = IF command.closed THEN Len(command.load) ELSE Len(command.load) + 1
        /\ \A k \in 1..Len(command.load) : rx[k] = command.load[k]

(* The text of the answer says the status and the data that were in the    *)
(* buffer before it was converted in place: two digits of status, the data *)
(* between parentheses, a line feed.                                       *)
AnswerAsMeant ==
    pc = "answered" =>
        LET Value(k) == 16 * ascii_to_nibble(tx[k]) + ascii_to_nibble(tx[k + 1])
            n == Len(answer)
        IN  /\ asciiLength = 2 * n + 3
            /\ Value(0) = answer[1]
            /\ tx[2] = Open /\ tx[2 * n + 1] = Close /\ tx[2 * n + 2] = EOP
            /\ \A k \in 2..n : Value(2 * k - 1) = answer[k]
============================================================================
