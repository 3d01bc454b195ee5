------------------------------ MODULE RxBuffer ------------------------------
(***************************************************************************)
(* The receive buffer of wifi_task.c under the packet reader of the MQTT   *)
(* client, byte by byte. wifi_read_data does not keep the number of bytes  *)
(* that a receive delivered: it serves the zeros behind them too, until    *)
(* the buffer has fewer bytes left than it is asked for, and only then     *)
(* receives again. The reader takes the zeros as packets of type 0 without *)
(* a body, two bytes each, and ignores them.                               *)
(*                                                                         *)
(* The broker and the network are external: data is received in segments.  *)
(* Nothing compares the length of a packet with a buffer. One that is read  *)
(* from bytes out of place may be longer than both: a behaviour ends where  *)
(* a read leaves them (at = "outside").                                     *)
(***************************************************************************)
EXTENDS Integers, SequencesExt

CONSTANTS
    Size,        \* WIFI_BUFFER_SIZE (1500), even
    ReadBuf,     \* readbuf_size (1024)
    Kinds,       \* packets: first byte and remaining length (in one byte)
    MaxSent,     \* bound: packets the broker sends, and those it sends if
    MaxUnruly    \* they are of any length and cut anywhere

ASSUME SizeAssumption == Size \in Nat \ {0} /\ Size % 2 = 0 /\ ReadBuf \in 0 .. Size
ASSUME KindsAssumption ==
    \A k \in Kinds : k.header \in 1 .. 255 /\ k.rest \in 0 .. 127 /\ k.rest + 2 <= ReadBuf

VARIABLES
    orderly, \* packets are even in length and whole in a segment, throughout
    sent,    \* number of packets sent so far, also the name of the last one
    wire,    \* segments on their way, each a sequence of bytes
    rxbuf,   \* g_wifi_context.rxbuf
    rxloc,   \* g_wifi_context.rxloc, index of the next byte
    at,      \* place in readPacket: "header", "length", "body" or "outside"
    part,    \* bytes of the packet being read
    taken,   \* history: the packets handed to cycle(), padding left out
    lost     \* history: packets that went down with a connection

vars == <<orderly, sent, wire, rxbuf, rxloc, at, part, taken, lost>>

-----------------------------------------------------------------------------

\* A byte is its value, with the packet and the place it comes from.
Byte(k, i, v) == [of |-> k, pos |-> i, val |-> v]
Zero == Byte(0, 0, 0)

Filler == 1     \* the value of every byte of a body

Packet(n, kind) ==
    <<Byte(n, 0, kind.header), Byte(n, 1, kind.rest)>>
        \o [i \in 1 .. kind.rest |-> Byte(n, i + 1, Filler)]

Torn == 0       \* name of what is no packet of the broker

IsWhole(bytes) ==
    /\ \A i \in DOMAIN bytes : bytes[i].of = bytes[1].of /\ bytes[i].pos = i - 1
    /\ Len(bytes) >= 2 /\ Len(bytes) = bytes[2].val + 2

\* What the MQTT client is handed: nothing it looks at (type 0 without data
\* of the broker), a packet that was sent, or something else.
HandOver(bytes) ==
    IF \A i \in DOMAIN bytes : bytes[i] = Zero THEN taken
    ELSE Append(taken, IF IsWhole(bytes) THEN bytes[1].of ELSE Torn)

Init ==
    /\ orderly \in BOOLEAN
    /\ sent = 0
    /\ wire = <<>>
    /\ rxbuf = [i \in 1 .. Size |-> Zero]
    /\ rxloc = 0
    /\ at = "header"
    /\ part = <<>>
    /\ taken = <<>>
    /\ lost = {}

-----------------------------------------------------------------------------
(* Broker and network *)

\* The bytes of a packet join the last segment on its way or start another.
Deliver(bytes) ==
    \/ wire' = Append(wire, bytes)
    \/ /\ wire # <<>> /\ Len(Last(wire)) + Len(bytes) <= Size
       /\ wire' = [wire EXCEPT ![Len(wire)] = @ \o bytes]

Bound == IF orderly THEN MaxSent ELSE MaxUnruly

Send(kind) ==
    /\ orderly => kind.rest % 2 = 0
    /\ sent < Bound
    /\ sent' = sent + 1
    /\ Deliver(Packet(sent + 1, kind))
    /\ UNCHANGED <<rxbuf, rxloc, at, part, taken, lost>>

SendSplit(kind, cut) ==
    /\ ~orderly
    /\ sent < Bound
    /\ sent' = sent + 1
    /\ LET p == Packet(sent + 1, kind) IN
         wire' = wire \o <<SubSeq(p, 1, cut), SubSeq(p, cut + 1, Len(p))>>
    /\ UNCHANGED <<rxbuf, rxloc, at, part, taken, lost>>

\* The connection is lost between two packet reads (an error of a send) and
\* made again. Nothing clears rxbuf and rxloc.
Reconnect ==
    /\ at = "header"
    /\ wire # <<>>
    /\ lost' = lost \cup {b.of : b \in UNION {ToSet(s) : s \in ToSet(wire)}}
    /\ wire' = <<>>
    /\ UNCHANGED <<sent, rxbuf, rxloc, at, part, taken>>

-----------------------------------------------------------------------------
(* wifi_read_data *)

\* Mutant: > for >= in the test of what is left.
Enough_strict(n) == Size - rxloc > n

Enough(n) == Size - rxloc >= n

\* memcpy from the buffer, without a look at what was received.
Buffered(n) ==
    /\ Enough(n)
    /\ rxloc' = rxloc + n
    /\ UNCHANGED <<wire, rxbuf>>

\* Mutant: the memset before recv() is forgotten.
Received_no_memset(n) ==
    /\ ~Enough(n)
    /\ wire # <<>>
    /\ rxbuf' = [i \in 1 .. Size |-> IF i <= Len(Head(wire)) THEN Head(wire)[i] ELSE rxbuf[i]]
    /\ wire' = Tail(wire)
    /\ rxloc' = n

\* recv() with data: the rest of the buffer is discarded.
Received(n) ==
    /\ ~Enough(n)
    /\ wire # <<>>
    /\ rxbuf' = [i \in 1 .. Size |-> IF i <= Len(Head(wire)) THEN Head(wire)[i] ELSE Zero]
    /\ wire' = Tail(wire)
    /\ rxloc' = n

\* recv() that times out leaves a buffer of zeros to be read.
TimedOut(n) ==
    /\ ~Enough(n)
    /\ rxbuf' = [i \in 1 .. Size |-> Zero]
    /\ rxloc' = 0
    /\ UNCHANGED wire

ReadData(n) == Buffered(n) \/ Received(n)

\* The n bytes that ReadData(n) copies out, in terms of the state after it.
Bytes(n) == SubSeq(rxbuf', rxloc' - n + 1, rxloc')

-----------------------------------------------------------------------------
(* readPacket, one read after the other *)

ReadHeader ==
    /\ at = "header"
    /\ ReadData(1)
    /\ part' = Bytes(1)
    /\ at' = "length"
    /\ UNCHANGED <<sent, taken, lost>>

\* The read fails and cycle() with it; its caller tries again.
HeaderFails ==
    /\ at = "header"
    /\ TimedOut(1)
    /\ UNCHANGED <<sent, at, part, taken, lost>>

\* decodePacket: seven bits of each byte behind the header, of up to four.
Digit(p, i) == IF i < Len(p) THEN p[i + 1].val % 128 ELSE 0
Remaining(p) == Digit(p, 1) + 128 * (Digit(p, 2) + 128 * (Digit(p, 3) + 128 * Digit(p, 4)))
GoesOn(p) == Last(p).val >= 128 /\ Len(p) < 5

\* The length is put back into readbuf in its shortest form, the body behind it.
Encoded(n) == IF n < 128 THEN 1 ELSE IF n < 16384 THEN 2 ELSE IF n < 2097152 THEN 3 ELSE 4
Fits(n) == 1 + Encoded(n) + n <= ReadBuf

\* With the length decoded there is a body to be read or there is none.
Decoded(p) ==
    IF Remaining(p) = 0
    THEN taken' = HandOver(p) /\ at' = "header" /\ part' = <<>>
    ELSE at' = "body" /\ part' = p /\ UNCHANGED taken

ReadLength ==
    /\ at = "length"
    /\ ReadData(1)
    /\ LET bytes == part \o Bytes(1) IN
         IF GoesOn(bytes) THEN part' = bytes /\ UNCHANGED <<at, taken>> ELSE Decoded(bytes)
    /\ UNCHANGED <<sent, lost>>

\* The result of decodePacket is not looked at: the length stays what it is.
LengthFails ==
    /\ at = "length"
    /\ TimedOut(1)
    /\ Decoded(part)
    /\ UNCHANGED <<sent, lost>>

ReadBody ==
    /\ at = "body"
    /\ LET n == Remaining(part) IN
         Fits(n) /\ ReadData(n) /\ taken' = HandOver(part \o Bytes(n))
    /\ at' = "header" /\ part' = <<>>
    /\ UNCHANGED <<sent, lost>>

BodyFails ==
    /\ at = "body"
    /\ TimedOut(Remaining(part))
    /\ at' = "header" /\ part' = <<>>
    /\ UNCHANGED <<sent, taken, lost>>

\* More than readbuf holds is copied: undefined from here.
BodyLeaves ==
    /\ at = "body"
    /\ LET n == Remaining(part) IN ~Fits(n) /\ (Enough(n) \/ wire # <<>>)
    /\ at' = "outside"
    /\ UNCHANGED <<sent, wire, rxbuf, rxloc, part, taken, lost>>

Reader == (ReadHeader \/ ReadLength \/ ReadBody) /\ UNCHANGED orderly
ReaderFails == (HeaderFails \/ LengthFails \/ BodyFails \/ BodyLeaves) /\ UNCHANGED orderly

Broker ==
    \/ \E kind \in Kinds : Send(kind)
    \/ \E kind \in Kinds : \E cut \in 1 .. kind.rest + 1 : SendSplit(kind, cut)

Next == ((Broker \/ Reconnect) /\ UNCHANGED orderly) \/ Reader \/ ReaderFails

\* The client goes on reading, and a receive that is repeated for ever gets
\* the data that waits for it.
Spec ==
    /\ Init /\ [][Next]_vars
    /\ WF_vars(Reader \/ ReaderFails)
    /\ SF_vars(Reader /\ wire' # wire)

-----------------------------------------------------------------------------

\* The MQTT client is handed the packets that the broker sent, whole, each
\* once and in order, and up to the last of them none is missing but those that
\* went down with a connection, whatever zeros, timeouts and old bytes come
\* between them; and no read leaves the buffers. If the bytes are cut anywhere
\* and of any number, there may be torn packets, but none comes twice or after
\* a later one: a command is not executed again.
ReadAsSent ==
    /\ orderly =>
        /\ ToSet(taken) \subseteq (1 .. sent) \ lost
        /\ \A i \in DOMAIN taken : \A n \in 1 .. taken[i] : n \in ToSet(taken) \cup lost
        /\ at # "outside"
    /\ \A i, j \in DOMAIN taken :
        i < j /\ taken[i] # Torn /\ taken[j] # Torn => taken[i] < taken[j]

\* A receive discards what is left of the buffer: it never discards a byte of
\* the broker that was not read, because a new receive begins with a packet.
UnreadBytes == {i \in rxloc + 1 .. Size : rxbuf[i] # Zero}
NothingDiscarded ==
    [][orderly /\ rxbuf' # rxbuf => UnreadBytes = {}]_vars

\* Every packet on a connection that stays up is read in the end, through all
\* the padding before it.
PacketsArrive ==
    \A n \in 1 .. MaxSent :
        (orderly /\ sent >= n) ~> (n \in lost \/ n \in ToSet(taken))
=============================================================================
