-------------------------- MODULE RxBuffer_proofs ---------------------------
(***************************************************************************)
(* Proofs for RxBuffer, for every even size of the buffer, any packets with *)
(* a length of one byte that fit in readbuf, and any number of them.        *)
(*                                                                         *)
(* The argument has two parts. Whatever the segments, the bytes that are    *)
(* not read yet - of the packet being read, of the buffer behind rxloc, of  *)
(* each segment on its way - are in the order they were sent, one place     *)
(* behind the other, and all behind what was handed over: no read, receive  *)
(* or loss puts a byte back (Sound). If the packets are even and whole,     *)
(* each one begins at an odd place, and so does whatever is read next: the  *)
(* padding in front of a packet is read in pairs, the buffer is used up     *)
(* exactly when a packet is to begin, and a packet that is not lost is      *)
(* handed over or all of it is still to be read (Aligned).                  *)
(***************************************************************************)
EXTENDS RxBuffer, SequenceTheorems, TLAPS

-----------------------------------------------------------------------------
(* The invariant, first part *)

\* A byte of the broker, or a zero of the buffer.
Cell == {b \in [of : Nat, pos : Nat, val : 0 .. 255] : b.of = 0 => b = Zero}

RxTypes ==
    /\ orderly \in BOOLEAN /\ sent \in Nat /\ lost \subseteq 0 .. sent
    /\ wire \in Seq(Seq(Cell))
    /\ \A s \in 1 .. Len(wire) : Len(wire[s]) <= Size
    /\ rxbuf \in [1 .. Size -> Cell] /\ rxloc \in 0 .. Size
    /\ part \in Seq(Cell)
    /\ \/ at = "header" /\ part = <<>>
       \/ at \in {"length", "body", "outside"} /\ Len(part) >= 1
    /\ taken \in Seq(Nat)

\* The bytes of the broker in s, from place a on.
From(s, a) == {s[i] : i \in {j \in DOMAIN s : j >= a /\ s[j] # Zero}}

Precedes(b, c) == b.of < c.of \/ (b.of = c.of /\ b.pos < c.pos)
Before(S, T) == \A b \in S, c \in T : Precedes(b, c)

\* They are in the order they were sent.
Ascending(s, a) ==
    \A i, j \in DOMAIN s :
        a <= i /\ i < j /\ s[i] # Zero /\ s[j] # Zero => Precedes(s[i], s[j])

\* No packet that was handed over begins among them again.
Later(tk, S) ==
    \A b \in S : \A i \in DOMAIN tk : tk[i] < b.of \/ (tk[i] = b.of /\ b.pos > 0)

Known(S, n) == \A b \in S : b.of <= n

\* So are the bytes of the packet being read, the rest of the buffer and the
\* segments, and all are later than what was handed over.
Ordered(p, buf, loc, w, tk, n) ==
    /\ Ascending(p, 1) /\ Ascending(buf, loc + 1)
    /\ Before(From(p, 1), From(buf, loc + 1))
    /\ Later(tk, From(p, 1) \cup From(buf, loc + 1))
    /\ Known(From(p, 1) \cup From(buf, loc + 1), n)
    /\ \A s \in 1 .. Len(w) :
        /\ Ascending(w[s], 1)
        /\ Before(From(p, 1) \cup From(buf, loc + 1), From(w[s], 1))
        /\ Later(tk, From(w[s], 1)) /\ Known(From(w[s], 1), n)
        /\ \A u \in 1 .. Len(w) : s < u => Before(From(w[s], 1), From(w[u], 1))

\* What was handed over is in order.
InOrder(tk, n) ==
    /\ \A i \in DOMAIN tk : tk[i] <= n
    /\ \A i, j \in DOMAIN tk : i < j /\ tk[i] # Torn /\ tk[j] # Torn => tk[i] < tk[j]

-----------------------------------------------------------------------------
(* Order, whatever the segments *)

\* Bytes of the broker, by their places.
LEMMA InFrom ==
    ASSUME NEW s, NEW a, NEW b
    PROVE  b \in From(s, a) <=> \E i \in DOMAIN s : i >= a /\ s[i] # Zero /\ b = s[i]
  BY DEF From

LEMMA FromIn ==
    ASSUME NEW s, NEW a, NEW T, \A i \in DOMAIN s : i >= a /\ s[i] # Zero => s[i] \in T
    PROVE  From(s, a) \subseteq T
  BY DEF From

LEMMA FromBefore ==
    ASSUME NEW s, NEW a, NEW t, NEW b,
           \A i \in DOMAIN s : \A j \in DOMAIN t :
                i >= a /\ s[i] # Zero /\ j >= b /\ t[j] # Zero => Precedes(s[i], t[j])
    PROVE  Before(From(s, a), From(t, b))
<1> SUFFICES ASSUME NEW x \in From(s, a), NEW y \in From(t, b) PROVE Precedes(x, y)
  BY DEF Before
<1>1. PICK i \in DOMAIN s : i >= a /\ s[i] # Zero /\ x = s[i]
  BY DEF From
<1>2. PICK j \in DOMAIN t : j >= b /\ t[j] # Zero /\ y = t[j]
  BY DEF From
<1> QED
  BY <1>1, <1>2

\* The fields of a byte.
LEMMA CellFacts ==
    ASSUME NEW b \in Cell
    PROVE  /\ b.of \in Nat /\ b.pos \in Nat /\ b.val \in Nat /\ b.val \in 0 .. 255
           /\ b # Zero => b.of # 0
  BY SizeAssumption DEF Cell

\* Bytes move from the buffer to the packet being read.
Joined(p, buf, loc, m) == p \o SubSeq(buf, loc + 1, loc + m)

\* They follow the bytes that are there.
LEMMA JoinedAt ==
    ASSUME NEW p \in Seq(Cell), NEW buf \in [1 .. Size -> Cell], NEW loc \in Nat, NEW m \in Nat,
           loc + m <= Size, NEW i \in 1 .. m
    PROVE  Joined(p, buf, loc, m)[Len(p) + i] = buf[loc + i]
<1> DEFINE q == SubSeq(buf, loc + 1, loc + m)
<1>1. buf \in Seq(Cell) /\ Len(buf) = Size
  BY SizeAssumption, IsASeq, LenProperties
<1>2. q \in Seq(Cell) /\ Len(q) = m /\ q[i] = buf[loc + i]
  BY <1>1, SizeAssumption
<1>3. Len(p) \in Nat
  BY LenProperties
<1> HIDE DEF q
<1>4. \A j \in 1 .. Len(p) + m : (p \o q)[j] = IF j <= Len(p) THEN p[j] ELSE q[j - Len(p)]
  BY <1>2, ConcatProperties
<1>5. Len(p) + i \in 1 .. Len(p) + m /\ ~(Len(p) + i <= Len(p)) /\ (Len(p) + i) - Len(p) = i
  BY <1>3
<1>6. (p \o q)[Len(p) + i] = q[i]
  BY <1>4, <1>5
<1>7. Joined(p, buf, loc, m) = p \o q
  BY DEF q, Joined
<1> QED
  BY <1>2, <1>6, <1>7

\* A read keeps the order, and drops no byte.
LEMMA ReadOrder ==
    ASSUME NEW p \in Seq(Cell), NEW buf \in [1 .. Size -> Cell], NEW loc \in Nat, NEW m \in Nat,
           loc + m <= Size, NEW w, NEW tk, NEW n, Ordered(p, buf, loc, w, tk, n),
           NEW r, r = Joined(p, buf, loc, m)
    PROVE  /\ r \in Seq(Cell) /\ Len(r) = Len(p) + m
           /\ \A i \in 1 .. Len(p) : r[i] = p[i]
           /\ \A i \in 1 .. m : r[Len(p) + i] = buf[loc + i]
           /\ Ordered(r, buf, loc + m, w, tk, n)
<1> DEFINE q == SubSeq(buf, loc + 1, loc + m)
<1>1. buf \in Seq(Cell) /\ Len(buf) = Size /\ DOMAIN buf = 1 .. Size
  BY SizeAssumption, IsASeq, LenProperties
<1>2. q \in Seq(Cell) /\ Len(q) = m /\ \A i \in 1 .. m : q[i] = buf[loc + i]
  BY <1>1, SizeAssumption
<1>3. p \in Seq(Cell) /\ Len(p) \in Nat /\ DOMAIN p = 1 .. Len(p)
  BY LenProperties
<1> HIDE DEF q
<1>4. /\ p \o q \in Seq(Cell) /\ Len(p \o q) = Len(p) + m
      /\ \A i \in 1 .. Len(p) + m : (p \o q)[i] = IF i <= Len(p) THEN p[i] ELSE q[i - Len(p)]
  BY <1>2, <1>3, ConcatProperties
<1>5. r = p \o q
  BY DEF q, Joined
<1>6. r \in Seq(Cell) /\ Len(r) = Len(p) + m /\ DOMAIN r = 1 .. Len(p) + m
  BY <1>4, <1>5, LenProperties
<1>7. \A i \in 1 .. Len(p) : i \in 1 .. Len(p) + m /\ r[i] = p[i]
  BY <1>3, <1>4, <1>5
<1>8. \A i \in 1 .. m : r[Len(p) + i] = buf[loc + i]
  BY JoinedAt
<1>9. \A i \in DOMAIN r : \/ i \in DOMAIN p /\ r[i] = p[i]
                          \/ /\ i > Len(p) /\ loc + (i - Len(p)) \in 1 .. Size
                             /\ loc + (i - Len(p)) >= loc + 1 /\ loc + (i - Len(p)) < loc + m + 1
                             /\ r[i] = buf[loc + (i - Len(p))]
  <2>1. ASSUME NEW i \in DOMAIN r, ~(i \in DOMAIN p)
        PROVE  /\ i > Len(p) /\ loc + (i - Len(p)) \in 1 .. Size
               /\ loc + (i - Len(p)) >= loc + 1 /\ loc + (i - Len(p)) < loc + m + 1
               /\ r[i] = buf[loc + (i - Len(p))]
    <3>1. i \in Nat /\ i > Len(p) /\ i - Len(p) \in 1 .. m /\ Len(p) + (i - Len(p)) = i
      BY <1>3, <1>6, <2>1
    <3>2. r[Len(p) + (i - Len(p))] = buf[loc + (i - Len(p))]
      BY <1>8, <3>1
    <3>3. /\ loc + (i - Len(p)) \in 1 .. Size
          /\ loc + (i - Len(p)) >= loc + 1 /\ loc + (i - Len(p)) < loc + m + 1
      BY <3>1, SizeAssumption
    <3> QED BY <3>1, <3>2, <3>3
  <2> QED BY <1>3, <1>7, <2>1
<1>10. From(r, 1) \subseteq From(p, 1) \cup From(buf, loc + 1)
  <2>1. ASSUME NEW i \in DOMAIN r, i >= 1, r[i] # Zero PROVE r[i] \in From(p, 1) \cup From(buf, loc + 1)
    <3>1. CASE i \in DOMAIN p /\ r[i] = p[i]
      <4>1. i >= 1
        BY <1>3, <3>1
      <4> QED BY <2>1, <3>1, <4>1, InFrom
    <3>2. CASE ~(i \in DOMAIN p /\ r[i] = p[i])
      <4>1. PICK k \in 1 .. Size : k >= loc + 1 /\ r[i] = buf[k]
        BY <1>9, <3>2
      <4> QED BY <1>1, <2>1, <4>1, InFrom
    <3> QED BY <3>1, <3>2
  <2> QED BY <2>1, FromIn, Zenon
<1>11. From(buf, loc + m + 1) \subseteq From(buf, loc + 1)
  <2>1. ASSUME NEW i \in DOMAIN buf, i >= loc + m + 1, buf[i] # Zero
        PROVE  buf[i] \in From(buf, loc + 1)
    <3>1. i >= loc + 1
      BY <1>1, <2>1
    <3> QED BY <2>1, <3>1, InFrom
  <2> QED BY <2>1, FromIn, Zenon
<1>12. Ascending(r, 1)
  <2> SUFFICES ASSUME NEW i \in DOMAIN r, NEW j \in DOMAIN r, i < j, r[i] # Zero, r[j] # Zero
               PROVE  Precedes(r[i], r[j])
    BY DEF Ascending
  <2>1. i \in Nat /\ j \in Nat
    BY <1>3, <1>6
  <2>2. CASE i \in DOMAIN p /\ j \in DOMAIN p
    <3>1. r[i] = p[i] /\ r[j] = p[j] /\ i >= 1
      BY <1>3, <1>7, <2>2
    <3> QED BY <2>1, <2>2, <3>1 DEF Ordered, Ascending
  <2>3. CASE i \in DOMAIN p /\ ~(j \in DOMAIN p)
    <3>1. r[i] = p[i] /\ i >= 1
      BY <1>3, <1>7, <2>3
    <3>2. r[i] \in From(p, 1)
      BY <2>3, <3>1, InFrom
    <3>3. PICK k \in 1 .. Size : k >= loc + 1 /\ r[j] = buf[k]
      BY <1>9, <2>3
    <3>4. r[j] \in From(buf, loc + 1)
      BY <1>1, <3>3, InFrom
    <3> QED BY <3>2, <3>4 DEF Ordered, Before
  <2>4. CASE ~(i \in DOMAIN p) /\ ~(j \in DOMAIN p)
    <3> DEFINE k == loc + (i - Len(p))
               l == loc + (j - Len(p))
    <3>1. /\ k \in 1 .. Size /\ k >= loc + 1 /\ r[i] = buf[k]
          /\ l \in 1 .. Size /\ r[j] = buf[l]
      BY <1>9, <2>4
    <3>2. k < l
      BY <1>3, <2>1
    <3> QED BY <1>1, <3>1, <3>2 DEF Ordered, Ascending
  <2>5. CASE ~(i \in DOMAIN p) /\ j \in DOMAIN p
    BY <1>3, <1>6, <2>1, <2>5
  <2> QED BY <2>2, <2>3, <2>4, <2>5
<1>13. Ascending(buf, loc + m + 1)
  <2>1. ASSUME NEW i \in DOMAIN buf, i >= loc + m + 1 PROVE i >= loc + 1
    BY <1>1, <2>1
  <2> QED BY <1>1, <2>1 DEF Ordered, Ascending
<1>14. Before(From(r, 1), From(buf, loc + m + 1))
  <2> SUFFICES ASSUME NEW i \in DOMAIN r, NEW j \in DOMAIN buf,
                      i >= 1, r[i] # Zero, j >= loc + m + 1, buf[j] # Zero
               PROVE  Precedes(r[i], buf[j])
    BY FromBefore, Zenon
  <2>0. buf[j] \in From(buf, loc + 1)
    BY <1>1, InFrom
  <2>1. CASE i \in DOMAIN p
    <3>1. r[i] = p[i] /\ i >= 1
      BY <1>3, <1>7, <2>1
    <3>2. r[i] \in From(p, 1)
      BY <2>1, <3>1, InFrom
    <3> QED BY <2>0, <3>2 DEF Ordered, Before
  <2>2. CASE ~(i \in DOMAIN p)
    <3>1. PICK k \in 1 .. Size : k >= loc + 1 /\ k < loc + m + 1 /\ r[i] = buf[k]
      BY <1>9, <2>2
    <3>2. k < j
      BY <3>1
    <3> QED BY <1>1, <3>1, <3>2 DEF Ordered, Ascending
  <2> QED BY <2>1, <2>2
<1>15. From(r, 1) \cup From(buf, loc + m + 1) \subseteq From(p, 1) \cup From(buf, loc + 1)
  BY <1>10, <1>11
<1>16. Ordered(r, buf, loc + m, w, tk, n)
  <2>1. /\ Later(tk, From(r, 1) \cup From(buf, (loc + m) + 1))
        /\ Known(From(r, 1) \cup From(buf, (loc + m) + 1), n)
    BY <1>15, Zenon DEF Ordered, Later, Known
  <2>2. ASSUME NEW s \in 1 .. Len(w)
        PROVE  Before(From(r, 1) \cup From(buf, (loc + m) + 1), From(w[s], 1))
    BY <1>15, Zenon DEF Ordered, Before
  <2> QED BY <1>12, <1>13, <1>14, <2>1, <2>2, Zenon DEF Ordered
<1> QED
  BY <1>6, <1>7, <1>8, <1>16

\* A segment is copied into a buffer of zeros.
Filled(s) == [i \in 1 .. Size |-> IF i <= Len(s) THEN s[i] ELSE Zero]

\* The buffer as a sequence.
LEMMA BufferCells ==
    ASSUME NEW buf \in [1 .. Size -> Cell]
    PROVE  /\ buf \in Seq(Cell) /\ Len(buf) = Size /\ DOMAIN buf = 1 .. Size /\ Size \in Nat
           /\ \A i \in 1 .. Size : buf[i] \in Cell
           /\ \A a \in Int, b \in Int : 1 <= a /\ b <= Size => SubSeq(buf, a, b) \in Seq(Cell)
<1>1. Size \in Nat
  BY SizeAssumption
<1>2. buf \in Seq(Cell) /\ DOMAIN buf = 1 .. Size /\ \A i \in 1 .. Size : buf[i] \in Cell
  BY <1>1, IsASeq
<1>3. Len(buf) = Size
  BY <1>1, <1>2, LenProperties
<1>4. ASSUME NEW a \in Int, NEW b \in Int, 1 <= a, b <= Size PROVE SubSeq(buf, a, b) \in Seq(Cell)
  <2>1. \A i \in a .. b : buf[i] \in Cell
    BY <1>1, <1>2, <1>4
  <2> QED BY <2>1, SubSeqProperties
<1> QED BY <1>1, <1>2, <1>3, <1>4

LEMMA HasLength ==
    ASSUME NEW s, Len(s) # 0
    PROVE  s # <<>>
  OBVIOUS

LEMMA ZeroIsCell == Zero \in Cell
  BY SizeAssumption DEF Zero, Byte, Cell

\* It holds the bytes of the segment at their places, and no others.
LEMMA FilledProperties ==
    ASSUME NEW s \in Seq(Cell), Len(s) <= Size
    PROVE  /\ Filled(s) \in [1 .. Size -> Cell]
           /\ \A i \in DOMAIN s : i \in 1 .. Size /\ Filled(s)[i] = s[i]
           /\ \A i \in 1 .. Size : Filled(s)[i] # Zero => i \in DOMAIN s /\ Filled(s)[i] = s[i]
           /\ From(Filled(s), 1) = From(s, 1)
<1>1. Len(s) \in Nat /\ DOMAIN s = 1 .. Len(s)
  BY LenProperties
<1>2. \A i \in 1 .. Size : i <= Len(s) => i \in 1 .. Len(s) /\ s[i] \in Cell
  BY <1>1
<1>3. Filled(s) \in [1 .. Size -> Cell]
  BY <1>2, ZeroIsCell DEF Filled
<1>4. \A i \in DOMAIN s : i \in 1 .. Size /\ Filled(s)[i] = s[i]
  BY <1>1, SizeAssumption DEF Filled
<1>5. \A i \in 1 .. Size : Filled(s)[i] # Zero => i \in DOMAIN s /\ Filled(s)[i] = s[i]
  BY <1>1, <1>2 DEF Filled
<1>6. DOMAIN Filled(s) = 1 .. Size
  BY DEF Filled
<1>7. From(Filled(s), 1) = From(s, 1)
  BY <1>1, <1>4, <1>5, <1>6 DEF From
<1> QED
  BY <1>3, <1>4, <1>5, <1>7

\* The first segment, and the others one place further.
LEMMA WireTail ==
    ASSUME NEW w \in Seq(Seq(Cell)), w # <<>>
    PROVE  /\ Head(w) \in Seq(Cell) /\ Head(w) = w[1] /\ Tail(w) \in Seq(Seq(Cell))
           /\ Len(w) \in Nat /\ Len(w) > 0 /\ Len(Tail(w)) = Len(w) - 1
           /\ \A s \in 1 .. Len(Tail(w)) : s + 1 \in 1 .. Len(w) /\ Tail(w)[s] = w[s + 1]
<1>1. /\ Len(w) \in Nat /\ Len(w) > 0 /\ Head(w) = w[1] /\ Head(w) \in Seq(Cell)
      /\ Tail(w) \in Seq(Seq(Cell)) /\ Len(Tail(w)) = Len(w) - 1
      /\ \A i \in 1 .. Len(Tail(w)) : Tail(w)[i] = w[i + 1]
  BY HeadTailProperties, LenProperties, EmptySeq
<1> QED BY <1>1

\* A segment comes into the buffer, what was left there is gone.
LEMMA ReceiveOrder ==
    ASSUME NEW p, NEW buf, NEW loc, NEW w \in Seq(Seq(Cell)), w # <<>>, NEW tk, NEW n,
           Ordered(p, buf, loc, w, tk, n), Len(w[1]) <= Size
    PROVE  Ordered(p, Filled(Head(w)), 0, Tail(w), tk, n)
<1> DEFINE f == Filled(Head(w))
<1>1. /\ Head(w) \in Seq(Cell) /\ Head(w) = w[1]
      /\ Len(w) \in Nat /\ Len(w) > 0 /\ Len(Tail(w)) = Len(w) - 1
      /\ \A s \in 1 .. Len(Tail(w)) : s + 1 \in 1 .. Len(w) /\ Tail(w)[s] = w[s + 1]
  BY WireTail
<1>2. From(f, 1) = From(w[1], 1) /\ Ascending(f, 1)
  <2>1. /\ f \in [1 .. Size -> Cell]
        /\ \A i \in 1 .. Size : f[i] # Zero => i \in DOMAIN w[1] /\ f[i] = w[1][i]
        /\ From(f, 1) = From(w[1], 1)
    BY <1>1, FilledProperties
  <2>2. 1 \in 1 .. Len(w)
    BY <1>1
  <2>3. Ascending(w[1], 1)
    BY <2>2 DEF Ordered
  <2> QED BY <2>1, <2>3 DEF Ascending
<1> HIDE DEF f
<1>3. 0 + 1 = 1 /\ 1 \in 1 .. Len(w)
  BY <1>1
<1>4. /\ Before(From(p, 1), From(w[1], 1))
      /\ Later(tk, From(p, 1) \cup From(w[1], 1))
      /\ Known(From(p, 1) \cup From(w[1], 1), n)
  BY <1>3 DEF Ordered, Before, Later, Known
<1>5. ASSUME NEW s \in 1 .. Len(Tail(w))
      PROVE  /\ Ascending(Tail(w)[s], 1)
             /\ Before(From(p, 1) \cup From(w[1], 1), From(Tail(w)[s], 1))
             /\ Later(tk, From(Tail(w)[s], 1)) /\ Known(From(Tail(w)[s], 1), n)
             /\ \A u \in 1 .. Len(Tail(w)) :
                    s < u => Before(From(Tail(w)[s], 1), From(Tail(w)[u], 1))
  <2>1. s + 1 \in 1 .. Len(w) /\ Tail(w)[s] = w[s + 1] /\ 1 < s + 1
    BY <1>1
  <2>2. Before(From(w[1], 1), From(w[s + 1], 1))
    BY <1>3, <2>1 DEF Ordered
  <2>3. Before(From(p, 1) \cup From(w[1], 1), From(w[s + 1], 1))
    BY <2>1, <2>2 DEF Ordered, Before
  <2>4. ASSUME NEW u \in 1 .. Len(Tail(w)), s < u
        PROVE  Before(From(w[s + 1], 1), From(Tail(w)[u], 1))
    <3>1. u + 1 \in 1 .. Len(w) /\ Tail(w)[u] = w[u + 1] /\ s + 1 < u + 1
      BY <1>1, <2>4
    <3> QED BY <2>1, <3>1 DEF Ordered
  <2> QED BY <2>1, <2>3, <2>4 DEF Ordered
<1>6. Ascending(p, 1)
  BY DEF Ordered
<1>7. Ordered(p, f, 0, Tail(w), tk, n)
  BY <1>2, <1>3, <1>4, <1>5, <1>6 DEF Ordered
<1> QED BY <1>7 DEF f

\* A receive times out and leaves zeros.
LEMMA TimeoutOrder ==
    ASSUME NEW p, NEW buf, NEW loc, NEW w, NEW tk, NEW n, Ordered(p, buf, loc, w, tk, n)
    PROVE  Ordered(p, [i \in 1 .. Size |-> Zero], 0, w, tk, n)
<1> DEFINE z == [i \in 1 .. Size |-> Zero]
<1>1. From(z, 0 + 1) = {} /\ Ascending(z, 0 + 1)
  BY DEF From, Ascending
<1> HIDE DEF z
<1>2. Ordered(p, z, 0, w, tk, n)
  BY <1>1 DEF Ordered, Before, Later, Known
<1> QED BY <1>2 DEF z

\* The packet that was begun is dropped; the segments on their way are.
LEMMA DropOrder ==
    ASSUME NEW p, NEW buf, NEW loc, NEW w, NEW tk, NEW n, Ordered(p, buf, loc, w, tk, n)
    PROVE  Ordered(<<>>, buf, loc, w, tk, n) /\ Ordered(p, buf, loc, <<>>, tk, n)
<1>1. From(<<>>, 1) = {} /\ Ascending(<<>>, 1) /\ Len(<<>>) = 0
  BY DEF From, Ascending
<1>2. 1 .. 0 = {}
  OBVIOUS
<1> QED
  BY <1>1, <1>2 DEF Ordered, Before, Later, Known

\* Bytes with new names join the end of the wire.
LEMMA AppendOrder ==
    ASSUME NEW p, NEW buf, NEW loc, NEW w \in Seq(Seq(Cell)), NEW tk, NEW n \in Nat, NEW m \in Nat,
           n <= m, NEW s \in Seq(Cell), Ordered(p, buf, loc, w, tk, n),
           \A b \in From(p, 1) \cup From(buf, loc + 1) : b \in Cell,
           Ascending(s, 1), Known(From(s, 1), m), Later(tk, From(s, 1)),
           Before(From(p, 1) \cup From(buf, loc + 1), From(s, 1)),
           \A u \in 1 .. Len(w) : Before(From(w[u], 1), From(s, 1))
    PROVE  Ordered(p, buf, loc, Append(w, s), tk, m)
<1>1. /\ Len(w) \in Nat /\ Len(Append(w, s)) = Len(w) + 1
      /\ \A u \in 1 .. Len(w) : Append(w, s)[u] = w[u]
      /\ Append(w, s)[Len(w) + 1] = s
  BY AppendProperties, LenProperties
<1> DEFINE x == Append(w, s)
<1>2. Len(x) = Len(w) + 1 /\ \A u \in 1 .. Len(x) :
        (u \in 1 .. Len(w) /\ x[u] = w[u]) \/ (u = Len(w) + 1 /\ x[u] = s)
  BY <1>1
<1> HIDE DEF x
<1>3. Known(From(p, 1) \cup From(buf, loc + 1), m)
  BY CellFacts DEF Ordered, Known
<1>4. ASSUME NEW u \in 1 .. Len(w) PROVE Known(From(w[u], 1), m)
  <2>1. w[u] \in Seq(Cell)
    BY <1>1
  <2>2. \A b \in From(w[u], 1) : b \in Cell
    BY <2>1, LenProperties DEF From
  <2> QED BY <2>2, CellFacts DEF Ordered, Known
<1>5. ASSUME NEW u \in 1 .. Len(x)
      PROVE  /\ Ascending(x[u], 1)
             /\ Before(From(p, 1) \cup From(buf, loc + 1), From(x[u], 1))
             /\ Later(tk, From(x[u], 1)) /\ Known(From(x[u], 1), m)
  BY <1>2, <1>4 DEF Ordered
<1>6. ASSUME NEW u \in 1 .. Len(x), NEW v \in 1 .. Len(x), u < v
      PROVE  Before(From(x[u], 1), From(x[v], 1))
  <2>1. u \in 1 .. Len(w) /\ x[u] = w[u]
    BY <1>1, <1>2, <1>6
  <2> QED BY <1>2, <1>6, <2>1 DEF Ordered
<1>7. Ordered(p, buf, loc, x, tk, m)
  BY <1>3, <1>5, <1>6 DEF Ordered
<1> QED BY <1>7 DEF x

\* Two sequences of bytes, one behind the other.
LEMMA ConcatCells ==
    ASSUME NEW a \in Seq(Cell), NEW s \in Seq(Cell)
    PROVE  /\ a \o s \in Seq(Cell) /\ Len(a \o s) = Len(a) + Len(s)
           /\ DOMAIN (a \o s) = 1 .. Len(a) + Len(s)
           /\ \A i \in 1 .. Len(a) : (a \o s)[i] = a[i]
           /\ \A i \in 1 .. Len(s) : (a \o s)[Len(a) + i] = s[i]
           /\ \A i \in 1 .. Len(a) + Len(s) :
                i \in 1 .. Len(a) \/ (i - Len(a) \in 1 .. Len(s) /\ (a \o s)[i] = s[i - Len(a)])
           /\ From(a \o s, 1) = From(a, 1) \cup From(s, 1)
<1> DEFINE x == a \o s
<1>1. /\ x \in Seq(Cell) /\ Len(x) = Len(a) + Len(s)
      /\ \A i \in 1 .. Len(a) + Len(s) : x[i] = IF i <= Len(a) THEN a[i] ELSE s[i - Len(a)]
  BY ConcatProperties
<1>2. Len(a) \in Nat /\ Len(s) \in Nat /\ DOMAIN a = 1 .. Len(a) /\ DOMAIN s = 1 .. Len(s)
  BY LenProperties
<1>3. DOMAIN x = 1 .. Len(a) + Len(s)
  BY <1>1, LenProperties
<1> HIDE DEF x
<1>4. \A i \in 1 .. Len(a) : i \in DOMAIN x /\ i >= 1 /\ x[i] = a[i]
  BY <1>1, <1>2, <1>3
<1>5. \A i \in 1 .. Len(s) : Len(a) + i \in DOMAIN x /\ Len(a) + i >= 1 /\ i >= 1 /\ x[Len(a) + i] = s[i]
  <2>1. ASSUME NEW i \in 1 .. Len(s)
        PROVE  Len(a) + i \in DOMAIN x /\ Len(a) + i >= 1 /\ i >= 1 /\ x[Len(a) + i] = s[i]
    <3>1. /\ Len(a) + i \in 1 .. Len(a) + Len(s) /\ ~(Len(a) + i <= Len(a))
          /\ (Len(a) + i) - Len(a) = i /\ Len(a) + i >= 1 /\ i >= 1
      BY <1>2
    <3> QED BY <1>1, <1>3, <3>1
  <2> QED BY <2>1
<1>6. \A i \in 1 .. Len(a) + Len(s) :
        i \in 1 .. Len(a) \/ (i - Len(a) \in 1 .. Len(s) /\ x[i] = s[i - Len(a)])
  BY <1>1, <1>2
<1>7. From(x, 1) \subseteq From(a, 1) \cup From(s, 1)
  <2>1. ASSUME NEW i \in DOMAIN x, i >= 1, x[i] # Zero PROVE x[i] \in From(a, 1) \cup From(s, 1)
    <3>1. CASE i \in 1 .. Len(a)
      BY <1>2, <1>4, <2>1, <3>1, InFrom
    <3>2. CASE i - Len(a) \in 1 .. Len(s) /\ x[i] = s[i - Len(a)]
      <4>1. i - Len(a) \in DOMAIN s /\ i - Len(a) >= 1
        BY <1>2, <3>2
      <4> QED BY <2>1, <3>2, <4>1, InFrom
    <3> QED BY <1>3, <1>6, <2>1, <3>1, <3>2
  <2> QED BY <2>1, FromIn, Zenon
<1>8. From(a, 1) \subseteq From(x, 1)
  <2>1. ASSUME NEW i \in DOMAIN a, i >= 1, a[i] # Zero PROVE a[i] \in From(x, 1)
    BY <1>2, <1>4, <2>1, InFrom
  <2> QED BY <2>1, FromIn, Zenon
<1>9. From(s, 1) \subseteq From(x, 1)
  <2>1. ASSUME NEW i \in DOMAIN s, i >= 1, s[i] # Zero PROVE s[i] \in From(x, 1)
    <3>1. Len(a) + i \in DOMAIN x /\ Len(a) + i >= 1 /\ x[Len(a) + i] = s[i]
      BY <1>2, <1>5
    <3> QED BY <2>1, <3>1, InFrom
  <2> QED BY <2>1, FromIn, Zenon
<1> QED
  BY <1>1, <1>3, <1>4, <1>5, <1>6, <1>7, <1>8, <1>9 DEF x

\* They ascend if both do, and the second one is later.
LEMMA ConcatAscending ==
    ASSUME NEW a \in Seq(Cell), NEW s \in Seq(Cell), Ascending(a, 1), Ascending(s, 1),
           Before(From(a, 1), From(s, 1))
    PROVE  Ascending(a \o s, 1)
<1> DEFINE x == a \o s
<1>1. /\ DOMAIN x = 1 .. Len(a) + Len(s) /\ Len(a) \in Nat /\ Len(s) \in Nat
      /\ \A i \in 1 .. Len(a) : x[i] = a[i]
      /\ \A i \in 1 .. Len(a) + Len(s) :
            i \in 1 .. Len(a) \/ (i - Len(a) \in 1 .. Len(s) /\ x[i] = s[i - Len(a)])
      /\ DOMAIN a = 1 .. Len(a) /\ DOMAIN s = 1 .. Len(s)
  BY ConcatCells, LenProperties
<1> HIDE DEF x
<1>2. ASSUME NEW i \in DOMAIN x, NEW j \in DOMAIN x, 1 <= i, i < j, x[i] # Zero, x[j] # Zero
      PROVE  Precedes(x[i], x[j])
  <2>0. i \in Nat /\ j \in Nat
    BY <1>1
  <2>1. CASE i \in 1 .. Len(a) /\ j \in 1 .. Len(a)
    BY <1>1, <1>2, <2>1 DEF Ascending
  <2>2. CASE i \in 1 .. Len(a) /\ ~(j \in 1 .. Len(a))
    <3>1. j - Len(a) \in DOMAIN s /\ j - Len(a) >= 1 /\ x[j] = s[j - Len(a)]
      BY <1>1, <2>2
    <3>2. x[j] \in From(s, 1)
      BY <1>2, <3>1, InFrom
    <3>3. x[i] \in From(a, 1)
      BY <1>1, <1>2, <2>2, InFrom
    <3> QED BY <3>2, <3>3 DEF Before
  <2>3. CASE ~(i \in 1 .. Len(a)) /\ ~(j \in 1 .. Len(a))
    <3>1. /\ i - Len(a) \in DOMAIN s /\ 1 <= i - Len(a) /\ x[i] = s[i - Len(a)]
          /\ j - Len(a) \in DOMAIN s /\ x[j] = s[j - Len(a)]
      BY <1>1, <2>3
    <3>2. i - Len(a) < j - Len(a)
      BY <1>1, <1>2, <2>0
    <3> QED BY <1>2, <3>1, <3>2 DEF Ascending
  <2>4. CASE ~(i \in 1 .. Len(a)) /\ j \in 1 .. Len(a)
    BY <1>1, <1>2, <2>0, <2>4
  <2> QED BY <2>1, <2>2, <2>3, <2>4
<1> QED
  BY <1>2 DEF Ascending, x

\* Bytes with new names join the last segment.
LEMMA JoinOrder ==
    ASSUME NEW p, NEW buf, NEW loc, NEW w \in Seq(Seq(Cell)), NEW tk, NEW n \in Nat, NEW m \in Nat,
           n <= m, NEW s \in Seq(Cell), Ordered(p, buf, loc, w, tk, n),
           \A b \in From(p, 1) \cup From(buf, loc + 1) : b \in Cell,
           Ascending(s, 1), Known(From(s, 1), m), Later(tk, From(s, 1)),
           Before(From(p, 1) \cup From(buf, loc + 1), From(s, 1)),
           \A u \in 1 .. Len(w) : Before(From(w[u], 1), From(s, 1)), w # <<>>
    PROVE  Ordered(p, buf, loc, [w EXCEPT ![Len(w)] = @ \o s], tk, m)
<1> DEFINE x == [w EXCEPT ![Len(w)] = @ \o s]
           l == w[Len(w)]
<1>1. Len(w) \in Nat /\ Len(w) \in 1 .. Len(w) /\ DOMAIN w = 1 .. Len(w) /\ l \in Seq(Cell)
  BY LenProperties, EmptySeq
<1>2. Len(x) = Len(w) /\ x[Len(w)] = l \o s /\ \A u \in 1 .. Len(w) : u # Len(w) => x[u] = w[u]
  <2>1. l \o s \in Seq(Cell)
    BY <1>1, ConcatCells
  <2>2. Len(w) \in 1 .. Len(w) /\ w \in Seq(Seq(Cell))
    BY <1>1
  <2>3. x = [w EXCEPT ![Len(w)] = l \o s]
    OBVIOUS
  <2> HIDE DEF x, l
  <2>4. /\ Len(x) = Len(w)
        /\ \A u \in 1 .. Len(w) : x[u] = IF u = Len(w) THEN l \o s ELSE w[u]
    BY <2>1, <2>2, <2>3, ExceptSeq
  <2> QED BY <2>2, <2>4
<1>3. From(l \o s, 1) = From(l, 1) \cup From(s, 1)
  BY <1>1, ConcatCells
<1>4. Ascending(l \o s, 1)
  BY <1>1, ConcatAscending DEF Ordered
<1> HIDE DEF x
<1>5. Known(From(p, 1) \cup From(buf, loc + 1), m)
  BY CellFacts DEF Ordered, Known
<1>6. ASSUME NEW u \in 1 .. Len(w) PROVE Known(From(w[u], 1), m)
  <2>1. w[u] \in Seq(Cell)
    BY <1>1
  <2>2. \A b \in From(w[u], 1) : b \in Cell
    BY <2>1, LenProperties DEF From
  <2> QED BY <2>2, CellFacts DEF Ordered, Known
<1>7. ASSUME NEW u \in 1 .. Len(w)
      PROVE  /\ Ascending(x[u], 1)
             /\ Before(From(p, 1) \cup From(buf, loc + 1), From(x[u], 1))
             /\ Later(tk, From(x[u], 1)) /\ Known(From(x[u], 1), m)
  <2>1. /\ Ascending(w[u], 1) /\ Known(From(w[u], 1), m)
        /\ Before(From(p, 1) \cup From(buf, loc + 1), From(w[u], 1))
        /\ Later(tk, From(w[u], 1))
    BY <1>6 DEF Ordered
  <2>2. CASE u # Len(w)
    BY <1>2, <2>1, <2>2
  <2>3. CASE u = Len(w)
    <3>1. /\ Before(From(p, 1) \cup From(buf, loc + 1), From(l, 1) \cup From(s, 1))
          /\ Later(tk, From(l, 1) \cup From(s, 1)) /\ Known(From(l, 1) \cup From(s, 1), m)
      BY <2>1, <2>3 DEF Before, Later, Known
    <3> QED BY <1>2, <1>3, <1>4, <2>3, <3>1
  <2> QED BY <2>2, <2>3
<1>8. ASSUME NEW u \in 1 .. Len(w), NEW v \in 1 .. Len(w), u < v
      PROVE  Before(From(x[u], 1), From(x[v], 1))
  <2>0. u # Len(w)
    <3>1. Len(w) \in Nat
      BY <1>1
    <3> HIDE DEF l
    <3> QED BY <1>8, <3>1
  <2>1. u # Len(w) /\ x[u] = w[u]
    BY <1>2, <2>0
  <2>2. Before(From(w[u], 1), From(w[v], 1))
    BY <1>8 DEF Ordered
  <2>3. CASE v # Len(w)
    BY <1>2, <2>1, <2>2, <2>3
  <2>4. CASE v = Len(w)
    <3>1. Before(From(w[u], 1), From(l, 1) \cup From(s, 1))
      BY <2>2, <2>4 DEF Before
    <3> QED BY <1>2, <1>3, <2>1, <2>4, <3>1
  <2> QED BY <2>3, <2>4
<1>9. Ordered(p, buf, loc, x, tk, m)
  BY <1>2, <1>5, <1>7, <1>8 DEF Ordered
<1> QED BY <1>9 DEF x

\* What a packet that is handed over leaves.
LEMMA HandOverOrder ==
    ASSUME NEW p \in Seq(Cell), NEW buf \in [1 .. Size -> Cell], NEW loc \in Nat,
           NEW w \in Seq(Seq(Cell)), NEW n \in Nat, p # <<>>, taken \in Seq(Nat),
           Ordered(p, buf, loc, w, taken, n), InOrder(taken, n)
    PROVE  /\ HandOver(p) \in Seq(Nat)
           /\ Ordered(<<>>, buf, loc, w, HandOver(p), n) /\ InOrder(HandOver(p), n)
<1>1. Ordered(<<>>, buf, loc, w, taken, n)
  BY DropOrder
<1>2. CASE \A i \in DOMAIN p : p[i] = Zero
  BY <1>1, <1>2 DEF HandOver
<1>3. CASE ~\A i \in DOMAIN p : p[i] = Zero
  <2> DEFINE k == IF IsWhole(p) THEN p[1].of ELSE Torn
             t == Append(taken, k)
  <2>1. HandOver(p) = t
    BY <1>3 DEF HandOver
  <2>2. Len(p) \in Nat /\ DOMAIN p = 1 .. Len(p) /\ 1 \in DOMAIN p /\ p[1] \in Cell
    BY LenProperties, EmptySeq
  <2>3. k \in Nat
    BY <2>2, CellFacts DEF Torn
  <2>4. /\ \A b \in From(buf, loc + 1) : b \in Cell
        /\ \A s \in 1 .. Len(w) : \A b \in From(w[s], 1) : b \in Cell
    <3>1. DOMAIN buf = 1 .. Size /\ \A i \in 1 .. Size : buf[i] \in Cell
      OBVIOUS
    <3>2. ASSUME NEW s \in 1 .. Len(w), NEW b \in From(w[s], 1) PROVE b \in Cell
      <4>1. w[s] \in Seq(Cell)
        OBVIOUS
      <4> QED BY <4>1, LenProperties DEF From
    <3> QED BY <3>1, <3>2 DEF From
  <2>5. /\ \A i \in DOMAIN taken : k # Torn /\ taken[i] # Torn => taken[i] < k
        /\ k <= n
        /\ \A b \in From(buf, loc + 1) : k < b.of \/ (k = b.of /\ b.pos > 0)
        /\ \A s \in 1 .. Len(w) : \A b \in From(w[s], 1) : k < b.of \/ (k = b.of /\ b.pos > 0)
    <3>1. CASE ~IsWhole(p)
      <4>1. k = 0 /\ k = Torn
        BY <3>1 DEF Torn
      <4>2. \A b \in Cell : b # Zero => 0 < b.of
        BY CellFacts
      <4>3. /\ \A b \in From(buf, loc + 1) : b # Zero
            /\ \A s \in 1 .. Len(w) : \A b \in From(w[s], 1) : b # Zero
        BY DEF From
      <4>4. /\ \A b \in From(buf, loc + 1) : k < b.of
            /\ \A s \in 1 .. Len(w) : \A b \in From(w[s], 1) : k < b.of
        BY <2>4, <4>1, <4>2, <4>3
      <4>5. k <= n
        BY <4>1
      <4> QED BY <4>1, <4>4, <4>5, Zenon
    <3>2. CASE IsWhole(p)
      <4>1. /\ k = p[1].of /\ Len(p) >= 2 /\ Len(p) \in DOMAIN p /\ 2 \in DOMAIN p
            /\ p[1].pos = 0 /\ p[2].of = k /\ p[2].pos = 1
            /\ p[Len(p)].of = k /\ p[Len(p)].pos > 0
        <5>1. /\ Len(p) >= 2
              /\ \A i \in DOMAIN p : p[i].of = p[1].of /\ p[i].pos = i - 1
          BY <3>2 DEF IsWhole
        <5>2. 2 \in DOMAIN p /\ Len(p) \in DOMAIN p /\ Len(p) - 1 > 0 /\ 2 - 1 = 1 /\ 1 - 1 = 0
          BY <2>2, <5>1
        <5>3. k = p[1].of
          BY <3>2
        <5> HIDE DEF k
        <5> QED BY <2>2, <5>1, <5>2, <5>3
      <4>2. \A i \in DOMAIN p : p[i] \in Cell
        BY <2>2
      <4>3. p[2] # Zero /\ p[Len(p)] # Zero
        BY <4>1 DEF Zero, Byte
      <4>4. k # 0 /\ p[1] # Zero
        <5>1. k # 0
          BY <4>1, <4>2, <4>3, CellFacts
        <5> QED BY <4>1, <5>1 DEF Zero, Byte
      <4>5. p[1] \in From(p, 1) /\ p[Len(p)] \in From(p, 1)
        BY <2>2, <4>1, <4>3, <4>4, InFrom
      <4>6. Later(taken, From(p, 1)) /\ Known(From(p, 1), n)
        BY DEF Ordered, Later, Known
      <4>7. \A i \in DOMAIN taken : taken[i] < k
        BY <4>1, <4>5, <4>6 DEF Later
      <4>8. k <= n
        BY <4>1, <4>5, <4>6 DEF Known
      <4>9. /\ \A b \in From(buf, loc + 1) : Precedes(p[Len(p)], b)
            /\ \A s \in 1 .. Len(w) : \A b \in From(w[s], 1) : Precedes(p[Len(p)], b)
        BY <4>5 DEF Ordered, Before
      <4>10. \A b \in Cell : Precedes(p[Len(p)], b) => k < b.of \/ (k = b.of /\ b.pos > 0)
        BY <4>1, <4>2, CellFacts DEF Precedes
      <4> QED BY <2>4, <4>7, <4>8, <4>9, <4>10
    <3> QED BY <3>1, <3>2
  <2> HIDE DEF k
  <2>6. /\ t \in Seq(Nat) /\ Len(t) = Len(taken) + 1 /\ Len(taken) \in Nat
        /\ DOMAIN t = 1 .. Len(t) /\ DOMAIN taken = 1 .. Len(taken)
        /\ \A i \in 1 .. Len(taken) : t[i] = taken[i]
        /\ t[Len(taken) + 1] = k
    BY <2>3, AppendProperties, LenProperties
  <2>7. \A i \in DOMAIN t : (i \in DOMAIN taken /\ t[i] = taken[i]) \/ (i = Len(taken) + 1 /\ t[i] = k)
    BY <2>6
  <2> HIDE DEF t
  <2>8. /\ Later(t, From(<<>>, 1) \cup From(buf, loc + 1))
        /\ \A s \in 1 .. Len(w) : Later(t, From(w[s], 1))
    <3>1. From(<<>>, 1) = {}
      BY DEF From
    <3>2. /\ Later(taken, From(buf, loc + 1))
          /\ \A s \in 1 .. Len(w) : Later(taken, From(w[s], 1))
      BY DEF Ordered, Later
    <3>3. ASSUME NEW S, Later(taken, S), \A b \in S : k < b.of \/ (k = b.of /\ b.pos > 0)
          PROVE  Later(t, S)
      <4> SUFFICES ASSUME NEW b \in S, NEW i \in DOMAIN t
                   PROVE  t[i] < b.of \/ (t[i] = b.of /\ b.pos > 0)
        BY DEF Later
      <4>1. CASE i \in DOMAIN taken /\ t[i] = taken[i]
        BY <3>3, <4>1 DEF Later
      <4>2. CASE t[i] = k
        BY <3>3, <4>2
      <4> QED BY <2>7, <4>1, <4>2
    <3>4. From(<<>>, 1) \cup From(buf, loc + 1) = From(buf, loc + 1)
      BY <3>1
    <3> QED BY <2>5, <3>2, <3>3, <3>4
  <2>9. Ordered(<<>>, buf, loc, w, t, n)
    BY <1>1, <2>8 DEF Ordered
  <2>10. InOrder(t, n)
    <3>1. \A i \in DOMAIN t : t[i] <= n
      BY <2>5, <2>7 DEF InOrder
    <3>2. ASSUME NEW i \in DOMAIN t, NEW j \in DOMAIN t, i < j, t[i] # Torn, t[j] # Torn
          PROVE  t[i] < t[j]
      <4>1. i \in DOMAIN taken /\ t[i] = taken[i]
        BY <2>6, <2>7, <3>2
      <4>2. CASE j \in DOMAIN taken /\ t[j] = taken[j]
        BY <3>2, <4>1, <4>2 DEF InOrder
      <4>3. CASE j = Len(taken) + 1 /\ t[j] = k
        BY <2>5, <3>2, <4>1, <4>3
      <4> QED BY <2>7, <4>2, <4>3
    <3> QED BY <3>1, <3>2 DEF InOrder
  <2> QED BY <2>1, <2>6, <2>9, <2>10 DEF t
<1> QED
  BY <1>2, <1>3

-----------------------------------------------------------------------------
\* The length of a packet that has one length byte and fits in readbuf.
Short(n) == n < 130 /\ n <= ReadBuf

Sound ==
    /\ RxTypes /\ Ordered(part, rxbuf, rxloc, wire, taken, sent) /\ InOrder(taken, sent)

\* The bytes of a packet.
LEMMA PacketProperties ==
    ASSUME NEW n \in Nat, n > 0, NEW kind \in Kinds
    PROVE  LET p == Packet(n, kind) IN
            /\ p \in Seq(Cell) /\ Len(p) = kind.rest + 2 /\ Len(p) <= Size /\ kind.rest \in Nat
            /\ \A i \in 1 .. Len(p) : p[i].of = n /\ p[i].pos = i - 1 /\ p[i] # Zero
            /\ p[2].val = kind.rest /\ Short(Len(p))
<1> DEFINE h == <<Byte(n, 0, kind.header), Byte(n, 1, kind.rest)>>
           b == [i \in 1 .. kind.rest |-> Byte(n, i + 1, Filler)]
           p == h \o b
<1>1. /\ kind.header \in Nat /\ kind.header <= 255 /\ kind.rest \in Nat /\ kind.rest + 2 <= Size
      /\ kind.rest <= 127 /\ kind.rest <= 255 /\ 1 <= 255 /\ kind.rest + 2 <= ReadBuf
      /\ Size \in Nat
  BY KindsAssumption, SizeAssumption
<1>2. ASSUME NEW i \in Nat, NEW v \in Nat, v <= 255
      PROVE  /\ Byte(n, i, v) \in Cell /\ Byte(n, i, v) # Zero
             /\ Byte(n, i, v).of = n /\ Byte(n, i, v).pos = i /\ Byte(n, i, v).val = v
  BY <1>1, <1>2 DEF Byte, Cell, Zero
<1>3. Len(h) = 2 /\ h \in Seq(Cell)
  <2>1. Byte(n, 0, kind.header) \in Cell /\ Byte(n, 1, kind.rest) \in Cell
    BY <1>1, <1>2
  <2> QED BY <2>1
<1>4. b \in [1 .. kind.rest -> Cell]
  <2>1. ASSUME NEW i \in 1 .. kind.rest PROVE Byte(n, i + 1, Filler) \in Cell
    BY <1>1, <1>2 DEF Filler
  <2> QED BY <2>1
<1>5. b \in Seq(Cell) /\ Len(b) = kind.rest
  <2> HIDE DEF b
  <2>1. kind.rest \in Nat
    BY <1>1
  <2>2. b \in Seq(Cell)
    BY <1>4, <2>1, IsASeq
  <2>3. DOMAIN b = 1 .. kind.rest /\ DOMAIN b = 1 .. Len(b) /\ Len(b) \in Nat
    BY <1>4, <2>2, LenProperties
  <2> QED BY <2>1, <2>2, <2>3
<1>6. /\ p \in Seq(Cell) /\ Len(p) = 2 + kind.rest
      /\ \A i \in 1 .. 2 : p[i] = h[i]
      /\ \A i \in 1 .. 2 + kind.rest :
            i \in 1 .. 2 \/ (i - 2 \in 1 .. kind.rest /\ p[i] = b[i - 2])
  <2> HIDE DEF h, b
  <2>1. h \in Seq(Cell) /\ b \in Seq(Cell)
    BY <1>3, <1>5
  <2>2. /\ p \in Seq(Cell) /\ Len(p) = Len(h) + Len(b)
        /\ \A i \in 1 .. Len(h) : p[i] = h[i]
        /\ \A i \in 1 .. Len(h) + Len(b) :
            i \in 1 .. Len(h) \/ (i - Len(h) \in 1 .. Len(b) /\ p[i] = b[i - Len(h)])
    BY <2>1, ConcatCells, Zenon
  <2> HIDE DEF p
  <2> QED BY <1>3, <1>5, <2>2
<1>7. p[1] = Byte(n, 0, kind.header) /\ p[2] = Byte(n, 1, kind.rest)
  BY <1>6
<1>8. ASSUME NEW i \in 1 .. 2 + kind.rest
      PROVE  p[i].of = n /\ p[i].pos = i - 1 /\ p[i] # Zero
  <2>1. i = 1 \/ i = 2 \/ (i - 2 \in 1 .. kind.rest /\ p[i] = b[i - 2])
    <3> HIDE DEF p, b, h
    <3>1. i \in 1 .. 2 \/ (i - 2 \in 1 .. kind.rest /\ p[i] = b[i - 2])
      BY <1>6, Zenon
    <3> QED BY <3>1
  <2>2. CASE i - 2 \in 1 .. kind.rest /\ p[i] = b[i - 2]
    <3>1. p[i] = Byte(n, (i - 2) + 1, Filler) /\ (i - 2) + 1 = i - 1 /\ i - 1 \in Nat
      BY <1>1, <2>2
    <3> QED BY <1>1, <1>2, <3>1 DEF Filler
  <2>3. CASE i = 1
    BY <1>1, <1>2, <1>7, <2>3
  <2>4. CASE i = 2
    BY <1>1, <1>2, <1>7, <2>4
  <2> QED BY <2>1, <2>2, <2>3, <2>4
<1>9. p = Packet(n, kind)
  BY DEF Packet
<1>10. p[2].val = kind.rest
  BY <1>1, <1>2, <1>7
<1>11. 2 + kind.rest = kind.rest + 2
  BY <1>1
<1>12. Short(kind.rest + 2)
  BY <1>1 DEF Short
<1> HIDE DEF p
<1> QED
  BY <1>1, <1>6, <1>8, <1>9, <1>10, <1>11, <1>12

\* wifi_read_data: the bytes that are copied out join those of the packet.
LEMMA ReadDataKeeps ==
    ASSUME RxTypes, Ordered(part, rxbuf, rxloc, wire, taken, sent), NEW m \in 0 .. Size, ReadData(m)
    PROVE  /\ wire' \in Seq(Seq(Cell)) /\ \A s \in 1 .. Len(wire') : Len(wire'[s]) <= Size
           /\ rxbuf' \in [1 .. Size -> Cell] /\ rxloc' \in 0 .. Size /\ m <= rxloc'
           /\ part \o Bytes(m) \in Seq(Cell) /\ Len(part \o Bytes(m)) = Len(part) + m
           /\ \A i \in 1 .. Len(part) : (part \o Bytes(m))[i] = part[i]
           /\ \A i \in 1 .. m : (part \o Bytes(m))[Len(part) + i] = rxbuf'[(rxloc' - m) + i]
           /\ Ordered(part \o Bytes(m), rxbuf', rxloc', wire', taken, sent)
<1>1. /\ Size \in Nat /\ m \in Nat /\ m <= Size /\ part \in Seq(Cell)
      /\ rxbuf \in [1 .. Size -> Cell] /\ rxloc \in Nat /\ rxloc <= Size
      /\ wire \in Seq(Seq(Cell)) /\ \A s \in 1 .. Len(wire) : Len(wire[s]) <= Size
  BY SizeAssumption DEF RxTypes
<1>2. PICK loc \in Nat :
        /\ rxloc' = loc + m /\ loc + m <= Size
        /\ rxbuf' \in [1 .. Size -> Cell]
        /\ wire' \in Seq(Seq(Cell)) /\ \A s \in 1 .. Len(wire') : Len(wire'[s]) <= Size
        /\ Ordered(part, rxbuf', loc, wire', taken, sent)
  <2>1. CASE Buffered(m)
    <3>1. rxloc' = rxloc + m /\ rxloc + m <= Size /\ rxbuf' = rxbuf /\ wire' = wire
      BY <1>1, <2>1 DEF Buffered, Enough
    <3> QED BY <1>1, <3>1
  <2>2. CASE Received(m)
    <3>1. /\ wire # <<>> /\ rxbuf' = Filled(Head(wire)) /\ wire' = Tail(wire) /\ rxloc' = 0 + m
      BY <1>1, <2>2 DEF Received, Filled
    <3>2. /\ Head(wire) \in Seq(Cell) /\ Head(wire) = wire[1] /\ Tail(wire) \in Seq(Seq(Cell))
          /\ Len(wire) \in Nat /\ Len(wire) > 0
          /\ \A s \in 1 .. Len(Tail(wire)) : s + 1 \in 1 .. Len(wire) /\ Tail(wire)[s] = wire[s + 1]
      BY <1>1, <3>1, WireTail
    <3>3. Len(wire[1]) <= Size
      BY <1>1, <3>2
    <3>4. Filled(Head(wire)) \in [1 .. Size -> Cell]
      BY <3>2, <3>3, FilledProperties
    <3>5. Ordered(part, Filled(Head(wire)), 0, Tail(wire), taken, sent)
      BY <1>1, <3>1, <3>3, ReceiveOrder
    <3>6. \A s \in 1 .. Len(wire') : Len(wire'[s]) <= Size
      BY <1>1, <3>1, <3>2
    <3>7. 0 \in Nat /\ 0 + m <= Size
      BY <1>1
    <3> QED BY <3>1, <3>2, <3>4, <3>5, <3>6, <3>7
  <2> QED BY <2>1, <2>2 DEF ReadData
<1>3. rxloc' \in 0 .. Size /\ m <= rxloc' /\ rxloc' - m = loc /\ (rxloc' - m) + 1 = loc + 1
  BY <1>1, <1>2
<1> DEFINE r == part \o Bytes(m)
<1>4. r = part \o SubSeq(rxbuf', loc + 1, loc + m)
  BY <1>2, <1>3 DEF Bytes
<1> HIDE DEF r
<1>5. /\ r \in Seq(Cell) /\ Len(r) = Len(part) + m
      /\ \A i \in 1 .. Len(part) : r[i] = part[i]
      /\ \A i \in 1 .. m : r[Len(part) + i] = rxbuf'[loc + i]
      /\ Ordered(r, rxbuf', loc + m, wire', taken, sent)
  <2>1. /\ part \in Seq(Cell) /\ rxbuf' \in [1 .. Size -> Cell] /\ loc \in Nat /\ m \in Nat
        /\ loc + m <= Size /\ Ordered(part, rxbuf', loc, wire', taken, sent)
        /\ r = Joined(part, rxbuf', loc, m)
    BY <1>1, <1>2, <1>4 DEF Joined
  <2>2. /\ r \in Seq(Cell) /\ Len(r) = Len(part) + m
        /\ Ordered(r, rxbuf', loc + m, wire', taken, sent)
        /\ \A i \in 1 .. Len(part) : r[i] = part[i]
    BY <2>1, ReadOrder
  <2>3. ASSUME NEW i \in 1 .. m PROVE r[Len(part) + i] = rxbuf'[loc + i]
    <3>1. Joined(part, rxbuf', loc, m)[Len(part) + i] = rxbuf'[loc + i]
      BY <2>1, JoinedAt
    <3> QED BY <2>1, <3>1, Zenon
  <2> QED BY <2>2, <2>3
<1> QED
  BY <1>2, <1>3, <1>5 DEF r

-----------------------------------------------------------------------------
(* Each step keeps the types and the order *)

LEMMA InitSound == Init => Sound
<1> SUFFICES ASSUME Init PROVE Sound
  OBVIOUS
<1>1. RxTypes
  BY SizeAssumption, ZeroIsCell DEF Init, RxTypes
<1>2. From(<<>>, 1) = {} /\ From(rxbuf, rxloc + 1) = {}
  BY DEF From, Init
<1>3. Ascending(<<>>, 1) /\ Ascending(rxbuf, rxloc + 1)
  BY DEF Ascending, Init
<1>4. Ordered(part, rxbuf, rxloc, wire, taken, sent)
  <2>1. part = <<>> /\ Len(wire) = 0 /\ 1 .. 0 = {}
    BY DEF Init
  <2>2. From(part, 1) = {} /\ Ascending(part, 1)
    BY <1>2, <1>3, <2>1
  <2> QED BY <1>2, <1>3, <2>1, <2>2 DEF Ordered, Before, Later, Known
<1>5. InOrder(taken, sent)
  BY DEF InOrder, Init
<1> QED
  BY <1>1, <1>4, <1>5 DEF Sound

\* What is there consists of bytes that are known.
LEMMA OldCells ==
    ASSUME Sound
    PROVE  /\ \A b \in From(part, 1) \cup From(rxbuf, rxloc + 1) : b \in Cell /\ b.of <= sent
           /\ \A s \in 1 .. Len(wire) : wire[s] \in Seq(Cell)
           /\ \A s \in 1 .. Len(wire) : \A b \in From(wire[s], 1) : b \in Cell /\ b.of <= sent
<1>1. /\ part \in Seq(Cell) /\ rxbuf \in [1 .. Size -> Cell] /\ wire \in Seq(Seq(Cell))
      /\ Ordered(part, rxbuf, rxloc, wire, taken, sent)
  BY DEF Sound, RxTypes
<1>2. \A b \in From(part, 1) \cup From(rxbuf, rxloc + 1) : b \in Cell
  <2>1. DOMAIN part = 1 .. Len(part) /\ \A i \in 1 .. Len(part) : part[i] \in Cell
    BY <1>1, LenProperties
  <2>2. DOMAIN rxbuf = 1 .. Size /\ \A i \in 1 .. Size : rxbuf[i] \in Cell
    BY <1>1
  <2> QED BY <2>1, <2>2 DEF From
<1>3. \A s \in 1 .. Len(wire) : wire[s] \in Seq(Cell)
  BY <1>1
<1>4. ASSUME NEW s \in 1 .. Len(wire), NEW b \in From(wire[s], 1) PROVE b \in Cell
  <2>1. wire[s] \in Seq(Cell)
    BY <1>3
  <2> QED BY <2>1, LenProperties DEF From
<1> QED
  BY <1>1, <1>2, <1>3, <1>4 DEF Ordered, Known

\* Bytes of the packet that is sent come behind all others.
LEMMA NewBytes ==
    ASSUME Sound, NEW s \in Seq(Cell),
           \A i \in 1 .. Len(s) : s[i].of = sent + 1
    PROVE  /\ Known(From(s, 1), sent + 1) /\ Later(taken, From(s, 1))
           /\ Before(From(part, 1) \cup From(rxbuf, rxloc + 1), From(s, 1))
           /\ \A u \in 1 .. Len(wire) : Before(From(wire[u], 1), From(s, 1))
<1>1. \A b \in From(s, 1) : b.of = sent + 1
  <2>1. DOMAIN s = 1 .. Len(s)
    BY LenProperties
  <2> QED BY <2>1 DEF From
<1>2. sent \in Nat /\ taken \in Seq(Nat) /\ \A i \in DOMAIN taken : taken[i] <= sent /\ taken[i] \in Nat
  <2>1. taken \in Seq(Nat) /\ sent \in Nat
    BY DEF Sound, RxTypes
  <2>2. \A i \in DOMAIN taken : taken[i] \in Nat
    BY <2>1, LenProperties
  <2> QED BY <2>1, <2>2 DEF Sound, InOrder
<1>3. ASSUME NEW b \in Cell, NEW c, c.of = sent + 1, b.of <= sent PROVE Precedes(b, c)
  BY <1>2, <1>3, CellFacts DEF Precedes
<1>4. Known(From(s, 1), sent + 1)
  BY <1>1, <1>2 DEF Known
<1>5. Later(taken, From(s, 1))
  BY <1>1, <1>2 DEF Later
<1> QED
  BY <1>1, <1>3, <1>4, <1>5, OldCells DEF Before

\* A packet joins the wire, whole.
LEMMA SendSound ==
    ASSUME Sound, NEW kind \in Kinds, Send(kind), UNCHANGED orderly
    PROVE  Sound'
<1> DEFINE p == Packet(sent + 1, kind)
<1>1. /\ sent \in Nat /\ sent + 1 \in Nat /\ sent + 1 > 0 /\ sent <= sent + 1
      /\ wire \in Seq(Seq(Cell)) /\ \A s \in 1 .. Len(wire) : Len(wire[s]) <= Size
      /\ Ordered(part, rxbuf, rxloc, wire, taken, sent) /\ InOrder(taken, sent) /\ taken \in Seq(Nat)
  BY DEF Sound, RxTypes
<1>2. /\ p \in Seq(Cell) /\ Len(p) <= Size /\ Len(p) \in Nat
      /\ \A i \in 1 .. Len(p) : p[i].of = sent + 1 /\ p[i].pos = i - 1
  BY <1>1, PacketProperties, LenProperties
<1>3. /\ sent' = sent + 1 /\ Deliver(p)
      /\ UNCHANGED <<orderly, rxbuf, rxloc, at, part, taken, lost>>
  BY DEF Send
<1> HIDE DEF p
<1>4. Ascending(p, 1)
  <2>1. DOMAIN p = 1 .. Len(p)
    BY <1>2, LenProperties
  <2> QED BY <1>2, <2>1 DEF Ascending, Precedes
<1>5. /\ Known(From(p, 1), sent + 1) /\ Later(taken, From(p, 1))
      /\ Before(From(part, 1) \cup From(rxbuf, rxloc + 1), From(p, 1))
      /\ \A u \in 1 .. Len(wire) : Before(From(wire[u], 1), From(p, 1))
      /\ \A b \in From(part, 1) \cup From(rxbuf, rxloc + 1) : b \in Cell
  BY <1>2, NewBytes, OldCells
<1>6. /\ wire' \in Seq(Seq(Cell)) /\ \A s \in 1 .. Len(wire') : Len(wire'[s]) <= Size
      /\ Ordered(part, rxbuf, rxloc, wire', taken, sent + 1)
  <2>1. CASE wire' = Append(wire, p)
    <3>1. Ordered(part, rxbuf, rxloc, Append(wire, p), taken, sent + 1)
      BY <1>1, <1>2, <1>4, <1>5, AppendOrder
    <3>2. /\ wire' \in Seq(Seq(Cell)) /\ Len(wire') = Len(wire) + 1 /\ Len(wire) \in Nat
          /\ \A s \in 1 .. Len(wire) : wire'[s] = wire[s]
          /\ wire'[Len(wire) + 1] = p
      BY <1>1, <1>2, <2>1, AppendProperties, LenProperties
    <3>3. ASSUME NEW s \in 1 .. Len(wire') PROVE Len(wire'[s]) <= Size
      <4>1. s \in 1 .. Len(wire) \/ s = Len(wire) + 1
        BY <3>2
      <4> QED BY <1>1, <1>2, <3>2, <4>1
    <3> QED BY <2>1, <3>1, <3>2, <3>3
  <2>2. CASE /\ wire # <<>> /\ Len(Last(wire)) + Len(p) <= Size
             /\ wire' = [wire EXCEPT ![Len(wire)] = @ \o p]
    <3>1. Ordered(part, rxbuf, rxloc, [wire EXCEPT ![Len(wire)] = @ \o p], taken, sent + 1)
      BY <1>1, <1>2, <1>4, <1>5, <2>2, JoinOrder
    <3>2. Len(wire) \in 1 .. Len(wire) /\ Last(wire) = wire[Len(wire)] /\ Last(wire) \in Seq(Cell)
      <4>1. Len(wire) \in 1 .. Len(wire)
        BY <1>1, <2>2, LenProperties, EmptySeq
      <4> QED BY <1>1, <4>1 DEF Last
    <3>3. Last(wire) \o p \in Seq(Cell) /\ Len(Last(wire) \o p) = Len(Last(wire)) + Len(p)
      BY <1>2, <3>2, ConcatCells
    <3>4. wire' = [wire EXCEPT ![Len(wire)] = Last(wire) \o p]
      BY <2>2, <3>2
    <3>5. /\ wire' \in Seq(Seq(Cell)) /\ Len(wire') = Len(wire)
          /\ \A s \in 1 .. Len(wire) :
                wire'[s] = IF s = Len(wire) THEN Last(wire) \o p ELSE wire[s]
      BY <1>1, <3>2, <3>3, <3>4, ExceptSeq
    <3>6. ASSUME NEW s \in 1 .. Len(wire') PROVE Len(wire'[s]) <= Size
      BY <1>1, <2>2, <3>3, <3>5
    <3> QED BY <2>2, <3>1, <3>5, <3>6
  <2> QED BY <1>3, <2>1, <2>2 DEF Deliver
<1>7. RxTypes'
  <2>1. lost \subseteq 0 .. sent + 1
    BY <1>1 DEF Sound, RxTypes
  <2> QED BY <1>1, <1>3, <1>6, <2>1 DEF Sound, RxTypes
<1>8. InOrder(taken, sent + 1)
  <2>1. \A i \in DOMAIN taken : taken[i] \in Nat
    BY <1>1, LenProperties
  <2> QED BY <1>1, <2>1 DEF InOrder
<1> QED
  BY <1>3, <1>6, <1>7, <1>8 DEF Sound

\* A packet joins the wire in two segments, the second one later.
LEMMA SendSplitSound ==
    ASSUME Sound, NEW kind \in Kinds, NEW cut \in 1 .. kind.rest + 1, SendSplit(kind, cut),
           UNCHANGED orderly
    PROVE  Sound'
<1> DEFINE p == Packet(sent + 1, kind)
           a == SubSeq(p, 1, cut)
           b == SubSeq(p, cut + 1, Len(p))
<1>1. /\ sent \in Nat /\ sent + 1 \in Nat /\ sent + 1 > 0 /\ sent <= sent + 1
      /\ wire \in Seq(Seq(Cell)) /\ \A s \in 1 .. Len(wire) : Len(wire[s]) <= Size
      /\ Ordered(part, rxbuf, rxloc, wire, taken, sent) /\ InOrder(taken, sent) /\ taken \in Seq(Nat)
  BY DEF Sound, RxTypes
<1>2. /\ p \in Seq(Cell) /\ Len(p) <= Size /\ Len(p) \in Nat
      /\ kind.rest \in Nat /\ Len(p) = kind.rest + 2
      /\ \A i \in 1 .. Len(p) : p[i].of = sent + 1 /\ p[i].pos = i - 1
  BY <1>1, PacketProperties, LenProperties
<1>3. /\ sent' = sent + 1 /\ wire' = wire \o <<a, b>>
      /\ UNCHANGED <<orderly, rxbuf, rxloc, at, part, taken, lost>>
  BY DEF SendSplit
<1> HIDE DEF p
<1>4. cut \in Nat /\ cut < Len(p)
  BY <1>2
<1>5. a \in Seq(Cell) /\ Len(a) = cut /\ \A i \in 1 .. cut : a[i] = p[i]
  BY <1>2, <1>4
<1>6. b \in Seq(Cell) /\ Len(b) = Len(p) - cut /\ \A i \in 1 .. Len(p) - cut : b[i] = p[cut + i]
  BY <1>2, <1>4
<1> HIDE DEF a, b
<1>7. \A i \in 1 .. Len(a) : a[i].of = sent + 1 /\ a[i].pos = i - 1
  <2>1. ASSUME NEW i \in 1 .. cut PROVE a[i].of = sent + 1 /\ a[i].pos = i - 1
    <3>1. i \in 1 .. Len(p) /\ a[i] = p[i]
      BY <1>2, <1>4, <1>5
    <3> QED BY <1>2, <3>1
  <2> QED BY <1>5, <2>1
<1>8. ASSUME NEW i \in 1 .. Len(b) PROVE b[i].of = sent + 1 /\ b[i].pos = (cut + i) - 1
  <2>1. i \in 1 .. Len(p) - cut /\ cut + i \in 1 .. Len(p)
    BY <1>2, <1>4, <1>6
  <2> QED BY <1>2, <1>6, <2>1
<1>9. Ascending(a, 1) /\ Ascending(b, 1)
  <2>1. DOMAIN a = 1 .. Len(a) /\ DOMAIN b = 1 .. Len(b) /\ Len(a) \in Nat /\ Len(b) \in Nat
    BY <1>5, <1>6, LenProperties
  <2> QED BY <1>4, <1>7, <1>8, <2>1 DEF Ascending, Precedes
<1>10. Before(From(a, 1), From(b, 1))
  <2>1. DOMAIN a = 1 .. cut /\ DOMAIN b = 1 .. Len(b) /\ Len(b) \in Nat
    BY <1>5, <1>6, LenProperties
  <2>2. ASSUME NEW i \in DOMAIN a, NEW j \in DOMAIN b PROVE Precedes(a[i], b[j])
    <3>1. /\ a[i].of = sent + 1 /\ a[i].pos = i - 1 /\ b[j].of = sent + 1 /\ b[j].pos = (cut + j) - 1
      BY <1>5, <1>7, <1>8, <2>1
    <3>2. i - 1 < (cut + j) - 1
      BY <1>4, <2>1
    <3> QED BY <3>1, <3>2 DEF Precedes
  <2> QED BY <2>2, FromBefore
<1>11. /\ Known(From(a, 1), sent + 1) /\ Later(taken, From(a, 1))
       /\ Before(From(part, 1) \cup From(rxbuf, rxloc + 1), From(a, 1))
       /\ \A u \in 1 .. Len(wire) : Before(From(wire[u], 1), From(a, 1))
  BY <1>5, <1>7, NewBytes
<1>12. /\ Known(From(b, 1), sent + 1) /\ Later(taken, From(b, 1))
       /\ Before(From(part, 1) \cup From(rxbuf, rxloc + 1), From(b, 1))
       /\ \A u \in 1 .. Len(wire) : Before(From(wire[u], 1), From(b, 1))
  BY <1>6, <1>8, NewBytes
<1>13. \A c \in From(part, 1) \cup From(rxbuf, rxloc + 1) : c \in Cell
  BY OldCells
<1> DEFINE x == Append(wire, a)
           y == Append(x, b)
<1>14. Ordered(part, rxbuf, rxloc, x, taken, sent + 1)
  BY <1>1, <1>5, <1>9, <1>11, <1>13, AppendOrder
<1>15. /\ x \in Seq(Seq(Cell)) /\ Len(x) = Len(wire) + 1 /\ Len(wire) \in Nat
       /\ \A s \in 1 .. Len(wire) : x[s] = wire[s]
       /\ x[Len(wire) + 1] = a
  BY <1>1, <1>5, AppendProperties, LenProperties
<1>16. wire' = y
  BY <1>3
<1> HIDE DEF x
<1>17. \A u \in 1 .. Len(x) : Before(From(x[u], 1), From(b, 1)) /\ Len(x[u]) <= Size
  <2>1. ASSUME NEW u \in 1 .. Len(x) PROVE Before(From(x[u], 1), From(b, 1)) /\ Len(x[u]) <= Size
    <3>1. (u \in 1 .. Len(wire) /\ x[u] = wire[u]) \/ x[u] = a
      BY <1>15
    <3>2. Len(a) <= Size
      BY <1>2, <1>4, <1>5, SizeAssumption
    <3> QED BY <1>1, <1>10, <1>12, <3>1, <3>2
  <2> QED BY <2>1
<1>18. Ordered(part, rxbuf, rxloc, y, taken, sent + 1)
  <2>1. /\ x \in Seq(Seq(Cell)) /\ b \in Seq(Cell) /\ sent + 1 \in Nat /\ sent + 1 <= sent + 1
        /\ Ascending(b, 1) /\ \A u \in 1 .. Len(x) : Before(From(x[u], 1), From(b, 1))
    BY <1>1, <1>6, <1>9, <1>15, <1>17
  <2> QED BY <1>12, <1>13, <1>14, <2>1, AppendOrder
<1>19. wire' \in Seq(Seq(Cell)) /\ \A s \in 1 .. Len(wire') : Len(wire'[s]) <= Size
  <2>1. /\ y \in Seq(Seq(Cell)) /\ Len(y) = Len(x) + 1 /\ Len(x) \in Nat
        /\ \A s \in 1 .. Len(x) : y[s] = x[s]
        /\ y[Len(x) + 1] = b
    BY <1>6, <1>15, AppendProperties, LenProperties
  <2>2. Len(b) <= Size
    BY <1>2, <1>4, <1>6, SizeAssumption
  <2>3. ASSUME NEW s \in 1 .. Len(y) PROVE Len(y[s]) <= Size
    <3>1. (s \in 1 .. Len(x) /\ y[s] = x[s]) \/ y[s] = b
      BY <2>1
    <3> QED BY <1>17, <2>2, <3>1
  <2> QED BY <1>16, <2>1, <2>3
<1>20. RxTypes'
  <2>1. lost \subseteq 0 .. sent + 1
    BY <1>1 DEF Sound, RxTypes
  <2> QED BY <1>1, <1>3, <1>19, <2>1 DEF Sound, RxTypes
<1>21. InOrder(taken, sent + 1)
  <2>1. \A i \in DOMAIN taken : taken[i] \in Nat
    BY <1>1, LenProperties
  <2> QED BY <1>1, <2>1 DEF InOrder
<1> QED
  BY <1>3, <1>16, <1>18, <1>20, <1>21 DEF Sound

LEMMA ReconnectSound ==
    ASSUME Sound, Reconnect, UNCHANGED orderly
    PROVE  Sound'
<1>1. /\ wire' = <<>>
      /\ lost' = lost \cup {b.of : b \in UNION {ToSet(s) : s \in ToSet(wire)}}
      /\ UNCHANGED <<orderly, sent, rxbuf, rxloc, at, part, taken>>
  BY DEF Reconnect
<1>2. Ordered(part, rxbuf, rxloc, <<>>, taken, sent)
  BY DropOrder DEF Sound
<1>3. \A b \in UNION {ToSet(s) : s \in ToSet(wire)} : b.of \in 0 .. sent
  <2> SUFFICES ASSUME NEW s \in 1 .. Len(wire), NEW i \in 1 .. Len(wire[s])
               PROVE  wire[s][i].of \in 0 .. sent
    <3>1. wire \in Seq(Seq(Cell)) /\ \A u \in 1 .. Len(wire) : wire[u] \in Seq(Cell)
      BY OldCells DEF Sound, RxTypes
    <3>2. DOMAIN wire = 1 .. Len(wire) /\ \A u \in 1 .. Len(wire) : DOMAIN wire[u] = 1 .. Len(wire[u])
      BY <3>1, LenProperties
    <3> QED BY <3>2 DEF ToSet
  <2>1. sent \in Nat
    BY DEF Sound, RxTypes
  <2>2. wire[s] \in Seq(Cell)
    BY OldCells
  <2>3. wire[s][i] \in Cell /\ i \in DOMAIN wire[s] /\ i >= 1
    BY <2>2, LenProperties
  <2>4. CASE wire[s][i] = Zero
    BY <2>1, <2>4 DEF Zero, Byte
  <2>5. CASE wire[s][i] # Zero
    <3>1. wire[s][i] \in From(wire[s], 1)
      BY <2>3, <2>5, InFrom
    <3> QED BY <2>1, <2>3, <3>1, OldCells, CellFacts
  <2> QED BY <2>4, <2>5
<1>4. RxTypes'
  <2>1. <<>> \in Seq(Seq(Cell)) /\ Len(<<>>) = 0 /\ 1 .. 0 = {}
    OBVIOUS
  <2>2. lost' \subseteq 0 .. sent
    BY <1>1, <1>3 DEF Sound, RxTypes
  <2> QED BY <1>1, <2>1, <2>2 DEF Sound, RxTypes
<1> QED
  BY <1>1, <1>2, <1>4 DEF Sound

\* Zeros instead of data: the read fails.
LEMMA TimedOutSound ==
    ASSUME Sound, NEW m, TimedOut(m), UNCHANGED <<orderly, sent, lost>>
    PROVE  /\ rxbuf' \in [1 .. Size -> Cell] /\ rxloc' \in 0 .. Size /\ wire' = wire
           /\ Ordered(part, rxbuf', rxloc', wire', taken, sent)
<1>1. rxbuf' = [i \in 1 .. Size |-> Zero] /\ rxloc' = 0 /\ wire' = wire
  BY DEF TimedOut
<1>2. rxbuf' \in [1 .. Size -> Cell] /\ rxloc' \in 0 .. Size
  BY <1>1, ZeroIsCell, SizeAssumption
<1>3. Ordered(part, [i \in 1 .. Size |-> Zero], 0, wire, taken, sent)
  BY TimeoutOrder DEF Sound
<1> QED
  BY <1>1, <1>2, <1>3

\* The first byte of a packet.
LEMMA OneByte ==
    ASSUME RxTypes, Ordered(part, rxbuf, rxloc, wire, taken, sent), part = <<>>, ReadData(1)
    PROVE  part \o Bytes(1) = Bytes(1) /\ Bytes(1) \in Seq(Cell)
<1>1. /\ rxbuf' \in [1 .. Size -> Cell] /\ rxloc' \in 0 .. Size /\ 1 <= rxloc'
  <2>1. 1 \in 0 .. Size
    BY SizeAssumption
  <2> QED BY <2>1, ReadDataKeeps
<1>2. Bytes(1) \in Seq(Cell)
  <2>1. rxbuf' \in [1 .. Size -> Cell] /\ rxloc' \in Int /\ 1 <= rxloc' /\ rxloc' <= Size
    BY <1>1, SizeAssumption
  <2>2. (rxloc' - 1) + 1 \in Int /\ 1 <= (rxloc' - 1) + 1
    <3>1. \A l \in Int : 1 <= l => (l - 1) + 1 \in Int /\ 1 <= (l - 1) + 1
      OBVIOUS
    <3> QED BY <2>1, <3>1
  <2> QED BY <2>1, <2>2, BufferCells DEF Bytes
<1> HIDE DEF Bytes
<1> QED
  BY <1>2, ConcatEmptySeq

LEMMA ReadHeaderSound ==
    ASSUME Sound, ReadHeader, UNCHANGED orderly
    PROVE  Sound'
<1>1. /\ at = "header" /\ part = <<>> /\ ReadData(1) /\ part' = Bytes(1) /\ at' = "length"
      /\ UNCHANGED <<orderly, sent, taken, lost>> /\ 1 \in 0 .. Size
  BY SizeAssumption DEF ReadHeader, Sound, RxTypes
<1>2. /\ wire' \in Seq(Seq(Cell)) /\ \A s \in 1 .. Len(wire') : Len(wire'[s]) <= Size
      /\ rxbuf' \in [1 .. Size -> Cell] /\ rxloc' \in 0 .. Size /\ 1 <= rxloc'
      /\ part \o Bytes(1) \in Seq(Cell) /\ Len(part \o Bytes(1)) = Len(part) + 1
      /\ Ordered(part \o Bytes(1), rxbuf', rxloc', wire', taken, sent)
  BY <1>1, ReadDataKeeps DEF Sound
<1>3. part \o Bytes(1) = Bytes(1)
  BY <1>1, OneByte DEF Sound
<1>4. part' \in Seq(Cell) /\ Len(part') >= 1 /\ Ordered(part', rxbuf', rxloc', wire', taken, sent)
  <2>1. part' = part \o Bytes(1)
    BY <1>1, <1>3, Zenon
  <2>2. Len(part) = 0
    BY <1>1
  <2>3. Len(part \o Bytes(1)) = 1
    BY <1>2, <2>2
  <2>4. Len(part') >= 1
    BY <2>1, <2>3
  <2> QED BY <1>2, <2>1, <2>4, Zenon
<1>5. RxTypes'
  BY <1>1, <1>2, <1>4 DEF Sound, RxTypes
<1>6. Ordered(part', rxbuf', rxloc', wire', taken', sent') /\ InOrder(taken', sent')
  BY <1>1, <1>4 DEF Sound
<1> QED
  BY <1>5, <1>6 DEF Sound

LEMMA HeaderFailsSound ==
    ASSUME Sound, HeaderFails, UNCHANGED orderly
    PROVE  Sound'
<1>1. TimedOut(1) /\ UNCHANGED <<orderly, sent, at, part, taken, lost>>
  BY DEF HeaderFails
<1>2. /\ rxbuf' \in [1 .. Size -> Cell] /\ rxloc' \in 0 .. Size /\ wire' = wire
      /\ Ordered(part, rxbuf', rxloc', wire', taken, sent)
  BY <1>1, TimedOutSound
<1>3. RxTypes'
  BY <1>1, <1>2 DEF Sound, RxTypes
<1> QED
  BY <1>1, <1>2, <1>3 DEF Sound

\* The length that is decoded.
LEMMA RemainingIsNat ==
    ASSUME NEW p \in Seq(Cell)
    PROVE  /\ Remaining(p) \in Nat
           /\ Fits(Remaining(p)) => Remaining(p) \in 0 .. Size
<1>1. ASSUME NEW i \in 1 .. 4 PROVE Digit(p, i) \in 0 .. 127
  <2>1. CASE i < Len(p)
    <3>1. i + 1 \in 1 .. Len(p)
      BY <2>1, LenProperties
    <3>2. p[i + 1].val \in 0 .. 255
      BY <3>1, CellFacts
    <3>3. \A v \in 0 .. 255 : v % 128 \in 0 .. 127
      OBVIOUS
    <3> QED BY <2>1, <3>2, <3>3 DEF Digit
  <2>2. CASE ~(i < Len(p))
    BY <2>2 DEF Digit
  <2> QED BY <2>1, <2>2
<1>2. Digit(p, 1) \in Nat /\ Digit(p, 2) \in Nat /\ Digit(p, 3) \in Nat /\ Digit(p, 4) \in Nat
  <2>1. 1 \in 1 .. 4 /\ 2 \in 1 .. 4 /\ 3 \in 1 .. 4 /\ 4 \in 1 .. 4 /\ 0 .. 127 \subseteq Nat
    OBVIOUS
  <2> QED BY <1>1, <2>1, Zenon
<1>3. Remaining(p) \in Nat
  BY <1>2 DEF Remaining
<1>4. ASSUME NEW n \in Nat, Fits(n) PROVE n \in 0 .. Size
  <2>1. Encoded(n) \in Nat /\ 1 + Encoded(n) + n <= ReadBuf /\ ReadBuf \in Nat /\ ReadBuf <= Size
    BY <1>4, SizeAssumption, SMT DEF Fits, Encoded
  <2> QED BY <2>1, SizeAssumption
<1> QED
  BY <1>3, <1>4

\* The packet is handed over, or its body is to be read.
LEMMA DecodedSound ==
    ASSUME RxTypes, InOrder(taken, sent), NEW p \in Seq(Cell), Len(p) >= 1, Decoded(p),
           UNCHANGED <<orderly, sent, lost>>,
           wire' \in Seq(Seq(Cell)), \A s \in 1 .. Len(wire') : Len(wire'[s]) <= Size,
           rxbuf' \in [1 .. Size -> Cell], rxloc' \in 0 .. Size,
           Ordered(p, rxbuf', rxloc', wire', taken, sent)
    PROVE  Sound'
<1>1. taken \in Seq(Nat) /\ sent \in Nat
  BY DEF RxTypes
<1>2. rxloc' \in Nat /\ p # <<>>
  <2>1. rxloc' \in Nat
    BY SizeAssumption
  <2>2. Len(p) # 0
    BY LenProperties
  <2> QED BY <2>1, <2>2, HasLength
<1>3. CASE taken' = HandOver(p) /\ at' = "header" /\ part' = <<>>
  <2>1. /\ HandOver(p) \in Seq(Nat) /\ InOrder(HandOver(p), sent)
        /\ Ordered(<<>>, rxbuf', rxloc', wire', HandOver(p), sent)
    BY <1>1, <1>2, HandOverOrder
  <2>2. RxTypes'
    BY <1>3, <2>1 DEF RxTypes
  <2> QED BY <1>3, <2>1, <2>2 DEF Sound
<1>4. CASE at' = "body" /\ part' = p /\ taken' = taken
  <2>1. RxTypes'
    BY <1>4 DEF RxTypes
  <2> QED BY <1>4, <2>1 DEF Sound
<1> QED
  BY <1>3, <1>4 DEF Decoded

LEMMA ReadLengthSound ==
    ASSUME Sound, ReadLength, UNCHANGED orderly
    PROVE  Sound'
<1> DEFINE bytes == part \o Bytes(1)
<1>1. /\ at = "length" /\ Len(part) >= 1 /\ part \in Seq(Cell) /\ ReadData(1)
      /\ UNCHANGED <<orderly, sent, lost>> /\ 1 \in 0 .. Size
      /\ RxTypes /\ InOrder(taken, sent)
      /\ Decoded(bytes) \/ (at' = "length" /\ part' = bytes /\ taken' = taken)
  BY SizeAssumption DEF ReadLength, Sound, RxTypes
<1>2. /\ wire' \in Seq(Seq(Cell)) /\ \A s \in 1 .. Len(wire') : Len(wire'[s]) <= Size
      /\ rxbuf' \in [1 .. Size -> Cell] /\ rxloc' \in 0 .. Size
      /\ bytes \in Seq(Cell) /\ Len(bytes) = Len(part) + 1
      /\ Ordered(bytes, rxbuf', rxloc', wire', taken, sent)
  BY <1>1, ReadDataKeeps DEF Sound
<1> HIDE DEF bytes
<1>3. Len(bytes) >= 1
  BY <1>1, <1>2, LenProperties
<1>4. CASE Decoded(bytes)
  BY <1>1, <1>2, <1>3, <1>4, DecodedSound
<1>5. CASE at' = "length" /\ part' = bytes /\ taken' = taken
  <2>1. RxTypes'
    BY <1>1, <1>2, <1>3, <1>5 DEF RxTypes
  <2> QED BY <1>1, <1>2, <1>5, <2>1 DEF Sound
<1> QED
  BY <1>1, <1>4, <1>5

LEMMA LengthFailsSound ==
    ASSUME Sound, LengthFails, UNCHANGED orderly
    PROVE  Sound'
<1>1. /\ Len(part) >= 1 /\ TimedOut(1) /\ UNCHANGED <<orderly, sent, lost>> /\ Decoded(part)
      /\ part \in Seq(Cell) /\ RxTypes /\ InOrder(taken, sent)
      /\ wire \in Seq(Seq(Cell)) /\ \A s \in 1 .. Len(wire) : Len(wire[s]) <= Size
  BY DEF LengthFails, Sound, RxTypes
<1>2. /\ rxbuf' \in [1 .. Size -> Cell] /\ rxloc' \in 0 .. Size /\ wire' = wire
      /\ Ordered(part, rxbuf', rxloc', wire', taken, sent)
  BY <1>1, TimedOutSound
<1> QED
  BY <1>1, <1>2, DecodedSound

LEMMA ReadBodySound ==
    ASSUME Sound, ReadBody, UNCHANGED orderly
    PROVE  Sound'
<1> DEFINE n == Remaining(part)
           bytes == part \o Bytes(n)
<1>1. /\ at = "body" /\ Fits(n) /\ ReadData(n) /\ taken' = HandOver(bytes)
      /\ at' = "header" /\ part' = <<>>
      /\ UNCHANGED <<orderly, sent, lost>> /\ taken \in Seq(Nat) /\ sent \in Nat
      /\ part \in Seq(Cell) /\ Len(part) >= 1
      /\ InOrder(taken, sent) /\ RxTypes /\ Ordered(part, rxbuf, rxloc, wire, taken, sent)
  BY DEF ReadBody, Sound, RxTypes
<1>2. n \in 0 .. Size
  BY <1>1, RemainingIsNat
<1> HIDE DEF n
<1>3. /\ wire' \in Seq(Seq(Cell)) /\ \A s \in 1 .. Len(wire') : Len(wire'[s]) <= Size
      /\ rxbuf' \in [1 .. Size -> Cell] /\ rxloc' \in 0 .. Size
      /\ bytes \in Seq(Cell) /\ Len(bytes) = Len(part) + n
      /\ Ordered(bytes, rxbuf', rxloc', wire', taken, sent)
  BY <1>1, <1>2, ReadDataKeeps
<1> HIDE DEF bytes
<1>4. rxloc' \in Nat /\ bytes # <<>>
  <2>1. Len(bytes) # 0
    BY <1>1, <1>2, <1>3, SizeAssumption, LenProperties
  <2> QED BY <1>3, <2>1, SizeAssumption, HasLength
<1>5. /\ HandOver(bytes) \in Seq(Nat) /\ InOrder(HandOver(bytes), sent)
      /\ Ordered(<<>>, rxbuf', rxloc', wire', HandOver(bytes), sent)
  BY <1>1, <1>3, <1>4, HandOverOrder
<1>6. RxTypes'
  BY <1>1, <1>3, <1>5 DEF RxTypes
<1> QED
  BY <1>1, <1>5, <1>6 DEF Sound

LEMMA BodyFailsSound ==
    ASSUME Sound, BodyFails, UNCHANGED orderly
    PROVE  Sound'
<1>1. TimedOut(Remaining(part)) /\ at' = "header" /\ part' = <<>>
      /\ UNCHANGED <<orderly, sent, taken, lost>>
  BY DEF BodyFails
<1>2. /\ rxbuf' \in [1 .. Size -> Cell] /\ rxloc' \in 0 .. Size /\ wire' = wire
      /\ Ordered(part, rxbuf', rxloc', wire', taken, sent)
  BY <1>1, TimedOutSound
<1>3. Ordered(<<>>, rxbuf', rxloc', wire', taken, sent)
  BY <1>2, DropOrder
<1>4. RxTypes'
  BY <1>1, <1>2 DEF Sound, RxTypes
<1> QED
  BY <1>1, <1>3, <1>4 DEF Sound

LEMMA BodyLeavesSound ==
    ASSUME Sound, BodyLeaves, UNCHANGED orderly
    PROVE  Sound'
<1>1. /\ at = "body" /\ at' = "outside" /\ UNCHANGED <<sent, wire, rxbuf, rxloc, part, taken, lost>>
  BY DEF BodyLeaves
<1>2. Len(part) >= 1
  BY <1>1 DEF Sound, RxTypes
<1>3. RxTypes'
  BY <1>1, <1>2 DEF Sound, RxTypes
<1> QED
  BY <1>1, <1>3 DEF Sound

LEMMA StutterSound == Sound /\ UNCHANGED vars => Sound'
  BY DEF vars, Sound, RxTypes

LEMMA StepSound == Sound /\ [Next]_vars => Sound'
<1> SUFFICES ASSUME Sound, [Next]_vars PROVE Sound'
  OBVIOUS
<1>1. CASE Next
  <2>1. UNCHANGED orderly
    BY <1>1 DEF Next, Reader, ReaderFails
  <2> QED
    BY <1>1, <2>1, SendSound, SendSplitSound, ReconnectSound, ReadHeaderSound, ReadLengthSound,
       ReadBodySound, HeaderFailsSound, LengthFailsSound, BodyFailsSound,
       BodyLeavesSound
       DEF Next, Broker, Reader, ReaderFails
<1>2. CASE UNCHANGED vars
  BY <1>2, StutterSound
<1> QED
  BY <1>1, <1>2

-----------------------------------------------------------------------------
(* Orderly packets *)

\* A packet k of n bytes lies in s from place q on.
PacketAt(s, q, n, k) ==
    /\ n = s[q + 1].val + 2 /\ n % 2 = 0 /\ Short(n) /\ q + n - 1 <= Len(s)
    /\ \A j \in q .. q + n - 1 : s[j].of = k /\ s[j].pos = j - q

\* From a on, every byte of the broker is in a packet that is all there and
\* begins at an odd place.
Stream(s, a) ==
    \A p \in DOMAIN s : a <= p /\ s[p] # Zero =>
        \E q, n \in Nat :
            a <= q /\ q <= p /\ p < q + n /\ q % 2 = 1 /\ PacketAt(s, q, n, s[p].of)

\* A packet that is not lost was handed over or is still to be read.
Begins(n, S) == \E b \in S : b.of = n /\ b.pos = 0
Complete(base, buf, w, tk, n, ls) ==
    \A k \in 1 .. n :
        \/ k \in ls
        \/ \E i \in DOMAIN tk : tk[i] = k
        \/ Begins(k, From(buf, base + 1))
        \/ \E s \in 1 .. Len(w) : Begins(k, From(w[s], 1))

\* A lost one was not and is not.
Gone(base, buf, w, tk, ls) ==
    /\ \A i \in DOMAIN tk : tk[i] # Torn /\ tk[i] \notin ls
    /\ \A b \in From(buf, base + 1) : b.of \notin ls
    /\ \A s \in 1 .. Len(w) : \A b \in From(w[s], 1) : b.of \notin ls

Faithful(base, buf, w, tk, n, ls) ==
    /\ base \in Nat /\ base % 2 = 0
    /\ Stream(buf, base + 1)
    /\ \A s \in 1 .. Len(w) : Len(w[s]) % 2 = 0 /\ Stream(w[s], 1)
    /\ Complete(base, buf, w, tk, n, ls) /\ Gone(base, buf, w, tk, ls)

\* A segment in the buffer is as good a stream.
LEMMA StreamFilled ==
    ASSUME NEW s \in Seq(Cell), Len(s) <= Size, Stream(s, 1)
    PROVE  Stream(Filled(s), 1)
<1>1. /\ Filled(s) \in [1 .. Size -> Cell]
      /\ \A i \in DOMAIN s : i \in 1 .. Size /\ Filled(s)[i] = s[i]
      /\ \A i \in 1 .. Size : Filled(s)[i] # Zero => i \in DOMAIN s /\ Filled(s)[i] = s[i]
  BY FilledProperties
<1>2. Len(Filled(s)) = Size /\ DOMAIN Filled(s) = 1 .. Size /\ Size \in Nat
  BY <1>1, BufferCells
<1>3. Len(s) \in Nat /\ DOMAIN s = 1 .. Len(s) /\ \A i \in 1 .. Len(s) : s[i] \in Cell
  BY LenProperties
<1> SUFFICES ASSUME NEW p \in 1 .. Size, 1 <= p, Filled(s)[p] # Zero
             PROVE  \E q, n \in Nat : 1 <= q /\ q <= p /\ p < q + n /\ q % 2 = 1
                        /\ PacketAt(Filled(s), q, n, Filled(s)[p].of)
  BY <1>2 DEF Stream
<1>4. p \in DOMAIN s /\ Filled(s)[p] = s[p]
  BY <1>1
<1>5. PICK q \in Nat, n \in Nat : 1 <= q /\ q <= p /\ p < q + n /\ q % 2 = 1
                                    /\ PacketAt(s, q, n, s[p].of)
  BY <1>4 DEF Stream
<1>6. /\ n = s[q + 1].val + 2 /\ n % 2 = 0 /\ Short(n) /\ q + n - 1 <= Len(s)
      /\ \A j \in q .. q + n - 1 : s[j].of = s[p].of /\ s[j].pos = j - q
  BY <1>5 DEF PacketAt
<1>7. q \in 1 .. Len(s)
  BY <1>3, <1>4, <1>5
<1>8. n >= 2
  <2>1. CASE q + 1 \in 1 .. Len(s)
    <3>1. s[q + 1].val \in Nat
      BY <1>3, <2>1, CellFacts
    <3> QED BY <1>6, <3>1
  <2>2. CASE ~(q + 1 \in 1 .. Len(s))
    \* Then n is 1, which is odd.
    <3>1. Len(s) \in Nat /\ n \in Nat /\ p \in Nat /\ q \in Nat
      BY <1>3, <1>5, <1>7
    <3>2. n >= 1 /\ q + n - 1 <= Len(s) /\ q >= Len(s)
      BY <1>5, <1>6, <1>7, <2>2, <3>1
    <3>3. n = 1
      BY <3>1, <3>2
    <3> QED BY <1>6, <3>3
  <2> QED BY <2>1, <2>2
<1>9. \A j \in q .. q + n - 1 : j \in DOMAIN s /\ Filled(s)[j] = s[j]
  <2>1. ASSUME NEW j \in q .. q + n - 1 PROVE j \in DOMAIN s
    BY <1>3, <1>5, <1>6
  <2> QED BY <1>1, <2>1
<1>10. q + 1 \in q .. q + n - 1
  BY <1>8
<1>11. PacketAt(Filled(s), q, n, s[p].of)
  <2>1. n = Filled(s)[q + 1].val + 2
    BY <1>6, <1>9, <1>10
  <2>2. q + n - 1 <= Len(Filled(s))
    BY <1>2, <1>3, <1>6
  <2> QED BY <1>6, <1>9, <2>1, <2>2 DEF PacketAt
<1> QED
  BY <1>4, <1>5, <1>11

\* A buffer that is used up has nothing to be read.
LEMMA NothingLeft ==
    ASSUME NEW buf \in [1 .. Size -> Cell]
    PROVE  From(buf, Size + 1) = {}
<1>1. \A i \in DOMAIN buf : ~(i >= Size + 1)
  BY BufferCells
<1> QED
  BY <1>1 DEF From

\* With nothing left to be read, a segment comes in.
LEMMA ReceiveFaithful ==
    ASSUME NEW buf \in [1 .. Size -> Cell], NEW w \in Seq(Seq(Cell)), w # <<>>,
           \A s \in 1 .. Len(w) : Len(w[s]) <= Size,
           NEW tk, NEW n, NEW ls, Faithful(Size, buf, w, tk, n, ls)
    PROVE  Faithful(0, Filled(Head(w)), Tail(w), tk, n, ls)
<1> DEFINE f == Filled(Head(w))
           x == Tail(w)
<1>1. /\ Head(w) \in Seq(Cell) /\ Head(w) = w[1]
      /\ Len(w) \in Nat /\ Len(w) > 0 /\ Len(x) = Len(w) - 1
      /\ \A s \in 1 .. Len(x) : s + 1 \in 1 .. Len(w) /\ x[s] = w[s + 1]
  BY WireTail
<1>2. 1 \in 1 .. Len(w) /\ Len(Head(w)) <= Size /\ Stream(Head(w), 1)
  BY <1>1 DEF Faithful
<1>3. Stream(f, 1) /\ From(f, 1) = From(w[1], 1)
  BY <1>1, <1>2, StreamFilled, FilledProperties
<1>4. From(buf, Size + 1) = {}
  BY NothingLeft
<1> HIDE DEF f, x
<1>5. 0 + 1 = 1 /\ 0 \in Nat /\ 0 % 2 = 0
  OBVIOUS
<1>6. Complete(0, f, x, tk, n, ls)
  <2> SUFFICES ASSUME NEW k \in 1 .. n, k \notin ls, ~\E i \in DOMAIN tk : tk[i] = k
               PROVE  Begins(k, From(f, 1)) \/ \E s \in 1 .. Len(x) : Begins(k, From(x[s], 1))
    BY <1>5 DEF Complete
  <2>1. PICK s \in 1 .. Len(w) : Begins(k, From(w[s], 1))
    BY <1>4 DEF Faithful, Complete, Begins
  <2>2. CASE s = 1
    BY <1>3, <2>1, <2>2
  <2>3. CASE s # 1
    <3>1. s - 1 \in 1 .. Len(x) /\ (s - 1) + 1 = s
      BY <1>1, <2>3
    <3>2. x[s - 1] = w[s]
      BY <1>1, <3>1
    <3> QED BY <2>1, <3>1, <3>2
  <2> QED BY <2>2, <2>3
<1>7. Gone(0, f, x, tk, ls)
  <2>1. ASSUME NEW s \in 1 .. Len(x), NEW b \in From(x[s], 1) PROVE b.of \notin ls
    <3>1. s + 1 \in 1 .. Len(w) /\ b \in From(w[s + 1], 1)
      BY <1>1, <2>1
    <3> QED BY <3>1 DEF Faithful, Gone
  <2> QED BY <1>2, <1>3, <1>5, <2>1 DEF Faithful, Gone
<1>8. \A s \in 1 .. Len(x) : Len(x[s]) % 2 = 0 /\ Stream(x[s], 1)
  BY <1>1 DEF Faithful
<1>9. Faithful(0, f, x, tk, n, ls)
  BY <1>3, <1>5, <1>6, <1>7, <1>8 DEF Faithful
<1> QED
  BY <1>9 DEF f, x

\* With nothing left to be read, a receive times out.
LEMMA TimeoutFaithful ==
    ASSUME NEW buf \in [1 .. Size -> Cell], NEW w,
           NEW tk, NEW n, NEW ls, Faithful(Size, buf, w, tk, n, ls)
    PROVE  Faithful(0, [i \in 1 .. Size |-> Zero], w, tk, n, ls)
<1> DEFINE z == [i \in 1 .. Size |-> Zero]
<1>1. From(z, 1) = {} /\ Stream(z, 1)
  BY DEF From, Stream
<1>2. From(buf, Size + 1) = {}
  BY NothingLeft
<1>3. 0 + 1 = 1 /\ 0 % 2 = 0 /\ 0 \in Nat
  OBVIOUS
<1> HIDE DEF z
<1>4. Complete(0, z, w, tk, n, ls) /\ Gone(0, z, w, tk, ls)
  BY <1>1, <1>2, <1>3 DEF Faithful, Complete, Gone, Begins
<1>5. Faithful(0, z, w, tk, n, ls)
  BY <1>1, <1>3, <1>4 DEF Faithful
<1> QED
  BY <1>5 DEF z

\* What is read next: two zeros or a packet.
LEMMA NextPiece ==
    ASSUME NEW buf \in [1 .. Size -> Cell], NEW base \in Nat, base % 2 = 0, base + 2 <= Size,
           Stream(buf, base + 1)
    PROVE  \/ buf[base + 1] = Zero /\ buf[base + 2] = Zero
           \/ /\ PacketAt(buf, base + 1, buf[base + 2].val + 2, buf[base + 1].of)
              /\ buf[base + 1].of # 0
<1>1. /\ DOMAIN buf = 1 .. Size /\ Size \in Nat /\ base + 1 \in 1 .. Size /\ base + 2 \in 1 .. Size
      /\ buf[base + 1] \in Cell /\ buf[base + 2] \in Cell /\ (base + 1) + 1 = base + 2
      /\ (base + 2) % 2 = 0
  BY BufferCells, SizeAssumption
<1>2. CASE buf[base + 1] # Zero
  <2>1. PICK q \in Nat, n \in Nat : base + 1 <= q /\ q <= base + 1
                                       /\ PacketAt(buf, q, n, buf[base + 1].of)
    BY <1>1, <1>2 DEF Stream
  <2>2. q = base + 1
    BY <2>1
  <2>3. n = buf[base + 2].val + 2
    BY <1>1, <2>1, <2>2 DEF PacketAt
  <2> QED BY <1>1, <1>2, <2>1, <2>2, <2>3, CellFacts
<1>3. CASE buf[base + 2] # Zero
  <2>1. PICK q \in Nat, n \in Nat : base + 1 <= q /\ q <= base + 2 /\ base + 2 < q + n /\ q % 2 = 1
                                       /\ PacketAt(buf, q, n, buf[base + 2].of)
    <3>1. base + 1 <= base + 2
      OBVIOUS
    <3> QED BY <1>1, <1>3, <3>1 DEF Stream
  <2>2. q = base + 1
    <3>1. q # base + 2
      BY <1>1, <2>1
    <3> QED BY <2>1, <3>1
  <2>3. base + 1 \in q .. q + n - 1
    BY <2>1, <2>2
  <2>4. buf[base + 1].of = buf[base + 2].of /\ buf[base + 2].of # 0
    BY <1>1, <1>3, <2>1, <2>3, CellFacts DEF PacketAt
  <2>5. buf[base + 1] # Zero
    BY <2>4 DEF Zero, Byte
  <2> QED BY <1>2, <2>5
<1> QED
  BY <1>2, <1>3

\* Two zeros are read.
LEMMA PassZeros ==
    ASSUME NEW buf \in [1 .. Size -> Cell], NEW base \in Nat, base + 2 <= Size,
           buf[base + 1] = Zero, buf[base + 2] = Zero,
           NEW w, NEW tk, NEW n, NEW ls, Faithful(base, buf, w, tk, n, ls)
    PROVE  Faithful(base + 2, buf, w, tk, n, ls)
<1>1. DOMAIN buf = 1 .. Size /\ Size \in Nat /\ base % 2 = 0 /\ (base + 2) % 2 = 0 /\ base + 2 \in Nat
  BY BufferCells DEF Faithful
<1>2. \A i \in 1 .. Size : i >= base + 1 /\ buf[i] # Zero => i >= (base + 2) + 1
  <2>1. ASSUME NEW i \in 1 .. Size, i >= base + 1, ~(i >= (base + 2) + 1) PROVE buf[i] = Zero
    <3>1. i = base + 1 \/ i = base + 2
      BY <2>1
    <3> QED BY <3>1
  <2> QED BY <2>1
<1>3. From(buf, (base + 2) + 1) = From(buf, base + 1)
  <2>1. \A i \in 1 .. Size : i >= (base + 2) + 1 => i >= base + 1
    OBVIOUS
  <2> QED BY <1>1, <1>2, <2>1 DEF From
<1>4. Stream(buf, (base + 2) + 1)
  <2> SUFFICES ASSUME NEW p \in 1 .. Size, (base + 2) + 1 <= p, buf[p] # Zero
               PROVE  \E q, m \in Nat : (base + 2) + 1 <= q /\ q <= p /\ p < q + m /\ q % 2 = 1
                        /\ PacketAt(buf, q, m, buf[p].of)
    BY <1>1 DEF Stream
  <2>1. base + 1 <= p
    OBVIOUS
  <2>2. PICK q \in Nat, m \in Nat : base + 1 <= q /\ q <= p /\ p < q + m /\ q % 2 = 1
                        /\ PacketAt(buf, q, m, buf[p].of)
    BY <1>1, <2>1 DEF Faithful, Stream
  <2>3. q \in 1 .. Size /\ q \in q .. q + m - 1 /\ q >= base + 1
    BY <1>1, <2>2
  <2>4. buf[q].of = buf[p].of /\ buf[p].of # 0
    BY <2>2, <2>3, BufferCells, CellFacts DEF PacketAt
  <2>5. buf[q] # Zero
    BY <2>4 DEF Zero, Byte
  <2>6. (base + 2) + 1 <= q
    BY <1>2, <2>3, <2>5
  <2> QED BY <2>2, <2>6
<1>5. Complete(base + 2, buf, w, tk, n, ls) /\ Gone(base + 2, buf, w, tk, ls)
  BY <1>3 DEF Faithful, Complete, Gone
<1> QED
  BY <1>1, <1>4, <1>5 DEF Faithful

\* Where a packet ends, for one that begins at an odd place.
LEMMA EndOfPacket ==
    ASSUME NEW base \in Nat, NEW m \in Nat, NEW z \in Nat, base % 2 = 0, m % 2 = 0, m >= 2,
           (base + 1) + m - 1 <= z
    PROVE  /\ base + m <= z /\ (base + m) % 2 = 0 /\ base + m \in Nat /\ base + 2 <= base + m
           /\ \A j \in Nat : base + 1 <= j /\ j <= base + m => j \in base + 1 .. (base + 1) + m - 1
           /\ (base + 1) + m = (base + m) + 1
  OBVIOUS

\* A packet is read and handed over.
LEMMA PassPacket ==
    ASSUME NEW buf \in [1 .. Size -> Cell], NEW base \in Nat, NEW m \in Nat, NEW k \in Nat, k # 0,
           base + 2 <= Size, m = buf[base + 2].val + 2, PacketAt(buf, base + 1, m, k),
           NEW w, NEW tk \in Seq(Nat), NEW n, NEW ls, Faithful(base, buf, w, tk, n, ls)
    PROVE  base + m <= Size /\ Faithful(base + m, buf, w, Append(tk, k), n, ls)
<1>1. /\ DOMAIN buf = 1 .. Size /\ Size \in Nat /\ Len(buf) = Size /\ base % 2 = 0
      /\ \A i \in 1 .. Size : buf[i] \in Cell
  BY BufferCells DEF Faithful
<1>2. /\ m % 2 = 0 /\ (base + 1) + m - 1 <= Size
      /\ \A j \in base + 1 .. (base + 1) + m - 1 : buf[j].of = k /\ buf[j].pos = j - (base + 1)
  BY <1>1 DEF PacketAt
<1>3. m >= 2
  <2>1. base + 2 \in 1 .. Size
    BY <1>1
  <2>2. buf[base + 2].val \in Nat
    BY <1>1, <2>1, CellFacts
  <2> QED BY <2>2
<1> DEFINE e == base + m
<1>4. /\ e <= Size /\ e % 2 = 0 /\ e \in Nat /\ base + 2 <= e
      /\ \A j \in Nat : base + 1 <= j /\ j <= e => j \in base + 1 .. (base + 1) + m - 1
      /\ (base + 1) + m = e + 1
  BY <1>1, <1>2, <1>3, EndOfPacket
<1> HIDE DEF e
<1>5. \A j \in Nat : base + 1 <= j /\ j <= e => buf[j].of = k /\ buf[j].pos = j - (base + 1)
  BY <1>2, <1>4
<1> DEFINE t == Append(tk, k)
<1>6. /\ Len(tk) \in Nat /\ DOMAIN t = 1 .. Len(tk) + 1 /\ DOMAIN tk = 1 .. Len(tk)
      /\ \A i \in 1 .. Len(tk) : t[i] = tk[i]
      /\ t[Len(tk) + 1] = k
  BY AppendProperties, LenProperties
<1> HIDE DEF t
<1>7. Stream(buf, e + 1)
  <2> SUFFICES ASSUME NEW p \in 1 .. Size, e + 1 <= p, buf[p] # Zero
               PROVE  \E q, l \in Nat : e + 1 <= q /\ q <= p /\ p < q + l /\ q % 2 = 1
                        /\ PacketAt(buf, q, l, buf[p].of)
    BY <1>1 DEF Stream
  <2>1. base + 1 <= p
    BY <1>4
  <2>2. PICK q \in Nat, l \in Nat : base + 1 <= q /\ q <= p /\ p < q + l /\ q % 2 = 1
                        /\ PacketAt(buf, q, l, buf[p].of)
    BY <1>1, <2>1 DEF Faithful, Stream
  <2>3. e + 1 <= q
    <3> SUFFICES ASSUME q <= e PROVE FALSE
      BY <1>4, <2>2
    <3>1. q \in q .. q + l - 1
      BY <2>2
    <3>2. buf[q].pos = q - q
      BY <2>2, <3>1 DEF PacketAt
    <3>3. buf[q].pos = q - (base + 1)
      BY <1>5, <2>2
    <3>4. q = base + 1
      BY <3>2, <3>3
    <3>5. l = buf[(base + 1) + 1].val + 2
      BY <2>2, <3>4 DEF PacketAt
    <3>6. (base + 1) + 1 = base + 2
      OBVIOUS
    <3>7. l = m
      BY <3>5, <3>6
    <3>8. p < e + 1
      BY <1>4, <2>2, <3>4, <3>7
    <3> QED BY <1>4, <3>8
  <2> QED BY <2>2, <2>3
<1>8. /\ From(buf, e + 1) \subseteq From(buf, base + 1)
      /\ \A b \in From(buf, base + 1) : b.of = k \/ b \in From(buf, e + 1)
  <2>1. ASSUME NEW i \in DOMAIN buf, i >= e + 1, buf[i] # Zero
        PROVE  buf[i] \in From(buf, base + 1)
    <3>1. i >= base + 1
      BY <1>1, <1>4, <2>1
    <3> QED BY <2>1, <3>1, InFrom
  <2>2. ASSUME NEW i \in DOMAIN buf, i >= base + 1, buf[i] # Zero
        PROVE  buf[i].of = k \/ buf[i] \in From(buf, e + 1)
    <3>1. CASE i <= e
      BY <1>1, <1>5, <2>2, <3>1
    <3>2. CASE ~(i <= e)
      <4>1. i >= e + 1
        BY <1>1, <1>4, <3>2
      <4> QED BY <2>2, <4>1, InFrom
    <3> QED BY <3>1, <3>2
  <2>3. From(buf, e + 1) \subseteq From(buf, base + 1)
    BY <2>1, FromIn, Zenon
  <2>4. ASSUME NEW b \in From(buf, base + 1) PROVE b.of = k \/ b \in From(buf, e + 1)
    <3>1. PICK i \in DOMAIN buf : i >= base + 1 /\ buf[i] # Zero /\ b = buf[i]
      BY DEF From
    <3> QED BY <2>2, <3>1
  <2> QED BY <2>3, <2>4
<1>9. Complete(e, buf, w, t, n, ls)
  <2> SUFFICES ASSUME NEW i \in 1 .. n, i \notin ls, ~\E j \in DOMAIN t : t[j] = i
               PROVE  \/ Begins(i, From(buf, e + 1))
                      \/ \E s \in 1 .. Len(w) : Begins(i, From(w[s], 1))
    BY DEF Complete
  <2>1. i # k /\ ~\E j \in DOMAIN tk : tk[j] = i
    <3>1. Len(tk) + 1 \in DOMAIN t /\ \A j \in DOMAIN tk : j \in DOMAIN t /\ t[j] = tk[j]
      BY <1>6
    <3> QED BY <1>6, <3>1
  <2> QED BY <1>8, <2>1 DEF Faithful, Complete, Begins
<1>10. buf[base + 1] \in From(buf, base + 1)
  <2>1. base + 1 \in DOMAIN buf /\ base + 1 >= base + 1 /\ buf[base + 1].of = k
    BY <1>1, <1>3, <1>4, <1>5
  <2>2. buf[base + 1] # Zero
    BY <2>1 DEF Zero, Byte
  <2> QED BY <2>1, <2>2, InFrom
<1>11. k \notin ls /\ k # Torn
  <2>1. buf[base + 1].of = k
    BY <1>3, <1>4, <1>5
  <2> QED BY <1>10, <2>1 DEF Faithful, Gone, Torn
<1>12. Gone(e, buf, w, t, ls)
  <2>1. ASSUME NEW i \in DOMAIN t PROVE t[i] # Torn /\ t[i] \notin ls
    <3>1. (i \in DOMAIN tk /\ t[i] = tk[i]) \/ t[i] = k
      BY <1>6
    <3> QED BY <1>11, <3>1 DEF Faithful, Gone
  <2> QED BY <1>8, <2>1 DEF Faithful, Gone
<1>13. Faithful(e, buf, w, t, n, ls)
  BY <1>4, <1>7, <1>9, <1>12 DEF Faithful
<1> QED
  BY <1>4, <1>13 DEF t, e

\* A connection is lost with what is on its way.
LEMMA ReconnectFaithful ==
    ASSUME Sound, Faithful(rxloc, rxbuf, wire, taken, sent, lost), at = "header", Reconnect
    PROVE  Faithful(rxloc, rxbuf, wire', taken, sent, lost')
<1> DEFINE new == {b.of : b \in UNION {ToSet(s) : s \in ToSet(wire)}}
<1>1. wire' = <<>> /\ lost' = lost \cup new /\ part = <<>>
  BY DEF Reconnect, Sound, RxTypes
<1>2. /\ wire \in Seq(Seq(Cell)) /\ DOMAIN wire = 1 .. Len(wire)
      /\ \A s \in 1 .. Len(wire) : wire[s] \in Seq(Cell) /\ DOMAIN wire[s] = 1 .. Len(wire[s])
                                    /\ Len(wire[s]) \in Nat
  BY OldCells, LenProperties DEF Sound, RxTypes
<1>3. ASSUME NEW s \in 1 .. Len(wire), NEW b \in From(wire[s], 1) PROVE b.of \in new
  <2>1. wire[s] \in ToSet(wire) /\ b \in ToSet(wire[s])
    BY <1>2 DEF From, ToSet
  <2> QED BY <2>1
\* Every name that is lost now is 0 or that of a packet which begins on the wire.
<1>4. ASSUME NEW k \in new, k # 0
      PROVE  \E s \in 1 .. Len(wire) : Begins(k, From(wire[s], 1))
  <2>1. PICK s \in 1 .. Len(wire) : \E p \in 1 .. Len(wire[s]) : k = wire[s][p].of
    BY <1>2 DEF ToSet
  <2>0. PICK p \in 1 .. Len(wire[s]) : k = wire[s][p].of
    BY <2>1
  <2>2. wire[s][p] # Zero /\ p \in DOMAIN wire[s] /\ 1 <= p
    BY <1>2, <1>4, <2>0 DEF Zero, Byte
  <2>3. PICK q \in Nat, n \in Nat : 1 <= q /\ q <= p /\ p < q + n /\ PacketAt(wire[s], q, n, k)
    BY <2>0, <2>2 DEF Faithful, Stream
  <2>4. q \in DOMAIN wire[s] /\ q >= 1 /\ q \in q .. q + n - 1
    BY <1>2, <2>0, <2>3
  <2>5. wire[s][q].of = k /\ wire[s][q].pos = q - q /\ q - q = 0
    BY <2>3, <2>4 DEF PacketAt
  <2>6. wire[s][q] # Zero
    BY <1>4, <2>5 DEF Zero, Byte
  <2>7. wire[s][q] \in From(wire[s], 1)
    BY <2>4, <2>6, InFrom
  <2> QED BY <2>5, <2>7 DEF Begins
<1> HIDE DEF new
<1>5. 1 .. Len(<<>>) = {}
  OBVIOUS
<1>6. Complete(rxloc, rxbuf, <<>>, taken, sent, lost \cup new)
  <2> SUFFICES ASSUME NEW k \in 1 .. sent, k \notin lost, k \notin new, ~\E i \in DOMAIN taken : taken[i] = k
               PROVE  Begins(k, From(rxbuf, rxloc + 1))
    BY DEF Complete
  <2>1. ASSUME NEW s \in 1 .. Len(wire) PROVE ~Begins(k, From(wire[s], 1))
    BY <1>3 DEF Begins
  <2> QED BY <2>1 DEF Faithful, Complete
<1>7. Gone(rxloc, rxbuf, <<>>, taken, lost \cup new)
  <2>1. ASSUME NEW i \in DOMAIN taken PROVE taken[i] \notin new
    <3> SUFFICES ASSUME taken[i] \in new PROVE FALSE
      OBVIOUS
    <3>1. taken[i] # 0
      BY DEF Faithful, Gone, Torn
    <3>2. PICK s \in 1 .. Len(wire) : \E b \in From(wire[s], 1) : b.of = taken[i] /\ b.pos = 0
      BY <1>4, <3>1 DEF Begins
    <3>6. PICK b \in From(wire[s], 1) : b.of = taken[i] /\ b.pos = 0
      BY <3>2
    <3>3. Later(taken, From(wire[s], 1))
      BY DEF Sound, Ordered
    <3>4. taken[i] < b.of \/ b.pos > 0
      BY <3>3, <3>6 DEF Later
    <3>5. b \in Cell
      BY OldCells
    <3>7. taken[i] \in Nat
      BY LenProperties DEF Sound, RxTypes
    <3> QED BY <3>4, <3>5, <3>6, <3>7, CellFacts
  <2>2. ASSUME NEW c \in From(rxbuf, rxloc + 1) PROVE c.of \notin new
    <3> SUFFICES ASSUME c.of \in new PROVE FALSE
      OBVIOUS
    <3>1. c \in Cell /\ c # Zero
      BY OldCells DEF From
    <3>2. c.of # 0
      BY <3>1, CellFacts
    <3>3. PICK s \in 1 .. Len(wire) : \E b \in From(wire[s], 1) : b.of = c.of /\ b.pos = 0
      BY <1>4, <3>2 DEF Begins
    <3>6. PICK b \in From(wire[s], 1) : b.of = c.of /\ b.pos = 0
      BY <3>3
    <3>4. Precedes(c, b)
      BY <3>3 DEF Sound, Ordered, Before
    <3>5. b \in Cell
      BY OldCells
    <3> QED BY <3>1, <3>4, <3>5, <3>6, CellFacts DEF Precedes
  <2> QED BY <1>5, <2>1, <2>2 DEF Faithful, Gone
<1>8. Faithful(rxloc, rxbuf, <<>>, taken, sent, lost \cup new)
  BY <1>5, <1>6, <1>7 DEF Faithful
<1> QED
  BY <1>1, <1>8

\* A packet is a stream.
LEMMA StreamPacket ==
    ASSUME NEW p \in Seq(Cell), NEW k \in Nat, Len(p) >= 2, Len(p) % 2 = 0,
           \A i \in 1 .. Len(p) : p[i].of = k /\ p[i].pos = i - 1, p[2].val + 2 = Len(p),
           Short(Len(p))
    PROVE  Stream(p, 1)
<1>1. Len(p) \in Nat /\ DOMAIN p = 1 .. Len(p) /\ 1 \in Nat /\ 1 % 2 = 1
  BY LenProperties
<1>2. PacketAt(p, 1, Len(p), k)
  <2>1. 1 + 1 = 2 /\ 1 + Len(p) - 1 = Len(p)
    BY <1>1
  <2> QED BY <1>1, <2>1 DEF PacketAt
<1>3. \A i \in DOMAIN p : 1 <= i /\ i < 1 + Len(p) /\ p[i].of = k
  BY <1>1
<1> QED
  BY <1>1, <1>2, <1>3 DEF Stream

\* PacketAt says the same of two sequences that agree there.
LEMMA PacketMoves ==
    ASSUME NEW a \in Seq(Cell), NEW x \in Seq(Cell), NEW q \in Nat, NEW n \in Nat, NEW k,
           NEW d \in Nat, 1 <= q, n > 0, PacketAt(a, q, n, k),
           \A i \in 1 .. Len(a) : x[d + i] = a[i], d + Len(a) <= Len(x)
    PROVE  PacketAt(x, d + q, n, k)
<1>1. Len(a) \in Nat /\ Len(x) \in Nat
  BY LenProperties
<1>2. /\ n = a[q + 1].val + 2 /\ n % 2 = 0 /\ Short(n) /\ q + n - 1 <= Len(a)
      /\ \A j \in q .. q + n - 1 : a[j].of = k /\ a[j].pos = j - q
  BY DEF PacketAt
<1>3. n >= 2
  <2>1. n % 2 = 0
    BY <1>2
  <2> QED BY <2>1
<1>4. q + 1 \in 1 .. Len(a) /\ d + (q + 1) = (d + q) + 1
  <2>1. q + n - 1 <= Len(a)
    BY <1>2
  <2> QED BY <1>1, <1>3, <2>1
<1>5. x[(d + q) + 1] = a[q + 1]
  BY <1>4
<1>6. (d + q) + n - 1 <= Len(x)
  <2>1. q + n - 1 <= Len(a)
    BY <1>2
  <2> QED BY <1>1, <2>1
<1>7. ASSUME NEW j \in d + q .. (d + q) + n - 1 PROVE x[j].of = k /\ x[j].pos = j - (d + q)
  <2>1. q + n - 1 <= Len(a)
    BY <1>2
  <2>2. j - d \in q .. q + n - 1 /\ j - d \in 1 .. Len(a) /\ d + (j - d) = j
        /\ (j - d) - q = j - (d + q)
    BY <1>1, <2>1
  <2>3. x[j] = a[j - d]
    BY <2>2
  <2> QED BY <1>2, <2>2, <2>3
<1>8. n = x[(d + q) + 1].val + 2 /\ n % 2 = 0 /\ Short(n)
  BY <1>2, <1>5
<1> QED
  BY <1>6, <1>7, <1>8 DEF PacketAt

\* Two streams are one, if the first is even in length.
LEMMA ConcatStream ==
    ASSUME NEW a \in Seq(Cell), NEW s \in Seq(Cell), Stream(a, 1), Stream(s, 1), Len(a) % 2 = 0
    PROVE  Stream(a \o s, 1)
<1> DEFINE x == a \o s
<1>1. /\ x \in Seq(Cell) /\ Len(x) = Len(a) + Len(s) /\ DOMAIN x = 1 .. Len(a) + Len(s)
      /\ \A i \in 1 .. Len(a) : x[i] = a[i]
      /\ \A i \in 1 .. Len(s) : x[Len(a) + i] = s[i]
      /\ \A i \in 1 .. Len(a) + Len(s) :
            i \in 1 .. Len(a) \/ (i - Len(a) \in 1 .. Len(s) /\ x[i] = s[i - Len(a)])
  BY ConcatCells
<1>2. Len(a) \in Nat /\ Len(s) \in Nat /\ DOMAIN a = 1 .. Len(a) /\ DOMAIN s = 1 .. Len(s)
  BY LenProperties
<1> HIDE DEF x
<1> SUFFICES ASSUME NEW p \in DOMAIN x, 1 <= p, x[p] # Zero
             PROVE  \E q, n \in Nat : 1 <= q /\ q <= p /\ p < q + n /\ q % 2 = 1
                        /\ PacketAt(x, q, n, x[p].of)
  BY DEF Stream, x
<1>3. CASE p \in 1 .. Len(a)
  <2>1. x[p] = a[p] /\ p \in DOMAIN a
    BY <1>1, <1>2, <1>3
  <2>2. PICK q \in Nat, n \in Nat : 1 <= q /\ q <= p /\ p < q + n /\ q % 2 = 1
                        /\ PacketAt(a, q, n, a[p].of)
    BY <2>1 DEF Stream
  <2>3. n > 0 /\ 0 \in Nat /\ 0 + Len(a) <= Len(x) /\ 0 + q = q
    <3>1. n > 0
      <4>1. q <= p /\ p < q + n /\ p \in Nat
        BY <1>3, <2>2
      <4> QED BY <4>1
    <3>2. 0 + Len(a) <= Len(x)
      <4>1. \A c \in Nat, d \in Nat : 0 + c <= c + d
        OBVIOUS
      <4> QED BY <1>1, <1>2, <4>1
    <3> QED BY <3>1, <3>2
  <2>4. \A i \in 1 .. Len(a) : x[0 + i] = a[i]
    BY <1>1, <1>2
  <2>5. PacketAt(x, 0 + q, n, a[p].of)
    BY <1>1, <2>2, <2>3, <2>4, PacketMoves
  <2> QED BY <2>1, <2>2, <2>3, <2>5
<1>4. CASE ~(p \in 1 .. Len(a))
  <2> DEFINE o == p - Len(a)
  <2>1. o \in 1 .. Len(s) /\ o \in DOMAIN s /\ 1 <= o /\ x[p] = s[o] /\ p = Len(a) + o
    BY <1>1, <1>2, <1>4
  <2> HIDE DEF o
  <2>2. PICK q \in Nat, n \in Nat : 1 <= q /\ q <= o /\ o < q + n /\ q % 2 = 1
                        /\ PacketAt(s, q, n, s[o].of)
    BY <2>1 DEF Stream
  <2>3. n > 0 /\ Len(a) + Len(s) <= Len(x)
    BY <1>1, <1>2, <2>1, <2>2
  <2>4. PacketAt(x, Len(a) + q, n, s[o].of)
    BY <1>1, <1>2, <2>2, <2>3, PacketMoves
  <2>5. /\ Len(a) + q \in Nat /\ 1 <= Len(a) + q /\ Len(a) + q <= p /\ p < (Len(a) + q) + n
        /\ (Len(a) + q) % 2 = 1
    <3>1. \A c, g, h, m \in Nat :
            c % 2 = 0 /\ 1 <= g /\ g <= h /\ h < g + m /\ g % 2 = 1
                => /\ c + g \in Nat /\ 1 <= c + g /\ c + g <= c + h /\ c + h < (c + g) + m
                   /\ (c + g) % 2 = 1
      OBVIOUS
    <3>2. o \in Nat
      BY <1>2, <2>1
    <3> QED BY <1>2, <2>1, <2>2, <3>1, <3>2
  <2> QED BY <2>1, <2>4, <2>5
<1> QED
  BY <1>3, <1>4

\* A packet that is sent is still to be read.
LEMMA SendFaithful ==
    ASSUME Sound, orderly, NEW base, Faithful(base, rxbuf, wire, taken, sent, lost),
           NEW kind \in Kinds, Send(kind)
    PROVE  Faithful(base, rxbuf, wire', taken, sent', lost)
<1> DEFINE p == Packet(sent + 1, kind)
<1>1. /\ sent \in Nat /\ sent + 1 \in Nat /\ sent + 1 > 0 /\ lost \subseteq 0 .. sent
      /\ wire \in Seq(Seq(Cell))
  BY DEF Sound, RxTypes
<1>2. /\ p \in Seq(Cell) /\ Len(p) \in Nat /\ kind.rest \in Nat /\ Len(p) = kind.rest + 2
      /\ \A i \in 1 .. Len(p) : p[i].of = sent + 1 /\ p[i].pos = i - 1 /\ p[i] # Zero
      /\ p[2].val = kind.rest /\ Short(Len(p))
  BY <1>1, PacketProperties, LenProperties
<1>3. sent' = sent + 1 /\ Deliver(p) /\ kind.rest % 2 = 0
  BY DEF Send
<1> HIDE DEF p
<1>4. Len(p) >= 2 /\ Len(p) % 2 = 0
  <2>1. kind.rest \in Nat /\ kind.rest % 2 = 0
    BY <1>2, <1>3
  <2>2. \A r \in Nat : r % 2 = 0 => r + 2 >= 2 /\ (r + 2) % 2 = 0
    OBVIOUS
  <2> QED BY <1>2, <2>1, <2>2
<1>5. Stream(p, 1)
  BY <1>1, <1>2, <1>4, StreamPacket
<1>6. Begins(sent + 1, From(p, 1)) /\ \A b \in From(p, 1) : b.of = sent + 1
  <2>1. DOMAIN p = 1 .. Len(p) /\ 1 \in DOMAIN p /\ 1 >= 1 /\ 1 - 1 = 0
    BY <1>2, <1>4, LenProperties
  <2>2. p[1] \in From(p, 1)
    BY <1>2, <2>1, InFrom
  <2>3. p[1].of = sent + 1 /\ p[1].pos = 0
    BY <1>2, <2>1
  <2> QED BY <1>2, <2>1, <2>2, <2>3 DEF Begins, From
<1>7. /\ Len(wire') \in Nat
      /\ \A s \in 1 .. Len(wire') : Len(wire'[s]) % 2 = 0 /\ Stream(wire'[s], 1)
      /\ \A s \in 1 .. Len(wire') :
            From(wire'[s], 1) \subseteq From(p, 1)
                \/ (s \in 1 .. Len(wire) /\ From(wire'[s], 1) \subseteq From(wire[s], 1) \cup From(p, 1))
      /\ \A s \in 1 .. Len(wire) : s \in 1 .. Len(wire') /\ From(wire[s], 1) \subseteq From(wire'[s], 1)
      /\ \E s \in 1 .. Len(wire') : From(p, 1) \subseteq From(wire'[s], 1)
  <2>0. Len(wire) \in Nat /\ \A s \in 1 .. Len(wire) : Len(wire[s]) % 2 = 0 /\ Stream(wire[s], 1)
    BY <1>1, LenProperties DEF Faithful
  <2>1. CASE wire' = Append(wire, p)
    <3>1. /\ Len(wire') = Len(wire) + 1
          /\ \A s \in 1 .. Len(wire) : wire'[s] = wire[s]
          /\ wire'[Len(wire) + 1] = p
      BY <1>1, <1>2, <2>1, AppendProperties
    <3>2. /\ \A s \in 1 .. Len(wire') : (s \in 1 .. Len(wire) /\ wire'[s] = wire[s]) \/ wire'[s] = p
          /\ \A s \in 1 .. Len(wire) : s \in 1 .. Len(wire')
          /\ Len(wire) + 1 \in 1 .. Len(wire') /\ Len(wire') \in Nat
      BY <2>0, <3>1
    <3>3. \A s \in 1 .. Len(wire') : Len(wire'[s]) % 2 = 0 /\ Stream(wire'[s], 1)
      BY <1>4, <1>5, <2>0, <3>2
    <3> QED BY <3>1, <3>2, <3>3
  <2>2. CASE /\ wire # <<>>
             /\ wire' = [wire EXCEPT ![Len(wire)] = @ \o p]
    <3> DEFINE l == wire[Len(wire)]
    <3>1. Len(wire) \in 1 .. Len(wire) /\ l \in Seq(Cell)
      <4>1. Len(wire) \in 1 .. Len(wire)
        BY <1>1, <2>2, LenProperties, EmptySeq
      <4> QED BY <1>1, <4>1
    <3>2. wire' = [wire EXCEPT ![Len(wire)] = l \o p]
      BY <2>2
    <3>3. Len(l) % 2 = 0 /\ Stream(l, 1) /\ Len(l) \in Nat
      BY <2>0, <3>1, LenProperties
    <3> HIDE DEF l
    <3>4. /\ l \o p \in Seq(Cell) /\ Len(l \o p) = Len(l) + Len(p)
          /\ From(l \o p, 1) = From(l, 1) \cup From(p, 1)
          /\ Stream(l \o p, 1)
      BY <1>2, <1>5, <3>1, <3>3, ConcatCells, ConcatStream
    <3>5. Len(l \o p) % 2 = 0
      <4>1. \A c \in Nat, d \in Nat : c % 2 = 0 /\ d % 2 = 0 => (c + d) % 2 = 0
        OBVIOUS
      <4> QED BY <1>2, <1>4, <3>3, <3>4, <4>1
    <3>6. /\ Len(wire') = Len(wire)
          /\ \A s \in 1 .. Len(wire) : wire'[s] = IF s = Len(wire) THEN l \o p ELSE wire[s]
      BY <1>1, <3>1, <3>2, <3>4, ExceptSeq
    <3>7. l = wire[Len(wire)]
      BY DEF l
    <3>8. \A s \in 1 .. Len(wire') : Len(wire'[s]) % 2 = 0 /\ Stream(wire'[s], 1)
      BY <2>0, <3>4, <3>5, <3>6
    <3>9. \A s \in 1 .. Len(wire) :
            /\ From(wire'[s], 1) \subseteq From(wire[s], 1) \cup From(p, 1)
            /\ From(wire[s], 1) \subseteq From(wire'[s], 1)
      BY <3>4, <3>6, <3>7
    <3>10. From(p, 1) \subseteq From(wire'[Len(wire)], 1)
      BY <3>1, <3>4, <3>6
    <3> QED BY <2>0, <3>1, <3>6, <3>8, <3>9, <3>10
  <2> QED BY <1>3, <2>1, <2>2 DEF Deliver
<1>8. Complete(base, rxbuf, wire', taken, sent + 1, lost)
  <2> SUFFICES ASSUME NEW k \in 1 .. sent + 1, k \notin lost, ~\E i \in DOMAIN taken : taken[i] = k,
                      ~Begins(k, From(rxbuf, base + 1))
               PROVE  \E s \in 1 .. Len(wire') : Begins(k, From(wire'[s], 1))
    BY DEF Complete
  <2>1. CASE k = sent + 1
    BY <1>6, <1>7, <2>1 DEF Begins
  <2>2. CASE k # sent + 1
    <3>1. k \in 1 .. sent
      BY <1>1, <2>2
    <3>2. PICK s \in 1 .. Len(wire) : Begins(k, From(wire[s], 1))
      BY <3>1 DEF Faithful, Complete
    <3>3. s \in 1 .. Len(wire') /\ Begins(k, From(wire'[s], 1))
      BY <1>7, <3>2 DEF Begins
    <3> QED BY <3>3
  <2> QED BY <2>1, <2>2
<1>9. Gone(base, rxbuf, wire', taken, lost)
  <2>1. sent + 1 \notin lost
    BY <1>1
  <2>2. ASSUME NEW s \in 1 .. Len(wire'), NEW b \in From(wire'[s], 1) PROVE b.of \notin lost
    <3>1. b \in From(p, 1) \/ (s \in 1 .. Len(wire) /\ b \in From(wire[s], 1))
      BY <1>7
    <3> QED BY <1>6, <2>1, <3>1 DEF Faithful, Gone
  <2> QED BY <2>2 DEF Faithful, Gone
<1> QED
  BY <1>3, <1>7, <1>8, <1>9 DEF Faithful

\* The packet being read begins at base, behind which its bytes were read.
AlignedAt(base) ==
    /\ Faithful(base, rxbuf, wire, taken, sent, lost)
    /\ base \in Nat /\ rxloc = base + Len(part)
    /\ \A i \in 1 .. Len(part) : part[i] = rxbuf[base + i]
    /\ at # "outside" /\ (at = "length" => Len(part) = 1)
    /\ at = "body" => Len(part) = 2 /\ part[2].val # 0

Aligned == orderly => \E base \in Nat : AlignedAt(base)

\* Before the first receive, there are zeros to be read.
LEMMA InitAligned == Init => Aligned
<1> SUFFICES ASSUME Init PROVE AlignedAt(0)
  BY DEF Aligned
<1>1. /\ rxloc = 0 /\ Len(part) = 0 /\ at = "header" /\ sent = 0 /\ taken = <<>> /\ lost = {}
      /\ wire = <<>> /\ Len(wire) = 0 /\ 1 .. 0 = {} /\ 0 % 2 = 0 /\ DOMAIN taken = {}
  BY DEF Init
<1>2. From(rxbuf, 0 + 1) = {} /\ Stream(rxbuf, 0 + 1)
  BY DEF Init, From, Stream
<1>3. Complete(0, rxbuf, wire, taken, sent, lost) /\ Gone(0, rxbuf, wire, taken, lost)
  BY <1>1, <1>2 DEF Complete, Gone
<1>4. Faithful(0, rxbuf, wire, taken, sent, lost)
  BY <1>1, <1>2, <1>3 DEF Faithful
<1> QED
  BY <1>1, <1>4 DEF AlignedAt

\* Padding is not handed over.
LEMMA Padding ==
    ASSUME NEW bytes \in Seq(Cell), \A i \in 1 .. Len(bytes) : bytes[i] = Zero
    PROVE  HandOver(bytes) = taken
  BY LenProperties DEF HandOver

\* A packet is.
LEMMA Whole ==
    ASSUME NEW bytes \in Seq(Cell), Len(bytes) >= 2, NEW k \in Nat, k # 0,
           Len(bytes) = bytes[2].val + 2,
           \A i \in 1 .. Len(bytes) : bytes[i].of = k /\ bytes[i].pos = i - 1
    PROVE  HandOver(bytes) = Append(taken, k)
<1>1. Len(bytes) \in Nat /\ DOMAIN bytes = 1 .. Len(bytes) /\ 1 \in 1 .. Len(bytes)
  BY LenProperties
<1>2. bytes[1].of = k
  BY <1>1
<1>3. bytes[1] # Zero
  BY <1>2 DEF Zero, Byte
<1>4. IsWhole(bytes)
  BY <1>1, <1>2 DEF IsWhole
<1> QED
  BY <1>1, <1>2, <1>3, <1>4 DEF HandOver

\* A read that finds enough in the buffer.
LEMMA ReadOn ==
    ASSUME Sound, NEW base \in Nat, AlignedAt(base), NEW m \in 0 .. Size, ReadData(m), Enough(m)
    PROVE  LET bytes == part \o Bytes(m) IN
            /\ rxbuf' = rxbuf /\ wire' = wire /\ rxloc' = base + (Len(part) + m)
            /\ bytes \in Seq(Cell) /\ Len(bytes) = Len(part) + m
            /\ \A i \in 1 .. Len(part) + m : bytes[i] = rxbuf[base + i]
<1> DEFINE bytes == part \o Bytes(m)
<1>1. /\ rxbuf' = rxbuf /\ wire' = wire /\ rxloc' = rxloc + m
  BY DEF ReadData, Buffered, Received
<1>2. /\ bytes \in Seq(Cell) /\ Len(bytes) = Len(part) + m
      /\ \A i \in 1 .. Len(part) : bytes[i] = part[i]
      /\ \A i \in 1 .. m : bytes[Len(part) + i] = rxbuf'[(rxloc' - m) + i]
  BY ReadDataKeeps DEF Sound
<1> HIDE DEF bytes
<1>3. Len(part) \in Nat /\ m \in Nat /\ rxloc = base + Len(part)
  BY SizeAssumption, LenProperties DEF Sound, RxTypes, AlignedAt
<1>4. rxloc' - m = base + Len(part) /\ rxloc' = base + (Len(part) + m)
  BY <1>1, <1>3
<1>5. ASSUME NEW i \in 1 .. Len(part) + m PROVE bytes[i] = rxbuf[base + i]
  <2>1. CASE i \in 1 .. Len(part)
    BY <1>2, <2>1 DEF AlignedAt
  <2>2. CASE ~(i \in 1 .. Len(part))
    <3> DEFINE o == i - Len(part)
    <3>1. o \in 1 .. m /\ i = Len(part) + o /\ (base + Len(part)) + o = base + i
      BY <1>3, <2>2
    <3> HIDE DEF o
    <3>2. bytes[Len(part) + o] = rxbuf[(base + Len(part)) + o]
      BY <1>1, <1>2, <1>4, <3>1
    <3> QED BY <3>1, <3>2
  <2> QED BY <2>1, <2>2
<1>6. /\ rxbuf' = rxbuf /\ wire' = wire /\ rxloc' = base + (Len(part) + m)
      /\ bytes \in Seq(Cell) /\ Len(bytes) = Len(part) + m
      /\ \A i \in 1 .. Len(part) + m : bytes[i] = rxbuf[base + i]
  BY <1>1, <1>2, <1>4, <1>5
<1> QED
  BY <1>6 DEF bytes

\* The steps of the broker and the network move nothing in the buffer.
LEMMA SendAligned ==
    ASSUME Sound, orderly, NEW base \in Nat, AlignedAt(base), NEW kind \in Kinds, Send(kind)
    PROVE  AlignedAt(base)' /\ rxbuf' = rxbuf
<1>1. UNCHANGED <<rxbuf, rxloc, at, part, taken, lost>>
  BY DEF Send
<1>2. Faithful(base, rxbuf, wire', taken, sent', lost)
  BY SendFaithful DEF AlignedAt
<1> QED
  BY <1>1, <1>2 DEF AlignedAt

LEMMA ReconnectAligned ==
    ASSUME Sound, NEW base \in Nat, AlignedAt(base), Reconnect
    PROVE  AlignedAt(base)' /\ rxbuf' = rxbuf
<1>1. /\ at = "header" /\ Len(part) = 0 /\ UNCHANGED <<sent, rxbuf, rxloc, at, part, taken>>
  BY DEF Reconnect, Sound, RxTypes
<1>2. rxloc = base
  BY <1>1 DEF AlignedAt
<1>3. Faithful(base, rxbuf, wire', taken, sent, lost')
  BY <1>1, <1>2, ReconnectFaithful DEF AlignedAt
<1> QED
  BY <1>1, <1>3 DEF AlignedAt

\* A read of one byte finds the buffer used up only before a packet.
LEMMA UsedUp ==
    ASSUME Sound, NEW base \in Nat, AlignedAt(base), ~Enough(1)
    PROVE  at = "header" => rxloc = Size /\ base = Size
<1>1. rxloc \in Nat /\ rxloc <= Size /\ Size \in Nat
  BY SizeAssumption DEF Sound, RxTypes
<1>2. rxloc = Size
  BY <1>1 DEF Enough
<1>3. at = "header" => Len(part) = 0
  BY DEF Sound, RxTypes
<1> QED
  BY <1>2, <1>3 DEF AlignedAt

\* With a header read there is a length to be read: both ends are even.
LEMMA HasByte ==
    ASSUME Sound, NEW base \in Nat, AlignedAt(base), at = "length"
    PROVE  Enough(1) /\ base + 2 <= Size /\ Len(part) = 1
<1>1. Len(part) = 1 /\ rxloc = base + 1 /\ base % 2 = 0
  BY DEF Sound, RxTypes, AlignedAt, Faithful
<1>2. rxloc \in Nat /\ rxloc <= Size /\ Size \in Nat /\ Size % 2 = 0
  BY SizeAssumption DEF Sound, RxTypes
<1>3. \A b \in Nat, z \in Nat :
        b % 2 = 0 /\ z % 2 = 0 /\ b + 1 <= z => b + 2 <= z /\ z - (b + 1) >= 1
  OBVIOUS
<1> QED
  BY <1>1, <1>2, <1>3 DEF Enough

\* A header is read from the buffer, or from the next segment if nothing is left.
LEMMA ReadHeaderAligned ==
    ASSUME Sound, NEW base \in Nat, AlignedAt(base), ReadHeader
    PROVE  (\E b \in Nat : AlignedAt(b)') /\ (rxbuf' # rxbuf => rxloc = Size)
<1>1. /\ at = "header" /\ part = <<>> /\ Len(part) = 0 /\ ReadData(1) /\ part' = Bytes(1)
      /\ at' = "length" /\ UNCHANGED <<sent, taken, lost>> /\ 1 \in 0 .. Size
      /\ RxTypes /\ Ordered(part, rxbuf, rxloc, wire, taken, sent)
  BY SizeAssumption DEF ReadHeader, Sound, RxTypes
<1>2. /\ part' \in Seq(Cell) /\ part' = part \o Bytes(1)
  BY <1>1, OneByte
<1>3. Len(part') = 1 /\ part'[1] = rxbuf'[(rxloc' - 1) + 1]
  <2>1. /\ Len(part \o Bytes(1)) = Len(part) + 1
        /\ \A i \in 1 .. 1 : (part \o Bytes(1))[Len(part) + i] = rxbuf'[(rxloc' - 1) + i]
    BY <1>1, ReadDataKeeps
  <2>2. 1 \in 1 .. 1 /\ 0 + 1 = 1
    OBVIOUS
  <2>3. (part \o Bytes(1))[Len(part) + 1] = rxbuf'[(rxloc' - 1) + 1]
    BY <2>1, <2>2
  <2> QED BY <1>1, <1>2, <2>1, <2>2, <2>3
<1>4. CASE Buffered(1)
  <2>1. rxloc' = base + 1 /\ rxbuf' = rxbuf /\ wire' = wire /\ (rxloc' - 1) + 1 = base + 1
    BY <1>1, <1>4 DEF Buffered, AlignedAt
  <2>2. \A i \in 1 .. Len(part') : part'[i] = rxbuf'[base + i]
    BY <1>3, <2>1
  <2>3. AlignedAt(base)'
    BY <1>1, <1>3, <2>1, <2>2 DEF AlignedAt
  <2> QED BY <2>1, <2>3
<1>5. CASE Received(1)
  <2>1. /\ ~Enough(1) /\ wire # <<>> /\ rxbuf' = Filled(Head(wire)) /\ wire' = Tail(wire)
        /\ rxloc' = 1
    BY <1>5 DEF Received, Filled
  <2>2. rxloc = Size /\ base = Size
    BY <1>1, <2>1, UsedUp
  <2>3. Faithful(0, Filled(Head(wire)), Tail(wire), taken, sent, lost)
    BY <1>1, <2>1, <2>2, ReceiveFaithful DEF AlignedAt, RxTypes
  <2>4. 0 + 1 = 1 /\ (1 - 1) + 1 = 1
    OBVIOUS
  <2>5. \A i \in 1 .. Len(part') : part'[i] = rxbuf'[0 + i]
    BY <1>3, <2>1, <2>4
  <2>6. AlignedAt(0)'
    BY <1>1, <1>3, <2>1, <2>3, <2>4, <2>5 DEF AlignedAt
  <2> QED BY <2>2, <2>6
<1> QED
  BY <1>1, <1>4, <1>5 DEF ReadData

\* A read can time out before a packet only, with nothing left.
LEMMA HeaderFailsAligned ==
    ASSUME Sound, NEW base \in Nat, AlignedAt(base), HeaderFails
    PROVE  AlignedAt(0)' /\ rxloc = Size
<1>1. /\ at = "header" /\ Len(part) = 0 /\ TimedOut(1) /\ UNCHANGED <<sent, at, part, taken, lost>>
      /\ RxTypes
  BY DEF HeaderFails, Sound, RxTypes
<1>2. ~Enough(1) /\ rxbuf' = [i \in 1 .. Size |-> Zero] /\ rxloc' = 0 /\ wire' = wire
  BY <1>1 DEF TimedOut
<1>3. rxloc = Size /\ base = Size
  BY <1>1, <1>2, UsedUp
<1>4. Faithful(0, rxbuf', wire', taken, sent, lost)
  BY <1>1, <1>2, <1>3, TimeoutFaithful DEF AlignedAt, RxTypes
<1>5. 0 + 0 = 0 /\ 1 .. 0 = {} /\ 0 \in Nat
  OBVIOUS
<1> QED
  BY <1>1, <1>2, <1>3, <1>4, <1>5 DEF AlignedAt

\* Arithmetic of a byte below 128.
LEMMA SmallByte ==
    \A v \in 0 .. 255 : v < 128 =>
        v \in Nat /\ v \in 0 .. 127 /\ ~(v >= 128) /\ v % 128 = v
            /\ v + 128 * (0 + 128 * (0 + 128 * 0)) = v
  OBVIOUS

LEMMA TwoBytes ==
    ASSUME NEW n, n = 2
    PROVE  1 < n /\ ~(2 < n) /\ ~(3 < n) /\ ~(4 < n) /\ 1 + 1 = 2
  OBVIOUS

\* It is one byte.
LEMMA OneLengthByte ==
    ASSUME NEW p \in Seq(Cell), Len(p) = 2, p[2].val < 128
    PROVE  /\ ~GoesOn(p) /\ Last(p) = p[2] /\ Remaining(p) = p[2].val /\ p[2].val \in 0 .. 127
<1>1. p[2] \in Cell /\ Last(p) = p[2]
  <2>1. 2 \in 1 .. Len(p) /\ Last(p) = p[Len(p)]
    BY DEF Last
  <2> QED BY <2>1
<1>2. PICK v \in 0 .. 255 : v = p[2].val
  BY <1>1, CellFacts, Zenon
<1>3. v \in Nat /\ v \in 0 .. 127 /\ ~(v >= 128) /\ v % 128 = v
        /\ v + 128 * (0 + 128 * (0 + 128 * 0)) = v
  <2>1. v < 128
    BY <1>2, Zenon
  <2> QED BY <2>1, SmallByte, Zenon
<1>4. ~GoesOn(p)
  BY <1>1, <1>2, <1>3, Zenon DEF GoesOn
<1>5. Digit(p, 1) = v /\ Digit(p, 2) = 0 /\ Digit(p, 3) = 0 /\ Digit(p, 4) = 0
  <2>1. 1 < Len(p) /\ ~(2 < Len(p)) /\ ~(3 < Len(p)) /\ ~(4 < Len(p)) /\ 1 + 1 = 2
    BY TwoBytes, Zenon
  <2>2. Digit(p, 1) = p[2].val % 128
    BY <2>1, Zenon DEF Digit
  <2>3. Digit(p, 2) = 0 /\ Digit(p, 3) = 0 /\ Digit(p, 4) = 0
    BY <2>1, Zenon DEF Digit
  <2> QED BY <1>2, <1>3, <2>2, <2>3, Zenon
<1>6. Remaining(p) = v + 128 * (0 + 128 * (0 + 128 * 0))
  BY <1>5, Zenon DEF Remaining
<1> QED
  BY <1>1, <1>2, <1>3, <1>4, <1>6, Zenon

LEMMA LengthOfPiece ==
    ASSUME NEW buf \in [1 .. Size -> Cell], NEW base \in Nat, base % 2 = 0, base + 2 <= Size,
           Stream(buf, base + 1)
    PROVE  buf[base + 2].val < 128
<1>1. base + 2 \in 1 .. Size
  BY SizeAssumption
<1>2. buf[base + 2].val \in 0 .. 255
  BY <1>1, CellFacts
<1>3. CASE buf[base + 2] = Zero
  BY <1>3 DEF Zero, Byte
<1>4. CASE PacketAt(buf, base + 1, buf[base + 2].val + 2, buf[base + 1].of)
  <2>1. Short(buf[base + 2].val + 2)
    BY <1>4 DEF PacketAt
  <2>2. \A v \in 0 .. 255 : v + 2 < 130 => v < 128
    OBVIOUS
  <2>3. buf[base + 2].val + 2 < 130
    BY <2>1, Zenon DEF Short
  <2> QED BY <1>2, <2>2, <2>3, Zenon
<1> QED
  BY <1>3, <1>4, NextPiece

\* The length ends padding or a packet without a body, or is that of a body.
LEMMA ReadLengthAligned ==
    ASSUME Sound, NEW base \in Nat, AlignedAt(base), ReadLength
    PROVE  (\E b \in Nat : AlignedAt(b)') /\ rxbuf' = rxbuf
<1> DEFINE bytes == part \o Bytes(1)
<1>1. /\ at = "length" /\ ReadData(1) /\ 1 \in 0 .. Size /\ UNCHANGED <<sent, lost>>
      /\ ~GoesOn(bytes) => Decoded(bytes)
      /\ rxbuf \in [1 .. Size -> Cell] /\ taken \in Seq(Nat)
      /\ Faithful(base, rxbuf, wire, taken, sent, lost)
  BY SizeAssumption DEF ReadLength, Sound, RxTypes, AlignedAt
<1>2. Enough(1) /\ base + 2 <= Size /\ Len(part) = 1
  BY <1>1, HasByte
<1>3. /\ rxbuf' = rxbuf /\ wire' = wire /\ rxloc' = base + (1 + 1)
      /\ bytes \in Seq(Cell) /\ Len(bytes) = 1 + 1
      /\ \A i \in 1 .. 1 + 1 : bytes[i] = rxbuf[base + i]
  BY <1>1, <1>2, ReadOn
<1> HIDE DEF bytes
<1>4. /\ rxloc' = base + 2 /\ Len(bytes) = 2 /\ bytes[1] = rxbuf[base + 1] /\ bytes[2] = rxbuf[base + 2]
      /\ \A i \in 1 .. 2 : bytes[i] = rxbuf[base + i]
  BY <1>3
<1>5. Last(bytes) = rxbuf[base + 2] /\ Decoded(bytes) /\ Remaining(bytes) = Last(bytes).val
  <2>1. rxbuf[base + 2].val < 128
    BY <1>1, <1>2, LengthOfPiece DEF Faithful
  <2>2. /\ ~GoesOn(bytes) /\ Last(bytes) = bytes[2] /\ Remaining(bytes) = bytes[2].val
    BY <1>3, <1>4, <2>1, OneLengthByte
  <2> QED BY <1>1, <1>4, <2>2
<1>6. CASE Last(bytes).val # 0
  <2>1. part' = bytes /\ at' = "body" /\ taken' = taken
    BY <1>5, <1>6 DEF Decoded
  <2>2. part'[2].val # 0 /\ Len(part') = 2
    BY <1>4, <1>5, <1>6, <2>1
  <2>3. AlignedAt(base)'
    BY <1>1, <1>3, <1>4, <2>1, <2>2 DEF AlignedAt
  <2> QED BY <1>3, <2>3
<1>7. CASE Last(bytes).val = 0
  <2>1. taken' = HandOver(bytes) /\ at' = "header" /\ part' = <<>> /\ Len(part') = 0
    BY <1>5, <1>7 DEF Decoded
  <2>2. rxbuf[base + 2].val = 0 /\ base + 2 \in Nat /\ 1 .. 0 = {} /\ (base + 2) + 0 = base + 2
    BY <1>5, <1>7
  <2>3. Faithful(base + 2, rxbuf, wire, taken', sent, lost)
    <3>1. CASE rxbuf[base + 1] = Zero /\ rxbuf[base + 2] = Zero
      <4>1. \A i \in 1 .. Len(bytes) : bytes[i] = Zero
        BY <1>4, <3>1
      <4>2. taken' = taken
        BY <1>3, <2>1, <4>1, Padding
      <4> QED BY <1>1, <1>2, <3>1, <4>2, PassZeros
    <3>2. CASE PacketAt(rxbuf, base + 1, rxbuf[base + 2].val + 2, rxbuf[base + 1].of)
                /\ rxbuf[base + 1].of # 0
      <4> DEFINE k == rxbuf[base + 1].of
      <4>1. base + 1 \in 1 .. Size
        BY <1>2, SizeAssumption
      <4>2. k \in Nat /\ k # 0
        BY <1>1, <3>2, <4>1, CellFacts
      <4>3. PacketAt(rxbuf, base + 1, 2, k) /\ 2 = rxbuf[base + 2].val + 2
        BY <2>2, <3>2
      <4> HIDE DEF k
      <4>4. ASSUME NEW i \in 1 .. 2 PROVE bytes[i].of = k /\ bytes[i].pos = i - 1
        <5>1. /\ base + i \in base + 1 .. (base + 1) + 2 - 1
              /\ (base + i) - (base + 1) = i - 1
          OBVIOUS
        <5> QED BY <1>4, <4>3, <5>1 DEF PacketAt
      <4>5. taken' = Append(taken, k)
        <5>1. Len(bytes) = bytes[2].val + 2 /\ Len(bytes) >= 2
          BY <1>4, <4>3
        <5>2. \A i \in 1 .. Len(bytes) : bytes[i].of = k /\ bytes[i].pos = i - 1
          BY <1>4, <4>4
        <5>3. bytes \in Seq(Cell)
          BY <1>3
        <5> QED BY <2>1, <4>2, <5>1, <5>2, <5>3, Whole
      <4> QED BY <1>1, <1>2, <4>2, <4>3, <4>5, PassPacket
    <3> QED BY <1>1, <1>2, <3>1, <3>2, NextPiece DEF Faithful
  <2>4. AlignedAt(base + 2)'
    BY <1>1, <1>3, <1>4, <2>1, <2>2, <2>3 DEF AlignedAt
  <2> QED BY <1>3, <2>2, <2>4
<1> QED
  BY <1>6, <1>7

\* The body is there with its packet: its read does not fail.
LEMMA ReadBodyAligned ==
    ASSUME Sound, NEW base \in Nat, AlignedAt(base), at = "body"
    PROVE  /\ ReadBody => (\E b \in Nat : AlignedAt(b)') /\ rxbuf' = rxbuf
           /\ ~BodyFails /\ ~BodyLeaves
<1>1. /\ Len(part) = 2 /\ part \in Seq(Cell) /\ Len(part) \in Nat
      /\ rxbuf \in [1 .. Size -> Cell] /\ taken \in Seq(Nat)
      /\ rxloc \in Nat /\ rxloc <= Size /\ Size \in Nat
  BY SizeAssumption DEF Sound, RxTypes, AlignedAt
<1>0. PICK n \in Nat : n = Remaining(part)
  BY <1>1, RemainingIsNat
<1>4. /\ Faithful(base, rxbuf, wire, taken, sent, lost)
      /\ Stream(rxbuf, base + 1) /\ base % 2 = 0
      /\ part[2].val # 0 /\ rxloc = base + Len(part)
      /\ \A i \in 1 .. Len(part) : part[i] = rxbuf[base + i]
  BY DEF AlignedAt, Faithful
<1> DEFINE m == n + 2
           k == rxbuf[base + 1].of
<1>5. base + 2 <= Size /\ rxloc = base + 2 /\ base + 1 \in 1 .. Size
  BY <1>1, <1>4
<1>2. n = part[2].val /\ n \in 0 .. 127
  <2>1. 2 \in 1 .. Len(part)
    BY <1>1
  <2>2. part[2] = rxbuf[base + 2]
    BY <1>4, <2>1
  <2>3. part[2].val < 128
    BY <1>1, <1>4, <1>5, <2>2, LengthOfPiece
  <2> QED BY <1>0, <1>1, <2>3, OneLengthByte
<1>3. n \in Nat
  BY <1>0
<1>6. rxbuf[base + 2].val = n /\ n # 0
  <2>1. 2 \in 1 .. Len(part)
    BY <1>1
  <2> QED BY <1>2, <1>4, <2>1
<1>7. PacketAt(rxbuf, base + 1, m, k) /\ k # 0 /\ k \in Nat /\ m = rxbuf[base + 2].val + 2
  <2>1. ~(rxbuf[base + 2] = Zero)
    BY <1>6 DEF Zero, Byte
  <2>2. PacketAt(rxbuf, base + 1, rxbuf[base + 2].val + 2, rxbuf[base + 1].of) /\ rxbuf[base + 1].of # 0
    BY <1>1, <1>4, <1>5, <2>1, NextPiece
  <2>3. k \in Nat
    BY <1>1, <1>5, CellFacts
  <2> QED BY <1>6, <2>2, <2>3
<1> HIDE DEF k
<1>8. base + m <= Size /\ Faithful(base + m, rxbuf, wire, Append(taken, k), sent, lost)
  <2>1. m \in Nat
    BY <1>3
  <2> HIDE DEF m
  <2> QED BY <1>1, <1>4, <1>5, <1>7, <2>1, PassPacket
<1>9. Enough(n) /\ n \in 0 .. Size
  BY <1>1, <1>3, <1>5, <1>8 DEF Enough
<1>10. ~BodyFails /\ ~BodyLeaves
  <2>1. Short(m)
    BY <1>7 DEF PacketAt
  <2>2. Fits(n)
    BY <1>2, <2>1, SizeAssumption DEF Short, Fits, Encoded
  <2> QED BY <1>0, <1>9, <2>2 DEF BodyFails, TimedOut, BodyLeaves
<1>11. ASSUME ReadBody PROVE (\E b \in Nat : AlignedAt(b)') /\ rxbuf' = rxbuf
  <2> DEFINE bytes == part \o Bytes(n)
  <2>1. /\ ReadData(n) /\ taken' = HandOver(bytes) /\ at' = "header" /\ part' = <<>>
        /\ UNCHANGED <<sent, lost>>
    BY <1>0, <1>11 DEF ReadBody
  <2>2. /\ rxbuf' = rxbuf /\ wire' = wire /\ rxloc' = base + (2 + n)
        /\ bytes \in Seq(Cell) /\ Len(bytes) = 2 + n
        /\ \A i \in 1 .. 2 + n : bytes[i] = rxbuf[base + i]
    BY <1>1, <1>9, <2>1, ReadOn
  <2> HIDE DEF bytes
  <2>3. 2 + n = m /\ m \in Nat /\ m >= 2 /\ 2 \in 1 .. m /\ base + m \in Nat
    BY <1>3
  <2> HIDE DEF m
  <2>4. bytes[2].val + 2 = m /\ Len(bytes) = m /\ \A i \in 1 .. m : bytes[i] = rxbuf[base + i]
    BY <1>7, <2>2, <2>3
  <2>5. ASSUME NEW i \in 1 .. m PROVE bytes[i].of = k /\ bytes[i].pos = i - 1
    <3>1. base + i \in base + 1 .. (base + 1) + m - 1 /\ (base + i) - (base + 1) = i - 1
      BY <2>3
    <3> QED BY <1>7, <2>4, <3>1 DEF PacketAt
  <2>6. taken' = Append(taken, k)
    <3>1. bytes \in Seq(Cell) /\ \A i \in 1 .. Len(bytes) : bytes[i].of = k /\ bytes[i].pos = i - 1
      BY <2>2, <2>4, <2>5
    <3>2. Len(bytes) >= 2 /\ Len(bytes) = bytes[2].val + 2
      BY <2>3, <2>4
    <3> QED BY <1>7, <2>1, <3>1, <3>2, Whole
  <2>7. Len(part') = 0 /\ 1 .. 0 = {} /\ rxloc' = (base + m) + 0
    BY <2>1, <2>2, <2>3
  <2>8. AlignedAt(base + m)'
    BY <1>8, <2>1, <2>2, <2>3, <2>6, <2>7 DEF AlignedAt
  <2> QED BY <2>2, <2>3, <2>8
<1> QED
  BY <1>10, <1>11

LEMMA StutterAligned ==
    ASSUME NEW base \in Nat, AlignedAt(base), UNCHANGED vars
    PROVE  AlignedAt(base)' /\ rxbuf' = rxbuf
  BY DEF vars, AlignedAt

\* No step of an orderly stream discards a byte, and it stays aligned.
LEMMA StepAligned ==
    ASSUME Sound, Aligned, [Next]_vars
    PROVE  Aligned' /\ (orderly /\ rxbuf' # rxbuf => rxloc = Size)
<1>1. orderly' = orderly
  BY DEF Next, Reader, ReaderFails, vars
<1> SUFFICES ASSUME orderly
             PROVE  (\E b \in Nat : AlignedAt(b)') /\ (rxbuf' # rxbuf => rxloc = Size)
  BY <1>1 DEF Aligned
<1>2. PICK base \in Nat : AlignedAt(base)
  BY DEF Aligned
<1>3. ASSUME NEW kind \in Kinds, Send(kind)
      PROVE  (\E b \in Nat : AlignedAt(b)') /\ (rxbuf' # rxbuf => rxloc = Size)
  BY <1>2, <1>3, SendAligned
<1>4. ASSUME Reconnect
      PROVE  (\E b \in Nat : AlignedAt(b)') /\ (rxbuf' # rxbuf => rxloc = Size)
  BY <1>2, <1>4, ReconnectAligned
<1>5. ASSUME ReadHeader \/ ReadLength
      PROVE  (\E b \in Nat : AlignedAt(b)') /\ (rxbuf' # rxbuf => rxloc = Size)
  BY <1>2, <1>5, ReadHeaderAligned, ReadLengthAligned
<1>6. ASSUME ReadBody
      PROVE  (\E b \in Nat : AlignedAt(b)') /\ (rxbuf' # rxbuf => rxloc = Size)
  <2>1. at = "body"
    BY <1>6 DEF ReadBody
  <2> QED BY <1>2, <1>6, <2>1, ReadBodyAligned
<1>7. ASSUME HeaderFails
      PROVE  (\E b \in Nat : AlignedAt(b)') /\ (rxbuf' # rxbuf => rxloc = Size)
  <2>1. 0 \in Nat
    OBVIOUS
  <2> QED BY <1>2, <1>7, <2>1, HeaderFailsAligned
<1>8. ~LengthFails
  <2> SUFFICES ASSUME LengthFails PROVE FALSE
    OBVIOUS
  <2>1. at = "length" /\ ~Enough(1)
    BY DEF LengthFails, TimedOut
  <2> QED BY <1>2, <2>1, HasByte
<1>9. ~BodyFails /\ ~BodyLeaves
  <2> SUFFICES ASSUME BodyFails \/ BodyLeaves PROVE FALSE
    OBVIOUS
  <2>1. at = "body"
    BY DEF BodyFails, BodyLeaves
  <2> QED BY <1>2, <2>1, ReadBodyAligned
<1>10. ASSUME NEW kind \in Kinds, NEW cut \in 1 .. kind.rest + 1 PROVE ~SendSplit(kind, cut)
  BY DEF SendSplit
<1>11. ASSUME UNCHANGED vars
       PROVE  (\E b \in Nat : AlignedAt(b)') /\ (rxbuf' # rxbuf => rxloc = Size)
  BY <1>2, <1>11, StutterAligned
<1> QED
  BY <1>3, <1>4, <1>5, <1>6, <1>7, <1>8, <1>9, <1>10, <1>11 DEF Next, Broker, Reader, ReaderFails


-----------------------------------------------------------------------------
(* The theorems *)

RxInv == Sound /\ Aligned

LEMMA RxInductive == Spec => []RxInv
<1>1. Init => RxInv
  BY InitSound, InitAligned DEF RxInv
<1>2. RxInv /\ [Next]_vars => RxInv'
  BY StepSound, StepAligned DEF RxInv
<1> QED
  BY <1>1, <1>2, PTL DEF Spec

\* What is to be read is in the packet being read or behind it.
LEMMA StillToRead ==
    ASSUME Sound, NEW base \in Nat, AlignedAt(base)
    PROVE  From(rxbuf, base + 1) \subseteq From(part, 1) \cup From(rxbuf, rxloc + 1)
<1>1. /\ part \in Seq(Cell) /\ rxbuf \in [1 .. Size -> Cell] /\ rxloc = base + Len(part)
      /\ \A i \in 1 .. Len(part) : part[i] = rxbuf[base + i]
  BY DEF Sound, RxTypes, AlignedAt
<1>2. DOMAIN rxbuf = 1 .. Size /\ DOMAIN part = 1 .. Len(part) /\ Len(part) \in Nat
  BY <1>1, LenProperties
<1>3. ASSUME NEW i \in DOMAIN rxbuf, i >= base + 1, rxbuf[i] # Zero
      PROVE  rxbuf[i] \in From(part, 1) \cup From(rxbuf, rxloc + 1)
  <2>1. CASE i >= rxloc + 1
    BY <1>3, <2>1, InFrom
  <2>2. CASE ~(i >= rxloc + 1)
    <3> DEFINE o == i - base
    <3>1. o \in 1 .. Len(part) /\ base + o = i /\ o >= 1
      BY <1>1, <1>2, <1>3, <2>2
    <3> HIDE DEF o
    <3>2. part[o] = rxbuf[i]
      BY <1>1, <3>1
    <3> QED BY <1>2, <1>3, <3>1, <3>2, InFrom
  <2> QED BY <2>1, <2>2
<1> QED
  BY <1>3, FromIn, Zenon

\* What comes before a packet that was handed over is not to be read any more.
LEMMA AllTaken ==
    ASSUME RxInv, orderly
    PROVE  /\ ToSet(taken) \subseteq (1 .. sent) \ lost
           /\ \A i \in DOMAIN taken : \A n \in 1 .. taken[i] : n \in ToSet(taken) \cup lost
           /\ at # "outside"
<1>1. PICK base \in Nat : AlignedAt(base)
  BY DEF RxInv, Aligned
<1>2. /\ Sound /\ Ordered(part, rxbuf, rxloc, wire, taken, sent) /\ taken \in Seq(Nat) /\ sent \in Nat
      /\ \A i \in DOMAIN taken : taken[i] <= sent
      /\ Faithful(base, rxbuf, wire, taken, sent, lost)
  BY <1>1 DEF RxInv, Sound, RxTypes, InOrder, AlignedAt
<1>3. \A i \in DOMAIN taken : taken[i] \in 1 .. sent /\ taken[i] \notin lost
  <2> SUFFICES ASSUME NEW i \in DOMAIN taken PROVE taken[i] \in 1 .. sent /\ taken[i] \notin lost
    OBVIOUS
  <2>1. taken[i] \in Nat /\ taken[i] <= sent
    BY <1>2, LenProperties
  <2>2. taken[i] # 0 /\ taken[i] \notin lost
    BY <1>2 DEF Faithful, Gone, Torn
  <2> QED BY <1>2, <2>1, <2>2
<1>4. ASSUME NEW i \in DOMAIN taken, NEW n \in 1 .. taken[i], n \notin lost,
             ~\E j \in DOMAIN taken : taken[j] = n
      PROVE  FALSE
  <2>1. n \in 1 .. sent
    BY <1>2, <1>3
  <2>2. ASSUME NEW b, b \in Cell, b.of = n, b.pos = 0, taken[i] < b.of \/ (taken[i] = b.of /\ b.pos > 0)
        PROVE  FALSE
    BY <1>2, <1>3, <2>2
  <2>3. CASE Begins(n, From(rxbuf, base + 1))
    <3>1. PICK b \in From(rxbuf, base + 1) : b.of = n /\ b.pos = 0
      BY <2>3 DEF Begins
    <3>2. b \in From(part, 1) \cup From(rxbuf, rxloc + 1)
      BY <1>1, <1>2, StillToRead
    <3>3. b \in Cell
      BY <1>2, <3>2, OldCells
    <3>4. taken[i] < b.of \/ (taken[i] = b.of /\ b.pos > 0)
      BY <1>2, <3>2 DEF Ordered, Later
    <3> QED BY <2>2, <3>1, <3>3, <3>4
  <2>4. ASSUME NEW s \in 1 .. Len(wire), Begins(n, From(wire[s], 1)) PROVE FALSE
    <3>1. PICK b \in From(wire[s], 1) : b.of = n /\ b.pos = 0
      BY <2>4 DEF Begins
    <3>2. b \in Cell
      BY <1>2, OldCells
    <3>3. taken[i] < b.of \/ (taken[i] = b.of /\ b.pos > 0)
      BY <1>2 DEF Ordered, Later
    <3> QED BY <2>2, <3>1, <3>2, <3>3
  <2> QED BY <1>2, <1>4, <2>1, <2>3, <2>4 DEF Faithful, Complete
<1>5. ToSet(taken) = {taken[i] : i \in DOMAIN taken}
  BY DEF ToSet
<1>6. at # "outside"
  BY <1>1 DEF AlignedAt
<1> QED
  BY <1>3, <1>4, <1>5, <1>6

\* Whatever the packets, however the network groups them and whenever a receive
\* times out or the connection is lost: the MQTT client is handed what the
\* broker sent, in order, once, and nothing is missing in between
\* (wifi_read_data under readPacket).
THEOREM PacketsAsSent == Spec => []ReadAsSent
<1>1. RxInv => ReadAsSent
  BY AllTaken DEF RxInv, Sound, InOrder, ReadAsSent
<1> QED
  BY <1>1, RxInductive, PTL

\* The memset and the receive of wifi_read_data overwrite no byte of the broker
\* that was not read: as Size and the packets are even and padding is read in
\* pairs, the buffer is used up exactly when a receive begins.
THEOREM NoByteDiscarded == Spec => NothingDiscarded
<1>1. RxInv /\ [Next]_vars => [orderly /\ rxbuf' # rxbuf => UnreadBytes = {}]_vars
  <2> SUFFICES ASSUME RxInv, [Next]_vars, orderly, rxbuf' # rxbuf PROVE UnreadBytes = {}
    BY DEF vars
  <2>1. rxloc = Size
    BY StepAligned DEF RxInv
  <2>2. Size + 1 .. Size = {}
    BY SizeAssumption
  <2> QED BY <2>1, <2>2 DEF UnreadBytes
<1> QED
  BY <1>1, RxInductive, PTL DEF Spec, NothingDiscarded

=============================================================================
