----------------------------- MODULE Hif_proofs -----------------------------
(***************************************************************************)
(* Proofs about the host interface: no interrupt is lost and the events    *)
(* are delivered whole and in their order, for every number of events and  *)
(* of pieces and whatever accesses of the bus may fail.                    *)
(*                                                                         *)
(* Both follow from one argument: the firmware waits, so an event is in    *)
(* exactly one place (the bit with its edge, the count, hif_isr) until its *)
(* memory is given back, and the driver's flag u8HifRXDone tells that the  *)
(* memory holds the event hif_isr is at.                                   *)
(***************************************************************************)
EXTENDS Hif, TLAPS

Piece == [of : Nat \ {0}, piece : 1..MaxPieces, found : Nat \ {0}]

Types ==
    /\ event \in 0..MaxEvents /\ size \in 0..MaxPieces
    /\ bit0 \in BOOLEAN /\ busy \in BOOLEAN /\ line \in BOOLEAN /\ enabled \in BOOLEAN
    /\ u8HifRXDone \in BOOLEAN /\ fault \in Accesses \cup {"none"}
    /\ u8Interrupt \in 0..1 /\ loaded \in 0..1
    /\ pc \in {"main", "loop", "load", "store", "control", "clear", "address", "receive",
               "done", "call", "next", "returned", "handled"}
    /\ current \in 0..event /\ expected \in 0..MaxPieces /\ pieces \in 0..MaxPieces
    /\ read \in 0..event
    /\ delivered \in Seq(Piece)

\* The event announced is in one place, and with no event there is nothing.
OnePlace ==
    /\ bit0 => busy
    /\ busy => event > 0 /\ size > 0
    /\ line => bit0 /\ u8Interrupt = 0
    /\ u8Interrupt = 1 => bit0
    /\ bit0 => line \/ u8Interrupt = 1 \/ pc \in {"control", "clear"}
    /\ pc \in {"load", "store"} => u8Interrupt = 1
    /\ pc = "store" => loaded = 1
    /\ pc \in {"control", "clear"} => busy /\ ~line /\ u8Interrupt = 0
    /\ pc = "clear" => bit0

\* The memory is the driver's while its flag is set.
Owned ==
    /\ u8HifRXDone => busy /\ ~bit0
    /\ pc \in {"address", "receive", "done", "next"} => u8HifRXDone
    /\ pc = "call" /\ pieces < expected => u8HifRXDone
    /\ pc \in {"receive", "done", "next"} => current = event
    /\ pc = "call" /\ pieces < expected => current = event
    /\ bit0 \/ pc = "address" => current < event

\* How far the reading of the event is.
Read ==
    /\ pc \in {"receive", "next"} => pieces < expected
    /\ pc = "done" => pieces = expected
    /\ pc \in {"receive", "done", "call", "next"} => current > 0 /\ pieces <= expected
    /\ pc \in {"done", "call"} => read = current /\ pieces > 0

\* What was delivered comes before what will be.
Past ==
    \A i \in DOMAIN delivered :
        /\ delivered[i].found = delivered[i].of
        /\ delivered[i].of <= current
        /\ delivered[i].of = current => delivered[i].piece <= pieces
        /\ delivered[i].of = current /\ pc \in {"done", "call"} => delivered[i].piece < pieces

InOrder ==
    \A i, j \in DOMAIN delivered : i < j =>
        \/ delivered[i].of < delivered[j].of
        \/ delivered[i].of = delivered[j].of /\ delivered[i].piece < delivered[j].piece

HifInv == Types /\ OnePlace /\ Owned /\ Read /\ Past /\ InOrder
-----------------------------------------------------------------------------
LEMMA InitHolds == Init => HifInv
  <1> SUFFICES ASSUME Init PROVE HifInv
    OBVIOUS
  <1> USE DEF Init, Accesses
  <1>1. delivered \in Seq(Piece)
    OBVIOUS
  <1>2. fault \in Accesses \cup {"none"}
    OBVIOUS
  <1>3. /\ event \in 0..MaxEvents /\ size \in 0..MaxPieces
        /\ u8Interrupt \in 0..1 /\ loaded \in 0..1
        /\ current \in 0..event /\ expected \in 0..MaxPieces /\ pieces \in 0..MaxPieces
        /\ read \in 0..event
    BY BoundsAssumption
  <1>4. Types
    BY <1>1, <1>2, <1>3, Zenon DEF Types
  <1>5. OnePlace /\ Owned /\ Read
    BY BoundsAssumption DEF OnePlace, Owned, Read
  <1>6. Past /\ InOrder
    BY DEF Past, InOrder
  <1>7. QED
    BY <1>4, <1>5, <1>6 DEF HifInv

\* Every step keeps the types.
LEMMA TypesStep == HifInv /\ [Next]_vars => Types'
  <1> SUFFICES ASSUME HifInv, [Next]_vars PROVE Types'
    OBVIOUS
  <1> USE DEF HifInv, Types, Piece, OnePlace, Read
  <1>1. CASE Raise
    BY <1>1, BoundsAssumption DEF Raise, firmware, counts, reading
  <1>2. CASE isr
    <2>1. u8Interrupt' = 1
      <3>1. line /\ u8Interrupt' = u8Interrupt + 1
        BY <1>2 DEF isr
      <3>2. QED
        BY <3>1
    <2>2. /\ event' = event /\ size' = size /\ bit0' = bit0 /\ busy' = busy /\ line' = FALSE
          /\ enabled' = enabled /\ loaded' = loaded /\ u8HifRXDone' = u8HifRXDone /\ pc' = pc
          /\ fault' = fault /\ delivered' = delivered
          /\ UNCHANGED <<current, expected, pieces, read>>
      BY <1>2 DEF isr, reading
    <2>3. u8Interrupt' \in 0..1
      BY <2>1
    <2>4. QED
      BY <2>2, <2>3, Zenon
  <1>3. CASE hif_handle_isr
    BY <1>3, BoundsAssumption DEF hif_handle_isr, firmware, counts, reading
  <1>4. CASE TestCount
    BY <1>4, BoundsAssumption DEF TestCount, After, firmware, counts, reading
  <1>5. CASE LoadCount
    BY <1>5, BoundsAssumption DEF LoadCount, After, firmware, counts, reading
  <1>6. CASE StoreCount
    BY <1>6, BoundsAssumption DEF StoreCount, After, firmware, counts, reading
  <1>7. CASE Handled
    BY <1>7, BoundsAssumption DEF Handled, After, firmware, counts, reading
  <1>8. CASE ReadControl
    BY <1>8, BoundsAssumption DEF ReadControl, firmware, counts, reading
  <1>9. CASE ClearBit
    BY <1>9, BoundsAssumption DEF ClearBit, firmware, counts, reading
  <1>10. CASE ReadAddress
    BY <1>10, BoundsAssumption DEF ReadAddress, firmware, counts, reading
  <1>11. CASE hif_receive
    BY <1>11, BoundsAssumption DEF hif_receive, IsDone, firmware, counts, reading
  <1>12. CASE DoneOfReceive
    BY <1>12, BoundsAssumption DEF DoneOfReceive, hif_set_rx_done, SetRxDoneFails, Fails, firmware, counts, reading
  <1>13. CASE CallBack
    BY <1>13, BoundsAssumption DEF CallBack, firmware, counts, reading
  <1>14. CASE ReadHead
    BY <1>14, BoundsAssumption DEF ReadHead, firmware, counts, reading
  <1>15. CASE NextPiece
    BY <1>15, BoundsAssumption DEF NextPiece, firmware, counts, reading
  <1>16. CASE GiveUp
    BY <1>16, BoundsAssumption DEF GiveUp, hif_set_rx_done, SetRxDoneFails, Fails, firmware, counts, reading
  <1>17. CASE LeaveRest
    BY <1>17, BoundsAssumption DEF LeaveRest, firmware, counts, reading
  <1>18. CASE CallbackReturned
    BY <1>18, BoundsAssumption DEF CallbackReturned, hif_set_rx_done, SetRxDoneFails, Fails, firmware, counts, reading
  <1>19. CASE ControlFails
    BY <1>19, BoundsAssumption DEF ControlFails, Fails, firmware, counts, reading
  <1>20. CASE ClearFails
    BY <1>20, BoundsAssumption DEF ClearFails, Fails, firmware, counts, reading
  <1>21. CASE AddressFails
    BY <1>21, BoundsAssumption DEF AddressFails, Fails, firmware, counts, reading
  <1>22. CASE ReceiveFails
    BY <1>22, BoundsAssumption DEF ReceiveFails, Fails, firmware, counts, reading
  <1>23. CASE UNCHANGED vars
    BY <1>23 DEF vars, firmware, counts, reading
  <1>24. QED
    BY <1>1, <1>2, <1>3, <1>4, <1>5, <1>6, <1>7, <1>8, <1>9, <1>10, <1>11, <1>12, <1>13, <1>14, <1>15, <1>16, <1>17, <1>18, <1>19, <1>20, <1>21, <1>22, <1>23 DEF Next, Host, Faulty

\* Every step keeps the event in one place and the flag true to the memory.
LEMMA PlaceStep == HifInv /\ [Next]_vars => OnePlace' /\ Owned' /\ Read'
  <1> SUFFICES ASSUME HifInv, [Next]_vars PROVE OnePlace' /\ Owned' /\ Read'
    OBVIOUS
  <1> USE DEF HifInv, Types, OnePlace, Owned, Read
  <1>1. CASE Raise
    BY <1>1 DEF Raise, firmware, counts, reading
  <1>2. CASE isr
    BY <1>2 DEF isr, firmware, counts, reading
  <1>3. CASE hif_handle_isr
    BY <1>3 DEF hif_handle_isr, firmware, counts, reading
  <1>4. CASE TestCount
    BY <1>4 DEF TestCount, After, firmware, counts, reading
  <1>5. CASE LoadCount
    BY <1>5 DEF LoadCount, After, firmware, counts, reading
  <1>6. CASE StoreCount
    BY <1>6 DEF StoreCount, After, firmware, counts, reading
  <1>7. CASE Handled
    BY <1>7 DEF Handled, After, firmware, counts, reading
  <1>8. CASE ReadControl
    BY <1>8 DEF ReadControl, firmware, counts, reading
  <1>9. CASE ClearBit
    BY <1>9 DEF ClearBit, firmware, counts, reading
  <1>10. CASE ReadAddress
    BY <1>10 DEF ReadAddress, firmware, counts, reading
  <1>11. CASE hif_receive
    BY <1>11 DEF hif_receive, IsDone, firmware, counts, reading
  <1>12. CASE DoneOfReceive
    <2>1. pc = "done" /\ pc' \in {"call", "returned"}
      BY <1>12 DEF DoneOfReceive
    <2>2. ~bit0 /\ ~line /\ u8Interrupt = 0
      BY <2>1
    <2>3. /\ pieces' = pieces /\ expected' = expected /\ u8HifRXDone' = FALSE
          /\ event' = event /\ size' = size /\ current' = current /\ read' = read
          /\ loaded' = loaded /\ u8Interrupt' = u8Interrupt
          /\ bit0' = bit0 /\ line' = line
          /\ busy' = busy \/ busy' = FALSE
      BY <1>12 DEF DoneOfReceive, hif_set_rx_done, SetRxDoneFails, firmware, counts, reading
    <2>4. OnePlace'
      BY <2>1, <2>2, <2>3
    <2>5. Owned' /\ Read'
      BY <1>12, <2>1, <2>2, <2>3 DEF DoneOfReceive
    <2>6. QED
      BY <2>4, <2>5
  <1>13. CASE CallBack
    BY <1>13 DEF CallBack, firmware, counts, reading
  <1>14. CASE ReadHead
    BY <1>14 DEF ReadHead, firmware, counts, reading
  <1>15. CASE NextPiece
    BY <1>15 DEF NextPiece, firmware, counts, reading
  <1>16. CASE GiveUp
    <2>1. pc = "next" /\ pc' \in {"call", "returned"}
      BY <1>16 DEF GiveUp
    <2>2. ~bit0 /\ ~line /\ u8Interrupt = 0
      BY <2>1
    <2>3. /\ pieces' = pieces /\ expected' = expected /\ u8HifRXDone' = FALSE
          /\ event' = event /\ size' = size /\ current' = current /\ read' = read
          /\ loaded' = loaded /\ u8Interrupt' = u8Interrupt
          /\ bit0' = bit0 /\ line' = line
          /\ busy' = busy \/ busy' = FALSE
      BY <1>16 DEF GiveUp, hif_set_rx_done, SetRxDoneFails, firmware, counts, reading
    <2>4. OnePlace'
      BY <2>1, <2>2, <2>3
    <2>5. Owned' /\ Read'
      BY <1>16, <2>1, <2>2, <2>3 DEF GiveUp
    <2>6. QED
      BY <2>4, <2>5
  <1>17. CASE LeaveRest
    BY <1>17 DEF LeaveRest, firmware, counts, reading
  <1>18. CASE CallbackReturned
    BY <1>18 DEF CallbackReturned, hif_set_rx_done, SetRxDoneFails, Fails, firmware, counts, reading
  <1>19. CASE ControlFails
    BY <1>19 DEF ControlFails, Fails, firmware, counts, reading
  <1>20. CASE ClearFails
    BY <1>20 DEF ClearFails, Fails, firmware, counts, reading
  <1>21. CASE AddressFails
    BY <1>21 DEF AddressFails, Fails, firmware, counts, reading
  <1>22. CASE ReceiveFails
    BY <1>22 DEF ReceiveFails, Fails, firmware, counts, reading
  <1>23. CASE UNCHANGED vars
    BY <1>23 DEF vars, firmware, counts, reading
  <1>24. QED
    BY <1>1, <1>2, <1>3, <1>4, <1>5, <1>6, <1>7, <1>8, <1>9, <1>10, <1>11, <1>12, <1>13, <1>14, <1>15, <1>16, <1>17, <1>18, <1>19, <1>20, <1>21, <1>22, <1>23 DEF Next, Host, Faulty

\* What the types say of the delivered pieces.
LEMMA PieceTypes ==
    HifInv => /\ delivered \in Seq(Piece)
              /\ {event, current, expected, pieces} \subseteq Nat
              /\ \A i \in DOMAIN delivered :
                    {delivered[i].of, delivered[i].piece, delivered[i].found} \subseteq Nat
  <1> SUFFICES ASSUME HifInv
               PROVE  /\ delivered \in Seq(Piece)
                      /\ {event, current, expected, pieces} \subseteq Nat
                      /\ \A i \in DOMAIN delivered :
                            {delivered[i].of, delivered[i].piece, delivered[i].found}
                                \subseteq Nat
    OBVIOUS
  <1>1. delivered \in Seq(Piece)
    BY DEF HifInv, Types
  <1>2. {event, current, expected, pieces} \subseteq Nat
    BY BoundsAssumption DEF HifInv, Types
  <1>3. ASSUME NEW i \in DOMAIN delivered
        PROVE  {delivered[i].of, delivered[i].piece, delivered[i].found} \subseteq Nat
    <2>1. delivered[i] \in Piece
      BY <1>1
    <2>2. QED
      BY <2>1, BoundsAssumption DEF Piece
  <1>4. QED
    BY <1>1, <1>2, <1>3

\* Every step keeps what was delivered in order.
LEMMA PastStep == HifInv /\ [Next]_vars => Past' /\ InOrder'
  <1> SUFFICES ASSUME HifInv, [Next]_vars PROVE Past' /\ InOrder'
    OBVIOUS
  <1> USE PieceTypes DEF HifInv, OnePlace, Owned, Read, Past, InOrder
  <1>1. CASE Raise
    BY <1>1 DEF Raise, firmware, counts, reading
  <1>2. CASE isr
    BY <1>2 DEF isr, firmware, counts, reading
  <1>3. CASE hif_handle_isr
    BY <1>3 DEF hif_handle_isr, firmware, counts, reading
  <1>4. CASE TestCount
    BY <1>4 DEF TestCount, After, firmware, counts, reading
  <1>5. CASE LoadCount
    BY <1>5 DEF LoadCount, After, firmware, counts, reading
  <1>6. CASE StoreCount
    BY <1>6 DEF StoreCount, After, firmware, counts, reading
  <1>7. CASE Handled
    BY <1>7 DEF Handled, After, firmware, counts, reading
  <1>8. CASE ReadControl
    BY <1>8 DEF ReadControl, firmware, counts, reading
  <1>9. CASE ClearBit
    BY <1>9 DEF ClearBit, firmware, counts, reading
  <1>10. CASE ReadAddress
    <2>1. delivered' = delivered /\ current' = event /\ pieces' = 0 /\ pc' = "receive"
      BY <1>10 DEF ReadAddress
    <2>2. ASSUME NEW i \in DOMAIN delivered
          PROVE  delivered[i].of < event
      <3>1. {delivered[i].of, delivered[i].piece} \subseteq Nat
        BY PieceTypes
      <3>2. delivered[i].of <= current /\ current < event
        BY <1>10 DEF ReadAddress
      <3>3. QED
        BY <3>1, <3>2
    <2>3. Past' /\ InOrder'
      <3>1. ASSUME NEW i \in DOMAIN delivered
            PROVE  /\ delivered[i].found = delivered[i].of
                   /\ delivered[i].of <= event
                   /\ delivered[i].of /= event
        BY <2>2
      <3>2. QED
        BY <2>1, <3>1
    <2>4. QED
      BY <2>3
  <1>11. CASE hif_receive
    <2>1. /\ delivered' = delivered /\ current' = current /\ pieces' = pieces + 1
          /\ pc' \in {"done", "call"} /\ pc = "receive"
      BY <1>11 DEF hif_receive
    <2>2. ASSUME NEW i \in DOMAIN delivered, delivered[i].of = current
          PROVE  delivered[i].piece <= pieces + 1 /\ delivered[i].piece < pieces + 1
      <3>1. {delivered[i].of, delivered[i].piece} \subseteq Nat
        BY PieceTypes
      <3>2. delivered[i].piece <= pieces
        BY <2>2
      <3>3. QED
        BY <3>1, <3>2
    <2>3. QED
      BY <2>1, <2>2
  <1>12. CASE DoneOfReceive
    <2>1. delivered' = delivered /\ current' = current /\ pieces' = pieces
      BY <1>12 DEF DoneOfReceive, hif_set_rx_done, SetRxDoneFails, firmware, counts, reading
    <2>2. pc' \in {"done", "call"} => pc \in {"done", "call"}
      BY <1>12 DEF DoneOfReceive
    <2>3. QED
      BY <2>1, <2>2
  <1>13. CASE CallBack
    <2> DEFINE new == [of |-> current, piece |-> pieces, found |-> read]
    <2>1. /\ delivered' = Append(delivered, new) /\ pc = "call"
          /\ current' = current /\ pieces' = pieces
          /\ pc' \in {"next", "returned"}
      BY <1>13 DEF CallBack, reading
    <2>2. /\ DOMAIN delivered' = 1..(Len(delivered) + 1)
          /\ DOMAIN delivered = 1..Len(delivered) /\ Len(delivered) \in Nat
          /\ \A i \in DOMAIN delivered : delivered'[i] = delivered[i]
          /\ delivered'[Len(delivered) + 1] = new
      BY <2>1
    <2>3. ASSUME NEW i \in DOMAIN delivered
          PROVE  /\ delivered[i].found = delivered[i].of
                 /\ \/ delivered[i].of < current
                    \/ delivered[i].of = current /\ delivered[i].piece < pieces
      <3>1. {delivered[i].of, delivered[i].piece} \subseteq Nat
        BY PieceTypes
      <3>2. QED
        BY <2>1, <3>1
    <2>4. new.of = current /\ new.piece = pieces /\ new.found = current
      BY <2>1
    <2>5. Past'
      <3>1. ASSUME NEW i \in DOMAIN delivered'
            PROVE  /\ delivered'[i].found = delivered'[i].of
                   /\ delivered'[i].of <= current
                   /\ delivered'[i].of = current => delivered'[i].piece <= pieces
        <4>1. CASE i \in DOMAIN delivered
          <5>1. {delivered[i].of, delivered[i].piece} \subseteq Nat
            BY <4>1, PieceTypes
          <5>2. QED
            BY <4>1, <5>1, <2>2, <2>3
        <4>2. CASE i = Len(delivered) + 1
          BY <4>2, <2>2, <2>4
        <4>3. QED
          BY <4>1, <4>2, <2>2
      <3>2. QED
        BY <2>1, <3>1
    <2>6. InOrder'
      <3>1. ASSUME NEW i \in DOMAIN delivered', NEW j \in DOMAIN delivered', i < j
            PROVE  \/ delivered'[i].of < delivered'[j].of
                   \/ delivered'[i].of = delivered'[j].of
                      /\ delivered'[i].piece < delivered'[j].piece
        <4>1. CASE j \in DOMAIN delivered
          <5>1. i \in DOMAIN delivered
            BY <3>1, <4>1, <2>2
          <5>2. delivered'[i] = delivered[i] /\ delivered'[j] = delivered[j]
            BY <4>1, <5>1, <2>2
          <5>3. QED
            BY <3>1, <4>1, <5>1, <5>2
        <4>2. CASE j = Len(delivered) + 1
          <5>1. i \in DOMAIN delivered
            BY <3>1, <4>2, <2>2
          <5>2. QED
            BY <4>2, <5>1, <2>2, <2>3, <2>4
        <4>3. QED
          BY <4>1, <4>2, <2>2
      <3>2. QED
        BY <3>1
    <2>7. QED
      BY <2>5, <2>6
  <1>14. CASE ReadHead
    BY <1>14 DEF ReadHead, firmware, counts, reading
  <1>15. CASE NextPiece
    BY <1>15 DEF NextPiece, firmware, counts, reading
  <1>16. CASE GiveUp
    <2>1. delivered' = delivered /\ current' = current /\ pieces' = pieces
      BY <1>16 DEF GiveUp, hif_set_rx_done, SetRxDoneFails, firmware, counts, reading
    <2>2. pc' \in {"done", "call"} => pc \in {"done", "call"}
      BY <1>16 DEF GiveUp
    <2>3. QED
      BY <2>1, <2>2
  <1>17. CASE LeaveRest
    BY <1>17 DEF LeaveRest, firmware, counts, reading
  <1>18. CASE CallbackReturned
    <2>1. delivered' = delivered /\ current' = current /\ pieces' = pieces
      BY <1>18 DEF CallbackReturned, hif_set_rx_done, SetRxDoneFails, firmware, counts, reading
    <2>2. pc' \in {"done", "call"} => pc \in {"done", "call"}
      BY <1>18 DEF CallbackReturned
    <2>3. QED
      BY <2>1, <2>2
  <1>19. CASE ControlFails
    BY <1>19 DEF ControlFails, Fails, firmware, counts, reading
  <1>20. CASE ClearFails
    BY <1>20 DEF ClearFails, Fails, firmware, counts, reading
  <1>21. CASE AddressFails
    BY <1>21 DEF AddressFails, Fails, firmware, counts, reading
  <1>22. CASE ReceiveFails
    BY <1>22 DEF ReceiveFails, Fails, firmware, counts, reading
  <1>23. CASE UNCHANGED vars
    BY <1>23 DEF vars, firmware, counts, reading
  <1>24. QED
    BY <1>1, <1>2, <1>3, <1>4, <1>5, <1>6, <1>7, <1>8, <1>9, <1>10, <1>11, <1>12, <1>13, <1>14, <1>15, <1>16, <1>17, <1>18, <1>19, <1>20, <1>21, <1>22, <1>23 DEF Next, Host, Faulty

LEMMA HifInvariant == Spec => []HifInv
  <1>1. HifInv /\ [Next]_vars => HifInv'
    BY TypesStep, PlaceStep, PastStep DEF HifInv
  <1>2. QED
    BY InitHolds, <1>1, PTL DEF Spec
-----------------------------------------------------------------------------
(* The fields keep their types and at most one interrupt is ever counted,  *)
(* however the interrupt falls between the load and the store of the       *)
(* decrement in hif_handle_isr.                                            *)
THEOREM HifTypes == Spec => []TypeOK
  <1>1. HifInv => TypeOK
    <2> SUFFICES ASSUME HifInv PROVE TypeOK
      OBVIOUS
    <2>1. ASSUME NEW i \in DOMAIN delivered
          PROVE  delivered[i] \in [of : 1..event, piece : 1..MaxPieces, found : 1..event]
      <3>1. /\ delivered[i] \in Piece
            /\ delivered[i].found = delivered[i].of /\ delivered[i].of <= current
            /\ current \in 0..event /\ event \in Nat
        BY DEF HifInv, Types, Past
      <3>2. delivered[i].of \in 1..event /\ delivered[i].found \in 1..event
        BY <3>1 DEF Piece
      <3>3. QED
        BY <3>1, <3>2 DEF Piece
    <2>2. QED
      BY <2>1 DEF HifInv, Types, TypeOK
  <1>2. QED
    BY HifInvariant, <1>1, PTL

(* No event of the firmware is forgotten: while its bit is set its edge is *)
(* latched, counted, or about to be read by hif_isr.                       *)
THEOREM NoInterruptLost == Spec => []InterruptNotLost
  <1>1. HifInv => InterruptNotLost
    BY DEF HifInv, Types, OnePlace, InterruptNotLost
  <1>2. QED
    BY HifInvariant, <1>1, PTL

(* The application gets the pieces of the events in their order, none      *)
(* twice, and each as the firmware wrote it for the event being handled,   *)
(* whichever access of the bus fails.                                      *)
THEOREM EventsInOrder == Spec => []DeliveredInOrder
  <1>1. HifInv => DeliveredInOrder
    BY DEF HifInv, Past, InOrder, DeliveredInOrder
  <1>2. QED
    BY HifInvariant, <1>1, PTL
=============================================================================
