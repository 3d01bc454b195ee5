-------------------------------- MODULE Hif --------------------------------
(***************************************************************************)
(* The host interface of the WINC1500 driver (m2m_hif.c): how the answers  *)
(* of the firmware reach the callbacks of socket.c.  The firmware puts an  *)
(* event in its memory, sets bit 0 of a control register and raises the    *)
(* interrupt line.  The interrupt routine only counts; the main loop       *)
(* clears the bit, reads the event piece by piece into the callback's      *)
(* buffers, and tells the firmware with bit 1 that its memory is free      *)
(* again.  The firmware is external: it is taken to wait for that before   *)
(* it shows the next event.                                                *)
(***************************************************************************)
EXTENDS Integers, Sequences

CONSTANTS
    MaxEvents,  \* bound: events of the firmware
    MaxPieces   \* bound: reads an event takes

ASSUME BoundsAssumption == MaxEvents \in Nat /\ MaxPieces \in Nat \ {0}

VARIABLES
    event,      \* the event in the memory of the firmware: its number
    size,       \* the pieces it is read in
    bit0,       \* bit 0 of WIFI_HOST_RCV_CTRL_0: a new event
    busy,       \* the firmware waits for RX done
    line,       \* an edge of the interrupt line, latched
    enabled,    \* nm_bsp_interrupt_ctrl
    u8Interrupt,
    u8HifRXDone,
    pc,         \* where hif_handle_isr is
    loaded,     \* u8Interrupt as read by the decrement under way
    current,    \* the event whose address hif_isr has read
    expected,   \* the length in its header, in pieces
    pieces,     \* the pieces of it read so far
    read,       \* what the last read found: an event
    delivered,  \* what the application was called with
    fault       \* the access of the bus that may fail once, if any

firmware == <<event, size, bit0, busy, line>>
counts == <<u8Interrupt, loaded>>
reading == <<current, expected, pieces, read>>
vars == <<firmware, enabled, counts, u8HifRXDone, pc, reading, delivered, fault>>

Accesses == {"control", "clear", "address", "receive", "done"}

Init ==
    /\ event = 0 /\ size = 0 /\ bit0 = FALSE /\ busy = FALSE
    /\ line = FALSE /\ enabled = TRUE
    /\ u8Interrupt = 0 /\ u8HifRXDone = FALSE
    /\ pc = "main" /\ loaded = 0
    /\ current = 0 /\ expected = 0 /\ pieces = 0 /\ read = 0 /\ delivered = <<>>
    /\ fault \in Accesses \cup {"none"}
----------------------------------------------------------------------------
(* The firmware and the interrupt. *)

Raise ==
    /\ ~busy /\ event < MaxEvents
    /\ event' = event + 1
    /\ size' \in 1..MaxPieces
    /\ bit0' = TRUE /\ busy' = TRUE /\ line' = TRUE
    /\ UNCHANGED <<enabled, counts, u8HifRXDone, pc, reading, delivered, fault>>

isr ==
    /\ line /\ enabled
    /\ line' = FALSE
    /\ u8Interrupt' = u8Interrupt + 1
    /\ UNCHANGED <<event, size, bit0, busy, enabled, loaded, u8HifRXDone, pc, reading,
                   delivered, fault>>
----------------------------------------------------------------------------
(* hif_handle_isr.  The decrement is a load and a store, which the         *)
(* interrupt may come between; it is done before the event is handled.     *)

\* Mutant: the count is decremented when the event has been handled.
After_handling(place) ==
    CASE place = "loop" -> "control"
      [] place = "handled" -> "load"
      [] place = "load" -> "store"
      [] place = "store" -> "loop"

After(place) ==
    CASE place = "loop" -> "load"
      [] place = "load" -> "store"
      [] place = "store" -> "control"
      [] place = "handled" -> "loop"

hif_handle_isr ==
    /\ pc = "main" /\ pc' = "loop"
    /\ UNCHANGED <<firmware, enabled, counts, u8HifRXDone, reading, delivered, fault>>

TestCount ==
    /\ pc = "loop"
    /\ pc' = IF u8Interrupt # 0 THEN After("loop") ELSE "main"
    /\ UNCHANGED <<firmware, enabled, counts, u8HifRXDone, reading, delivered, fault>>

LoadCount ==
    /\ pc = "load" /\ pc' = After("load")
    /\ loaded' = u8Interrupt
    /\ UNCHANGED <<firmware, enabled, u8Interrupt, u8HifRXDone, reading, delivered, fault>>

StoreCount ==
    /\ pc = "store" /\ pc' = After("store")
    /\ u8Interrupt' = loaded - 1
    /\ UNCHANGED <<firmware, enabled, loaded, u8HifRXDone, reading, delivered, fault>>

\* hif_isr came back without an error.
Handled ==
    /\ pc = "handled" /\ pc' = After("handled")
    /\ UNCHANGED <<firmware, enabled, counts, u8HifRXDone, reading, delivered, fault>>
----------------------------------------------------------------------------
(* hif_isr up to the call of the callback.  On an error it is called       *)
(* again, for ever.                                                        *)

\* The access fails, if it may.
Fails(place) == fault = place /\ fault' = "none"

\* The register cannot be read, or shows no event ("False interrupt").
ControlFails ==
    /\ pc = "control"
    /\ \/ Fails("control")
       \/ ~bit0 /\ UNCHANGED fault
    /\ UNCHANGED <<firmware, enabled, counts, u8HifRXDone, pc, reading, delivered>>

ReadControl ==
    /\ pc = "control" /\ bit0
    /\ enabled' = FALSE
    /\ pc' = "clear"
    /\ UNCHANGED <<firmware, counts, u8HifRXDone, reading, delivered, fault>>

\* The interrupt stays disabled.
ClearFails ==
    /\ pc = "clear" /\ Fails("clear")
    /\ pc' = "control"
    /\ UNCHANGED <<firmware, enabled, counts, u8HifRXDone, reading, delivered>>

\* Mutant: the bit is left set.
ClearBit_keeps ==
    /\ pc = "clear" /\ pc' = "address"
    /\ u8HifRXDone' = TRUE
    /\ UNCHANGED <<firmware, enabled, counts, reading, delivered, fault>>

ClearBit ==
    /\ pc = "clear" /\ pc' = "address"
    /\ bit0' = FALSE
    /\ u8HifRXDone' = TRUE
    /\ UNCHANGED <<event, size, busy, line, enabled, counts, reading, delivered, fault>>

\* The bit is cleared already when the event is tried again.
AddressFails ==
    /\ pc = "address" /\ Fails("address")
    /\ enabled' = TRUE
    /\ pc' = "control"
    /\ UNCHANGED <<firmware, counts, u8HifRXDone, reading, delivered>>

ReadAddress ==
    /\ pc = "address" /\ pc' = "receive"
    /\ current' = event /\ expected' = size /\ pieces' = 0
    /\ UNCHANGED <<firmware, enabled, counts, u8HifRXDone, read, delivered, fault>>
----------------------------------------------------------------------------
(* The callback: hif_receive, then the application, for each piece.        *)

\* Mutant: the firmware gets its memory back with the first piece.
IsDone_first == TRUE

\* The callback's isDone, or the end of the event.
IsDone == pieces + 1 = expected

hif_receive ==
    /\ pc = "receive"
    /\ read' = event
    /\ pieces' = pieces + 1
    /\ pc' = IF IsDone THEN "done" ELSE "call"
    /\ UNCHANGED <<firmware, enabled, counts, u8HifRXDone, current, expected, delivered,
                   fault>>

\* The callback returns without calling the application.
ReceiveFails ==
    /\ pc = "receive" /\ Fails("receive")
    /\ pc' = "returned"
    /\ UNCHANGED <<firmware, enabled, counts, u8HifRXDone, reading, delivered>>

(* hif_set_rx_done: the driver's flag is reset and the interrupt enabled   *)
(* before the firmware is told.                                            *)
hif_set_rx_done ==
    /\ u8HifRXDone' = FALSE /\ enabled' = TRUE
    /\ busy' = FALSE
    /\ UNCHANGED <<event, size, bit0, line, counts, reading, delivered, fault>>

\* The firmware is never told.
SetRxDoneFails ==
    /\ Fails("done")
    /\ u8HifRXDone' = FALSE /\ enabled' = TRUE
    /\ UNCHANGED <<firmware, counts, reading, delivered>>

\* With the last piece: an error keeps what was read from the application.
DoneOfReceive ==
    /\ pc = "done"
    /\ \/ hif_set_rx_done /\ pc' = "call"
       \/ SetRxDoneFails /\ pc' = "returned"

\* The application is called with the piece that was read.
CallBack ==
    /\ pc = "call"
    /\ delivered' = Append(delivered, [of |-> current, piece |-> pieces, found |-> read])
    /\ pc' = IF pieces < expected THEN "next" ELSE "returned"
    /\ UNCHANGED <<firmware, enabled, counts, u8HifRXDone, reading, fault>>

\* The head of received data is for the driver only.
ReadHead ==
    /\ pc = "call" /\ pieces = 1 /\ expected > 1
    /\ pc' = "next"
    /\ UNCHANGED <<firmware, enabled, counts, u8HifRXDone, reading, delivered, fault>>

NextPiece ==
    /\ pc = "next" /\ pc' = "receive"
    /\ UNCHANGED <<firmware, enabled, counts, u8HifRXDone, reading, delivered, fault>>

\* The socket was closed or is a later one's: hif_receive(0, NULL, 0, 1).
GiveUp ==
    /\ pc = "next" /\ pc' = "returned"
    /\ hif_set_rx_done \/ SetRxDoneFails

\* A receive error has no data: the callback returns, RX done is not set.
LeaveRest ==
    /\ pc = "next" /\ pc' = "returned"
    /\ UNCHANGED <<firmware, enabled, counts, u8HifRXDone, reading, delivered, fault>>

\* Mutant: hif_isr trusts the callback to have set RX done.
CallbackReturned_trusts ==
    /\ pc = "returned" /\ pc' = "handled"
    /\ UNCHANGED <<firmware, enabled, counts, u8HifRXDone, reading, delivered, fault>>

\* hif_isr looks whether the callback has set RX done, and does it if not.
CallbackReturned ==
    /\ pc = "returned"
    /\ \/ /\ u8HifRXDone
          /\ \/ hif_set_rx_done /\ pc' = "handled"
             \/ SetRxDoneFails /\ pc' = "control"
       \/ /\ ~u8HifRXDone /\ pc' = "handled"
          /\ UNCHANGED <<firmware, enabled, counts, u8HifRXDone, reading, delivered, fault>>
----------------------------------------------------------------------------
Host ==
    \/ hif_handle_isr \/ TestCount \/ LoadCount \/ StoreCount \/ Handled
    \/ ReadControl \/ ClearBit \/ ReadAddress
    \/ hif_receive \/ DoneOfReceive \/ CallBack \/ ReadHead
    \/ NextPiece \/ GiveUp \/ LeaveRest \/ CallbackReturned

Faulty == ControlFails \/ ClearFails \/ AddressFails \/ ReceiveFails

Next == Raise \/ isr \/ Host \/ Faulty

Spec == Init /\ [][Next]_vars

(* The main loop goes on, and a pending enabled interrupt is served.  The  *)
(* firmware need not have anything to say.                                 *)
FairSpec == Spec /\ WF_vars(Host) /\ WF_vars(isr)
----------------------------------------------------------------------------
\* The fields, and that at most one interrupt is ever counted.
TypeOK ==
    /\ event \in 0..MaxEvents /\ size \in 0..MaxPieces
    /\ {bit0, busy, line, enabled, u8HifRXDone} \subseteq BOOLEAN
    /\ fault \in Accesses \cup {"none"}
    /\ u8Interrupt \in 0..1 /\ loaded \in 0..1
    /\ pc \in {"main", "loop", "load", "store", "control", "clear", "address", "receive",
               "done", "call", "next", "returned", "handled"}
    /\ current \in 0..event /\ expected \in 0..MaxPieces /\ pieces \in 0..MaxPieces
    /\ read \in 0..event
    /\ \A i \in DOMAIN delivered :
        delivered[i] \in [of : 1..event, piece : 1..MaxPieces, found : 1..event]

(* The interrupt comes between the load and the store of the decrement, or *)
(* while it is disabled, and still no event is forgotten: one whose bit is *)
(* set has its edge latched, is counted, or is about to be read.           *)
InterruptNotLost ==
    bit0 => line \/ u8Interrupt > 0 \/ pc \in {"control", "clear"}

(* The application is called with the pieces of each event in their order, *)
(* none of them twice, and each holds what the firmware wrote for the      *)
(* event that hif_isr was handling: the memory is not given back before    *)
(* its last read, whatever fails on the bus.                               *)
DeliveredInOrder ==
    /\ \A i \in DOMAIN delivered : delivered[i].found = delivered[i].of
    /\ \A i, j \in DOMAIN delivered : i < j =>
        \/ delivered[i].of < delivered[j].of
        \/ delivered[i].of = delivered[j].of /\ delivered[i].piece < delivered[j].piece

(* The faults that hif_isr recovers from by trying again.  When the address *)
(* of an event cannot be read, or RX done not be written at its end, the    *)
(* bit is cleared already: every later attempt is a false interrupt, and    *)
(* the main loop never runs again.                                          *)
Recoverable == fault \notin {"address", "done"}

(* The firmware always gets its memory back, so that it can go on, though  *)
(* a callback may stop reading at any piece and though the registers or    *)
(* the data may once be unreadable.                                        *)
MemoryGivenBack == Recoverable => (busy ~> ~busy)

(* m2m_wifi_handle_events returns to the main loop.                        *)
HandlerReturns == Recoverable => []<>(pc = "main")
============================================================================
