----------------------------- MODULE MCRxBuffer -----------------------------
(* Instance of RxBuffer. The first bytes are small numbers that differ and  *)
(* that also fit as a length, but for that of one packet, which has the high *)
(* bit, as those of SUBACK and PINGRESP have: it goes on with the next byte. *)
EXTENDS RxBuffer

\* PUBACK (two bytes behind the length), PINGRESP (none), and SUBACK, whose
\* length is odd: packet id and one return code.
MCKinds ==
    {[header |-> 4, rest |-> 2], [header |-> 131, rest |-> 0], [header |-> 6, rest |-> 3]}
=============================================================================
