---------------------------- MODULE BlockingLink ----------------------------
(***************************************************************************)
(* What wifi_task.h promises the client: blocking calls over one current   *)
(* connection, and a status that the client can ask for.  Nothing is said  *)
(* of the WINC1500, of hold-off times or of the receive buffer.            *)
(*                                                                         *)
(* The client runs at place "client"; everything else happens while it is  *)
(* blocked in a call or while the main loop is elsewhere ("loop").         *)
(***************************************************************************)
CONSTANTS Socks, None

VARIABLES
    status,   \* "ready", "error" (wifi_has_error) or "busy" (neither)
    place,    \* "loop", "client" or "blocked"
    op,       \* the blocking call in progress, or "none"
    result,   \* what the last call of this turn of the client returned
    open,     \* the open connections
    current   \* the connection that reads and sends use

linkVars == <<status, place, op, result, open, current>>

Statuses == {"ready", "error", "busy"}
Ops == {"connect", "read", "send"}

LinkInit ==
    /\ status = "busy" /\ place = "loop" /\ op = "none" /\ result = "none"
    /\ open = {} /\ current = None

\* The status changes under a client that is not running, never under one
\* that is.
StatusChange ==
    /\ place # "client"
    /\ status' \in Statuses
    /\ UNCHANGED <<place, op, result, open, current>>

\* A call on a link that is not ready fails at once.
Refuse ==
    /\ place = "client" /\ status # "ready"
    /\ result' = "fail"
    /\ UNCHANGED <<status, place, op, open, current>>

\* A read may be served, or refused, without blocking.
ReadAtOnce ==
    /\ place = "client" /\ status = "ready"
    /\ result' \in {"ok", "fail"}
    /\ UNCHANGED <<status, place, op, open, current>>

\* The time request returns before it is answered.
RequestTime ==
    /\ place = "client" /\ status = "ready"
    /\ status' = "busy"
    /\ UNCHANGED <<place, op, result, open, current>>

Begin(o) ==
    /\ place = "client" /\ status = "ready"
    /\ place' = "blocked" /\ op' = o /\ result' = "none"
    /\ status' \in {"busy", "error"}
    /\ UNCHANGED <<open, current>>

Return(o, res) ==
    /\ place = "blocked" /\ op = o
    /\ place' = "client" /\ op' = "none" /\ result' = res

\* Success is returned on a ready link only, and a successful connect makes a
\* connection that was not open before the current one.
Succeed(o) ==
    /\ Return(o, "ok")
    /\ status = "ready" /\ UNCHANGED status
    /\ IF o = "connect"
       THEN \E s \in Socks \ open : open' = open \cup {s} /\ current' = s
       ELSE UNCHANGED <<open, current>>

\* A failure leaves no connection behind and takes none away.  A read or a
\* send that fails leaves the link ready or in error.
Fail(o) ==
    /\ Return(o, "fail")
    /\ status' = IF o # "connect" /\ status = "busy" THEN "ready" ELSE status
    /\ UNCHANGED <<open, current>>

ToClient ==
    /\ place = "loop"
    /\ place' = "client"
    /\ UNCHANGED <<status, op, result, open, current>>

ToLoop ==
    /\ place = "client"
    /\ place' = "loop" /\ result' = "none"
    /\ UNCHANGED <<status, op, open, current>>

CallEnds == \E o \in Ops : Succeed(o) \/ Fail(o)

LinkNext ==
    \/ StatusChange \/ Refuse \/ ReadAtOnce \/ RequestTime
    \/ \E o \in Ops : Begin(o)
    \/ CallEnds \/ ToClient \/ ToLoop

\* Every call returns, and the client gets its turn again and again.
LinkFairness == WF_linkVars(CallEnds) /\ WF_linkVars(ToClient)

LinkSpec == LinkInit /\ [][LinkNext]_linkVars /\ LinkFairness

=============================================================================
