------------------------------ MODULE WifiLink ------------------------------
(* WifiTask implements BlockingLink.                                         *)
EXTENDS WifiTask

\* The connections the client can use: the one that wifi_connect is still
\* making is not among them.
Usable == {s \in Sockets : InUse(s)} \ {call.s}

LinkStatus ==
    CASE state = "READY" -> "ready"
      [] state = "ERROR" -> "error"
      [] OTHER           -> "busy"

LinkPlace ==
    IF pc = "app" THEN "client"
    ELSE IF call.op = "none" THEN "loop" ELSE "blocked"

LinkOp      == IF call.op = "resolve" THEN "connect" ELSE call.op
LinkCurrent == IF Usable = {} THEN NoSock ELSE sock

Link == INSTANCE BlockingLink WITH
    Socks   <- Sockets,
    None    <- NoSock,
    status  <- LinkStatus,
    place   <- LinkPlace,
    op      <- LinkOp,
    result  <- ret,
    open    <- Usable,
    current <- LinkCurrent

\* The calls of wifi_task.h behave as blocking calls on one current
\* connection: the status holds still while the client runs, success is
\* returned on a ready link only, a failed connect leaves nothing behind, and
\* every call returns.
ImplementsLink == Link!LinkSpec

=============================================================================
