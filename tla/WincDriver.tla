----------------------------- MODULE WincDriver -----------------------------
(***************************************************************************)
(* The host side of the WINC1500 socket driver (winc1500/socket/source/    *)
(* socket.c), as far as wifi_task.c uses it: the table of TCP sockets with *)
(* their session ids, the flag that a receive is pending, and the requests *)
(* the module's firmware has accepted and not answered.                    *)
(*                                                                         *)
(* The firmware is external: it answers an outstanding request at any time *)
(* or never, and may refuse a request (SOCKET_REQUEST fails).              *)
(***************************************************************************)
EXTENDS Integers, FiniteSets

CONSTANTS
    NumSockets,   \* TCP_SOCK_MAX: size of the TCP part of gastrSockets (7)
    MaxSession,   \* largest session id, 2^16 - 1 in the code
    MaxInflight   \* requests the firmware accepts before it refuses more

ASSUME NumSocketsAssumption  == NumSockets \in Nat \ {0}
ASSUME MaxSessionAssumption  == MaxSession \in Nat \ {0}
ASSUME MaxInflightAssumption == MaxInflight \in Nat

VARIABLES
    session,      \* gastrSockets[s].u16SessionID, 0 while bIsUsed = 0
    nextSock,     \* u8NextTcpSock, where the next search starts
    lastSession,  \* gu16SessionID
    recvPending,  \* the sockets with bIsRecvPending set
    inflight      \* requests sent to the firmware and not yet answered

driverVars == <<session, nextSock, lastSession, recvPending, inflight>>

-----------------------------------------------------------------------------

Sockets == 0 .. NumSockets - 1
NoSock  == -1                          \* SOCK_ERR_INVALID

\* Requests that carry a socket carry its session id too.
SocketRequest(op, s) == [op |-> op, sock |-> s, id |-> session[s]]
PlainRequest(op)     == [op |-> op, sock |-> NoSock, id |-> 0]

Requests ==
    [op : {"connect", "recv", "send"}, sock : Sockets, id : 1 .. MaxSession]
        \cup {PlainRequest(op) : op \in {"time", "dns"}}

\* bIsUsed: socket() sets it together with a non-zero session id and close()
\* clears both, so one field stands for the two.
InUse(s) == session[s] # 0

DriverTypeOK ==
    /\ session \in [Sockets -> 0 .. MaxSession]
    /\ nextSock \in Sockets
    /\ lastSession \in 0 .. MaxSession
    /\ recvPending \subseteq Sockets
    /\ inflight \subseteq Requests

\* socketInit: the table is zeroed, on the first call only.
DriverInit ==
    /\ session = [s \in Sockets |-> 0]
    /\ nextSock = 0
    /\ lastSession = 0
    /\ recvPending = {}
    /\ inflight = {}

-----------------------------------------------------------------------------
(* Requests to the firmware *)

\* SOCKET_REQUEST(r) with its outcome. A refused request leaves no trace in
\* the firmware.
Request(r, accepted) ==
    /\ accepted => Cardinality(inflight) < MaxInflight
    /\ inflight' = IF accepted THEN inflight \cup {r} ELSE inflight

\* The k-th socket the search of socket() looks at.
Slot(k) == IF nextSock + k < NumSockets THEN nextSock + k
                                        ELSE nextSock + k - NumSockets

\* ++gu16SessionID skips 0 when the 16-bit counter wraps.
NextSession == IF lastSession = MaxSession THEN 1 ELSE lastSession + 1

\* s is the socket that socket(AF_INET, SOCK_STREAM, _) returns: the search is
\* round robin over the table.
NextFree(s) ==
    \E k \in Sockets :
        /\ s = Slot(k)
        /\ ~InUse(s)
        /\ \A j \in 0 .. k - 1 : InUse(Slot(j))

\* socket() returns s and connect(s, ...) follows; the caller closes s again
\* when the request is refused.
OpenAndConnect(s, accepted) ==
    /\ NextFree(s)
    /\ nextSock' = IF s = NumSockets - 1 THEN 0 ELSE s + 1
    /\ lastSession' = NextSession
    /\ session' = IF accepted THEN [session EXCEPT ![s] = NextSession] ELSE session
    /\ recvPending' = recvPending \ {s}
    /\ Request([op |-> "connect", sock |-> s, id |-> NextSession], accepted)

\* socket() returns -1: the search went round the whole table.
NoFreeSocket == \A s \in Sockets : InUse(s)

\* close(s): the entry is zeroed. What the firmware still has in flight for
\* the session can be answered later.
CloseSocket(s) ==
    /\ session' = [session EXCEPT ![s] = 0]
    /\ recvPending' = recvPending \ {s}

\* recv(s, ...): refused on a socket that is not open; no new request goes out
\* while one is pending, and the flag stays set when the request is refused.
Receive(s, accepted) ==
    \/ /\ ~InUse(s) /\ ~accepted
       /\ UNCHANGED <<recvPending, inflight>>
    \/ /\ InUse(s)
       /\ recvPending' = recvPending \cup {s}
       /\ IF s \in recvPending
          THEN accepted /\ UNCHANGED inflight
          ELSE Request(SocketRequest("recv", s), accepted)

\* send(s, ...)
Send(s, accepted) ==
    /\ accepted => InUse(s)
    /\ Request(SocketRequest("send", s), accepted)

-----------------------------------------------------------------------------
(* Answers of the firmware, as m2m_ip_cb takes them *)

Answered(r) ==
    /\ r \in inflight
    /\ inflight' = inflight \ {r}

\* An answer is lost: the firmware drops the request.
AnswerLost ==
    /\ \E r \in inflight : inflight' = inflight \ {r}
    /\ UNCHANGED <<session, nextSock, lastSession, recvPending>>

\* The driver forwards a RECV or SEND answer only for the current session.
CurrentSession(r) == session[r.sock] = r.id

\* Any RECV answer clears the pending flag, before the session is compared.
RecvAnswered(r) ==
    /\ r.op = "recv"
    /\ Answered(r)
    /\ recvPending' = recvPending \ {r.sock}

=============================================================================
