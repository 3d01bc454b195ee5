------------------------------ MODULE MCClient ------------------------------
(* Instance of ClientTask for TLC: two connections, so that the client can be *)
(* on a second one and run out of sockets; two packets in flight in each      *)
(* direction, so that one may overtake an answer that is awaited; packet ids  *)
(* that wrap.                                                                 *)
EXTENDS ClientTask

=============================================================================
