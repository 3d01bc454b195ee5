------------------------------- MODULE MCWifi -------------------------------
(* Instance of WifiTask for TLC.  Two sockets suffice to have one kept and    *)
(* one connecting, and to run out of both; session ids wrap after three       *)
(* connections.  The waits keep the order of the code: the reconnect wait is  *)
(* the longest.                                                               *)
EXTENDS WifiTask

MCLengths == {1, 3}
MCReadTimeouts == {0, 1}

=============================================================================
