---------------------------- MODULE MCFanControl -----------------------------
(* Instance of FanControl: maps of three entries (seven in the code) and two *)
(* samples (four). A map from the cloud may be shorter than the default one.  *)
EXTENDS FanControl

Entry(a, s) == [above |-> a, speed |-> s]

MCDefaultMap == <<Entry(0, 0), Entry(24000, 1000), Entry(26000, 3000)>>

\* A speed below 961 rpm has a count of more than 13 bits.
MCMaps == {<<>>, <<Entry(0, 900), Entry(25000, 1000)>>}
=============================================================================
