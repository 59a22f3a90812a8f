------------------------- MODULE MCWifiCredentials -------------------------
(* Three networks for a ring of two slots, so that entries are replaced. *)
EXTENDS WifiCredentials

CONSTANTS n1, p1

McSecret == [s \in Networks |-> IF s = n1 THEN NoPass ELSE p1]
=============================================================================
