-------------------------- MODULE CredentialStore --------------------------
(***************************************************************************)
(* What the store of Wi-Fi credentials promises to the code that saves and *)
(* reads them (save_wifi_credential and get_wifi_credentials of            *)
(* components/services/nvs/include/nvs_rw.hpp): a queue of networks, the   *)
(* oldest first.  Module WifiCredentials implements it by a ring of slots  *)
(* in NVS.                                                                 *)
(***************************************************************************)
EXTENDS Naturals, Sequences

CONSTANTS Networks, Passwords, Capacity

VARIABLES
    saved,  \* the credentials, in the order in which they will be replaced
    torn,   \* the first of them was cut short by a reset and is the next to go
    resets

Known(s) == \E i \in DOMAIN saved : saved[i].ssid = s

Init == saved = <<>> /\ torn = FALSE /\ resets = 0

\* A known network gets a new password and keeps its place.
Update(s, p) ==
    /\ Known(s)
    /\ saved' = [i \in DOMAIN saved |->
                    IF saved[i].ssid = s THEN [saved[i] EXCEPT !.pass = p] ELSE saved[i]]
    /\ UNCHANGED <<torn, resets>>

\* A new one is the last; it takes the room of a torn entry, or of the oldest one.
Add(s, p) ==
    /\ ~Known(s)
    /\ saved' = Append(IF torn \/ Len(saved) = Capacity THEN Tail(saved) ELSE saved,
                       [ssid |-> s, pass |-> p])
    /\ torn' = FALSE /\ UNCHANGED resets

\* A reset in the middle of Add: the network may be stored with a password that is not
\* its own, and one other entry, the oldest, may be lost.
Tear(s, p) ==
    /\ ~Known(s)
    /\ saved' = <<[ssid |-> s, pass |-> p]>>
                \o (IF torn \/ Len(saved) = Capacity THEN Tail(saved) ELSE saved)
    /\ torn' = (Len(saved') < Capacity) /\ resets' = resets + 1

Reset == resets' = resets + 1 /\ UNCHANGED <<saved, torn>>

Next == Reset \/ \E s \in Networks, p \in Passwords : Update(s, p) \/ Add(s, p) \/ Tear(s, p)

Spec == Init /\ [][Next]_<<saved, torn, resets>>
=============================================================================
