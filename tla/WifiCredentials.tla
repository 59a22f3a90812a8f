-------------------------- MODULE WifiCredentials --------------------------
(***************************************************************************)
(* The saved networks: the ring of slots in NVS (nvs_rw.hpp), the pass of  *)
(* wifi_connect_saved_any over it (wifi.hpp), and the settings screen that *)
(* adds to it (wifi_setting.hpp).  Every write to NVS is a step, and a     *)
(* reset may fall between two; nvs_mutex keeps readers out of a save.      *)
(*                                                                         *)
(* The pass, at boot or of the retry task, and the screen share the one    *)
(* configuration and the one WIFI_CONNECTED_BIT, and only wifi_set_sta     *)
(* excludes itself (s_wifi_op_mutex): what either waits for may be the     *)
(* other's connection.  Module WifiBle models the driver and the event     *)
(* task in detail; here an access point answers or not, and its events     *)
(* are handled some time later.                                            *)
(***************************************************************************)
EXTENDS Naturals, Sequences

CONSTANTS
    Networks, Passwords,
    NoName,      \* no wifi_ssid_<i>
    NoPass,      \* no wifi_pass_<i>: the empty password
    Capacity,    \* slots of the ring, 5 in the code
    Secret,      \* the password each access point wants
    Moving,      \* access points that come into reach and leave it
    MaxEvents,   \* bound: events the event task is behind
    MaxResets, MaxTyped  \* bounds: resets, connects by hand

ASSUME CapacityAssumption == Capacity \in Nat \ {0}
ASSUME PasswordAssumption == NoPass \in Passwords
ASSUME NameAssumption     == NoName \notin Networks
ASSUME SecretAssumption   == Secret \in [Networks -> Passwords]
ASSUME MovingAssumption   == Moving \subseteq Networks
ASSUME BoundAssumption    == MaxEvents \in Nat /\ MaxResets \in Nat /\ MaxTyped \in Nat

Slot == 0..(Capacity - 1)

VARIABLES
    ssid, pass, next,  \* the keys wifi_ssid_<i>, wifi_pass_<i>, wifi_next
    saver, new,        \* where save_wifi_credential is, and what it saves
    before,            \* history: the ring when the save began to write
    config,            \* the configuration of the station
    link,              \* the network it is associated with, or NoName
    bit,               \* WIFI_CONNECTED_BIT
    events,            \* networks whose GOT_IP is not yet handled
    up,                \* the access points in reach
    screen,            \* set_wifi_info: "idle", "wait", "save"
    trial,             \* wifi_connect_saved_any: "idle", "try", "wait"
    creds, at,         \* its list, and its place in it
    mixed,             \* history: another connection may have ended the screen's wait
    doubtful,          \* history: networks saved then, or cut short by a reset
    typed, resets

ring    == <<ssid, pass, next>>
save    == <<saver, new, before>>
radio   == <<config, link, bit, events, up>>
tries   == <<trial, creds, at>>
history == <<mixed, doubtful, typed, resets>>
vars    == <<ring, save, radio, screen, tries, history>>

Entry(s, p) == [ssid |-> s, pass |-> p]
Nothing     == Entry(NoName, NoPass)
Good(e)     == e.ssid \in Networks /\ e.pass = Secret[e.ssid]
Stored(e)   == e.ssid # NoName
NoRing      == [ssid |-> [i \in Slot |-> NoName], pass |-> [i \in Slot |-> NoPass], next |-> 0]
Ring        == [ssid |-> ssid, pass |-> pass, next |-> next]

\* get_wifi_credentials: the slots that have a name, in the order of the slots.
Credentials == SelectSeq([i \in 1..Capacity |-> Entry(ssid[i - 1], pass[i - 1])], Stored)

Init ==
    /\ ssid = [i \in Slot |-> NoName] /\ pass = [i \in Slot |-> NoPass] /\ next = 0
    /\ saver = "idle" /\ new = Nothing /\ before = NoRing
    /\ config = Nothing /\ link = NoName /\ bit = FALSE /\ events = <<>>
    /\ up = Networks
    /\ screen = "idle" /\ trial = "idle" /\ creds = <<>> /\ at = 0
    /\ mixed = FALSE /\ doubtful = {} /\ typed = 0 /\ resets = 0

-----------------------------------------------------------------------------
(* save_wifi_credential.                                                   *)

SaveStep(p, q) ==
    /\ saver = p /\ saver' = q
    /\ UNCHANGED <<new, radio, screen, tries, mixed, typed, resets>>

\* The last write of a save makes its network sound, if the wait was for it.
Finish == doubtful' = IF mixed THEN doubtful \cup {new.ssid} ELSE doubtful \ {new.ssid}

\* Mutant: only the slots below wifi_next are searched.
SlotsBelowNext == {i \in Slot : i < next /\ ssid[i] = new.ssid}

\* The slots are searched for the name.
SlotsOfNew == {i \in Slot : ssid[i] = new.ssid}

Find ==
    /\ SaveStep("find", IF SlotsOfNew # {} THEN "update" ELSE "name")
    /\ UNCHANGED <<ring, before, doubtful>>

\* A known network: its password, one write.
UpdatePass ==
    /\ SaveStep("update", "done")
    /\ \E i \in SlotsOfNew : pass' = [pass EXCEPT ![i] = new.pass]
    /\ Finish
    /\ UNCHANGED <<ssid, next, before>>

\* A new one: name, password and index, three writes.
WriteName ==
    /\ SaveStep("name", "pass")
    /\ ssid' = [ssid EXCEPT ![next] = new.ssid] /\ before' = Ring
    /\ UNCHANGED <<pass, next, doubtful>>

WritePass ==
    /\ SaveStep("pass", "next")
    /\ pass' = [pass EXCEPT ![next] = new.pass]
    /\ UNCHANGED <<ssid, next, before, doubtful>>

\* Mutant: the index stops at the last slot.
FollowingStops == IF next + 1 < Capacity THEN next + 1 ELSE next

Following == (next + 1) % Capacity

WriteNext ==
    /\ SaveStep("next", "done")
    /\ next' = Following
    /\ Finish
    /\ UNCHANGED <<ssid, pass, before>>

-----------------------------------------------------------------------------
(* The station.                                                            *)

\* Mutant: the bit of the former connection stays.
SetStaKeepsBit(e) == config' = e /\ link' = NoName /\ UNCHANGED <<bit, events, up>>

\* wifi_set_sta: the bit is cleared, the link is cut, the new configuration is tried.
\* What the old link has sent to the event task is still there.
SetSta(e) == config' = e /\ link' = NoName /\ bit' = FALSE /\ UNCHANGED <<events, up>>

\* An access point with the right password lets the station in.
Join ==
    /\ link = NoName /\ Good(config) /\ config.ssid \in up /\ Len(events) < MaxEvents
    /\ link' = config.ssid /\ events' = Append(events, config.ssid)
    /\ UNCHANGED <<ring, save, config, bit, up, screen, tries, history>>

\* The event task sets the bit.
GotIp ==
    /\ events # <<>> /\ events' = Tail(events) /\ bit' = TRUE
    /\ UNCHANGED <<ring, save, config, link, up, screen, tries, history>>

\* The link is lost; the event of that comes after the others.
Lose ==
    /\ link # NoName /\ link' = NoName /\ bit' = FALSE /\ events = <<>>
    /\ UNCHANGED <<ring, save, config, events, up, screen, tries, history>>

\* An access point comes into reach or leaves it.
Move ==
    /\ \E s \in Moving : up' = IF s \in up THEN up \ {s} ELSE up \cup {s}
    /\ link \in up' \cup {NoName}
    /\ UNCHANGED <<ring, save, config, link, bit, events, screen, tries, history>>

-----------------------------------------------------------------------------
(* The settings screen, set_wifi_info.                                     *)

ConnectByHand(s, p) ==
    /\ screen = "idle" /\ screen' = "wait"
    /\ typed < MaxTyped /\ typed' = typed + 1
    /\ SetSta(Entry(s, p)) /\ new' = Entry(s, p)
    /\ mixed' = (events # <<>>)
    /\ UNCHANGED <<ring, saver, before, tries, doubtful, resets>>

\* Within 10 s the bit is set, and the network is saved; or it is not.
WaitEnds ==
    /\ screen = "wait"
    /\ IF bit THEN screen' = "save" /\ saver' = "find" /\ UNCHANGED new
       ELSE screen' = "idle" /\ new' = Nothing /\ UNCHANGED saver
    /\ UNCHANGED <<ring, before, radio, tries, history>>

SaveReturns ==
    /\ saver = "done" /\ saver' = "idle"
    /\ screen' = "idle" /\ new' = Nothing /\ before' = NoRing
    /\ UNCHANGED <<ring, radio, tries, history>>

-----------------------------------------------------------------------------
(* wifi_connect_saved_any, at boot and by the retry task while offline.    *)

\* nvs_mutex keeps it out of a save.
StartTrial ==
    /\ trial = "idle" /\ ~bit /\ saver \in {"idle", "done"}
    /\ Credentials # <<>> /\ creds' = Credentials /\ at' = 1
    /\ trial' = "try"
    /\ UNCHANGED <<ring, save, radio, screen, history>>

TryNext ==
    /\ trial = "try" /\ trial' = "wait"
    /\ SetSta(creds[at])
    /\ mixed' = (mixed \/ screen = "wait")
    /\ UNCHANGED <<ring, save, screen, creds, at, doubtful, typed, resets>>

EndTrial == trial' = "idle" /\ creds' = <<>> /\ at' = 0

Connected ==
    /\ trial = "wait" /\ bit /\ EndTrial
    /\ UNCHANGED <<ring, save, radio, screen, history>>

\* An access point that is in reach and gets its password answers in time, if nobody
\* changes the configuration.
Answers == config = creds[at] /\ Good(config) /\ config.ssid \in up

\* Mutant: the first failure ends the pass.
FailedEnds ==
    /\ trial = "wait" /\ ~bit /\ ~Answers
    /\ EndTrial
    /\ UNCHANGED <<ring, save, radio, screen, history>>

\* 12 s, or WIFI_FAIL_BIT; the next network is tried.
Failed ==
    /\ trial = "wait" /\ ~bit /\ ~Answers
    /\ IF at < Len(creds) THEN trial' = "try" /\ at' = at + 1 /\ UNCHANGED creds
       ELSE EndTrial
    /\ UNCHANGED <<ring, save, radio, screen, history>>

\* A reset: what is in NVS stays.
Reset ==
    /\ resets < MaxResets /\ resets' = resets + 1
    /\ doubtful' = IF saver \in {"pass", "next"} THEN doubtful \cup {new.ssid} ELSE doubtful
    /\ saver' = "idle" /\ new' = Nothing
    /\ config' = Nothing /\ link' = NoName /\ bit' = FALSE /\ events' = <<>>
    /\ screen' = "idle" /\ trial' = "idle" /\ creds' = <<>> /\ at' = 0
    /\ before' = NoRing /\ mixed' = FALSE
    /\ UNCHANGED <<ring, up, typed>>

Save == Find \/ UpdatePass \/ WriteName \/ WritePass \/ WriteNext \/ SaveReturns
Tries == StartTrial \/ TryNext \/ Connected \/ Failed

Next == \/ Save \/ Tries \/ Join \/ GotIp \/ Lose \/ Move \/ WaitEnds \/ Reset
        \/ \E s \in Networks, p \in Passwords : ConnectByHand(s, p)

\* The tasks and the driver run, the waits have a time limit that no coming and going of
\* access points puts off, and the retry task comes back as long as the device is
\* offline.
Spec == /\ Init /\ [][Next]_vars
        /\ WF_vars(Save) /\ SF_vars(Tries) /\ WF_vars(WaitEnds)
        /\ WF_vars(Join) /\ WF_vars(GotIp)

-----------------------------------------------------------------------------
TypeOK ==
    /\ ssid \in [Slot -> Networks \cup {NoName}] /\ pass \in [Slot -> Passwords]
    /\ next \in Slot
    /\ saver \in {"idle", "find", "update", "name", "pass", "next", "done"}
    /\ new \in [ssid : Networks \cup {NoName}, pass : Passwords]
    /\ screen \in {"idle", "wait", "save"} /\ trial \in {"idle", "try", "wait"}
    /\ mixed \in BOOLEAN /\ doubtful \subseteq Networks
    /\ typed \in 0..MaxTyped /\ resets \in 0..MaxResets

\* No network is stored twice, whatever is saved in whatever order and wherever a reset
\* cuts a save short: a password that is corrected is corrected for every later pass.
Unique == \A i, j \in Slot : ssid[i] = ssid[j] /\ ssid[i] # NoName => i = j

\* A stored password has opened its network, unless a reset has cut the save short or
\* another connection came into the screen's wait (wifi_setting.hpp:278 waits for a bit
\* that does not tell the network).
SavedWorked == \A i \in Slot : ssid[i] # NoName =>
    \/ Good(Entry(ssid[i], pass[i]))
    \/ ssid[i] \in doubtful
    \/ saver # "idle" /\ new.ssid = ssid[i] /\ (mixed \/ saver = "pass")

\* A saved network that is in reach for good is found, whatever stands before it in the
\* list, entries with a wrong password included.
Reachable == \E i \in DOMAIN Credentials : Good(Credentials[i]) /\ Credentials[i].ssid \in up
Reconnects == <>[]Reachable => []<>bit

\* The ring is the queue of module CredentialStore: the stored slots in their order from
\* wifi_next on and round to it.  From wifi_next on all are stored, once the ring has
\* been round, or the one that a reset has cut short, or none; below it, all.  A save
\* that adds a network is one step for every reader, and a reset in it loses at most
\* the network that was to be replaced anyway.
Visible  == IF saver \in {"pass", "next"} THEN before ELSE Ring
Heads(r) == IF r.ssid[r.next] = NoName THEN 0
            ELSE IF \E k \in Slot : r.ssid[k] = NoName THEN 1 ELSE Capacity - r.next
Place(r, i) == IF i <= Heads(r) THEN r.next + i - 1 ELSE i - Heads(r) - 1
Queue(r) == [i \in 1..(Heads(r) + r.next) |->
                Entry(r.ssid[Place(r, i)], r.pass[Place(r, i)])]
Torn(r) == Len(Queue(r)) < Capacity /\ r.ssid[r.next] # NoName
Store == INSTANCE CredentialStore WITH saved <- Queue(Visible), torn <- Torn(Visible)
IsQueue == Store!Spec
=============================================================================
