----------------------------- MODULE OpenChat -----------------------------
(***************************************************************************)
(* Open chat: the task of OpenChat::open_chat_task (open_chat.hpp), the    *)
(* table of listeners of mqtt_runtime.cpp it reads through, and the        *)
(* broker.  The task picks a room, adds a listener and subscribes, then    *)
(* loops: pop every queued message, play and show it, read the keys,       *)
(* compose and publish, leave.  The MQTT task fills the queues meanwhile.  *)
(*                                                                         *)
(* Delivery is MQTT QoS 1: a publisher that misses the acknowledgement     *)
(* sends again, and the broker passes both copies on.  A lost connection   *)
(* loses the subscriptions (clean session) and what was on the way.  The   *)
(* screen that runs is the only user of the listener table.  How a         *)
(* subscription survives the client's own interleavings is the business    *)
(* of MqttRuntime; here CONNECTED is handled in one step.                  *)
(*                                                                         *)
(* A message is its sender, its number, its room and its kind: with an id, *)
(* as this program sends it; without one ("anonymous"); or too long for    *)
(* the 512-byte pop buffer ("big": it is cut and then not JSON).           *)
(***************************************************************************)
EXTENDS Integers, Sequences, FiniteSets, SequencesExt

CONSTANTS
  Rooms,      \* topic suffixes of open_chat.hpp:206-211
  Others,     \* the senders that are not this device
  Me,         \* this device, its short_id
  Cap,        \* messages kept by the screen (30 in the code)
  MaxSent,    \* bound: messages per sender
  MaxOwn,     \* bound: messages this device sends
  MaxQueue,   \* bound: messages on the way, and queued for a listener
  MaxRepeats, \* bound: retransmissions, over the whole run
  MaxBreaks,  \* bound: lost connections and stopped clients
  MaxEntries  \* bound: times a room is entered

ASSUME OpenChatAssumption ==
  /\ Me \notin Others
  /\ Cap \in Nat \ {0}
  /\ {MaxSent, MaxQueue, MaxRepeats, MaxBreaks, MaxEntries} \subseteq Nat
  /\ MaxOwn \in 0..MaxSent

VARIABLES
  client,    \* S.client and S.connected: none, offline, online
  subs,      \* rooms the broker holds a subscription of this client for
  air,       \* deliveries on their way to the client, oldest first
  outbox,    \* messages published here and not yet acknowledged
  listeners, \* S.listeners, in the order they were added
  nextId,    \* S.next_listener_id
  pc,        \* where open_chat_task is
  room,      \* selector_state.selected
  lid,       \* listener_id
  hand,      \* the message just popped, being played
  screen,    \* messages, oldest first
  seen,      \* seen_ids
  sent,      \* number of messages each sender has sent
  heard,     \* history: deliveries for the room since its listener was added
  log,       \* history: every message put on the screen since then
  repeats, breaks

netVars == <<client, subs, air, outbox>>
tableVars == <<listeners, nextId>>
viewVars == <<screen, seen, log>>
chatVars == <<netVars, tableVars, viewVars, pc, room, lid, hand, sent, heard,
              repeats, breaks>>

Senders == Others \cup {Me}
ChatKinds == {"id", "anonymous", "big"}
ChatMessage == [from : Senders, n : 1..MaxSent, room : Rooms, kind : ChatKinds]
NoMessage == [from |-> Me, n |-> 0]
HasId(m) == m.kind # "anonymous"
Id(m) == <<m.from, m.n>>

\* The task has a listener for `room` while it is at one of these places.
InRoom == pc \in {"listen", "pump", "play", "input", "compose", "leave"}

ChatInit ==
  /\ client \in {"none", "offline"} /\ subs = {} /\ air = <<>> /\ outbox = {}
  /\ listeners = <<>> /\ nextId = 1
  /\ pc = "start" /\ room \in Rooms /\ lid = 0 /\ hand = NoMessage
  /\ screen = <<>> /\ seen = {} /\ log = <<>> /\ heard = <<>>
  /\ sent = [s \in Senders |-> 0]
  /\ repeats = 0 /\ breaks = 0

(***************************************************************************)
(* The listener table of mqtt_runtime.cpp                                  *)
(***************************************************************************)

\* Mutant: the screen leaves and its listener stays in the table.
WithoutNone(id) == listeners

\* An id is given to one listener only: the entry remove_if erases.
Without(id) ==
  LET at == {i \in DOMAIN listeners : listeners[i].id = id}
  IN  IF at = {} THEN listeners ELSE RemoveAt(listeners, CHOOSE i \in at : TRUE)

\* The first active listener of the topic takes the message, no other one.
FirstFor(r) ==
  LET at == {i \in 1..Len(listeners) : listeners[i].room = r}
  IN  IF at = {} THEN 0 ELSE CHOOSE i \in at : \A j \in at : i <= j

QueuedFor(i, m) == [listeners EXCEPT ![i].queue = Append(@, m)]

\* The messages queued for the current listener.
Waiting ==
  LET at == {i \in DOMAIN listeners : listeners[i].id = lid}
  IN  IF at = {} THEN <<>> ELSE listeners[CHOOSE i \in at : TRUE].queue

(***************************************************************************)
(* The client and the broker                                               *)
(***************************************************************************)

\* CONNECTED: every listener's topic is subscribed again.
Connect ==
  /\ client = "offline"
  /\ client' = "online"
  /\ subs' = {listeners[i].room : i \in 1..Len(listeners)}
  /\ UNCHANGED <<air, outbox, tableVars, viewVars, pc, room, lid, hand, sent,
                 heard, repeats, breaks>>

\* The connection is lost; the outbox keeps what was not acknowledged.
Disconnect ==
  /\ client = "online" /\ breaks < MaxBreaks
  /\ client' = "offline" /\ subs' = {} /\ air' = <<>>
  /\ breaks' = breaks + 1
  /\ UNCHANGED <<outbox, tableVars, viewVars, pc, room, lid, hand, sent,
                 heard, repeats>>

\* mqtt_rt_stop: the Bluetooth fallback takes the client down, outbox included.
StopClient ==
  /\ client # "none" /\ breaks < MaxBreaks
  /\ client' = "none" /\ subs' = {} /\ air' = <<>> /\ outbox' = {}
  /\ breaks' = breaks + 1
  /\ UNCHANGED <<tableVars, viewVars, pc, room, lid, hand, sent, heard,
                 repeats>>

\* The MQTT task hands the oldest delivery to on_event.
OnEvent ==
  /\ client = "online" /\ air # <<>>
  /\ LET m == Head(air)
         i == FirstFor(m.room)
     IN  /\ i # 0 => Len(listeners[i].queue) < MaxQueue
         /\ listeners' = IF i = 0 THEN listeners ELSE QueuedFor(i, m)
         /\ heard' = IF InRoom /\ m.room = room THEN Append(heard, m) ELSE heard
  /\ air' = Tail(air)
  /\ UNCHANGED <<client, subs, outbox, nextId, viewVars, pc, room, lid, hand,
                 sent, repeats, breaks>>

\* The broker passes a message on to this client, if it subscribed.
PassOn(m) ==
  /\ Len(air) < MaxQueue
  /\ air' = IF m.room \in subs THEN Append(air, m) ELSE air

\* Somebody else sends, or sends again what was not acknowledged in time.
OtherSends(s) ==
  /\ \/ /\ sent[s] < MaxSent
        /\ \E r \in subs, k \in ChatKinds :
             PassOn([from |-> s, n |-> sent[s] + 1, room |-> r, kind |-> k])
        /\ sent' = [sent EXCEPT ![s] = @ + 1]
        /\ UNCHANGED repeats
     \/ /\ repeats < MaxRepeats
        /\ \E i \in 1..Len(heard) : heard[i].from = s /\ PassOn(heard[i])
        /\ repeats' = repeats + 1
        /\ UNCHANGED sent
  /\ UNCHANGED <<client, subs, outbox, tableVars, viewVars, pc, room, lid,
                 hand, heard, breaks>>

\* The broker takes a message of the outbox; the acknowledgement may be lost,
\* and the message is then sent again.
BrokerTakes(m) ==
  /\ client = "online" /\ m \in outbox
  /\ PassOn(m)
  /\ \/ outbox' = outbox \ {m} /\ UNCHANGED repeats
     \/ repeats < MaxRepeats /\ repeats' = repeats + 1 /\ UNCHANGED outbox
  /\ UNCHANGED <<client, subs, tableVars, viewVars, pc, room, lid, hand, sent,
                 heard, breaks>>

(***************************************************************************)
(* The task: choosing a room                                               *)
(***************************************************************************)

\* start_notifications and mqtt_rt_resume: the client exists, not connected yet.
Start ==
  /\ pc = "start" /\ pc' = "rooms"
  /\ client' = IF client = "none" THEN "offline" ELSE client
  /\ UNCHANGED <<subs, air, outbox, tableVars, viewVars, room, lid, hand,
                 sent, heard, repeats, breaks>>

\* Up and down move the selection, round the list of rooms.
Move(r) ==
  /\ pc = "rooms" /\ r # room
  /\ room' = r
  /\ UNCHANGED <<netVars, tableVars, viewVars, pc, lid, hand, sent, heard,
                 repeats, breaks>>

\* mqtt_rt_add_listener, under the mutex: a new listener at the end of the table.
EnterRoom ==
  /\ pc = "rooms" /\ pc' = "listen" /\ nextId <= MaxEntries
  /\ listeners' = Append(listeners, [id |-> nextId, room |-> room, queue |-> <<>>])
  /\ lid' = nextId /\ nextId' = nextId + 1
  /\ UNCHANGED <<netVars, viewVars, room, hand, sent, heard, repeats, breaks>>

\* The rest of mqtt_rt_add_listener.
SubscribeRoom ==
  /\ pc = "listen" /\ pc' = "pump"
  /\ subs' = IF client = "online" THEN subs \cup {room} ELSE subs
  /\ UNCHANGED <<client, air, outbox, tableVars, viewVars, room, lid, hand,
                 sent, heard, repeats, breaks>>

\* Back in the list of rooms ends the task; the menu may start it again.
Exit ==
  /\ pc = "rooms" /\ pc' = "ended"
  /\ UNCHANGED <<netVars, tableVars, viewVars, room, lid, hand, sent, heard,
                 repeats, breaks>>

Reopen ==
  /\ pc = "ended" /\ pc' = "start"
  /\ UNCHANGED <<netVars, tableVars, viewVars, room, lid, hand, sent, heard,
                 repeats, breaks>>

(***************************************************************************)
(* The task: in a room                                                     *)
(***************************************************************************)

\* Mutant: the id is remembered and not looked at.
AddMessageAgain(m) ==
  /\ seen' = IF HasId(m) THEN seen \cup {Id(m)} ELSE seen
  /\ log' = Append(log, m)
  /\ screen' = IF Len(screen) < Cap THEN Append(screen, m)
               ELSE Tail(Append(screen, m))

\* add_message: a message with an id shown before is dropped, one without an id
\* never; the oldest message makes room.
AddMessage(m) ==
  IF HasId(m) /\ Id(m) \in seen
  THEN UNCHANGED viewVars
  ELSE /\ seen' = IF HasId(m) THEN seen \cup {Id(m)} ELSE seen
       /\ log' = Append(log, m)
       /\ screen' = IF Len(screen) < Cap THEN Append(screen, m)
                    ELSE Tail(Append(screen, m))

\* mqtt_rt_listener_pop; a cut payload does not parse and is skipped, an own
\* message coming back is not played.
PopListener ==
  /\ pc = "pump" /\ Waiting # <<>>
  /\ LET m == Head(Waiting)
     IN  /\ listeners' = [i \in DOMAIN listeners |->
                            IF listeners[i].id = lid
                            THEN [listeners[i] EXCEPT !.queue = Tail(@)]
                            ELSE listeners[i]]
         /\ CASE m.kind = "big" -> UNCHANGED <<viewVars, hand, pc>>
              [] m.kind # "big" /\ m.from = Me ->
                   AddMessage(m) /\ UNCHANGED <<hand, pc>>
              [] OTHER -> hand' = m /\ pc' = "play" /\ UNCHANGED viewVars
  /\ UNCHANGED <<netVars, nextId, room, lid, sent, heard, repeats, breaks>>

\* play_morse_message has played it to the end; it goes on the screen.
Played ==
  /\ pc = "play" /\ pc' = "pump"
  /\ AddMessage(hand) /\ hand' = NoMessage
  /\ UNCHANGED <<netVars, tableVars, room, lid, sent, heard, repeats, breaks>>

\* Nothing is queued: draw, and read the keys.
ReadKeys ==
  /\ pc = "pump" /\ Waiting = <<>>
  /\ pc' = "input"
  /\ UNCHANGED <<netVars, tableVars, viewVars, room, lid, hand, sent, heard,
                 repeats, breaks>>

\* Back or a push to the side leaves, enter or type composes, otherwise go on.
Key ==
  /\ pc = "input"
  /\ pc' \in {"pump", "compose", "leave"}
  /\ UNCHANGED <<netVars, tableVars, viewVars, room, lid, hand, sent, heard,
                 repeats, breaks>>

\* The composer was cancelled, or had no memory for its drawing surface.
Cancel ==
  /\ pc = "compose"
  /\ pc' \in {"pump", "leave"}
  /\ UNCHANGED <<netVars, tableVars, viewVars, room, lid, hand, sent, heard,
                 repeats, breaks>>

\* mqtt_rt_publish: without a client the message goes nowhere; with one it
\* waits in the outbox for the broker.
Publish(m) ==
  outbox' = IF client = "none" THEN outbox ELSE outbox \cup {m}

\* The composed message is published, and shown whatever came of that.
Send ==
  /\ pc = "compose" /\ sent[Me] < MaxOwn
  /\ pc' \in {"pump", "leave"}
  /\ LET m == [from |-> Me, n |-> sent[Me] + 1, room |-> room, kind |-> "id"]
     IN  Publish(m) /\ AddMessage(m)
  /\ sent' = [sent EXCEPT ![Me] = @ + 1]
  /\ UNCHANGED <<client, subs, air, tableVars, room, lid, hand, heard,
                 repeats, breaks>>

\* mqtt_rt_remove_listener, under the mutex: what it still held goes with it.
RemoveListener ==
  /\ pc = "leave" /\ pc' = "unsubscribe"
  /\ listeners' = Without(lid)
  /\ UNCHANGED <<netVars, nextId, viewVars, room, lid, hand, sent, heard,
                 repeats, breaks>>

\* The rest of mqtt_rt_remove_listener; the lists of the room go with their
\* scope.
Unsubscribe ==
  /\ pc = "unsubscribe" /\ pc' = "rooms"
  /\ subs' = IF client = "online" THEN subs \ {room} ELSE subs
  /\ lid' = 0
  /\ screen' = <<>> /\ seen' = {} /\ log' = <<>> /\ heard' = <<>>
  /\ UNCHANGED <<client, air, outbox, tableVars, room, hand, sent, repeats,
                 breaks>>

Task ==
  \/ Start \/ EnterRoom \/ SubscribeRoom \/ Exit \/ Reopen
  \/ (\E r \in Rooms : Move(r))
  \/ PopListener \/ Played \/ ReadKeys \/ Key \/ Cancel \/ Send
  \/ RemoveListener \/ Unsubscribe

Network ==
  \/ Connect \/ Disconnect \/ StopClient \/ OnEvent
  \/ (\E s \in Others : OtherSends(s))
  \/ (\E m \in outbox : BrokerTakes(m))

ChatNext == Task \/ Network

ChatSpec == ChatInit /\ [][ChatNext]_chatVars

(***************************************************************************)
(* Properties                                                              *)
(***************************************************************************)

\* Types, and the two limits of the table and of the list of messages: the
\* screen keeps Cap messages (open_chat.hpp:314-316), and the task never has
\* more than one listener (a second one for a room would get nothing).
ChatTypeOK ==
  /\ client \in {"none", "offline", "online"}
  /\ subs \subseteq Rooms /\ outbox \subseteq ChatMessage
  /\ air \in Seq(ChatMessage) /\ heard \in Seq(ChatMessage) /\ log \in Seq(ChatMessage)
  /\ screen \in Seq(ChatMessage) /\ Len(screen) <= Cap
  /\ Len(listeners) <= 1 /\ nextId \in Nat /\ lid \in Nat
  /\ \A i \in 1..Len(listeners) :
       listeners[i].room \in Rooms /\ listeners[i].queue \in Seq(ChatMessage)
  /\ room \in Rooms /\ hand \in ChatMessage \cup {NoMessage}
  /\ sent \in [Senders -> 0..MaxSent]

\* However often a message with an id is delivered (a retransmission, the echo of
\* an own one, one that comes back after the list has dropped it), the room shows
\* it once (seen_ids, open_chat.hpp:309-317).  One without an id is shown each time.
ShownOnce ==
  \A i, j \in 1..Len(log) :
    HasId(log[i]) /\ HasId(log[j]) /\ Id(log[i]) = Id(log[j]) => i = j

Occurs(s, a) == \E i \in DOMAIN s : s[i] = a

\* The first occurrence of a is before any of b.
Before(s, a, b) == \E i \in DOMAIN s : s[i] = a /\ \A j \in 1..i : s[j] # b

\* The way of a message: shown, in hand, queued.
Way == log \o (IF pc = "play" THEN <<hand>> ELSE <<>>) \o Waiting

Foreign == {m \in ChatMessage : m.from # Me /\ m.kind # "big"}

\* Between the MQTT task and the screen nothing is lost, taken from another
\* room or put in another order: what was delivered for the room since it was
\* entered is, copies aside, what has been shown followed by what is in hand
\* and queued (on_event, mqtt_rt_listener_pop and the loop of open_chat_task).
RoomIsHeard ==
  InRoom =>
    LET way == Way
    IN  \A a, b \in Foreign :
          /\ Occurs(heard, a) <=> Occurs(way, a)
          /\ Before(heard, a, b) <=> Before(way, a, b)
=============================================================================
