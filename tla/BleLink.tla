------------------------------ MODULE BleLink ------------------------------
(***************************************************************************)
(* The bridge to the phone: components/services/ble/ble_uart.cpp, a GATT   *)
(* service with a UART's two directions, and the screens' requests over    *)
(* it: the message box's history (screens/message_box.hpp), the contact    *)
(* book's list (application/include/app/contact/fetch_service.hpp), the    *)
(* friend requests (actions_service.hpp) and the relay of a message        *)
(* (screens/talk_display.hpp).                                             *)
(*                                                                         *)
(* The file holds two implementations, chosen by sdkconfig: NimBLE and     *)
(* Bluedroid.  The radio, both stacks and the phone are external.  A frame *)
(* is a JSON text; the phone writes it in one piece ("all") or in two, a   *)
(* "head" with the opening brace, the type and the id, which may end       *)
(* inside a string, and a "tail" with the closing brace.                   *)
(***************************************************************************)
EXTENDS Integers, FiniteSets, Sequences

CONSTANTS
    Stacks,       \* the implementations to check
    Friends,
    NoFriend,     \* a frame that is about no friend
    MaxRequests,  \* bound: requests of the device
    MaxDrops,     \* bound: times the link is lost
    MaxPushes,    \* bound: frames the phone sends unasked
    MaxToggles    \* bound: calls of enable and disable by the fallback manager

ASSUME StackAssumption == Stacks \subseteq {"nimble", "bluedroid"}
ASSUME FriendAssumption == NoFriend \notin Friends
ASSUME BoundAssumption ==
    MaxRequests \in Nat /\ MaxDrops \in Nat /\ MaxPushes \in Nat /\ MaxToggles \in Nat

VARIABLES
    stack, newline,   \* the implementation; whether the phone ends frames by '\n'
    inited,           \* g_stack_inited
    released,         \* the controller's memory was given back (Bluedroid)
    lastErr,          \* g_last_err is not 0
    adv, advFlag,     \* the radio advertises; adv_started (Bluedroid)
    link,             \* a phone is connected
    conn, notify,     \* g_conn_handle / conn_id_global is set; g_notify_enabled_flag
    pending,          \* g_pending_frame: the request queued, or NoRequest
    rx,               \* rx_buffer, a sequence of pieces
    cache,            \* g_cached_contacts, g_cached_pending, g_cached_messages
    resultId, result, \* ble_result_id, ble_last_result of nvs_rw.hpp
    hostPc, hostFrame,\* the host task between its two writes of a result
    wifi,             \* the connected bit of the Wi-Fi manager
    todo, writing,    \* phone: requests to answer; the frame half written
    pc, req, got,     \* the screen: where it is, its request, the frame it read
    shown,            \* what it took for the answer
    asked,            \* requests made so far, their number the id of the last
    sent,             \* how often the phone received each request
    drops, cuts, torn,\* links lost; those that cut a frame; no frame ended since
    split,            \* a frame was cut inside a string
    garbled,          \* texts handled that no phone has sent
    pushes, toggles

radio   == <<adv, advFlag, link>>
flags   == <<conn, notify>>
stackv  == <<stack, newline, inited, released, lastErr>>
caches  == <<cache, resultId, result, hostPc, hostFrame>>
phone   == <<todo, writing, sent>>
screen  == <<pc, req, got, shown, asked>>
faults  == <<drops, cuts, torn, split, garbled, pushes, toggles>>
vars    == <<radio, flags, stackv, pending, rx, caches, wifi, phone, screen, faults>>

Cached == {"contacts", "pending", "messages"}
Kinds  == Cached \cup {"result", "relay", "new"}
NoRequest == [id |-> 0, kind |-> "none", friend |-> NoFriend]
\* An answer carries the id of its request, one unasked the id 0; at is the
\* number of requests made when the device handled it.
FrameTo(r) == [id |-> r.id, kind |-> r.kind, friend |-> r.friend, whole |-> TRUE, at |-> 0]
NoFrame == FrameTo(NoRequest)
Server  == [NoFrame EXCEPT !.kind = "server"]
nimble  == stack = "nimble"

Init ==
    /\ stack \in Stacks /\ newline \in BOOLEAN
    /\ inited = FALSE /\ released = FALSE /\ lastErr = FALSE
    /\ adv = FALSE /\ advFlag = FALSE /\ link = FALSE
    /\ conn = FALSE /\ notify = FALSE /\ pending = NoRequest
    /\ rx = <<>>
    /\ cache = [k \in Cached |-> NoFrame]
    /\ resultId = 0 /\ result = NoFrame /\ hostPc = "idle" /\ hostFrame = NoFrame
    /\ wifi = FALSE
    /\ todo = {} /\ writing = NoFrame /\ sent = [i \in 1..MaxRequests |-> 0]
    /\ pc = "idle" /\ req = NoRequest /\ got = NoFrame /\ shown = NoFrame /\ asked = 0
    /\ drops = 0 /\ cuts = 0 /\ torn = FALSE /\ split = FALSE
    /\ garbled = 0 /\ pushes = 0 /\ toggles = 0

-----------------------------------------------------------------------------
(* Enabling and disabling the stack, called by the Wi-Fi manager.          *)

\* Mutant: the NimBLE stack comes up without a call of host_sync_cb.
HostSyncNever == UNCHANGED <<adv, advFlag>>

\* host_sync_cb: ble_gap_adv_start succeeds unless the only connection is in use.
HostSync == adv' = ~link /\ UNCHANGED advFlag

\* start_advertising of Bluedroid believes its flag.
StartAdvertising == adv' = (adv \/ (~advFlag /\ ~link)) /\ advFlag' = TRUE

Toggle ==
    /\ toggles < MaxToggles /\ toggles' = toggles + 1
    /\ UNCHANGED <<stack, newline, rx, caches, wifi, sent, screen, drops, garbled, pushes>>

\* ble_uart_enable of NimBLE, which refuses while Wi-Fi has a link and may fail for
\* want of memory.
EnableNimble ==
    /\ nimble /\ Toggle
    /\ \/ wifi /\ lastErr' = TRUE /\ UNCHANGED <<inited, adv, advFlag>>
       \/ ~wifi /\ lastErr' = FALSE /\ inited' = TRUE /\ HostSync
       \/ ~wifi /\ ~inited /\ lastErr' = TRUE /\ UNCHANGED <<inited, adv, advFlag>>
    /\ UNCHANGED <<released, link, flags, pending, writing, todo, cuts, torn, split>>

\* ble_uart_enable of Bluedroid.  It cannot start once its memory was given back,
\* which it does itself when a step after the controller's init fails.
EnableBluedroid ==
    /\ ~nimble /\ Toggle
    /\ \/ wifi /\ lastErr' = TRUE /\ UNCHANGED <<inited, released, adv, advFlag>>
       \/ /\ ~wifi /\ (inited \/ ~released)
          /\ lastErr' = FALSE /\ inited' = TRUE /\ StartAdvertising /\ UNCHANGED released
       \/ /\ ~wifi /\ ~inited
          /\ lastErr' = TRUE /\ released' \in {released, TRUE}
          /\ UNCHANGED <<inited, adv, advFlag>>
    /\ UNCHANGED <<link, flags, pending, writing, todo, cuts, torn, split>>

\* The phone notices that the link is gone and forgets what it was writing.
LinkLost ==
    /\ link' = FALSE /\ writing' = NoFrame /\ todo' = {}
    /\ LET cut == writing # NoFrame IN
       /\ cuts' = IF cut THEN cuts + 1 ELSE cuts
       /\ torn' = (torn \/ cut)
       /\ split' = (split \/ (cut /\ rx # <<>> /\ rx[Len(rx)].quoted))

LinkStays == UNCHANGED <<link, writing, todo, cuts, torn, split>>

\* ble_uart_disable of NimBLE closes a connection and tells gap_event of it, which
\* clears the flags.
DisableNimble ==
    /\ nimble /\ Toggle
    /\ inited' = FALSE /\ adv' = FALSE
    /\ IF link THEN LinkLost /\ conn' = FALSE /\ notify' = FALSE /\ pending' = NoRequest
       ELSE LinkStays /\ UNCHANGED <<flags, pending>>
    /\ UNCHANGED <<advFlag, released, lastErr>>

\* ble_uart_disable of Bluedroid: no callback comes any more and the flags stay.
DisableBluedroid ==
    /\ ~nimble /\ Toggle
    /\ inited' = FALSE /\ adv' = FALSE /\ advFlag' = FALSE
    /\ released' = (released \/ inited)
    /\ IF link THEN LinkLost ELSE LinkStays
    /\ UNCHANGED <<lastErr, flags, pending>>

\* Wi-Fi comes and goes; its manager disables BLE some time after it came.
WifiChanges ==
    /\ wifi' = ~wifi
    /\ UNCHANGED <<radio, flags, stackv, pending, rx, caches, phone, screen, faults>>

-----------------------------------------------------------------------------
(* The link, gap_event and gatts_cb.                                       *)

Connect ==
    /\ inited /\ adv /\ ~link
    /\ link' = TRUE /\ adv' = FALSE /\ conn' = TRUE
    /\ notify' = (notify /\ nimble)
    /\ UNCHANGED <<advFlag, stackv, pending, rx, caches, wifi, phone, screen, faults>>

\* A connection that fails: NimBLE reports it and the handler advertises again.
ConnectFails ==
    /\ nimble /\ inited /\ adv /\ ~link
    /\ conn' = FALSE /\ notify' = FALSE /\ HostSync
    /\ UNCHANGED <<link, stackv, pending, rx, caches, wifi, phone, screen, faults>>

\* The phone goes away.  rx_buffer is not cleared.
PhoneLeaves ==
    /\ link /\ drops < MaxDrops /\ drops' = drops + 1
    /\ LinkLost
    /\ conn' = FALSE /\ notify' = FALSE
    /\ UNCHANGED <<stackv, rx, caches, wifi, sent, screen, garbled, pushes, toggles>>

\* gap_event advertises and drops the queued frame; gatts_cb calls start_advertising.
DisconnectNimble ==
    /\ nimble /\ PhoneLeaves
    /\ pending' = NoRequest /\ adv' = TRUE /\ UNCHANGED advFlag
DisconnectBluedroid ==
    /\ ~nimble /\ PhoneLeaves
    /\ adv' = (adv \/ ~advFlag) /\ advFlag' = TRUE /\ UNCHANGED pending

\* A frame of the device reaches the phone.
Transmit(r) ==
    /\ sent' = [sent EXCEPT ![r.id] = @ + 1]
    /\ todo' = IF r.kind = "relay" THEN todo ELSE todo \cup {r}
    /\ UNCHANGED writing

SubscribeRest ==
    UNCHANGED <<radio, conn, stackv, rx, caches, wifi, screen, faults>>

\* Mutant: the queued frame is sent but not forgotten.
SubscribeNimbleKeeps(on) ==
    /\ nimble /\ link /\ notify' = on
    /\ IF on /\ pending # NoRequest THEN Transmit(pending) ELSE UNCHANGED phone
    /\ SubscribeRest /\ UNCHANGED pending

\* The phone writes the characteristic's configuration.  NimBLE's handler sends the
\* frame that was queued meanwhile; ble_uart_send sees the flag set and transmits.
SubscribeNimble(on) ==
    /\ nimble /\ link /\ notify' = on
    /\ IF on /\ pending # NoRequest THEN pending' = NoRequest /\ Transmit(pending)
       ELSE UNCHANGED <<pending, phone>>
    /\ SubscribeRest

SubscribeBluedroid(on) ==
    /\ ~nimble /\ link /\ notify' = on
    /\ SubscribeRest /\ UNCHANGED <<pending, phone>>

-----------------------------------------------------------------------------
(* Frames of the phone, gatt_access_cb and the same lines of gatts_cb.     *)

Piece(p, f, q) == [part |-> p, frame |-> f, quoted |-> q]
Count(buf, part) == Cardinality({i \in DOMAIN buf : buf[i].part = part})

\* The parser counts braces outside strings, from the first brace of rx_buffer on.
\* It takes text for strings and strings for text from the end of a frame that was
\* cut inside a string, or when the buffer begins in the middle of a frame.
Astray(buf) ==
    \/ buf[1].part \in {"rest", "tail"}
    \/ \E i \in 1..(Len(buf) - 1) : buf[i].quoted /\ buf[i + 1].part # "tail"

\* Mutant: a brace that closes ends a text, however many are open.
CompleteAtBrace(buf) == buf[Len(buf)].part # "head"

\* The last piece of a buffer ends a text: up to a newline everything is one text;
\* without newlines a text ends where every opened brace is closed.
Complete(buf) ==
    /\ buf[Len(buf)].part # "head"
    /\ newline \/ (~Astray(buf) /\ Count(buf, "head") = Count(buf, "tail"))

\* A text is the phone's frame if it is all of one frame.
IsWhole(buf) ==
    \/ Len(buf) = 1 /\ buf[1].part = "all"
    \/ Len(buf) = 2 /\ buf[1].part = "head" /\ buf[2].part = "tail"
Text(buf) == [buf[1].frame EXCEPT !.whole = IsWhole(buf), !.at = asked]

\* A result's id is the first one in the text that is not empty, and it is written
\* to the RAM store of nvs_rw.hpp before the text is.
HandleResult(buf) ==
    /\ \/ \E i \in DOMAIN buf : /\ buf[i].frame.id # 0 /\ resultId' = buf[i].frame.id
                                /\ \A j \in 1..(i - 1) : buf[j].frame.id = 0
       \/ (\A i \in DOMAIN buf : buf[i].frame.id = 0) /\ UNCHANGED resultId
    /\ hostPc' = "result" /\ hostFrame' = Text(buf)

\* handle_frame_from_phone.  The kind is looked for anywhere in the text, but for
\* contacts it must be the first.
Handle(buf) ==
    LET text  == Text(buf)
        kinds == {buf[i].frame.kind : i \in DOMAIN buf}
        first == {buf[i].frame.kind : i \in {j \in DOMAIN buf :
                    \A h \in 1..(j - 1) : buf[h].frame.kind = "none"}}
        hit   == {k \in Cached \cap kinds : k = "contacts" => k \in first}
    IN
    /\ cache' = [k \in Cached |-> IF k \in hit THEN text ELSE cache[k]]
    /\ garbled' = IF text.whole THEN garbled ELSE garbled + 1
    /\ torn' = FALSE
    /\ IF "result" \in kinds THEN HandleResult(buf)
       ELSE UNCHANGED <<resultId, hostPc, hostFrame>>
    /\ UNCHANGED result

\* A piece is added to rx_buffer, and the texts it ends are handled.  Of a parser
\* that is astray the contents decide: it may end a text at any brace, and keeps the
\* rest of the piece from the next opening brace on, if there is one.
Receive(piece) ==
    LET buf == Append(rx, piece) IN
    IF Complete(buf) THEN rx' = <<>> /\ Handle(buf)
    ELSE \/ rx' = buf /\ UNCHANGED <<caches, garbled, torn>>
         \/ /\ Astray(buf) /\ Handle(buf)
            /\ rx' \in {<<>>, <<Piece("rest", NoFrame, FALSE)>>}
         \/ buf = <<piece>> /\ piece.part = "tail" /\ rx' = <<>>
            /\ UNCHANGED <<caches, garbled, torn>>

\* The phone starts a frame: the answer to a request it holds, in any order, or
\* one of its own: a new message, or its contacts when they change.
Write(f) ==
    \/ /\ writing' = f
       /\ \E q \in BOOLEAN : Receive(Piece("head", f, q))
    \/ /\ writing' = NoFrame
       /\ Receive(Piece("all", f, FALSE))

PhoneWrites ==
    /\ link /\ writing = NoFrame /\ hostPc = "idle"
    /\ \/ \E r \in todo : Write(FrameTo(r)) /\ todo' = todo \ {r} /\ UNCHANGED pushes
       \/ /\ pushes < MaxPushes /\ pushes' = pushes + 1 /\ UNCHANGED todo
          /\ \E k \in {"new", "contacts"} : Write(FrameTo([NoRequest EXCEPT !.kind = k]))
    /\ UNCHANGED <<radio, flags, stackv, pending, wifi, sent, screen, drops, cuts, split,
                   toggles>>

PhoneEndsFrame ==
    /\ link /\ writing # NoFrame /\ hostPc = "idle"
    /\ writing' = NoFrame
    /\ Receive(Piece("tail", NoFrame, FALSE))
    /\ UNCHANGED <<radio, flags, stackv, pending, wifi, todo, sent, screen, drops, cuts,
                   split, pushes, toggles>>

\* The second write of a result: ble_last_result follows ble_result_id.
StoreResult ==
    /\ hostPc = "result" /\ hostPc' = "idle"
    /\ result' = hostFrame /\ hostFrame' = NoFrame
    /\ UNCHANGED <<radio, flags, stackv, pending, rx, cache, resultId, wifi, phone, screen,
                   faults>>

-----------------------------------------------------------------------------
(* A screen's request.                                                     *)

\* ble_uart_is_ready
Ready == IF nimble THEN inited ELSE conn /\ notify

At(p, q) == pc = p /\ pc' = q
Rest == UNCHANGED <<radio, flags, stackv, rx, wifi, faults, resultId, result, hostPc, hostFrame>>

\* The screen turns to BLE when Wi-Fi is down and the bridge is ready.
Ask(k, f) ==
    /\ asked < MaxRequests /\ ~wifi /\ Ready
    /\ At("idle", IF k \in Cached THEN "clear" ELSE "send")
    /\ asked' = asked + 1 /\ shown' = NoFrame /\ got' = NoFrame
    /\ req' = [id |-> asked + 1, kind |-> k, friend |-> f]
    /\ Rest /\ UNCHANGED <<pending, cache, phone>>

\* The message box opens a friend's history, the contact book its list and the
\* pending requests; a friend request is sent or answered; a message is relayed.
AskMessages == \E f \in Friends : Ask("messages", f)
AskContacts == Ask("contacts", NoFriend)
AskPending  == Ask("pending", NoFriend)
AskResult   == Ask("result", NoFriend)
AskRelay    == Ask("relay", NoFriend)

\* Mutant: what was cached before stays.
ClearBeforeNot ==
    /\ At("clear", "send")
    /\ Rest /\ UNCHANGED <<cache, pending, phone, req, got, shown, asked>>

\* ble_uart_clear_cached_* before the request goes out.
ClearBefore ==
    /\ At("clear", "send")
    /\ cache' = [cache EXCEPT ![req.kind] = NoFrame]
    /\ Rest /\ UNCHANGED <<pending, phone, req, got, shown, asked>>

AfterSend == IF req.kind = "relay" THEN "idle" ELSE "wait"

\* ble_uart_send tests the flags and then acts, while the host task goes on.  Every
\* caller waits for the answer whatever it returns.
SendCheck ==
    /\ pc = "send"
    /\ pc' = IF nimble /\ inited /\ ~(notify /\ conn) THEN "queue"
             ELSE IF (IF nimble THEN inited ELSE Ready) THEN "transmit" ELSE AfterSend
    /\ Rest /\ UNCHANGED <<pending, cache, phone, req, got, shown, asked>>

SendQueue ==
    /\ At("queue", AfterSend)
    /\ pending' = req
    /\ Rest /\ UNCHANGED <<cache, phone, req, got, shown, asked>>

\* The notification fails when the link is gone or no buffer is free.
SendTransmit ==
    /\ At("transmit", AfterSend)
    /\ \/ link /\ Transmit(req)
       \/ UNCHANGED phone
    /\ Rest /\ UNCHANGED <<pending, cache, req, got, shown, asked>>

\* Mutant: the id of the contacts is not compared.
AcceptsAny(frame) == frame.whole

\* The reader's test of what it has read: JSON that parses, and for contacts an id
\* that is missing or its own.
Accepts(frame) == frame.whole /\ (req.kind = "contacts" => frame.id \in {0, req.id})

\* One turn of the wait: the copy of the cache.  Contacts that are refused stay.
Poll ==
    /\ pc = "wait" /\ req.kind \in Cached /\ cache[req.kind] # NoFrame
    /\ req.kind = "contacts" => Accepts(cache[req.kind])
    /\ pc' = "read" /\ got' = cache[req.kind]
    /\ Rest /\ UNCHANGED <<pending, cache, phone, req, shown, asked>>

\* The cache is cleared in a call of its own, then the copy is taken or refused.
Consume ==
    /\ pc = "read" /\ req.kind \in Cached
    /\ cache' = [cache EXCEPT ![req.kind] = NoFrame]
    /\ IF Accepts(got) THEN pc' = "idle" /\ shown' = got
       ELSE pc' = "wait" /\ UNCHANGED shown
    /\ got' = NoFrame
    /\ Rest /\ UNCHANGED <<pending, phone, req, asked>>

\* A result is waited for by its id in the RAM store and then read.
PollResult ==
    /\ req.kind = "result" /\ resultId = req.id
    /\ At("wait", "read") /\ UNCHANGED got
    /\ Rest /\ UNCHANGED <<pending, cache, phone, req, shown, asked>>

ReadResult ==
    /\ req.kind = "result" /\ At("read", "idle")
    /\ shown' = IF result.whole THEN result ELSE NoFrame
    /\ Rest /\ UNCHANGED <<pending, cache, phone, req, got, asked>>

\* The wait ends after its 2 to 6 s.  Contacts and pending requests are cleared, the
\* history is not; then HTTP answers, if the device is online by then, except that a
\* friend request has failed.
Timeout ==
    /\ pc = "wait" /\ pc' = IF req.kind = "result" THEN "idle" ELSE "http"
    /\ cache' = IF req.kind \in {"contacts", "pending"}
                THEN [cache EXCEPT ![req.kind] = NoFrame] ELSE cache
    /\ Rest /\ UNCHANGED <<pending, phone, req, got, shown, asked>>

\* The user leaves the wait for the contacts: nothing is cleared.
Cancel ==
    /\ req.kind = "contacts" /\ At("wait", "idle")
    /\ Rest /\ UNCHANGED <<pending, cache, phone, req, got, shown, asked>>

Fallback(shows) ==
    /\ At("http", "idle") /\ shown' = shows
    /\ Rest /\ UNCHANGED <<pending, cache, phone, req, got, asked>>

\* The history and the pending requests are asked of the server at once.
FallbackOnce ==
    req.kind \in {"messages", "pending"} /\ Fallback(IF wifi THEN Server ELSE NoFrame)

\* The contact book first connects: it tries until Wi-Fi is up or the user goes back,
\* or not at all while Wi-Fi is off by hand or BLE is in its pairing window.
FallbackContacts ==
    req.kind = "contacts" /\ (Fallback(NoFrame) \/ (wifi /\ Fallback(Server)))

-----------------------------------------------------------------------------
Subscribe == \E on \in BOOLEAN : SubscribeNimble(on) \/ SubscribeBluedroid(on)
Host == Connect \/ ConnectFails \/ DisconnectNimble \/ DisconnectBluedroid \/ Subscribe
        \/ PhoneWrites \/ PhoneEndsFrame \/ StoreResult
Screen == AskMessages \/ AskContacts \/ AskPending \/ AskResult \/ AskRelay
          \/ ClearBefore \/ SendCheck \/ SendQueue \/ SendTransmit \/ Poll \/ Consume
          \/ PollResult \/ ReadResult \/ Timeout \/ Cancel \/ FallbackOnce \/ FallbackContacts
Manager == EnableNimble \/ EnableBluedroid \/ DisableNimble \/ DisableBluedroid \/ WifiChanges
Next == Host \/ Screen \/ Manager

Spec == Init /\ [][Next]_vars

-----------------------------------------------------------------------------
Frames == [id : 0..MaxRequests, kind : Kinds \cup {"none", "server"},
           friend : Friends \cup {NoFriend}, whole : BOOLEAN, at : 0..MaxRequests]
Requests == [id : 0..MaxRequests, kind : Kinds \cup {"none"}, friend : Friends \cup {NoFriend}]
Pieces   == [part : {"head", "all"}, frame : Frames, quoted : BOOLEAN]
            \cup [part : {"tail", "rest"}, frame : {NoFrame}, quoted : {FALSE}]

\* The type invariant.
TypeOK ==
    /\ stack \in Stacks /\ newline \in BOOLEAN /\ inited \in BOOLEAN
    /\ released \in BOOLEAN /\ lastErr \in BOOLEAN
    /\ adv \in BOOLEAN /\ advFlag \in BOOLEAN /\ link \in BOOLEAN
    /\ conn \in BOOLEAN /\ notify \in BOOLEAN /\ wifi \in BOOLEAN
    /\ pending \in Requests /\ req \in Requests /\ todo \subseteq Requests \ {NoRequest}
    /\ rx \in Seq(Pieces)
    /\ cache \in [Cached -> Frames] /\ result \in Frames /\ hostFrame \in Frames
    /\ writing \in Frames /\ got \in Frames /\ shown \in Frames
    /\ hostPc \in {"idle", "result"} /\ resultId \in 0..MaxRequests
    /\ pc \in {"idle", "clear", "send", "queue", "transmit", "wait", "read", "http"}
    /\ asked \in 0..MaxRequests /\ sent \in [1..MaxRequests -> Nat]
    /\ drops \in 0..MaxDrops /\ pushes \in 0..MaxPushes /\ toggles \in 0..MaxToggles
    /\ cuts \in Nat /\ garbled \in Nat /\ torn \in BOOLEAN /\ split \in BOOLEAN

\* What a screen takes from the phone's cache was received after it asked, however
\* late earlier answers come and however its steps mix with the host task's
\* (message_box.hpp:147-148 and fetch_service.hpp:60-61 clear the cache first).
ReadAfterAsked == shown.kind \in Cached => shown.at = req.id

\* A contact list that answers some request answers the one that is shown: an answer
\* that was given up and comes during the next wait is left alone
\* (fetch_service.hpp:72-80).
ContactsAnswerRequest == shown.kind = "contacts" => shown.id \in {0, req.id}

\* The phone never receives a request twice, though three places may send it: the
\* screen, the queue flushed by a subscription, and a later subscription.
SentAtMostOnce == \A i \in 1..MaxRequests : sent[i] <= 1

\* The receiver finds its place again after a lost link, for rx_buffer is never
\* cleared by one.  As long as no frame was cut inside a string, a cut spoils at most
\* one later text where newlines end frames, and none where braces end them: a
\* mixture is never handed over.  With newlines, whatever was cut, a buffer that is
\* not empty holds a frame the phone is still writing or the rest of one cut since
\* the last text ended.
FramesResync ==
    /\ ~split => garbled <= IF newline THEN cuts ELSE 0
    /\ newline /\ rx # <<>> => writing # NoFrame \/ torn

\* With NimBLE a device whose stack is up and that no phone is connected to can be
\* found, after every order of connections, failures, losses, enables and disables.
AdvertisesWhenAlone == nimble /\ inited /\ ~link => adv
=============================================================================
