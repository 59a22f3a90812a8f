--------------------------- MODULE BleLinkProofs ---------------------------
(***************************************************************************)
(* Type correctness and the five invariants of BleLink, for any number of  *)
(* friends, requests, losses, frames sent unasked and toggles, and for     *)
(* both stacks; and type correctness, WifiGivenBack and MqttGivenBack of   *)
(* BlePairing, for windows of any length and any number of uses, radio     *)
(* events and resets.                                                      *)
(*                                                                         *)
(* The argument for BleLink has four parts. A request is with the screen,  *)
(* queued, or sent, and only a request that was not sent is queued. A      *)
(* screen clears its cache before it sends, so what it finds there later   *)
(* was handled while its request was the last; and a text that is whole is *)
(* of the kind of the cache it is put into. The buffer holds the head of   *)
(* the frame that is being written and what losses have left before it: a  *)
(* text is mixed only if there was a loss since the last one (newlines),   *)
(* or the braces that a loss left open keep it back (no newlines). And     *)
(* every step of the NimBLE stack that leaves the device alone advertises. *)
(*                                                                         *)
(* For BlePairing. MQTT is paused by the start of a pairing and by the     *)
(* fallback, each of which goes on to BLE or undoes it; what takes BLE     *)
(* down has the resume still to do (Taken). Wi-Fi stopped for a pairing    *)
(* stays so until restore_wifi_if_needed: the radio is silent, so no event *)
(* and no post_connect_task can take BLE or the stored flag away, and a    *)
(* dialog that finds BLE on and no pairing takes the way out (Held).       *)
(***************************************************************************)
EXTENDS BleLink, BlePairing, FiniteSetTheorems, TLAPS

Unsent == {"clear", "send", "queue", "transmit"}

\* A request is sent once: by the screen that made it or by the queue.
RequestOK ==
    /\ req.id = asked
    /\ pending # NoRequest => pending.id \in 1..asked /\ sent[pending.id] = 0
    /\ pc # "idle" => asked >= 1
    /\ pc \in Unsent => sent[asked] = 0 /\ pending.id # asked
    /\ pc = "clear" => req.kind \in Cached
    /\ \A i \in 1..MaxRequests : sent[i] <= 1 /\ (i > asked => sent[i] = 0)

\* A text that is whole is of the kind of its cache.
OfKind(f, k) == f.whole => f.kind \in {k, "none"}

\* What the screen finds behind its request was handled since.
CacheOK ==
    /\ \A k \in Cached : OfKind(cache[k], k)
    /\ OfKind(result, "result") /\ OfKind(hostFrame, "result")
    /\ req.kind \in Cached /\ pc \in {"send", "queue", "transmit", "wait", "read"} =>
         cache[req.kind] = NoFrame \/ cache[req.kind].at = asked
    /\ req.kind \in Cached /\ pc = "read" => got.at = asked /\ OfKind(got, req.kind)

\* The buffer holds the head of the frame that is being written.
AtHead == IF writing = NoFrame THEN rx = <<>> ELSE Len(rx) = 1 /\ rx[1].part = "head"
Opened == Count(rx, "head") - Count(rx, "tail")

\* Where newlines end frames, nothing is left behind one.
EndedOK == newline /\ writing = NoFrame /\ ~torn => rx = <<>>

\* As long as no frame was cut inside a string, the parser knows text from strings;
\* without a loss the buffer is at its head; and a loss leaves heads, which spoil the
\* next text (newlines), or braces that stay open (no newlines).
PlainOK == ~split =>
    /\ rx # <<>> => ~Astray(rx)
    /\ rx # <<>> /\ rx[Len(rx)].quoted => writing # NoFrame
    /\ writing # NoFrame => rx # <<>>
LinesOK == newline /\ ~split =>
    /\ \A i \in DOMAIN rx : rx[i].part = "head"
    /\ ~torn => AtHead
    /\ garbled + (IF torn THEN 1 ELSE 0) <= cuts
BracesOK == ~newline /\ ~split =>
    /\ garbled = 0
    /\ Opened >= IF writing = NoFrame THEN 0 ELSE 1
    /\ Opened = (IF writing = NoFrame THEN 0 ELSE 1) => AtHead
BufferOK == EndedOK /\ PlainOK /\ LinesOK /\ BracesOK

IInv == /\ TypeOK /\ RequestOK /\ CacheOK /\ BufferOK
        /\ ReadAfterAsked /\ ContactsAnswerRequest /\ AdvertisesWhenAlone

-----------------------------------------------------------------------------
(* The steps by what they change.                                          *)

RadioStep == Connect \/ ConnectFails \/ EnableNimble \/ EnableBluedroid \/ WifiChanges
LossStep  == DisconnectNimble \/ DisconnectBluedroid \/ DisableNimble \/ DisableBluedroid
AskStep   == \E k \in Kinds, f \in Friends \cup {NoFriend} : Ask(k, f)
HttpStep  == Fallback(NoFrame) \/ Fallback(Server)
PcStep    == SendCheck \/ PollResult \/ Cancel
Steps     == \/ RadioStep \/ LossStep \/ Subscribe \/ PhoneWrites \/ PhoneEndsFrame \/ StoreResult
             \/ AskStep \/ ClearBefore \/ SendQueue \/ SendTransmit \/ Poll \/ Consume
             \/ ReadResult \/ Timeout \/ HttpStep \/ PcStep

\* They are all the steps.
LEMMA AllSteps == Next => Steps
<1>1. Host => Steps
  BY DEF Host, Steps, RadioStep, LossStep
<1>2. Manager => Steps
  BY DEF Manager, Steps, RadioStep, LossStep
<1>3. ASSUME Screen PROVE Steps
  <2>1. AskMessages \/ AskContacts \/ AskPending \/ AskResult \/ AskRelay => AskStep
    BY DEF AskMessages, AskContacts, AskPending, AskResult, AskRelay, AskStep, Kinds, Cached
  <2>2. FallbackOnce \/ FallbackContacts => HttpStep
    BY DEF FallbackOnce, FallbackContacts, HttpStep
  <2> QED
    BY <1>3, <2>1, <2>2 DEF Screen, Steps, PcStep
<1> QED
  BY <1>1, <1>2, <1>3 DEF Next

\* A step of the radio or of Wi-Fi touches neither frames nor requests.
LEMMA RadioFoot ==
    ASSUME RadioStep
    PROVE  UNCHANGED <<stack, newline, pending, rx, caches, phone, screen,
                       drops, cuts, torn, split, garbled, pushes>>
<1> USE DEF radio, flags, stackv, caches, phone, screen, faults
<1>1. CASE Connect
  BY <1>1 DEF Connect
<1>2. CASE ConnectFails
  BY <1>2 DEF ConnectFails
<1>3. CASE EnableNimble
  BY <1>3 DEF EnableNimble, Toggle
<1>4. CASE EnableBluedroid
  BY <1>4 DEF EnableBluedroid, Toggle
<1>5. CASE WifiChanges
  BY <1>5 DEF WifiChanges
<1> QED
  BY <1>1, <1>2, <1>3, <1>4, <1>5 DEF RadioStep

\* A link that is lost takes the queued frame with it, or leaves it.
LEMMA LossFoot ==
    ASSUME LossStep
    PROVE  /\ UNCHANGED <<stack, newline, rx, caches, sent, screen, garbled, pushes, wifi>>
           /\ pending' \in {pending, NoRequest}
           /\ LinkLost \/ LinkStays
<1> USE DEF radio, flags, stackv, caches, phone, screen, faults
<1>1. CASE DisconnectNimble
  BY <1>1 DEF DisconnectNimble, PhoneLeaves
<1>2. CASE DisconnectBluedroid
  BY <1>2 DEF DisconnectBluedroid, PhoneLeaves
<1>3. CASE DisableNimble
  BY <1>3 DEF DisableNimble, Toggle
<1>4. CASE DisableBluedroid
  BY <1>4 DEF DisableBluedroid, Toggle
<1> QED
  BY <1>1, <1>2, <1>3, <1>4 DEF LossStep

\* A subscription sends the queued frame, or does nothing.
LEMMA SubscribeFoot ==
    ASSUME Subscribe
    PROVE  /\ UNCHANGED <<radio, conn, stackv, rx, caches, wifi, screen, faults, writing>>
           /\ notify' \in BOOLEAN
           /\ \/ pending # NoRequest /\ pending' = NoRequest /\ Transmit(pending)
              \/ UNCHANGED <<pending, phone>>
<1> PICK on \in BOOLEAN : SubscribeNimble(on) \/ SubscribeBluedroid(on)
  BY DEF Subscribe
<1> USE DEF radio, stackv, caches, phone, screen, faults
<1>1. CASE SubscribeNimble(on)
  BY <1>1 DEF SubscribeNimble, SubscribeRest, Transmit
<1>2. CASE SubscribeBluedroid(on)
  BY <1>2 DEF SubscribeBluedroid, SubscribeRest
<1> QED
  BY <1>1, <1>2

\* A screen touches the phone and the queue only when it sends.
LEMMA ScreenFoot ==
    ASSUME \/ AskStep \/ ClearBefore \/ SendQueue \/ SendTransmit \/ Poll \/ Consume
           \/ ReadResult \/ Timeout \/ HttpStep \/ PcStep
    PROVE  UNCHANGED <<radio, flags, stackv, rx, wifi, faults, resultId, result, hostPc,
                       hostFrame, writing>>
<1> USE DEF radio, flags, stackv, faults, phone, Rest
<1>1. CASE AskStep
  BY <1>1 DEF AskStep, Ask
<1>2. CASE SendTransmit
  BY <1>2 DEF SendTransmit, Transmit
<1>3. CASE ClearBefore \/ SendQueue \/ Poll \/ Consume
  BY <1>3 DEF ClearBefore, SendQueue, Poll, Consume
<1>4. CASE ReadResult \/ Timeout \/ HttpStep \/ PcStep
  BY <1>4 DEF ReadResult, Timeout, HttpStep, Fallback, PcStep, SendCheck, PollResult, Cancel
<1> QED
  BY <1>1, <1>2, <1>3, <1>4

\* What the phone writes concerns the buffer and the caches only.
LEMMA PhoneFoot ==
    ASSUME PhoneWrites \/ PhoneEndsFrame \/ StoreResult
    PROVE  UNCHANGED <<radio, flags, stackv, pending, wifi, sent, screen, drops, cuts, split,
                       toggles>>
<1> USE DEF radio, flags, stackv, phone, screen, faults
<1>1. CASE PhoneWrites \/ PhoneEndsFrame
  BY <1>1 DEF PhoneWrites, PhoneEndsFrame
<1>2. CASE StoreResult
  BY <1>2 DEF StoreResult
<1> QED
  BY <1>1, <1>2

-----------------------------------------------------------------------------
(* The radio.                                                              *)

\* Every step keeps AdvertisesWhenAlone.
LEMMA RadioOK == AdvertisesWhenAlone /\ TypeOK /\ [Next]_vars => AdvertisesWhenAlone'
<1> SUFFICES ASSUME AdvertisesWhenAlone, TypeOK, [Next]_vars PROVE AdvertisesWhenAlone'
  OBVIOUS
<1> USE DEF radio, flags, stackv, faults, AdvertisesWhenAlone, nimble
<1>1. CASE Connect \/ ConnectFails \/ WifiChanges
  BY <1>1 DEF Connect, ConnectFails, WifiChanges, HostSync
<1>2. CASE EnableNimble
  <2>1. UNCHANGED <<stack, link>>
    BY <1>2 DEF EnableNimble, Toggle
  <2>2. CASE HostSync
    <3>1. ~link => adv'
      BY <2>2 DEF HostSync
    <3> QED
      BY <2>1, <3>1
  <2>3. CASE UNCHANGED <<inited, adv>>
    BY <2>1, <2>3
  <2> QED
    BY <1>2, <2>2, <2>3 DEF EnableNimble
<1>3. CASE EnableBluedroid \/ DisconnectBluedroid \/ DisableBluedroid
  BY <1>3 DEF EnableBluedroid, DisconnectBluedroid, DisableBluedroid, PhoneLeaves, Toggle
<1>4. CASE DisconnectNimble \/ DisableNimble
  BY <1>4 DEF DisconnectNimble, DisableNimble, PhoneLeaves, Toggle
<1>5. CASE Subscribe
  BY <1>5, SubscribeFoot
<1>6. CASE PhoneWrites \/ PhoneEndsFrame \/ StoreResult
  BY <1>6 DEF PhoneWrites, PhoneEndsFrame, StoreResult
<1>7. CASE \/ AskStep \/ ClearBefore \/ SendQueue \/ SendTransmit \/ Poll \/ Consume
           \/ ReadResult \/ Timeout \/ HttpStep \/ PcStep
  BY <1>7, ScreenFoot
<1>8. CASE UNCHANGED vars
  BY <1>8 DEF vars
<1> QED
  BY <1>1, <1>2, <1>3, <1>4, <1>5, <1>6, <1>7, <1>8, AllSteps
  DEF Steps, RadioStep, LossStep

-----------------------------------------------------------------------------
(* The requests.                                                           *)

\* A request that is transmitted has not been sent before.
LEMMA TransmitOK ==
    ASSUME TypeOK, RequestOK, NEW r \in Requests, r.id \in 1..asked, sent[r.id] = 0, Transmit(r)
    PROVE  /\ sent' \in [1..MaxRequests -> Nat] /\ sent'[r.id] = 1
           /\ \A i \in 1..MaxRequests : i # r.id => sent'[i] = sent[i]
<1>1. sent \in [1..MaxRequests -> Nat] /\ r.id \in 1..MaxRequests
  BY BoundAssumption DEF TypeOK
<1>2. sent' = [sent EXCEPT ![r.id] = sent[r.id] + 1]
  BY DEF Transmit
<1> QED
  BY <1>1, <1>2

\* Every step keeps RequestOK.
LEMMA RequestStep == RequestOK /\ TypeOK /\ [Next]_vars => RequestOK'
<1> SUFFICES ASSUME RequestOK, TypeOK, [Next]_vars PROVE RequestOK'
  OBVIOUS
<1> USE DEF screen
<1>1. /\ asked \in 0..MaxRequests /\ MaxRequests \in Nat /\ sent \in [1..MaxRequests -> Nat]
      /\ pending \in Requests /\ req \in Requests
  BY BoundAssumption DEF TypeOK
<1>2. /\ req.id = asked
      /\ pending # NoRequest => pending.id \in 1..asked /\ sent[pending.id] = 0
      /\ pc # "idle" => asked >= 1
      /\ pc \in Unsent => sent[asked] = 0 /\ pending.id # asked
      /\ pc = "clear" => req.kind \in Cached
      /\ \A i \in 1..MaxRequests : sent[i] <= 1 /\ (i > asked => sent[i] = 0)
  BY DEF RequestOK
<1>3. pending.id \in 0..asked
  <2>1. CASE pending = NoRequest
    BY <1>1, <2>1 DEF NoRequest
  <2>2. CASE pending # NoRequest
    BY <1>1, <1>2, <2>2
  <2> QED
    BY <2>1, <2>2
<1>4. CASE RadioStep \/ PhoneWrites \/ PhoneEndsFrame \/ StoreResult \/ UNCHANGED vars
  <2>1. UNCHANGED <<pending, sent, pc, req, asked>>
    BY <1>4, RadioFoot, PhoneFoot DEF vars, phone
  <2> QED
    BY <2>1 DEF RequestOK
<1>5. CASE LossStep
  <2>1. UNCHANGED <<sent, pc, req, asked>> /\ pending' \in {pending, NoRequest}
    BY <1>5, LossFoot
  <2> QED
    BY <1>1, <1>2, <2>1 DEF RequestOK, NoRequest, Unsent
<1>6. CASE Subscribe
  <2>1. UNCHANGED <<pc, req, asked>>
    BY <1>6, SubscribeFoot
  <2>2. CASE UNCHANGED <<pending, phone>>
    BY <2>1, <2>2 DEF RequestOK, phone
  <2>3. CASE pending # NoRequest /\ pending' = NoRequest /\ Transmit(pending)
    <3>1. /\ sent'[pending.id] = 1
          /\ \A i \in 1..MaxRequests : i # pending.id => sent'[i] = sent[i]
      BY <1>1, <1>2, <2>3, TransmitOK
    <3>2. pending.id \in 1..asked /\ pending'.id = 0
      BY <1>2, <2>3 DEF NoRequest
    <3>3. pc \in Unsent => sent'[asked] = 0
      BY <1>1, <1>2, <3>1 DEF Unsent
    <3>4. \A i \in 1..MaxRequests : sent'[i] <= 1 /\ (i > asked => sent'[i] = 0)
      BY <1>1, <1>2, <3>1, <3>2
    <3> QED
      BY <1>1, <1>2, <2>1, <2>3, <3>2, <3>3, <3>4 DEF RequestOK, Unsent
  <2> QED
    BY <1>6, <2>2, <2>3, SubscribeFoot
<1>7. CASE AskStep
  <2>1. PICK k \in Kinds, f \in Friends \cup {NoFriend} : Ask(k, f)
    BY <1>7 DEF AskStep
  <2>2. /\ asked' = asked + 1 /\ asked < MaxRequests /\ req'.id = asked + 1 /\ req'.kind = k
        /\ pc' = (IF k \in Cached THEN "clear" ELSE "send") /\ UNCHANGED <<pending, sent>>
    BY <2>1 DEF Ask, At, phone
  <2> QED
    BY <1>1, <1>2, <1>3, <2>2 DEF RequestOK, Unsent
<1>8. CASE ClearBefore \/ Poll \/ Consume \/ ReadResult \/ Timeout \/ HttpStep \/ PcStep
  <2>1. /\ UNCHANGED <<pending, sent, req, asked>> /\ pc # "idle" /\ pc' # "clear"
        /\ (pc' \in Unsent => pc \in Unsent)
    BY <1>8 DEF ClearBefore, Poll, Consume, ReadResult, Timeout, HttpStep, Fallback, PcStep,
       SendCheck, PollResult, Cancel, At, phone, AfterSend, Unsent
  <2> QED
    BY <1>2, <2>1 DEF RequestOK
<1>9. CASE SendQueue
  <2>1. /\ pending' = req /\ pc = "queue" /\ pc' \in {"idle", "wait"}
        /\ UNCHANGED <<sent, req, asked>>
    BY <1>9 DEF SendQueue, At, AfterSend, phone
  <2> QED
    BY <1>1, <1>2, <2>1 DEF RequestOK, Unsent
<1>10. CASE SendTransmit
  <2>1. /\ pc = "transmit" /\ pc' \in {"idle", "wait"} /\ UNCHANGED <<pending, req, asked>>
        /\ Transmit(req) \/ UNCHANGED sent
    BY <1>10 DEF SendTransmit, At, AfterSend, phone
  <2>2. CASE UNCHANGED sent
    BY <1>1, <1>2, <2>1, <2>2 DEF RequestOK, Unsent
  <2>3. CASE Transmit(req)
    <3>1. sent'[asked] = 1 /\ \A i \in 1..MaxRequests : i # asked => sent'[i] = sent[i]
      BY <1>1, <1>2, <2>1, <2>3, TransmitOK DEF Unsent
    <3>2. pending # NoRequest => pending.id \in 1..asked /\ sent'[pending.id] = 0
      BY <1>1, <1>2, <2>1, <3>1 DEF Unsent
    <3>3. \A i \in 1..MaxRequests : sent'[i] <= 1 /\ (i > asked => sent'[i] = 0)
      BY <1>1, <1>2, <3>1
    <3> QED
      BY <1>1, <1>2, <2>1, <3>2, <3>3 DEF RequestOK, Unsent
  <2> QED
    BY <2>1, <2>2, <2>3
<1> QED
  BY <1>4, <1>5, <1>6, <1>7, <1>8, <1>9, <1>10, AllSteps DEF Steps

-----------------------------------------------------------------------------
(* Frames and texts.                                                       *)

\* The frames that are made up are frames.
LEMMA FrameFacts ==
    /\ NoFrame \in Frames /\ NoFrame.kind = "none" /\ NoFrame.id = 0
    /\ Server \in Frames /\ Server.kind = "server"
    /\ NoRequest \in Requests /\ NoRequest.id = 0
    /\ \A r \in Requests : /\ FrameTo(r) \in Frames /\ FrameTo(r).id = r.id
                           /\ FrameTo(r) = NoFrame => r = NoRequest
    /\ \A k \in {"new", "contacts"} : LET f == FrameTo([NoRequest EXCEPT !.kind = k]) IN
           f \in Frames /\ f # NoFrame
<1> USE BoundAssumption
<1>1. NoRequest \in Requests /\ NoRequest.id = 0
  BY DEF NoRequest, Requests
<1>2. ASSUME NEW r \in Requests PROVE FrameTo(r) \in Frames /\ FrameTo(r).id = r.id
  BY <1>2 DEF FrameTo, Requests, Frames
<1>3. NoFrame \in Frames /\ NoFrame.kind = "none" /\ NoFrame.id = 0
  BY <1>1, <1>2 DEF NoFrame, FrameTo, NoRequest
<1>4. ASSUME NEW r \in Requests, FrameTo(r) = NoFrame PROVE r = NoRequest
  <2>1. r.id = 0 /\ r.kind = "none" /\ r.friend = NoFriend
    BY <1>4 DEF FrameTo, NoFrame, NoRequest
  <2> QED
    BY <2>1 DEF Requests, NoRequest
<1>5. Server \in Frames /\ Server.kind = "server"
  BY <1>3 DEF Server, Frames
<1>6. ASSUME NEW k \in {"new", "contacts"}
      PROVE  LET f == FrameTo([NoRequest EXCEPT !.kind = k]) IN f \in Frames /\ f # NoFrame
  <2>1. [NoRequest EXCEPT !.kind = k] \in Requests /\ [NoRequest EXCEPT !.kind = k] # NoRequest
    BY <1>1 DEF NoRequest, Requests, Kinds, Cached
  <2> QED
    BY <1>2, <1>4, <2>1
<1> QED
  BY <1>1, <1>2, <1>3, <1>4, <1>5, <1>6

\* The pieces of a frame.
LEMMA PieceFacts ==
    /\ \A f \in Frames, q \in BOOLEAN :
         /\ Piece("head", f, q) \in Pieces /\ Piece("head", f, q).part = "head"
         /\ Piece("all", f, q) \in Pieces /\ Piece("all", f, q).part = "all"
         /\ Piece("all", f, FALSE).quoted = FALSE
    /\ Piece("tail", NoFrame, FALSE) \in Pieces /\ Piece("tail", NoFrame, FALSE).part = "tail"
    /\ Piece("tail", NoFrame, FALSE).quoted = FALSE
    /\ Piece("rest", NoFrame, FALSE) \in Pieces
  BY DEF Pieces, Piece

\* What a piece is made of.
LEMMA FrameOfPiece ==
    ASSUME NEW x \in Pieces
    PROVE  x.frame \in Frames /\ (x.part = "tail" => x.frame = NoFrame)
<1>1. CASE x \in [part : {"head", "all"}, frame : Frames, quoted : BOOLEAN]
  BY <1>1
<1>2. CASE x \in [part : {"tail", "rest"}, frame : {NoFrame}, quoted : {FALSE}]
  BY <1>2, FrameFacts
<1> QED
  BY <1>1, <1>2 DEF Pieces

\* A buffer with one more piece.
LEMMA AppendFacts ==
    ASSUME NEW buf \in Seq(Pieces), NEW x \in Pieces
    PROVE  /\ Append(buf, x) \in Seq(Pieces) /\ Append(buf, x)[Len(Append(buf, x))] = x
           /\ Len(Append(buf, x)) = Len(buf) + 1 /\ Len(buf) \in Nat
           /\ \A i \in 1..Len(buf) : Append(buf, x)[i] = buf[i]
           /\ DOMAIN buf = 1..Len(buf) /\ DOMAIN Append(buf, x) = 1..(Len(buf) + 1)
           /\ buf = <<>> => Append(buf, x) = <<x>>
<1>1. Append(buf, x) \in Seq(Pieces) /\ Len(Append(buf, x)) = Len(buf) + 1 /\ Len(buf) \in Nat
  OBVIOUS
<1>2. Append(buf, x)[Len(buf) + 1] = x /\ \A i \in 1..Len(buf) : Append(buf, x)[i] = buf[i]
  OBVIOUS
<1>3. DOMAIN buf = 1..Len(buf) /\ DOMAIN Append(buf, x) = 1..(Len(buf) + 1)
  OBVIOUS
<1>4. buf = <<>> => Append(buf, x) = <<x>>
  OBVIOUS
<1> QED
  BY <1>1, <1>2, <1>3, <1>4

\* The pieces of a kind can be counted.
LEMMA CountNat ==
    ASSUME NEW buf \in Seq(Pieces), NEW p
    PROVE  /\ IsFiniteSet({i \in DOMAIN buf : buf[i].part = p}) /\ Count(buf, p) \in Nat
<1>1. DOMAIN buf = 1..Len(buf) /\ Len(buf) \in Nat
  OBVIOUS
<1>2. IsFiniteSet(1..Len(buf))
  BY <1>1, FS_Interval
<1>3. IsFiniteSet({i \in DOMAIN buf : buf[i].part = p})
  BY <1>1, <1>2, FS_Subset
<1> QED
  BY <1>3, FS_CardinalityType DEF Count

\* A buffer with one more piece has one more of its kind.
LEMMA CountAppend ==
    ASSUME NEW buf \in Seq(Pieces), NEW x \in Pieces, NEW p
    PROVE  Count(Append(buf, x), p) = Count(buf, p) + (IF x.part = p THEN 1 ELSE 0)
<1> DEFINE n == Len(buf)
           longer == Append(buf, x)
           old == {i \in 1..n : buf[i].part = p}
           all == {i \in 1..(n + 1) : longer[i].part = p}
<1>1. n \in Nat /\ Count(buf, p) = Cardinality(old) /\ Count(longer, p) = Cardinality(all)
  BY AppendFacts DEF Count
<1>2. (\A i \in 1..n : longer[i] = buf[i]) /\ longer[n + 1] = x
  BY AppendFacts
<1>3. IsFiniteSet(old) /\ Cardinality(old) \in Nat
  <2>1. old = {i \in DOMAIN buf : buf[i].part = p}
    BY AppendFacts
  <2>2. IsFiniteSet({i \in DOMAIN buf : buf[i].part = p}) /\ Count(buf, p) \in Nat
    BY CountNat
  <2> QED
    BY <1>1, <2>1, <2>2
<1> HIDE DEF n, longer
<1>4. /\ \A i : i \in 1..(n + 1) <=> i \in 1..n \/ i = n + 1
      /\ n + 1 \notin 1..n
  BY <1>1
<1>5. CASE x.part = p
  <2>1. all = old \cup {n + 1} /\ n + 1 \notin old
    BY <1>2, <1>4, <1>5
  <2>2. Cardinality(all) = Cardinality(old) + 1
    BY <1>3, <2>1, FS_AddElement
  <2> HIDE DEF all, old
  <2> QED
    BY <1>1, <1>3, <1>5, <2>2 DEF longer
<1>6. CASE x.part # p
  <2>1. all = old
    BY <1>2, <1>4, <1>6
  <2> HIDE DEF all, old
  <2> QED
    BY <1>1, <1>3, <1>6, <2>1 DEF longer
<1> QED
  BY <1>5, <1>6

\* An empty buffer has no part at all.
LEMMA CountEmpty == ASSUME NEW p PROVE Count(<<>>, p) = 0
<1>1. {i \in DOMAIN <<>> : <<>>[i].part = p} = {}
  OBVIOUS
<1> QED
  BY <1>1, FS_EmptySet DEF Count

\* What the receiver makes of a buffer: a frame that is the phone's if the buffer
\* holds one frame only.
LEMMA TextFacts ==
    ASSUME TypeOK, NEW buf \in Seq(Pieces), buf # <<>>
    PROVE  /\ Text(buf) \in Frames /\ Text(buf).at = asked /\ Text(buf).whole = IsWhole(buf)
           /\ Text(buf).whole =>
                \A i \in DOMAIN buf : buf[i].frame.kind \in {Text(buf).kind, "none"}
<1>1. buf[1].frame \in Frames /\ 1 \in DOMAIN buf
  <2>1. 1 \in DOMAIN buf /\ buf[1] \in Pieces
    OBVIOUS
  <2> QED
    BY <2>1, FrameOfPiece
<1>2. asked \in 0..MaxRequests
  BY DEF TypeOK
<1>3. IsWhole(buf) \in BOOLEAN
  BY DEF IsWhole
<1>4. /\ Text(buf) \in Frames /\ Text(buf).at = asked /\ Text(buf).whole = IsWhole(buf)
      /\ Text(buf).kind = buf[1].frame.kind
  BY <1>1, <1>2, <1>3 DEF Text, Frames
<1>5. ASSUME IsWhole(buf), NEW i \in DOMAIN buf
      PROVE  buf[i].frame.kind \in {Text(buf).kind, "none"}
  <2>1. CASE i = 1
    BY <1>4, <2>1
  <2>2. CASE i # 1
    <3>1. DOMAIN buf = 1..Len(buf) /\ Len(buf) \in {1, 2}
      BY <1>5 DEF IsWhole
    <3>2. i = 2 /\ Len(buf) = 2
      BY <1>5, <2>2, <3>1
    <3>3. buf[i].part = "tail" /\ buf[i] \in Pieces
      BY <1>5, <3>2 DEF IsWhole
    <3>4. buf[i].frame = NoFrame
      BY <3>3, FrameOfPiece
    <3> QED
      BY <3>4, FrameFacts
  <2> QED
    BY <2>1, <2>2
<1> QED
  BY <1>4, <1>5

\* A text that is handed over goes to the caches of its kinds.
LEMMA HandleFacts ==
    ASSUME TypeOK, NEW buf \in Seq(Pieces), buf # <<>>, Handle(buf)
    PROVE  /\ cache' \in [Cached -> Frames] /\ resultId' \in 0..MaxRequests
           /\ hostPc' \in {"idle", "result"} /\ hostFrame' \in Frames /\ result' = result
           /\ \A k \in Cached : cache'[k] = cache[k]
                                \/ (cache'[k].at = asked /\ OfKind(cache'[k], k))
           /\ hostFrame' = hostFrame \/ OfKind(hostFrame', "result")
           /\ garbled' = (IF IsWhole(buf) THEN garbled ELSE garbled + 1) /\ torn' = FALSE
<1> DEFINE text  == Text(buf)
           kinds == {buf[i].frame.kind : i \in DOMAIN buf}
           first == {buf[i].frame.kind : i \in {j \in DOMAIN buf :
                       \A h \in 1..(j - 1) : buf[h].frame.kind = "none"}}
           hit   == {k \in Cached \cap kinds : k = "contacts" => k \in first}
<1>1. /\ cache \in [Cached -> Frames] /\ resultId \in 0..MaxRequests
      /\ hostPc \in {"idle", "result"} /\ hostFrame \in Frames
  BY DEF TypeOK
<1>2. /\ cache' = [k \in Cached |-> IF k \in hit THEN text ELSE cache[k]]
      /\ garbled' = (IF text.whole THEN garbled ELSE garbled + 1) /\ torn' = FALSE
      /\ result' = result
      /\ IF "result" \in kinds THEN HandleResult(buf)
         ELSE UNCHANGED <<resultId, hostPc, hostFrame>>
  BY DEF Handle
<1>3. /\ text \in Frames /\ text.at = asked /\ text.whole = IsWhole(buf)
      /\ text.whole => \A i \in DOMAIN buf : buf[i].frame.kind \in {text.kind, "none"}
  BY TextFacts
<1>4. /\ \A k \in kinds : k # "none" => OfKind(text, k)
      /\ "none" \notin Cached
  BY <1>3 DEF OfKind, Cached
<1> HIDE DEF text, first
<1>5. cache' \in [Cached -> Frames]
  BY <1>1, <1>2, <1>3
<1>6. ASSUME NEW k \in Cached
      PROVE  cache'[k] = cache[k] \/ (cache'[k].at = asked /\ OfKind(cache'[k], k))
  <2>1. CASE k \in hit
    BY <1>2, <1>3, <1>4, <2>1
  <2>2. CASE k \notin hit
    BY <1>2, <2>2
  <2> QED
    BY <2>1, <2>2
<1>7. CASE "result" \in kinds
  <2>1. HandleResult(buf)
    BY <1>2, <1>7
  <2>2. hostPc' = "result" /\ hostFrame' = text
    BY <2>1 DEF HandleResult, text
  <2>3. \A i \in DOMAIN buf : buf[i].frame.id \in 0..MaxRequests
    <3>1. \A i \in DOMAIN buf : buf[i] \in Pieces
      OBVIOUS
    <3>2. \A i \in DOMAIN buf : buf[i].frame \in Frames
      BY <3>1, FrameOfPiece
    <3> QED
      BY <3>2 DEF Frames
  <2>4. resultId' \in 0..MaxRequests
    BY <1>1, <2>1, <2>3 DEF HandleResult
  <2> HIDE DEF kinds
  <2> QED
    BY <1>2, <1>3, <1>4, <1>5, <1>6, <1>7, <2>2, <2>4
<1>8. CASE "result" \notin kinds
  BY <1>1, <1>2, <1>3, <1>5, <1>6, <1>8
<1> QED
  BY <1>7, <1>8

\* A piece that comes in is kept or ends a text; of a parser that is astray no more is
\* said than what it may hand over, and the end of a frame alone is dropped.
LEMMA ReceiveFacts ==
    ASSUME TypeOK, NEW piece \in Pieces, Receive(piece)
    PROVE  LET buf == Append(rx, piece) IN
           /\ buf \in Seq(Pieces) /\ buf # <<>>
           /\ \/ ~Complete(buf) /\ rx' = buf /\ UNCHANGED <<caches, garbled, torn>>
              \/ Complete(buf) /\ rx' = <<>> /\ Handle(buf)
              \/ ~Complete(buf) /\ Astray(buf) /\ Handle(buf)
                 /\ rx' \in {<<>>, <<Piece("rest", NoFrame, FALSE)>>}
              \/ /\ ~Complete(buf) /\ rx = <<>> /\ piece.part = "tail" /\ rx' = <<>>
                 /\ UNCHANGED <<caches, garbled, torn>>
           /\ Complete(buf) <=>
                /\ piece.part # "head"
                /\ newline \/ (~Astray(buf) /\ Count(buf, "head") = Count(buf, "tail"))
<1> DEFINE buf == Append(rx, piece)
<1>1. buf \in Seq(Pieces) /\ buf[Len(buf)] = piece /\ Len(buf) # 0
      /\ Len(buf) = Len(rx) + 1 /\ rx \in Seq(Pieces)
  BY AppendFacts DEF TypeOK
<1>2. buf # <<>> /\ (buf = <<piece>> => rx = <<>>)
  BY <1>1
<1>3. Complete(buf) <=>
        /\ piece.part # "head"
        /\ newline \/ (~Astray(buf) /\ Count(buf, "head") = Count(buf, "tail"))
  BY <1>1 DEF Complete
<1>4. \/ ~Complete(buf) /\ rx' = buf /\ UNCHANGED <<caches, garbled, torn>>
      \/ Complete(buf) /\ rx' = <<>> /\ Handle(buf)
      \/ ~Complete(buf) /\ Astray(buf) /\ Handle(buf)
         /\ rx' \in {<<>>, <<Piece("rest", NoFrame, FALSE)>>}
      \/ /\ ~Complete(buf) /\ buf = <<piece>> /\ piece.part = "tail" /\ rx' = <<>>
         /\ UNCHANGED <<caches, garbled, torn>>
  BY DEF Receive
<1> QED
  BY <1>1, <1>2, <1>3, <1>4

\* It leaves the types of all that it changes.
LEMMA ReceiveTypes ==
    ASSUME TypeOK, NEW piece \in Pieces, Receive(piece)
    PROVE  /\ rx' \in Seq(Pieces) /\ cache' \in [Cached -> Frames] /\ result' \in Frames
           /\ resultId' \in 0..MaxRequests /\ hostPc' \in {"idle", "result"}
           /\ hostFrame' \in Frames /\ garbled' \in Nat /\ torn' \in BOOLEAN
<1> DEFINE buf == Append(rx, piece)
<1>1. /\ rx \in Seq(Pieces) /\ cache \in [Cached -> Frames] /\ result \in Frames
      /\ resultId \in 0..MaxRequests /\ hostPc \in {"idle", "result"}
      /\ hostFrame \in Frames /\ garbled \in Nat /\ torn \in BOOLEAN
  BY DEF TypeOK
<1>2. buf \in Seq(Pieces) /\ buf # <<>>
  BY ReceiveFacts
<1> HIDE DEF buf
<1>3. CASE rx' = buf /\ UNCHANGED <<caches, garbled, torn>>
  BY <1>1, <1>2, <1>3 DEF caches
<1>4. CASE Handle(buf) /\ rx' \in {<<>>, <<Piece("rest", NoFrame, FALSE)>>}
  <2>1. rx' \in Seq(Pieces)
    <3>1. Piece("rest", NoFrame, FALSE) \in Pieces
      BY PieceFacts
    <3>2. \A x \in Pieces : <<x>> \in Seq(Pieces)
      OBVIOUS
    <3>3. <<>> \in Seq(Pieces)
      OBVIOUS
    <3> QED
      BY <1>4, <3>1, <3>2, <3>3
  <2>2. /\ cache' \in [Cached -> Frames] /\ resultId' \in 0..MaxRequests
        /\ hostPc' \in {"idle", "result"} /\ hostFrame' \in Frames /\ result' = result
        /\ garbled' = (IF IsWhole(buf) THEN garbled ELSE garbled + 1) /\ torn' = FALSE
    BY <1>2, <1>4, HandleFacts
  <2>3. garbled' \in {garbled, garbled + 1} /\ torn' = FALSE
    BY <2>2
  <2>4. garbled' \in Nat
    BY <1>1, <2>3
  <2> QED
    BY <1>1, <1>4, <2>1, <2>2, <2>3, <2>4
<1>5. CASE rx' = <<>> /\ UNCHANGED <<caches, garbled, torn>>
  BY <1>1, <1>5 DEF caches
<1> QED
  BY <1>3, <1>4, <1>5, ReceiveFacts DEF buf

\* What the phone writes, in both its steps.
LEMMA WriteFacts ==
    ASSUME TypeOK, PhoneWrites \/ PhoneEndsFrame
    PROVE  \/ /\ writing = NoFrame
              /\ \E f \in Frames : f # NoFrame /\ Write(f)
           \/ /\ writing # NoFrame /\ writing' = NoFrame
              /\ Receive(Piece("tail", NoFrame, FALSE))
<1>1. CASE PhoneEndsFrame
  BY <1>1 DEF PhoneEndsFrame
<1>2. CASE PhoneWrites
  <2>1. todo \subseteq Requests \ {NoRequest}
    BY DEF TypeOK
  <2>2. \A r \in todo : FrameTo(r) \in Frames /\ FrameTo(r) # NoFrame
    BY <2>1, FrameFacts
  <2>3. \A k \in {"new", "contacts"} : /\ FrameTo([NoRequest EXCEPT !.kind = k]) \in Frames
                                       /\ FrameTo([NoRequest EXCEPT !.kind = k]) # NoFrame
    BY FrameFacts
  <2>4. writing = NoFrame
    BY <1>2 DEF PhoneWrites
  <2>5. \/ \E r \in todo : Write(FrameTo(r))
        \/ \E k \in {"new", "contacts"} : Write(FrameTo([NoRequest EXCEPT !.kind = k]))
    BY <1>2 DEF PhoneWrites
  <2> QED
    BY <2>2, <2>3, <2>4, <2>5
<1> QED
  BY <1>1, <1>2

-----------------------------------------------------------------------------
(* The caches.                                                             *)

\* Every step keeps CacheOK.
LEMMA CacheStep == CacheOK /\ RequestOK /\ TypeOK /\ [Next]_vars => CacheOK'
<1> SUFFICES ASSUME CacheOK, RequestOK, TypeOK, [Next]_vars PROVE CacheOK'
  OBVIOUS
<1> USE DEF screen, caches
<1>1. /\ cache \in [Cached -> Frames] /\ req.id = asked
      /\ pc = "clear" => req.kind \in Cached
  BY DEF TypeOK, RequestOK
<1>2. /\ \A k \in Cached : OfKind(cache[k], k)
      /\ OfKind(result, "result") /\ OfKind(hostFrame, "result")
      /\ req.kind \in Cached /\ pc \in {"send", "queue", "transmit", "wait", "read"} =>
           cache[req.kind] = NoFrame \/ cache[req.kind].at = asked
      /\ req.kind \in Cached /\ pc = "read" => got.at = asked /\ OfKind(got, req.kind)
  BY DEF CacheOK
<1>3. \A k : OfKind(NoFrame, k)
  BY FrameFacts DEF OfKind
<1>4. CASE RadioStep \/ LossStep \/ Subscribe \/ UNCHANGED vars
  <2>1. UNCHANGED <<cache, result, hostFrame, req, pc, asked, got>>
    BY <1>4, RadioFoot, LossFoot, SubscribeFoot DEF vars
  <2> QED
    BY <2>1 DEF CacheOK, OfKind
<1>5. CASE PhoneWrites \/ PhoneEndsFrame
  <2>1. \E piece \in Pieces : Receive(piece)
    <3>1. CASE \E f \in Frames : Write(f)
      BY <3>1, PieceFacts DEF Write
    <3>2. CASE Receive(Piece("tail", NoFrame, FALSE))
      BY <3>2, PieceFacts
    <3> QED
      BY <1>5, <3>1, <3>2, WriteFacts
  <2>2. UNCHANGED <<req, pc, asked, got>>
    BY <1>5, PhoneFoot
  <2>3. /\ result' = result
        /\ \A k \in Cached : cache'[k] = cache[k]
                             \/ (cache'[k].at = asked /\ OfKind(cache'[k], k))
        /\ hostFrame' = hostFrame \/ OfKind(hostFrame', "result")
    <3>1. PICK piece \in Pieces : Receive(piece)
      BY <2>1
    <3> DEFINE buf == Append(rx, piece)
    <3>2. /\ buf \in Seq(Pieces) /\ buf # <<>>
          /\ UNCHANGED caches \/ Handle(buf)
      BY <3>1, ReceiveFacts
    <3> HIDE DEF buf
    <3> QED
      BY <3>2, HandleFacts
  <2> QED
    BY <1>2, <2>2, <2>3 DEF CacheOK
<1>6. CASE StoreResult
  <2>1. UNCHANGED <<req, pc, asked, got>>
    BY <1>6, PhoneFoot
  <2>2. result' = hostFrame /\ hostFrame' = NoFrame /\ UNCHANGED cache
    BY <1>6 DEF StoreResult
  <2> QED
    BY <1>2, <1>3, <2>1, <2>2 DEF CacheOK
<1>7. ASSUME UNCHANGED <<result, hostFrame>>,
             \A k \in Cached : cache'[k] = cache[k] \/ cache'[k] = NoFrame
      PROVE  /\ \A k \in Cached : OfKind(cache'[k], k)
             /\ OfKind(result', "result") /\ OfKind(hostFrame', "result")
  BY <1>2, <1>3, <1>7
<1>8. CASE AskStep
  <2>1. PICK k \in Kinds, f \in Friends \cup {NoFriend} : Ask(k, f)
    BY <1>8 DEF AskStep
  <2>2. /\ req'.kind = k /\ pc' = (IF k \in Cached THEN "clear" ELSE "send")
        /\ UNCHANGED <<result, hostFrame, cache>>
    BY <2>1 DEF Ask, At, Rest
  <2> QED
    BY <1>7, <2>2 DEF CacheOK
<1>9. CASE ClearBefore \/ Timeout
  <2>1. /\ UNCHANGED <<result, hostFrame, req, asked>>
        /\ \/ pc' = "send" /\ cache'[req.kind] = NoFrame
           \/ pc' \in {"idle", "http"}
        /\ \A k \in Cached : cache'[k] = cache[k] \/ cache'[k] = NoFrame
    BY <1>1, <1>9 DEF ClearBefore, Timeout, At, Rest
  <2> QED
    BY <1>7, <2>1 DEF CacheOK
<1>10. CASE SendQueue \/ SendTransmit \/ ReadResult \/ HttpStep \/ PcStep
  <2>1. /\ UNCHANGED <<result, hostFrame, req, asked, got, cache>>
        /\ pc' \in {"queue", "transmit", "wait"} => pc \in {"send", "queue", "transmit", "wait"}
        /\ pc' \in {"queue", "transmit", "wait", "idle"} \/ (pc' = "read" /\ req.kind = "result")
    BY <1>10 DEF SendQueue, SendTransmit, ReadResult, HttpStep, Fallback, PcStep, SendCheck,
       PollResult, Cancel, At, Rest, AfterSend
  <2>2. "result" \notin Cached
    BY DEF Cached
  <2> QED
    BY <1>2, <2>1, <2>2 DEF CacheOK
<1>11. CASE Poll
  <2>1. /\ pc = "wait" /\ req.kind \in Cached /\ cache[req.kind] # NoFrame
        /\ pc' = "read" /\ got' = cache[req.kind]
        /\ UNCHANGED <<result, hostFrame, req, asked, cache>>
    BY <1>11 DEF Poll, Rest
  <2> QED
    BY <1>2, <2>1 DEF CacheOK
<1>12. CASE Consume
  <2>1. /\ req.kind \in Cached /\ cache' = [cache EXCEPT ![req.kind] = NoFrame]
        /\ pc' \in {"idle", "wait"} /\ UNCHANGED <<result, hostFrame, req, asked>>
    BY <1>12 DEF Consume, Rest
  <2>2. /\ cache'[req.kind] = NoFrame
        /\ \A k \in Cached : cache'[k] = cache[k] \/ cache'[k] = NoFrame
    BY <1>1, <2>1
  <2> QED
    BY <1>7, <2>1, <2>2 DEF CacheOK
<1> QED
  BY <1>4, <1>5, <1>6, <1>8, <1>9, <1>10, <1>11, <1>12, AllSteps DEF Steps

\* Every step keeps what is said of the answer that is shown.
LEMMA ShownStep ==
    ReadAfterAsked /\ ContactsAnswerRequest /\ CacheOK /\ RequestOK /\ TypeOK /\ [Next]_vars
      => ReadAfterAsked' /\ ContactsAnswerRequest'
<1> SUFFICES ASSUME ReadAfterAsked, ContactsAnswerRequest, CacheOK, RequestOK, TypeOK, [Next]_vars
             PROVE  ReadAfterAsked' /\ ContactsAnswerRequest'
  OBVIOUS
<1> USE DEF screen, ReadAfterAsked, ContactsAnswerRequest
<1>1. "none" \notin Cached /\ "server" \notin Cached /\ "result" \notin Cached
      /\ "contacts" \in Cached
  BY DEF Cached
<1>2. ASSUME shown'.kind \notin Cached PROVE ReadAfterAsked' /\ ContactsAnswerRequest'
  BY <1>1, <1>2
<1>3. CASE RadioStep \/ LossStep \/ Subscribe \/ PhoneWrites \/ PhoneEndsFrame \/ StoreResult
           \/ UNCHANGED vars
  <2>1. UNCHANGED <<shown, req>>
    BY <1>3, RadioFoot, LossFoot, SubscribeFoot, PhoneFoot DEF vars
  <2> QED
    BY <2>1
<1>4. CASE ClearBefore \/ SendQueue \/ SendTransmit \/ Poll \/ Timeout \/ PcStep
  <2>1. UNCHANGED <<shown, req>>
    BY <1>4 DEF ClearBefore, SendQueue, SendTransmit, Poll, Timeout, PcStep, SendCheck,
       PollResult, Cancel
  <2> QED
    BY <2>1
<1>5. CASE AskStep \/ HttpStep
  <2>1. shown' \in {NoFrame, Server}
    BY <1>5 DEF AskStep, Ask, HttpStep, Fallback
  <2> QED
    BY <1>1, <1>2, <2>1, FrameFacts
<1>6. CASE ReadResult
  <2>1. shown' = IF result.whole THEN result ELSE NoFrame
    BY <1>6 DEF ReadResult
  <2>2. result.whole => result.kind \in {"result", "none"}
    BY DEF CacheOK, OfKind
  <2> QED
    BY <1>1, <1>2, <2>1, <2>2, FrameFacts
<1>7. CASE Consume
  <2>1. CASE ~Accepts(got)
    BY <1>7, <2>1 DEF Consume
  <2>2. CASE Accepts(got)
    <3>1. /\ pc = "read" /\ req.kind \in Cached /\ shown' = got /\ req' = req
          /\ got.whole /\ (req.kind = "contacts" => got.id \in {0, req.id})
      BY <1>7, <2>2 DEF Consume, Accepts
    <3>2. got.at = req.id /\ got.kind \in {req.kind, "none"}
      BY <3>1 DEF CacheOK, RequestOK, OfKind
    <3> QED
      BY <1>1, <3>1, <3>2
  <2> QED
    BY <2>1, <2>2
<1> QED
  BY <1>3, <1>4, <1>5, <1>6, <1>7, AllSteps DEF Steps

-----------------------------------------------------------------------------
(* The buffer.                                                             *)

\* A buffer with one frame's pieces is the phone's text.
LEMMA WholeFacts ==
    ASSUME NEW buf \in Seq(Pieces), NEW x \in Pieces
    PROVE  /\ buf = <<>> /\ x.part = "all" => IsWhole(Append(buf, x))
           /\ Len(buf) = 1 /\ buf[1].part = "head" /\ x.part = "tail" => IsWhole(Append(buf, x))
<1>1. CASE buf = <<>> /\ x.part = "all"
  BY <1>1, AppendFacts DEF IsWhole
<1>2. CASE Len(buf) = 1 /\ buf[1].part = "head" /\ x.part = "tail"
  <2>1. /\ Len(Append(buf, x)) = Len(buf) + 1 /\ Append(buf, x)[Len(Append(buf, x))] = x
        /\ \A i \in 1..Len(buf) : Append(buf, x)[i] = buf[i]
    BY AppendFacts
  <2>2. /\ Len(Append(buf, x)) = 2 /\ Append(buf, x)[2] = x
        /\ Append(buf, x)[1] = buf[1]
    BY <1>2, <2>1
  <2> QED
    BY <1>2, <2>2 DEF IsWhole
<1> QED
  BY <1>1, <1>2

\* A loss that cuts a frame leaves its head, and says so.
LEMMA LossBuffer ==
    ASSUME TypeOK, BufferOK, UNCHANGED <<newline, rx, garbled>>, LinkLost \/ LinkStays
    PROVE  BufferOK'
<1>1. garbled \in Nat /\ cuts \in Nat /\ torn \in BOOLEAN /\ split \in BOOLEAN
  BY DEF TypeOK
<1>2. CASE LinkStays \/ (LinkLost /\ writing = NoFrame)
  <2>1. UNCHANGED <<writing, cuts, torn, split>>
    BY <1>1, <1>2 DEF LinkStays, LinkLost
  <2> QED
    BY <2>1 DEF BufferOK, EndedOK, PlainOK, LinesOK, BracesOK, AtHead, Opened, Count, Astray
<1>3. CASE LinkLost /\ writing # NoFrame
  <2>1. /\ writing' = NoFrame /\ cuts' = cuts + 1 /\ torn'
        /\ ~split' => ~split /\ ~(rx # <<>> /\ rx[Len(rx)].quoted)
    BY <1>1, <1>3 DEF LinkLost
  <2>2. EndedOK' /\ LinesOK'
    BY <1>1, <2>1 DEF BufferOK, EndedOK, LinesOK
  <2>3. PlainOK'
    BY <2>1 DEF BufferOK, PlainOK, Astray
  <2>4. Opened' = Opened
    BY DEF Opened, Count
  <2>5. Opened \in Int
    <3>1. rx \in Seq(Pieces)
      BY DEF TypeOK
    <3>2. Count(rx, "head") \in Nat /\ Count(rx, "tail") \in Nat
      BY <3>1, CountNat
    <3> QED
      BY <3>2 DEF Opened
  <2>6. BracesOK'
    <3> SUFFICES ASSUME ~newline, ~split' PROVE garbled = 0 /\ Opened >= 0 /\ Opened # 0
      BY <2>1, <2>4 DEF BracesOK
    <3>1. garbled = 0 /\ Opened >= 1
      BY <1>3, <2>1 DEF BufferOK, BracesOK
    <3> QED
      BY <2>5, <3>1
  <2> QED
    BY <2>2, <2>3, <2>6 DEF BufferOK
<1> QED
  BY <1>2, <1>3

\* A parser that knows text from strings knows it after one more piece of the frame.
LEMMA ReceivePlain ==
    ASSUME TypeOK, PlainOK, ~split, NEW x \in Pieces, Receive(x),
           \/ x.part \in {"head", "all"} /\ writing = NoFrame
           \/ x.part = "tail" /\ writing # NoFrame
    PROVE  LET buf == Append(rx, x) IN
           /\ ~Astray(buf) /\ buf \in Seq(Pieces) /\ buf # <<>>
           /\ \/ ~Complete(buf) /\ rx' = buf /\ UNCHANGED <<garbled, torn>>
              \/ Complete(buf) /\ rx' = <<>> /\ torn' = FALSE
                 /\ garbled' = IF IsWhole(buf) THEN garbled ELSE garbled + 1
           /\ Complete(buf) <=> /\ x.part # "head"
                                /\ newline \/ Count(buf, "head") = Count(buf, "tail")
<1> DEFINE buf == Append(rx, x)
<1>1. /\ rx # <<>> => ~Astray(rx)
      /\ rx # <<>> /\ rx[Len(rx)].quoted => writing # NoFrame
      /\ writing # NoFrame => rx # <<>>
  BY DEF PlainOK
<1>2. rx \in Seq(Pieces)
  BY DEF TypeOK
<1>3. /\ Len(buf) = Len(rx) + 1 /\ Len(rx) \in Nat /\ buf[Len(buf)] = x
      /\ \A i \in 1..Len(rx) : buf[i] = rx[i]
      /\ rx = <<>> => buf = <<x>>
      /\ rx # <<>> => Len(rx) >= 1
  BY <1>2, AppendFacts
<1>4. ~Astray(buf)
  <2>1. CASE rx = <<>>
    <3>1. Len(buf) = 1 /\ buf[1] = x /\ x.part \in {"head", "all"}
      BY <1>1, <1>3, <2>1
    <3> HIDE DEF buf
    <3> QED
      BY <3>1 DEF Astray
  <2>2. CASE rx # <<>>
    <3>1. buf[1] = rx[1] /\ rx[1].part \notin {"rest", "tail"}
      BY <1>1, <1>3, <2>2 DEF Astray
    <3>2. \A i \in 1..(Len(rx) - 1) : ~(rx[i].quoted /\ rx[i + 1].part # "tail")
      BY <1>1, <2>2 DEF Astray
    <3>3. ASSUME NEW i \in 1..(Len(buf) - 1), buf[i].quoted, buf[i + 1].part # "tail"
          PROVE  FALSE
      <4>1. CASE i = Len(rx)
        <5>1. buf[i] = rx[Len(rx)] /\ buf[i + 1] = x
          BY <1>3, <2>2, <4>1
        <5> QED
          BY <1>1, <2>2, <3>3, <5>1
      <4>2. CASE i # Len(rx)
        <5>1. i \in 1..(Len(rx) - 1) /\ i \in 1..Len(rx) /\ i + 1 \in 1..Len(rx)
          BY <1>3, <4>2
        <5>2. buf[i] = rx[i] /\ buf[i + 1] = rx[i + 1]
          BY <1>3, <5>1
        <5> QED
          BY <3>2, <3>3, <5>1, <5>2
      <4> QED
        BY <4>1, <4>2
    <3> HIDE DEF buf
    <3> QED
      BY <3>1, <3>3 DEF Astray
  <2> QED
    BY <2>1, <2>2
<1>5. /\ buf \in Seq(Pieces) /\ buf # <<>>
      /\ \/ ~Complete(buf) /\ rx' = buf /\ UNCHANGED <<garbled, torn>>
         \/ Complete(buf) /\ rx' = <<>> /\ Handle(buf)
         \/ Astray(buf)
         \/ rx = <<>> /\ x.part = "tail"
      /\ Complete(buf) <=>
           /\ x.part # "head"
           /\ newline \/ (~Astray(buf) /\ Count(buf, "head") = Count(buf, "tail"))
  BY ReceiveFacts
<1> HIDE DEF buf
<1>6. Handle(buf) => /\ torn' = FALSE
                     /\ garbled' = IF IsWhole(buf) THEN garbled ELSE garbled + 1
  BY <1>5, HandleFacts
<1>7. ~(rx = <<>> /\ x.part = "tail")
  BY <1>1
<1> QED
  BY <1>4, <1>5, <1>6, <1>7 DEF buf

\* What is left after a piece is still plain: its quotes are those of the last piece.
LEMMA PlainAfter ==
    ASSUME TypeOK, PlainOK, UNCHANGED split, NEW x \in Pieces, Receive(x),
           \/ x.part = "head" /\ writing = NoFrame /\ writing' # NoFrame
           \/ x.part = "all" /\ ~x.quoted /\ writing = NoFrame /\ writing' = NoFrame
           \/ x.part = "tail" /\ ~x.quoted /\ writing # NoFrame /\ writing' = NoFrame
    PROVE  PlainOK'
<1> DEFINE buf == Append(rx, x)
<1> SUFFICES ASSUME ~split
             PROVE  /\ rx' # <<>> => ~Astray(rx')
                    /\ rx' # <<>> /\ rx'[Len(rx')].quoted => writing' # NoFrame
                    /\ writing' # NoFrame => rx' # <<>>
  BY DEF PlainOK, Astray
<1>1. /\ ~Astray(buf) /\ buf # <<>>
      /\ rx' = buf \/ (x.part # "head" /\ rx' = <<>>)
  BY ReceivePlain
<1>2. buf[Len(buf)] = x
  BY AppendFacts DEF TypeOK
<1> HIDE DEF buf
<1> QED
  BY <1>1, <1>2

\* The last piece of a frame leaves nothing behind it where newlines end frames.
LEMMA EndedAfter ==
    ASSUME TypeOK, UNCHANGED newline, NEW x \in Pieces, Receive(x),
           writing' # NoFrame \/ x.part # "head"
    PROVE  EndedOK'
<1> SUFFICES ASSUME newline, x.part # "head" PROVE rx' = <<>>
  BY DEF EndedOK
<1> DEFINE buf == Append(rx, x)
<1>1. Complete(buf)
  BY ReceiveFacts
<1> QED
  BY <1>1, ReceiveFacts

\* A frame that begins, in one piece or with its head.
LEMMA FrameBegins ==
    ASSUME TypeOK, BufferOK, UNCHANGED <<newline, cuts, split>>,
           writing = NoFrame, NEW f \in Frames, f # NoFrame, Write(f)
    PROVE  BufferOK'
<1>1. /\ rx \in Seq(Pieces) /\ garbled \in Nat /\ cuts \in Nat /\ torn \in BOOLEAN
      /\ newline \in BOOLEAN
  BY DEF TypeOK
<1>2. Count(rx, "head") \in Nat /\ Count(rx, "tail") \in Nat
  BY <1>1, CountNat
<1>3. EndedOK /\ PlainOK /\ LinesOK /\ BracesOK
  BY DEF BufferOK
<1>4. ASSUME NEW q \in BOOLEAN, writing' = f, Receive(Piece("head", f, q)) PROVE BufferOK'
  <2> DEFINE x == Piece("head", f, q)
             buf == Append(rx, x)
  <2>1. x \in Pieces /\ x.part = "head"
    BY PieceFacts
  <2>2. Receive(x)
    BY <1>4
  <2> HIDE DEF x
  <2>3. EndedOK' /\ PlainOK'
    BY <1>3, <1>4, <2>1, <2>2, EndedAfter, PlainAfter
  <2>4. ~split => rx' = buf /\ UNCHANGED <<garbled, torn>>
    BY <1>3, <2>1, <2>2, ReceivePlain
  <2>5. /\ DOMAIN buf = 1..(Len(rx) + 1) /\ DOMAIN rx = 1..Len(rx) /\ Len(rx) \in Nat
        /\ \A i \in 1..Len(rx) : buf[i] = rx[i]
        /\ buf[Len(rx) + 1] = x
        /\ rx = <<>> => buf = <<x>>
    BY <1>1, <2>1, AppendFacts
  <2>6. Count(buf, "head") = Count(rx, "head") + 1 /\ Count(buf, "tail") = Count(rx, "tail")
    BY <1>1, <1>2, <2>1, CountAppend
  <2>7. ~split /\ rx = <<>> => AtHead'
    BY <1>4, <2>1, <2>4, <2>5 DEF AtHead
  <2> HIDE DEF buf
  <2>8. LinesOK'
    <3> SUFFICES ASSUME newline, ~split
                 PROVE  /\ \A i \in DOMAIN rx' : rx'[i].part = "head"
                        /\ ~torn' => AtHead'
                        /\ garbled' + (IF torn' THEN 1 ELSE 0) <= cuts
      BY DEF LinesOK
    <3>1. /\ \A i \in DOMAIN rx : rx[i].part = "head"
          /\ ~torn => rx = <<>>
          /\ garbled + (IF torn THEN 1 ELSE 0) <= cuts
      BY <1>3 DEF LinesOK, AtHead
    <3>2. \A i \in DOMAIN buf : buf[i].part = "head"
      BY <2>1, <2>5, <3>1
    <3> QED
      BY <2>4, <2>7, <3>1, <3>2
  <2>9. BracesOK'
    <3> SUFFICES ASSUME ~newline, ~split
                 PROVE  garbled' = 0 /\ Opened' >= 1 /\ (Opened' = 1 => AtHead')
      BY <1>4 DEF BracesOK
    <3>1. Opened' = Opened + 1 /\ Opened \in Int
      BY <1>2, <2>4, <2>6 DEF Opened, Count
    <3>2. garbled = 0 /\ Opened >= 0 /\ (Opened = 0 => rx = <<>>)
      BY <1>3 DEF BracesOK, AtHead
    <3> QED
      BY <2>4, <2>7, <3>1, <3>2
  <2> QED
    BY <2>3, <2>8, <2>9 DEF BufferOK
<1>5. CASE writing' = NoFrame /\ Receive(Piece("all", f, FALSE))
  <2> DEFINE x == Piece("all", f, FALSE)
             buf == Append(rx, x)
  <2>1. x \in Pieces /\ x.part = "all" /\ ~x.quoted
    BY PieceFacts
  <2>2. Receive(x)
    BY <1>5
  <2> HIDE DEF x
  <2>3. EndedOK' /\ PlainOK'
    BY <1>3, <1>5, <2>1, <2>2, EndedAfter, PlainAfter
  <2>4. ~split =>
        /\ \/ ~Complete(buf) /\ rx' = buf /\ UNCHANGED <<garbled, torn>>
           \/ Complete(buf) /\ rx' = <<>> /\ torn' = FALSE
              /\ garbled' = IF IsWhole(buf) THEN garbled ELSE garbled + 1
        /\ Complete(buf) <=> newline \/ Count(buf, "head") = Count(buf, "tail")
    BY <1>3, <2>1, <2>2, ReceivePlain
  <2>5. rx = <<>> => IsWhole(buf)
    BY <1>1, <2>1, WholeFacts
  <2>6. Count(buf, "head") = Count(rx, "head") /\ Count(buf, "tail") = Count(rx, "tail")
    BY <1>1, <1>2, <2>1, CountAppend
  <2>7. AtHead' <=> rx' = <<>>
    BY <1>5 DEF AtHead
  <2> HIDE DEF buf
  <2>8. LinesOK'
    <3> SUFFICES ASSUME newline, ~split PROVE rx' = <<>> /\ ~torn' /\ garbled' \in 0..cuts
      BY <1>1, <2>7 DEF LinesOK
    <3>1. (~torn => rx = <<>>) /\ garbled + (IF torn THEN 1 ELSE 0) <= cuts
      BY <1>3 DEF LinesOK, AtHead
    <3>2. Complete(buf)
      BY <2>4
    <3>3. garbled' \in 0..cuts
      BY <1>1, <2>4, <2>5, <3>1, <3>2
    <3> QED
      BY <2>4, <3>2, <3>3
  <2>9. BracesOK'
    <3> SUFFICES ASSUME ~newline, ~split
                 PROVE  garbled' = 0 /\ Opened' >= 0 /\ (Opened' = 0 => rx' = <<>>)
      BY <1>5, <2>7 DEF BracesOK
    <3>1. garbled = 0 /\ Opened >= 0 /\ (Opened = 0 => rx = <<>>)
      BY <1>3 DEF BracesOK, AtHead
    <3>2. CASE Complete(buf)
      <4>1. Opened = 0
        BY <1>2, <2>4, <2>6, <3>2 DEF Opened
      <4>2. rx' = <<>> /\ garbled' = 0
        BY <2>4, <2>5, <3>1, <3>2, <4>1
      <4>3. Opened' = 0
        BY <4>2, CountEmpty DEF Opened, Count
      <4> QED
        BY <4>2, <4>3
    <3>3. CASE ~Complete(buf)
      <4>1. Opened # 0 /\ rx' = buf /\ garbled' = garbled
        BY <1>2, <2>4, <2>6, <3>3 DEF Opened
      <4>2. Opened' = Opened
        BY <2>6, <4>1 DEF Opened, Count
      <4> QED
        BY <3>1, <4>1, <4>2
    <3> QED
      BY <3>2, <3>3
  <2> QED
    BY <2>3, <2>8, <2>9 DEF BufferOK
<1> QED
  BY <1>4, <1>5 DEF Write

\* A frame that ends: its tail finds its own head, and nothing else, unless a loss has
\* left something before it.
LEMMA FrameEnds ==
    ASSUME TypeOK, BufferOK, UNCHANGED <<newline, cuts, split>>, writing # NoFrame,
           writing' = NoFrame, Receive(Piece("tail", NoFrame, FALSE))
    PROVE  BufferOK'
<1>1. /\ rx \in Seq(Pieces) /\ garbled \in Nat /\ cuts \in Nat /\ torn \in BOOLEAN
      /\ newline \in BOOLEAN
  BY DEF TypeOK
<1>2. Count(rx, "head") \in Nat /\ Count(rx, "tail") \in Nat
  BY <1>1, CountNat
<1>3. EndedOK /\ PlainOK /\ LinesOK /\ BracesOK
  BY DEF BufferOK
<1> DEFINE x == Piece("tail", NoFrame, FALSE)
           buf == Append(rx, x)
<1>4. x \in Pieces /\ x.part = "tail" /\ ~x.quoted
  BY PieceFacts
<1>5. Receive(x)
  OBVIOUS
<1> HIDE DEF x
<1>6. EndedOK' /\ PlainOK'
  BY <1>3, <1>4, <1>5, EndedAfter, PlainAfter
<1>7. ~split =>
      /\ \/ ~Complete(buf) /\ rx' = buf /\ UNCHANGED <<garbled, torn>>
         \/ Complete(buf) /\ rx' = <<>> /\ torn' = FALSE
            /\ garbled' = IF IsWhole(buf) THEN garbled ELSE garbled + 1
      /\ Complete(buf) <=> newline \/ Count(buf, "head") = Count(buf, "tail")
  BY <1>3, <1>4, <1>5, ReceivePlain
<1>8. AtHead => IsWhole(buf)
  BY <1>1, <1>4, WholeFacts DEF AtHead
<1>9. Count(buf, "head") = Count(rx, "head") /\ Count(buf, "tail") = Count(rx, "tail") + 1
  BY <1>1, <1>2, <1>4, CountAppend
<1>10. AtHead' <=> rx' = <<>>
  BY DEF AtHead
<1> HIDE DEF buf
<1>11. LinesOK'
  <2> SUFFICES ASSUME newline, ~split PROVE rx' = <<>> /\ ~torn' /\ garbled' \in 0..cuts
    BY <1>1, <1>10 DEF LinesOK
  <2>1. (~torn => AtHead) /\ garbled + (IF torn THEN 1 ELSE 0) <= cuts
    BY <1>3 DEF LinesOK
  <2>2. Complete(buf)
    BY <1>7
  <2>3. garbled' \in 0..cuts
    BY <1>1, <1>7, <1>8, <2>1, <2>2
  <2> QED
    BY <1>7, <2>2, <2>3
<1>12. BracesOK'
  <2> SUFFICES ASSUME ~newline, ~split
               PROVE  garbled' = 0 /\ Opened' >= 0 /\ (Opened' = 0 => rx' = <<>>)
    BY <1>10 DEF BracesOK
  <2>1. garbled = 0 /\ Opened >= 1 /\ (Opened = 1 => AtHead)
    BY <1>3 DEF BracesOK
  <2>2. CASE Complete(buf)
    <3>1. Opened = 1
      BY <1>2, <1>7, <1>9, <2>2 DEF Opened
    <3>2. rx' = <<>> /\ garbled' = 0
      BY <1>7, <1>8, <2>1, <2>2, <3>1
    <3>3. Opened' = 0
      BY <3>2, CountEmpty DEF Opened, Count
    <3> QED
      BY <3>2, <3>3
  <2>3. CASE ~Complete(buf)
    <3>1. Opened # 1 /\ rx' = buf /\ garbled' = garbled /\ Opened \in Int
      BY <1>2, <1>7, <1>9, <2>3 DEF Opened
    <3>2. Opened' = Opened - 1
      BY <1>2, <1>9, <3>1 DEF Opened, Count
    <3> QED
      BY <2>1, <3>1, <3>2
  <2> QED
    BY <2>2, <2>3
<1> QED
  BY <1>6, <1>11, <1>12 DEF BufferOK

\* Every step keeps what is said of the buffer.
LEMMA BufferStep == BufferOK /\ TypeOK /\ [Next]_vars => BufferOK'
<1> SUFFICES ASSUME BufferOK, TypeOK, [Next]_vars PROVE BufferOK'
  OBVIOUS
<1>1. ASSUME UNCHANGED <<newline, rx, writing, garbled, cuts, torn, split>> PROVE BufferOK'
  BY <1>1 DEF BufferOK, EndedOK, PlainOK, LinesOK, BracesOK, AtHead, Opened, Count, Astray
<1>2. CASE RadioStep
  BY <1>1, <1>2, RadioFoot DEF phone
<1>3. CASE Subscribe
  BY <1>1, <1>3, SubscribeFoot DEF stackv, faults
<1>4. CASE \/ AskStep \/ ClearBefore \/ SendQueue \/ SendTransmit \/ Poll \/ Consume
           \/ ReadResult \/ Timeout \/ HttpStep \/ PcStep
  BY <1>1, <1>4, ScreenFoot DEF stackv, faults
<1>5. CASE StoreResult
  BY <1>1, <1>5 DEF StoreResult, stackv, faults, phone
<1>6. CASE UNCHANGED vars
  BY <1>1, <1>6 DEF vars, stackv, faults, phone
<1>7. CASE LossStep
  BY <1>7, LossFoot, LossBuffer
<1>8. CASE PhoneWrites \/ PhoneEndsFrame
  <2>1. UNCHANGED <<newline, cuts, split>>
    BY <1>8, PhoneFoot DEF stackv
  <2> QED
    BY <1>8, <2>1, WriteFacts, FrameBegins, FrameEnds
<1> QED
  BY <1>2, <1>3, <1>4, <1>5, <1>6, <1>7, <1>8, AllSteps DEF Steps

-----------------------------------------------------------------------------
(* The types.                                                              *)

\* TypeOK by the parts that change together.
RadioTypes ==
    /\ adv \in BOOLEAN /\ advFlag \in BOOLEAN /\ link \in BOOLEAN
    /\ conn \in BOOLEAN /\ notify \in BOOLEAN /\ wifi \in BOOLEAN
StackTypes ==
    /\ stack \in Stacks /\ newline \in BOOLEAN /\ inited \in BOOLEAN
    /\ released \in BOOLEAN /\ lastErr \in BOOLEAN
BufferTypes ==
    /\ rx \in Seq(Pieces) /\ cache \in [Cached -> Frames]
    /\ result \in Frames /\ hostFrame \in Frames
    /\ hostPc \in {"idle", "result"} /\ resultId \in 0..MaxRequests
    /\ garbled \in Nat /\ torn \in BOOLEAN /\ split \in BOOLEAN
PhoneTypes ==
    /\ pending \in Requests /\ todo \subseteq Requests \ {NoRequest}
    /\ writing \in Frames /\ sent \in [1..MaxRequests -> Nat] /\ cuts \in Nat
ScreenTypes ==
    /\ req \in Requests /\ got \in Frames /\ shown \in Frames /\ asked \in 0..MaxRequests
    /\ pc \in {"idle", "clear", "send", "queue", "transmit", "wait", "read", "http"}
BoundTypes == drops \in 0..MaxDrops /\ pushes \in 0..MaxPushes /\ toggles \in 0..MaxToggles

\* The parts are the whole.
LEMMA Parts ==
    TypeOK <=> /\ RadioTypes /\ StackTypes /\ BufferTypes /\ PhoneTypes /\ ScreenTypes
               /\ BoundTypes
  BY DEF TypeOK, RadioTypes, StackTypes, BufferTypes, PhoneTypes, ScreenTypes, BoundTypes

\* The same of the state after a step.
LEMMA PartsAfter ==
    TypeOK' <=> /\ RadioTypes' /\ StackTypes' /\ BufferTypes' /\ PhoneTypes' /\ ScreenTypes'
                /\ BoundTypes'
  BY DEF TypeOK, RadioTypes, StackTypes, BufferTypes, PhoneTypes, ScreenTypes, BoundTypes

\* A part keeps its types when it is left alone.
LEMMA Same ==
    /\ RadioTypes /\ UNCHANGED <<radio, flags, wifi>> => RadioTypes'
    /\ StackTypes /\ UNCHANGED stackv => StackTypes'
    /\ BufferTypes /\ UNCHANGED <<rx, caches, garbled, torn, split>> => BufferTypes'
    /\ PhoneTypes /\ UNCHANGED <<pending, phone, cuts>> => PhoneTypes'
    /\ ScreenTypes /\ UNCHANGED screen => ScreenTypes'
    /\ BoundTypes /\ UNCHANGED <<drops, pushes, toggles>> => BoundTypes'
  BY DEF RadioTypes, StackTypes, BufferTypes, PhoneTypes, ScreenTypes, BoundTypes,
     radio, flags, stackv, caches, phone, screen

\* The radio and the stack, in the hands of the manager and of the phone.
LEMMA RadioTypeStep ==
    ASSUME TypeOK, RadioStep \/ LossStep
    PROVE  RadioTypes' /\ StackTypes' /\ BoundTypes'
<1> USE BoundAssumption
<1> USE DEF radio, flags, stackv, faults, Toggle
<1>1. RadioTypes /\ StackTypes /\ BoundTypes
  BY Parts
<1>2. CASE Connect \/ ConnectFails
  <2>1. UNCHANGED <<stackv, drops, pushes, toggles, advFlag, wifi>>
    BY <1>2 DEF Connect, ConnectFails, HostSync
  <2>2. link' \in BOOLEAN /\ conn' \in BOOLEAN /\ adv' \in BOOLEAN
    BY <1>1, <1>2 DEF Connect, ConnectFails, HostSync, RadioTypes
  <2>3. notify' \in BOOLEAN
    BY <1>1, <1>2 DEF Connect, ConnectFails, RadioTypes
  <2> QED
    BY <1>1, <2>1, <2>2, <2>3 DEF RadioTypes, StackTypes, BoundTypes
<1>3. CASE EnableNimble
  <2>1. /\ UNCHANGED <<stack, newline, released, link, conn, notify, wifi, drops, pushes>>
        /\ toggles < MaxToggles /\ toggles' = toggles + 1
        /\ UNCHANGED advFlag /\ lastErr' \in BOOLEAN /\ inited' \in {inited, TRUE}
    BY <1>3 DEF EnableNimble, HostSync
  <2>2. adv' \in BOOLEAN
    BY <1>1, <1>3 DEF EnableNimble, HostSync, RadioTypes
  <2>3. RadioTypes'
    BY <1>1, <2>1, <2>2 DEF RadioTypes
  <2>4. StackTypes'
    BY <1>1, <2>1, <2>2 DEF StackTypes
  <2>5. BoundTypes'
    BY <1>1, <2>1 DEF BoundTypes
  <2> QED
    BY <2>3, <2>4, <2>5
<1>4. CASE EnableBluedroid
  <2>1. /\ UNCHANGED <<stack, newline, link, conn, notify, wifi, drops, pushes>>
        /\ toggles < MaxToggles /\ toggles' = toggles + 1
        /\ advFlag' \in {advFlag, TRUE} /\ lastErr' \in BOOLEAN /\ inited' \in {inited, TRUE}
        /\ released' \in {released, TRUE}
    BY <1>4 DEF EnableBluedroid, StartAdvertising
  <2>2. adv' \in BOOLEAN
    BY <1>1, <1>4 DEF EnableBluedroid, StartAdvertising, RadioTypes
  <2>3. RadioTypes'
    BY <1>1, <2>1, <2>2 DEF RadioTypes
  <2>4. StackTypes'
    BY <1>1, <2>1, <2>2 DEF StackTypes
  <2>5. BoundTypes'
    BY <1>1, <2>1 DEF BoundTypes
  <2> QED
    BY <2>3, <2>4, <2>5
<1>5. CASE WifiChanges
  <2>1. UNCHANGED <<radio, flags, stackv, faults>>
    BY <1>5 DEF WifiChanges
  <2>2. wifi' \in BOOLEAN
    BY <1>5 DEF WifiChanges
  <2>3. RadioTypes'
    BY <1>1, <2>1, <2>2 DEF RadioTypes
  <2>4. StackTypes'
    BY <1>1, <2>1, <2>2 DEF StackTypes
  <2>5. BoundTypes'
    BY <1>1, <2>1 DEF BoundTypes
  <2> QED
    BY <2>3, <2>4, <2>5
<1>6. CASE DisconnectNimble \/ DisconnectBluedroid
  <2>1. /\ UNCHANGED <<stackv, wifi, pushes, toggles>> /\ drops < MaxDrops /\ drops' = drops + 1
        /\ link' = FALSE /\ conn' = FALSE /\ notify' = FALSE
        /\ advFlag' \in {advFlag, TRUE}
    BY <1>6 DEF DisconnectNimble, DisconnectBluedroid, PhoneLeaves, LinkLost
  <2>2. adv' \in BOOLEAN
    BY <1>1, <1>6 DEF DisconnectNimble, DisconnectBluedroid, RadioTypes
  <2>3. RadioTypes'
    BY <1>1, <2>1, <2>2 DEF RadioTypes
  <2>4. StackTypes'
    BY <1>1, <2>1, <2>2 DEF StackTypes
  <2>5. BoundTypes'
    BY <1>1, <2>1 DEF BoundTypes
  <2> QED
    BY <2>3, <2>4, <2>5
<1>7. CASE DisableNimble \/ DisableBluedroid
  <2>1. /\ UNCHANGED <<stack, newline, lastErr, wifi, drops, pushes>>
        /\ toggles < MaxToggles /\ toggles' = toggles + 1
        /\ inited' = FALSE /\ adv' = FALSE /\ advFlag' \in {advFlag, FALSE}
        /\ link' \in {link, FALSE} /\ conn' \in {conn, FALSE} /\ notify' \in {notify, FALSE}
    BY <1>7 DEF DisableNimble, DisableBluedroid, LinkLost, LinkStays
  <2>2. released' \in BOOLEAN
    BY <1>1, <1>7 DEF DisableNimble, DisableBluedroid, StackTypes
  <2>3. RadioTypes'
    BY <1>1, <2>1, <2>2 DEF RadioTypes
  <2>4. StackTypes'
    BY <1>1, <2>1, <2>2 DEF StackTypes
  <2>5. BoundTypes'
    BY <1>1, <2>1 DEF BoundTypes
  <2> QED
    BY <2>3, <2>4, <2>5
<1> QED
  BY <1>2, <1>3, <1>4, <1>5, <1>6, <1>7 DEF RadioStep, LossStep

\* A link that is lost, seen from the phone.
LEMMA LossTypes ==
    ASSUME TypeOK, LossStep PROVE BufferTypes' /\ PhoneTypes' /\ ScreenTypes'
<1>1. BufferTypes /\ PhoneTypes /\ ScreenTypes
  BY Parts
<1>2. /\ UNCHANGED <<rx, caches, sent, screen, garbled>> /\ pending' \in {pending, NoRequest}
      /\ LinkLost \/ LinkStays
  BY LossFoot
<1>3. ScreenTypes'
  BY <1>1, <1>2, Same
<1>4. /\ todo' \in {todo, {}} /\ writing' \in {writing, NoFrame} /\ cuts' \in {cuts, cuts + 1}
  BY <1>2 DEF LinkLost, LinkStays
<1>5. PhoneTypes'
  BY <1>1, <1>2, <1>4, FrameFacts DEF PhoneTypes
<1>6. torn' \in BOOLEAN /\ split' \in BOOLEAN
  <2>1. CASE LinkLost
    BY <2>1 DEF LinkLost
  <2>2. CASE LinkStays
    BY <1>1, <2>2 DEF LinkStays, BufferTypes
  <2> QED
    BY <1>2, <2>1, <2>2
<1>7. BufferTypes'
  BY <1>1, <1>2, <1>6 DEF BufferTypes, caches
<1> QED
  BY <1>3, <1>5, <1>7

\* A request that goes out.
LEMMA TransmitTypes ==
    ASSUME TypeOK, NEW r \in Requests, r.id \in 1..MaxRequests, Transmit(r)
    PROVE  /\ sent' \in [1..MaxRequests -> Nat] /\ todo' \subseteq Requests \ {NoRequest}
           /\ writing' = writing
<1>1. r # NoRequest
  BY BoundAssumption DEF NoRequest
<1>2. todo \subseteq Requests \ {NoRequest} /\ sent \in [1..MaxRequests -> Nat]
  BY DEF TypeOK
<1>3. todo' \in {todo, todo \cup {r}} /\ writing' = writing
      /\ sent' = [sent EXCEPT ![r.id] = sent[r.id] + 1]
  BY DEF Transmit
<1>4. sent' \in [1..MaxRequests -> Nat]
  BY <1>2, <1>3
<1> QED
  BY <1>1, <1>2, <1>3, <1>4

\* A subscription, and what it sends.
LEMMA SubscribeTypes == ASSUME TypeOK, RequestOK, Subscribe PROVE TypeOK'
<1>1. /\ RadioTypes /\ StackTypes /\ BufferTypes /\ PhoneTypes /\ ScreenTypes /\ BoundTypes
      /\ asked \in 0..MaxRequests /\ MaxRequests \in Nat
  BY Parts, BoundAssumption DEF ScreenTypes
<1>2. UNCHANGED <<radio, conn, stackv, rx, caches, wifi, screen, faults, writing>>
      /\ notify' \in BOOLEAN
  BY SubscribeFoot
<1>3. StackTypes' /\ BufferTypes' /\ ScreenTypes' /\ BoundTypes'
  BY <1>1, <1>2, Same DEF faults
<1>4. RadioTypes'
  BY <1>1, <1>2 DEF RadioTypes, radio
<1>5. PhoneTypes'
  <2>1. CASE UNCHANGED <<pending, phone>>
    BY <1>1, <1>2, <2>1, Same DEF faults
  <2>2. CASE pending # NoRequest /\ pending' = NoRequest /\ Transmit(pending)
    <3>1. pending \in Requests /\ pending.id \in 1..MaxRequests
      BY <1>1, <2>2 DEF PhoneTypes, RequestOK
    <3>2. sent' \in [1..MaxRequests -> Nat] /\ todo' \subseteq Requests \ {NoRequest}
      BY <2>2, <3>1, TransmitTypes
    <3> QED
      BY <1>1, <1>2, <2>2, <3>2, FrameFacts DEF PhoneTypes, faults
  <2> QED
    BY <2>1, <2>2, SubscribeFoot
<1> QED
  BY <1>3, <1>4, <1>5, PartsAfter

\* What the phone writes.
LEMMA PhoneTypeStep ==
    ASSUME TypeOK, PhoneWrites \/ PhoneEndsFrame \/ StoreResult PROVE TypeOK'
<1>1. /\ RadioTypes /\ StackTypes /\ BufferTypes /\ PhoneTypes /\ ScreenTypes /\ BoundTypes
  BY Parts
<1>2. UNCHANGED <<radio, flags, stackv, pending, wifi, sent, screen, drops, cuts, split,
                  toggles>>
  BY PhoneFoot
<1>3. RadioTypes' /\ StackTypes' /\ ScreenTypes'
  BY <1>1, <1>2, Same
<1>4. CASE StoreResult
  <2>1. /\ result' = hostFrame /\ hostFrame' = NoFrame /\ hostPc' = "idle"
        /\ UNCHANGED <<rx, cache, resultId, phone, faults>>
    BY <1>4 DEF StoreResult
  <2>2. BufferTypes'
    BY <1>1, <2>1, FrameFacts DEF BufferTypes, faults
  <2>3. PhoneTypes' /\ BoundTypes'
    BY <1>1, <1>2, <2>1, Same DEF faults
  <2> QED
    BY <1>3, <2>2, <2>3, PartsAfter
<1>5. CASE PhoneWrites \/ PhoneEndsFrame
  <2>1. writing \in Frames
    BY <1>1 DEF PhoneTypes
  <2>2. writing' \in Frames /\ \E piece \in Pieces : Receive(piece)
    <3>1. CASE \E f \in Frames : Write(f)
      BY <3>1, PieceFacts, FrameFacts DEF Write
    <3>2. CASE writing' = NoFrame /\ Receive(Piece("tail", NoFrame, FALSE))
      BY <2>1, <3>2, PieceFacts, FrameFacts
    <3> QED
      BY <1>5, <3>1, <3>2, WriteFacts
  <2>3. BufferTypes'
    BY <1>1, <1>2, <2>2, ReceiveTypes DEF BufferTypes
  <2>4. todo' \subseteq todo /\ pushes' \in {pushes, pushes + 1}
        /\ (pushes' = pushes + 1 => pushes < MaxPushes \/ pushes' = pushes)
    BY <1>5 DEF PhoneWrites, PhoneEndsFrame
  <2>5. PhoneTypes'
    BY <1>1, <1>2, <2>2, <2>4 DEF PhoneTypes
  <2>6. BoundTypes'
    BY <1>1, <1>2, <2>4, BoundAssumption DEF BoundTypes
  <2> QED
    BY <1>3, <2>3, <2>5, <2>6, PartsAfter
<1> QED
  BY <1>4, <1>5

\* The steps of a screen.
LEMMA ScreenTypeStep ==
    ASSUME TypeOK, RequestOK,
           \/ AskStep \/ ClearBefore \/ SendQueue \/ SendTransmit \/ Poll \/ Consume
           \/ ReadResult \/ Timeout \/ HttpStep \/ PcStep
    PROVE  TypeOK'
<1> USE BoundAssumption
<1> USE DEF screen
<1>1. /\ RadioTypes /\ StackTypes /\ BufferTypes /\ PhoneTypes /\ ScreenTypes /\ BoundTypes
      /\ cache \in [Cached -> Frames]
  BY Parts DEF BufferTypes
<1>2. UNCHANGED <<radio, flags, stackv, rx, wifi, faults, resultId, result, hostPc,
                  hostFrame, writing>>
  BY ScreenFoot
<1>3. RadioTypes' /\ StackTypes' /\ BoundTypes'
  BY <1>1, <1>2, Same DEF faults
<1>4. cache' \in [Cached -> Frames]
  <2>1. \A k \in Cached : [cache EXCEPT ![k] = NoFrame] \in [Cached -> Frames]
    BY <1>1, FrameFacts
  <2>2. cache' \in {cache, [cache EXCEPT ![req.kind] = NoFrame]}
    BY DEF AskStep, Ask, ClearBefore, SendQueue, SendTransmit, Poll, Consume, ReadResult,
       Timeout, HttpStep, Fallback, PcStep, SendCheck, PollResult, Cancel, Rest
  <2>3. CASE req.kind \in Cached
    BY <1>1, <2>1, <2>2, <2>3
  <2>4. CASE req.kind \notin Cached
    <3>1. [cache EXCEPT ![req.kind] = NoFrame] = cache
      BY <1>1, <2>4
    <3> QED
      BY <1>1, <2>2, <3>1
  <2> QED
    BY <2>3, <2>4
<1>5. BufferTypes'
  BY <1>1, <1>2, <1>4 DEF BufferTypes, faults
<1>6. CASE AskStep
  <2>1. PICK k \in Kinds, f \in Friends \cup {NoFriend} : Ask(k, f)
    BY <1>6 DEF AskStep
  <2>2. /\ asked < MaxRequests /\ asked' = asked + 1 /\ shown' = NoFrame /\ got' = NoFrame
        /\ req' = [id |-> asked + 1, kind |-> k, friend |-> f] /\ pc' \in {"clear", "send"}
        /\ UNCHANGED <<pending, phone>>
    BY <2>1 DEF Ask, At
  <2>3. asked' \in 0..MaxRequests
    BY <1>1, <2>2 DEF ScreenTypes
  <2>4. req' \in Requests
    BY <1>1, <2>2, <2>3 DEF Requests
  <2>5. ScreenTypes'
    BY <2>2, <2>3, <2>4, FrameFacts DEF ScreenTypes
  <2>6. PhoneTypes'
    BY <1>1, <1>2, <2>2, Same DEF faults
  <2> QED
    BY <1>3, <1>5, <2>5, <2>6, PartsAfter
<1>7. CASE \/ ClearBefore \/ SendQueue \/ SendTransmit \/ Poll \/ Consume
           \/ ReadResult \/ Timeout \/ HttpStep \/ PcStep
  <2>1. /\ UNCHANGED <<req, asked>>
        /\ pc' \in {"idle", "send", "queue", "transmit", "wait", "read", "http"}
    BY <1>7 DEF ClearBefore, SendQueue, SendTransmit, Poll, Consume, ReadResult, Timeout,
       HttpStep, Fallback, PcStep, SendCheck, PollResult, Cancel, At, AfterSend
  <2>2. got' \in Frames
    <3>1. CASE Poll
      BY <1>1, <3>1 DEF Poll
    <3>2. CASE ~Poll
      <4>1. got' \in {got, NoFrame}
        BY <1>7, <3>2 DEF ClearBefore, SendQueue, SendTransmit, Consume, ReadResult, Timeout,
           HttpStep, Fallback, PcStep, SendCheck, PollResult, Cancel
      <4> QED
        BY <1>1, <4>1, FrameFacts DEF ScreenTypes
    <3> QED
      BY <3>1, <3>2
  <2>3. shown' \in Frames
    <3>1. shown' \in {shown, got, result, NoFrame, Server}
      BY <1>7 DEF ClearBefore, SendQueue, SendTransmit, Poll, Consume, ReadResult, Timeout,
         HttpStep, Fallback, PcStep, SendCheck, PollResult, Cancel
    <3> QED
      BY <1>1, <3>1, FrameFacts DEF ScreenTypes, BufferTypes
  <2>4. ScreenTypes'
    BY <1>1, <2>1, <2>2, <2>3 DEF ScreenTypes
  <2>5. PhoneTypes'
    <3>1. CASE UNCHANGED <<pending, phone>>
      BY <1>1, <1>2, <3>1, Same DEF faults
    <3>2. CASE SendQueue
      BY <1>1, <1>2, <3>2 DEF SendQueue, PhoneTypes, ScreenTypes, phone, faults
    <3>3. CASE SendTransmit /\ Transmit(req)
      <4>1. req \in Requests /\ req.id \in 1..MaxRequests
        BY <1>1, <3>3 DEF ScreenTypes, RequestOK, SendTransmit, At
      <4>2. sent' \in [1..MaxRequests -> Nat] /\ todo' \subseteq Requests \ {NoRequest}
            /\ pending' = pending
        BY <3>3, <4>1, TransmitTypes DEF SendTransmit
      <4> QED
        BY <1>1, <1>2, <4>2 DEF PhoneTypes, faults
    <3>4. SendTransmit => Transmit(req) \/ UNCHANGED <<pending, phone>>
      BY DEF SendTransmit
    <3>5. CASE ~SendQueue /\ ~SendTransmit
      <4>1. UNCHANGED <<pending, phone>>
        BY <1>7, <3>5 DEF ClearBefore, Poll, Consume, ReadResult, Timeout, HttpStep, Fallback,
           PcStep, SendCheck, PollResult, Cancel
      <4> QED
        BY <3>1, <4>1
    <3> QED
      BY <3>1, <3>2, <3>3, <3>4, <3>5
  <2> QED
    BY <1>3, <1>5, <2>4, <2>5, PartsAfter
<1> QED
  BY <1>6, <1>7

\* Every step keeps the types.
LEMMA TypeStep == TypeOK /\ RequestOK /\ [Next]_vars => TypeOK'
<1> SUFFICES ASSUME TypeOK, RequestOK, [Next]_vars PROVE TypeOK'
  OBVIOUS
<1>1. /\ RadioTypes /\ StackTypes /\ BufferTypes /\ PhoneTypes /\ ScreenTypes /\ BoundTypes
  BY Parts
<1>2. CASE RadioStep
  <2>1. UNCHANGED <<pending, rx, caches, phone, screen, cuts, torn, split, garbled>>
    BY <1>2, RadioFoot
  <2>2. BufferTypes' /\ PhoneTypes' /\ ScreenTypes'
    BY <1>1, <2>1, Same
  <2>3. RadioTypes' /\ StackTypes' /\ BoundTypes'
    BY <1>2, RadioTypeStep
  <2> QED
    BY <2>2, <2>3, PartsAfter
<1>3. CASE LossStep
  <2>1. BufferTypes' /\ PhoneTypes' /\ ScreenTypes'
    BY <1>3, LossTypes
  <2>2. RadioTypes' /\ StackTypes' /\ BoundTypes'
    BY <1>3, RadioTypeStep
  <2> QED
    BY <2>1, <2>2, PartsAfter
<1>4. CASE UNCHANGED vars
  <2>1. UNCHANGED <<radio, flags, wifi, stackv, rx, caches, garbled, torn, split, pending,
                    phone, cuts, screen, drops, pushes, toggles>>
    BY <1>4 DEF vars, faults
  <2>2. /\ RadioTypes' /\ StackTypes' /\ BufferTypes' /\ PhoneTypes' /\ ScreenTypes'
        /\ BoundTypes'
    BY <1>1, <2>1, Same
  <2> QED
    BY <2>2, PartsAfter
<1>5. CASE \/ AskStep \/ ClearBefore \/ SendQueue \/ SendTransmit \/ Poll \/ Consume
           \/ ReadResult \/ Timeout \/ HttpStep \/ PcStep
  BY <1>5, ScreenTypeStep
<1>6. CASE PhoneWrites \/ PhoneEndsFrame \/ StoreResult
  BY <1>6, PhoneTypeStep
<1>7. CASE Subscribe
  BY <1>7, SubscribeTypes
<1> QED
  BY <1>2, <1>3, <1>4, <1>5, <1>6, <1>7, AllSteps DEF Steps

-----------------------------------------------------------------------------
(* The theorems.                                                           *)

\* The invariant holds at the start.
LEMMA InitInv == Init => IInv
<1> SUFFICES ASSUME Init PROVE IInv
  OBVIOUS
<1>1. /\ stack \in Stacks /\ newline \in BOOLEAN
      /\ inited = FALSE /\ released = FALSE /\ lastErr = FALSE /\ adv = FALSE
      /\ advFlag = FALSE /\ link = FALSE /\ conn = FALSE /\ notify = FALSE /\ wifi = FALSE
  BY DEF Init
<1>2. /\ pending = NoRequest /\ rx = <<>> /\ cache = [k \in Cached |-> NoFrame]
      /\ resultId = 0 /\ result = NoFrame /\ hostPc = "idle" /\ hostFrame = NoFrame
  BY DEF Init
<1>3. /\ todo = {} /\ writing = NoFrame /\ sent = [i \in 1..MaxRequests |-> 0]
      /\ pc = "idle" /\ req = NoRequest /\ got = NoFrame /\ shown = NoFrame /\ asked = 0
  BY DEF Init
<1>4. /\ drops = 0 /\ cuts = 0 /\ torn = FALSE /\ split = FALSE /\ garbled = 0
      /\ pushes = 0 /\ toggles = 0
  BY DEF Init
<1>5. /\ MaxRequests \in Nat /\ MaxDrops \in Nat /\ MaxPushes \in Nat /\ MaxToggles \in Nat
      /\ 0 \in 0..MaxRequests /\ 0 \in 0..MaxDrops /\ 0 \in 0..MaxPushes /\ 0 \in 0..MaxToggles
  BY BoundAssumption
<1>6. TypeOK
  <2>1. RadioTypes /\ StackTypes
    BY <1>1 DEF RadioTypes, StackTypes
  <2>2. cache \in [Cached -> Frames] /\ rx \in Seq(Pieces)
    BY <1>2, FrameFacts
  <2>3. BufferTypes
    BY <1>2, <1>4, <1>5, <2>2, FrameFacts DEF BufferTypes
  <2>4. sent \in [1..MaxRequests -> Nat]
    BY <1>3
  <2>5. PhoneTypes
    BY <1>2, <1>3, <1>4, <2>4, FrameFacts DEF PhoneTypes
  <2>6. ScreenTypes
    BY <1>3, <1>5, FrameFacts DEF ScreenTypes
  <2>7. BoundTypes
    BY <1>4, <1>5 DEF BoundTypes
  <2> QED
    BY <2>1, <2>3, <2>5, <2>6, <2>7, Parts
<1>7. RequestOK
  BY <1>2, <1>3, <1>5, FrameFacts DEF RequestOK, Unsent
<1>8. CacheOK
  <2>1. \A k \in Cached : cache[k] = NoFrame /\ OfKind(NoFrame, k)
    BY <1>2, FrameFacts DEF OfKind
  <2>2. OfKind(NoFrame, "result")
    BY FrameFacts DEF OfKind
  <2> QED
    BY <1>2, <1>3, <2>1, <2>2 DEF CacheOK
<1>9. BufferOK
  <2>1. Opened = 0
    BY <1>2, CountEmpty DEF Opened
  <2>2. AtHead
    BY <1>2, <1>3 DEF AtHead
  <2>3. DOMAIN rx = {}
    BY <1>2
  <2>4. EndedOK /\ PlainOK
    BY <1>2, <1>3 DEF EndedOK, PlainOK
  <2> QED
    BY <1>3, <1>4, <2>1, <2>2, <2>3, <2>4 DEF BufferOK, LinesOK, BracesOK
<1>10. ReadAfterAsked /\ ContactsAnswerRequest /\ AdvertisesWhenAlone
  BY <1>1, <1>3, FrameFacts DEF ReadAfterAsked, ContactsAnswerRequest, AdvertisesWhenAlone,
     Cached
<1> QED
  BY <1>6, <1>7, <1>8, <1>9, <1>10 DEF IInv

\* Every step keeps the invariant.
LEMMA InvStep == IInv /\ [Next]_vars => IInv'
<1> SUFFICES ASSUME IInv, [Next]_vars PROVE IInv'
  OBVIOUS
<1>1. /\ TypeOK /\ RequestOK /\ CacheOK /\ BufferOK
      /\ ReadAfterAsked /\ ContactsAnswerRequest /\ AdvertisesWhenAlone
  BY DEF IInv
<1>2. TypeOK'
  BY <1>1, TypeStep
<1>3. RequestOK'
  BY <1>1, RequestStep
<1>4. CacheOK'
  BY <1>1, CacheStep
<1>5. BufferOK'
  BY <1>1, BufferStep
<1>6. ReadAfterAsked' /\ ContactsAnswerRequest'
  BY <1>1, ShownStep
<1>7. AdvertisesWhenAlone'
  BY <1>1, RadioOK
<1> QED
  BY <1>2, <1>3, <1>4, <1>5, <1>6, <1>7 DEF IInv

\* It holds of every state.
LEMMA Invariance == Spec => []IInv
<1> QED
  BY InitInv, InvStep, PTL DEF Spec

\* Every variable of the bridge keeps its type: the buffer is a sequence of pieces of
\* frames, and what is queued, cached or written is a request or a frame.
THEOREM TypeCorrect == Spec => []TypeOK
<1>1. IInv => TypeOK
  BY DEF IInv
<1> QED
  BY <1>1, Invariance, PTL

\* The phone receives a request at most once, from ble_uart_send or from the flush of
\* the frame that was queued, in whatever order subscriptions and losses come.
THEOREM OncePerRequest == Spec => []SentAtMostOnce
<1>1. IInv => SentAtMostOnce
  BY DEF IInv, RequestOK, SentAtMostOnce
<1> QED
  BY <1>1, Invariance, PTL

\* What a screen takes from a cache was handled after it had asked, because it clears
\* the cache before it sends.
THEOREM AnswersAreFresh == Spec => []ReadAfterAsked
<1>1. IInv => ReadAfterAsked
  BY DEF IInv
<1> QED
  BY <1>1, Invariance, PTL

\* Contacts that answer a request answer the one that is shown.
THEOREM ContactsMatch == Spec => []ContactsAnswerRequest
<1>1. IInv => ContactsAnswerRequest
  BY DEF IInv
<1> QED
  BY <1>1, Invariance, PTL

\* As long as no frame was cut inside a string, every loss spoils at most one text
\* with newlines, and none with balanced braces.  With newlines, whatever was cut, a
\* buffer without a torn frame holds only what the phone is writing.
THEOREM Resync == Spec => []FramesResync
<1>1. IInv => FramesResync
  <2> SUFFICES ASSUME IInv PROVE FramesResync
    OBVIOUS
  <2>1. /\ EndedOK /\ LinesOK /\ BracesOK
        /\ cuts \in Nat /\ garbled \in Nat /\ newline \in BOOLEAN
    BY DEF IInv, BufferOK, TypeOK
  <2>2. ~split => garbled <= IF newline THEN cuts ELSE 0
    BY <2>1 DEF LinesOK, BracesOK
  <2>3. newline /\ rx # <<>> => writing # NoFrame \/ torn
    BY <2>1 DEF EndedOK
  <2> QED
    BY <2>2, <2>3 DEF FramesResync
<1> QED
  BY <1>1, Invariance, PTL

\* A NimBLE stack that is up and has no phone advertises, whatever the phone and the
\* manager have done before.
THEOREM CanBeFound == Spec => []AdvertisesWhenAlone
<1>1. IInv => AdvertisesWhenAlone
  BY DEF IInv
<1> QED
  BY <1>1, Invariance, PTL

---------------------------------------------------------------------------
(* BlePairing.                                                             *)

\* The dialog has MQTT or BLE on its hands, and will start one of them.
Handing == {"enable", "f_stop", "f_disable", "f_restore", "f_resume", "x_restore", "x_resume",
            "s_restore", "s_resume"}

\* MQTT is paused and BLE is off only meanwhile, or stranded.
Taken == paused /\ ~bleOn => stranded \/ post = "resume" \/ dialog \in Handing

\* Every step keeps it so.
LEMMA PairingPauses ==
    ASSUME Taken, [PairNext]_pairVars PROVE Taken'
<1> USE DEF Taken, Handing, Goto, DialogAt, AtSlow, stored, mem, wifiVars, ble, mqtt, bounds,
        Pause, Resumes
<1>1. CASE Open \/ Exit \/ ToggleOff \/ PollDialog \/ Top \/ Start \/ PauseMqtt
  BY <1>1 DEF Open, Exit, ToggleOff, PollDialog, Top, Start, PauseMqtt, SecondsPass,
     AtRest
<1>2. CASE ToggleOn \/ OpenEnable \/ Enable
  BY <1>2 DEF ToggleOn, OpenEnable, Enable, BleEnable
<1>3. CASE Expire
  BY <1>3 DEF Expire, Disable, Restore, Resume, BleDisable
<1>4. CASE StartFailed
  BY <1>4 DEF StartFailed, Disable, Restore, Resume, BleDisable, Stop
<1>5. CASE StopByHand
  BY <1>5 DEF StopByHand, Disable, Restore, Resume, BleDisable, Stop
<1>6. CASE RadioEvent \/ EventStep
  BY <1>6 DEF RadioEvent, Radio, EventStep, EventGotIp, EventDisconnected
<1>7. CASE PostStep
  BY <1>7 DEF PostStep, PostBegin, PostDisable, PostResume, BleDisable
<1>10. CASE RetryWifi
  BY <1>10 DEF RetryWifi
<1>8. CASE WifiOnOff \/ Phone \/ Tick \/ Reset
  BY <1>8 DEF WifiOnOff, Phone, Tick, Reset
<1>9. CASE UNCHANGED pairVars
  BY <1>9 DEF pairVars
<1> QED
  BY <1>1, <1>2, <1>3, <1>4, <1>5, <1>6, <1>7, <1>8, <1>9, <1>10 DEF PairNext, DialogStep

\* The ways out of a pairing.
Leaving == {"x_disable", "x_restore", "s_disable", "s_restore", "f_disable", "f_restore"}

\* While Wi-Fi is stopped for a pairing, the stored state says so and the radio,
\* the events and post_connect_task are quiet; BLE is on or about to be, and the
\* pairing is stored unless the dialog is taking it down.
Held == host = "nimble" /\ byPairing =>
    /\ rst /\ ~connBit
    /\ station = "stopped" /\ post = "off" /\ events \in {<<>>, <<"disc">>}
    /\ bleOn \/ dialog \in {"start", "pause", "enable", "f_stop"} \cup Leaving
    /\ pair \/ dialog \in {"start", "top"} \cup Leaving
    /\ dialog = "input" => memPair
    /\ dialog = "top" /\ memPair => pair
    /\ dialog \notin {"x_resume", "s_resume", "f_resume"}

\* Every step keeps it so.
LEMMA PairingHolds ==
    ASSUME Held, [PairNext]_pairVars PROVE Held'
<1> USE DEF Held, Leaving, Goto, DialogAt, AtSlow, stored, mem, wifiVars, ble, mqtt, bounds,
        Pause, Resumes
<1>0. /\ Head(<<"disc">>) = "disc" /\ Tail(<<"disc">>) = <<>> /\ <<"disc">> # <<>>
      /\ <<>> \o <<"disc">> = <<"disc">> /\ <<>> \o <<>> = <<>>
  OBVIOUS
<1>1. CASE Open \/ Top
  BY <1>1 DEF Open, Top, Normalize, Keep, Persist, Expired, BleReady,
     SecondsPass, AtRest
<1>10. CASE Exit \/ ToggleOff \/ PollDialog \/ Start \/ PauseMqtt
  BY <1>10 DEF Exit, ToggleOff, PollDialog, Start, PauseMqtt, SecondsPass, AtRest,
     Use, Keep, Persist
<1>2. CASE ToggleOn
  BY <1>0, <1>2 DEF ToggleOn, DisableWifi, Use, SecondsPass, Disc
<1>11. CASE OpenEnable \/ Enable
  BY <1>11 DEF OpenEnable, Enable, BleEnable
<1>3. CASE Expire
  BY <1>3 DEF Expire, Disable, Restore, RestoreWifi, Resume, BleDisable
<1>4. CASE StartFailed
  BY <1>4 DEF StartFailed, Disable, Restore,RestoreWifi, Resume, BleDisable,
     Stop, Keep, Persist
<1>5. CASE StopByHand
  BY <1>5 DEF StopByHand, Disable, Restore, RestoreWifi,Resume, BleDisable,
     Stop, Keep, Persist
<1>6. CASE RadioEvent
  BY <1>6 DEF RadioEvent, Radio
<1>12. CASE EventStep
  BY <1>0, <1>12 DEF EventStep, EventGotIp, EventDisconnected
<1>7. CASE RetryWifi
  BY <1>7 DEF RetryWifi, SecondsPass, AtRest, Forced
<1>13. CASE PostStep
  BY <1>13 DEF PostStep, PostBegin, PostDisable, PostResume, BleDisable
<1>8. CASE WifiOnOff 
  BY <1>0, <1>8 DEF WifiOnOff, Started, Disc, Use, SecondsPass
<1>14. CASE Phone \/ Tick \/ Reset
  BY <1>14 DEF Phone, Tick, Reset
<1>9. CASE UNCHANGED pairVars
  BY <1>9 DEF pairVars
<1> QED
  BY <1>1, <1>2, <1>3, <1>4, <1>5, <1>6, <1>7, <1>8,
     <1>9,<1>10,<1>11,<1>12,<1>13,<1>14 DEF PairNext, DialogStep

\* The flags, and the counters with the radio.  A start has its window ahead.
PairFlags == {pair, rst, off, memPair, connBit, bleOn, peer, bleErr, paused, stranded,
              fallback, byPairing} \subseteq BOOLEAN
PairCounts ==
    /\ exp \in 0..MaxTime /\ memExp \in 0..MaxTime /\ now \in 0..MaxTime
    /\ retryNum \in 0..MaxRetry
    /\ station \in {"stopped", "idle", "connecting", "linked"}
    /\ dialog = "start" => now + Window <= MaxTime

\* Every step keeps the flags flags.
LEMMA PairFlagStep == ASSUME PairFlags, [PairNext]_pairVars PROVE PairFlags'
<1> USE DEF PairFlags, Goto, DialogAt, AtSlow, stored, mem, wifiVars, ble, mqtt, bounds,
        Pause, Resumes
<1>1. CASE Open \/ Top
  BY <1>1 DEF Open, Top, Normalize, Keep, Persist, Expired, SecondsPass, AtRest
<1>2. CASE Exit \/ ToggleOff \/ PollDialog \/ Start \/ PauseMqtt
  BY <1>2 DEF Exit, ToggleOff, PollDialog, Start, PauseMqtt, SecondsPass, AtRest, Use,
     Keep,
     Persist
<1>3. CASE ToggleOn
  BY <1>3 DEF ToggleOn, DisableWifi
<1>4. CASE OpenEnable \/ Enable
  BY <1>4 DEF OpenEnable, Enable, BleEnable
<1>5. CASE Expire
  BY <1>5 DEF Expire, Disable, Restore, RestoreWifi, Started, Resume, BleDisable
<1>6. CASE StartFailed
  BY <1>6 DEF StartFailed, Disable, Restore, RestoreWifi, Started, Resume,
     BleDisable,
     Stop, Keep, Persist
<1>7. CASE StopByHand
  BY <1>7 DEF StopByHand, Disable, Restore, RestoreWifi, Started, Resume,
     BleDisable,
     Stop, Keep, Persist
<1>8. CASE RadioEvent
  BY <1>8 DEF RadioEvent, Radio
<1>9. CASE EventStep
  BY <1>9 DEF EventStep, EventGotIp, EventDisconnected
<1>10. CASE RetryWifi
  BY <1>10 DEF RetryWifi
<1>11. CASE PostStep
  BY <1>11 DEF PostStep, PostBegin, PostDisable, PostResume, BleDisable
<1>12. CASE WifiOnOff
  BY <1>12 DEF WifiOnOff, Started
<1>13. CASE Phone \/ Tick \/ Reset
  BY <1>13 DEF Phone, Tick, Reset, SecondsPass, AtRest
<1>14. CASE UNCHANGED pairVars
  BY <1>14 DEF pairVars
<1> QED
  BY <1>1, <1>2, <1>3, <1>4, <1>5, <1>6, <1>7, <1>8, <1>9, <1>10, <1>11, <1>12, <1>13, <1>14
     DEF PairNext, DialogStep

\* Every step keeps the counters within their bounds.
LEMMA PairCountStep == ASSUME PairCounts, [PairNext]_pairVars PROVE PairCounts'
<1> USE BlePairingAssumption DEF PairCounts, Goto, DialogAt, AtSlow, stored, mem,
            wifiVars, ble, mqtt, bounds, Pause, Resumes
<1>1. CASE Open \/ Top
  BY <1>1 DEF Open, Top, Normalize, Keep, Persist, Expired, SecondsPass, AtRest
<1>2. CASE Exit \/ ToggleOff \/ PollDialog \/ Start \/ PauseMqtt
  BY <1>2 DEF Exit, ToggleOff, PollDialog, Start, PauseMqtt, SecondsPass, AtRest, Use,
     Keep,
     Persist
<1>3. CASE ToggleOn
  BY <1>3 DEF ToggleOn, DisableWifi
<1>4. CASE OpenEnable \/ Enable
  BY <1>4 DEF OpenEnable, Enable, BleEnable
<1>5. CASE Expire
  BY <1>5 DEF Expire, Disable, Restore, RestoreWifi, Started, Resume, BleDisable
<1>6. CASE StartFailed
  BY <1>6 DEF StartFailed, Disable, Restore, RestoreWifi, Started, Resume,
     BleDisable,
     Stop, Keep, Persist
<1>7. CASE StopByHand
  BY <1>7 DEF StopByHand, Disable, Restore, RestoreWifi, Started, Resume,
     BleDisable,
     Stop, Keep, Persist
<1>8. CASE RadioEvent
  BY <1>8 DEF RadioEvent, Radio
<1>9. CASE EventStep
  BY <1>9 DEF EventStep, EventGotIp, EventDisconnected
<1>10. CASE RetryWifi
  <2>1. 0 \in 0..MaxRetry
    OBVIOUS
  <2> QED
    BY <1>10, <2>1 DEF RetryWifi
<1>11. CASE PostStep
  BY <1>11 DEF PostStep, PostBegin, PostDisable, PostResume, BleDisable
<1>12. CASE WifiOnOff
  BY <1>12 DEF WifiOnOff, Started
<1>13. CASE Phone \/ Tick \/ Reset
  BY <1>13 DEF Phone, Tick, Reset, SecondsPass, AtRest
<1>14. CASE UNCHANGED pairVars
  BY <1>14 DEF pairVars
<1> QED
  BY <1>1, <1>2, <1>3, <1>4, <1>5, <1>6, <1>7, <1>8, <1>9, <1>10, <1>11, <1>12, <1>13, <1>14
     DEF PairNext, DialogStep

\* TypeOK of BlePairing.
THEOREM PairingTyped == PairSpec => []PairTypeOK
<1>1. PairInit => PairFlags
  BY DEF PairInit, PairFlags
<1>2. PairInit => PairCounts
  BY BlePairingAssumption DEF PairInit, PairCounts
<1>3. PairFlags /\ [PairNext]_pairVars => PairFlags'
  BY PairFlagStep
<1>4. PairCounts /\ [PairNext]_pairVars => PairCounts'
  BY PairCountStep
<1>5. PairFlags /\ PairCounts => PairTypeOK
  BY DEF PairFlags, PairCounts, PairTypeOK
<1> QED
  BY <1>1, <1>2, <1>3, <1>4, <1>5, PTL DEF PairSpec

\* MqttGivenBack: no order of expiry, stop, failed start, reconnection and fallback
\* leaves the device without BLE and without MQTT, unless a retry has stranded it.
THEOREM MqttIsGivenBack == PairSpec => []MqttGivenBack
<1>1. PairInit => Taken
  BY DEF PairInit, Taken
<1>2. Taken /\ [PairNext]_pairVars => Taken'
  BY PairingPauses
<1>3. Taken => MqttGivenBack
  BY DEF Taken, Handing, MqttGivenBack, SecondsPass, AtRest
<1> QED
  BY <1>1, <1>2, <1>3, PTL DEF PairSpec

\* WifiGivenBack: with NimBLE, a dialog that shows no pairing has not left Wi-Fi
\* stopped for one.
THEOREM WifiIsGivenBack == PairSpec => []WifiGivenBack
<1>1. PairInit => Held
  BY DEF PairInit, Held
<1>2. Held /\ [PairNext]_pairVars => Held'
  BY PairingHolds
<1>3. Held => WifiGivenBack
  BY DEF Held, Leaving, WifiGivenBack, DialogAt, BleReady
<1> QED
  BY <1>1, <1>2, <1>3, PTL DEF PairSpec
===========================================================================
