------------------------------ MODULE Messages ------------------------------
(***************************************************************************)
(* How a direct message reaches the user, components/services/network/     *)
(* include/http_client.hpp: http_get_notifications_task learns of it from  *)
(* MQTT or from a poll of the unread count and starts the notification     *)
(* effects; the message box (components/display/src/screens/               *)
(* message_box.hpp) fetches the messages through get_message and its task, *)
(* which talk by the globals res, res_flag and http_get_task_handle.       *)
(*                                                                         *)
(* The server is external.  Messages of a friend are numbered; read[f] is  *)
(* how many of them the server holds as read.  The login state is reduced  *)
(* to whether the shared token is accepted (see module ChatAuth).          *)
(***************************************************************************)
EXTENDS Integers, FiniteSets, Sequences

CONSTANTS
    Friends,
    Nobody,       \* no friend: the empty list of messages
    MaxMessages,  \* bound: messages each friend sends
    MaxCalls      \* bound: times a message box calls get_message

ASSUME FriendAssumption == IsFiniteSet(Friends) /\ Nobody \notin Friends
ASSUME BoundAssumption == MaxMessages \in [Friends -> Nat] /\ MaxCalls \in Nat

VARIABLES
    arrived, read,   \* server: messages received, and read, of each friend
    accepted,        \* server: the token is accepted
    inbox,           \* S.queue of the MQTT runtime
    count,           \* unread_count_
    lastCount,       \* last_unread_count
    notif, popped,   \* where the notification task is, the message it popped
    noticed,         \* messages of each friend the effects have announced
    box, friend,     \* where the message box is, the friend it shows
    again,           \* it has shown a first list: this is a refresh
    calls,           \* times it called get_message
    got,             \* what get_message returned to it
    flag,            \* res_flag
    res,             \* res: a list of messages of a friend
    handle,          \* http_get_task_handle is set
    fetch, fetchFor, \* where http_get_message_task is, for which friend
    answer           \* the answer it holds

server == <<arrived, read, accepted>>
notifs == <<inbox, count, lastCount, notif, popped, noticed>>
shares == <<flag, res, handle>>
boxes  == <<box, friend, again, calls, got>>
fetches == <<fetch, fetchFor, answer>>
vars   == <<server, notifs, shares, boxes, fetches>>

List  == [of : Friends \cup {Nobody}, upto : Nat]
Empty == [of |-> Nobody, upto |-> 0]
Larger(x, y) == IF x < y THEN y ELSE x
Message == UNION {{f} \X (1..MaxMessages[f]) : f \in Friends}
\* How many messages lie between two points of the friends' numberings.
Between(from, to) == Cardinality({m \in Message :
                                    from[m[1]] < m[2] /\ m[2] <= to[m[1]]})
Unread == Between(read, arrived)

Init ==
    /\ arrived = [f \in Friends |-> 0] /\ read = [f \in Friends |-> 0]
    /\ accepted = TRUE /\ inbox = <<>>
    /\ count = 0 /\ lastCount = -1
    /\ notif = "top" /\ popped = Empty /\ noticed = [f \in Friends |-> 0]
    /\ box = "closed" /\ friend = Nobody /\ again = FALSE /\ calls = 0 /\ got = Empty
    /\ flag = FALSE /\ res = Empty /\ handle = FALSE
    /\ fetch = "none" /\ fetchFor = Nobody /\ answer = Empty

-----------------------------------------------------------------------------
(* The server and the broker.                                              *)

\* A friend's message: the broker publishes it to chat/messages/<user_id>, and
\* on_event queues it unless MQTT is down just then.
Arrive(f) ==
    /\ arrived[f] < MaxMessages[f]
    /\ arrived' = [arrived EXCEPT ![f] = @ + 1]
    /\ inbox' \in {inbox, Append(inbox, [of |-> f, upto |-> arrived[f] + 1])}
    /\ UNCHANGED <<read, accepted, count, lastCount, notif, popped, noticed,
                   shares, boxes, fetches>>

Revoke ==
    /\ accepted /\ accepted' = FALSE
    /\ UNCHANGED <<arrived, read, notifs, shares, boxes, fetches>>

-----------------------------------------------------------------------------
(* http_get_notifications_task.                                            *)

\* What GET /api/messages/unread/count makes of unread_count_: the client does
\* not ask for the status, and the body of a 401 has no count, which reads as 0.
UnreadAnswer == IF accepted THEN Unread ELSE 0

\* notification_effects::signal_new_message, at a moment when these have arrived.
Signal(upto) == noticed' = [f \in Friends |-> Larger(noticed[f], upto[f])]

Pop ==
    /\ notif = "top"
    /\ IF inbox = <<>>
       THEN notif' = "poll" /\ UNCHANGED <<inbox, popped>>
       ELSE notif' = "popped" /\ popped' = Head(inbox) /\ inbox' = Tail(inbox)
    /\ UNCHANGED <<server, count, lastCount, noticed, shares, boxes, fetches>>

\* Mutant: a message the poll may have counted already is not announced.
PoppedOnlyNew ==
    /\ notif = "popped"
    /\ \/ /\ count' = UnreadAnswer
          /\ IF count' > lastCount THEN Signal(arrived) /\ lastCount' = count'
                                   ELSE UNCHANGED <<noticed, lastCount>>
       \/ /\ noticed' = [noticed EXCEPT ![popped.of] = Larger(@, popped.upto)]
          /\ UNCHANGED <<count, lastCount>>
    /\ notif' = "poll" /\ popped' = Empty
    /\ UNCHANGED <<server, inbox, shares, boxes, fetches>>

\* After a message from MQTT: announce it if there are unread messages, or if
\* the count could not be read.
Popped ==
    /\ notif = "popped"
    /\ \/ /\ count' = UnreadAnswer
          /\ IF count' > 0 THEN Signal(arrived) /\ lastCount' = count'
                           ELSE UNCHANGED <<noticed, lastCount>>
       \/ /\ noticed' = [noticed EXCEPT ![popped.of] = Larger(@, popped.upto)]
          /\ UNCHANGED <<count, lastCount>>
    /\ notif' = "poll" /\ popped' = Empty
    /\ UNCHANGED <<server, inbox, shares, boxes, fetches>>

\* The poll every 5 s, unless a message fetch is running: announce an increase.
PollRefresh ==
    /\ notif = "poll" /\ ~handle
    /\ count' = UnreadAnswer /\ lastCount' = UnreadAnswer
    /\ IF lastCount >= 0 /\ count' > lastCount THEN Signal(arrived)
                                               ELSE UNCHANGED noticed
    /\ notif' = "top"
    /\ UNCHANGED <<server, inbox, popped, shares, boxes, fetches>>

\* It is not time yet, a fetch is running, the heap is low, or the request fails.
PollSkip ==
    /\ notif = "poll" /\ notif' = "top"
    /\ UNCHANGED <<server, inbox, count, lastCount, popped, noticed, shares,
                   boxes, fetches>>

-----------------------------------------------------------------------------
(* The message box and HttpClient::get_message.                            *)

\* Open a box; get_message begins with res_flag.store(false).
Open(f) ==
    /\ box = "closed" /\ calls < MaxCalls /\ calls' = calls + 1
    /\ friend' = f /\ flag' = FALSE
    /\ box' = "check"
    /\ UNCHANGED <<server, notifs, res, handle, again, got, fetches>>

\* The open box fetches again: its poll, or a message was sent from it.
Refresh ==
    /\ box = "open" /\ calls < MaxCalls /\ calls' = calls + 1
    /\ again' = TRUE /\ flag' = FALSE
    /\ box' = "check"
    /\ UNCHANGED <<server, notifs, res, handle, friend, got, fetches>>

\* The previous task is still there: the list is emptied and returned.
Check ==
    /\ box = "check"
    /\ IF handle THEN res' = Empty /\ got' = Empty /\ box' = "show"
                 ELSE box' = "clear" /\ UNCHANGED <<res, got>>
    /\ UNCHANGED <<server, notifs, flag, handle, friend, again, calls, fetches>>

\* Mutant: res_flag is not cleared again after the handle was seen null.
ClearOnce ==
    /\ box = "clear" /\ box' = "create"
    /\ UNCHANGED <<server, notifs, shares, friend, again, calls, got, fetches>>

\* The second res_flag.store(false): a task that ended since may have set it.
Clear ==
    /\ box = "clear" /\ box' = "create"
    /\ flag' = FALSE
    /\ UNCHANGED <<server, notifs, res, handle, friend, again, calls, got, fetches>>

\* The task is made, or there is no memory for it.
Create ==
    /\ box = "create"
    /\ \/ /\ handle' = TRUE /\ fetch' = "request" /\ fetchFor' = friend
          /\ box' = "wait"
          /\ UNCHANGED <<res, got>>
       \/ /\ res' = Empty /\ got' = Empty /\ box' = "show"
          /\ UNCHANGED <<handle, fetch, fetchFor>>
    /\ UNCHANGED <<server, notifs, flag, friend, again, calls, answer>>

\* The wait of 7 s ends: with res_flag, or without.
WaitEnds ==
    /\ box = "wait"
    /\ box' \in IF flag THEN {"reset"} ELSE {"fill"}
    /\ UNCHANGED <<server, notifs, shares, friend, again, calls, got, fetches>>

Fill ==
    /\ box = "fill" /\ box' = "reset"
    /\ res' = Empty
    /\ UNCHANGED <<server, notifs, flag, handle, friend, again, calls, got, fetches>>

Reset ==
    /\ box = "reset" /\ box' = "take"
    /\ flag' = FALSE
    /\ UNCHANGED <<server, notifs, res, handle, friend, again, calls, got, fetches>>

Take ==
    /\ box = "take" /\ box' = "show"
    /\ got' = res
    /\ UNCHANGED <<server, notifs, shares, friend, again, calls, fetches>>

\* The list is shown; if the first one holds unread messages, all of the
\* friend's are marked read on the server and those of the list are played.  The
\* request's status is not asked for: a 401 marks nothing and counts as done.
\* A refresh marks nothing.
Show ==
    /\ box = "show" /\ box' = "open"
    /\ read' = IF ~again /\ got # Empty /\ got.upto > read[friend] /\ accepted
               THEN [read EXCEPT ![friend] = arrived[friend]] ELSE read
    /\ got' = Empty
    /\ UNCHANGED <<arrived, accepted, notifs, shares, friend, again, calls, fetches>>

Close ==
    /\ box = "open" /\ box' = "closed"
    /\ friend' = Nobody /\ again' = FALSE
    /\ UNCHANGED <<server, notifs, shares, calls, got, fetches>>

-----------------------------------------------------------------------------
(* http_get_message_task.                                                  *)

\* The request: the friend's messages, after a new login if the token was
\* refused; or, when it fails, the empty list.
FetchRequest ==
    /\ fetch = "request" /\ fetch' = "store"
    /\ \/ /\ answer' = [of |-> fetchFor, upto |-> arrived[fetchFor]]
          /\ accepted' = TRUE
       \/ answer' = Empty /\ UNCHANGED accepted
    /\ UNCHANGED <<arrived, read, notifs, shares, boxes, fetchFor>>

FetchStore ==
    /\ fetch = "store" /\ fetch' = "flag"
    /\ res' = answer
    /\ UNCHANGED <<server, notifs, flag, handle, boxes, fetchFor, answer>>

FetchFlag ==
    /\ fetch = "flag" /\ fetch' = "finish"
    /\ flag' = TRUE
    /\ UNCHANGED <<server, notifs, res, handle, boxes, fetchFor, answer>>

\* Mutant: a task whose request failed returns without finish_task.
FinishIfOk ==
    /\ fetch = "finish" /\ fetch' = "none"
    /\ handle' = (answer = Empty)
    /\ fetchFor' = Nobody /\ answer' = Empty
    /\ UNCHANGED <<server, notifs, flag, res, boxes>>

\* finish_task.
Finish ==
    /\ fetch = "finish" /\ fetch' = "none"
    /\ handle' = FALSE
    /\ fetchFor' = Nobody /\ answer' = Empty
    /\ UNCHANGED <<server, notifs, flag, res, boxes>>

-----------------------------------------------------------------------------
BoxStep == Check \/ Clear \/ Create \/ WaitEnds \/ Fill \/ Reset \/ Take \/ Show
FetchStep == FetchRequest \/ FetchStore \/ FetchFlag \/ Finish
NotifStep == Pop \/ Popped \/ PollRefresh \/ PollSkip

Next ==
    \/ \E f \in Friends : Arrive(f) \/ Open(f)
    \/ Refresh \/ Close
    \/ Revoke \/ NotifStep \/ BoxStep \/ FetchStep

Spec == Init /\ [][Next]_vars

\* FreeRTOS schedules the tasks, and a request ends.  A poll falls due every
\* 5 s, between the other turns of the loop, and its request does not fail for
\* ever, hence strong fairness.
Fairness ==
    /\ WF_vars(NotifStep) /\ SF_vars(PollRefresh)
    /\ WF_vars(BoxStep) /\ WF_vars(FetchStep)
FairSpec == Spec /\ Fairness

-----------------------------------------------------------------------------
\* Every variable holds a value of its kind, and the server's counts are in
\* order.
TypeOK ==
    /\ arrived \in [Friends -> Nat] /\ read \in [Friends -> Nat]
    /\ noticed \in [Friends -> Nat]
    /\ \A f \in Friends : /\ read[f] <= arrived[f] /\ noticed[f] <= arrived[f]
                          /\ arrived[f] <= MaxMessages[f]
    /\ accepted \in BOOLEAN /\ flag \in BOOLEAN /\ handle \in BOOLEAN /\ again \in BOOLEAN
    /\ inbox \in Seq(List)
    /\ count \in Nat
    /\ lastCount \in Nat \cup {-1}
    /\ notif \in {"top", "popped", "poll"}
    /\ popped \in List /\ got \in List /\ res \in List /\ answer \in List
    /\ box \in {"closed", "check", "clear", "create", "wait", "fill", "reset",
               "take", "show", "open"}
    /\ fetch \in {"none", "request", "store", "flag", "finish"}
    /\ friend \in Friends \cup {Nobody} /\ fetchFor \in Friends \cup {Nobody}
    /\ calls \in 0..MaxCalls

\* get_message returns the messages of the friend it was asked for or none,
\* never what a task left behind for another friend after a timeout.
AnswerIsForFriend == got # Empty => got.of = friend

\* The unread count is the server's in the end, whatever the fetches did to
\* the polling: as long as the token is accepted it catches up.
CountCatchesUp == <>[]accepted => <>[](count = Unread)

Handled(f, n) == noticed[f] >= n \/ read[f] >= n
Queued(f, n) == \E i \in DOMAIN inbox : inbox[i] = [of |-> f, upto |-> n]

\* While the token is accepted, a message that came by MQTT is announced by the
\* effects unless it was read before, also when a poll has counted it first.
MqttNoticedIfAccepted ==
    \A f \in Friends : \A n \in 1..MaxMessages[f] :
        Queued(f, n) ~> Handled(f, n) \/ ~accepted
=============================================================================
