------------------------- MODULE MqttRuntimeProofs -------------------------
(***************************************************************************)
(* Type correctness and NoLostSubscription of MqttRuntime, for any number  *)
(* of tasks, clients, rooms and users.                                     *)
(*                                                                         *)
(* The argument: on_event raises S.connected before it goes through the    *)
(* topics, and add_listener and update_user publish their topic before     *)
(* they read S.connected.  So, while S.client has a session and            *)
(* S.connected is set, a wanted topic that is not subscribed yet is one    *)
(* that some call or some event in progress will still subscribe.          *)
(***************************************************************************)
EXTENDS MqttRuntime, TLAPS

\* What the calls in progress are about.
ArgOK ==
    /\ arg[Notif] \in Users \cup {NoTopic}
    /\ pc[Notif] = "u_set" => arg[Notif] \in Users
    /\ pc[Notif] \in {"s_check", "s_init", "s_run", "s_null"} => configured
    /\ \A t \in Threads : pc[t] \in {"sub_check", "sub_call"} => arg[t] \in Topics

\* A client that was not created yet is in no session.
Fresh == \A c \in Handles : c > made => phase[c] = "none" /\ ~session[c]

\* The open chat task has at most one listener, and none of that topic while
\* it unsubscribes it.
OneListener ==
    /\ \A k, l \in listeners : k = l
    /\ \A t \in Threads : pc[t] \in {"unsub_check", "unsub_call"}
         => t = Ui /\ listeners = {} /\ arg[t] \in Rooms

CallPending(w, c) ==
    \E t \in Threads :
        /\ arg[t] = w
        /\ \/ pc[t] = "sub_check"
           \/ pc[t] = "sub_call" /\ h[t] = c
           \/ t = Notif /\ pc[t] \in {"s_check", "s_init", "s_run", "s_null", "u_set"}

EventPending(w, c) ==
    \/ hpc[c] = "flag"
    \/ \E d \in Handles : hpc[d] = "own"
    \/ \E d \in Handles, l \in listeners : l.topic = w /\ hpc[d] \in {"lock", "loop"}

\* The strengthening that is inductive.
Covered ==
    connected /\ client # 0 /\ session[client] =>
        \A w \in Wanted :
            w \in subs[client] \/ CallPending(w, client) \/ EventPending(w, client)

IInv == TypeOK /\ ArgOK /\ Fresh /\ OneListener /\ Covered

\* The parts of the strengthening that are about one variable at a time.
Frame == TypeOK /\ ArgOK /\ Fresh /\ OneListener

\* Shut (esp_mqtt_client_stop and _destroy) only ever takes client c's session
\* and subscriptions away and touches no other client.
LEMMA ShutFacts ==
    ASSUME TypeOK, NEW c, NEW p \in {"init", "dead"}, Shut(c, p)
    PROVE  /\ phase' \in [Handles -> {"none", "init", "running", "dead"}]
           /\ session' \in [Handles -> BOOLEAN]
           /\ subs' \in [Handles -> SUBSET Topics]
           /\ \A d \in Handles : session'[d] => session[d] /\ d # c /\ subs'[d] = subs[d]
           /\ \A d \in Handles : d # c => phase'[d] = phase[d]
  BY DEF TypeOK, Shut

\* Subscribe (esp_mqtt_client_subscribe) adds topics to client c's session and
\* removes none.
LEMMA SubscribeFacts ==
    ASSUME TypeOK, NEW c, NEW T \in SUBSET Topics, Subscribe(c, T)
    PROVE  /\ subs' \in [Handles -> SUBSET Topics]
           /\ \A d \in Handles : subs[d] \subseteq subs'[d]
           /\ \A d \in Handles : d = c /\ session[d] => T \subseteq subs'[d]
  BY DEF TypeOK, Subscribe


\* Every step of the runtime keeps the parts that are about one variable.
LEMMA FrameStep == Frame /\ [Next]_vars => Frame'
<1> SUFFICES ASSUME Frame, [Next]_vars PROVE Frame'
  OBVIOUS
<1> USE TaskAssumption, TopicAssumption, BoundAssumption
<1> USE DEF Frame, TypeOK, ArgOK, Fresh, OneListener, shared, tasks, clients,
            Topics, Threads, Handles, Listener, Calls, Goto, Forget, Started, Subscribed
<1>1. ASSUME NEW c \in Handles, Connect(c) PROVE Frame'
  BY <1>1, SMTT(30) DEF Connect
<1>2. ASSUME NEW c \in Handles, Lose(c) PROVE Frame'
  BY <1>2 DEF Lose
<1>3. ASSUME NEW c \in Handles, OnConnectedFlag(c) PROVE Frame'
  BY <1>3 DEF OnConnectedFlag
<1>4. ASSUME NEW c \in Handles, OnConnectedOwn(c) PROVE Frame'
  BY SubscribeFacts, <1>4 DEF OnConnectedOwn
<1>5. ASSUME NEW c \in Handles, OnConnectedLock(c) PROVE Frame'
  BY <1>5 DEF OnConnectedLock
<1>6. ASSUME NEW c \in Handles, OnConnectedLoop(c) PROVE Frame'
  BY SubscribeFacts, <1>6 DEF OnConnectedLoop
<1>7. ASSUME NEW c \in Handles, OnDisconnected(c) PROVE Frame'
  BY <1>7 DEF OnDisconnected
<1>8. ASSUME NEW t \in Threads, Resume(t) PROVE Frame'
  BY <1>8 DEF Resume
<1>9. ASSUME NEW t \in Threads, StopCheck(t) PROVE Frame'
  BY <1>9 DEF StopCheck
<1>10. ASSUME NEW t \in Threads, StartCheck(t) PROVE Frame'
  <2>1. CASE client # 0 /\ Goto(t, Started(t))
    BY <2>1, <1>10 DEF StartCheck
  <2>2. CASE client = 0 /\ ~configured /\ Goto(t, "idle")
    BY <2>2, <1>10 DEF StartCheck
  <2>3. CASE client = 0 /\ configured /\ Goto(t, "s_init")
    BY <2>3, <1>10 DEF StartCheck
  <2> QED
    BY <2>1, <2>2, <2>3, <1>10 DEF StartCheck
<1>11. ASSUME NEW t \in Threads, StartInit(t) PROVE Frame'
  <2>0. client' \in 0..made' /\ made' \in 0..MaxHandles /\ made \in Nat
    BY <1>11 DEF StartInit
  <2>1. TypeOK'
    <3>1. CASE made < MaxHandles /\ made' = made + 1 /\ client' = made + 1
               /\ phase' = [phase EXCEPT ![made + 1] = "init"] /\ Goto(t, "s_run") /\ UNCHANGED arg
      BY <3>1, <1>11 DEF StartInit
    <3>2. CASE client' = 0 /\ Goto(t, "idle") /\ Forget(t) /\ UNCHANGED <<phase, made>>
      BY <3>2, <1>11 DEF StartInit
    <3> QED
      BY <3>1, <3>2, <1>11 DEF StartInit
  <2>2. ArgOK'
    BY <2>0, <1>11 DEF StartInit
  <2>3. Fresh'
    BY <2>0, <1>11 DEF StartInit
  <2>4. OneListener'
    BY <2>0, <1>11 DEF StartInit
  <2> QED
    BY <2>1, <2>2, <2>3, <2>4
<1>12. ASSUME NEW t \in Threads, StartRun(t) PROVE Frame'
  BY ShutFacts, <1>12 DEF StartRun
<1>13. ASSUME NEW t \in Threads, StartNull(t) PROVE Frame'
  BY <1>13 DEF StartNull
<1>14. ASSUME NEW t \in Threads, StopClient(t) PROVE Frame'
  BY ShutFacts, <1>14 DEF StopClient
<1>15. ASSUME NEW t \in Threads, StopDestroy(t) PROVE Frame'
  BY ShutFacts, <1>15 DEF StopDestroy
<1>16. ASSUME NEW t \in Threads, StopNull(t) PROVE Frame'
  BY <1>16 DEF StopNull
<1>17. ASSUME NEW t \in Threads, StopFlag(t) PROVE Frame'
  BY <1>17 DEF StopFlag
<1>18. ASSUME NEW t \in Threads, SubscribeCheck(t) PROVE Frame'
  <2>1. CASE connected /\ client # 0 /\ Goto(t, "sub_call")
              /\ h' = [h EXCEPT ![t] = client] /\ UNCHANGED arg
    <3>1. h' \in [Threads -> {0} \cup Handles]
      BY <2>1
    <3> QED
      BY <3>1, <2>1, <1>18 DEF SubscribeCheck
  <2>2. CASE Goto(t, Subscribed(t)) /\ Forget(t) /\ UNCHANGED h
    BY <2>2, <1>18 DEF SubscribeCheck
  <2> QED
    BY <2>1, <2>2, <1>18 DEF SubscribeCheck
<1>19. ASSUME NEW t \in Threads, SubscribeCall(t) PROVE Frame'
  <2>0. arg[t] \in Topics /\ Subscribe(h[t], {arg[t]}) /\ subs' \in [Handles -> SUBSET Topics]
    BY SubscribeFacts, <1>19 DEF SubscribeCall
  <2>1. TypeOK'
    BY <2>0, <1>19 DEF SubscribeCall
  <2>2. ArgOK'
    BY <2>0, <1>19 DEF SubscribeCall
  <2>3. Fresh'
    BY <2>0, <1>19 DEF SubscribeCall
  <2>4. OneListener'
    BY <2>0, <1>19 DEF SubscribeCall
  <2> QED
    BY <2>1, <2>2, <2>3, <2>4
<1>20. ASSUME NEW t \in Threads, UnsubscribeCheck(t) PROVE Frame'
  <2>1. CASE connected /\ client # 0 /\ Goto(t, "unsub_call")
              /\ h' = [h EXCEPT ![t] = client] /\ UNCHANGED arg
    <3>1. h' \in [Threads -> {0} \cup Handles]
      BY <2>1
    <3> QED
      BY <3>1, <2>1, <1>20 DEF UnsubscribeCheck
  <2>2. CASE Goto(t, "idle") /\ Forget(t) /\ UNCHANGED h
    BY <2>2, <1>20 DEF UnsubscribeCheck
  <2> QED
    BY <2>1, <2>2, <1>20 DEF UnsubscribeCheck
<1>21. ASSUME NEW t \in Threads, UnsubscribeCall(t) PROVE Frame'
  <2>1. TypeOK'
    BY <1>21 DEF UnsubscribeCall
  <2>2. ArgOK'
    BY <1>21 DEF UnsubscribeCall
  <2>3. Fresh'
    BY <1>21 DEF UnsubscribeCall
  <2>4. OneListener'
    BY <1>21 DEF UnsubscribeCall
  <2> QED
    BY <2>1, <2>2, <2>3, <2>4
<1>22. CASE UpdateUser
  BY <1>22 DEF UpdateUser
<1>23. ASSUME NEW u \in Users \cup {NoTopic}, Configure(u) PROVE Frame'
  BY <1>23 DEF Configure
<1>24. ASSUME NEW r \in Rooms, AddListener(r) PROVE Frame'
  <2>1. TypeOK'
    BY <1>24 DEF AddListener
  <2>2. ArgOK'
    BY <1>24 DEF AddListener
  <2>3. Fresh'
    BY <1>24 DEF AddListener
  <2>4. OneListener'
    BY <1>24 DEF AddListener
  <2> QED
    BY <2>1, <2>2, <2>3, <2>4
<1>25. ASSUME NEW l \in listeners, RemoveListener(l) PROVE Frame'
  BY <1>25 DEF RemoveListener
<1>26. CASE UNCHANGED vars
  BY <1>26 DEF vars
<1> QED
  BY <1>1, <1>2, <1>3, <1>4, <1>5, <1>6, <1>7, <1>8, <1>9, <1>10, <1>11, <1>12, <1>13, <1>14,
     <1>15, <1>16, <1>17, <1>18, <1>19, <1>20, <1>21, <1>22, <1>23, <1>24, <1>25, <1>26
  DEF Next, HandlerStep, CallStep, StartStep, StopStep, TopicStep

\* A wanted topic is subscribed, or a call or an event in progress will do it.
Handled(w) == w \in subs[client] \/ CallPending(w, client) \/ EventPending(w, client)

\* The heart of the argument: no step leaves a wanted topic behind.
LEMMA CoveredStep == Frame /\ Covered /\ [Next]_vars => Covered'
<1> SUFFICES ASSUME Frame, Covered, [Next]_vars,
                    connected', client' # 0, session'[client'], NEW w \in Wanted'
             PROVE  Handled(w)'
  BY DEF Covered, Handled
<1> USE TaskAssumption, TopicAssumption, BoundAssumption
<1> USE DEF Frame, TypeOK, shared, tasks, clients, Topics, Threads, Goto, Forget
<1>c. client \in 0..MaxHandles /\ Handles = 1..MaxHandles
  BY DEF Handles
<1>w. connected /\ client # 0 /\ session[client] /\ w \in Wanted => Handled(w)
  BY DEF Covered, Handled
<1>f. Frame'
  BY FrameStep
<1> USE <1>c
<1>1. ASSUME NEW c \in Handles, Connect(c) PROVE Handled(w)'
  <2> USE <1>1 DEF Connect
  <2>1. CASE c = client
    BY <2>1 DEF Handled, EventPending
  <2>2. CASE c # client
    <3>1. Handled(w)
      BY <1>w, <2>2 DEF Wanted
    <3> QED
      BY <3>1, <2>2 DEF Handled, EventPending, CallPending
  <2> QED
    BY <2>1, <2>2
<1>2. ASSUME NEW c \in Handles, Lose(c) PROVE Handled(w)'
  <2> USE <1>2 DEF Lose
  <2>1. c # client /\ Handled(w)
    BY <1>w DEF Wanted
  <2> QED
    BY <2>1 DEF Handled, EventPending, CallPending
<1>3. ASSUME NEW c \in Handles, OnConnectedFlag(c) PROVE Handled(w)'
  BY <1>3 DEF OnConnectedFlag, Handled, EventPending
<1>4. ASSUME NEW c \in Handles, OnConnectedOwn(c) PROVE Handled(w)'
  <2> USE <1>4 DEF OnConnectedOwn
  <2>1. /\ \A d \in Handles : subs[d] \subseteq subs'[d]
        /\ {topic} \ {NoTopic} \subseteq subs'[client]
    BY SubscribeFacts
  <2>2. CASE w \in {topic} \ {NoTopic}
    BY <2>1, <2>2 DEF Handled
  <2>3. CASE w \in {l.topic : l \in listeners}
    BY <2>3 DEF Handled, EventPending
  <2> QED
    BY <2>2, <2>3 DEF Wanted
<1>5. ASSUME NEW c \in Handles, OnConnectedLock(c) PROVE Handled(w)'
  BY <1>5, <1>w DEF OnConnectedLock, Handled, EventPending, CallPending, Wanted
<1>6. ASSUME NEW c \in Handles, OnConnectedLoop(c) PROVE Handled(w)'
  <2> USE <1>6 DEF OnConnectedLoop
  <2> DEFINE T == {l.topic : l \in listeners}
  <2>0. T \in SUBSET Topics
    BY DEF Listener
  <2>1. /\ \A d \in Handles : subs[d] \subseteq subs'[d]
        /\ T \subseteq subs'[client]
    BY <2>0, SubscribeFacts
  <2>2. CASE w \in T
    BY <2>1, <2>2 DEF Handled
  <2>3. CASE w \notin T
    <3>1. Handled(w)
      BY <1>w DEF Wanted
    <3>2. w \in subs[client] \/ CallPending(w, client) \/ hpc[client] = "flag"
             \/ \E d \in Handles : hpc[d] = "own"
      BY <3>1, <2>3 DEF Handled, EventPending
    <3> QED
      BY <3>2, <2>1 DEF Handled, EventPending, CallPending
  <2> QED
    BY <2>2, <2>3
<1>7. ASSUME NEW c \in Handles, OnDisconnected(c) PROVE Handled(w)'
  BY <1>7 DEF OnDisconnected
<1>8. ASSUME NEW t \in Threads, Resume(t) PROVE Handled(w)'
  BY <1>8, <1>w DEF Resume, Handled, EventPending, CallPending, Wanted
<1>9. ASSUME NEW t \in Threads, StopCheck(t) PROVE Handled(w)'
  BY <1>9, <1>w DEF StopCheck, Handled, EventPending, CallPending, Wanted
<1>10. ASSUME NEW t \in Threads, StartCheck(t) PROVE Handled(w)'
  <2> USE <1>10 DEF StartCheck
  <2>1. Handled(w) /\ Goto(t, Started(t))
    BY <1>w DEF Wanted
  <2>2. w # NoTopic
    BY DEF Wanted, Listener
  <2>3. CASE CallPending(w, client)
    BY <2>1, <2>2, <2>3 DEF Handled, CallPending, Started
  <2>4. CASE w \in subs[client] \/ EventPending(w, client)
    BY <2>4 DEF Handled, EventPending
  <2> QED
    BY <2>1, <2>3, <2>4 DEF Handled
<1>11. ASSUME NEW t \in Threads, StartInit(t) PROVE Handled(w)'
  BY <1>11 DEF StartInit, Fresh, Handles
<1>12. ASSUME NEW t \in Threads, StartRun(t) PROVE Handled(w)'
  <2> USE <1>12 DEF StartRun
  <2>1. /\ session[client] /\ subs' = subs /\ Goto(t, Started(t))
    BY ShutFacts
  <2>2. Handled(w) /\ w # NoTopic
    BY <1>w, <2>1 DEF Wanted, Listener
  <2>3. CASE CallPending(w, client)
    BY <2>1, <2>2, <2>3 DEF Handled, CallPending, Started
  <2>4. CASE w \in subs[client] \/ EventPending(w, client)
    BY <2>1, <2>4 DEF Handled, EventPending
  <2> QED
    BY <2>2, <2>3, <2>4 DEF Handled
<1>13. ASSUME NEW t \in Threads, StartNull(t) PROVE Handled(w)'
  BY <1>13 DEF StartNull
<1>14. ASSUME NEW t \in Threads, StopClient(t) PROVE Handled(w)'
  BY <1>14, ShutFacts DEF StopClient
<1>15. ASSUME NEW t \in Threads, StopDestroy(t) PROVE Handled(w)'
  BY <1>15, ShutFacts DEF StopDestroy
<1>16. ASSUME NEW t \in Threads, StopNull(t) PROVE Handled(w)'
  BY <1>16 DEF StopNull
<1>17. ASSUME NEW t \in Threads, StopFlag(t) PROVE Handled(w)'
  BY <1>17 DEF StopFlag
<1>18. ASSUME NEW t \in Threads, SubscribeCheck(t) PROVE Handled(w)'
  <2> USE <1>18 DEF SubscribeCheck
  <2>1. /\ Handled(w) /\ Goto(t, "sub_call")
        /\ h' = [h EXCEPT ![t] = client] /\ UNCHANGED arg
    BY <1>w DEF Wanted
  <2>2. CASE CallPending(w, client)
    <3>1. PICK s \in Threads :
            /\ arg[s] = w
            /\ \/ pc[s] = "sub_check"
               \/ pc[s] = "sub_call" /\ h[s] = client
               \/ s = Notif /\ pc[s] \in {"s_check", "s_init", "s_run", "s_null", "u_set"}
      BY <2>2 DEF CallPending
    <3>2. CASE s = t
      BY <2>1, <3>1, <3>2 DEF Handled, CallPending
    <3>3. CASE s # t
      BY <2>1, <3>1, <3>3 DEF Handled, CallPending
    <3> QED
      BY <3>2, <3>3
  <2>3. CASE w \in subs[client] \/ EventPending(w, client)
    BY <2>3 DEF Handled, EventPending
  <2> QED
    BY <2>1, <2>2, <2>3 DEF Handled
<1>19. ASSUME NEW t \in Threads, SubscribeCall(t) PROVE Handled(w)'
  <2> USE <1>19 DEF SubscribeCall
  <2>1. Handled(w) /\ {arg[t]} \in SUBSET Topics
    BY <1>w DEF Wanted, ArgOK
  <2>2. /\ \A d \in Handles : subs[d] \subseteq subs'[d]
        /\ h[t] = client => arg[t] \in subs'[client]
    BY <2>1, SubscribeFacts, SMTT(30)
  <2>3. CASE CallPending(w, client)
    <3>1. PICK s \in Threads :
            /\ arg[s] = w
            /\ \/ pc[s] = "sub_check"
               \/ pc[s] = "sub_call" /\ h[s] = client
               \/ s = Notif /\ pc[s] \in {"s_check", "s_init", "s_run", "s_null", "u_set"}
      BY <2>3 DEF CallPending
    <3>2. CASE s = t
      BY <2>2, <3>1, <3>2 DEF Handled
    <3>3. CASE s # t
      <4>1. pc'[s] = pc[s] /\ arg'[s] = arg[s] /\ h'[s] = h[s] /\ client' = client
        BY <3>3
      <4> QED
        BY <3>1, <4>1 DEF Handled, CallPending
    <3> QED
      BY <3>2, <3>3
  <2>4. CASE w \in subs[client] \/ EventPending(w, client)
    BY <2>2, <2>4 DEF Handled, EventPending
  <2> QED
    BY <2>1, <2>3, <2>4 DEF Handled
<1>20. ASSUME NEW t \in Threads, UnsubscribeCheck(t) PROVE Handled(w)'
  <2> USE <1>20 DEF UnsubscribeCheck
  <2>1. /\ Handled(w) /\ Goto(t, "unsub_call")
        /\ h' = [h EXCEPT ![t] = client] /\ UNCHANGED arg
    BY <1>w DEF Wanted
  <2> QED
    BY <2>1 DEF Handled, EventPending, CallPending
<1>21. ASSUME NEW t \in Threads, UnsubscribeCall(t) PROVE Handled(w)'
  <2> USE <1>21 DEF UnsubscribeCall
  <2>1. Handled(w) /\ w # arg[t]
    BY <1>w DEF Wanted, OneListener
  <2>2. CASE CallPending(w, client)
    BY <2>1, <2>2 DEF Handled, CallPending
  <2>3. CASE w \in subs[client] \/ EventPending(w, client)
    BY <2>1, <2>3 DEF Handled, EventPending
  <2> QED
    BY <2>1, <2>2, <2>3 DEF Handled
<1>22. CASE UpdateUser
  <2> USE <1>22 DEF UpdateUser
  <2>1. CASE w = arg[Notif]
    BY <2>1 DEF Handled, CallPending
  <2>2. CASE w # arg[Notif]
    <3>1. Handled(w)
      BY <1>w, <2>2 DEF Wanted
    <3>2. CASE CallPending(w, client)
      BY <2>2, <3>2 DEF Handled, CallPending
    <3>3. CASE w \in subs[client] \/ EventPending(w, client)
      BY <3>3 DEF Handled, EventPending
    <3> QED
      BY <3>1, <3>2, <3>3 DEF Handled
  <2> QED
    BY <2>1, <2>2
<1>23. ASSUME NEW u \in Users \cup {NoTopic}, Configure(u) PROVE Handled(w)'
  <2> USE <1>23 DEF Configure
  <2>1. CASE w = u
    BY <2>1 DEF Handled, CallPending
  <2>2. CASE w # u
    <3>1. Handled(w)
      BY <1>w, <2>2 DEF Wanted
    <3>2. CASE CallPending(w, client)
      BY <3>2 DEF Handled, CallPending
    <3>3. CASE w \in subs[client] \/ EventPending(w, client)
      BY <3>3 DEF Handled, EventPending
    <3> QED
      BY <3>1, <3>2, <3>3 DEF Handled
  <2> QED
    BY <2>1, <2>2
<1>24. ASSUME NEW r \in Rooms, AddListener(r) PROVE Handled(w)'
  <2> USE <1>24 DEF AddListener
  <2>1. CASE w = r
    BY <2>1 DEF Handled, CallPending
  <2>2. CASE w # r
    <3>1. Handled(w)
      BY <1>w, <2>2 DEF Wanted
    <3>2. CASE CallPending(w, client)
      BY <3>2 DEF Handled, CallPending
    <3>3. CASE w \in subs[client] \/ EventPending(w, client)
      BY <3>3 DEF Handled, EventPending
    <3> QED
      BY <3>1, <3>2, <3>3 DEF Handled
  <2> QED
    BY <2>1, <2>2
<1>25. ASSUME NEW l \in listeners, RemoveListener(l) PROVE Handled(w)'
  <2> USE <1>25 DEF RemoveListener
  <2>1. listeners' = {} /\ w \in {topic} \ {NoTopic}
    BY DEF OneListener, Wanted
  <2>2. Handled(w) /\ \A k \in listeners : k.topic # w
    BY <1>w, <2>1 DEF Wanted, Listener
  <2>3. CASE CallPending(w, client)
    BY <2>3 DEF Handled, CallPending
  <2>4. CASE w \in subs[client] \/ EventPending(w, client)
    BY <2>2, <2>4 DEF Handled, EventPending
  <2> QED
    BY <2>2, <2>3, <2>4 DEF Handled
<1>26. CASE UNCHANGED vars
  BY <1>26, <1>w DEF vars, Handled, EventPending, CallPending, Wanted
<1> QED
  BY <1>1, <1>2, <1>3, <1>4, <1>5, <1>6, <1>7, <1>8, <1>9, <1>10, <1>11, <1>12, <1>13,
     <1>14, <1>15, <1>16, <1>17, <1>18, <1>19, <1>20, <1>21, <1>22, <1>23, <1>24, <1>25, <1>26
  DEF Next, HandlerStep, CallStep, StartStep, StopStep, TopicStep

\* The runtime starts without client, calls and listeners.
LEMMA InitFrame == Init => Frame
<1> SUFFICES ASSUME Init PROVE Frame
  OBVIOUS
<1> USE TaskAssumption, TopicAssumption, BoundAssumption DEF Init
<1>1. TypeOK
  <2>1. client \in 0..made /\ made \in 0..MaxHandles /\ sessions \in 0..MaxSessions
        /\ nextId \in 1..(MaxListeners + 1)
    OBVIOUS
  <2> QED
    BY <2>1 DEF TypeOK, Calls
<1>2. ArgOK
  BY DEF ArgOK, Threads
<1>3. Fresh
  BY DEF Fresh
<1>4. OneListener
  BY DEF OneListener
<1> QED
  BY <1>1, <1>2, <1>3, <1>4 DEF Frame

\* Every reachable state is of the types TypeOK says: in particular S.client is
\* null or a client that was created, and nothing but real topics is subscribed.
THEOREM TypeCorrect == Spec => []TypeOK
<1>1. Init => Frame
  BY InitFrame
<1>2. Frame => TypeOK
  BY DEF Frame
<1> QED
  BY <1>1, <1>2, FrameStep, PTL DEF Spec

\* In every reachable state the strengthening holds.
THEOREM Invariance == Spec => []IInv
<1>1. Init => Frame /\ Covered
  BY InitFrame DEF Init, Covered
<1>2. Frame /\ Covered => IInv
  BY DEF Frame, IInv
<1> QED
  BY <1>1, <1>2, FrameStep, CoveredStep, PTL DEF Spec

\* No subscription is lost: whenever no call and no event is in progress and
\* S.client is connected, the personal topic and the topic of every listener
\* are subscribed, whatever the order of the steps before.
THEOREM NoLostSubscriptionHolds == Spec => []NoLostSubscription
<1>1. IInv => NoLostSubscription
  <2> SUFFICES ASSUME IInv, Quiet, connected, client # 0, session[client], NEW w \in Wanted
               PROVE  w \in subs[client]
    BY DEF NoLostSubscription
  <2>1. client \in Handles
    BY BoundAssumption DEF IInv, TypeOK, Handles
  <2>2. ~CallPending(w, client)
    BY DEF CallPending, Quiet, Idle
  <2>3. ~EventPending(w, client)
    BY <2>1 DEF EventPending, Quiet
  <2> QED
    BY <2>2, <2>3 DEF IInv, Covered
<1> QED
  BY <1>1, Invariance, PTL
=============================================================================
