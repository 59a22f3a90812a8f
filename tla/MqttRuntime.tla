---------------------------- MODULE MqttRuntime ----------------------------
(***************************************************************************)
(* components/services/network/mqtt_runtime.cpp: one global record S, used *)
(* without a lock by every task except around the listener vector.         *)
(*                                                                         *)
(* Actors: the task of each esp-mqtt client (it dispatches on_event), the  *)
(* open chat task (Ui), http_get_notifications_task (Notif), and the tasks *)
(* that pause and resume MQTT around BLE (Ctls: the Wi-Fi event task, the  *)
(* retry task, the post-connect task, the settings dialog).                *)
(*                                                                         *)
(* esp-mqtt itself is external.  What is used of it: a client's task holds *)
(* the client's API lock while it dispatches an event, every API call      *)
(* takes that lock, a subscription made without a session is dropped, a    *)
(* session starts with no subscription (clean session), stopping a client  *)
(* waits for its task, and starting a started client is an error.  A call  *)
(* on a destroyed handle is taken to fail with no effect.                  *)
(***************************************************************************)
EXTENDS Naturals, FiniteSets

CONSTANTS
    Ui, Notif, Ctls,       \* the tasks
    Rooms, Users,          \* listener topics, personal topics chat/messages/<user_id>
    NoTopic, NoOne,        \* the empty topic, the unlocked mutex
    MaxHandles,            \* bound: clients ever created
    MaxListeners,          \* bound: listener ids ever given out
    MaxSessions            \* bound: sessions ever established

Threads == {Ui, Notif} \cup Ctls
Handles == 1..MaxHandles
Topics  == Rooms \cup Users

ASSUME TaskAssumption ==
    /\ Ui # Notif /\ Ui \notin Ctls /\ Notif \notin Ctls
    /\ NoOne \notin Threads \cup Handles /\ Threads \cap Handles = {}
ASSUME TopicAssumption == NoTopic \notin Topics /\ Rooms \cap Users = {}
ASSUME BoundAssumption ==
    MaxHandles \in Nat /\ MaxListeners \in Nat /\ MaxSessions \in Nat

VARIABLES
    m,           \* S.m: the thread or client task that holds it
    configured,  \* S.host is not empty
    topic,       \* S.topic
    client,      \* S.client, 0 for nullptr
    connected,   \* S.connected
    listeners,   \* S.listeners
    nextId,      \* S.next_listener_id
    phase,       \* of each client: none, init (created or stopped), running, dead
    session,     \* the client's session with the broker is up
    subs,        \* the topics subscribed in that session
    hpc,         \* where the client's task is in on_event
    pc,          \* where each task is in a call of the runtime
    arg,         \* the topic that call is about
    h,           \* the handle that call has read
    made,        \* clients created so far
    sessions     \* sessions established so far

shared  == <<m, configured, topic, client, connected, listeners, nextId>>
clients == <<phase, session, subs, hpc, made, sessions>>
tasks   == <<pc, arg, h>>
vars    == <<shared, clients, tasks>>

Listener == [id : 1..MaxListeners, topic : Rooms]

Idle(t)  == pc[t] \in {"idle", "loop"}
Goto(t, l) == pc' = [pc EXCEPT ![t] = l]
Forget(t) == arg' = [arg EXCEPT ![t] = NoTopic]
\* Where a task is after a subscription: the notification task polls for ever.
Subscribed(t) == IF t = Notif THEN "loop" ELSE "idle"
\* What the caller does after mqtt_rt_start returned 0: only the notification
\* task, if it has a user id, goes on to update_user (http_client.hpp:855-867).
Started(t) == IF t = Notif /\ arg[t] # NoTopic THEN "u_set" ELSE "idle"

\* The API lock of client c: its task holds it from the start of a dispatch
\* to the end; a null or foreign handle is free.
ApiFree(c) == c \in Handles => hpc[c] = "idle"

Subscribe(c, T) ==
    subs' = [d \in Handles |-> IF d = c /\ session[d] THEN subs[d] \cup T ELSE subs[d]]

\* Stop or destroy client c: its session and subscriptions are gone.
Shut(c, p) ==
    /\ phase' = [d \in Handles |-> IF d = c /\ phase[d] # "dead" THEN p ELSE phase[d]]
    /\ session' = [d \in Handles |-> IF d = c THEN FALSE ELSE session[d]]
    /\ subs' = [d \in Handles |-> IF d = c THEN {} ELSE subs[d]]

Init ==
    /\ m = NoOne /\ configured = FALSE /\ topic = NoTopic
    /\ client = 0 /\ connected = FALSE /\ listeners = {} /\ nextId = 1
    /\ phase = [c \in Handles |-> "none"]
    /\ session = [c \in Handles |-> FALSE]
    /\ subs = [c \in Handles |-> {}]
    /\ hpc = [c \in Handles |-> "idle"]
    /\ pc = [t \in Threads |-> "idle"]
    /\ arg = [t \in Threads |-> NoTopic]
    /\ h = [t \in Threads |-> 0]
    /\ made = 0 /\ sessions = 0

-----------------------------------------------------------------------------
(* The client's task: connection state and on_event.                       *)

\* The broker accepts client c; esp-mqtt dispatches MQTT_EVENT_CONNECTED.
Connect(c) ==
    /\ phase[c] = "running" /\ ~session[c] /\ hpc[c] = "idle"
    /\ sessions < MaxSessions
    /\ sessions' = sessions + 1
    /\ session' = [session EXCEPT ![c] = TRUE]
    /\ subs' = [subs EXCEPT ![c] = {}]
    /\ hpc' = [hpc EXCEPT ![c] = "flag"]
    /\ UNCHANGED <<shared, tasks, phase, made>>

\* S.connected = true, before anything is subscribed.
OnConnectedFlag(c) ==
    /\ hpc[c] = "flag"
    /\ connected' = TRUE
    /\ hpc' = [hpc EXCEPT ![c] = "own"]
    /\ UNCHANGED <<m, configured, topic, client, listeners, nextId, tasks,
                   phase, session, subs, made, sessions>>

\* Mutant: S.topic is not tested for being empty.
OnConnectedOwnUntested(c) ==
    /\ hpc[c] = "own"
    /\ client = c \/ ApiFree(client)
    /\ Subscribe(client, {topic})
    /\ hpc' = [hpc EXCEPT ![c] = "lock"]
    /\ UNCHANGED <<shared, tasks, phase, session, made, sessions>>

\* Subscribe S.client to the personal topic, without the mutex.  S.client may
\* be another client than c, whose API lock is then needed too.
OnConnectedOwn(c) ==
    /\ hpc[c] = "own"
    /\ client = c \/ ApiFree(client)
    /\ Subscribe(client, {topic} \ {NoTopic})
    /\ hpc' = [hpc EXCEPT ![c] = "lock"]
    /\ UNCHANGED <<shared, tasks, phase, session, made, sessions>>

\* Mutant: a CONNECTED event does not subscribe the listeners again.
OnConnectedOwnOnly(c) ==
    /\ hpc[c] = "lock"
    /\ hpc' = [hpc EXCEPT ![c] = "idle"]
    /\ UNCHANGED <<shared, tasks, phase, session, subs, made, sessions>>

OnConnectedLock(c) ==
    /\ hpc[c] = "lock" /\ m = NoOne
    /\ m' = c
    /\ hpc' = [hpc EXCEPT ![c] = "loop"]
    /\ UNCHANGED <<configured, topic, client, connected, listeners, nextId, tasks,
                   phase, session, subs, made, sessions>>

\* The loop over S.listeners, under the mutex, then its release.
OnConnectedLoop(c) ==
    /\ hpc[c] = "loop"
    /\ client = c \/ ApiFree(client)
    /\ Subscribe(client, {l.topic : l \in listeners})
    /\ m' = NoOne
    /\ hpc' = [hpc EXCEPT ![c] = "idle"]
    /\ UNCHANGED <<configured, topic, client, connected, listeners, nextId, tasks,
                   phase, session, made, sessions>>

\* The session is lost; MQTT_EVENT_DISCONNECTED is dispatched.
Lose(c) ==
    /\ phase[c] = "running" /\ session[c] /\ hpc[c] = "idle"
    /\ session' = [session EXCEPT ![c] = FALSE]
    /\ subs' = [subs EXCEPT ![c] = {}]
    /\ hpc' = [hpc EXCEPT ![c] = "down"]
    /\ UNCHANGED <<shared, tasks, phase, made, sessions>>

OnDisconnected(c) ==
    /\ hpc[c] = "down"
    /\ connected' = FALSE
    /\ hpc' = [hpc EXCEPT ![c] = "idle"]
    /\ UNCHANGED <<m, configured, topic, client, listeners, nextId, tasks,
                   phase, session, subs, made, sessions>>

-----------------------------------------------------------------------------
(* mqtt_rt_configure, mqtt_rt_start (and its alias mqtt_rt_resume).        *)

\* http_get_notifications_task: configure with the account's user id, if there
\* is one, then start.  The task runs again only after it failed.
Configure(u) ==
    /\ pc[Notif] = "idle"
    /\ configured' = TRUE
    /\ topic' = IF u = NoTopic THEN topic ELSE u
    /\ Goto(Notif, "s_check")
    /\ arg' = [arg EXCEPT ![Notif] = u]
    /\ UNCHANGED <<m, client, connected, listeners, nextId, clients, h>>

Resume(t) ==
    /\ t # Notif /\ pc[t] = "idle"
    /\ Goto(t, "s_check")
    /\ UNCHANGED <<shared, clients, arg, h>>

StartCheck(t) ==
    /\ pc[t] = "s_check"
    /\ \/ client # 0 /\ Goto(t, Started(t))
       \/ client = 0 /\ ~configured /\ Goto(t, "idle")
       \/ client = 0 /\ configured /\ Goto(t, "s_init")
    /\ UNCHANGED <<shared, clients, arg, h>>

\* S.client = esp_mqtt_client_init(): a fresh client, or nullptr.
StartInit(t) ==
    /\ pc[t] = "s_init"
    /\ \/ /\ made < MaxHandles
          /\ made' = made + 1 /\ client' = made + 1
          /\ phase' = [phase EXCEPT ![made + 1] = "init"]
          /\ Goto(t, "s_run")
          /\ UNCHANGED arg
       \/ /\ client' = 0
          /\ Goto(t, "idle") /\ Forget(t)
          /\ UNCHANGED <<phase, made>>
    /\ UNCHANGED <<m, configured, topic, connected, listeners, nextId, h,
                   session, subs, hpc, sessions>>

\* esp_mqtt_client_start(S.client); on an error esp_mqtt_client_destroy(S.client),
\* whatever S.client is by then.
StartRun(t) ==
    /\ pc[t] = "s_run" /\ ApiFree(client)
    /\ \/ /\ client # 0 /\ phase[client] = "init"
          /\ phase' = [phase EXCEPT ![client] = "running"]
          /\ Goto(t, Started(t))
          /\ UNCHANGED <<session, subs>>
       \/ Shut(client, "dead") /\ Goto(t, "s_null")
    /\ UNCHANGED <<shared, arg, h, hpc, made, sessions>>

StartNull(t) ==
    /\ pc[t] = "s_null"
    /\ client' = 0
    /\ Goto(t, "idle") /\ Forget(t)
    /\ UNCHANGED <<m, configured, topic, connected, listeners, nextId, clients, h>>

-----------------------------------------------------------------------------
(* mqtt_rt_stop (and its alias mqtt_rt_pause).                             *)

StopCheck(t) ==
    /\ t \in Ctls /\ pc[t] = "idle"
    /\ Goto(t, IF client = 0 THEN "p_flag" ELSE "p_stop")
    /\ UNCHANGED <<shared, clients, arg, h>>

StopClient(t) ==
    /\ pc[t] = "p_stop" /\ ApiFree(client)
    /\ Shut(client, "init")
    /\ Goto(t, "p_destroy")
    /\ UNCHANGED <<shared, arg, h, hpc, made, sessions>>

StopDestroy(t) ==
    /\ pc[t] = "p_destroy" /\ ApiFree(client)
    /\ Shut(client, "dead")
    /\ Goto(t, "p_null")
    /\ UNCHANGED <<shared, arg, h, hpc, made, sessions>>

StopNull(t) ==
    /\ pc[t] = "p_null"
    /\ client' = 0
    /\ Goto(t, "p_flag")
    /\ UNCHANGED <<m, configured, topic, connected, listeners, nextId, clients, arg, h>>

StopFlag(t) ==
    /\ pc[t] = "p_flag"
    /\ connected' = FALSE
    /\ Goto(t, "idle")
    /\ UNCHANGED <<m, configured, topic, client, listeners, nextId, clients, arg, h>>

-----------------------------------------------------------------------------
(* mqtt_rt_update_user, mqtt_rt_add_listener, mqtt_rt_remove_listener.     *)

UpdateUser ==
    /\ pc[Notif] = "u_set"
    /\ topic' = arg[Notif]
    /\ Goto(Notif, "sub_check")
    /\ UNCHANGED <<m, configured, client, connected, listeners, nextId, clients, arg, h>>

\* Mutant: the mutex is still held when add_listener subscribes.
AddListenerLocked(r) ==
    /\ pc[Ui] = "idle" /\ listeners = {} /\ m = NoOne /\ nextId <= MaxListeners
    /\ m' = Ui
    /\ listeners' = listeners \cup {[id |-> nextId, topic |-> r]}
    /\ nextId' = nextId + 1
    /\ arg' = [arg EXCEPT ![Ui] = r]
    /\ Goto(Ui, "sub_check")
    /\ UNCHANGED <<configured, topic, client, connected, clients, h>>

\* The critical section of add_listener: push, then release the mutex.  The
\* open chat task has one listener at a time.
AddListener(r) ==
    /\ pc[Ui] = "idle" /\ listeners = {} /\ m = NoOne /\ nextId <= MaxListeners
    /\ listeners' = listeners \cup {[id |-> nextId, topic |-> r]}
    /\ nextId' = nextId + 1
    /\ arg' = [arg EXCEPT ![Ui] = r]
    /\ Goto(Ui, "sub_check")
    /\ UNCHANGED <<m, configured, topic, client, connected, clients, h>>

\* if (S.client && S.connected), outside the mutex.
SubscribeCheck(t) ==
    /\ pc[t] = "sub_check"
    /\ \/ /\ connected /\ client # 0
          /\ Goto(t, "sub_call")
          /\ h' = [h EXCEPT ![t] = client]
          /\ UNCHANGED arg
       \/ /\ ~(connected /\ client # 0)
          /\ Goto(t, Subscribed(t))
          /\ Forget(t)
          /\ UNCHANGED h
    /\ UNCHANGED <<shared, clients>>

SubscribeCall(t) ==
    /\ pc[t] = "sub_call" /\ ApiFree(h[t])
    /\ Subscribe(h[t], {arg[t]})
    /\ Goto(t, Subscribed(t)) /\ Forget(t)
    /\ h' = [h EXCEPT ![t] = 0]
    /\ UNCHANGED <<shared, phase, session, hpc, made, sessions>>

RemoveListener(l) ==
    /\ pc[Ui] = "idle" /\ m = NoOne
    /\ listeners' = {k \in listeners : k.id # l.id}
    /\ arg' = [arg EXCEPT ![Ui] = l.topic]
    /\ Goto(Ui, "unsub_check")
    /\ UNCHANGED <<m, configured, topic, client, connected, nextId, clients, h>>

UnsubscribeCheck(t) ==
    /\ pc[t] = "unsub_check"
    /\ \/ /\ connected /\ client # 0
          /\ Goto(t, "unsub_call")
          /\ h' = [h EXCEPT ![t] = client]
          /\ UNCHANGED arg
       \/ /\ ~(connected /\ client # 0)
          /\ Goto(t, "idle")
          /\ Forget(t)
          /\ UNCHANGED h
    /\ UNCHANGED <<shared, clients>>

UnsubscribeCall(t) ==
    /\ pc[t] = "unsub_call" /\ ApiFree(h[t])
    /\ subs' = [d \in Handles |-> IF d = h[t] THEN subs[d] \ {arg[t]} ELSE subs[d]]
    /\ Goto(t, "idle") /\ Forget(t)
    /\ h' = [h EXCEPT ![t] = 0]
    /\ UNCHANGED <<shared, phase, session, hpc, made, sessions>>

-----------------------------------------------------------------------------
\* on_event once it is dispatched, and a call once it is made: these go on by
\* themselves.
HandlerStep(c) ==
    \/ OnConnectedFlag(c) \/ OnConnectedOwn(c) \/ OnConnectedLock(c)
    \/ OnConnectedLoop(c) \/ OnDisconnected(c)
StartStep(t) == StartCheck(t) \/ StartInit(t) \/ StartRun(t) \/ StartNull(t)
StopStep(t) == StopClient(t) \/ StopDestroy(t) \/ StopNull(t) \/ StopFlag(t)
TopicStep(t) ==
    \/ t = Notif /\ UpdateUser
    \/ SubscribeCheck(t) \/ SubscribeCall(t)
    \/ UnsubscribeCheck(t) \/ UnsubscribeCall(t)
CallStep(t) == StartStep(t) \/ StopStep(t) \/ TopicStep(t)

Next ==
    \/ \E c \in Handles : Connect(c) \/ Lose(c) \/ HandlerStep(c)
    \/ \E t \in Threads : Resume(t) \/ StopCheck(t) \/ CallStep(t)
    \/ \E u \in Users \cup {NoTopic} : Configure(u)
    \/ \E r \in Rooms : AddListener(r)
    \/ \E l \in listeners : RemoveListener(l)

Spec == Init /\ [][Next]_vars

\* FreeRTOS schedules every ready task: a dispatch and a call go on when they
\* can.  Nothing is assumed of the broker or of when tasks make calls.
Fairness ==
    /\ \A c \in Handles : WF_vars(HandlerStep(c))
    /\ \A t \in Threads : WF_vars(CallStep(t))
FairSpec == Spec /\ Fairness

-----------------------------------------------------------------------------
Calls == {"idle", "loop", "s_check", "s_init", "s_run", "s_null",
          "p_stop", "p_destroy", "p_null", "p_flag", "u_set",
          "sub_check", "sub_call", "unsub_check", "unsub_call"}

\* Every variable holds a value of its kind: S.client is null or a client that
\* was created, listeners are records, every task is at a line of a call.
TypeOK ==
    /\ m \in {NoOne} \cup Threads \cup Handles
    /\ configured \in BOOLEAN /\ topic \in {NoTopic} \cup Users
    /\ client \in 0..made /\ connected \in BOOLEAN
    /\ listeners \subseteq Listener /\ nextId \in 1..(MaxListeners + 1)
    /\ phase \in [Handles -> {"none", "init", "running", "dead"}]
    /\ session \in [Handles -> BOOLEAN]
    /\ subs \in [Handles -> SUBSET Topics]
    /\ hpc \in [Handles -> {"idle", "flag", "own", "lock", "loop", "down"}]
    /\ pc \in [Threads -> Calls]
    /\ arg \in [Threads -> {NoTopic} \cup Topics]
    /\ h \in [Threads -> {0} \cup Handles]
    /\ made \in 0..MaxHandles /\ sessions \in 0..MaxSessions

Quiet == (\A t \in Threads : Idle(t)) /\ (\A c \in Handles : hpc[c] = "idle")
Wanted == {l.topic : l \in listeners} \cup ({topic} \ {NoTopic})

\* No subscription is lost between add_listener or update_user and a
\* CONNECTED event, in whatever order their steps fall: when no call and no
\* event is in progress and S.client is connected, it is subscribed to the
\* personal topic and to every listener's topic.
NoLostSubscription ==
    Quiet /\ connected /\ client # 0 /\ session[client]
        => Wanted \subseteq subs[client]

Live == {c \in Handles : phase[c] \in {"init", "running"}}

\* The mutex S.m and the clients' API locks never block each other: unless two
\* clients stay alive for ever, every call of the runtime returns.
CallsReturn == \A t \in Threads : []<>(Idle(t) \/ Cardinality(Live) > 1)
=============================================================================
