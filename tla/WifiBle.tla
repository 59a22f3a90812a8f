------------------------------ MODULE WifiBle ------------------------------
(***************************************************************************)
(* components/services/network/include/wifi.hpp with the enable and        *)
(* disable of components/services/ble/ble_uart.cpp: how the device moves   *)
(* between Wi-Fi with MQTT and the BLE bridge it falls back to.            *)
(*                                                                         *)
(* Actors: "boot" (WiFi::main), "event" (the default event loop task in    *)
(* event_handler), "retry" (wifi_prefer_retry_task), "post"                *)
(* (post_connect_task) and "ui" (the Wi-Fi setting screen).  The radio is  *)
(* external.  Factory setup, with its one boot that puts the fallback off, *)
(* and BLE pairing by hand are not in this module: they are off.           *)
(*                                                                         *)
(* Steps of different tasks interleave in every order, but a task's step   *)
(* is not outlasted by what is a thousand times slower: see NoStepReady    *)
(* and SecondsPass.                                                        *)
(***************************************************************************)
EXTENDS Naturals, Sequences

CONSTANTS
    MaxRetry,    \* EXAMPLE_ESP_MAXIMUM_RETRY
    NCreds,      \* saved Wi-Fi credentials
    MaxRadio,    \* bound: radio events
    MaxUi        \* bound: uses of the Wi-Fi setting screen

ASSUME WifiAssumption ==
    MaxRetry \in Nat /\ NCreds \in Nat /\ MaxRadio \in Nat /\ MaxUi \in Nat

VARIABLES
    connBit,     \* WIFI_CONNECTED_BIT of s_wifi_event_group
    failBit,     \* WIFI_FAIL_BIT
    reconf,      \* s_wifi_reconfiguring
    retryNum,    \* s_retry_num
    fallback,    \* s_ble_fallback_active
    retryRun,    \* s_wifi_retry_task_running
    postRun,     \* s_post_connect_task_running
    opMutex,     \* s_wifi_op_mutex: the actor that holds it, or "none"
    manualOff,   \* the NVS key wifi_manual_off
    bleOn,       \* g_stack_inited
    lastErr,     \* g_last_err: ok, link (ESP_ERR_INVALID_STATE), init
    mqttSet,     \* the notification task has configured MQTT
    mqttOn,      \* the MQTT client exists
    menu,        \* boot ended with the menu, not BLE-only
    radio,       \* stopped, idle, connecting, linked
    configured,  \* the driver has got a network by esp_wifi_set_config
    events,      \* the queue of the default event loop
    aborted,     \* ESP_ERROR_CHECK failed: the device restarts
    pc, cred,    \* where each actor is; the credential it tries
    radioCount, uiCount,
    excused      \* history: see OfflineHasRecovery

wifi   == <<connBit, failBit, reconf, retryNum, opMutex, radio, configured, events>>
modes  == <<fallback, retryRun, postRun, manualOff, menu>>
links  == <<bleOn, lastErr, mqttSet, mqttOn>>
bounds == <<radioCount, uiCount, excused>>
vars   == <<wifi, modes, links, aborted, pc, cred, bounds>>

Actors == {"boot", "event", "retry", "post", "ui"}
Goto(a, l) == pc' = [pc EXCEPT ![a] = l]
At(a, l) == ~aborted /\ pc[a] = l

\* Where wifi_connect_saved_any starts: with no credential it has failed.
TryFrom(a) == IF NCreds > 0 THEN "lock" ELSE IF a = "boot" THEN "ensure" ELSE "pause"

\* Three speeds.  A task makes its steps in microseconds.  The radio and the
\* slow calls take longer than that, so they do something only when no task has
\* a step to make.  Timeouts, delays and the user take seconds, so they come
\* only when no slow call is in progress either.
SlowCalls == {"disable", "init", "pause", "e_pause"}
Waiting(a) ==
    \/ pc[a] \in {"off", "sleep"}
    \/ pc[a] = "idle" /\ events = <<>>
    \/ pc[a] = "wait" /\ ~connBit /\ (failBit => a = "ui")
NoStepReady == ~aborted /\ \A a \in Actors : Waiting(a) \/ pc[a] \in SlowCalls
SecondsPass == ~aborted /\ \A a \in Actors : Waiting(a)

Init ==
    /\ connBit = FALSE /\ failBit = FALSE /\ reconf = FALSE /\ retryNum = 0
    /\ fallback = FALSE /\ retryRun = FALSE /\ postRun = FALSE /\ opMutex = "none"
    /\ manualOff \in BOOLEAN
    /\ bleOn = FALSE /\ lastErr = "ok" /\ mqttSet = FALSE /\ mqttOn = FALSE
    /\ menu = FALSE /\ radio = "idle" /\ configured = FALSE
    /\ events = <<>> /\ aborted = FALSE
    /\ pc = [a \in Actors |-> CASE a = "boot" -> "start" [] a = "event" -> "idle"
                                [] OTHER -> "off"]
    /\ cred = [a \in Actors |-> 1]
    /\ radioCount = 0 /\ uiCount = 0 /\ excused = FALSE

-----------------------------------------------------------------------------
(* The radio.                                                              *)

Radio(from, to, e) ==
    /\ NoStepReady /\ radioCount < MaxRadio
    /\ radio = from
    /\ radio' = to
    /\ events' = Append(events, e)
    /\ radioCount' = radioCount + 1
    /\ UNCHANGED <<connBit, failBit, reconf, retryNum, opMutex, configured, modes, links,
                   aborted, pc, cred, uiCount>>
    /\ excused' = (excused \/ (from = "linked" /\ ~SecondsPass))

RadioLink == Radio("connecting", "linked", "gotip")
RadioFail == Radio("connecting", "idle", "disc")
RadioDrop == Radio("linked", "idle", "disc")

\* esp_wifi_disconnect() and esp_wifi_connect(), which act on the radio only
\* if it is started and in the state they are for.  Who connects has set a
\* network before, but for UiOn.
Disconnected == IF radio = "stopped" THEN "stopped" ELSE "idle"
DiscEvents == IF radio \in {"connecting", "linked"} THEN Append(events, "disc") ELSE events
Connecting == IF radio = "idle" THEN "connecting" ELSE radio

-----------------------------------------------------------------------------
(* wifi_set_sta, by boot, the retry task and the Wi-Fi setting screen.     *)

SetStaBegin(a) ==
    /\ At(a, "lock") /\ opMutex = "none"
    /\ opMutex' = a
    /\ reconf' = TRUE /\ connBit' = FALSE /\ failBit' = FALSE /\ retryNum' = 0
    /\ Goto(a, "disc")
    /\ UNCHANGED <<radio, configured, events, modes, links, aborted, cred, bounds>>

SetStaDisconnect(a) ==
    /\ At(a, "disc")
    /\ radio' = Disconnected /\ events' = DiscEvents
    /\ configured' = TRUE
    /\ Goto(a, "conn")
    /\ UNCHANGED <<connBit, failBit, reconf, retryNum, opMutex, modes, links, aborted,
                   cred, bounds>>

\* conn_err is checked by ESP_ERROR_CHECK: connecting a radio that is stopped
\* or already connecting aborts.
SetStaConnect(a) ==
    /\ At(a, "conn")
    /\ radio' = Connecting
    /\ reconf' = FALSE /\ opMutex' = "none"
    /\ aborted' = (radio # "idle")
    /\ Goto(a, "wait")
    /\ UNCHANGED <<connBit, failBit, retryNum, configured, events, modes, links, cred, bounds>>

\* The wait for a bit (the screen waits for WIFI_CONNECTED_BIT only), up to
\* the timeout; then success, the next credential, or failure.
WaitConnected(a) ==
    /\ At(a, "wait") /\ connBit
    /\ Goto(a, IF a = "retry" THEN "won" ELSE "off")
    /\ menu' = (menu \/ a = "boot")
    /\ UNCHANGED <<wifi, fallback, retryRun, postRun, manualOff, links, aborted, cred, bounds>>

WaitFailed(a) ==
    /\ At(a, "wait") /\ ~connBit
    /\ (failBit /\ a # "ui") \/ SecondsPass
    /\ \/ /\ a # "ui" /\ cred[a] < NCreds
          /\ cred' = [cred EXCEPT ![a] = @ + 1]
          /\ Goto(a, "lock")
       \/ /\ a # "ui" /\ cred[a] = NCreds
          /\ cred' = [cred EXCEPT ![a] = 1]
          /\ Goto(a, IF a = "boot" THEN "ensure" ELSE "pause")
       \/ a = "ui" /\ Goto(a, "off") /\ UNCHANGED cred
    /\ UNCHANGED <<wifi, modes, links, aborted, bounds>>

-----------------------------------------------------------------------------
(* event_handler.                                                          *)

EventGotIp ==
    /\ At("event", "idle") /\ events # <<>> /\ Head(events) = "gotip"
    /\ events' = Tail(events)
    /\ retryNum' = 0 /\ connBit' = TRUE
    /\ \/ /\ ~postRun
          /\ postRun' = TRUE
          /\ Goto("post", "begin")
       \/ postRun /\ UNCHANGED <<postRun, pc>>
    /\ UNCHANGED <<failBit, reconf, opMutex, radio, configured, fallback, retryRun, manualOff,
                   menu, links, aborted, cred, bounds>>

\* Mutant: WIFI_CONNECTED_BIT is cleared only after the early returns.
EventDisconnectedLate ==
    /\ At("event", "idle") /\ events # <<>> /\ Head(events) = "disc"
    /\ events' = Tail(events)
    /\ connBit' = (connBit /\ (reconf \/ fallback))
    /\ IF reconf \/ fallback \/ (retryNum < MaxRetry /\ manualOff)
       THEN UNCHANGED <<failBit, pc>>
       ELSE IF retryNum < MaxRetry
       THEN Goto("event", "reconnect") /\ UNCHANGED failBit
       ELSE /\ failBit' = TRUE
            /\ Goto("event", IF manualOff THEN "idle" ELSE "ensure")
    /\ UNCHANGED <<reconf, retryNum, opMutex, radio, configured, modes, links, aborted, cred,
                   bounds>>

EventDisconnected ==
    /\ At("event", "idle") /\ events # <<>> /\ Head(events) = "disc"
    /\ events' = Tail(events)
    /\ connBit' = FALSE
    /\ IF reconf \/ fallback \/ (retryNum < MaxRetry /\ manualOff)
       THEN UNCHANGED <<failBit, pc>>
       ELSE IF retryNum < MaxRetry
       THEN Goto("event", "reconnect") /\ UNCHANGED failBit
       ELSE /\ failBit' = TRUE
            /\ Goto("event", IF manualOff THEN "idle" ELSE "ensure")
    /\ UNCHANGED <<reconf, retryNum, opMutex, radio, configured, modes, links, aborted, cred,
                   bounds>>

EventReconnect ==
    /\ At("event", "reconnect")
    /\ radio' = Connecting
    /\ retryNum' = retryNum + 1
    /\ Goto("event", "idle")
    /\ UNCHANGED <<connBit, failBit, reconf, opMutex, configured, events, modes, links, aborted,
                   cred, bounds>>

-----------------------------------------------------------------------------
(* ensure_ble_fallback_enabled, by the event task and by boot, and         *)
(* ble_uart_enable, by them and the retry task.                            *)

Done(a) == IF a = "event" THEN "idle" ELSE IF a = "retry" THEN "top" ELSE "off"

EnsureClaim(a) ==
    /\ At(a, "ensure")
    /\ \/ /\ ~manualOff /\ ~fallback
          /\ fallback' = TRUE
          /\ Goto(a, "clear")
       \/ /\ manualOff \/ fallback
          /\ Goto(a, Done(a))
          /\ UNCHANGED fallback
    /\ UNCHANGED <<wifi, retryRun, postRun, manualOff, menu, links, aborted, cred, bounds>>

EnsureClear(a) ==
    /\ At(a, "clear")
    /\ connBit' = FALSE
    /\ Goto(a, "e_pause")
    /\ UNCHANGED <<failBit, reconf, retryNum, opMutex, radio, configured, events, modes, links,
                   aborted, cred, bounds>>

\* mqtt_rt_pause(), also in the retry task when its attempt has failed.
PauseMqtt(a) ==
    /\ At(a, "e_pause") \/ At(a, "pause")
    /\ NoStepReady
    /\ mqttOn' = FALSE
    /\ Goto(a, "enable")
    /\ UNCHANGED <<wifi, modes, bleOn, lastErr, mqttSet, aborted, cred, bounds>>

AfterEnable(a) == IF a = "retry" THEN "top" ELSE "e_check"

BleEnable(a) ==
    /\ At(a, "enable")
    /\ lastErr' = IF connBit THEN "link" ELSE "ok"
    /\ Goto(a, IF connBit \/ bleOn THEN AfterEnable(a) ELSE "init")
    /\ UNCHANGED <<wifi, modes, bleOn, mqttSet, mqttOn, aborted, cred, bounds>>

\* nimble_port_init() and the start of the host task; it may fail.
BleInit(a) ==
    /\ At(a, "init") /\ NoStepReady
    /\ \/ ~bleOn /\ bleOn' = TRUE /\ UNCHANGED <<lastErr, excused>>
       \/ lastErr' = "init" /\ excused' = TRUE /\ UNCHANGED bleOn
    /\ Goto(a, AfterEnable(a))
    /\ UNCHANGED <<wifi, modes, mqttSet, mqttOn, aborted, cred, radioCount, uiCount>>

EnsureFailed(a) ==
    /\ At(a, "e_check") /\ lastErr # "ok"
    /\ mqttOn' = (mqttOn \/ mqttSet)
    /\ Goto(a, "giveup")
    /\ UNCHANGED <<wifi, modes, bleOn, lastErr, mqttSet, aborted, cred, bounds>>

EnsureGiveUp(a) ==
    /\ At(a, "giveup")
    /\ fallback' = FALSE
    /\ Goto(a, Done(a))
    /\ UNCHANGED <<wifi, retryRun, postRun, manualOff, menu, links, aborted, cred, bounds>>

\* Mutant: the retry task is started by the event task only.
EnsureSpawnEventOnly(a) ==
    /\ At(a, "e_check") /\ lastErr = "ok"
    /\ IF retryRun \/ a = "boot"
       THEN UNCHANGED retryRun /\ Goto(a, Done(a))
       ELSE /\ retryRun' = TRUE
            /\ pc' = [pc EXCEPT ![a] = Done(a), !["retry"] = "top"]
    /\ UNCHANGED <<wifi, fallback, postRun, manualOff, menu, links, aborted, cred, bounds>>

EnsureSpawn(a) ==
    /\ At(a, "e_check") /\ lastErr = "ok"
    /\ IF retryRun
       THEN UNCHANGED retryRun /\ Goto(a, Done(a))
       ELSE /\ retryRun' = TRUE
            /\ pc' = [pc EXCEPT ![a] = Done(a), !["retry"] = "top"]
    /\ UNCHANGED <<wifi, fallback, postRun, manualOff, menu, links, aborted, cred, bounds>>

-----------------------------------------------------------------------------
(* wifi_prefer_retry_task and post_connect_task.                           *)

RetryTop ==
    /\ At("retry", "top")
    /\ Goto("retry", IF fallback THEN "sleep" ELSE "fin")
    /\ UNCHANGED <<wifi, modes, links, aborted, cred, bounds>>

\* Mutant: no attempt is made while the BLE bridge is in use.
RetryWakeBusy ==
    /\ At("retry", "sleep") /\ SecondsPass
    /\ Goto("retry", IF ~fallback THEN "fin" ELSE IF manualOff \/ bleOn THEN "top" ELSE "disable")
    /\ UNCHANGED <<wifi, modes, links, aborted, cred, bounds>>

\* After the delay of 20 s.
RetryWake ==
    /\ At("retry", "sleep") /\ SecondsPass
    /\ Goto("retry", IF ~fallback THEN "fin" ELSE IF manualOff THEN "top" ELSE "disable")
    /\ UNCHANGED <<wifi, modes, links, aborted, cred, bounds>>

\* ble_uart_disable(), by the retry task and the post-connect task.
BleDisable(a) ==
    /\ At(a, "disable") /\ NoStepReady
    /\ bleOn' = FALSE
    /\ Goto(a, "resume")
    /\ UNCHANGED <<wifi, modes, lastErr, mqttSet, mqttOn, aborted, cred, bounds>>

\* mqtt_rt_resume(): without a configuration it does nothing.
ResumeMqtt(a) ==
    /\ At(a, "resume")
    /\ mqttOn' = (mqttOn \/ mqttSet)
    /\ Goto(a, IF a = "retry" THEN TryFrom(a) ELSE "end")
    /\ UNCHANGED <<wifi, modes, bleOn, lastErr, mqttSet, aborted, cred, bounds>>

RetryWon ==
    /\ At("retry", "won")
    /\ fallback' = FALSE
    /\ Goto("retry", "fin")
    /\ UNCHANGED <<wifi, retryRun, postRun, manualOff, menu, links, aborted, cred, bounds>>

RetryEnd ==
    /\ At("retry", "fin")
    /\ retryRun' = FALSE
    /\ Goto("retry", "off")
    /\ UNCHANGED <<wifi, fallback, postRun, manualOff, menu, links, aborted, cred, bounds>>

PostBegin ==
    /\ At("post", "begin")
    /\ fallback' = FALSE
    /\ Goto("post", "ready")
    /\ UNCHANGED <<wifi, retryRun, postRun, manualOff, menu, links, aborted, cred, bounds>>

PostReady ==
    /\ At("post", "ready")
    /\ Goto("post", IF bleOn THEN "disable" ELSE "end")
    /\ UNCHANGED <<wifi, modes, links, aborted, cred, bounds>>

PostEnd ==
    /\ At("post", "end")
    /\ postRun' = FALSE
    /\ Goto("post", "off")
    /\ UNCHANGED <<wifi, fallback, retryRun, manualOff, menu, links, aborted, cred, bounds>>

-----------------------------------------------------------------------------
(* Boot, the Wi-Fi setting screen, and the start of MQTT.                  *)

\* WiFi::main after the driver is up: stop the radio if Wi-Fi was switched off
\* by hand, else try the saved credentials.
Boot ==
    /\ At("boot", "start")
    /\ IF manualOff
       THEN /\ radio' = "stopped" /\ menu' = TRUE
            /\ Goto("boot", "off")
       ELSE UNCHANGED <<radio, menu>> /\ Goto("boot", TryFrom("boot"))
    /\ UNCHANGED <<connBit, failBit, reconf, retryNum, opMutex, configured, events, fallback,
                   retryRun, postRun, manualOff, links, aborted, cred, bounds>>

UiUse ==
    /\ SecondsPass /\ menu /\ pc["ui"] = "off"
    /\ uiCount < MaxUi /\ uiCount' = uiCount + 1

\* A network is chosen and its password entered.
UiConnect ==
    /\ UiUse
    /\ Goto("ui", "lock")
    /\ UNCHANGED <<wifi, modes, links, aborted, cred, radioCount, excused>>

\* The Wi-Fi ON/OFF item.
UiOff ==
    /\ UiUse /\ ~manualOff
    /\ manualOff' = TRUE
    /\ radio' = "stopped" /\ events' = DiscEvents
    /\ UNCHANGED <<connBit, failBit, reconf, retryNum, opMutex, configured, fallback, retryRun,
                   postRun, menu, links, aborted, pc, cred, radioCount, excused>>

\* Start and connect; the errors of both are only logged.  A driver that was
\* never given a network (WiFi::main of a boot with Wi-Fi off gives it none)
\* is started and stays idle.
UiOn ==
    /\ UiUse /\ manualOff
    /\ manualOff' = FALSE
    /\ radio' = IF radio \notin {"stopped", "idle"} THEN radio
                ELSE IF configured THEN "connecting" ELSE "idle"
    /\ UNCHANGED <<connBit, failBit, reconf, retryNum, opMutex, configured, events, fallback,
                   retryRun, postRun, menu, links, aborted, pc, cred, radioCount, excused>>

\* http_get_notifications_task, once Wi-Fi is up: configure and start MQTT.
NotifStart ==
    /\ ~aborted /\ menu /\ connBit /\ ~mqttSet
    /\ mqttSet' = TRUE /\ mqttOn' = TRUE
    /\ UNCHANGED <<wifi, modes, bleOn, lastErr, aborted, pc, cred, bounds>>

-----------------------------------------------------------------------------
ConnectStep(a) ==
    \/ SetStaBegin(a) \/ SetStaDisconnect(a) \/ SetStaConnect(a)
    \/ WaitConnected(a) \/ WaitFailed(a)
EnsureStep(a) ==
    \/ EnsureClaim(a) \/ EnsureClear(a) \/ EnsureFailed(a) \/ EnsureGiveUp(a) \/ EnsureSpawn(a)
EnableStep(a) == PauseMqtt(a) \/ BleEnable(a) \/ BleInit(a)
LeaveStep(a) == BleDisable(a) \/ ResumeMqtt(a)

EventStep == EventGotIp \/ EventDisconnected \/ EventReconnect
                \/ EnsureStep("event") \/ EnableStep("event")
BootStep  == Boot \/ ConnectStep("boot") \/ EnsureStep("boot") \/ EnableStep("boot")
RetryStep == RetryTop \/ RetryWake \/ RetryWon \/ RetryEnd
                \/ ConnectStep("retry") \/ EnableStep("retry") \/ LeaveStep("retry")
PostStep  == PostBegin \/ PostReady \/ PostEnd \/ LeaveStep("post")
UiStep    == ConnectStep("ui")
RadioStep == RadioLink \/ RadioFail \/ RadioDrop

Next == EventStep \/ BootStep \/ RetryStep \/ PostStep \/ UiStep \/ RadioStep
           \/ UiConnect \/ UiOff \/ UiOn \/ NotifStart

Spec == Init /\ [][Next]_vars

\* Tasks are scheduled.  Nothing is assumed of the radio or the user.
Fairness ==
    WF_vars(EventStep) /\ WF_vars(BootStep) /\ WF_vars(RetryStep)
       /\ WF_vars(PostStep) /\ WF_vars(UiStep)
FairSpec == Spec /\ Fairness

-----------------------------------------------------------------------------
Lines == {"off", "start", "lock", "disc", "conn", "wait", "idle", "reconnect",
          "ensure", "clear", "e_pause", "pause", "enable", "init", "e_check", "giveup",
          "top", "sleep", "disable", "resume", "won", "fin", "begin", "ready", "end"}

\* Every variable holds a value of its kind.
TypeOK ==
    /\ connBit \in BOOLEAN /\ failBit \in BOOLEAN /\ reconf \in BOOLEAN /\ fallback \in BOOLEAN
    /\ retryRun \in BOOLEAN /\ postRun \in BOOLEAN /\ manualOff \in BOOLEAN
    /\ bleOn \in BOOLEAN /\ mqttSet \in BOOLEAN /\ mqttOn \in BOOLEAN /\ menu \in BOOLEAN
    /\ aborted \in BOOLEAN /\ excused \in BOOLEAN /\ configured \in BOOLEAN
    /\ retryNum \in 0..MaxRetry
    /\ opMutex \in Actors \cup {"none"}
    /\ lastErr \in {"ok", "link", "init"}
    /\ radio \in {"stopped", "idle", "connecting", "linked"}
    /\ events \in Seq({"gotip", "disc"})
    /\ pc \in [Actors -> Lines]
    /\ cred \in [Actors -> 1..(NCreds + 1)]
    /\ radioCount \in 0..MaxRadio /\ uiCount \in 0..MaxUi

\* Nothing is in progress: no task has a step to make before the radio does
\* something, the user does, or the delay of 20 s of the retry task is over.
Settled ==
    /\ ~aborted /\ events = <<>> /\ pc["event"] = "idle"
    /\ pc["boot"] = "off" /\ pc["post"] = "off" /\ pc["ui"] = "off"
    /\ pc["retry"] \in {"off", "sleep"}
    /\ radio # "connecting"

\* The device started with Wi-Fi off and has been given no network since: the
\* ON item of the screen cannot connect it, and starts no recovery either.
Blank == menu /\ ~configured

\* A device that is offline with nothing in progress, and was not switched
\* off, has a retry task that will try again.  Excused are the two ways the
\* code can lose its recovery: the BLE host could not be started (then
\* ensure_ble_fallback_enabled gives up the fallback), or a link dropped
\* before the tasks were done with its GOT_IP (then post_connect_task clears
\* the fallback of a device that is offline again).  The third is Blank.
OfflineHasRecovery ==
    Settled /\ radio = "idle" /\ ~manualOff /\ ~excused /\ ~Blank => pc["retry"] = "sleep"

\* WIFI_CONNECTED_BIT, which the whole firmware reads as "Wi-Fi is up", agrees
\* with the radio once the events are handled, whatever reconfigurations,
\* fallbacks and late events came before.  It is about a boot that ended with
\* the menu: ensure_ble_fallback_enabled called by boot may clear the bit
\* after a late GOT_IP.
BitTracksLink == Settled /\ menu => (connBit <=> radio = "linked")

\* While the fallback is active Wi-Fi is tried again and again, until it is
\* back or was switched off.
RetriesContinue ==
    (fallback /\ pc["retry"] = "sleep")
       ~> (radio = "connecting" \/ ~fallback \/ manualOff \/ aborted)
=============================================================================
