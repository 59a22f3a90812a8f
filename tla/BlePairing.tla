---------------------------- MODULE BlePairing ----------------------------
(***************************************************************************)
(* Bluetooth pairing by hand: the dialog run_bluetooth_pairing of the      *)
(* settings (dialog_runners.hpp) over bluetooth_pairing_service.hpp.       *)
(* Starting it stops Wi-Fi and MQTT and enables BLE for a window of 120 s; *)
(* the end of it undoes that.  The service keeps its state under NVS keys, *)
(* so it outlives the dialog; the keys begin with ble_, which nvs_rw.hpp   *)
(* keeps in RAM, so it does not outlive a reset (wifi_manual_off does).    *)
(*                                                                         *)
(* Around it, as far as they touch the same state: the Wi-Fi events and    *)
(* post_connect_task of wifi.hpp, its BLE fallback and retry (in one step  *)
(* each; their own interleavings are the business of WifiBle), the Wi-Fi   *)
(* ON/OFF item, the phone, the radio and a reset at any point.             *)
(*                                                                         *)
(* Steps of tasks interleave; the radio, a slow call, the user and the     *)
(* clock do something only when no task has a fast step to make.           *)
(***************************************************************************)
EXTENDS Integers, Sequences

CONSTANTS
  Hosts,     \* BLE hosts: nimble (ready once up), bluedroid (with a phone)
  MaxRetry,  \* EXAMPLE_ESP_MAXIMUM_RETRY
  Window,    \* the 120 s, in ticks
  MaxTime,   \* bound: ticks in one boot
  MaxUses,   \* bound: uses of the dialog's toggle and the ON/OFF item
  MaxRadio,  \* bound: radio events
  MaxBoots   \* bound: resets

ASSUME BlePairingAssumption ==
  /\ Hosts \subseteq {"nimble", "bluedroid"}
  /\ {MaxRetry, Window, MaxTime, MaxUses, MaxRadio, MaxBoots} \subseteq Nat

VARIABLES
  host,
  pair, exp,   \* ble_pair, ble_exp_us
  rst, off,    \* ble_wifi_rst; wifi_manual_off, in flash
  memPair, memExp, \* pairing_state of the open dialog
  dialog,          \* where the dialog is
  post,        \* where post_connect_task is
  now,         \* ticks since boot
  station, connBit, events, retryNum,
  bleOn, peer, \* the stack is up; a phone is connected and subscribed
  bleErr,     \* ble_uart_last_err() # 0
  paused,     \* mqtt_rt_pause()
  stranded,   \* history: paused by a retry after which BLE did not start
  fallback,    \* s_ble_fallback_active
  byPairing,   \* history: pairing stopped the radio, and nothing started it
  uses, radioCount, boots

stored == <<pair, exp, rst, off>>
mem == <<memPair, memExp>>
wifiVars == <<station, connBit, events, retryNum>>
ble == <<bleOn, peer, bleErr>>
bounds == <<uses, radioCount, boots>>
mqtt == <<paused, stranded>>
pairVars == <<host, stored, mem, dialog, post, now, wifiVars, ble, mqtt,
              fallback, byPairing, bounds>>

Slow == {"x_disable", "enable", "enable0", "s_disable", "f_disable"}
AtRest == {"closed", "input"}
NoStepReady == events = <<>> /\ post \in {"off", "disable"} /\ dialog \in AtRest \cup Slow
SecondsPass == events = <<>> /\ post = "off" /\ dialog \in AtRest

PairInit ==
  /\ host \in Hosts
  /\ pair = FALSE /\ exp = 0 /\ rst = FALSE /\ off = FALSE
  /\ memPair = FALSE /\ memExp = 0 /\ dialog = "closed" /\ post = "off" /\ now = 0
  /\ station = "connecting" /\ connBit = FALSE /\ events = <<>> /\ retryNum = 0
  /\ bleOn = FALSE /\ peer = FALSE /\ bleErr = FALSE
  /\ paused = FALSE /\ stranded = FALSE /\ fallback = FALSE /\ byPairing = FALSE
  /\ uses = 0 /\ radioCount = 0 /\ boots = 0

BleReady == IF host = "nimble" THEN bleOn ELSE bleOn /\ peer
Started == IF station \in {"stopped", "idle"} THEN "connecting" ELSE station
Pause == paused' = TRUE /\ stranded' = FALSE
Resumes == paused' = FALSE /\ stranded' = FALSE
Disc == IF station \in {"connecting", "linked"} THEN <<"disc">> ELSE <<>>

---------------------------------------------------------------------------
(* bluetooth_pairing_service.hpp.                                          *)

(* persist_state of a state with these values.                             *)
Persist(p, e) == pair' = p /\ exp' = e
Keep(p, e) == memPair' = p /\ memExp' = e

(* normalize_state: a window that is over ends the pairing.                *)
Expired(p, e) == p /\ e <= now
Normalize(p, e) ==
  IF Expired(p, e) THEN Keep(FALSE, e) /\ Persist(FALSE, e)
  ELSE Keep(p, e) /\ UNCHANGED <<pair, exp>>

(* Mutant: the flag is forgotten before it is read.                        *)
RestoreWifiForgets == rst' = FALSE /\ UNCHANGED <<station, byPairing>>

(* restore_wifi_if_needed.                                                 *)
RestoreWifi ==
  IF rst
  THEN rst' = FALSE /\ station' = Started /\ byPairing' = FALSE
  ELSE UNCHANGED <<rst, station, byPairing>>

(* disable_wifi_for_pairing, before the wait for the link to go.           *)
DisableWifi(had) ==
  /\ rst' = had
  /\ IF had
     THEN /\ station' = "stopped" /\ connBit' = FALSE /\ events' = events \o Disc
          /\ byPairing' = TRUE
     ELSE UNCHANGED <<station, connBit, events, byPairing>>

(* ble_uart_disable and ble_uart_enable; the latter refuses while Wi-Fi    *)
(* has a link, and its start may fail.                                     *)
BleDisable == bleOn' = FALSE /\ peer' = FALSE /\ UNCHANGED bleErr
BleEnable ==
  \/ connBit /\ bleErr' = TRUE /\ UNCHANGED <<bleOn, peer>>
  \/ ~connBit /\ bleOn' = TRUE /\ bleErr' = FALSE /\ UNCHANGED peer
  \/ ~connBit /\ ~bleOn /\ bleErr' = TRUE /\ UNCHANGED <<bleOn, peer>>

---------------------------------------------------------------------------
(* The dialog.                                                             *)

Goto(l) == dialog' = l
DialogAt(l) == dialog = l
AtSlow(l) == dialog = l /\ NoStepReady

Open ==
  /\ DialogAt("closed") /\ SecondsPass
  /\ Normalize(pair, exp)
  /\ Goto(IF pair /\ ~Expired(pair, exp) THEN "enable0" ELSE "top")
  /\ UNCHANGED <<host, rst, off, post, now, wifiVars, ble, mqtt, fallback,
                 byPairing, bounds>>

(* A pairing found on opening is enabled again; an error is not looked at. *)
OpenEnable ==
  /\ AtSlow("enable0") /\ BleEnable /\ Goto("top")
  /\ UNCHANGED <<host, stored, mem, post, now, wifiVars, mqtt, fallback,
                 byPairing, bounds>>

(* Mutant: the expiry is looked at on opening only.                        *)
TopStale ==
  /\ DialogAt("top")
  /\ Goto(IF ~memPair /\ BleReady THEN "x_disable" ELSE "input")
  /\ UNCHANGED <<host, stored, mem, post, now, wifiVars, ble, mqtt,
                 fallback, byPairing, bounds>>

(* The head of the loop: an expired pairing is taken down.                 *)
Top ==
  /\ DialogAt("top")
  /\ Normalize(memPair, memExp)
  /\ Goto(IF ~memPair' /\ BleReady THEN "x_disable" ELSE "input")
  /\ UNCHANGED <<host, rst, off, post, now, wifiVars, ble, mqtt, fallback,
                 byPairing, bounds>>

(* ble_uart_disable(), restore_wifi_if_needed(), mqtt_resume(), in that    *)
(* order, at the end of a window (x), of a stop by hand (s) and of a start *)
(* that failed (f), which then leaves the dialog.                          *)
Disable(l, next) ==
  /\ AtSlow(l) /\ BleDisable /\ Goto(next)
  /\ UNCHANGED <<host, stored, mem, post, now, wifiVars, mqtt, fallback,
                 byPairing, bounds>>

Restore(l, next) ==
  /\ DialogAt(l) /\ RestoreWifi /\ Goto(next)
  /\ UNCHANGED <<host, pair, exp, off, mem, post, now, connBit, events,
                 retryNum, ble, mqtt, fallback, bounds>>

Resume(l, next) ==
  /\ DialogAt(l) /\ Resumes /\ Goto(next)
  /\ UNCHANGED <<host, stored, mem, post, now, wifiVars, ble, fallback,
                 byPairing, bounds>>

Expire == \/ Disable("x_disable", "x_restore") \/ Restore("x_restore", "x_resume")
          \/ Resume("x_resume", "input")

(* Input: nothing, Exit, or the toggle.                                    *)
PollDialog ==
  /\ DialogAt("input") /\ SecondsPass
  /\ (memPair /\ memExp <= now) \/ (~memPair /\ BleReady)
  /\ Goto("top")
  /\ UNCHANGED <<host, stored, mem, post, now, wifiVars, ble, mqtt,
                 fallback, byPairing, bounds>>

Exit ==
  /\ DialogAt("input") /\ SecondsPass
  /\ Goto("closed")
  /\ UNCHANGED <<host, stored, mem, post, now, wifiVars, ble, mqtt,
                 fallback, byPairing, bounds>>

Use == SecondsPass /\ uses < MaxUses /\ uses' = uses + 1

ToggleOn ==
  /\ DialogAt("input") /\ Use /\ ~memPair /\ now + Window <= MaxTime
  /\ DisableWifi(connBit)
  /\ Goto("start")
  /\ UNCHANGED <<host, pair, exp, off, mem, post, now, retryNum, ble, mqtt,
                 fallback, radioCount, boots>>

Start ==
  /\ DialogAt("start")
  /\ Keep(TRUE, now + Window) /\ Persist(TRUE, now + Window)
  /\ Goto("pause")
  /\ UNCHANGED <<host, rst, off, post, now, wifiVars, ble, mqtt, fallback,
                 byPairing, bounds>>

PauseMqtt ==
  /\ DialogAt("pause") /\ Pause /\ Goto("enable")
  /\ UNCHANGED <<host, stored, mem, post, now, wifiVars, ble, fallback,
                 byPairing, bounds>>

Enable ==
  /\ AtSlow("enable") /\ BleEnable
  /\ Goto(IF bleErr' THEN "f_stop" ELSE "top")
  /\ UNCHANGED <<host, stored, mem, post, now, wifiVars, mqtt, fallback,
                 byPairing, bounds>>

(* stop_pairing: the state first, then BLE.                                *)
Stop(l, next) ==
  /\ DialogAt(l)
  /\ Keep(FALSE, memExp) /\ Persist(FALSE, memExp)
  /\ Goto(next)
  /\ UNCHANGED <<host, rst, off, post, now, wifiVars, ble, mqtt, fallback,
                 byPairing, bounds>>

(* Mutant: a start that failed leaves at once.                             *)
StartFailedLeaves == Stop("f_stop", "closed")

StartFailed ==
  \/ Stop("f_stop", "f_disable") \/ Disable("f_disable", "f_restore")
  \/ Restore("f_restore", "f_resume") \/ Resume("f_resume", "closed")

ToggleOff ==
  /\ DialogAt("input") /\ Use /\ memPair
  /\ Goto("s_stop")
  /\ UNCHANGED <<host, stored, mem, post, now, wifiVars, ble, mqtt,
                 fallback, byPairing, radioCount, boots>>

StopByHand ==
  \/ Stop("s_stop", "s_disable") \/ Disable("s_disable", "s_restore")
  \/ Restore("s_restore", "s_resume") \/ Resume("s_resume", "top")

---------------------------------------------------------------------------
(* The Wi-Fi manager.                                                      *)

Radio(from, to, e) ==
  /\ NoStepReady /\ radioCount < MaxRadio /\ station = from
  /\ station' = to /\ events' = Append(events, e) /\ radioCount' = radioCount + 1
  /\ UNCHANGED <<host, stored, mem, dialog, post, now, connBit, retryNum, ble,
                 mqtt, fallback, byPairing, uses, boots>>
RadioEvent == \/ Radio("connecting", "linked", "gotip")
              \/ Radio("connecting", "idle", "disc") \/ Radio("linked", "idle", "disc")

EventGotIp ==
  /\ events # <<>> /\ Head(events) = "gotip" /\ events' = Tail(events)
  /\ connBit' = TRUE /\ retryNum' = 0
  /\ post' = IF post = "off" THEN "begin" ELSE post
  /\ UNCHANGED <<host, stored, mem, dialog, now, station, ble, mqtt,
                 fallback, byPairing, bounds>>

(* Reconnect, unless Wi-Fi is off, held off by a pairing that is stored,   *)
(* or left to the fallback; after the last try, fall back.                 *)
Forced == pair \/ off
EventDisconnected ==
  /\ events # <<>> /\ Head(events) = "disc" /\ events' = Tail(events)
  /\ connBit' = FALSE
  /\ IF fallback THEN UNCHANGED <<station, retryNum, fallback, mqtt, ble>>
     ELSE IF retryNum < MaxRetry
     THEN /\ UNCHANGED <<fallback, mqtt, ble>>
          /\ IF Forced THEN UNCHANGED <<station, retryNum>>
             ELSE /\ station' = (IF station = "idle" THEN "connecting" ELSE station)
                  /\ retryNum' = retryNum + 1
     ELSE /\ UNCHANGED <<station, retryNum>>
          /\ IF Forced THEN UNCHANGED <<fallback, mqtt, ble>>
             ELSE \/ fallback' = TRUE /\ Pause /\ bleOn' = TRUE
                     /\ bleErr' = FALSE /\ UNCHANGED peer
                  \/ bleErr' = TRUE /\ Resumes
                     /\ UNCHANGED <<fallback, bleOn, peer>>
  /\ UNCHANGED <<host, stored, mem, dialog, post, now, byPairing, bounds>>

(* wifi_prefer_retry_task: leave BLE, resume MQTT and try again.  After a  *)
(* try that failed it pauses MQTT and enables BLE, whose error is only     *)
(* logged; and the link may come after the last look at it, so that        *)
(* post_connect_task is over before the pause and BLE refuses to start.    *)
RetryWifi ==
  /\ SecondsPass /\ fallback /\ ~Forced /\ station # "linked"
  /\ radioCount < MaxRadio /\ radioCount' = radioCount + 1
  /\ peer' = FALSE
  /\ \/ /\ station' = "linked" /\ events' = <<"gotip">> /\ fallback' = FALSE
        /\ bleOn' = FALSE /\ Resumes /\ UNCHANGED <<bleErr, connBit, retryNum>>
     \/ /\ station' = "idle" /\ UNCHANGED <<events, fallback, connBit, retryNum>>
        /\ \/ Pause /\ bleOn' = TRUE /\ bleErr' = FALSE
           \/ paused' = TRUE /\ stranded' = TRUE /\ bleOn' = FALSE /\ bleErr' = TRUE
     \/ /\ station' = "linked" /\ connBit' = TRUE /\ retryNum' = 0 /\ fallback' = FALSE
        /\ bleOn' = FALSE /\ bleErr' = TRUE /\ paused' = TRUE /\ stranded' = TRUE
        /\ UNCHANGED events
  /\ UNCHANGED <<host, stored, mem, dialog, post, now, byPairing, uses, boots>>

(* post_connect_task clears the stored copy, not the dialog's.             *)
PostBegin ==
  /\ post = "begin" /\ fallback' = FALSE
  /\ post' = IF BleReady THEN "disable" ELSE "off"
  /\ UNCHANGED <<host, stored, mem, dialog, now, wifiVars, ble, mqtt,
                 byPairing, bounds>>

PostDisable ==
  /\ post = "disable" /\ NoStepReady
  /\ BleDisable /\ post' = "resume"
  /\ UNCHANGED <<host, stored, mem, dialog, now, wifiVars, mqtt, fallback,
                 byPairing, bounds>>

PostResume ==
  /\ post = "resume"
  /\ Resumes /\ pair' = FALSE /\ exp' = 0 /\ post' = "off"
  /\ UNCHANGED <<host, rst, off, mem, dialog, now, wifiVars, ble, fallback,
                 byPairing, bounds>>

---------------------------------------------------------------------------
(* The Wi-Fi ON/OFF item, the phone, the clock and a reset.                *)

WifiOnOff ==
  /\ DialogAt("closed") /\ Use
  /\ off' = ~off
  /\ IF off
     THEN station' = Started /\ events' = events /\ byPairing' = FALSE
     ELSE station' = "stopped" /\ events' = events \o Disc /\ UNCHANGED byPairing
  /\ UNCHANGED <<host, pair, exp, rst, mem, dialog, post, now, connBit,
                 retryNum, ble, mqtt, fallback, radioCount, boots>>

Phone ==
  /\ SecondsPass /\ bleOn /\ peer' = ~peer
  /\ UNCHANGED <<host, stored, mem, dialog, post, now, wifiVars, bleOn,
                 bleErr, mqtt, fallback, byPairing, bounds>>

Tick ==
  /\ SecondsPass /\ now < MaxTime /\ now' = now + 1
  /\ UNCHANGED <<host, stored, mem, dialog, post, wifiVars, ble, mqtt,
                 fallback, byPairing, bounds>>

(* WiFi::main starts the radio and tries to connect, unless Wi-Fi was      *)
(* switched off by hand.                                                   *)
Reset ==
  /\ boots < MaxBoots /\ boots' = boots + 1
  /\ pair' = FALSE /\ exp' = 0 /\ rst' = FALSE
  /\ station' = (IF off THEN "stopped" ELSE "connecting")
  /\ memPair' = FALSE /\ memExp' = 0 /\ dialog' = "closed" /\ post' = "off" /\ now' = 0
  /\ connBit' = FALSE /\ events' = <<>> /\ retryNum' = 0
  /\ bleOn' = FALSE /\ peer' = FALSE /\ bleErr' = FALSE
  /\ Resumes /\ fallback' = FALSE /\ byPairing' = FALSE
  /\ UNCHANGED <<host, off, uses, radioCount>>

---------------------------------------------------------------------------
DialogStep ==
  \/ OpenEnable \/ Top \/ Expire \/ Start \/ PauseMqtt \/ Enable
  \/ StartFailed \/ StopByHand \/ PollDialog
EventStep == EventGotIp \/ EventDisconnected
PostStep == PostBegin \/ PostDisable \/ PostResume

PairNext ==
  \/ Open \/ Exit \/ ToggleOn \/ ToggleOff \/ DialogStep
  \/ RadioEvent \/ EventStep \/ RetryWifi \/ PostStep
  \/ WifiOnOff \/ Phone \/ Tick \/ Reset

(* Tasks are scheduled and time passes; nothing is assumed of the user,    *)
(* the phone and the radio.                                                *)
Fairness == WF_pairVars(DialogStep) /\ WF_pairVars(EventStep) /\ WF_pairVars(PostStep) /\ WF_pairVars(Tick)
PairSpec == PairInit /\ [][PairNext]_pairVars /\ Fairness

---------------------------------------------------------------------------
(* Properties.                                                             *)

PairTypeOK ==
  /\ {pair, rst, off, memPair, connBit, bleOn, peer, bleErr, paused, stranded,
      fallback, byPairing} \subseteq BOOLEAN
  /\ {exp, memExp, now} \subseteq 0..MaxTime /\ retryNum \in 0..MaxRetry
  /\ station \in {"stopped", "idle", "connecting", "linked"}

(* README.md:33: Wi-Fi stopped for a pairing is started again.  When the   *)
(* dialog shows that no pairing is on, it is not stopped on the pairing's  *)
(* account, however the pairing ended: by hand, by expiry, because BLE did *)
(* not start, because Wi-Fi came back, or in an earlier opening of the     *)
(* dialog.  With Bluedroid it is not so: BLE without a phone is not ready, *)
(* and dialog_runners.hpp:298 leaves it on and Wi-Fi stopped.              *)
WifiGivenBack ==
  host = "nimble" => (DialogAt("input") /\ ~memPair /\ ~BleReady => ~byPairing)

(* MQTT is paused only while BLE is up, or a dialog or the fallback has it *)
(* on its hands: no order of expiry, stop, failed start, reconnection and  *)
(* fallback leaves a device without BLE and without MQTT.  The exception   *)
(* is wifi.hpp:200-205: after a failed retry MQTT is paused, and BLE may   *)
(* not come up; what resumes MQTT later ends it.                           *)
MqttGivenBack == SecondsPass /\ paused => bleOn \/ stranded

(* A pairing seen by the dialog is taken down when its window is over, for *)
(* as long as the dialog stays open and the user leaves it alone (NimBLE,  *)
(* for the same reason).                                                   *)
WindowEnds ==
  (host = "nimble" /\ DialogAt("input") /\ memPair /\ byPairing)
    ~> (~byPairing \/ DialogAt("closed"))
===========================================================================
