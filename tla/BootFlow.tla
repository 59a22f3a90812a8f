------------------------------ MODULE BootFlow ------------------------------
(***************************************************************************)
(* The way from reset to the first screen: app_main of main/main.cpp, with *)
(* the four marks it keeps in RTC memory across a restart, the keys of NVS *)
(* it reads, the first set-up, the confirmation of a new image, and the    *)
(* two ways the firmware update of module OtaUpdate is run: in a boot of   *)
(* its own ("OTA-minimal mode") and by a task behind the menu.             *)
(*                                                                         *)
(* A reset by panic or watchdog keeps RTC memory, a loss of power does     *)
(* not; NVS and the flash survive both.  Keys of NVS that begin with ble_  *)
(* are kept in RAM (nvs_rw.hpp) and do not survive.  The screens behind    *)
(* the menu and the Wi-Fi manager have modules of their own; here the      *)
(* connection is a bit that comes and goes.                                *)
(***************************************************************************)
EXTENDS OtaUpdate

CONSTANT MaxResets  \* bound: resets nobody asked for

ASSUME ResetsAssumption == MaxResets \in Nat

VARIABLES
    pc,         \* where app_main is
    rtc,        \* the marks that are set: frst, otam, prsb, dbo1
    nvs,        \* user: user_name is stored; setup: fr_setup_mode = "1"; off:
                \* wifi_manual_off = "1"; auto: ota_auto = "true"; known: there are
                \* credentials
    defer,      \* ble_auto_dfr1
    ble,        \* the BLE fallback was started at this boot
    bleOnly,
    link,       \* WIFI_CONNECTED_BIT
    validator,  \* the task ota_mark_valid
    background, \* the task ota_bg_task exists
    confirmed,  \* history: the slot last marked valid
    resets

bootVars == <<pc, rtc, nvs, defer, ble, bleOnly, link, validator, background, confirmed, resets>>
vars     == <<otaVars, bootVars>>

Blank  == [user |-> FALSE, setup |-> FALSE, off |-> FALSE, auto |-> FALSE, known |-> FALSE]
Marks  == {"frst", "otam", "prsb", "dbo1"}
Screens == {"profile", "menu"}
\* A boot without a network stays in the loop of main.cpp:562-566, which shows nothing.
Ended == Screens \cup {"bleonly"}

Init ==
    /\ OtaInit
    /\ pc = "start" /\ rtc = {} /\ nvs = Blank /\ defer = FALSE
    /\ ble = FALSE /\ bleOnly = FALSE /\ link = FALSE
    /\ validator = "none" /\ background = FALSE
    /\ confirmed = "factory" /\ resets = 0

-----------------------------------------------------------------------------
Go(from, to) == pc = from /\ pc' = to

\* A restart loses all RAM and lets the bootloader choose the slot.
Restart ==
    /\ pc' = "start" /\ BootImage
    /\ defer' = FALSE /\ ble' = FALSE /\ bleOnly' = FALSE /\ link' = FALSE
    /\ validator' = "none" /\ background' = FALSE
    /\ ota' = "idle" /\ attempt' = 0 /\ retries' = 0 /\ offset' = 0
    /\ range' = [from |-> 0, at |-> 0, end |-> 0]
    /\ UNCHANGED <<image, target, history, confirmed>>

ram == <<defer, ble, bleOnly, link, validator, background>>

\* Mutant: the mark stays.
TakeResetKeepsMark ==
    /\ Go("start", "erase") /\ "frst" \in rtc
    /\ UNCHANGED <<otaVars, rtc, nvs, ram, confirmed, resets>>

\* handle_factory_reset_if_requested: three steps and a restart; a reset may fall
\* between any two.
TakeReset ==
    /\ Go("start", "erase") /\ "frst" \in rtc /\ rtc' = rtc \ {"frst"}
    /\ UNCHANGED <<otaVars, nvs, ram, confirmed, resets>>

EraseNvs ==
    /\ Go("erase", "mark") /\ nvs' = Blank
    /\ UNCHANGED <<otaVars, rtc, ram, confirmed, resets>>

MarkSafeBoot ==
    /\ pc = "mark" /\ rtc' = rtc \cup {"prsb", "dbo1"}
    /\ nvs' = [nvs EXCEPT !.setup = TRUE]
    /\ Restart /\ UNCHANGED resets

\* Without a user the device is in set-up mode.
EnterSetup ==
    /\ Go("start", "magics") /\ "frst" \notin rtc
    /\ nvs' = [nvs EXCEPT !.setup = @ \/ ~nvs.user]
    /\ UNCHANGED <<otaVars, rtc, ram, confirmed, resets>>

\* The boot after a factory reset ends in another restart; the one after that defers BLE.
SafeBoot ==
    /\ Go("magics", "safe") /\ "prsb" \in rtc /\ rtc' = rtc \ {"prsb"}
    /\ nvs' = [nvs EXCEPT !.setup = TRUE]
    /\ UNCHANGED <<otaVars, ram, confirmed, resets>>

DeferBle ==
    /\ Go("magics", "mode") /\ "prsb" \notin rtc
    /\ IF "dbo1" \in rtc
       THEN /\ rtc' = rtc \ {"dbo1"} /\ defer' = TRUE
            /\ nvs' = [nvs EXCEPT !.setup = TRUE]
       ELSE UNCHANGED <<rtc, defer, nvs>>
    /\ UNCHANGED <<otaVars, ble, bleOnly, link, validator, background, confirmed, resets>>

\* OTA-minimal mode, which a safe boot would enter as well: Wi-Fi, 30 s for the
\* connection, the update, and a restart whatever came of it.
EnterOtaMinimal ==
    /\ pc \in {"mode", "safe"} /\ pc' = "otawifi"
    /\ "otam" \in rtc /\ rtc' = rtc \ {"otam"}
    /\ nvs' = [nvs EXCEPT !.off = FALSE]
    /\ UNCHANGED <<otaVars, ram, confirmed, resets>>

OtaMinimalWifi ==
    /\ pc = "otawifi"
    /\ \/ nvs.known /\ pc' = "otacheck" /\ link' = TRUE
          /\ UNCHANGED <<otaVars, rtc, nvs, defer, ble, bleOnly, validator, background, confirmed>>
       \/ Restart /\ UNCHANGED <<rtc, nvs>>
    /\ UNCHANGED resets

OtaMinimalCheck ==
    /\ pc = "otacheck"
    /\ \/ CheckUpdate /\ pc' = "otarun"
          /\ UNCHANGED <<rtc, nvs, ram, confirmed>>
       \/ Restart /\ UNCHANGED <<rtc, nvs>>
    /\ UNCHANGED resets

OtaMinimalEnds ==
    /\ pc = "otarun" /\ Idle
    /\ Restart /\ UNCHANGED <<rtc, nvs, resets>>

SafeBootEnds ==
    /\ pc = "safe" /\ "otam" \notin rtc
    /\ Restart /\ UNCHANGED <<rtc, nvs, resets>>

-----------------------------------------------------------------------------
(* WiFi::main, and the branch on its BootResult.                           *)

\* The stack does not start, or no saved network answers: in set-up mode, and once
\* after a factory reset, BLE stays off (kBleDeferred); else it is the fallback.
NoWifi ==
    /\ Go("mode", "bleboot") /\ "otam" \notin rtc
    /\ defer' = FALSE /\ ble' = (~defer /\ ~nvs.setup) /\ bleOnly' = TRUE
    /\ UNCHANGED <<otaVars, rtc, nvs, link, validator, background, confirmed, resets>>

Connected ==
    /\ Go("mode", "app") /\ "otam" \notin rtc
    /\ ~nvs.off /\ nvs.known /\ link' = TRUE
    /\ UNCHANGED <<otaVars, rtc, nvs, defer, ble, bleOnly, validator, background, confirmed, resets>>

ManualOff ==
    /\ Go("mode", "app") /\ "otam" \notin rtc /\ nvs.off
    /\ UNCHANGED <<otaVars, rtc, nvs, ram, confirmed, resets>>

\* profile_setting_task runs the dialog, or returns at once because its stack or its
\* task cannot be made: app_main goes on without a user.
EnsureProfile(next) == pc' \in IF nvs.user THEN {next} ELSE {"profile", next}

\* A boot without network shows the profile dialog if there is no user and nothing else.
BleOnlyBoot ==
    /\ pc = "bleboot" /\ EnsureProfile("bleonly")
    /\ UNCHANGED <<otaVars, rtc, nvs, ram, confirmed, resets>>

\* The other boots start the validation task first.
StartApp ==
    /\ pc = "app" /\ EnsureProfile("tasks")
    /\ validator' = "wait"
    /\ UNCHANGED <<otaVars, rtc, nvs, defer, ble, bleOnly, link, background, confirmed, resets>>

StartMenu ==
    /\ Go("tasks", "menu") /\ background' = nvs.auto
    /\ UNCHANGED <<otaVars, rtc, nvs, defer, ble, bleOnly, link, validator, confirmed, resets>>

-----------------------------------------------------------------------------
(* Behind the screens.                                                     *)

\* profile_setting_task stores the user and then ends set-up mode, in two writes.  The
\* dialog also lets the user choose a network.
ChooseNetwork ==
    /\ pc \in {"profile", "menu"} /\ ~nvs.known
    /\ nvs' = [nvs EXCEPT !.known = TRUE, !.off = FALSE] /\ link' = TRUE
    /\ UNCHANGED <<otaVars, pc, rtc, defer, ble, bleOnly, validator, background, confirmed, resets>>

StoreUser ==
    /\ Go("profile", "stored") /\ link
    /\ nvs' = [nvs EXCEPT !.user = TRUE]
    /\ UNCHANGED <<otaVars, rtc, ram, confirmed, resets>>

EndSetup ==
    /\ pc = "stored" /\ pc' = IF bleOnly THEN "bleonly" ELSE "tasks"
    /\ nvs' = [nvs EXCEPT !.setup = FALSE]
    /\ UNCHANGED <<otaVars, rtc, ram, confirmed, resets>>

LinkChanges ==
    /\ pc \notin {"start", "erase", "mark", "magics", "safe", "mode", "otawifi"}
    /\ nvs.known /\ ~nvs.off /\ link' = ~link
    /\ UNCHANGED <<otaVars, pc, rtc, nvs, defer, ble, bleOnly, validator, background, confirmed, resets>>

\* The screen Wi-Fi settings switches Wi-Fi off and on.
ToggleWifi ==
    /\ pc = "menu" /\ nvs' = [nvs EXCEPT !.off = ~@] /\ link' = FALSE
    /\ UNCHANGED <<otaVars, pc, rtc, defer, ble, bleOnly, validator, background, confirmed, resets>>

\* The validation task after 8 s: an image is confirmed only with a user and a network,
\* and Wi-Fi is stopped around the write.
Validate ==
    /\ validator = "wait"
    /\ IF link /\ ~nvs.setup /\ Pending THEN validator' = "mark" /\ link' = FALSE
       ELSE validator' = "none" /\ UNCHANGED link
    /\ UNCHANGED <<otaVars, pc, rtc, nvs, defer, ble, bleOnly, background, confirmed, resets>>

Mark ==
    /\ validator = "mark" /\ validator' = "none"
    /\ MarkValid /\ confirmed' = running
    /\ UNCHANGED <<image, running, history, ota, download,
                   pc, rtc, nvs, defer, ble, bleOnly, link, background, resets>>

\* The background task looks for an update as long as the key says so.
BackgroundCheck ==
    /\ background /\ nvs.auto /\ link /\ CheckUpdate
    /\ UNCHANGED bootVars

\* The items Auto Update, Update Now and Factory Reset of the settings.
ToggleAutoUpdate ==
    /\ pc = "menu" /\ nvs' = [nvs EXCEPT !.auto = ~@]
    /\ background' = (background \/ nvs'.auto)
    /\ UNCHANGED <<otaVars, pc, rtc, defer, ble, bleOnly, link, validator, confirmed, resets>>

UpdateNow ==
    /\ pc = "menu" /\ rtc' = rtc \cup {"otam"}
    /\ Restart /\ UNCHANGED <<nvs, resets>>

FactoryReset ==
    /\ pc = "menu" /\ rtc' = rtc \cup {"frst"}
    /\ Restart /\ UNCHANGED <<nvs, resets>>

\* do_ota goes on, in the boot of its own or behind the menu, and ends in a restart.
OtaGoesOn == OtaStep /\ UNCHANGED bootVars

OtaRestarts ==
    /\ ota = "restart"
    /\ Restart /\ UNCHANGED <<rtc, nvs, resets>>

\* A panic, a watchdog or a loss of power.
Reset ==
    /\ resets < MaxResets /\ resets' = resets + 1
    /\ rtc' \in {rtc, {}}
    /\ Restart /\ UNCHANGED nvs

-----------------------------------------------------------------------------
BootStep ==
    \/ TakeReset \/ EraseNvs \/ MarkSafeBoot \/ EnterSetup \/ SafeBoot \/ DeferBle
    \/ EnterOtaMinimal \/ OtaMinimalWifi \/ OtaMinimalCheck \/ OtaMinimalEnds
    \/ SafeBootEnds \/ NoWifi \/ Connected \/ ManualOff \/ BleOnlyBoot \/ StartApp
    \/ StartMenu \/ EndSetup

UserStep == ChooseNetwork \/ StoreUser \/ ToggleWifi \/ ToggleAutoUpdate \/ UpdateNow
            \/ FactoryReset

Next ==
    \/ BootStep \/ UserStep \/ OtaGoesOn \/ OtaRestarts \/ BackgroundCheck
    \/ Validate \/ Mark
    \/ Publish /\ UNCHANGED bootVars
    \/ LinkChanges \/ Reset

\* app_main and the update run; nobody presses a button, no network answers by duty.
Spec == Init /\ [][Next]_vars /\ WF_vars(BootStep) /\ WF_vars(OtaGoesOn \/ OtaRestarts)

-----------------------------------------------------------------------------
TypeOK ==
    /\ OtaTypeOK
    /\ pc \in Ended \cup {"start", "erase", "mark", "magics", "safe", "mode", "otawifi",
                "otacheck", "otarun", "bleboot", "app", "tasks", "stored"}
    /\ rtc \subseteq Marks
    /\ nvs \in [user : BOOLEAN, setup : BOOLEAN, off : BOOLEAN, auto : BOOLEAN, known : BOOLEAN]
    /\ defer \in BOOLEAN /\ ble \in BOOLEAN /\ bleOnly \in BOOLEAN /\ link \in BOOLEAN
    /\ background \in BOOLEAN
    /\ validator \in {"none", "wait", "mark"}
    /\ confirmed \in Slots /\ resets \in 0..MaxResets

\* Every block of every image is where it belongs, although ranges break off and are
\* asked for again and attempts start over: a range that is answered by the whole file
\* is written only at the start (ota_client.cpp:320).
InOrder == \A s \in Slots : \A i \in DOMAIN image[s] : image[s][i].at = i

\* When do_ota restarts the device, the bootloader chooses the image it has written
\* (set_boot_partition_unverified computes sequence numbers by hand).
UpdateBoots == ota = "restart" => Selected(otadata) = target

\* As long as only whole images were selected, the image confirmed last is there to go
\* back to: in no state of an update, of a confirmation or of a reset would the device
\* start another one, were the images that are not confirmed refused.
Fallback == Loadable(Selected([i \in Entry |->
    IF otadata[i].state = "new" THEN [otadata[i] EXCEPT !.state = "aborted"] ELSE otadata[i]]))
ConfirmedSurvives == ~badSwitch => Fallback = confirmed /\ Whole(image[confirmed])

\* Every boot, one that erases NVS or updates the firmware included, comes to an end:
\* the marks are taken before what they ask for, so no chain of restarts goes on for
\* ever.  The end is the profile dialog or the menu, or, where no network was found, the
\* bridge to the phone without any screen, from which only a reset leads on.
BootEnds == (pc = "start") ~> (pc \in Ended)
=============================================================================
