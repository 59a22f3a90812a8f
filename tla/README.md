# Mobus: a verification project in TLA+

Mobus is a pocket messenger on an ESP32-S3 (FreeRTOS, two cores, ESP-IDF, C++): Morse
messages between friends over a chat server (HTTPS and MQTT), chat rooms over MQTT, and
a BLE bridge to a phone that takes over when there is no Wi-Fi. What is hard in it is
not any one function but that a dozen tasks and event handlers share global state with
few locks, and that the network, the radio, the server and the battery fail between any
two of their steps. These modules say what that code promises and check it.

Paths below are relative to `src/`; `network/` is `components/services/network/`,
`screens/` is `components/display/src/screens/`.

## 1. Inventory

| component | state it keeps | operations | talks to | what is hard | what makes it correct | module |
|---|---|---|---|---|---|---|
| MQTT runtime (`network/mqtt_runtime.cpp`) | the global `S`: client, connected, topic, listeners, queues | configure, start, stop, update_user, add/remove_listener, pops, publish, `on_event` | called by five kinds of task; `on_event` runs in the client's task | `S` is shared without a lock except the listener vector; API lock against `S.m` | no subscription lost; no deadlock | `MqttRuntime`, `OpenChat` |
| Wi-Fi and fallback manager (`network/include/wifi.hpp`, `screens/wifi_setting.hpp`) | event bits, four atomics, retry count, driver state, NVS flags | `event_handler`, `wifi_set_sta`, `wifi_connect_saved_any`, the fallback and its tasks, boot, the setting screen | BLE enable/disable, MQTT pause/resume | late events, two tasks that leave and enter the fallback at once, a driver state the code only guesses | an offline device always retries; the connected bit is true in the end; a saved network in reach is found | `WifiBle`, `WifiCredentials` |
| NVS helpers (`components/services/nvs/include/nvs_rw.hpp`) | single entries; a ring of five Wi-Fi credentials; the keys that begin with `ble_` in RAM | get, save | everyone | a group of entries is not written atomically | the ring is a queue of distinct networks | `WifiCredentials`, `CredentialStore` |
| Chat API client (`network/include/chat_api.hpp`) | token and user id in RAM and NVS | reload, login, register, ensure_authenticated, requests | NVS, server; shared by all tasks | reload by one task during a login by another; resets between NVS writes | the device is who the user logged in as; a revoked token is replaced | `ChatAuth` |
| Profile dialog (`screens/profile_setting.hpp`) | the auth task's handle, result and notification | ask, run_auth_request, save | chat API, boot flow | a 20 s timeout on a task that goes on | success is reported only for the account that was asked for | `ChatAuth` |
| HTTP client (`network/include/http_client.hpp`) | `res`, `res_flag`, `http_get_task_handle`, unread counters | get_message, unread refresh, notification loop | chat API, MQTT runtime, effects | a 7 s timeout on a task that goes on; two sources for one message | an answer belongs to its question; every message is noticed | `Messages` |
| Message box, contact services (`screens/message_box.hpp`, `contact_book.hpp`, `components/application/include/app/contact/`) | the list shown, the request that waits | fetch over HTTP or BLE, mark read, send | HTTP client, BLE bridge | answers of the phone that come late or for an earlier request | what is shown answers what was asked | `Messages`, `BleLink`, `Screens` |
| BLE bridge (`components/services/ble/ble_uart.cpp`) | stack flag, connection, notify flag, receive buffer, one pending frame, caches of the phone's answers; two hosts, NimBLE and Bluedroid | enable, disable, send, GATT callbacks, JSON commands | Wi-Fi manager, contact and message screens | frames in pieces, reconnects, stale caches | a request is sent once, a frame arrives whole or not at all, the device can be found | `BleLink` |
| Bluetooth pairing (`components/application/include/app/setting/bluetooth_pairing_service.hpp`, `dialog_runners.hpp`) | `ble_pair`, its expiry, `ble_wifi_rst` | start, expire, stop | Wi-Fi manager, MQTT, BLE bridge | many ways for the window to end | what it stopped is started again | `BlePairing` |
| Boot flow (`main/main.cpp`) | four marks in RTC memory, NVS flags | factory reset, set-up, OTA-minimal mode, BLE-only boot, confirmation of an image | Wi-Fi, profile, OTA, menu | marks set and taken over a chain of resets | no chain of restarts goes on for ever | `BootFlow` |
| OTA client (`components/services/ota_update/ota_client.cpp`) | partitions, otadata, offset, retry counts | check, download by ranges, choose the slot, confirm | server, bootloader | a cut download, a reset at any step, otadata written by hand | an image is in order; what was flashed boots; there is one to go back to | `OtaUpdate` |
| Open chat (`screens/open_chat.hpp`) | listener id, list shown, ids seen | enter a room, pop, play, publish, leave | MQTT runtime | messages twice, room changes while messages arrive | the room's messages, in order, once | `OpenChat` |
| Morse input: talk, peer-to-peer, open chat, game (`screens/talk_display.hpp`, `p2p_display.hpp`, `game.hpp`), Button, Joystick (`components/drivers/input/`) | edges, press times, code and text | poll, decode, erase, send | the user | limits of times that meet; presses that are chords | what is keyed is what is sent | `MorseInput` |
| Audio, Composer, previews (`components/drivers/audio/include/max98357a.hpp`, `screens/composer.hpp`) | I2S channel, tone task, player task, song slots | enable, disable, start and stop tone, play, save, load | every screen that sounds | tasks that write to a channel another deletes | no write to a dead channel, no task and no clock left running | `Sound` |
| Screens (`screens/*`, `components/display/src/runtime/prelude.hpp`, `docs/task_lifecycle.md`) | `running_flag`, handle, stack, latched buttons, one sprite | start, loop, dialogs, end | each other | flags written from two tasks; latches shared by a list and its dialogs | no wait without end, one press acts once | `Screens` |
| presenters and drawing, haptics, LED, power, SNTP, provisioning, vendored code | | | | sequential or device access | | not modelled |

`PROJECT.json` lists every component with its status, every hazard at its line, and the
lines each definition translates.

## 2. Plan

1. `MqttRuntime` with `MqttRuntimeProofs`: the most shared state of the firmware. **Done.**
2. `WifiBle`, composed with MQTT on/off; `WifiCredentials`, which implements
   `CredentialStore`. **Done.**
3. `ChatAuth`: identity, tokens, resets. **Done.**
4. `Messages`: fetch, poll and notification; `OpenChat`: rooms. **Done.**
5. `BleLink` and `BlePairing`: the phone. **Done.**
6. `OtaUpdate` and `BootFlow`, which EXTENDS it. **Done.**
7. `MorseInput`, `Sound`, `Screens`: the user's side. **Done.**
8. Proofs, in eight modules: every safety invariant and the action property of the runs,
   type correctness of every component, and the refinement of `CredentialStore`. **Done**
   (section 6). What is left to TLC is liveness.

Each module is about one kind of trouble and takes the rest of the firmware as one step
or as an environment. Where two modules model the same function, the finer one is named
in the other's header.

## 3. The modules

Every action is one atomic access to shared state as the compiled code makes it, unless
a lock makes a longer stretch atomic; program counters carry the names of what is done
next. Mutated forms of an action, used to show that the properties can fail, stand right
before it and are marked "Mutant". Type invariants (`TypeOK`) are theorems (section 6);
only the first run lists its own among the properties. Components whose theorems share a
module carry their name in their definitions: `ChatSpec`, `MorseSpec`, `PairSpec` and
`ScreensSpec` are the specifications of `OpenChat`, `MorseInput`, `BlePairing` and
`Screens`, and so for `Init`, `Next`, `vars` and `TypeOK`.

### MqttRuntime

`S` is `m, configured, topic, client, connected, listeners, nextId`. Tasks (`Threads`)
are the open chat task `Ui`, the notification task `Notif` and the tasks that pause and
resume (`Ctls`); the task of each esp-mqtt client is `hpc[c]`. The test of `S.client &&
S.connected` and the API call after it are two actions (`SubscribeCheck`,
`SubscribeCall`), as are the four writes of `mqtt_rt_stop` and the steps of
`mqtt_rt_start`. esp-mqtt is external: its API lock, held while it dispatches an event,
its clean sessions, and its errors are modelled from how the code uses them. A call on a
destroyed handle is taken to fail without effect, which is the kindest of its outcomes.

### WifiBle

The tasks `boot`, `event`, `retry`, `post` and `ui` run the functions of `wifi.hpp`; the
radio is external and puts `gotip` and `disc` events in the queue of the event loop.
`cred` is the saved network being tried, `connBit` and `failBit` are the event group.

*Timing.* All interleavings of all tasks are explored, but not ones that no clock allows:
the radio and the calls that start or stop a stack (milliseconds to seconds) act only
when no task has an immediate step left (`NoStepReady`); timeouts, the 20 s delay and the
user act only when no such slow call is in progress either (`SecondsPass`). Without this
the properties would fail by a task that takes 20 s for one instruction.

*Excused.* The history variable `excused` marks two ways in which the code gives up its
recovery: the BLE stack could not be started, or a link dropped before the tasks were
done with its GOT_IP. A third is `Blank`: the device booted with Wi-Fi off and was given
no network since (`configured`), so that switching Wi-Fi on connects to nothing and
starts no retries. `OfflineHasRecovery` is about all other behaviours. `aborted` marks a
failed `ESP_ERROR_CHECK`; the properties are about the behaviours before it. The timing
keeps the radio from acting in the microseconds between the retry task's last look at
the fallback and its end; what `OfflineHasRecovery` shows of these two tasks is about
the longer orders, in which the event task claims the fallback before or after that.

### CredentialStore, WifiCredentials, MCWifiCredentials

`CredentialStore` is what a caller of `save_wifi_credential` and `get_wifi_credentials`
may count on: a queue of distinct networks, a new one last and the oldest one out, a known
one updated in place; a reset during an addition may leave it with a doubtful password at
the head, where the next addition replaces it. `WifiCredentials` is the code: one flash
write per step (`Find`, `UpdatePass`, `WriteName`, `WritePass`, `WriteNext`), the pass of
`wifi_connect_saved_any` over the list (`Tries`), the setting screen's wait and save, and
a `Reset` anywhere. The property `IsQueue` is the refinement: `Store` reads the ring from
`wifi_next` on, and between the name and the index of an addition it is the ring before it
(`Visible`), since `nvs_mutex` keeps readers out. The MC module gives each access point
its password, one of them none. `doubtful` and `mixed` record the two cases in which a
saved password may not have been tried: a reset cut the save short, or another connection
could have ended the screen's wait.

### ChatAuth

`token`, `uid` are the shared `ChatApiClient`; `nvs` is flash. `reload_from_nvs` holds
`mutex_` over two reads of NVS; a login writes RAM under `mutex_` and then NVS entry by
entry. `Tasks` are the menu's tasks that make API calls, of which `Retriers` log in again
after a 401 (fetch, mark-read, friends) and the others do not (unread count); `Auth` is
the dialog's task. `Crash` is a reset or deep sleep between any two steps: RAM is lost and
the boot starts over. `OpenDialog` is `profile_setting_task`, which returns at once when
its stack or its task cannot be had (`dlg = "none"`): `app_main` then starts the menu
without a user. An account stands for its login id, user id and password; a token
carries the epoch in which it was given out and is refused when that is over. Requests are
atomic at the server; a fault may lose the answer of a registration that took effect. Not
modelled: failing NVS writes, mistyped passwords, nicknames and codes.

### Messages, MCMessages

The notification task (`notif`) pops MQTT messages and polls; the message box (`box`)
calls `get_message`, which makes the fetch task (`fetch`) and waits on `res_flag` for at
most 7 s. Each of the two writes of `res_flag`, the handle, the store to `res` and the
flag of the fetch task is an action of its own. A friend's messages are numbered, so a
list is (friend, how many). `noticed[f]` is the last message the effects have announced.
The token is one bit here: the server may revoke it, a fetch logs in again. A message box
that has shown its list may be refreshed or closed; marking as read follows the first
list, as in the code. The MC module says how many messages each friend sends.
`unread_hint_` and `notif_flag`, which no live code reads, are out.

### OpenChat

`open_chat_task` from the choice of a room to leaving it: add a listener, subscribe,
pop, play (the long step during which more arrives), show, compose, publish, remove. The
broker is external and delivers with QoS 1: `repeats` copies, and the own messages come
back. `heard` records what was delivered for the room since it was entered, `log` what
the screen has shown since then; `screen` keeps the last `Cap`. A message of another
sender has an id, as this program gives every one, or none (`anonymous`: `add_message`
cannot know it again), or a payload longer than the pop buffer (`big`: it is cut and no
longer JSON).

### BleLink, MCBleLink

Both implementations of `ble_uart.cpp`, chosen at the start (`stack`), the phone, the
link, and the screens' requests over it (`pc`, `req`): history, contacts, friend
requests and their results, and the relay of a message. The host task receives pieces
into `rx` and hands out frames, either at newlines or by balanced braces (`newline` is
how the phone writes). The parser of braces also keeps track of strings, from the first
brace in the buffer on: a head that ends inside a string (`quoted`) and is followed by
another frame, because the link was lost in between, makes it take strings for text and
text for strings. From there on (`Astray`) what the frames contain decides where it ends
a text, which the model leaves open; `split` is history of such a cut. The screens are
answered from three caches. `pending` is the one frame that waits for the phone to
subscribe. The fallback manager enables and disables the stack at any time. A frame
carries the request it answers and how much had been asked when it came (`at`), so that
stale answers can be told. The stores of `ble_result_id` and `ble_last_result` are RAM
keys of `nvs_rw.hpp`, of which this model takes one copy (see section 7). The
subscription of NimBLE (`SubscribeNimble`), whose flag and flush are both made by the
host task, is one step. The MC module declares that friends may be exchanged.

### BlePairing

The dialog (`dialog`), the service's keys `ble_pair`, `ble_exp_us`, `ble_wifi_rst` in
RAM, and the copy in the open dialog (`memPair`, `memExp`); around them the event task,
`post_connect_task`, the fallback, the retry (one step each), the phone, the clock, the
ON/OFF item and a reset. `byPairing` is history: Wi-Fi is stopped on the pairing's
account. So is `stranded`: a retry of Wi-Fi (`RetryWifi`) has paused MQTT and BLE did
not start after it, because it failed or because the link had come meanwhile. Two hosts:
NimBLE is ready once its stack is up, Bluedroid only with a phone.

### OtaUpdate and BootFlow

`OtaUpdate` is `do_ota`: ask the length, ask for ranges of `Chunk` units, read until a
range ends or breaks off, retry without progress `MaxRetries` times and the whole
`MaxAttempts` times, validate, and choose the slot, by `esp_ota_set_boot_partition` or
by hand (`EraseEntry`, `WriteEntry`, two flash steps). An image is the sequence of units
written, each with its place in the file. The bootloader (`Tried`, `Selected`,
`Loadable`) is external: it takes the entry with the larger number, marks a new one as
tried, and refuses one that was tried and not confirmed. `BootFlow` EXTENDS it with
`app_main`: the marks in RTC memory, the keys of NVS, set-up, BLE-only boot, the boot of
its own for an update, the update behind the menu and the validation task.
`EnsureProfile` goes on without a user when the profile dialog cannot be opened. `Reset`
falls between any two steps, with or without the loss of RTC memory. `badSwitch` records
that an image was chosen that is not whole: after a failed validation the code does that
on purpose.

### MorseInput

The poll loops of the four keying screens over the Button objects, as one action per poll
(`PollTalk`, `PollP2p`, `PollOpenChat`, `PollGame`, and `PollResult` for the game's end).
Between polls the user presses, releases and moves the stick, and time passes tick by
tick, at most `Lag` ticks to the next poll. Every gesture is possible at every time. Those
of a careful user follow a plan (`PressPlan`, `ReleasePlan`): a dot, a dash, the pause
after a letter, an erasure, a chord, a sending; `meant` is what that user means, and is
compared with what the screen holds. A gesture outside the plan ends the care (`op =
"off"`): then only the tone is promised.

### Sound

The channel (`chan`), the tone task, the player of the Composer, and the one screen that
is in front (`at`): four that key a tone, a message played in Morse, the Composer with
its dialog, the previews of boot sounds and the tone at boot. `leftOn` is history: a
streamed preview, or a boot tone that failed in its buffer or in a write, has left the
channel on. `stop_tone` is a wait (`StopThen`, `StopReturns`); leaving the Composer
aborts and waits (`exit`). Any creation or driver call may fail, `MaxFails` times.

### Screens

Each screen is a task that is `off`, in its `loop`, in a dialog, or waiting for a child
whose `flag` it polls. `Reads` says which Buttons are polled where; a press stays in
`latch` until a clear, with the dialog that acted on it and did not clear it. The sprite
is `buffer` and `cached`, and an allocation may give it in full, reduced or not at all.
The creation of a child and the assignment of its handle are one step: on two cores a
child that ends within that instruction would leave a handle behind.

## 4. Runs

Every run passes; each property has a mutant of the code that it catches.

| run | instance | shows |
|---|---|---|
| `mqtt_runtime` | 3 tasks, 2 clients, 1 listener, 1 session, 1 room, 1 user | `TypeOK`; `NoLostSubscription`: subscribing outside the mutex loses nothing against CONNECTED; `CallsReturn`: `S.m` and the API locks do not deadlock |
| `wifi_ble` | boots with Wi-Fi on and off, 2 networks, 2 reconnects, 8 radio events, 2 uses of the screen | `OfflineHasRecovery`, `BitTracksLink`; `RetriesContinue` |
| `wifi_credentials` | 3 networks in 2 slots, one of them coming and going, 3 saves, 1 reset | `Unique`; `SavedWorked`; `Reconnects`: a bad entry does not keep the pass from a good one; `IsQueue`: the ring implements `CredentialStore` |
| `chat_auth` | 2 tasks and the dialog, 2 accounts, 1 revocation, 1 network fault, 1 reset | `OkMeansLoggedIn`, `MenuHasIdentity`, `RefreshRecovers` |
| `messages` | 2 friends, 2 messages from one of them, 2 fetches, any number of revocations | `AnswerIsForFriend`, `CountCatchesUp`, `MqttNoticedIfAccepted` |
| `open_chat` | 2 rooms, 1 other sender, 2 messages of three kinds, 1 own, a list of 2, 1 copy, 1 break, 2 entries | `ShownOnce`, `RoomIsHeard` |
| `ble_link` | both hosts, 2 friends, 2 requests, 1 lost link, 1 frame unasked, 2 toggles | `ReadAfterAsked`, `ContactsAnswerRequest`, `SentAtMostOnce`, `FramesResync`, `AdvertisesWhenAlone` |
| `ble_pairing` | both hosts, a window of 2 of 5 ticks, 4 uses, 5 radio events, 1 reset | `WifiGivenBack`, `MqttGivenBack`, `WindowEnds` |
| `boot` | 3 releases, images of 2 units, 2 attempts, 3 updates, 2 resets | `InOrder`, `UpdateBoots`, `ConfirmedSurvives`, `BootEnds` |
| `morse_input` | 4 screens, 3 codes, every 6 gestures with every timing | `KeyedIsCommitted`, `KeyedTone` |
| `sound` | 4 keying screens, 2 slots, 2 failures | `WritesReachSpeaker`, `SpeakerReleased`, `WaitsEnd`, `SaveIsAsked` |
| `screens` | 7 screens, 7 dialogs, 2 failed allocations | `NoOrphanWait`, `PressActsOnce`, `SurfaceComesBack`, `BackGoesBack` |

*Why the bounds are enough.*
- `mqtt_runtime`: a second client is what a stop and start, or two starts, produce; a
  listener that comes and goes is one id; reconnection is covered by the proof, which has
  no bound.
- `wifi_ble`: eight radio events allow a boot with two networks, a loss of the link with all
  its reconnects, the fallback and an attempt of the retry task with a late event.
- `wifi_credentials`: three saves of three networks wrap the ring of two and replace an
  entry; the reset falls into any of them.
- `chat_auth`: one reset falls between any two steps; a second starts from a state that a
  first one already reaches.
- `messages`: two fetches are needed for one to meet the other's late answer; a third finds
  the same states of `res`, `res_flag` and the handle. Two messages of one friend are enough
  for a poll to count one while the other waits in the queue; the second friend is there
  to be given the first one's messages.
- `open_chat`: a list of two drops a message whose copy is still to come; the second entry
  meets the first room's deliveries. One own message (`MaxOwn`) echoes; two of the other
  sender can be in any order of kinds and copies.
- `ble_link`: two requests, so that the first one's answer can come during the second.
  One lost link cuts a frame, inside a string or not, and the frame pushed and the answers
  are what it can spoil.
- `ble_pairing`: two and a half windows, and enough uses to start, stop, start again
  and switch Wi-Fi; both host variants are explored in one run.
- `boot`: three updates use both slots and the first again, as the numbers in otadata
  need; two resets make a chain with the device's own restarts.
- `morse_input`: six gestures are a letter of two symbols, an erasure and a sending.
- `sound`, `screens`: cyclic, bounded only in the failures.

`CHECK_DEADLOCK FALSE` stands where the bounded environment may come to an end: no more
events, messages or uses. `OpenChat.cfg` and `Sound.cfg` check deadlock as well.

## 5. Fairness

FreeRTOS runs every ready task, so weak fairness holds of the steps a task makes by
itself. Nothing is assumed of the broker, the radio's success, the server or the user.

- `WifiBle`: the tasks make their steps, and delays and timeouts end.
- `WifiCredentials`: saves, waits, joins and their events are weakly fair. `Tries`, the pass
  over the list, is strongly fair: the retry task comes back as long as the device is
  offline, also when access points come and go in between.
- `ChatAuth`: strong fairness of a task's steps, since a task that waits for `mutex_` is
  queued by FreeRTOS and the owners give it back again and again; the tasks go on calling.
- `Messages`: strong fairness of `PollRefresh`: a poll falls due every 5 s and its request
  does not fail for ever. Where it is not so, the count is not promised.
- `BlePairing`: dialog, events, `post_connect_task` and the clock.
- `BootFlow`: `app_main` and the update; not the screens, the link or the validation.
- `Sound`, `Screens`: every task runs; a song ends by itself.

`OpenChat`, `BleLink` and `MorseInput` state safety only.

## 6. Proofs

Each theorem holds for every value of the constants that the named assumptions allow:
any number of tasks, rooms, friends, networks, blocks and slots, and any bound on
losses, resets, failures, gestures and uses. The invariants of the runs are not
inductive. In each module an invariant that is (`IInv`, or the one named) says what
every step keeps. TLC finds it true on the run's instance (but for conjuncts that
quantify over sets of sequences), and the proof has one step for each action.

| module | theorems |
|---|---|
| `MqttRuntimeProofs` | `TypeCorrect`, `NoLostSubscriptionHolds` |
| `WifiBleProofs` | `TypeCorrect`, `BitIsLink` (`BitTracksLink`), `RecoveryExists` (`OfflineHasRecovery`) |
| `WifiCredentialsProofs` | `TypeCorrect`, `NoTwins` (`Unique`), `SavedHaveWorked` (`SavedWorked`), `Refinement` (`IsQueue`) |
| `ChatAuthProofs` | `TypeCorrect`, `OkIsLogin` (`OkMeansLoggedIn`), `MenuIsSomebody` (`MenuHasIdentity`) |
| `MessagesProofs` | of `Messages`: `TypeCorrect`, `AnswerForFriend` (`AnswerIsForFriend`); of `OpenChat`: `ChatTyped`, `NothingShownTwice` (`ShownOnce`), `NothingLost` (`RoomIsHeard`); of `MorseInput`: `MorseTyped`, `ToneEnds` (`KeyedTone`), `KeyedText` (`KeyedIsCommitted`) |
| `BleLinkProofs` | of `BleLink`: `TypeCorrect`, `OncePerRequest` (`SentAtMostOnce`), `AnswersAreFresh` (`ReadAfterAsked`), `ContactsMatch` (`ContactsAnswerRequest`), `Resync` (`FramesResync`), `CanBeFound` (`AdvertisesWhenAlone`); of `BlePairing`: `PairingTyped`, `MqttIsGivenBack` (`MqttGivenBack`), `WifiIsGivenBack` (`WifiGivenBack`) |
| `BootFlowProofs` | `TypeCorrect`, `BlocksInOrder` (`InOrder`), `UpdateIsBooted` (`UpdateBoots`), `Survives` (`ConfirmedSurvives`) |
| `UiProofs` | of `Sound`: `TypeCorrect`, `WritesReach` (`WritesReachSpeaker`), `ReleasedAtHome` (`SpeakerReleased`), `SavesAreAsked` (`SaveIsAsked`); of `Screens`: `ScreensTyped`, `FlagIsCleared` (`NoOrphanWait`), `PressIsOfOneScreen` (`PressActsOnce`) |

Three of the modules are about more than one component: `MessagesProofs` is about the
texts a user reads and writes, `BleLinkProofs` about the phone, `UiProofs` about the
screens. They EXTEND each of their components and have a section for each; no theorem is
about two specifications.

### The arguments

`MqttRuntime`. `NoLostSubscription` speaks of quiet states only. `Covered` strengthens it
to every state: while the current client has a session and `S.connected` is set, each
wanted topic is subscribed, or the handler of some client has not reached it yet
(`EventPending`), or some call holds it and will test `connected` or has tested it
(`CallPending`). It rests on two orders in the code: `on_event` raises `S.connected`
before it walks the topics (mqtt_runtime.cpp:45-54), and `add_listener` and `update_user`
publish the topic before they read the flag (200-203, 157-159). `Frame` carries what the
step needs besides: types, what the calls in progress are about, that a client not yet
created has no session, and that the open chat task has one listener at a time
(open_chat.hpp removes a room's listener before it enters the next).

`WifiBle` (`IInv`, until a failed `ESP_ERROR_CHECK`). The newest event in the queue
tells what the radio is, so the bit agrees with the radio once the queue is empty
(`BitOK`). Recovery could be lost where a task gives up the fallback or the retry task
ends for a link that is gone by then. Neither happens: the radio acts only when no task
has a step to make (the timing of section 3), so the link that a task acts on is still
there (`LinkOK`, `QueueOK`), and while the event task falls back no other one leaves the
fallback (`EventOK`). Hence an idle radio has something under way or the fallback on
(`IdleOK`), and the fallback has a retry task or a task about to create one
(`FallbackOK`). What is promised of recovery is promised until `excused`, and of a
device that is not `Blank`; once a network was given to the driver it stays there, so
only `wifi_set_sta` ends that.

`BlePairing`. MQTT is paused by the start of a pairing and by the fallback; both go on
to BLE or undo it, and what takes BLE down has the resume still to do (`Taken`). The
retry of the fallback is the one pause that nobody undoes when BLE does not start
(`stranded`). While Wi-Fi is stopped for a pairing the radio is silent, so no event and
no `post_connect_task` takes BLE or the stored flag away, and a dialog that finds BLE on
and no pairing is on its way out through `restore_wifi_if_needed` (`Held`).

`WifiCredentials`. A name is written only after the search did not find it, and only the
setting screen writes (`SaverOK`); its wait ends with its own connection unless `mixed`
or `doubtful` says otherwise (`WaitOK`), so what it stores has opened its network
(`SlotsOK`). For the refinement, `Queue` lists the slots from `wifi_next` on and then
those before it, without the free ones. A ring is `Sound` when free slots come last and
names differ. The password of a known network is an update in place; name and password
of a new one change nothing yet (`BeforeOK`); the index adds it behind all others; a
reset before that leaves its slot as the oldest, torn, and the next to go. `Init` and
every step are mapped to one of `CredentialStore` or to a stutter (`Refinement`).

`ChatAuth`. While the profile dialog is open only its auth task logs in, so how far it has
come says what NVS holds (`Stores`), and `auth_task_result_` is set when all of it is
stored (`DialogOK`). Every login stores token and id before `user_name`, and later ones
replace entries and remove none (`NameIsLast`). The menu has a `user_name`, or the dialog
could not be opened in this boot.

`Messages`. `get_message` makes a task only after it has seen `http_get_task_handle`
null, so at most one runs (`OneTask`), and clears `res_flag` after that look; a flag set
while it waits was set by its own task, and `res` before it (`Protocol`).

`OpenChat`. `add_message` looks at `seen_ids` and adds to it in one call, whichever way
a message comes, so each message of the log that has an id is in `seen` and differs from
the others; the log begins anew together with `seen` (`Remembered`). `RoomIsHeard`
compares `heard`, what the MQTT task delivered, with the whole way of a message: the
log, then the message in hand, then the queue. Its invariant (`ChatInv`) adds three
things. While the task is in a room the table of listeners has the entry of that room
and no other, so a delivery for the room reaches its queue and one for another room none
(`TableOK`). A number names one message of a sender on any of the ways (`KnownOK`), so
what `add_message` drops as seen is a copy of a message that is on the log already. And
the lists begin anew with each room (`ViewOK`). The order is argued with `Occurs` and
`Before`, which split over a concatenation (`OccursInBoth`, `BeforeInBoth`): a pop moves
the boundary between queue and hand, showing that between hand and log, and neither
changes which of two messages comes first (`WayParts`).

`BleLink`. Only a request that was not sent is with the screen or queued (`RequestOK`).
A screen clears its cache before it sends (`CacheOK`). A newline leaves nothing behind
it (`EndedOK`). As long as no frame was cut inside a string the parser knows strings
from text (`PlainOK`), and the receive buffer is the head of the frame being written and
what losses left before it: with newlines a text is mixed only if there was a loss since
the last one (`LinesOK`), without them the braces that a loss left open hold it back
(`BracesOK`). After such a cut only `EndedOK` is promised.

`BootFlow`. The two entries of otadata are ordered by their numbers; as long as only whole
images were selected the newest valid one names the image confirmed last, and one that is
new or pending is newer (`EntriesOK`). A download starts only when there is no such one,
and writes to the slot and the entry that are not in use (`UpdateOK`, `DownloadOK`). That
the number written by hand selects its slot is the arithmetic of
`set_boot_partition_unverified`, for all pairs of numbers (`RestartOK`).

`Sound`. A writer of samples belongs to a screen that does not go away before it has
ended (`stop_tone`, the Composer's wait: `Writers`), and only the screen, or the writer
at its end, takes the channel away. The peer-to-peer screen, which leaves without
`stop_tone` when it is not keying, has then no tone task and has enabled nothing
(`Unused`). Whatever returns to the menus has stopped or deleted the channel, or
`leftOn` says who did not.

`Screens` (`ScreensInv`). A parent that waits has created the child, or the flag is clear;
the child takes its flag down before it ends (`Family`). Every dialog but those the
property names clears the latches it shares with its list (`Pressed`).

`MorseInput`. What starts the tone polls again before its screen can leave, and a poll
that finds the key up ends it (`Sounding`, in `MorseInv`). `KeyedIsCommitted` needs an
invariant of its own (`Care`), which says for each stage of the careful user's plan
where the fingers are (`Posture`) and how much of it the screen has taken in. What no
poll has seen is one gesture, the last, made since the last poll (`Watched`), because a
careful user waits more than a polling interval between two. The screen's counters trail
the user's by at most that interval (`Timed`, `Released`, `Undecided`), and the careful
user stays clear of both thresholds by as much: so the mark is the one meant, and the
pause is over for the screen before it is over for the user. A letter is then unread,
open, or closed (`Released`, `Undecided`, `Decided`): closed means that it is in the
message, or in a game compared, or compared by the next iteration. A poll finds one of
few things (`Quiet`, `Marks`, `Ends`, `Erases`, `Enters`, a flick of the stick, a
comparison). One lemma for each screen and sort says what the screen does (`TalkQuiet`
to `GameCompare`), seven say it of all four (`QuietPoll` to `ComparePoll`), and the
proof that a poll keeps `Care` uses only those. The code table is the excerpt of the
module; of it the proof uses that no code is empty. TLC checked `Care` on the run's
instance, with an interval of two ticks, and with two rounds of the game.

### Assumptions

Each is an ASSUME of the component's module, which TLC evaluates in its run: tasks,
clients, topics, friends, accounts and networks are distinct from the values that stand
for none; friends are finitely many; capacities, sizes and the numbers of slots and
attempts are positive; bounds are natural numbers; the two host stacks are the only
ones. `MorseInputAssumption` orders the thresholds as the code does (a long press takes
more than two polls, the pause that ends a letter is longer than a long press and a
poll), with a polling interval, a shown box and a number of rounds that are not zero.

### What is only model-checked

- Liveness, for which the proof system has no rules with fairness: `CallsReturn`,
  `RetriesContinue`, `Reconnects`, `RefreshRecovers`, `CountCatchesUp`,
  `MqttNoticedIfAccepted`, `WindowEnds`, `BootEnds`, `WaitsEnd`, `SurfaceComesBack`,
  `BackGoesBack`.

Every other property of the runs, the action property `SaveIsAsked` and the refinement
`IsQueue` included, is a theorem.

## 7. Where the code does not keep what it says

Modelling met these places. The properties that meet one leave it out, by a conjunct or a
history variable that names the case, and state what holds otherwise.

- `mqtt_runtime.h:14`: "Start client if configured and not running; returns 0 on success."
  Two starts at once (the notification task and open chat) both find no client
  (mqtt_runtime.cpp:116); the second fails to start and destroys the client of the first.
- `mqtt_rt_stop` writes `connected = false` after `S.client = nullptr`: a client started and
  connected in between is taken for disconnected (145).
- `README.md:33`: BLE temporarily stops Wi-Fi. The fallback and `ble_uart_enable` do not;
  only pairing by hand does.
- `wifi.hpp:371`: `ESP_ERROR_CHECK` of `esp_wifi_connect` fails when the driver was stopped
  by Wi-Fi OFF, since its mode is still STA (315): the device restarts (`aborted`).
- A GOT_IP between the retry task's last timeout and `mqtt_rt_pause` (wifi.hpp:200): MQTT is
  resumed first, then paused; BLE refuses to start; the device has Wi-Fi and no MQTT.
- After a retry of Wi-Fi that failed, the retry task pauses MQTT and enables BLE again, and
  only logs its error (wifi.hpp:200-205): without BLE, MQTT stays paused until the next
  retry. If Wi-Fi is switched back on by hand meanwhile, `post_connect_task` does not resume
  it, for it does so only if BLE is ready (217).
- Switching Wi-Fi on after a boot with Wi-Fi off (wifi_setting.hpp:469-483):
  `WiFi::main` gave the driver no network (wifi.hpp:619-622), `esp_wifi_connect` fails and
  the error is only logged. The screen shows ON, the device is offline, and no retry task
  runs until a network is chosen or the device restarts.
- `profile_setting_task` returns without a word when its stack or task cannot be had
  (profile_setting.hpp:189-201), and `app_main`, under the heading "Ensure user profile"
  (main.cpp:637), goes on to the menu without a user; nothing asks again before the next
  boot.
- A boot that finds no network ends in an endless loop (main.cpp:562-566) with no menu and,
  if there is a user, with a display that was not initialised (548-561). It serves the phone
  only; a network that comes up later changes nothing. `BootEnds` counts it as an end.
- `profile_setting.hpp:245`: "only persist on success". The auth task goes on after the
  dialog's 20 s and stores its login; a reset between `user_name` and the password leaves a
  device that cannot log in again.
- `http_client.hpp:518` reads a 401 as no unread messages, so that a message that came by
  MQTT is not announced (`notification_effects.hpp:9` says it is). It is assumed that the
  server sends a JSON body with a 401, as the contact services read its errors.
- `message_box.hpp:471` marks all of a friend's messages read, those that came after the
  list included.
- With Bluedroid, `adv_started` is trusted (ble_uart.cpp:645): after a connection or a
  failed start the device may not advertise again. `AdvertisesWhenAlone` is about NimBLE.
- With Bluedroid, BLE without a phone is not ready, so a pairing that ends before one comes
  leaves BLE up and Wi-Fi down (dialog_runners.hpp:298).
- The store of the `ble_` keys is a static of an inline function in an unnamed namespace
  (nvs_rw.hpp:45): each translation unit has its own, and the inline `save_nvs` and
  `get_nvs` that use it differ between units. The models take the copies as merged.
- `set_boot_partition_unverified` selects an image that has just failed its validation.
- A reset between taking the factory-reset mark and erasing NVS loses the reset
  (main.cpp:265).
- The Composer and the Wi-Fi screen keep their flag after a start that failed
  (composer.hpp:20, wifi_setting.hpp:37): the screen that waits for them hangs.
- The Bluetooth and factory reset dialogs and the answer to a friend request leave their
  press latched, and the list behind acts on it again.
- Enter on an empty message stays latched and sends the first letter keyed later; in the
  trainer a tone may outlast its round (game.hpp:160).
- Open chat plays a message in Morse before it finds that it has been shown (455), and a
  payload longer than its buffers loses its text (429).
- A message without an id is not recognised when it comes again (open_chat.hpp:310), and is
  shown each time.
- The history over BLE checks neither request nor friend: the late answer of an earlier
  request is shown.
- A lost link does not clear `rx_buffer`. If it cut a frame inside a string, the parser of
  braces takes the following strings for text and text for strings (ble_uart.cpp:245-265,
  738-761): mixtures are handed over, or nothing more is, until a newline comes.
- `play_tone` returns without `disable()` when it has no buffer or a write fails
  (max98357a.hpp:200, 219-223, 242, 250). After the boot tone (main.cpp:512-514) nothing
  else stops the channel: the clock of the amplifier runs until a screen that sounds is left.

## 8. Not modelled

- Presenters and renderers, haptics, LED, buzzer and power drivers: sequential code or
  device access without shared control state. The presenters that decide something (talk,
  open chat, pairing) are in their modules.
- SNTP (one task that waits for the event bit), `wifi_scan`, provisioning, the vendored LED
  driver and the examples.
- The ESP-NOW callbacks of the peer-to-peer screen; the friends fetch beyond its outcome;
  the retries of `send_message`, for which the request has no id; a marking as read that
  fails, which leaves the count to the next poll; flash writes that fail; chunks of a BLE
  frame that fail midway.
- Below the level of these models: torn reads of strings, reuse of a static stack by a task
  that has not ended, and exhaustion of memory except where a call reports it.

`PROJECT.json` gives the reason beside each component and each hazard without a property.
