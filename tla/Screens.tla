------------------------------ MODULE Screens ------------------------------
(***************************************************************************)
(* The screens: the tasks of the display component, how each starts the    *)
(* next one and waits for it, the buttons they read and the one sprite     *)
(* they all draw on.                                                       *)
(*                                                                         *)
(* A caller sets running_flag, calls start (which creates the task unless  *)
(* its handle is set) and polls the flag; the screen clears both when it   *)
(* ends, in two writes.  A Button object latches a press until             *)
(* clear_button_state(), and the dialogs of the settings and of the        *)
(* contact book read the Button objects of the list they were opened from. *)
(* What a screen does besides is in the other modules; inline screens with *)
(* Buttons of their own (talk, friend code, profile, RTC) are one step.    *)
(*                                                                         *)
(* The user acts when the screen in front has come to rest: the two writes *)
(* that end a screen are microseconds apart.                               *)
(***************************************************************************)
EXTENDS Naturals

CONSTANT MaxFailed  \* bound: allocations that fail

ASSUME ScreensAssumption == MaxFailed \in Nat

Children(p) ==
  CASE p = "menu" -> {"contacts", "settings", "game"}
    [] p = "contacts" -> {"box"}
    [] p = "settings" -> {"wifi", "openchat", "composer"}
    [] OTHER -> {}
Parents == {"menu", "contacts", "settings"}
Screen == UNION {Children(p) : p \in Parents}
Task == {"menu"} \cup Screen
Button == {"type", "back", "enter"}

(* The dialogs of the settings that read its Buttons.                      *)
Dialog == {"language", "sound", "bootsound", "bluetooth", "manifest",
           "firmware", "factory"}
HeapStack == {"contacts", "openchat", "composer", "wifi"}

VARIABLES
  place,     \* where each task is; a child's name while it waits for it
  flag,   \* running_flag of each screen
  tasks, \* its task_handle_ is set
  stack,  \* its stack is allocated
  latch,  \* pushed of each task's Buttons: no, new, or (history) the
          \* dialog that acted on the press and did not clear it
  stick,  \* the stick is held to the left
  buffer, \* sprite.getBuffer(): none, full (8 bit) or reduced (4 or 1 bit)
  cached, \* g_sprite_state.ready
  failed

control == <<place, flag, tasks, stack>>
surface == <<buffer, cached>>
screenVars == <<control, latch, stick, surface, failed>>

Fresh == [b \in Button |-> "no"]
Polling(t) == CASE t = "contacts" -> {"loop", "fetch", "pending", "confirm"}
                [] t = "settings" -> {"loop"} \cup Dialog
                [] OTHER -> {"loop"}

(* The Buttons that are polled where task t is.                            *)
Reads(t) ==
  CASE t = "menu" -> {"type", "enter"}
    [] t = "box" \/ (t = "settings" /\ place[t] \in {"loop", "manifest", "firmware"}) ->
         {"type", "back"}
    [] t = "contacts" /\ place[t] = "fetch" -> {"back"}
    [] OTHER -> Button

ScreensInit ==
  /\ place = [t \in Task |-> IF t = "menu" THEN "loop" ELSE "off"]
  /\ flag = [c \in Screen |-> FALSE]
  /\ tasks = [c \in Screen |-> FALSE]
  /\ stack = [c \in Screen |-> c \notin HeapStack]
  /\ latch = [t \in Task |-> Fresh]
  /\ stick = FALSE
  /\ buffer = "none" /\ cached = FALSE /\ failed = 0

---------------------------------------------------------------------------
(* Input.                                                                  *)

Pushed(t, b) == latch[t][b] # "no"
BackOrLeft(t) == Pushed(t, "back") \/ stick

(* clear_button_state of these Buttons of t.                               *)
Clear(t, bs) ==
  latch' = [latch EXCEPT ![t] = [b \in Button |-> IF b \in bs THEN "no" ELSE @[b]]]

(* Dialog d of t has acted on what is pushed and leaves it pushed.         *)
Act(t, d) ==
  latch' = [latch EXCEPT ![t] = [b \in Button |-> IF @[b] = "new" THEN d ELSE @[b]]]

(* No task but t has anything to do.                                       *)
AtRest(t) ==
  /\ place[t] \in Polling(t)
  /\ t = "menu" => buffer # "none"
  /\ \A u \in Task \ {t} :
       place[u] = "off" \/ (place[u] \in Children(u) /\ flag[place[u]])

Press(t, b) ==
  /\ AtRest(t) /\ b \in Reads(t) /\ latch[t][b] = "no"
  /\ latch' = [latch EXCEPT ![t][b] = "new"]
  /\ UNCHANGED <<control, stick, surface, failed>>

StickLeft ==
  /\ ~stick /\ \E t \in Task : AtRest(t)
  /\ stick' = TRUE /\ UNCHANGED <<control, latch, surface, failed>>

StickCentre ==
  /\ stick /\ stick' = FALSE /\ UNCHANGED <<control, latch, surface, failed>>

---------------------------------------------------------------------------
(* The sprite.                                                             *)

(* One allocation with outcome good, or a failed one within the bound.     *)
Spend(good) ==
  IF good THEN UNCHANGED failed ELSE failed < MaxFailed /\ failed' = failed + 1

(* createSprite of the screens that ask for 8 bit only, and the lists of   *)
(* attempts of contact_book, message_box and talk_display.  None of them   *)
(* writes g_sprite_state.                                                  *)
Create(o) == o \in {"full", "none"} /\ buffer' = o /\ Spend(o = "full") /\ UNCHANGED cached
Recreate(o) ==
  o \in {"full", "reduced", "none"} /\ buffer' = o /\ Spend(o = "full") /\ UNCHANGED cached

(* Mutant: the cached state alone is trusted.                              *)
EnsureTrusts(ok) ==
  IF cached THEN ok /\ UNCHANGED <<surface, failed>>
  ELSE /\ buffer' = (IF ok THEN "full" ELSE "none") /\ cached' = ok
       /\ Spend(ok)

(* ensure_sprite_surface: a cached surface is kept as long as there is a   *)
(* buffer, whatever its depth.                                             *)
Ensure(ok) ==
  IF cached /\ buffer # "none" THEN ok /\ UNCHANGED <<surface, failed>>
  ELSE /\ buffer' = (IF ok THEN "full" ELSE "none") /\ cached' = ok
       /\ Spend(ok)

---------------------------------------------------------------------------
(* Starting, ending and waiting.                                           *)

(* p opens c: flag, start, and the wait at location l.  A task that cannot *)
(* be created takes the flag back, but for the Composer.                   *)
OpenChild(p, c, l) ==
  \/ /\ tasks[c]
     /\ flag' = [flag EXCEPT ![c] = TRUE] /\ place' = [place EXCEPT ![p] = l]
     /\ UNCHANGED <<tasks, stack, failed>>
  \/ /\ ~tasks[c] /\ UNCHANGED failed
     /\ flag' = [flag EXCEPT ![c] = TRUE]
     /\ place' = [place EXCEPT ![p] = l, ![c] = "create"]
     /\ tasks' = [tasks EXCEPT ![c] = TRUE] /\ stack' = [stack EXCEPT ![c] = TRUE]
  \/ /\ ~tasks[c] /\ ~stack[c] /\ Spend(FALSE)
     /\ flag' = [flag EXCEPT ![c] = (c = "composer")] /\ place' = [place EXCEPT ![p] = c]
     /\ UNCHANGED <<tasks, stack>>

(* The first of the two writes that end screen c, and the second.  The     *)
(* settings clear the handle first.                                        *)
End(c) ==
  /\ place' = [place EXCEPT ![c] = "closing"]
  /\ IF c = "settings"
     THEN tasks' = [tasks EXCEPT ![c] = FALSE] /\ UNCHANGED flag
     ELSE flag' = [flag EXCEPT ![c] = FALSE] /\ UNCHANGED tasks
  /\ UNCHANGED stack

(* Mutant: the handle stays.                                               *)
CloseKeepsHandle(c) ==
  /\ place[c] = "closing" /\ place' = [place EXCEPT ![c] = "off"]
  /\ flag' = [flag EXCEPT ![c] = FALSE]
  /\ UNCHANGED <<tasks, stack, latch, stick, surface, failed>>

Close(c) ==
  /\ place[c] = "closing"
  /\ place' = [place EXCEPT ![c] = "off"]
  /\ tasks' = [tasks EXCEPT ![c] = FALSE]
  /\ flag' = IF c = "settings" THEN [flag EXCEPT ![c] = FALSE] ELSE flag
  /\ latch' = [latch EXCEPT ![c] = Fresh]
  /\ UNCHANGED <<stack, stick, surface, failed>>

Goto(t, l) == place' = [place EXCEPT ![t] = l] /\ UNCHANGED <<flag, tasks,
                                                              stack>>

(* t has waited for c, and c's flag is clear.                              *)
Returned(t, c) == place[t] = c /\ ~flag[c]

---------------------------------------------------------------------------
(* menu_display.hpp: the main menu.                                        *)

MenuSurface ==
  /\ place["menu"] = "loop" /\ buffer = "none"
  /\ \E ok \in BOOLEAN : Ensure(ok)
  /\ UNCHANGED <<control, latch, stick>>

MenuOpen(c) ==
  /\ place["menu"] = "loop" /\ buffer # "none" /\ Pushed("menu", "type")
  /\ OpenChild("menu", c, c)
  /\ UNCHANGED <<latch, stick, surface>>

MenuBack(c) ==
  /\ Returned("menu", c)
  /\ Goto("menu", "loop") /\ Clear("menu", {"type"})
  /\ UNCHANGED <<stick, surface, failed>>

(* Light sleep, on Enter or after 30 s, until a button wakes the chip: the *)
(* panel is set up anew.                                                   *)
MenuSleep ==
  /\ place["menu"] = "loop" /\ buffer # "none" /\ ~Pushed("menu", "type")
  /\ Clear("menu", {"type", "enter"})
  /\ \E ok \in BOOLEAN :
       /\ Spend(ok) /\ cached' = ok
       /\ buffer' = IF ok THEN "full" ELSE "none"
  /\ UNCHANGED <<control, stick>>

---------------------------------------------------------------------------
(* contact_book.hpp, and the dialogs of action_runners.hpp.                *)

ContactsAt(l) == place["contacts"] = l

ContactsCreate ==
  /\ ContactsAt("create")
  /\ \E o \in {"full", "reduced", "none"} :
       /\ Recreate(o)
       /\ IF o = "none" THEN End("contacts") ELSE Goto("contacts", "fetch")
  /\ UNCHANGED <<latch, stick>>

(* Back while the list is fetched.                                         *)
ContactsCancel ==
  /\ ContactsAt("fetch") /\ Pushed("contacts", "back")
  /\ End("contacts") /\ UNCHANGED <<latch, stick, surface, failed>>

(* The list has come over BLE, or the HTTP request is over.                *)
ContactsFetched ==
  /\ ContactsAt("fetch")
  /\ \/ Goto("contacts", "loop") /\ UNCHANGED <<surface, failed>>
     \/ \E o \in {"full", "reduced", "none"} :
          /\ Recreate(o)
          /\ IF o = "none" THEN End("contacts") ELSE Goto("contacts", "loop")
  /\ UNCHANGED <<latch, stick>>

ContactsLeave ==
  /\ ContactsAt("loop") /\ BackOrLeft("contacts")
  /\ End("contacts") /\ UNCHANGED <<latch, stick, surface, failed>>

ContactsPick ==
  /\ ContactsAt("loop") /\ ~BackOrLeft("contacts") /\ Pushed("contacts", "type")

ContactsAdd ==
  /\ ContactsPick
  /\ Clear("contacts", Button) /\ UNCHANGED <<control, stick, surface, failed>>

ContactsPending ==
  /\ ContactsPick /\ Goto("contacts", "pending")
  /\ Clear("contacts", Button) /\ UNCHANGED <<stick, surface, failed>>

ContactsOpenBox ==
  /\ ContactsPick /\ OpenChild("contacts", "box", "box")
  /\ UNCHANGED <<latch, stick, surface>>

ContactsBoxBack ==
  /\ Returned("contacts", "box")
  /\ \E o \in {"full", "reduced", "none"} :
       /\ Recreate(o)
       /\ IF o = "none" THEN End("contacts") /\ UNCHANGED latch
          ELSE Goto("contacts", "loop") /\ Clear("contacts", {"type"})
  /\ UNCHANGED stick

(* The list of requests: left or Back leaves, Type or Enter asks about one *)
(* of them if there is any.                                                *)
PendingLeave ==
  /\ ContactsAt("pending") /\ BackOrLeft("contacts")
  /\ Goto("contacts", "loop") /\ Clear("contacts", Button)
  /\ UNCHANGED <<stick, surface, failed>>

PendingSelect ==
  /\ ContactsAt("pending") /\ ~BackOrLeft("contacts")
  /\ Pushed("contacts", "type") \/ Pushed("contacts", "enter")
  /\ Goto("contacts", "confirm") /\ Clear("contacts", Button)
  /\ UNCHANGED <<stick, surface, failed>>

(* The question is answered; nothing is cleared.                           *)
ConfirmAnswer ==
  /\ ContactsAt("confirm")
  /\ stick \/ \E b \in Button : Pushed("contacts", b)
  /\ Goto("contacts", "pending") /\ Act("contacts", "confirm")
  /\ UNCHANGED <<stick, surface, failed>>

---------------------------------------------------------------------------
(* message_box.hpp.                                                        *)

BoxAt(l) == place["box"] = l

BoxCreate ==
  /\ BoxAt("create")
  /\ \E o \in {"full", "reduced", "none"} :
       Recreate(o) /\ IF o = "none" THEN End("box") ELSE Goto("box", "load")
  /\ UNCHANGED <<latch, stick>>

(* The history over BLE, or over HTTP with the sprite released meanwhile,  *)
(* whose failure to come back is not looked at.                            *)
BoxLoad ==
  /\ BoxAt("load") /\ Goto("box", "loop")
  /\ \/ UNCHANGED <<surface, failed>>
     \/ \E o \in {"full", "reduced", "none"} : Recreate(o)
  /\ UNCHANGED <<latch, stick>>

BoxLeave ==
  /\ BoxAt("loop") /\ Pushed("box", "back")
  /\ End("box") /\ UNCHANGED <<latch, stick, surface, failed>>

BoxCompose ==
  /\ BoxAt("loop") /\ ~Pushed("box", "back") /\ Pushed("box", "type")
  /\ buffer' = "none" /\ Goto("box", "talk")
  /\ UNCHANGED <<latch, stick, cached, failed>>

(* start_talk_task has returned, and has deleted its sprite.               *)
BoxTalkDone ==
  /\ BoxAt("talk")
  /\ \E o \in {"full", "reduced", "none"} :
       /\ Recreate(o)
       /\ IF o = "none" THEN End("box") /\ UNCHANGED latch
          ELSE Goto("box", "refresh") /\ Clear("box", {"type"})
  /\ UNCHANGED stick

BoxPoll ==
  /\ BoxAt("loop") /\ ~Pushed("box", "back") /\ ~Pushed("box", "type")
  /\ Goto("box", "refresh") /\ UNCHANGED <<latch, stick, surface, failed>>

(* refresh_history.                                                        *)
BoxRefresh ==
  /\ BoxAt("refresh")
  /\ \/ Goto("box", "loop") /\ UNCHANGED <<surface, failed>>
     \/ \E o \in {"full", "reduced", "none"} :
          Recreate(o) /\ IF o = "none" THEN End("box") ELSE Goto("box", "loop")
  /\ UNCHANGED <<latch, stick>>

---------------------------------------------------------------------------
(* setting_menu.hpp, and the dialogs of dialog_runners.hpp.                *)

SettingsAt(l) == place["settings"] = l

SettingsCreate ==
  /\ SettingsAt("create") /\ Goto("settings", "loop")
  /\ \E o \in {"full", "none"} : Create(o)
  /\ UNCHANGED <<latch, stick>>

SettingsLeave ==
  /\ SettingsAt("loop") /\ BackOrLeft("settings")
  /\ End("settings") /\ UNCHANGED <<latch, stick, surface, failed>>

SettingsPick ==
  /\ SettingsAt("loop") /\ ~BackOrLeft("settings") /\ Pushed("settings", "type")

(* Vibration clears all Buttons, auto update, develop and the profile all  *)
(* but Enter; Enter is not read here.                                      *)
SettingsToggle ==
  /\ SettingsPick /\ Clear("settings", {"type", "back"})
  /\ UNCHANGED <<control, stick, surface, failed>>

(* RTC: P2P_Display makes its own sprite.                                  *)
SettingsRtc ==
  /\ SettingsPick /\ Clear("settings", Button)
  /\ \E o \in {"full", "none"} : Create(o)
  /\ UNCHANGED <<control, stick>>

(* Update now and a confirmed factory reset restart the device.            *)
Restart ==
  /\ place' = [t \in Task |-> IF t = "menu" THEN "loop" ELSE "off"]
  /\ flag' = [c \in Screen |-> FALSE] /\ tasks' = [c \in Screen |-> FALSE]
  /\ stack' = [c \in Screen |-> c \notin HeapStack]
  /\ latch' = [t \in Task |-> Fresh]
  /\ buffer' = "none" /\ cached' = FALSE /\ UNCHANGED <<stick, failed>>

SettingsUpdateNow == SettingsPick /\ Restart

(* A dialog clears the Buttons before its loop; the Bluetooth one clears   *)
(* Type only.                                                              *)
SettingsDialog(d) ==
  /\ SettingsPick /\ Goto("settings", d)
  /\ Clear("settings", CASE d = "bluetooth" -> {"type"}
                         [] d \in {"manifest", "firmware"} -> {"type", "back"}
                         [] OTHER -> Button)
  /\ UNCHANGED <<stick, surface, failed>>

(* What leaves a dialog, and which Buttons it clears then.                 *)
Asks(d) ==
  LET p(b) == Pushed("settings", b)
  IN  CASE d = "language" -> p("type") \/ p("enter") \/ p("back") \/ stick
        [] d = "sound" -> p("enter") \/ p("back")
        [] d = "bootsound" -> ~p("enter") /\ (p("back") \/ stick)
        [] d = "manifest" -> p("type") \/ p("back") \/ stick
        [] d = "firmware" -> p("type") \/ p("back")
        [] d = "bluetooth" -> p("back") \/ stick
        [] d = "factory" -> p("type") \/ p("enter") \/ p("back")

(* Mutant: leaving the boot sound dialog clears what it reads to leave.    *)
LeavesClearForgets(d) ==
  CASE d \in {"bluetooth", "factory"} -> {}
    [] d \in {"manifest", "firmware"} -> {"type", "back"}
    [] d = "bootsound" -> {"type", "enter"}
    [] OTHER -> Button

LeavesClear(d) ==
  CASE d \in {"bluetooth", "factory"} -> {}
    [] d \in {"manifest", "firmware"} -> {"type", "back"}
    [] OTHER -> Button

DialogLeave(d) ==
  /\ SettingsAt(d) /\ Asks(d)
  /\ Goto("settings", "loop")
  /\ latch' = [latch EXCEPT !["settings"] =
                 [b \in Button |-> IF b \in LeavesClear(d) THEN "no"
                                   ELSE IF @[b] = "new" THEN d ELSE @[b]]]
  /\ UNCHANGED <<stick, surface, failed>>

(* Type toggles the sound; Enter plays a preview of the boot sound.        *)
DialogAct(d, b) ==
  /\ <<d, b>> \in {<<"sound", "type">>, <<"bootsound", "enter">>}
  /\ SettingsAt(d) /\ Pushed("settings", b) /\ ~Asks(d)
  /\ Clear("settings", {b}) /\ UNCHANGED <<control, stick, surface, failed>>

(* Pairing starts (the sprite makes room for the stack) or stops.          *)
BluetoothToggle ==
  /\ SettingsAt("bluetooth") /\ ~BackOrLeft("settings")
  /\ Pushed("settings", "type") \/ Pushed("settings", "enter")
  /\ Clear("settings", {"type", "enter"})
  /\ UNCHANGED <<surface, failed>> \/ \E o \in {"full", "none"} : Create(o)
  /\ UNCHANGED <<control, stick>>

FactoryReset ==
  /\ SettingsAt("factory") /\ ~Pushed("settings", "back")
  /\ Pushed("settings", "type") \/ Pushed("settings", "enter")
  /\ Restart

(* start_wifi_setting_task sets the flag once more after the creation; the *)
(* new task has the same priority and core, so a tick may come between.    *)
SettingsOpen(c) ==
  /\ SettingsPick
  /\ OpenChild("settings", c, IF c = "wifi" /\ ~tasks[c] THEN "wifi_created" ELSE c)
  /\ IF c = "openchat" THEN Clear("settings", Button) ELSE UNCHANGED latch
  /\ UNCHANGED <<stick, surface>>

WifiFlag ==
  /\ SettingsAt("wifi_created")
  /\ place' = [place EXCEPT !["settings"] = "wifi"] /\ flag' = [flag EXCEPT !["wifi"] = TRUE]
  /\ UNCHANGED <<tasks, stack, latch, stick, surface, failed>>

SettingsBack(c) ==
  /\ Returned("settings", c)
  /\ Goto("settings", "loop")
  /\ CASE c = "wifi" -> Clear("settings", {"type"})
       [] c = "composer" -> Clear("settings", {"type", "back"})
       [] OTHER -> UNCHANGED latch
  /\ UNCHANGED <<stick, surface, failed>>

---------------------------------------------------------------------------
(* The screens whose insides are elsewhere: game.hpp, wifi_setting.hpp,    *)
(* open_chat.hpp, composer.hpp.                                            *)

Leaf == {"game", "wifi", "openchat", "composer"}

(* The Wi-Fi screen gives up without a surface; the others go on.          *)
LeafCreate(c) ==
  /\ place[c] = "create"
  /\ CASE c = "wifi" ->
            \E ok \in BOOLEAN :
              Ensure(ok) /\ IF ok THEN Goto(c, "loop") ELSE End(c)
       [] c = "openchat" -> Goto(c, "loop") /\ \E ok \in BOOLEAN : Ensure(ok)
       [] OTHER -> Goto(c, "loop") /\ \E o \in {"full", "none"} : Create(o)
  /\ UNCHANGED <<latch, stick>>

(* Mutant: the Composer does not look at Back.                             *)
LeafLeaveStays(c) ==
  /\ place[c] = "loop" /\ c # "composer"
  /\ Pushed(c, "back") \/ (c \in {"game", "wifi"} /\ stick)
  /\ End(c) /\ UNCHANGED <<latch, stick, surface, failed>>

LeafLeave(c) ==
  /\ place[c] = "loop"
  /\ Pushed(c, "back") \/ (c \in {"game", "wifi"} /\ stick)
  /\ End(c) /\ UNCHANGED <<latch, stick, surface, failed>>

(* A press the screen uses for itself; in the game Back may be one, the    *)
(* others look at Back first.                                              *)
LeafUse(c, b) ==
  /\ place[c] = "loop" /\ Pushed(c, b)
  /\ c = "game" \/ ~Pushed(c, "back")
  /\ Clear(c, {b}) /\ UNCHANGED <<control, stick, surface, failed>>

---------------------------------------------------------------------------

MenuStep ==
  \/ MenuSurface \/ MenuSleep
  \/ \E c \in Children("menu") : MenuOpen(c) \/ MenuBack(c)

(* What the book and its dialogs do without being asked by the network.    *)
ContactsStep ==
  \/ ContactsCreate \/ ContactsCancel \/ ContactsFetched \/ ContactsLeave
  \/ ContactsAdd \/ ContactsPending \/ ContactsOpenBox \/ ContactsBoxBack
  \/ PendingLeave \/ PendingSelect \/ ConfirmAnswer \/ Close("contacts")

BoxStep ==
  \/ BoxCreate \/ BoxLoad \/ BoxLeave \/ BoxCompose \/ BoxTalkDone
  \/ BoxPoll \/ BoxRefresh \/ Close("box")

SettingsStep ==
  \/ SettingsCreate \/ SettingsLeave \/ SettingsToggle \/ SettingsRtc
  \/ SettingsUpdateNow \/ WifiFlag \/ BluetoothToggle \/ FactoryReset
  \/ \E d \in Dialog : SettingsDialog(d) \/ DialogLeave(d)
  \/ \E d \in Dialog, b \in Button : DialogAct(d, b)
  \/ \E c \in Children("settings") : SettingsOpen(c) \/ SettingsBack(c)
  \/ Close("settings")

LeafStep(c) ==
  \/ LeafCreate(c) \/ LeafLeave(c) \/ Close(c)
  \/ \E b \in Button : LeafUse(c, b)

UserPress ==
  \/ StickLeft \/ StickCentre
  \/ \E t \in Task, b \in Button : Press(t, b)

ScreensNext ==
  \/ MenuStep \/ ContactsStep \/ BoxStep \/ SettingsStep
  \/ \E c \in Leaf : LeafStep(c)
  \/ UserPress

(* Every task polls or runs; the user need not do anything.                *)
ScreensSpec ==
  /\ ScreensInit /\ [][ScreensNext]_screenVars
  /\ WF_screenVars(MenuStep) /\ WF_screenVars(ContactsStep) /\ WF_screenVars(BoxStep)
  /\ WF_screenVars(SettingsStep)
  /\ \A c \in Leaf : WF_screenVars(LeafStep(c))

---------------------------------------------------------------------------

(* The type invariant.                                                     *)
ScreensTypeOK ==
  /\ \A t \in Task :
       place[t] \in {"off", "create", "load", "talk", "refresh", "wifi_created", "closing"}
                  \cup Polling(t) \cup Children(t)
  /\ {flag, tasks, stack} \subseteq [Screen -> BOOLEAN]
  /\ latch \in [Task -> [Button -> {"no", "new", "confirm"} \cup Dialog]]
  /\ stick \in BOOLEAN /\ cached \in BOOLEAN
  /\ buffer \in {"none", "full", "reduced"} /\ failed \in 0..MaxFailed

(* A task that polls a screen's running_flag will see it cleared: the flag *)
(* is clear, or the screen runs and clears it when it ends, however often  *)
(* the screen was opened before and however it ended.  The Composer keeps  *)
(* the flag when it cannot be created, and the Wi-Fi screen's flag is set  *)
(* once more by its starter: those two waits can hang.                     *)
NoOrphanWait ==
  \A p \in Parents, c \in Screen \ {"composer", "wifi"} :
    place[p] = c /\ flag[c] => place[c] # "off"

(* One press is acted on by one screen: when a list is back in front, no   *)
(* press an inner dialog has acted on is still latched in the Buttons the  *)
(* two share.  The Bluetooth and factory reset dialogs and the answer to a *)
(* friend request do leave it, so that Back closes the list as well and    *)
(* Type opens the dialog again.                                            *)
PressActsOnce ==
  \A t \in {"contacts", "settings"}, b \in Button :
    place[t] \in {"loop", "pending"} =>
      latch[t][b] \in {"no", "new", "bluetooth", "factory", "confirm"}

(* A menu left without a sprite, because a screen released it and could    *)
(* not get it back before it ended, has one again in the end.              *)
SurfaceComesBack == place["menu"] = "loop" /\ buffer = "none" ~> buffer # "none"

(* Back closes the screen in front, and the task that opened it leaves its *)
(* wait.                                                                   *)
BackGoesBack ==
  \A p \in Parents : \A c \in Children(p) \ {"game"} :
    place[c] = "loop" /\ Pushed(c, "back") ~> place[c] = "off" /\ place[p] # c

===========================================================================
