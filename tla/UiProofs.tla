----------------------------- MODULE UiProofs ------------------------------
(***************************************************************************)
(* The screens.  Type correctness, WritesReachSpeaker, SpeakerReleased and *)
(* SaveIsAsked of Sound, for any number of song slots and of failed calls; *)
(* type correctness, NoOrphanWait and PressActsOnce of Screens, for any    *)
(* number of failed allocations.                                           *)
(*                                                                         *)
(* The argument for Sound: every writer of samples belongs to a screen     *)
(* that does not go away before its writer has, stop_tone and the          *)
(* Composer's wait see to that; and only the screen, or the writer itself  *)
(* at its end, takes the channel away.  The peer-to-peer screen, which     *)
(* leaves without stop_tone when it is not keying, has then no tone task   *)
(* and has started nothing.                                                *)
(*                                                                         *)
(* For Screens: a parent that waits has created its child or cleared the   *)
(* flag, and the child takes its flag down before it ends (Family); every  *)
(* dialog but those named clears, at its end, the latches it shares with   *)
(* its list (Pressed).                                                     *)
(***************************************************************************)
EXTENDS Sound, Screens, TLAPS

\* Where the writers are, and what the channel is while they write.
Writers ==
  /\ handle <=> tone # "none"
  /\ handle => at \in {"keyer", "stopping"}
  /\ player # "none" => at \in {"composer", "dialog", "exit"}
  /\ tone \in {"new", "write", "fade"} => chan = "on"
  /\ player = "write" => chan = "on"
  /\ at \in {"tone", "stream"} \/ (at = "sequence" /\ on) => chan = "on"

\* The channel is off, or only a streamed preview or a failed boot tone left it on.
Released == chan = "on" => leftOn

\* When a screen that could be left at once has not used the channel.
Unused ==
  /\ at \in {"boot", "home"} => Released
  /\ at \in {"composer", "dialog", "exit"} /\ player \in {"none", "new", "deleted"} => Released
  /\ at = "keyer" /\ kind = "p2p" /\ ~keying => ~handle /\ Released
  /\ at = "stopping" /\ kind = "p2p" => then \in {"disable", "close"}

\* In the dialog the latched press is one made there.
DialogPress == at = "dialog" => enter \in {"no", "here", "nodata"}

IInv == TypeOK /\ Writers /\ Unused /\ DialogPress

\* Every step keeps the types.
LEMMA TypeStep == TypeOK /\ [Next]_vars => TypeOK'
<1> SUFFICES ASSUME TypeOK, [Next]_vars PROVE TypeOK'
  OBVIOUS
<1> USE SoundAssumption
<1> USE DEF TypeOK, Kinds, Patterns, screen, speaker, composer
<1>1. ASSUME NEW k \in Kinds, OpenKeyer(k) PROVE TypeOK'
  BY <1>1 DEF OpenKeyer, Open, Fail
<1>2. CASE KeyDown
  <2>1. keying' \in BOOLEAN /\ handle' \in BOOLEAN /\ running' \in BOOLEAN /\ bad' \in BOOLEAN
    BY <1>2 DEF KeyDown, StartTone, Enable, Open, Fail
  <2> QED
    BY <2>1, <1>2 DEF KeyDown, StartTone, Enable, Open, Fail
<1>3. CASE KeyUp
  BY <1>3 DEF KeyUp, StopThen
<1>4. CASE NextGame
  <2>1. keying' \in BOOLEAN
    BY <1>4 DEF NextGame
  <2> QED
    BY <2>1, <1>4 DEF NextGame
<1>5. CASE LeaveKeyer
  <2>1. running' \in BOOLEAN
    BY <1>5 DEF LeaveKeyer, StopThen
  <2> QED
    BY <2>1, <1>5 DEF LeaveKeyer, StopThen
<1>6. CASE Preview
  BY <1>6 DEF Preview, Play, Enable, Open, Fail
<1>7. CASE SoundSetting
  BY <1>7 DEF SoundSetting
<1>8. CASE OpenComposer
  <2>1. abort' \in BOOLEAN /\ back' \in BOOLEAN
    BY <1>8 DEF OpenComposer
  <2> QED
    BY <2>1, <1>8 DEF OpenComposer
<1>9. CASE PressEnter
  BY <1>9 DEF PressEnter, Settled
<1>10. CASE PressBack
  BY <1>10 DEF PressBack, Settled
<1>11. CASE Edit
  BY <1>11 DEF Edit, Settled
<1>12. CASE DialogMove
  BY <1>12 DEF DialogMove, Settled
<1>13. CASE DialogType
  BY <1>13 DEF DialogType, Settled
<1>14. CASE StopReturns
  <2>1. keying' \in BOOLEAN /\ leftOn' \in BOOLEAN
    BY <1>14 DEF StopReturns, Disable, Delete
  <2> QED
    BY <2>1, <1>14 DEF StopReturns, Disable, Delete
<1>15. CASE BootTone
  BY <1>15 DEF BootTone, Play, Enable, Open, Fail
<1>16. CASE Played
  <2>1. leftOn' \in BOOLEAN
    BY <1>16 DEF Played, Disable, Fail
  <2> QED
    BY <2>1, <1>16 DEF Played, Disable, Fail
<1>17. CASE OpenDialog
  BY <1>17 DEF OpenDialog
<1>18. CASE DialogBack
  BY <1>18 DEF DialogBack
<1>19. CASE DialogConfirm
  BY <1>19 DEF DialogConfirm
<1>20. CASE PlaySong
  BY <1>20 DEF PlaySong, Fail
<1>21. CASE LeaveComposer
  BY <1>21 DEF LeaveComposer
<1>22. CASE ComposerGone
  <2>1. back' \in BOOLEAN
    BY <1>22 DEF ComposerGone
  <2> QED
    BY <2>1, <1>22 DEF ComposerGone
<1>23. CASE ToneStart
  <2>1. running' \in BOOLEAN /\ leftOn' \in BOOLEAN
    BY <1>23 DEF ToneStart, Disable, Fail
  <2> QED
    BY <2>1, <1>23 DEF ToneStart, Disable, Fail
<1>24. CASE ToneStop
  BY <1>24 DEF ToneStop, Fail
<1>25. CASE ToneEnd
  <2>1. handle' \in BOOLEAN
    BY <1>25 DEF ToneEnd
  <2> QED
    BY <2>1, <1>25 DEF ToneEnd
<1>26. CASE PlayerStart
  BY <1>26 DEF PlayerStart, Enable, Open, Fail
<1>27. CASE PlayerStop
  BY <1>27 DEF PlayerStop
<1>28. CASE PlayerDeinit
  <2>1. leftOn' \in BOOLEAN
    BY <1>28 DEF PlayerDeinit, Delete
  <2> QED
    BY <2>1, <1>28 DEF PlayerDeinit, Delete
<1>29. CASE PlayerEnd
  BY <1>29 DEF PlayerEnd
<1>30. CASE UNCHANGED vars
  BY <1>30 DEF vars
<1> QED
  BY <1>1, <1>2, <1>3, <1>4, <1>5, <1>6, <1>7, <1>8, <1>9, <1>10, <1>11, <1>12, <1>13,
     <1>14, <1>15, <1>16, <1>17, <1>18, <1>19, <1>20, <1>21, <1>22, <1>23, <1>24,
     <1>25, <1>26, <1>27, <1>28, <1>29, <1>30
  DEF Next, UserStep, ScreenStep, ToneStep, PlayerStep

\* Every step keeps a channel under its writer, and the writer in its screen.
LEMMA WritersStep == IInv /\ [Next]_vars => Writers'
<1> SUFFICES ASSUME IInv, [Next]_vars PROVE Writers'
  OBVIOUS
<1> USE DEF IInv, TypeOK, Writers, Unused, Kinds, screen, speaker, composer
<1>1. ASSUME NEW k \in Kinds, OpenKeyer(k) PROVE Writers'
  BY <1>1 DEF OpenKeyer, Open, Fail
<1>2. CASE KeyDown
  BY <1>2 DEF KeyDown, StartTone, Enable, Open, Fail
<1>3. CASE KeyUp
  BY <1>3 DEF KeyUp, StopThen
<1>4. CASE NextGame
  BY <1>4 DEF NextGame
<1>5. CASE LeaveKeyer
  BY <1>5 DEF LeaveKeyer, StopThen
<1>6. CASE Preview
  BY <1>6 DEF Preview, Play, Enable, Open, Fail
<1>7. CASE SoundSetting
  BY <1>7 DEF SoundSetting
<1>8. CASE OpenComposer
  BY <1>8 DEF OpenComposer
<1>9. CASE PressEnter
  BY <1>9 DEF PressEnter, Settled
<1>10. CASE PressBack
  BY <1>10 DEF PressBack, Settled
<1>11. CASE Edit
  BY <1>11 DEF Edit, Settled
<1>12. CASE DialogMove
  BY <1>12 DEF DialogMove, Settled
<1>13. CASE DialogType
  BY <1>13 DEF DialogType, Settled
<1>14. CASE StopReturns
  BY <1>14 DEF StopReturns, Disable, Delete
<1>15. CASE BootTone
  BY <1>15 DEF BootTone, Play, Enable, Open, Fail
<1>16. CASE Played
  BY <1>16 DEF Played, Disable, Fail
<1>17. CASE OpenDialog
  BY <1>17 DEF OpenDialog
<1>18. CASE DialogBack
  BY <1>18 DEF DialogBack
<1>19. CASE DialogConfirm
  BY <1>19 DEF DialogConfirm
<1>20. CASE PlaySong
  BY <1>20 DEF PlaySong, Fail
<1>21. CASE LeaveComposer
  BY <1>21 DEF LeaveComposer
<1>22. CASE ComposerGone
  BY <1>22 DEF ComposerGone
<1>23. CASE ToneStart
  BY <1>23 DEF ToneStart, Disable, Fail
<1>24. CASE ToneStop
  BY <1>24 DEF ToneStop, Fail
<1>25. CASE ToneEnd
  BY <1>25 DEF ToneEnd
<1>26. CASE PlayerStart
  BY <1>26 DEF PlayerStart, Enable, Open, Fail
<1>27. CASE PlayerStop
  BY <1>27 DEF PlayerStop
<1>28. CASE PlayerDeinit
  BY <1>28 DEF PlayerDeinit, Delete
<1>29. CASE PlayerEnd
  BY <1>29 DEF PlayerEnd
<1>30. CASE UNCHANGED vars
  BY <1>30 DEF vars
<1> QED
  BY <1>1, <1>2, <1>3, <1>4, <1>5, <1>6, <1>7, <1>8, <1>9, <1>10, <1>11, <1>12, <1>13,
     <1>14, <1>15, <1>16, <1>17, <1>18, <1>19, <1>20, <1>21, <1>22, <1>23, <1>24,
     <1>25, <1>26, <1>27, <1>28, <1>29, <1>30
  DEF Next, UserStep, ScreenStep, ToneStep, PlayerStep

\* Every step that makes a screen one that can be left has released the channel.
LEMMA UnusedStep == IInv /\ [Next]_vars => (Unused /\ DialogPress)'
<1> SUFFICES ASSUME IInv, [Next]_vars PROVE (Unused /\ DialogPress)'
  OBVIOUS
<1> USE DEF IInv, TypeOK, Writers, Unused, DialogPress, Released, Kinds, screen, speaker,
            composer
<1>1. ASSUME NEW k \in Kinds, OpenKeyer(k) PROVE (Unused /\ DialogPress)'
  BY <1>1 DEF OpenKeyer, Open, Fail
<1>2. CASE KeyDown
  BY <1>2 DEF KeyDown, StartTone, Enable, Open, Fail
<1>3. CASE KeyUp
  BY <1>3 DEF KeyUp, StopThen
<1>4. CASE NextGame
  BY <1>4 DEF NextGame
<1>5. CASE LeaveKeyer
  BY <1>5 DEF LeaveKeyer, StopThen
<1>6. CASE Preview
  BY <1>6 DEF Preview, Play, Enable, Open, Fail
<1>7. CASE SoundSetting
  BY <1>7 DEF SoundSetting
<1>8. CASE OpenComposer
  BY <1>8 DEF OpenComposer
<1>9. CASE PressEnter
  BY <1>9 DEF PressEnter, Settled
<1>10. CASE PressBack
  BY <1>10 DEF PressBack, Settled
<1>11. CASE Edit
  BY <1>11 DEF Edit, Settled
<1>12. CASE DialogMove
  BY <1>12 DEF DialogMove, Settled
<1>13. CASE DialogType
  BY <1>13 DEF DialogType, Settled
<1>14. CASE StopReturns
  BY <1>14 DEF StopReturns, Disable, Delete
<1>15. CASE BootTone
  BY <1>15 DEF BootTone, Play, Enable, Open, Fail
<1>16. CASE Played
  BY <1>16 DEF Played, Disable, Fail
<1>17. CASE OpenDialog
  BY <1>17 DEF OpenDialog
<1>18. CASE DialogBack
  BY <1>18 DEF DialogBack
<1>19. CASE DialogConfirm
  BY <1>19 DEF DialogConfirm
<1>20. CASE PlaySong
  BY <1>20 DEF PlaySong, Fail
<1>21. CASE LeaveComposer
  BY <1>21 DEF LeaveComposer
<1>22. CASE ComposerGone
  BY <1>22 DEF ComposerGone
<1>23. CASE ToneStart
  BY <1>23 DEF ToneStart, Disable, Fail
<1>24. CASE ToneStop
  BY <1>24 DEF ToneStop, Fail
<1>25. CASE ToneEnd
  BY <1>25 DEF ToneEnd
<1>26. CASE PlayerStart
  BY <1>26 DEF PlayerStart, Enable, Open, Fail
<1>27. CASE PlayerStop
  BY <1>27 DEF PlayerStop
<1>28. CASE PlayerDeinit
  BY <1>28 DEF PlayerDeinit, Delete
<1>29. CASE PlayerEnd
  BY <1>29 DEF PlayerEnd
<1>30. CASE UNCHANGED vars
  BY <1>30 DEF vars
<1> QED
  BY <1>1, <1>2, <1>3, <1>4, <1>5, <1>6, <1>7, <1>8, <1>9, <1>10, <1>11, <1>12, <1>13,
     <1>14, <1>15, <1>16, <1>17, <1>18, <1>19, <1>20, <1>21, <1>22, <1>23, <1>24,
     <1>25, <1>26, <1>27, <1>28, <1>29, <1>30
  DEF Next, UserStep, ScreenStep, ToneStep, PlayerStep

\* The device boots with the channel closed.
LEMMA InitIInv == Init => IInv
<1> SUFFICES ASSUME Init PROVE IInv
  OBVIOUS
<1> USE SoundAssumption DEF Init
<1>1. TypeOK
  <2>1. /\ keying \in BOOLEAN /\ on \in BOOLEAN /\ bad \in BOOLEAN /\ leftOn \in BOOLEAN
        /\ handle \in BOOLEAN /\ running \in BOOLEAN /\ abort \in BOOLEAN /\ back \in BOOLEAN
    OBVIOUS
  <2> QED
    BY <2>1 DEF TypeOK, Patterns
<1>2. Writers /\ Unused /\ DialogPress
  BY DEF Writers, Unused, Released, DialogPress
<1> QED
  BY <1>1, <1>2 DEF IInv

\* The strengthening is preserved by every step.
LEMMA NextIInv == IInv /\ [Next]_vars => IInv'
  BY TypeStep, WritersStep, UnusedStep DEF IInv

\* The strengthening is an invariant of the specification.
THEOREM Invariance == Spec => []IInv
  BY InitIInv, NextIInv, PTL DEF Spec

\* Every variable holds a value of its kind in every reachable state.
THEOREM TypeCorrect == Spec => []TypeOK
<1>1. IInv => TypeOK
  BY DEF IInv
<1> QED
  BY <1>1, Invariance, PTL

\* No task writes samples to a channel that was deleted or stopped under it.
THEOREM WritesReach == Spec => []WritesReachSpeaker
<1>1. IInv => WritesReachSpeaker
  BY DEF IInv, Writers, WritesReachSpeaker
<1> QED
  BY <1>1, Invariance, PTL

\* A screen that was left leaves no task that plays and no clock that runs,
\* but for that of a streamed preview or of a boot tone that failed.
THEOREM ReleasedAtHome == Spec => []SpeakerReleased
<1>1. IInv => SpeakerReleased
  BY DEF IInv, TypeOK, Writers, Unused, Released, SpeakerReleased
<1> QED
  BY <1>1, Invariance, PTL

\* A stored song is replaced only by a press that was made in the dialog.
THEOREM SavesAreAsked == Spec => SaveIsAsked
<1> DEFINE Asked == \A s \in 1..Slots : songs'[s] # songs[s] =>
                      s = slot /\ mode = "save" /\ enter \in {"here", "nodata"}
<1>1. IInv /\ [Next]_vars => [Asked]_vars
  <2> SUFFICES ASSUME IInv, Next PROVE Asked
    OBVIOUS
  <2>1. CASE DialogConfirm
    BY <2>1 DEF DialogConfirm, IInv, TypeOK, DialogPress
  <2>2. CASE ~DialogConfirm
    <3>1. songs' = songs
      BY <2>2 DEF Next, UserStep, ScreenStep, ToneStep, PlayerStep, composer, OpenKeyer, KeyDown,
           KeyUp, NextGame, LeaveKeyer, Preview, BootTone, Play, SoundSetting, OpenComposer,
           PressEnter, PressBack, Edit, DialogMove, DialogType, StopReturns, Played, OpenDialog,
           DialogBack, PlaySong, LeaveComposer, ComposerGone, ToneStart, ToneStop, ToneEnd,
           PlayerStart, PlayerStop, PlayerDeinit, PlayerEnd
    <3> QED
      BY <3>1
  <2> QED
    BY <2>1, <2>2
<1> QED
  BY <1>1, Invariance, PTL DEF Spec, SaveIsAsked

---------------------------------------------------------------------------
(* Screens.                                                                *)

\* The screens with a task of their own, all tasks, and the names that the steps use.
Screens7 == {"contacts", "settings", "game", "box", "wifi", "openchat", "composer"}
Tasks8 == {"menu"} \cup Screens7
Buttons == {"type", "back", "enter"}
Dialogs == {"language", "sound", "bootsound", "bluetooth", "manifest", "firmware", "factory"}
Marks == {"no", "new", "confirm"} \cup Dialogs
Inside == {"create", "load", "loop", "talk", "refresh", "fetch", "pending", "confirm"} \cup Dialogs
Places == Inside \cup {"off", "closing", "wifi_created"} \cup Screens7

\* What the arrays hold.
Shape ==
    /\ place \in [Tasks8 -> Places] /\ latch \in [Tasks8 -> [Buttons -> Marks]]
    /\ flag \in [Screens7 -> BOOLEAN] /\ tasks \in [Screens7 -> BOOLEAN]

\* A child that runs has its parent waiting for it, until it closes.  The Settings keep
\* their flag up to the end of the task; the others have given it back before.
Child(p, c) ==
    /\ place[c] # "off" /\ place[p] # c /\ ~(c = "wifi" /\ place[p] = "wifi_created") =>
         place[c] = "closing" /\ ~flag[c] /\ (place[p] = "closing" \/ latch[p]["type"] = "no")
    /\ place[c] \notin {"off", "closing"} => flag[c]
    /\ c = "settings" /\ place[c] = "closing" => flag[c]
    /\ c \notin {"settings", "wifi"} /\ place[c] = "closing" => ~flag[c]
    /\ tasks[c] => place[c] # "off"
    /\ c \notin {"composer", "wifi"} /\ place[p] = c /\ flag[c] => place[c] # "off"

\* The parents and the children.
Family ==
    /\ Child("menu", "contacts") /\ Child("menu", "settings") /\ Child("menu", "game")
    /\ Child("contacts", "box")
    /\ Child("settings", "wifi") /\ Child("settings", "openchat") /\ Child("settings", "composer")
    /\ place["settings"] = "openchat" => latch["settings"]["type"] = "no"

\* The sets of the model, written out.
LEMMA Names ==
    /\ Parents = {"menu", "contacts", "settings"}
    /\ Children("menu") = {"contacts", "settings", "game"}
    /\ Children("contacts") = {"box"}
    /\ Children("settings") = {"wifi", "openchat", "composer"}
    /\ \A t \in {"game", "box", "wifi", "openchat", "composer"} : Children(t) = {}
    /\ Screen = Screens7 /\ Task = Tasks8 /\ Button = Buttons /\ Dialog = Dialogs
<1>1. Screen = Screens7
  BY DEF Parents, Children, Screen, Screens7
<1> QED
  BY <1>1 DEF Task, Parents, Children, Tasks8, Button, Buttons, Dialog, Dialogs

\* A step that latches no press.
Quiet ==
    /\ latch' \in [Tasks8 -> [Buttons -> Marks]]
    /\ \A t \in Tasks8 : latch[t]["type"] = "no" => latch'[t]["type"] = "no"

\* A step that leaves the latches alone latches none.
LEMMA Unpressed == Shape /\ UNCHANGED latch => Quiet
  BY DEF Shape, Quiet

\* Neither does clearing some.
LEMMA Cleared ==
    ASSUME Shape, NEW t \in Tasks8, NEW bs, Clear(t, bs)
    PROVE  Quiet /\ ("type" \in bs => latch'[t]["type"] = "no")
  BY Names DEF Clear, Shape, Quiet, Buttons, Marks

\* A task that moves inside its screen changes nothing for parent or child.
LEMMA GoesOn ==
    ASSUME Shape, Family, NEW t \in Tasks8, NEW l \in Inside, Goto(t, l),
           place[t] \in Inside, Quiet
    PROVE  (Shape /\ Family)'
<1>1. l \in Places /\ place' = [place EXCEPT ![t] = l] /\ UNCHANGED <<flag, tasks>>
  BY DEF Goto, Places
<1>2. Shape'
  BY <1>1 DEF Shape, Quiet
<1>3. /\ l \notin {"off", "closing", "wifi_created"} \cup Screens7
      /\ place[t] \notin {"off", "closing", "wifi_created"} \cup Screens7
  BY DEF Inside, Dialogs, Screens7
<1>4. Family'
  BY <1>1, <1>3 DEF Shape, Family, Child, Tasks8, Screens7, Quiet
<1> QED
  BY <1>2, <1>4

\* Nor does one that only looks.
LEMMA Stays ==
    ASSUME Shape, Family, UNCHANGED <<place, flag, tasks>>, Quiet
    PROVE  (Shape /\ Family)'
  BY DEF Shape, Family, Child, Tasks8, Screens7, Quiet

\* The end of a task: its flag is down and nobody waits for it.
LEMMA Ends ==
    ASSUME Shape, Family, NEW t \in Screens7, End(t),
           place[t] \in Inside \/ (t = "contacts" /\ Returned("contacts", "box")), Quiet
    PROVE  (Shape /\ Family)'
<1>1. /\ place' = [place EXCEPT ![t] = "closing"]
      /\ IF t = "settings" THEN tasks' = [tasks EXCEPT ![t] = FALSE] /\ UNCHANGED flag
         ELSE flag' = [flag EXCEPT ![t] = FALSE] /\ UNCHANGED tasks
  BY DEF End
<1>2. Shape'
  BY <1>1 DEF Shape, Quiet, Places
<1>3. /\ place[t] \notin {"off", "closing", "wifi_created"}
      /\ place[t] \in Screens7 => t = "contacts" /\ place[t] = "box" /\ ~flag["box"]
  BY DEF Inside, Dialogs, Screens7, Returned
<1>4. Family'
  BY <1>1, <1>3 DEF Shape, Family, Child, Tasks8, Screens7, Quiet
<1> QED
  BY <1>2, <1>4

\* A task that closes has its flag down and its parent let go.
LEMMA Closes ==
    ASSUME Shape, Family, NEW c \in Screens7, Close(c)
    PROVE  (Shape /\ Family)'
<1>1. latch' = [latch EXCEPT ![c] = Fresh] /\ Fresh \in [Buttons -> Marks]
      /\ Fresh["type"] = "no"
  BY Names DEF Close, Fresh, Buttons, Marks
<1>2. Quiet
  BY <1>1 DEF Quiet, Shape, Tasks8
<1>3. /\ place[c] = "closing" /\ place' = [place EXCEPT ![c] = "off"]
      /\ tasks' = [tasks EXCEPT ![c] = FALSE]
      /\ flag' = IF c = "settings" THEN [flag EXCEPT ![c] = FALSE] ELSE flag
  BY DEF Close
<1>4. latch'[c]["type"] = "no"
  BY <1>1 DEF Shape, Tasks8
<1>5. Shape'
  BY <1>2, <1>3 DEF Shape, Quiet, Places
<1>6. Family'
  BY <1>2, <1>3, <1>4 DEF Shape, Family, Child, Tasks8, Screens7, Quiet
<1> QED
  BY <1>5, <1>6

\* A task that opens a child waits for it, with the flag up.
LEMMA Opens ==
    ASSUME Shape, Family, NEW p \in {"menu", "contacts", "settings"}, NEW c \in Children(p), NEW l,
           OpenChild(p, c, l), place[p] = "loop", latch[p]["type"] # "no",
           l = c \/ (c = "wifi" /\ l = "wifi_created"),
           Quiet, c = "openchat" => latch'[p]["type"] = "no"
    PROVE  (Shape /\ Family)'
<1>0. l \in Places /\ c \in Screens7 /\ p \in Tasks8 /\ {"create", c} \subseteq Places
  BY Names DEF Places, Inside, Screens7, Tasks8
<1>1. CASE tasks[c] /\ flag' = [flag EXCEPT ![c] = TRUE] /\ place' = [place EXCEPT ![p] = l]
           /\ UNCHANGED tasks
  <2>1. Shape'
    BY <1>0, <1>1 DEF Shape, Quiet
  <2>2. Family'
    BY <1>1, Names DEF Shape, Family, Child, Tasks8, Screens7
  <2> QED
    BY <2>1, <2>2
<1>2. CASE /\ ~tasks[c]
           /\ flag' = [flag EXCEPT ![c] = TRUE]
           /\ place' = [place EXCEPT ![p] = l, ![c] = "create"]
           /\ tasks' = [tasks EXCEPT ![c] = TRUE]
  <2>1. Shape'
    BY <1>0, <1>2 DEF Shape, Quiet
  <2>2. Family'
    BY <1>2, Names DEF Shape, Family, Child, Tasks8, Screens7, Quiet
  <2> QED
    BY <2>1, <2>2
<1>3. CASE /\ ~tasks[c] /\ UNCHANGED tasks
           /\ flag' = [flag EXCEPT ![c] = (c = "composer")] /\ place' = [place EXCEPT ![p] = c]
  <2>1. Shape'
    BY <1>0, <1>3 DEF Shape, Quiet
  <2>2. Family'
    BY <1>3, Names DEF Shape, Family, Child, Tasks8, Screens7, Quiet
  <2> QED
    BY <2>1, <2>2
<1> QED
  BY <1>1, <1>2, <1>3 DEF OpenChild

\* A task that comes back from a child finds it closing or gone.
LEMMA Returns ==
    ASSUME Shape, Family, NEW p \in {"menu", "contacts", "settings"}, NEW c \in Children(p),
           Returned(p, c), Goto(p, "loop"), latch'[p]["type"] = "no", Quiet
    PROVE  (Shape /\ Family)'
<1>1. place[p] = c /\ ~flag[c] /\ place' = [place EXCEPT ![p] = "loop"]
      /\ UNCHANGED <<flag, tasks>>
  BY DEF Returned, Goto
<1>2. Shape'
  BY <1>1 DEF Shape, Quiet, Places, Inside
<1>3. Family'
  BY <1>1, Names DEF Shape, Family, Child, Tasks8, Screens7, Quiet
<1> QED
  BY <1>2, <1>3

\* A press on a latch is one of the user.
LEMMA Presses ==
    ASSUME Shape, Family, NEW t \in Tasks8, NEW b \in Buttons, Press(t, b)
    PROVE  (Shape /\ Family)'
<1>1. /\ UNCHANGED <<place, flag, tasks>>
      /\ latch' = [latch EXCEPT ![t][b] = "new"]
      /\ place[t] \in Polling(t)
      /\ \A u \in Tasks8 \ {t} : place[u] = "off" \/ (place[u] \in Children(u) /\ flag[place[u]])
  BY Names DEF Press, AtRest, control
<1>2. place[t] \notin Screens7 \cup {"off", "closing", "wifi_created", "create"}
  BY <1>1, Names DEF Polling, Dialogs, Screens7
<1>3. \A u \in Tasks8 \ {t} : latch'[u]["type"] = "no" <=> latch[u]["type"] = "no"
  BY <1>1 DEF Shape
<1>4. Shape'
  BY <1>1 DEF Shape, Marks
<1>5. Family'
  BY <1>1, <1>2, <1>3, Names DEF Shape, Family, Child, Tasks8, Screens7
<1> QED
  BY <1>4, <1>5

\* A restart leaves the menu alone.
LEMMA Restarts ==
    ASSUME Restart
    PROVE  (Shape /\ Family)'
<1>1. Shape'
  BY Names DEF Shape, Restart, Fresh, Marks, Places, Inside
<1>2. Family'
  BY Names DEF Family, Child, Tasks8, Screens7, Restart, Fresh, Buttons
<1> QED
  BY <1>1, <1>2

\* A parent finds the flag down only when the child is closing.
LEMMA Flagged ==
    ASSUME Shape, Family, WifiFlag
    PROVE  (Shape /\ Family)'
<1>1. /\ place["settings"] = "wifi_created" /\ place' = [place EXCEPT !["settings"] = "wifi"]
      /\ flag' = [flag EXCEPT !["wifi"] = TRUE] /\ UNCHANGED <<tasks, latch>>
  BY DEF WifiFlag, SettingsAt
<1>2. Shape'
  BY <1>1 DEF Shape, Places, Screens7
<1>3. Family'
  BY <1>1 DEF Shape, Family, Child, Tasks8, Screens7
<1> QED
  BY <1>2, <1>3

\* The steps of the menu.
LEMMA MenuFamily == ASSUME Shape, Family, MenuStep PROVE (Shape /\ Family)'
<1>1. CASE MenuSurface
  BY <1>1, Stays, Unpressed DEF MenuSurface, control
<1>2. CASE MenuSleep
  BY <1>2, Stays, Cleared DEF MenuSleep, control, Tasks8
<1>3. ASSUME NEW c \in Children("menu"), MenuOpen(c) PROVE (Shape /\ Family)'
  BY <1>3, Opens, Unpressed, Names DEF MenuOpen, Pushed
<1>4. ASSUME NEW c \in Children("menu"), MenuBack(c) PROVE (Shape /\ Family)'
  BY <1>4, Returns, Cleared DEF MenuBack, Tasks8
<1> QED
  BY <1>1, <1>2, <1>3, <1>4 DEF MenuStep

\* The steps of the contacts.
LEMMA ContactsFamily == ASSUME Shape, Family, ContactsStep PROVE (Shape /\ Family)'
<1> USE DEF ContactsAt
<1>0. "contacts" \in Screens7 /\ "contacts" \in Tasks8
  BY DEF Screens7, Tasks8
<1>1. CASE ContactsCreate \/ ContactsCancel \/ ContactsFetched \/ ContactsLeave
  <2>1. End("contacts") \/ \E l \in {"fetch", "loop"} : Goto("contacts", l)
    BY <1>1 DEF ContactsCreate, ContactsCancel, ContactsFetched, ContactsLeave
  <2>2. place["contacts"] \in {"create", "fetch", "loop"} /\ Quiet
    BY <1>1, Unpressed DEF ContactsCreate, ContactsCancel, ContactsFetched, ContactsLeave
  <2>3. place["contacts"] \in Inside /\ {"fetch", "loop"} \subseteq Inside
    BY <2>2 DEF Inside
  <2> QED
    BY <1>0, <2>1, <2>2, <2>3, Ends, GoesOn
<1>2. CASE ContactsAdd
  BY <1>0, <1>2, Stays, Cleared DEF ContactsAdd, control
<1>3. CASE ContactsPending \/ PendingLeave \/ PendingSelect
  <2>1. \E l \in {"pending", "loop", "confirm"} : Goto("contacts", l)
    BY <1>3 DEF ContactsPending, PendingLeave, PendingSelect
  <2>2. place["contacts"] \in {"loop", "pending"} /\ Quiet
    BY <1>0, <1>3, Cleared DEF ContactsPending, ContactsPick, PendingLeave, PendingSelect
  <2>3. place["contacts"] \in Inside /\ {"pending", "loop", "confirm"} \subseteq Inside
    BY <2>2 DEF Inside
  <2> QED
    BY <1>0, <2>1, <2>2, <2>3, GoesOn
<1>4. CASE ConfirmAnswer
  <2>1. Goto("contacts", "pending") /\ place["contacts"] = "confirm"
    BY <1>4 DEF ConfirmAnswer
  <2>2. Quiet
    BY <1>0, <1>4, Names DEF ConfirmAnswer, Act, Quiet, Shape, Buttons, Marks
  <2>3. {"pending", "confirm"} \subseteq Inside
    BY DEF Inside
  <2> QED
    BY <1>0, <2>1, <2>2, <2>3, GoesOn
<1>5. CASE ContactsOpenBox
  BY <1>5, Opens, Unpressed, Names DEF ContactsOpenBox, ContactsPick, Pushed
<1>6. CASE ContactsBoxBack
  <2>1. CASE End("contacts") /\ UNCHANGED latch
    BY <1>0, <1>6, <2>1, Ends, Unpressed DEF ContactsBoxBack
  <2>2. CASE Goto("contacts", "loop") /\ Clear("contacts", {"type"})
    BY <1>0, <1>6, <2>2, Returns, Cleared, Names DEF ContactsBoxBack
  <2> QED
    BY <1>6, <2>1, <2>2 DEF ContactsBoxBack
<1>7. CASE Close("contacts")
  BY <1>0, <1>7, Closes
<1> QED
  BY <1>1, <1>2, <1>3, <1>4, <1>5, <1>6, <1>7 DEF ContactsStep

\* The steps of the message box.
LEMMA BoxFamily == ASSUME Shape, Family, BoxStep PROVE (Shape /\ Family)'
<1> USE DEF BoxAt
<1>0. "box" \in Screens7 /\ "box" \in Tasks8
  BY DEF Screens7, Tasks8
<1>1. CASE BoxCreate \/ BoxLoad \/ BoxLeave \/ BoxCompose \/ BoxTalkDone
           \/ BoxPoll \/ BoxRefresh
  <2>1. End("box") \/ \E l \in {"load", "loop", "talk", "refresh"} : Goto("box", l)
    BY <1>1 DEF BoxCreate, BoxLoad, BoxLeave, BoxCompose, BoxTalkDone, BoxPoll,
       BoxRefresh
  <2>2. place["box"] \in {"create", "load", "loop", "talk", "refresh"}
    BY <1>1 DEF BoxCreate, BoxLoad, BoxLeave, BoxCompose, BoxTalkDone, BoxPoll,
       BoxRefresh
  <2>3. UNCHANGED latch \/ Clear("box", {"type"})
    BY <1>1 DEF BoxCreate, BoxLoad, BoxLeave, BoxCompose, BoxTalkDone, BoxPoll,
       BoxRefresh
  <2>4. Quiet
    BY <1>0, <2>3, Cleared, Unpressed
  <2>5. place["box"] \in Inside /\ {"load", "loop", "talk", "refresh"} \subseteq Inside
    BY <2>2 DEF Inside
  <2> QED
    BY <1>0, <2>1, <2>4, <2>5, Ends, GoesOn
<1>2. CASE Close("box")
  BY <1>0, <1>2, Closes
<1> QED
  BY <1>1, <1>2 DEF BoxStep

\* The steps of the settings.
LEMMA SettingsFamily == ASSUME Shape, Family, SettingsStep PROVE (Shape /\ Family)'
<1> USE DEF SettingsAt
<1>0. "settings" \in Screens7 /\ "settings" \in Tasks8
  BY DEF Screens7, Tasks8
<1>1. CASE SettingsCreate \/ SettingsLeave
  <2>1. End("settings") \/ Goto("settings", "loop")
    BY <1>1 DEF SettingsCreate, SettingsLeave
  <2>2. place["settings"] \in {"create", "loop"} /\ Quiet
    BY <1>1, Unpressed DEF SettingsCreate, SettingsLeave
  <2>3. place["settings"] \in Inside /\ "loop" \in Inside
    BY <2>2 DEF Inside
  <2> QED
    BY <1>0, <2>1, <2>2, <2>3, Ends, GoesOn
<1>2. CASE SettingsToggle \/ SettingsRtc \/ BluetoothToggle
  BY <1>0, <1>2, Stays, Cleared DEF SettingsToggle, SettingsRtc, BluetoothToggle, control
<1>3. CASE SettingsUpdateNow \/ FactoryReset
  BY <1>3, Restarts DEF SettingsUpdateNow, FactoryReset
<1>4. CASE WifiFlag
  BY <1>4, Flagged
<1>5. ASSUME NEW d \in Dialog, SettingsDialog(d) PROVE (Shape /\ Family)'
  <2>1. Goto("settings", d) /\ place["settings"] = "loop" /\ Quiet
    BY <1>0, <1>5, Cleared DEF SettingsDialog, SettingsPick
  <2>2. d \in Inside /\ "loop" \in Inside
    BY Names DEF Inside
  <2> QED
    BY <1>0, <2>1, <2>2, GoesOn
<1>6. ASSUME NEW d \in Dialog, DialogLeave(d) PROVE (Shape /\ Family)'
  <2>1. Goto("settings", "loop") /\ place["settings"] = d
    BY <1>6 DEF DialogLeave
  <2>2. Quiet
    BY <1>0, <1>6, Names DEF DialogLeave, Quiet, Shape, Buttons, Marks
  <2>3. d \in Inside /\ "loop" \in Inside
    BY Names DEF Inside
  <2> QED
    BY <1>0, <2>1, <2>2, <2>3, GoesOn
<1>7. ASSUME NEW d \in Dialog, NEW b \in Button, DialogAct(d, b) PROVE (Shape /\ Family)'
  BY <1>0, <1>7, Stays, Cleared DEF DialogAct, control
<1>8. ASSUME NEW c \in Children("settings"), SettingsOpen(c) PROVE (Shape /\ Family)'
  <2>1. Clear("settings", Button) \/ (c # "openchat" /\ UNCHANGED latch)
    BY <1>8 DEF SettingsOpen
  <2>2. Quiet /\ (c = "openchat" => latch'["settings"]["type"] = "no")
    BY <1>0, <2>1, Cleared, Unpressed, Names DEF Buttons
  <2>3. place["settings"] = "loop" /\ latch["settings"]["type"] # "no"
    BY <1>8 DEF SettingsOpen, SettingsPick, Pushed
  <2>4. OpenChild("settings", c, IF c = "wifi" /\ ~tasks[c] THEN "wifi_created" ELSE c)
    BY <1>8 DEF SettingsOpen
  <2> QED
    BY <2>2, <2>3, <2>4, Opens
<1>9. ASSUME NEW c \in Children("settings"), SettingsBack(c) PROVE (Shape /\ Family)'
  <2>1. \/ Clear("settings", {"type"}) \/ Clear("settings", {"type", "back"})
        \/ (c = "openchat" /\ UNCHANGED latch)
    BY <1>9, Names DEF SettingsBack
  <2>2. Quiet
    BY <1>0, <2>1, Cleared, Unpressed
  <2>3. latch'["settings"]["type"] = "no"
    BY <1>0, <1>9, <2>1, Cleared DEF SettingsBack, Returned, Family
  <2> QED
    BY <1>9, <2>2, <2>3, Returns DEF SettingsBack
<1>10. CASE Close("settings")
  BY <1>0, <1>10, Closes
<1> QED
  BY <1>1, <1>2, <1>3, <1>4, <1>5, <1>6, <1>7, <1>8, <1>9, <1>10 DEF SettingsStep

\* The steps of the screens that open none.
LEMMA LeafFamily == ASSUME Shape, Family, NEW c \in Leaf, LeafStep(c) PROVE (Shape /\ Family)'
<1>0. c \in Screens7 /\ c \in Tasks8
  BY DEF Leaf, Screens7, Tasks8
<1>1. CASE LeafCreate(c) \/ LeafLeave(c)
  <2>1. End(c) \/ Goto(c, "loop")
    BY <1>1 DEF LeafCreate, LeafLeave, Leaf
  <2>2. place[c] \in {"create", "loop"} /\ Quiet
    BY <1>1, Unpressed DEF LeafCreate, LeafLeave
  <2>3. place[c] \in Inside /\ "loop" \in Inside
    BY <2>2 DEF Inside
  <2> QED
    BY <1>0, <2>1, <2>2, <2>3, Ends, GoesOn
<1>2. CASE Close(c)
  BY <1>0, <1>2, Closes
<1>3. ASSUME NEW b \in Button, LeafUse(c, b) PROVE (Shape /\ Family)'
  BY <1>0, <1>3, Stays, Cleared DEF LeafUse, control
<1> QED
  BY <1>1, <1>2, <1>3 DEF LeafStep

\* The steps of the user.
LEMMA UserFamily == ASSUME Shape, Family, UserPress PROVE (Shape /\ Family)'
<1>1. CASE StickLeft \/ StickCentre
  BY <1>1, Stays, Unpressed DEF StickLeft, StickCentre, control
<1>2. ASSUME NEW t \in Task, NEW b \in Button, Press(t, b) PROVE (Shape /\ Family)'
  BY <1>2, Presses, Names
<1> QED
  BY <1>1, <1>2 DEF UserPress

\* Every step keeps the families.
LEMMA ShapeStep == ASSUME Shape, Family, [ScreensNext]_screenVars PROVE (Shape /\ Family)'
<1>1. CASE UNCHANGED screenVars
  BY <1>1, Stays, Unpressed DEF screenVars, control
<1> QED
  BY <1>1, MenuFamily, ContactsFamily, BoxFamily, SettingsFamily, LeafFamily,
     UserFamily DEF ScreensNext

\* What the latches of the settings hold: a press that nothing acted on, or one that the
\* Bluetooth or the factory reset dialog leaves.
Kept == {"no", "new", "bluetooth", "factory"}

\* What the shared latches hold.  An Enter that nothing acted on was pressed in a dialog
\* that clears it at its end.
Pressed ==
    /\ \A b \in Buttons : latch["contacts"][b] \in {"no", "new", "confirm"}
    /\ \A b \in Buttons : latch["settings"][b] \in Kept
    /\ place["settings"] \notin Dialogs \ {"manifest", "firmware"} =>
         latch["settings"]["enter"] # "new"

\* A step that only takes presses away.
OnlyReleased ==
    \A t \in {"contacts", "settings"}, b \in Buttons : latch'[t][b] \in {"no", latch[t][b]}

\* Clearing takes presses away.
LEMMA ClearReleases ==
    ASSUME Shape, NEW t \in Tasks8, NEW bs, Clear(t, bs)
    PROVE  OnlyReleased
  BY Names DEF Clear, Shape, Tasks8, Screens7, OnlyReleased

\* Closing takes them all away.
LEMMA CloseReleases ==
    ASSUME Shape, NEW t \in Tasks8, Close(t)
    PROVE  OnlyReleased /\ \A b \in Buttons : latch'[t][b] = "no"
<1>1. latch' = [latch EXCEPT ![t] = Fresh]
  BY DEF Close
<1>2. \A b \in Buttons : Fresh[b] = "no"
  BY Names DEF Fresh
<1> QED
  BY <1>1, <1>2 DEF Shape, Tasks8, Screens7, OnlyReleased

\* no settings dialog is left or closed
LEMMA Elsewhere ==
    ASSUME Pressed, OnlyReleased,
           place["settings"] \notin Dialogs \ {"manifest", "firmware"}
             \/ place'["settings"] = place["settings"]
    PROVE  Pressed'
  BY DEF Pressed, OnlyReleased, Kept, Dialogs, Buttons

\* Leaving the latches alone takes nothing away, either.
LEMMA SameReleases == UNCHANGED latch => OnlyReleased
  BY DEF OnlyReleased

\* What Goto does to one place.
LEMMA MovePlace ==
    ASSUME NEW t, t # "settings", NEW l, Shape,
           Goto(t, l) \/ End(t) \/ Close(t)
    PROVE  place'["settings"] = place["settings"]
  BY DEF Goto, End, Close, Shape, Tasks8, Screens7

\* The presses over the steps of the menu.
LEMMA MenuPressed == ASSUME Shape, Family, Pressed, MenuStep PROVE Pressed'
<1>1. OnlyReleased
  BY ClearReleases, SameReleases DEF MenuStep, MenuSurface, MenuSleep, MenuOpen,
     MenuBack, Tasks8
<1>2. place'["settings"] = place["settings"] \/ place["settings"] \notin Dialogs
  <2>1. ASSUME NEW c \in {"contacts", "settings", "game"}, MenuOpen(c)
        PROVE  place'["settings"] = place["settings"] \/ place["settings"] \notin Dialogs
    <3>1. place["menu"] = "loop" /\ OpenChild("menu", c, c)
      BY <2>1 DEF MenuOpen
    <3>2. CASE place' = [place EXCEPT !["menu"] = c]
      BY <3>2 DEF Shape, Tasks8, Screens7
    <3>3. CASE ~tasks[c] /\ place' = [place EXCEPT !["menu"] = c, ![c] = "create"]
      <4>1. c = "settings" => place["settings"] \in {"off", "closing"}
        BY <3>1 DEF Family, Child
      <4> QED
        BY <3>3, <4>1 DEF Shape, Tasks8, Screens7, Dialogs
    <3> QED
      BY <3>1, <3>2, <3>3 DEF OpenChild
  <2> QED
    BY <2>1, MovePlace, Names DEF MenuStep, MenuSurface, MenuSleep, MenuBack, control
<1> QED
  BY <1>1, <1>2, Elsewhere

\* The presses over the steps of the contacts.
LEMMA ContactsPressed == ASSUME Shape, Pressed, ContactsStep PROVE Pressed'
<1>0. "contacts" \in Tasks8
  BY DEF Tasks8, Screens7
<1>1. place'["settings"] = place["settings"]
  <2>1. CASE ContactsOpenBox
    BY <2>1 DEF ContactsOpenBox, OpenChild, Shape, Tasks8, Screens7
  <2>2. CASE ContactsAdd
    BY <2>2 DEF ContactsAdd, control
  <2>3. CASE \/ Close("contacts") \/ End("contacts")
             \/ \E l \in {"loop", "fetch", "pending", "confirm"} : Goto("contacts", l)
    BY <2>3, MovePlace
  <2> QED
    BY <2>1, <2>2, <2>3 DEF ContactsStep, ContactsCreate, ContactsCancel,
       ContactsFetched, ContactsLeave, ContactsPending, ContactsBoxBack,
       PendingLeave, PendingSelect, ConfirmAnswer
<1>2. CASE ConfirmAnswer
  BY <1>1, <1>2, Names DEF ConfirmAnswer, Act, Shape, Tasks8, Screens7, Pressed, Buttons
<1>3. CASE UNCHANGED latch \/ (\E bs : Clear("contacts", bs)) \/ Close("contacts")
  BY <1>0, <1>1, <1>3, SameReleases, ClearReleases, CloseReleases, Elsewhere
<1> QED
  BY <1>2, <1>3 DEF ContactsStep, ContactsCreate, ContactsCancel,
     ContactsFetched, ContactsLeave, ContactsPending, ContactsBoxBack,
     PendingLeave, PendingSelect, ContactsAdd, ContactsOpenBox

\* The presses over the steps of the message box.
LEMMA BoxPressed == ASSUME Shape, Pressed, BoxStep PROVE Pressed'
<1> USE DEF BoxStep, BoxCreate, BoxLoad, BoxLeave, BoxCompose, BoxTalkDone,
            BoxPoll, BoxRefresh
<1>1. Close("box") \/ End("box") \/ \E l : Goto("box", l)
  OBVIOUS
<1>2. UNCHANGED latch \/ Clear("box", {"type"}) \/ Close("box")
  OBVIOUS
<1>3. "box" \in Tasks8
  BY DEF Tasks8, Screens7
<1> QED
  BY <1>1, <1>2, <1>3, MovePlace, SameReleases, ClearReleases, CloseReleases, Elsewhere

\* The presses over the steps of the screens that open none.
LEMMA LeafPressed == ASSUME Shape, Pressed, NEW c \in Leaf, LeafStep(c) PROVE Pressed'
<1>1. Close(c) \/ End(c) \/ (\E l : Goto(c, l)) \/ UNCHANGED place
  BY DEF LeafStep, LeafCreate, LeafLeave, LeafUse, control, Leaf
<1>2. UNCHANGED latch \/ (\E b : Clear(c, {b})) \/ Close(c)
  BY DEF LeafStep, LeafCreate, LeafLeave, LeafUse
<1>3. c \in Tasks8 /\ c # "settings"
  BY DEF Leaf, Tasks8, Screens7
<1> QED
  BY <1>1, <1>2, <1>3, MovePlace, SameReleases, ClearReleases, CloseReleases, Elsewhere

\* The presses over the steps of the settings.
LEMMA SettingsPressed == ASSUME Shape, Pressed, SettingsStep PROVE Pressed'
<1> USE DEF SettingsAt
<1>0. /\ "settings" \in Tasks8 /\ \A b : b \in Buttons => latch["settings"][b] \in Kept
      /\ "enter" \in Buttons
  BY DEF Tasks8, Screens7, Pressed, Buttons
<1>1. CASE SettingsCreate \/ SettingsLeave \/ SettingsToggle \/ SettingsRtc \/ WifiFlag
  <2>1. place["settings"] \notin Dialogs /\ (UNCHANGED latch \/ \E bs : Clear("settings", bs))
    BY <1>1 DEF SettingsCreate, SettingsLeave, SettingsToggle, SettingsRtc, WifiFlag,
       SettingsPick, Dialogs
  <2> QED
    BY <1>0, <2>1, SameReleases, ClearReleases, Elsewhere
<1>2. CASE SettingsUpdateNow \/ FactoryReset
  BY <1>2, Names DEF SettingsUpdateNow, FactoryReset, Restart, Fresh, Pressed, Kept,
     Tasks8, Screens7, Dialogs, Buttons
<1>3. CASE BluetoothToggle \/ \E d \in Dialog, b \in Button : DialogAct(d, b)
  <2>1. UNCHANGED place /\ \E bs : Clear("settings", bs)
    BY <1>3 DEF BluetoothToggle, DialogAct, control
  <2> QED
    BY <1>0, <2>1, ClearReleases, Elsewhere
<1>4. ASSUME NEW d \in Dialog, SettingsDialog(d) PROVE Pressed'
  <2>1. place["settings"] = "loop" /\ \E bs : Clear("settings", bs)
    BY <1>4 DEF SettingsDialog, SettingsPick
  <2> QED
    BY <1>0, <2>1, ClearReleases, Elsewhere DEF Dialogs
<1>5. ASSUME NEW d \in Dialog, DialogLeave(d) PROVE Pressed'
  <2>1. place["settings"] = d /\ place' = [place EXCEPT !["settings"] = "loop"]
    BY <1>5 DEF DialogLeave, Goto
  <2>2. /\ latch'["contacts"] = latch["contacts"]
        /\ \A b \in Buttons : latch'["settings"][b] =
             IF b \in LeavesClear(d) THEN "no"
             ELSE IF latch["settings"][b] = "new" THEN d ELSE latch["settings"][b]
    BY <1>5, Names DEF DialogLeave, Shape, Tasks8, Screens7
  <2>3. /\ d \in {"bluetooth", "factory"} \/ {"type", "back"} \subseteq LeavesClear(d)
        /\ d \in {"bluetooth", "factory", "manifest", "firmware"} \/ "enter" \in LeavesClear(d)
    BY Names DEF LeavesClear, Dialogs, Buttons
  <2>4. d \in {"manifest", "firmware"} => latch["settings"]["enter"] # "new"
    BY <2>1 DEF Pressed
  <2>5. \A b \in Buttons : latch'["settings"][b] \in Kept \ {"new"}
    <3>1. CASE d \in {"bluetooth", "factory"}
      BY <1>0, <2>2, <3>1 DEF Kept
    <3>2. CASE d \in {"manifest", "firmware"}
      BY <1>0, <2>2, <2>3, <2>4, <3>2 DEF Kept, Buttons
    <3>3. CASE Button \subseteq LeavesClear(d)
      BY <2>2, <3>3, Names DEF Kept
    <3> QED
      BY <2>3, <3>1, <3>2, <3>3, Names DEF Buttons
  <2> QED
    BY <1>0, <2>2, <2>5 DEF Pressed, Kept
<1>6. ASSUME NEW c \in Children("settings"), SettingsOpen(c) \/ SettingsBack(c)
      PROVE Pressed'
  <2>1. place["settings"] \in {"loop"} \cup Children("settings")
    BY <1>6 DEF SettingsOpen, SettingsPick, SettingsBack, Returned
  <2>2. UNCHANGED latch \/ \E bs : Clear("settings", bs)
    BY <1>6, Names DEF SettingsOpen, SettingsBack
  <2> QED
    BY <1>0, <2>1, <2>2, SameReleases, ClearReleases, Elsewhere, Names DEF Dialogs
<1>7. CASE Close("settings")
  <2>1. place["settings"] = "closing"
    BY <1>7 DEF Close
  <2> QED
    BY <1>0, <1>7, <2>1, CloseReleases, Elsewhere DEF Dialogs
<1> QED
  BY <1>1, <1>2, <1>3, <1>4, <1>5, <1>6, <1>7 DEF SettingsStep

\* The presses over the steps of the user.
LEMMA UserPressed == ASSUME Shape, Pressed, UserPress PROVE Pressed'
<1>1. CASE StickLeft \/ StickCentre
  BY <1>1, SameReleases, Elsewhere DEF StickLeft, StickCentre, control
<1>2. ASSUME NEW t \in Tasks8, NEW b \in Buttons, Press(t, b) PROVE Pressed'
  <2>1. UNCHANGED place /\ latch' = [latch EXCEPT ![t][b] = "new"] /\ b \in Reads(t)
        /\ place[t] \in Polling(t)
    BY <1>2 DEF Press, control, AtRest
  <2>2. t = "settings" /\ b = "enter" => place["settings"] \in Dialogs \ {"manifest", "firmware"}
    BY <2>1, Names DEF Polling, Reads, Dialogs
  <2> QED
    BY <2>1, <2>2 DEF Pressed, Shape, Tasks8, Screens7, Kept
<1> QED
  BY <1>1, <1>2, Names DEF UserPress

\* Every step keeps the presses with the screen they were made on.
LEMMA PressedStep == ASSUME Shape, Family, Pressed, [ScreensNext]_screenVars PROVE Pressed'
<1>1. CASE UNCHANGED screenVars
  BY <1>1, SameReleases, Elsewhere DEF screenVars, control
<1> QED
  BY <1>1, MenuPressed, ContactsPressed, BoxPressed, SettingsPressed, LeafPressed,
     UserPressed DEF ScreensNext

\* Where each task can be.
Spots(t) ==
    {"off", "create", "load", "talk", "refresh", "wifi_created", "closing"}
      \cup Polling(t) \cup Children(t)
SpotOK == \A t \in Tasks8 : place[t] \in Spots(t)

\* The types of the allocations.
SurfaceOK ==
    /\ stack \in [Screens7 -> BOOLEAN] /\ stick \in BOOLEAN /\ cached \in BOOLEAN
    /\ buffer \in {"none", "full", "reduced"} /\ failed \in 0..MaxFailed

\* What an allocation counts.
LEMMA SpendIs ==
    ASSUME failed \in 0..MaxFailed, NEW ok, Spend(ok)
    PROVE  failed' \in 0..MaxFailed
  BY ScreensAssumption DEF Spend

\* The steps that allocate nothing.
LEMMA SurfaceKept ==
    ASSUME SurfaceOK, UNCHANGED stack, stick' \in BOOLEAN,
           \/ UNCHANGED <<buffer, cached, failed>>
           \/ \E o : Recreate(o) \/ Create(o)
           \/ \E ok \in BOOLEAN : Ensure(ok)
           \/ buffer' = "none" /\ UNCHANGED <<cached, failed>>
    PROVE  SurfaceOK'
  BY ScreensAssumption, SpendIs DEF SurfaceOK, Recreate, Create, Ensure, surface

\* Every step keeps the types of the allocations.
LEMMA SurfaceStep ==
    ASSUME SurfaceOK, [ScreensNext]_screenVars
    PROVE  SurfaceOK'
<1> USE DEF surface, control
<1>0. stick \in BOOLEAN
  BY DEF SurfaceOK
<1>1. ASSUME NEW p, NEW c \in Screens7, NEW l, OpenChild(p, c, l), UNCHANGED <<stick, buffer, cached>>
      PROVE  SurfaceOK'
  BY <1>1, SpendIs DEF OpenChild, SurfaceOK
<1>2. CASE Restart
  BY <1>2, Names DEF Restart, SurfaceOK
<1>3. CASE MenuStep
  <2>1. CASE MenuSleep
    BY <2>1, SpendIs DEF MenuSleep, SurfaceOK
  <2>2. CASE MenuSurface
    BY <1>0, <2>2, SurfaceKept DEF MenuSurface
  <2>3. ASSUME NEW c \in Screens7, MenuOpen(c) \/ MenuBack(c) PROVE SurfaceOK'
    BY <1>0, <1>1, <2>3, SurfaceKept DEF MenuOpen, MenuBack, Goto
  <2> QED
    BY <1>3, <2>1, <2>2, <2>3, Names DEF MenuStep, Screens7
<1>4. CASE ContactsStep
  <2>1. CASE ContactsOpenBox
    BY <1>1, <2>1 DEF ContactsOpenBox, Screens7
  <2>2. CASE /\ UNCHANGED <<stack, stick>>
             /\ (\E o : Recreate(o)) \/ UNCHANGED <<buffer, cached, failed>>
    BY <1>0, <2>2, SurfaceKept
  <2> QED
    BY <1>4, <2>1, <2>2 DEF ContactsStep, ContactsCreate, ContactsCancel, ContactsAdd,
       ContactsFetched, ContactsLeave, ContactsPending, ContactsBoxBack,
       PendingLeave, PendingSelect, ConfirmAnswer, Goto, End, Close
<1>5. CASE BoxStep
  <2>1. UNCHANGED <<stack, stick>>
    BY <1>5 DEF BoxStep, BoxCreate, BoxLoad, BoxLeave, BoxCompose, BoxTalkDone,
       BoxPoll, BoxRefresh, Goto, End, Close
  <2>2. \/ (\E o : Recreate(o)) \/ UNCHANGED <<buffer, cached, failed>>
        \/ buffer' = "none" /\ UNCHANGED <<cached, failed>>
    BY <1>5 DEF BoxStep, BoxCreate, BoxLoad, BoxLeave, BoxCompose, BoxTalkDone,
       BoxPoll, BoxRefresh, Goto, End, Close
  <2> QED
    BY <1>0, <2>1, <2>2, SurfaceKept
<1>6. CASE SettingsStep
  <2>1. ASSUME NEW c \in Screens7, SettingsOpen(c) PROVE SurfaceOK'
    BY <1>1, <2>1 DEF SettingsOpen
  <2>2. CASE /\ UNCHANGED <<stack, stick>>
             /\ (\E o : Create(o)) \/ UNCHANGED <<buffer, cached, failed>>
    BY <1>0, <2>2, SurfaceKept
  <2>3. \/ \E c \in Children("settings") : SettingsOpen(c)
        \/ Restart
        \/ /\ UNCHANGED <<stack, stick>>
           /\ (\E o : Create(o)) \/ UNCHANGED <<buffer, cached, failed>>
    BY <1>6 DEF SettingsStep, SettingsCreate, SettingsLeave, SettingsToggle,
       SettingsRtc,
       SettingsUpdateNow, WifiFlag, BluetoothToggle, FactoryReset, SettingsDialog,
       DialogLeave, DialogAct, SettingsBack, Goto, End, Close
  <2> QED
    BY <1>2, <2>1, <2>2, <2>3, Names DEF Screens7
<1>7. ASSUME NEW c \in Leaf, LeafStep(c) PROVE SurfaceOK'
  <2>1. UNCHANGED <<stack, stick>>
    BY <1>7 DEF LeafStep, LeafCreate, LeafLeave, LeafUse, Leaf, Goto, End, Close
  <2>2. \/ (\E o : Create(o)) \/ (\E ok \in BOOLEAN : Ensure(ok))
        \/ UNCHANGED <<buffer, cached, failed>>
    BY <1>7 DEF LeafStep, LeafCreate, LeafLeave, LeafUse, Leaf, Close
  <2> QED
    BY <1>0, <2>1, <2>2, SurfaceKept
<1>8. CASE UserPress \/ UNCHANGED screenVars
  BY <1>0, <1>8, SurfaceKept DEF UserPress, StickLeft, StickCentre, Press, screenVars
<1> QED
  BY <1>3, <1>4, <1>5, <1>6, <1>7, <1>8 DEF ScreensNext

\* What Goto does to the place of a task, seen from another one.
LEMMA Moves ==
    ASSUME Shape, SpotOK, NEW t \in Tasks8, NEW l \in Spots(t),
           place' = [place EXCEPT ![t] = l]
    PROVE  SpotOK'
  BY DEF Shape, SpotOK, Spots

\* Every step keeps the places.
LEMMA SpotStep == ASSUME Shape, SpotOK, [ScreensNext]_screenVars PROVE SpotOK'
<1>1. ASSUME NEW t \in Tasks8, NEW l \in Spots(t), Goto(t, l) PROVE SpotOK'
  BY <1>1, Moves DEF Goto
<1>2. ASSUME NEW t \in Screens7, End(t) \/ Close(t) PROVE SpotOK'
  BY <1>2, Moves DEF End, Close, Spots, Tasks8
<1>3. ASSUME NEW p \in {"menu", "contacts", "settings"}, NEW c \in Children(p), NEW l \in Spots(p),
             OpenChild(p, c, l)
      PROVE  SpotOK'
  <2>1. p \in Tasks8 /\ c \in Tasks8 /\ c \in Spots(p) /\ "create" \in Spots(c)
    BY Names DEF Tasks8, Screens7, Spots
  <2>2. CASE place' = [place EXCEPT ![p] = l, ![c] = "create"]
    BY <2>1, <2>2 DEF Shape, SpotOK, Spots
  <2> QED
    BY <1>3, <2>1, <2>2, Moves DEF OpenChild
<1>4. CASE UNCHANGED place
  BY <1>4 DEF SpotOK, Spots
<1>5. CASE MenuStep
  <2>1. "menu" \in Tasks8 /\ "loop" \in Spots("menu") /\ Children("menu") \subseteq Spots("menu")
    BY DEF Tasks8, Spots, Polling
  <2>2. CASE MenuSurface \/ MenuSleep
    BY <1>4, <2>2 DEF MenuSurface, MenuSleep, control
  <2>3. ASSUME NEW c \in Children("menu"), MenuOpen(c) \/ MenuBack(c) PROVE SpotOK'
    BY <1>1, <1>3, <2>1, <2>3 DEF MenuOpen, MenuBack
  <2> QED
    BY <1>5, <2>2, <2>3 DEF MenuStep
<1>6. CASE ContactsStep
  <2>1. /\ "contacts" \in Tasks8 /\ "contacts" \in Screens7 /\ "box" \in Children("contacts")
        /\ {"loop", "fetch", "pending", "confirm", "box"} \subseteq Spots("contacts")
    BY Names DEF Tasks8, Screens7, Spots, Polling
  <2>2. \/ ContactsOpenBox \/ UNCHANGED place \/ Close("contacts") \/ End("contacts")
        \/ \E l \in {"loop", "fetch", "pending", "confirm"} : Goto("contacts", l)
    BY <1>6 DEF ContactsStep, ContactsCreate, ContactsCancel, control, ContactsAdd,
       ContactsFetched, ContactsLeave, ContactsPending, ContactsBoxBack,
       PendingLeave, PendingSelect, ConfirmAnswer
  <2> QED
    BY <1>1, <1>2, <1>3, <1>4, <2>1, <2>2 DEF ContactsOpenBox
<1>7. CASE BoxStep
  <2>1. /\ "box" \in Tasks8 /\ "box" \in Screens7
        /\ {"load", "loop", "talk", "refresh"} \subseteq Spots("box")
    BY DEF Tasks8, Screens7, Spots, Polling
  <2>2. \/ Close("box") \/ End("box")
        \/ \E l \in {"load", "loop", "talk", "refresh"} : Goto("box", l)
    BY <1>7 DEF BoxStep, BoxCreate, BoxLoad, BoxLeave, BoxCompose, BoxTalkDone,
            BoxPoll, BoxRefresh
  <2> QED
    BY <1>1, <1>2, <2>1, <2>2
<1>8. CASE SettingsStep
  <2>1. /\ "settings" \in Tasks8 /\ "settings" \in Screens7
        /\ {"loop", "wifi_created"} \subseteq Spots("settings")
        /\ Dialog \subseteq Spots("settings")
        /\ Children("settings") \subseteq Spots("settings") /\ "wifi" \in Spots("settings")
    BY Names DEF Tasks8, Screens7, Spots, Polling
  <2>2. \/ \E c \in Children("settings") : SettingsOpen(c)
        \/ UNCHANGED place \/ Close("settings") \/ End("settings")
        \/ \E l \in {"loop", "wifi"} \cup Dialog : place' = [place EXCEPT !["settings"] = l]
        \/ Restart
    BY <1>8 DEF SettingsStep, SettingsCreate, SettingsLeave, SettingsToggle,
       SettingsRtc,
       SettingsUpdateNow, WifiFlag, BluetoothToggle, FactoryReset, SettingsDialog,
       DialogLeave, DialogAct, SettingsBack, Goto, control
  <2>3. CASE \E c \in Children("settings") : SettingsOpen(c)
    BY <1>3, <2>1, <2>3 DEF SettingsOpen
  <2>4. CASE Restart
    BY <2>4, Names DEF Restart, SpotOK, Spots, Polling
  <2> QED
    BY <1>2, <1>4, <2>1, <2>2, <2>3, <2>4, Moves
<1>9. ASSUME NEW c \in Leaf, LeafStep(c) PROVE SpotOK'
  <2>1. c \in Tasks8 /\ c \in Screens7 /\ "loop" \in Spots(c)
    BY DEF Tasks8, Screens7, Spots, Polling, Leaf
  <2>2. Close(c) \/ End(c) \/ Goto(c, "loop") \/ UNCHANGED place
    BY <1>9 DEF LeafStep, LeafCreate, LeafLeave, LeafUse, control, Leaf
  <2> QED
    BY <1>1, <1>2, <1>4, <2>1, <2>2
<1>10. CASE UserPress \/ UNCHANGED screenVars
  BY <1>4, <1>10 DEF UserPress, StickLeft, StickCentre, Press, control, screenVars
<1> QED
  BY <1>5, <1>6, <1>7, <1>8, <1>9, <1>10 DEF ScreensNext

\* The inductive invariant of Screens.
ScreensInv == Shape /\ Family /\ Pressed /\ SpotOK

\* It holds at first.
LEMMA ScreensBegin == ScreensInit => ScreensInv
<1> SUFFICES ASSUME ScreensInit PROVE ScreensInv
  OBVIOUS
<1>1. \A b \in Buttons, t \in Tasks8 : latch[t][b] = "no"
  BY Names DEF ScreensInit, Fresh
<1>2. Shape
  BY Names DEF ScreensInit, Fresh, Shape, Marks, Places, Inside
<1>3. Family
  BY <1>1, Names DEF ScreensInit, Family, Child, Tasks8, Screens7, Buttons
<1>4. Pressed
  BY <1>1, Names DEF ScreensInit, Pressed, Tasks8, Screens7, Kept, Dialogs, Buttons
<1>5. SpotOK
  BY Names DEF ScreensInit, SpotOK, Spots, Polling
<1> QED
  BY <1>2, <1>3, <1>4, <1>5 DEF ScreensInv

\* It holds always.
LEMMA ScreensSafe == ScreensSpec => []ScreensInv
<1>1. ScreensInv /\ [ScreensNext]_screenVars => ScreensInv'
  BY ShapeStep, PressedStep, SpotStep DEF ScreensInv
<1> QED
  BY ScreensBegin, <1>1, PTL DEF ScreensSpec

\* NoOrphanWait of Screens: a task that waits for the flag of a screen waits for one
\* that runs and will clear it, whatever allocations failed.
THEOREM FlagIsCleared == ScreensSpec => []NoOrphanWait
<1>1. ScreensInv => NoOrphanWait
  <2> SUFFICES ASSUME ScreensInv, NEW p \in {"menu", "contacts", "settings"},
                      NEW c \in Screens7 \ {"composer", "wifi"}, place[p] = c, flag[c]
               PROVE  place[c] # "off"
    BY Names DEF NoOrphanWait
  <2>1. p \in Tasks8 /\ place[p] \in Spots(p)
    BY DEF ScreensInv, SpotOK, Tasks8, Screens7
  <2>2. c \in Children(p)
    BY <2>1, Names DEF Spots, Polling, Dialogs, Screens7
  <2> QED
    BY <2>2, Names DEF ScreensInv, Family, Child, Screens7
<1> QED
  BY <1>1, ScreensSafe, PTL

\* PressActsOnce: when a list is back in front, no press that an inner dialog acted on
\* is still latched, but for the dialogs that do leave theirs.
THEOREM PressIsOfOneScreen == ScreensSpec => []PressActsOnce
<1>1. ScreensInv => PressActsOnce
  BY Names DEF ScreensInv, Pressed, Kept, PressActsOnce
<1> QED
  BY <1>1, ScreensSafe, PTL

\* TypeOK of Screens.
THEOREM ScreensTyped == ScreensSpec => []ScreensTypeOK
<1>1. ScreensInit => SurfaceOK
  <2> SUFFICES ASSUME ScreensInit PROVE SurfaceOK
    OBVIOUS
  <2>1. stack \in [Screens7 -> BOOLEAN]
    BY Names DEF ScreensInit
  <2>2. stick \in BOOLEAN /\ cached \in BOOLEAN
    BY DEF ScreensInit
  <2>3. buffer = "none" /\ failed = 0
    BY DEF ScreensInit
  <2>4. failed \in 0..MaxFailed
    BY <2>3, ScreensAssumption
  <2> QED
    BY <2>1, <2>2, <2>3, <2>4 DEF SurfaceOK
<1>2. SurfaceOK /\ [ScreensNext]_screenVars => SurfaceOK'
  BY SurfaceStep
<1>3. ScreensInv /\ SurfaceOK => ScreensTypeOK
  BY Names DEF ScreensInv, SurfaceOK, ScreensTypeOK, SpotOK, Spots, Shape, Marks, Dialogs
<1> QED
  BY <1>1, <1>2, <1>3, ScreensSafe, PTL DEF ScreensSpec
===========================================================================
