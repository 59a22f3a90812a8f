------------------------------- MODULE Sound -------------------------------
(***************************************************************************)
(* The one loudspeaker (max98357a.hpp) and who uses it: the screens that   *)
(* key a tone (talk_display.hpp and the composer of an open chat are       *)
(* "talk", game.hpp, p2p_display.hpp), a received message played in Morse  *)
(* ("echo"), the song Composer with its player task and its Save/Load      *)
(* dialog (composer.hpp), the preview of a boot sound and the tone at      *)
(* boot.  A tone is written to the I2S channel by a task of its own, which *)
(* stop_tone waits for; a song by the player, which the Composer aborts    *)
(* and waits for when it is left.                                          *)
(*                                                                         *)
(* Every user of start_tone runs above the priority of the tone task and   *)
(* on its core, so that the handle is assigned before the task runs, and a *)
(* task that has cleared its handle is gone when the next key is read.  An *)
(* aborted player ends within one write of 200 ms, inside the 1500 ms the  *)
(* Composer waits.                                                         *)
(***************************************************************************)
EXTENDS Naturals

CONSTANTS
  Slots,    \* song slots (3 in the code)
  MaxFails  \* bound: allocations and driver calls that fail

ASSUME SoundAssumption == Slots \in Nat \ {0} /\ MaxFails \in Nat

Kinds == {"talk", "echo", "game", "p2p"}
Patterns == {"first", "other"}  \* the default groove, and an edited one

VARIABLES
  \* the task that has the screen
  at,      \* where it is
  kind,    \* the keying screen it is in
  then,    \* what follows when stop_tone returns
  keying,  \* tone_playing, tone_active
  \* the speaker
  on,      \* sound_settings::enabled, and a volume above 0
  chan,    \* tx_chan: none, off (initialized) or on (is_enabled)
  bad,     \* audio_blacklisted
  handle, running, \* tone_task_handle, tone_running
  tone, player,    \* where the tone task and the player are
  leftOn,          \* history: a streamed preview, or a boot tone that
                   \* failed, has left the channel on
  \* the Composer
  abort,           \* s_abort
  enter, back,     \* pushed of its buttons; Enter with the kind of press,
                   \* or here: made in the dialog, nodata: a load it asked
                   \* for found nothing
  pattern, songs,  \* the pattern edited, and song1 to song3
  mode, slot,      \* of the dialog
  fails

screen == <<at, kind, then, keying>>
speaker == <<on, chan, bad, handle, running, tone, player, leftOn>>
composer == <<abort, enter, back, pattern, songs, mode, slot>>
vars == <<screen, speaker, composer, fails>>

Init ==
  /\ at = "boot" /\ kind = "none" /\ then = "stay" /\ keying = FALSE
  /\ on \in BOOLEAN /\ chan = "none" /\ bad = FALSE /\ leftOn = FALSE
  /\ handle = FALSE /\ running = FALSE /\ tone = "none" /\ player = "none"
  /\ abort = FALSE /\ enter = "no" /\ back = FALSE
  /\ pattern = "first" /\ songs = [s \in 1..Slots |-> "empty"]
  /\ mode = "save" /\ slot = 1
  /\ fails = 0

---------------------------------------------------------------------------
(* max98357a.hpp                                                           *)

Fail == fails < MaxFails /\ fails' = fails + 1

(* init: an error but lack of memory bars the speaker until a reset.       *)
Open(ok) ==
  CASE bad -> ~ok /\ UNCHANGED <<chan, bad, fails>>
    [] ~bad /\ chan # "none" -> ok /\ UNCHANGED <<chan, bad, fails>>
    [] OTHER -> IF ok THEN chan' = "on" /\ UNCHANGED <<bad, fails>>
                ELSE Fail /\ bad' \in BOOLEAN /\ UNCHANGED chan

Enable(ok) ==
  IF chan # "none" /\ ~bad THEN ok /\ chan' = "on" /\ UNCHANGED <<bad, fails>>
  ELSE Open(ok)

Disable == chan' = (IF chan = "none" THEN "none" ELSE "off") /\ leftOn' = FALSE
Delete == chan' = "none" /\ leftOn' = FALSE

(* start_tone.  A task that has its handle goes on; a switched-off sound   *)
(* is a success without a task.  (The stack is allocated once; that it may *)
(* be missing later too is more than the code does.)                       *)
StartTone(ok) ==
  \/ /\ ~on /\ ok /\ UNCHANGED <<chan, bad, handle, running, tone, fails>>
  \/ /\ on /\ handle /\ Enable(ok) /\ UNCHANGED <<handle, running, tone>>
  \/ /\ on /\ ~handle /\ ~ok /\ Enable(FALSE) /\ UNCHANGED <<handle, running, tone>>
  \/ /\ on /\ ~handle /\ ok /\ Enable(TRUE)
     /\ handle' = TRUE /\ running' = TRUE /\ tone' = "new"
  \/ /\ on /\ ~handle /\ ~ok /\ chan # "none" /\ ~bad /\ Fail  \* no stack for the task
     /\ chan' = "on" /\ UNCHANGED <<bad, handle, running, tone>>

(* stop_tone asks the task to end and waits for its handle to be cleared.  *)
StopThen(t) ==
  /\ at' = "stopping" /\ then' = t
  /\ running' = (running /\ ~handle)
  /\ UNCHANGED <<chan, leftOn>>

ToneStart ==
  /\ tone = "new"
  /\ \/ tone' = "write" /\ UNCHANGED <<chan, leftOn, running, fails>>
     \/ Fail /\ tone' = "failed" /\ running' = FALSE /\ Disable  \* no buffer
  /\ UNCHANGED <<screen, on, bad, handle, player, composer>>

(* Asked to stop, or a write has failed.                                   *)
ToneStop ==
  /\ tone = "write" /\ tone' = "fade"
  /\ (~running /\ UNCHANGED fails) \/ (running /\ Fail)
  /\ UNCHANGED <<screen, on, chan, bad, handle, running, player, leftOn, composer>>

(* Mutant: a task that found no memory leaves its handle.                  *)
ToneEndKeeps ==
  /\ tone \in {"fade", "failed"}
  /\ tone' = "none" /\ handle' = (tone = "failed")
  /\ UNCHANGED <<screen, on, chan, bad, running, player, leftOn, composer, fails>>

ToneEnd ==
  /\ tone \in {"fade", "failed"}
  /\ tone' = "none" /\ handle' = FALSE
  /\ UNCHANGED <<screen, on, chan, bad, running, player, leftOn, composer, fails>>

---------------------------------------------------------------------------
(* The screens that key a tone.                                            *)

OpenKeyer(k) ==
  /\ at = "home" /\ at' = "keyer" /\ kind' = k
  /\ IF k = "p2p" THEN UNCHANGED <<chan, bad, fails>> ELSE \E ok \in BOOLEAN : Open(ok)
  /\ UNCHANGED <<then, keying, on, handle, running, tone, player, leftOn, composer>>

(* The talk screens key when they are not keying yet, and only if the tone *)
(* started; the others take it as started.                                 *)
KeyDown ==
  /\ at = "keyer" /\ (kind = "talk" => ~keying)
  /\ \E ok \in BOOLEAN : StartTone(ok) /\ keying' = (ok \/ kind # "talk")
  /\ UNCHANGED <<at, kind, then, on, player, leftOn, composer>>

KeyUp ==
  /\ at = "keyer" /\ keying
  /\ StopThen(IF kind \in {"game", "p2p"} THEN "disable" ELSE "stay")
  /\ UNCHANGED <<kind, keying, on, bad, handle, tone, player, composer, fails>>

(* The last letter of a game: tone_active is a new variable.               *)
NextGame ==
  /\ at = "keyer" /\ kind = "game" /\ keying /\ keying' = FALSE
  /\ UNCHANGED <<at, kind, then, speaker, composer, fails>>

(* Mutant: the channel is deleted without a stop_tone.                     *)
LeaveKeyerAtOnce ==
  /\ at = "keyer" /\ at' = "home" /\ kind' = "none" /\ keying' = FALSE
  /\ IF kind = "p2p" THEN Disable ELSE Delete
  /\ UNCHANGED <<then, on, bad, handle, running, tone, player, composer, fails>>

(* The peer-to-peer screen keeps the channel, and does not call stop_tone  *)
(* when it has started none.                                               *)
LeaveKeyer ==
  /\ at = "keyer"
  /\ IF kind = "p2p" /\ ~keying
     THEN at' = "home" /\ kind' = "none" /\ UNCHANGED <<then, running, chan, leftOn>>
     ELSE StopThen(IF kind = "p2p" THEN "close" ELSE "deinit") /\ UNCHANGED kind
  /\ UNCHANGED <<keying, on, bad, handle, tone, player, composer, fails>>

StopReturns ==
  /\ at = "stopping" /\ ~handle
  /\ at' = (IF then \in {"close", "deinit"} THEN "home" ELSE "keyer")
  /\ kind' = (IF at' = "home" THEN "none" ELSE kind)
  /\ then' = "stay" /\ keying' = FALSE
  /\ CASE then = "stay" -> UNCHANGED <<chan, leftOn>>
       [] then = "deinit" -> Delete
       [] OTHER -> Disable
  /\ UNCHANGED <<on, bad, handle, running, tone, player, composer, fails>>

---------------------------------------------------------------------------
(* One-shot sounds: the boot tone and the preview of a boot sound.         *)

(* Only play_sequence opens the channel with the sound off.                *)
Play(how) ==
  /\ \/ on /\ \E ok \in BOOLEAN : Enable(ok) /\ at' = IF ok THEN how ELSE "home"
     \/ ~on /\ how = "sequence" /\ at' = how /\ \E ok \in BOOLEAN : Open(ok)
     \/ ~on /\ how = "tone" /\ at' = "home" /\ UNCHANGED <<chan, bad, fails>>
  /\ UNCHANGED <<kind, then, keying, on, handle, running, tone, player, leftOn, composer>>

Preview == \E how \in {"sequence", "stream"} : at = "home" /\ Play(how)
BootTone == at = "boot" /\ Play("tone")

(* A sequence stops the channel at its end, whatever became of its notes.  *)
(* A stream does not, and a tone without a buffer, or whose write fails,   *)
(* returns before it would: nobody stops the channel after the boot tone.  *)
Played ==
  /\ at \in {"tone", "sequence", "stream"} /\ at' = "home"
  /\ \/ at # "stream" /\ Disable /\ UNCHANGED fails
     \/ at = "stream" /\ leftOn' = TRUE /\ UNCHANGED <<chan, fails>>
     \/ at = "tone" /\ Fail /\ leftOn' = TRUE /\ UNCHANGED chan
  /\ UNCHANGED <<kind, then, keying, on, bad, handle, running, tone, player, composer>>

(* The Sound dialog.                                                       *)
SoundSetting ==
  /\ at = "home" /\ on' = ~on
  /\ UNCHANGED <<screen, chan, bad, handle, running, tone, player, leftOn, composer, fails>>

---------------------------------------------------------------------------
(* composer.hpp                                                            *)

OpenComposer ==
  /\ at = "home" /\ at' = "composer"
  /\ abort' = FALSE /\ enter' = "no" /\ back' = FALSE /\ pattern' = "first"
  /\ UNCHANGED <<kind, then, keying, speaker, songs, mode, slot, fails>>

(* What is latched is acted on before the next gesture.                    *)
Settled ==
  CASE at = "composer" -> ~back /\ (enter = "no" \/ (enter = "short" /\ player # "none"))
    [] at = "dialog" -> ~back /\ (enter = "no" \/ (mode = "load" /\ songs[slot] = "empty"))
    [] OTHER -> FALSE

PressEnter ==
  /\ Settled
  /\ enter' \in (IF at = "composer" THEN {"short", "long"} ELSE {"here"})
  /\ UNCHANGED <<screen, speaker, abort, back, pattern, songs, mode, slot, fails>>

PressBack ==
  /\ Settled /\ back' = TRUE
  /\ UNCHANGED <<screen, speaker, abort, enter, pattern, songs, mode, slot, fails>>

(* Step, tempo, pitch, channel or a note of the pattern.                   *)
Edit ==
  /\ at = "composer" /\ Settled /\ pattern' = "other" /\ pattern # "other"
  /\ UNCHANGED <<screen, speaker, abort, enter, back, songs, mode, slot, fails>>

(* Mutant: the press that opened the dialog is not cleared.                *)
OpenDialogKeeps ==
  /\ at = "composer" /\ ~back /\ enter = "long"
  /\ at' = "dialog" /\ back' = FALSE /\ mode' = "save" /\ slot' = 1
  /\ UNCHANGED <<kind, then, keying, speaker, enter, abort, pattern, songs, fails>>

OpenDialog ==
  /\ at = "composer" /\ ~back /\ enter = "long"
  /\ at' = "dialog" /\ enter' = "no" /\ mode' = "save" /\ slot' = 1
  /\ UNCHANGED <<kind, then, keying, speaker, back, abort, pattern, songs, fails>>

DialogMove ==
  /\ at = "dialog" /\ Settled /\ slot' = (slot % Slots) + 1
  /\ UNCHANGED <<screen, speaker, abort, enter, back, pattern, songs, mode, fails>>

DialogType ==
  /\ at = "dialog" /\ Settled /\ mode' = (IF mode = "save" THEN "load" ELSE "save")
  /\ UNCHANGED <<screen, speaker, abort, enter, back, pattern, songs, slot, fails>>

(* Back stays latched, and the Composer sees it next.                      *)
DialogBack ==
  /\ at = "dialog" /\ back /\ at' = "composer" /\ enter' = "no"
  /\ UNCHANGED <<kind, then, keying, speaker, abort, back, pattern, songs, mode, slot, fails>>

(* A slot without a song is reported, and Enter stays latched.             *)
DialogConfirm ==
  /\ at = "dialog" /\ ~back /\ enter # "no"
  /\ \/ /\ mode = "save" /\ songs' = [songs EXCEPT ![slot] = pattern]
        /\ at' = "composer" /\ enter' = "no" /\ UNCHANGED pattern
     \/ /\ mode = "load" /\ songs[slot] # "empty" /\ pattern' = songs[slot]
        /\ at' = "composer" /\ enter' = "no" /\ UNCHANGED songs
     \/ /\ mode = "load" /\ songs[slot] = "empty" /\ enter # "nodata"
        /\ enter' = "nodata" /\ UNCHANGED <<at, pattern, songs>>
  /\ UNCHANGED <<kind, then, keying, speaker, abort, back, mode, slot, fails>>

(* Enter is not cleared: the song starts again when its player is gone.    *)
PlaySong ==
  /\ at = "composer" /\ ~back /\ enter = "short" /\ player = "none"
  /\ (player' = "new" /\ UNCHANGED fails) \/ (Fail /\ UNCHANGED player)
  /\ UNCHANGED <<screen, on, chan, bad, handle, running, tone, leftOn, composer>>

(* play_pcm_mono16_stream: nothing to write, or no buffers, or the song.   *)
PlayerStart ==
  /\ player = "new"
  /\ \/ ~on /\ player' = "over" /\ UNCHANGED <<chan, bad, fails>>
     \/ on /\ player' = "write" /\ Enable(TRUE)
     \/ on /\ player' = "over" /\ Enable(FALSE)
     \/ on /\ player' = "over" /\ chan # "none" /\ ~bad /\ Fail /\ chan' = "on" /\ UNCHANGED bad
  /\ UNCHANGED <<screen, on, handle, running, tone, leftOn, composer>>

(* The pattern is over, a write failed, or s_abort is set.                 *)
PlayerStop ==
  /\ player = "write" /\ player' = "over"
  /\ UNCHANGED <<screen, on, chan, bad, handle, running, tone, leftOn, composer, fails>>

(* deinit, over stop_tone.                                                 *)
PlayerDeinit ==
  /\ player = "over" /\ ~handle /\ player' = "deleted" /\ Delete
  /\ UNCHANGED <<screen, on, bad, handle, running, tone, composer, fails>>

PlayerEnd ==
  /\ player = "deleted" /\ player' = "none"
  /\ UNCHANGED <<screen, on, chan, bad, handle, running, tone, leftOn, composer, fails>>

LeaveComposer ==
  /\ at = "composer" /\ back /\ at' = "exit" /\ abort' = TRUE
  /\ UNCHANGED <<kind, then, keying, speaker, enter, back, pattern, songs, mode, slot, fails>>

(* Mutant: the player is not waited for.                                   *)
ComposerGoneNow ==
  /\ at = "exit" /\ at' = "home" /\ enter' = "no" /\ back' = FALSE
  /\ UNCHANGED <<kind, then, keying, speaker, abort, pattern, songs, mode, slot, fails>>

ComposerGone ==
  /\ at = "exit" /\ player = "none"
  /\ at' = "home" /\ enter' = "no" /\ back' = FALSE
  /\ UNCHANGED <<kind, then, keying, speaker, abort, pattern, songs, mode, slot, fails>>

---------------------------------------------------------------------------

UserStep ==
  \/ \E k \in Kinds : OpenKeyer(k)
  \/ KeyDown \/ KeyUp \/ NextGame \/ LeaveKeyer
  \/ Preview \/ SoundSetting \/ OpenComposer
  \/ PressEnter \/ PressBack \/ Edit \/ DialogMove \/ DialogType

(* What the task that has the screen does by itself.                       *)
ScreenStep ==
  \/ StopReturns \/ BootTone \/ Played
  \/ OpenDialog \/ DialogBack \/ DialogConfirm \/ PlaySong
  \/ LeaveComposer \/ ComposerGone

ToneStep == ToneStart \/ ToneStop \/ ToneEnd
PlayerStep == PlayerStart \/ PlayerStop \/ PlayerDeinit \/ PlayerEnd

Next == UserStep \/ ScreenStep \/ ToneStep \/ PlayerStep

(* The tasks run; the user need not do anything.  A song ends by itself.   *)
Spec ==
  /\ Init /\ [][Next]_vars
  /\ WF_vars(ScreenStep) /\ WF_vars(ToneStep) /\ WF_vars(PlayerStep)

---------------------------------------------------------------------------

(* The type invariant.                                                     *)
TypeOK ==
  /\ at \in {"boot", "home", "keyer", "stopping", "tone", "sequence", "stream",
             "composer", "dialog", "exit"}
  /\ kind \in Kinds \cup {"none"} /\ then \in {"stay", "disable", "close", "deinit"}
  /\ keying \in BOOLEAN /\ on \in BOOLEAN /\ bad \in BOOLEAN /\ leftOn \in BOOLEAN
  /\ handle \in BOOLEAN /\ running \in BOOLEAN /\ abort \in BOOLEAN /\ back \in BOOLEAN
  /\ chan \in {"none", "off", "on"}
  /\ tone \in {"none", "new", "write", "fade", "failed"}
  /\ player \in {"none", "new", "write", "over", "deleted"}
  /\ enter \in {"no", "short", "long", "here", "nodata"}
  /\ pattern \in Patterns /\ songs \in [1..Slots -> Patterns \cup {"empty"}]
  /\ mode \in {"save", "load"} /\ slot \in 1..Slots /\ fails \in 0..MaxFails

(* A task that writes samples writes them to a channel that exists and is  *)
(* enabled: no screen deletes or stops it under the tone task, the player  *)
(* or a one-shot sound, whichever calls failed before.                     *)
WritesReachSpeaker ==
  \/ tone \in {"write", "fade"} \/ player = "write"
  \/ at \in {"tone", "stream"} \/ (at = "sequence" /\ on)
  => chan = "on"

(* Back at the menus no task of a screen that was left still plays, and    *)
(* the clock of the amplifier is off.  Only the preview of a streamed boot *)
(* sound, and a boot tone that failed, leave it running.                   *)
SpeakerReleased ==
  at = "home" =>
    /\ tone = "none" /\ ~handle /\ player = "none"
    /\ chan = "on" => leftOn

(* The unbounded wait of stop_tone ends, and so does the Composer's for    *)
(* its player.                                                             *)
WaitsEnd == at \in {"stopping", "exit"} ~> at \notin {"stopping", "exit"}

(* A stored song is replaced only by a press made in the dialog for it,    *)
(* not by the long press that opened it.  After a load that found nothing  *)
(* the press is still latched, and toggling to Save stores at once.        *)
SaveIsAsked ==
  [][\A s \in 1..Slots : songs'[s] # songs[s] =>
       s = slot /\ mode = "save" /\ enter \in {"here", "nodata"}]_vars

===========================================================================
