---------------------------- MODULE MorseInput ----------------------------
(***************************************************************************)
(* Typing with one key.  Four screens poll the same buttons (button.h) and *)
(* stick (joystick.h) in a loop and turn presses into marks, pauses into   *)
(* letters: the Talk screen (talk_display.hpp with ui/talk/input_mvp.hpp), *)
(* the Wi-Fi peer-to-peer screen (p2p_display.hpp), the composer of an     *)
(* open chat (open_chat.hpp with open_chat_mvp.hpp) and the Morse trainer  *)
(* (game.hpp).                                                             *)
(*                                                                         *)
(* Time is discrete: a Tick is about 43 ms, so that the 130 ms between a   *)
(* dot and a dash are Long = 3 ticks and the 200 ms that end a letter are  *)
(* Gap = 5; a loop polls at least once in Lag ticks.  A user does anything *)
(* at any moment, two controls at a time at most.  The history variables   *)
(* follow a careful user, whose presses and pauses keep clear of the two   *)
(* thresholds by the polling interval; once a gesture is not a careful one *)
(* op is "off" and nothing is expected of the text any more.               *)
(*                                                                         *)
(* Letters are those of an excerpt of the code table.  The language stays  *)
(* English: the right edge costs the 300 ms it takes, and no kana is made. *)
(***************************************************************************)
EXTENDS Integers, Sequences, FiniteSets, SequencesExt

CONSTANTS
  Kinds,     \* the screens: talk, p2p, openchat, game
  Long, Gap, \* long_push_thresh and the end of a letter, in ticks
  Lag,       \* ticks between two polls, at most
  Pause,     \* ticks the JP/EN box is shown
  Rounds,    \* letters of one game (10 in the code)
  MaxEvents  \* bound: gestures of the user

ASSUME MorseInputAssumption ==
  /\ Kinds \subseteq {"talk", "p2p", "openchat", "game"}
  /\ {Long, Gap, Lag, Pause, Rounds} \subseteq Nat \ {0} /\ MaxEvents \in Nat
  /\ Long >= 2 * Lag + 1 /\ Gap > Long + Lag

Keys == {"type", "back", "enter"}
Dirs == {"mid", "left", "right", "up", "down"}

(* An excerpt of TalkDisplay::morse_code, and toupper.                     *)
Codes == [c \in {<<".">>, <<"_">>, <<".", "_">>} |->
            CASE c = <<".">> -> "e" [] c = <<"_">> -> "t" [] OTHER -> "a"]
Letters == {Codes[c] : c \in DOMAIN Codes}
Upper(l) == CASE l = "e" -> "E" [] l = "t" -> "T" [] l = "a" -> "A"

(* A careful pause: the letter is over and every poll has seen it.         *)
Settled == Gap + 2 * Lag + 1

VARIABLES
  kind,    \* which screen this is
  page,    \* keying, result (of a game), left or restarted
  held,    \* the keys that are down
  stick,   \* where the stick is
  btn,     \* button_state of each Button object
  dirSeen, \* joystick_state as of the last poll
  pressed, \* ticks since push_start_sec of the type key
  idle,    \* ticks since release_start_sec of the type key
  gap,     \* release_sec > 200000
  polled,  \* ticks since the last poll
  wait,    \* ticks the loop still sleeps
  morse, text, \* morse_text and message_text
  tone,    \* the speaker sounds
  toneFlag, \* tone_playing, tone_active
  out,     \* what was sent, or handed to the caller
  asked, found, scored, \* game: random_char, c, and a score in NVS
  op, keyed, meant, since, aim, \* history: the careful user
  events

clock == <<pressed, idle, polled>>
hist == <<op, keyed, meant, since, aim, events>>
game == <<asked, found, scored>>
input == <<held, stick>>
morseVars == <<kind, page, input, btn, dirSeen, clock, gap, wait, morse, text,
               tone, toneFlag, out, game, hist>>

Fresh == [edge |-> FALSE, pushing |-> FALSE, pushed |-> FALSE, same |-> FALSE,
          long |-> FALSE]

(* A screen opens with its keys at rest and its Button objects fresh.      *)
MorseInit ==
  /\ kind \in Kinds /\ page = "keying"
  /\ held = {} /\ stick = "mid" /\ dirSeen = "mid"
  /\ btn = [k \in Keys |-> Fresh]
  /\ pressed = 0 /\ idle = Settled /\ polled = 0 /\ gap = FALSE /\ wait = 0
  /\ morse = <<>> /\ text = <<>> /\ tone = FALSE /\ toneFlag = FALSE /\ out = <<>>
  /\ asked \in (IF kind = "game" THEN Letters ELSE {"e"})
  /\ found = 0 /\ scored = FALSE
  /\ op = "idle" /\ keyed = <<>> /\ meant = <<>> /\ since = Settled /\ aim = "e"
  /\ events = 0

---------------------------------------------------------------------------
(* The careful user.  Each gesture either keeps the plan of the letter or  *)
(* of the chord it is part of, or ends the care.                           *)

Off == op' = "off" /\ keyed' = <<>> /\ meant' = <<>>
Plan(o, k, m) == op' = o /\ keyed' = k /\ meant' = m

(* The control that erases a letter while the type key is pressed.         *)
Eraser == [talk |-> {"left", "back"}, p2p |-> {"back"}, openchat |-> {"left"},
           game |-> {}]
(* Stick moves that are a letter of their own (open_chat.hpp:142-149).     *)
StickLetter == [up |-> "nl", down |-> "sp"]

Steady == since > Lag /\ wait = 0
AtRest == op = "idle" /\ since = Settled /\ wait = 0 /\ page = "keying"

PressPlan(k) ==
  CASE k = "type" /\ AtRest -> Plan("mark", <<>>, meant)
    [] k = "type" /\ op = "letter" /\ Steady /\ since <= Gap - Lag ->
         Plan("mark", keyed, meant)
    [] k = "type" /\ op = "eraser" /\ Steady -> Plan("chord", <<>>, meant)
    [] k = "back" /\ AtRest /\ "back" \in Eraser[kind] ->
         Plan("eraser", <<>>, meant)
    [] k = "enter" /\ AtRest /\ kind # "game" /\ meant # <<>> ->
         Plan("enter", <<>>, meant)
    [] OTHER -> Off

(* In a game the letter counts when it is the one asked for at its start.  *)
ReleasePlan(k) ==
  CASE k = "type" /\ op = "mark" /\ Steady /\ since <= Long - Lag ->
         Plan("letter", Append(keyed, "."), meant)
    [] k = "type" /\ op = "mark" /\ since > Long + Lag ->
         Plan("letter", Append(keyed, "_"), meant)
    [] k = "type" /\ op = "chord" /\ Steady ->
         Plan("chordEnd", <<>>, IF meant = <<>> THEN <<>> ELSE Front(meant))
    [] k = "back" /\ op = "chordEnd" /\ Steady -> Plan("idle", <<>>, meant)
    [] k = "enter" /\ op = "enter" /\ Steady -> Plan("sent", <<>>, meant)
    [] OTHER -> Off

StickPlan(d) ==
  CASE d = "left" /\ AtRest /\ "left" \in Eraser[kind] ->
         Plan("eraser", <<>>, meant)
    [] d = "mid" /\ stick = "left" /\ op \in {"eraser", "chordEnd"} /\ Steady ->
         Plan("idle", <<>>, meant)
    [] d \in {"up", "down"} /\ AtRest /\ kind = "openchat" ->
         Plan("flick", <<>>, Append(meant, StickLetter[d]))
    [] d = "mid" /\ op = "flick" /\ Steady -> Plan("idle", <<>>, meant)
    [] OTHER -> Off

(* The letter the user keyed is complete when the pause after it is.       *)
LetterPlan ==
  IF op = "letter" /\ since + 1 = Settled
  THEN IF keyed \in DOMAIN Codes
       THEN Plan("idle", <<>>,
                 IF kind = "game" /\ Codes[keyed] # aim THEN meant
                 ELSE Append(meant, Codes[keyed]))
       ELSE Off
  ELSE UNCHANGED <<op, keyed, meant>>

---------------------------------------------------------------------------
(* The user and the clock.                                                 *)

Awake == page \in {"keying", "result"}
Gesture == Awake /\ events < MaxEvents /\ events' = events + 1 /\ since' = 0
Touched == held \cup ({stick} \ {"mid"})

Press(k) ==
  /\ Gesture /\ k \notin held /\ Cardinality(Touched) < 2
  /\ held' = held \cup {k}
  /\ PressPlan(k)
  /\ aim' = IF k = "type" /\ op # "letter" THEN asked ELSE aim
  /\ UNCHANGED <<kind, page, stick, btn, dirSeen, clock, gap, wait, morse,
                 text, tone, toneFlag, out, game>>

Release(k) ==
  /\ Gesture /\ k \in held
  /\ held' = held \ {k}
  /\ ReleasePlan(k)
  /\ UNCHANGED <<kind, page, stick, btn, dirSeen, clock, gap, wait, morse,
                 text, tone, toneFlag, out, game, aim>>

MoveStick(d) ==
  /\ Gesture /\ d # stick /\ (stick = "mid" \/ d = "mid")
  /\ d # "mid" => Cardinality(Touched) < 2
  /\ stick' = d
  /\ StickPlan(d)
  /\ UNCHANGED <<kind, page, held, btn, dirSeen, clock, gap, wait, morse,
                 text, tone, toneFlag, out, game, aim>>

UpTo(n, cap) == IF n < cap THEN n + 1 ELSE cap

Tick ==
  /\ Awake
  /\ wait = 0 => polled < Lag
  /\ wait' = IF wait > 0 THEN wait - 1 ELSE 0
  /\ polled' = IF wait > 0 THEN Lag ELSE polled + 1
  /\ pressed' = UpTo(pressed, Long + 1)
  /\ idle' = UpTo(idle, Settled)
  /\ since' = UpTo(since, Settled)
  /\ LetterPlan
  /\ UNCHANGED <<kind, page, input, btn, dirSeen, gap, morse, text, tone,
                 toneFlag, out, game, aim, events>>

---------------------------------------------------------------------------
(* One iteration of a loop.  What it read is the record s, a snapshot: a   *)
(* clear_button_state() after it changes the Button, not the snapshot.     *)

(* Button::get_button_state.                                               *)
Read(k) ==
  LET b == btn[k] IN
  IF k \in held /\ ~b.pushing
  THEN [b EXCEPT !.pushing = TRUE, !.edge = TRUE]
  ELSE IF k \notin held /\ b.pushing
  THEN [b EXCEPT !.pushing = FALSE, !.edge = FALSE, !.pushed = TRUE,
                 !.long = (k = "type" /\ pressed > Long)]
  ELSE [b EXCEPT !.edge = FALSE]

(* Its release timer: the pause grows only in polls that see the key up.   *)
Paused(t) == IF t.pushing THEN gap ELSE idle > Gap

(* Joystick::get_joystick_state: levels, and edges against the last poll.  *)
Edge(d) == stick = d /\ dirSeen # d

Snapshot == [t |-> Read("type"), b |-> Read("back"), e |-> Read("enter"),
             gap |-> Paused(Read("type"))]

(* clear_button_state() of the keys in C, pushed_same_time() of those in P.*)
After(s, C, P) ==
  [k \in Keys |->
     LET b == CASE k = "type" -> s.t [] k = "back" -> s.b [] OTHER -> s.e
         p == IF k \in P THEN [b EXCEPT !.same = TRUE] ELSE b
     IN  IF k \in C THEN Fresh ELSE p]

(* Bookkeeping common to all loops; r: the release timer is reset.         *)
Polled(s, C, P, r) ==
  /\ btn' = After(s, C, P)
  /\ dirSeen' = stick
  /\ pressed' = IF s.t.edge THEN 0 ELSE pressed
  /\ idle' = IF s.t.pushing \/ r THEN 0 ELSE idle
  /\ gap' = s.gap
  /\ polled' = 0
  /\ UNCHANGED <<kind, input, hist>>

MarkOf(t) == IF t.long THEN "_" ELSE "."
ButLast(q) == IF q = <<>> THEN <<>> ELSE Front(q)
Only(b, k) == IF b THEN {k} ELSE {}

(* InputPresenter::decode_release; an unknown code is dropped.             *)
Decode(m) ==
  IF m \in DOMAIN Codes
  THEN <<IF stick = "up" THEN Upper(Codes[m]) ELSE Codes[m]>>
  ELSE <<>>

---------------------------------------------------------------------------
(* Talk: talk_display.hpp.  start_tone() can fail, and is then not noted.  *)

TalkErases(s) == stick = "left" /\ s.t.pushed
TalkMarks(s) == ~TalkErases(s) /\ s.t.pushed /\ ~s.b.pushing
TalkStops(s) == ~s.t.pushing \/ s.b.pushing
TalkStarts(s) == s.t.edge /\ ~s.b.pushing /\ stick # "left"

TalkTone(s) ==
  \E ok \in BOOLEAN :
    LET on == IF TalkStops(s) THEN FALSE ELSE toneFlag
        started == (~on /\ TalkStarts(s) /\ ok) \/ on
        silent == TalkErases(s) \/ TalkMarks(s)
    IN  /\ toneFlag' = (started /\ ~silent)
        /\ tone' = (started /\ ~silent)

(* Back and the type key erase; Back alone leaves.                         *)
Chord(s) == s.b.pushing /\ s.t.pushed
BackAnyway(s) == ~Chord(s) /\ s.b.pushed /\ ~s.t.pushing
BackAlone(s) == ~Chord(s) /\ s.b.pushed /\ ~s.b.same /\ ~s.t.pushing
RightEdge(s) == ~Chord(s) /\ ~BackAlone(s) /\ Edge("right")
BackIgnored(s) ==
  s.b.pushed /\ ~Chord(s) /\ ~BackAlone(s) /\ ~RightEdge(s)

(* delete_last_char and append_newline, in the order of the loop.          *)
TalkEdits(s) ==
  LET erased == IF TalkErases(s) THEN ButLast(text) ELSE text
      lined == IF stick = "down" /\ s.t.pushed THEN Append(erased, "nl") ELSE erased
  IN  IF Chord(s) THEN ButLast(lined) ELSE lined

TalkMorse(s) == IF TalkMarks(s) THEN Append(morse, MarkOf(s.t)) ELSE morse
TalkEnds(s) == s.gap /\ TalkMorse(s) # <<>>
TalkAlphabet(s) == IF TalkEnds(s) THEN Decode(TalkMorse(s)) ELSE <<>>
TalkSends(s) == ~BackAlone(s) /\ s.e.pushed /\ TalkEdits(s) # <<>>
TalkClears(s) ==
  Only(s.t.pushed /\ (TalkErases(s) \/ TalkMarks(s) \/ stick = "down" \/ Chord(s)),
       "type")
  \cup Only(BackIgnored(s), "back") \cup Only(TalkSends(s), "enter")

LeavesRinging == page' = "left" /\ UNCHANGED <<tone, toneFlag>>
Leaves == page' = "left" /\ tone' = FALSE /\ toneFlag' = FALSE

(* Leaving frees the texts and silences the speaker.                       *)
TalkLeave(s) ==
  /\ BackAlone(s)
  /\ Leaves /\ out' = out /\ text' = <<>> /\ morse' = <<>> /\ wait' = 0

(* Enter posts the text, shows the animation and leaves.                   *)
TalkSend(s) ==
  /\ TalkSends(s)
  /\ Leaves /\ out' = TalkEdits(s) /\ text' = <<>> /\ morse' = <<>> /\ wait' = 0

(* Otherwise the letter is drawn and committed to the message.             *)
TalkCommit(s) ==
  /\ ~BackAlone(s) /\ ~TalkSends(s)
  /\ text' = TalkEdits(s) \o TalkAlphabet(s)
  /\ morse' = IF TalkEnds(s) THEN <<>> ELSE TalkMorse(s)
  /\ wait' = IF RightEdge(s) THEN Pause ELSE 0
  /\ TalkTone(s)
  /\ UNCHANGED <<page, out>>

PollTalk ==
  /\ kind = "talk" /\ page = "keying" /\ wait = 0
  /\ LET s == Snapshot IN
       /\ TalkLeave(s) \/ TalkSend(s) \/ TalkCommit(s)
       /\ Polled(s, TalkClears(s), Only(Chord(s), "back"), FALSE)
  /\ UNCHANGED game

---------------------------------------------------------------------------
(* Peer to peer: p2p_display.hpp.  The loop differs in its tone, in that   *)
(* the stick to the left leaves, and in that Enter only clears the text,   *)
(* which is broadcast in every iteration.                                  *)

P2pMarks(s) == s.t.pushed /\ ~s.b.pushing
KeyTone(s) ==
  LET starts == s.t.edge /\ ~s.b.pushing
      stops == ~s.t.pushing /\ toneFlag
  IN  /\ toneFlag' = ((toneFlag \/ starts) /\ ~stops)
      /\ \E ok \in BOOLEAN :
           tone' = IF stops THEN FALSE ELSE tone \/ (starts /\ ok)

P2pMorse(s) == IF P2pMarks(s) THEN Append(morse, MarkOf(s.t)) ELSE morse
P2pAlphabet(s) == IF s.gap THEN Decode(P2pMorse(s)) ELSE <<>>
P2pEdits(s) ==
  LET lined == IF stick = "down" /\ s.t.pushed THEN Append(text, "nl") ELSE text
  IN  IF Chord(s) THEN ButLast(lined) ELSE lined
P2pExit(s) == BackAlone(s) \/ (~Chord(s) /\ stick = "left")
P2pCleared(s) == s.e.pushed /\ P2pEdits(s) # <<>>

P2pLeave(s) ==
  /\ P2pExit(s)
  /\ Leaves /\ text' = P2pEdits(s) /\ morse' = (IF s.gap THEN <<>> ELSE P2pMorse(s))
  /\ UNCHANGED <<out, wait>>

(* Draw, commit and broadcast message_text + morse_text + alphabet_text.   *)
P2pCommit(s) ==
  /\ ~P2pExit(s)
  /\ LET kept == IF P2pCleared(s) THEN <<>> ELSE P2pEdits(s)
         left == IF s.gap THEN <<>> ELSE P2pMorse(s)
         shown == kept \o left \o P2pAlphabet(s)
     IN  /\ text' = kept \o P2pAlphabet(s)
         /\ morse' = left
         /\ out' = IF shown = <<>> THEN out ELSE shown
  /\ wait' = IF RightEdge(s) THEN Pause ELSE 0
  /\ KeyTone(s)
  /\ UNCHANGED page

P2pClears(s) ==
  IF P2pExit(s) THEN Keys
  ELSE Only(s.t.pushed, "type") \cup Only(BackIgnored(s), "back")
       \cup Only(P2pCleared(s), "enter")

PollP2p ==
  /\ kind = "p2p" /\ page = "keying" /\ wait = 0
  /\ LET s == Snapshot IN
       /\ P2pLeave(s) \/ P2pCommit(s)
       /\ Polled(s, P2pClears(s), Only(Chord(s), "back"), P2pExit(s))
  /\ UNCHANGED game

---------------------------------------------------------------------------
(* The composer of an open chat: OpenChat::compose_morse_message.          *)

OpenTone(s) ==
  \E ok \in BOOLEAN :
    LET on == (toneFlag \/ (s.t.edge /\ ~s.b.pushing /\ ok)) /\ s.t.pushing
    IN  toneFlag' = on /\ tone' = on

(* resolve_morse_release: no letter while the key is down.                 *)
OpenMorse(s) == IF TalkMarks(s) THEN Append(morse, MarkOf(s.t)) ELSE morse
OpenEnds(s) == ~s.t.pushing /\ s.gap /\ OpenMorse(s) # <<>>
OpenLetter(s) ==
  IF OpenEnds(s) /\ OpenMorse(s) \in DOMAIN Codes
  THEN <<Codes[OpenMorse(s)]>> ELSE <<>>
StickText == IF Edge("up") THEN <<"nl">> ELSE IF Edge("down") THEN <<"sp">> ELSE <<>>
OpenTyped(s) ==
  (IF TalkErases(s) THEN ButLast(text) ELSE text) \o OpenLetter(s) \o StickText

(* resolve_command: Back cancels an empty message, Enter sends the others. *)
OpenCancels(s) == ~Chord(s) /\ s.b.pushed /\ OpenTyped(s) = <<>>
OpenDeletes(s) == ~Chord(s) /\ s.b.pushed /\ OpenTyped(s) # <<>>
OpenEnter(s) == s.e.pushed /\ (Chord(s) \/ ~s.b.pushed)
OpenText(s) ==
  IF Chord(s) \/ OpenDeletes(s) THEN ButLast(OpenTyped(s)) ELSE OpenTyped(s)
OpenConfirms(s) == OpenEnter(s) /\ OpenText(s) # <<>>
OpenClears(s) ==
  Only(s.t.pushed, "type") \cup Only(s.b.pushed /\ ~Chord(s), "back")
  \cup Only(OpenEnter(s), "enter")

OpenCancel(s) == OpenCancels(s) /\ Leaves /\ out' = out
OpenConfirm(s) == OpenConfirms(s) /\ Leaves /\ out' = OpenText(s)
OpenStay(s) ==
  ~OpenCancels(s) /\ ~OpenConfirms(s) /\ OpenTone(s) /\ UNCHANGED <<page, out>>

PollOpenChat ==
  /\ kind = "openchat" /\ page = "keying" /\ wait = 0
  /\ LET s == Snapshot IN
       /\ text' = OpenText(s)
       /\ morse' = IF OpenEnds(s) THEN <<>> ELSE OpenMorse(s)
       /\ OpenCancel(s) \/ OpenConfirm(s) \/ OpenStay(s)
       /\ Polled(s, OpenClears(s), {}, OpenEnds(s))
  /\ wait' = 0 /\ UNCHANGED game

---------------------------------------------------------------------------
(* The Morse trainer: Game::run_morse_trainer.                             *)

GameAlphabet(s) ==
  IF s.gap /\ P2pMorse(s) \in DOMAIN Codes THEN <<Codes[P2pMorse(s)]>> ELSE <<>>
GameExit(s) == (s.b.pushed /\ ~s.b.same /\ ~s.t.pushing) \/ stick = "left"
GameRestarts(s) == ~GameExit(s) /\ stick = "up" /\ s.e.pushed
Right == text # <<>> /\ Head(text) = asked
Wrong == text # <<>> /\ Head(text) # asked

GameLeave(s) ==
  /\ GameExit(s)
  /\ Leaves /\ text' = <<>> /\ morse' = <<>> /\ wait' = 0
  /\ UNCHANGED <<out, game>>

(* Enter with the stick up restarts the device.                            *)
GameRestart(s) ==
  /\ GameRestarts(s)
  /\ page' = "restarted" /\ tone' = FALSE /\ toneFlag' = FALSE
  /\ text' = <<>> /\ morse' = <<>> /\ wait' = 0
  /\ UNCHANGED <<out, game>>

(* The letter committed by the previous iteration is compared; a wrong one *)
(* shakes the device for 50 ms.  The last right one shows the result, and  *)
(* a time better than the record is kept in NVS.                           *)
GamePlay(s) ==
  /\ ~GameExit(s) /\ ~GameRestarts(s)
  /\ found' = IF Right THEN found + 1 ELSE found
  /\ asked' \in (IF Right THEN Letters ELSE {asked})
  /\ wait' = IF Wrong THEN 1 ELSE 0
  /\ text' = GameAlphabet(s)
  /\ morse' = IF s.gap THEN <<>> ELSE P2pMorse(s)
  /\ KeyTone(s)
  /\ IF found' = Rounds
     THEN page' = "result" /\ \E best \in BOOLEAN : scored' = (scored \/ best)
     ELSE UNCHANGED <<page, scored>>
  /\ UNCHANGED out

GameClears(s) ==
  IF GameExit(s) THEN Keys
  ELSE Only(P2pMarks(s), "type") \cup Only(s.b.pushed, "back")

PollGame ==
  /\ kind = "game" /\ page = "keying" /\ wait = 0
  /\ LET s == Snapshot IN
       /\ GameLeave(s) \/ GameRestart(s) \/ GamePlay(s)
       /\ Polled(s, GameClears(s), {}, GameExit(s))

(* The result: the stick to the left or Back leaves, the type key plays a  *)
(* new round, with its own tone_active.                                    *)
ResultLeaves(s) == stick = "left" \/ s.b.pushed
PlayAgain(s) ==
  /\ ~ResultLeaves(s) /\ s.t.pushed
  /\ page' = "keying" /\ found' = 0 /\ text' = <<>> /\ morse' = <<>>
  /\ toneFlag' = FALSE /\ UNCHANGED tone
ResultLeave(s) ==
  ResultLeaves(s) /\ Leaves /\ UNCHANGED <<found, text, morse>>
ResultStay(s) ==
  /\ ~ResultLeaves(s) /\ ~s.t.pushed
  /\ UNCHANGED <<page, found, text, morse, tone, toneFlag>>

PollResult ==
  /\ kind = "game" /\ page = "result" /\ wait = 0
  /\ LET s == [Snapshot EXCEPT !.e = btn["enter"]] IN
       /\ PlayAgain(s) \/ ResultLeave(s) \/ ResultStay(s)
       /\ Polled(s, IF ResultLeaves(s) THEN Keys ELSE Only(s.t.pushed, "type"),
                 {}, ResultLeaves(s))
  /\ UNCHANGED <<wait, out, asked, scored>>

---------------------------------------------------------------------------
Poll == PollTalk \/ PollP2p \/ PollOpenChat \/ PollGame \/ PollResult

MorseNext ==
  \/ \E k \in Keys : Press(k) \/ Release(k)
  \/ \E d \in Dirs : MoveStick(d)
  \/ Tick
  \/ Poll

MorseSpec == MorseInit /\ [][MorseNext]_morseVars

---------------------------------------------------------------------------
(* Properties.                                                             *)

MorseTypeOK ==
  /\ kind \in Kinds /\ page \in {"keying", "result", "left", "restarted"}
  /\ held \subseteq Keys /\ stick \in Dirs /\ dirSeen \in Dirs
  /\ \A k \in Keys : btn[k] \in [{"edge", "pushing", "pushed", "same", "long"} -> BOOLEAN]
  /\ pressed \in 0..(Long + 1) /\ idle \in 0..Settled /\ polled \in 0..Lag
  /\ wait \in 0..Pause /\ {gap, tone, toneFlag, scored} \subseteq BOOLEAN
  /\ found \in 0..Rounds /\ asked \in Letters

(* What a careful user keys is what the screen holds: after the pause that *)
(* ends a letter the message is exactly the letters meant, erased ones     *)
(* gone; no gesture but sending makes the screen go away; and what Enter   *)
(* sends is all of the message.  In a game the score is the number of      *)
(* letters keyed as asked.                                                 *)
KeyedIsCommitted ==
  /\ op = "idle" /\ since = Settled /\ polled = 0 =>
       IF kind = "game" THEN found = Len(meant) ELSE text = meant
  /\ page \in {"left", "restarted"} => op \in {"sent", "off"}
  /\ op = "sent" /\ page = "left" => out = meant
  /\ op = "sent" /\ since > Lag => kind = "p2p" /\ text = <<>>

(* The tone belongs to the key: it never outlasts the key by more than the *)
(* time to the next poll, nor the screen.                                  *)
ToneOnlyWhileKeyed ==
  /\ page = "left" => ~tone
  /\ tone /\ wait = 0 /\ polled = 0 /\ since > Lag => "type" \in held

(* The screens that send text keep to that.                                *)
KeyedTone == kind # "game" => ToneOnlyWhileKeyed

===========================================================================
