--------------------------- MODULE MessagesProofs ---------------------------
(***************************************************************************)
(* The texts.  Type correctness and AnswerIsForFriend of Messages, for any *)
(* number of friends, messages and fetches; type correctness, ShownOnce    *)
(* and RoomIsHeard of OpenChat, for any rooms, messages and length of the  *)
(* list on the screen; type correctness, KeyedTone and KeyedIsCommitted of *)
(* MorseInput, for any thresholds in the order of the code's.              *)
(*                                                                         *)
(* The argument for Messages: get_message makes a task only after it has   *)
(* seen http_get_task_handle null, so at most one task runs, and it clears *)
(* res_flag after that look.  A flag that is set while it waits was then   *)
(* set by its own task, and so was res before it.                          *)
(*                                                                         *)
(* For OpenChat: add_message looks at seen_ids and writes to it in one     *)
(* call, and the list begins anew only together with it (Remembered).      *)
(* While the task is in a room the table has its listener and no other     *)
(* (TableOK), and a number names one message of a sender (KnownOK), so a   *)
(* copy that add_message drops is on the list already.  A message goes     *)
(* from the queue to the task's hand to the list, and neither move changes *)
(* which of two comes first on the whole way (WayParts).                   *)
(*                                                                         *)
(* For MorseInput: what starts the tone polls again before it can leave,   *)
(* and a poll that finds the key up stops it (Sounding).  Between two      *)
(* polls a careful user makes one gesture at most, so a poll finds either  *)
(* nothing new, or one mark, letter, erasure or end (Watched).  A counter  *)
(* of the screen trails the user's by less than a polling interval, which  *)
(* is what the user keeps clear of the thresholds (Timed, Undecided).      *)
(***************************************************************************)
EXTENDS Messages, OpenChat, MorseInput, FiniteSetTheorems, SequenceTheorems, TLAPS

\* What the notification task has, or is to pop, was sent by a friend.
InboxOK ==
    /\ \A i \in 1..Len(inbox) : inbox[i].of \in Friends /\ inbox[i].upto <= arrived[inbox[i].of]
    /\ notif = "popped" => popped.of \in Friends /\ popped.upto <= arrived[popped.of]

\* The list is empty, or the friend's whose box is open.
ForFriend(list) == list = Empty \/ list.of = friend

\* There is one fetch task, and it is the one http_get_task_handle stands for.
OneTask ==
    /\ handle <=> fetch # "none"
    /\ fetch # "none" => fetchFor \in Friends
    /\ fetch \in {"store", "flag", "finish"} => answer = Empty \/ answer.of = fetchFor
    /\ box \in {"clear", "create"} => fetch = "none"
    /\ box \in {"wait", "fill", "reset", "take"} /\ fetch # "none" => fetchFor = friend

\* What res and res_flag say while get_message waits, and after.
Protocol ==
    /\ box # "closed" => friend \in Friends
    /\ box = "create" => ~flag
    /\ box = "wait" /\ flag => fetch \in {"finish", "none"}
    /\ box = "wait" /\ (flag \/ fetch = "flag") => ForFriend(res)
    /\ box \in {"reset", "take"} => ForFriend(res)
    /\ IF box = "show" THEN ForFriend(got) ELSE got = Empty

IInv == TypeOK /\ InboxOK /\ OneTask /\ Protocol

\* There are finitely many messages, so the unread ones can be counted.
LEMMA UnreadIsNat == Unread \in Nat
<1>1. IsFiniteSet(Message)
  <2> DEFINE Of(f) == {f} \X (1..MaxMessages[f])
             F == [f \in Friends |-> Of(f)]
             All == {Of(f) : f \in Friends}
  <2>1. \A f \in Friends : IsFiniteSet(Of(f))
    <3> SUFFICES ASSUME NEW f \in Friends PROVE IsFiniteSet(Of(f))
      OBVIOUS
    <3>1. IsFiniteSet({f})
      BY FS_Singleton
    <3>2. MaxMessages[f] \in Int
      BY BoundAssumption
    <3>3. IsFiniteSet(1..MaxMessages[f])
      BY <3>2, FS_Interval
    <3> QED
      BY <3>1, <3>3, FS_Product
  <2>2. IsFiniteSet(All)
    <3>1. F \in Surjection(Friends, All)
      BY DEF Surjection
    <3> QED
      BY <3>1, FS_Surjection, FriendAssumption
  <2> QED
    BY <2>1, <2>2, FS_UNION DEF Message
<1> DEFINE Unreads == {m \in Message : read[m[1]] < m[2] /\ m[2] <= arrived[m[1]]}
<1>2. IsFiniteSet(Unreads)
  BY <1>1, FS_Subset
<1> QED
  BY <1>2, FS_CardinalityType DEF Unread, Between

\* The empty list is a list of messages.
LEMMA EmptyIsList == Empty \in List
  BY DEF List, Empty

\* The initial state satisfies the invariant.
LEMMA InitIInv == Init => IInv
<1> SUFFICES ASSUME Init PROVE IInv
  OBVIOUS
<1> USE FriendAssumption, BoundAssumption DEF Init
<1>1. TypeOK
  <2>1. inbox \in Seq(List)
    BY EmptySeq
  <2>2. accepted \in BOOLEAN /\ flag \in BOOLEAN /\ handle \in BOOLEAN /\ again \in BOOLEAN
    OBVIOUS
  <2>3. \A f \in Friends : /\ read[f] <= arrived[f] /\ noticed[f] <= arrived[f]
                          /\ arrived[f] <= MaxMessages[f]
    OBVIOUS
  <2> QED
    BY <2>1, <2>2, <2>3, EmptyIsList DEF TypeOK
<1>2. InboxOK
  BY DEF InboxOK
<1>3. OneTask /\ Protocol
  BY DEF OneTask, Protocol, Empty
<1> QED
  BY <1>1, <1>2, <1>3 DEF IInv

\* What Signal does to noticed: it grows, up to what has arrived.
LEMMA SignalFacts ==
    ASSUME TypeOK, Signal(arrived)
    PROVE  /\ noticed' \in [Friends -> Nat]
           /\ \A f \in Friends : noticed'[f] = arrived[f]
  BY DEF TypeOK, Signal, Larger

\* The answer to GET /api/messages/unread/count is a number.
LEMMA AnswerIsNat == UnreadAnswer \in Nat
  BY UnreadIsNat DEF UnreadAnswer

\* Marking the messages of the box's friend read keeps read behind arrived.
LEMMA ReadFacts ==
    ASSUME arrived \in [Friends -> Nat], read \in [Friends -> Nat],
           \A f \in Friends : read[f] <= arrived[f],
           read' = read \/ read' = [read EXCEPT ![friend] = arrived[friend]]
    PROVE  read' \in [Friends -> Nat] /\ \A f \in Friends : read'[f] <= arrived[f]
<1>1. \A f \in Friends : read'[f] = read[f] \/ read'[f] = arrived[f]
  OBVIOUS
<1>2. \A f \in Friends : read'[f] \in Nat /\ read'[f] <= arrived[f]
  BY <1>1
<1> QED
  BY <1>2

\* Every step keeps the types.
LEMMA TypeStep == TypeOK /\ InboxOK /\ OneTask /\ [Next]_vars => TypeOK'
<1> SUFFICES ASSUME TypeOK /\ InboxOK /\ OneTask, [Next]_vars PROVE TypeOK'
  OBVIOUS
<1> USE FriendAssumption, BoundAssumption, EmptyIsList, UnreadIsNat
<1> USE DEF TypeOK, server, notifs, shares, boxes, fetches
<1>1. ASSUME NEW f \in Friends, Arrive(f) PROVE TypeOK'
  <2>1. arrived[f] + 1 \in Nat /\ arrived[f] + 1 <= MaxMessages[f]
    BY <1>1, SMTT(30) DEF Arrive
  <2>2. arrived' \in [Friends -> Nat]
    BY <2>1, <1>1 DEF Arrive
  <2>3. \A g \in Friends : arrived[g] <= arrived'[g] /\ arrived'[g] <= MaxMessages[g]
    BY <2>1, <1>1, SMTT(30) DEF Arrive
  <2>4. [of |-> f, upto |-> arrived[f] + 1] \in List
    BY <2>1 DEF List
  <2>5. Append(inbox, [of |-> f, upto |-> arrived[f] + 1]) \in Seq(List)
    BY <2>4, AppendProperties
  <2>6. inbox' \in Seq(List)
    BY <2>5, <1>1 DEF Arrive
  <2>7. ASSUME NEW g \in Friends PROVE read[g] <= arrived'[g] /\ noticed[g] <= arrived'[g]
    <3>1. {read[g], noticed[g], arrived[g], arrived'[g]} \subseteq Nat
      BY <2>2
    <3>2. read[g] <= arrived[g] /\ noticed[g] <= arrived[g]
      OBVIOUS
    <3> QED
      BY <2>3, <3>1, <3>2, SMTT(30)
  <2>8. /\ read' \in [Friends -> Nat] /\ noticed' \in [Friends -> Nat]
        /\ \A g \in Friends : /\ read'[g] <= arrived'[g] /\ noticed'[g] <= arrived'[g]
                             /\ arrived'[g] <= MaxMessages[g]
    BY <2>3, <2>7, <1>1 DEF Arrive
  <2> QED
    BY <2>2, <2>6, <2>8, <1>1, SMTT(30) DEF Arrive
<1>2. ASSUME NEW f \in Friends, Open(f) PROVE TypeOK'
  <2>1. calls' \in 0..MaxCalls
    BY <1>2 DEF Open
  <2>2. flag' \in BOOLEAN
    BY <1>2 DEF Open
  <2> QED
    BY <2>1, <2>2, <1>2 DEF Open
<1>3. CASE Refresh
  <2>1. calls' \in 0..MaxCalls
    BY <1>3 DEF Refresh
  <2>2. flag' \in BOOLEAN /\ again' \in BOOLEAN
    BY <1>3 DEF Refresh
  <2> QED
    BY <2>1, <2>2, <1>3 DEF Refresh
<1>4. CASE Close
  BY <1>4 DEF Close
<1>5. CASE Revoke
  <2>1. accepted' \in BOOLEAN
    BY <1>5 DEF Revoke
  <2> QED
    BY <2>1, <1>5 DEF Revoke
<1>6. CASE Pop
  <2>1. CASE inbox = <<>>
    BY <2>1, <1>6 DEF Pop
  <2>2. CASE inbox # <<>>
    <3>1. Head(inbox) \in List /\ Tail(inbox) \in Seq(List)
      BY <2>2, HeadTailProperties
    <3>2. popped' \in List /\ inbox' \in Seq(List) /\ notif' = "popped"
      BY <3>1, <2>2, <1>6 DEF Pop
    <3> QED
      BY <3>2, <1>6 DEF Pop
  <2> QED
    BY <2>1, <2>2
<1>7. CASE Popped
  <2>1. popped.of \in Friends /\ popped.upto \in Nat /\ popped.upto <= arrived[popped.of]
    BY <1>7 DEF Popped, InboxOK, List
  <2>2. CASE noticed' = [noticed EXCEPT ![popped.of] = Larger(@, popped.upto)]
             /\ UNCHANGED <<count, lastCount>>
    <3>1. Larger(noticed[popped.of], popped.upto) \in Nat
          /\ Larger(noticed[popped.of], popped.upto) <= arrived[popped.of]
      BY <2>1 DEF Larger
    <3>2. noticed' \in [Friends -> Nat] /\ \A f \in Friends : noticed'[f] <= arrived[f]
      BY <3>1, <2>1, <2>2
    <3> QED
      BY <3>2, <2>2, <1>7, SMTT(30) DEF Popped
  <2>3. CASE /\ count' = UnreadAnswer
             /\ IF count' > 0 THEN Signal(arrived) /\ lastCount' = count'
                              ELSE UNCHANGED <<noticed, lastCount>>
    <3>1. noticed' \in [Friends -> Nat] /\ \A f \in Friends : noticed'[f] <= arrived[f]
      BY <2>3, SignalFacts, SMTT(30)
    <3>2. count' \in Nat /\ lastCount' \in Nat \cup {-1}
      BY <2>3, AnswerIsNat
    <3> QED
      BY <3>1, <3>2, <1>7 DEF Popped
  <2> QED
    BY <2>2, <2>3, <1>7 DEF Popped
<1>8. CASE PollRefresh
  BY SignalFacts, AnswerIsNat, <1>8 DEF PollRefresh
<1>9. CASE PollSkip
  BY <1>9 DEF PollSkip
<1>10. CASE Check
  BY <1>10 DEF Check
<1>11. CASE Clear
  BY <1>11 DEF Clear
<1>12. CASE Create
  BY <1>12, ZenonT(30) DEF Create
<1>13. CASE WaitEnds
  BY <1>13 DEF WaitEnds
<1>14. CASE Fill
  BY <1>14 DEF Fill
<1>15. CASE Reset
  BY <1>15 DEF Reset
<1>16. CASE Take
  BY <1>16 DEF Take
<1>17. CASE Show
  <2>1. read' = read \/ read' = [read EXCEPT ![friend] = arrived[friend]]
    BY <1>17 DEF Show
  <2>2. read' \in [Friends -> Nat] /\ \A f \in Friends : read'[f] <= arrived[f]
    BY <2>1, ReadFacts
  <2> QED
    BY <2>2, <1>17 DEF Show
<1>18. CASE FetchRequest
  <2>1. accepted' \in BOOLEAN
    BY <1>18 DEF FetchRequest
  <2>2. answer' \in List
    BY <1>18 DEF FetchRequest, OneTask, List
  <2> QED
    BY <2>1, <2>2, <1>18 DEF FetchRequest
<1>19. CASE FetchStore
  BY <1>19 DEF FetchStore
<1>20. CASE FetchFlag
  BY <1>20 DEF FetchFlag
<1>21. CASE Finish
  BY <1>21, ZenonT(30) DEF Finish
<1>22. CASE UNCHANGED vars
  BY <1>22 DEF vars
<1> QED
  BY <1>1, <1>2, <1>3, <1>4, <1>5, <1>6, <1>7, <1>8, <1>9, <1>10, <1>11, <1>12, <1>13, <1>14,
     <1>15, <1>16, <1>17, <1>18, <1>19, <1>20, <1>21, <1>22
  DEF Next, NotifStep, BoxStep, FetchStep

\* Every step keeps what is known of the inbox.
LEMMA InboxStep == TypeOK /\ InboxOK /\ [Next]_vars => InboxOK'
<1> SUFFICES ASSUME TypeOK /\ InboxOK, [Next]_vars PROVE InboxOK'
  OBVIOUS
<1> USE DEF TypeOK, InboxOK, server, notifs, shares, boxes, fetches
<1>1. ASSUME NEW f \in Friends, Arrive(f) PROVE InboxOK'
  <2> DEFINE m == [of |-> f, upto |-> arrived[f] + 1]
  <2>1. m \in List
    <3>1. arrived[f] + 1 \in Nat
      OBVIOUS
    <3> QED
      BY <3>1 DEF List
  <2>2. \A g \in Friends : arrived[g] <= arrived'[g]
    BY <1>1 DEF Arrive
  <2>3. arrived'[f] = arrived[f] + 1 /\ \A g \in Friends : arrived'[g] \in Nat
    BY <1>1 DEF Arrive
  <2>4. inbox \in Seq(List) /\ popped \in List
    OBVIOUS
  <2>5. \A i \in 1..Len(inbox) : inbox[i] \in List
    BY <2>4, ElementOfSeq
  <2>6. \A i \in 1..Len(inbox) : inbox[i].of \in Friends /\ inbox[i].upto <= arrived'[inbox[i].of]
    <3> SUFFICES ASSUME NEW i \in 1..Len(inbox)
                 PROVE  inbox[i].of \in Friends /\ inbox[i].upto <= arrived'[inbox[i].of]
      OBVIOUS
    <3>1. inbox[i].of \in Friends /\ inbox[i].upto <= arrived[inbox[i].of]
      OBVIOUS
    <3>2. inbox[i].upto \in Nat
      BY <2>5 DEF List
    <3>3. arrived[inbox[i].of] \in Nat /\ arrived'[inbox[i].of] \in Nat
          /\ arrived[inbox[i].of] <= arrived'[inbox[i].of]
      BY <2>2, <2>3, <3>1
    <3> QED
      BY <3>1, <3>2, <3>3, SMTT(30)
  <2>7. notif = "popped" => popped.of \in Friends /\ popped.upto <= arrived'[popped.of]
    <3>1. popped.upto \in Nat
      BY <2>4 DEF List
    <3> QED
      BY <2>2, <2>3, <3>1, SMTT(30)
  <2>8. CASE inbox' = inbox
    BY <2>6, <2>7, <2>8, <1>1 DEF Arrive
  <2>9. CASE inbox' = Append(inbox, m)
    <3>1. /\ Len(inbox') = Len(inbox) + 1 /\ Len(inbox) \in Nat
          /\ \A i \in 1..Len(inbox) : inbox'[i] = inbox[i]
          /\ inbox'[Len(inbox) + 1] = m
      BY <2>1, <2>4, <2>9, AppendProperties, LenProperties
    <3>2. m.of = f /\ m.upto <= arrived'[f]
      BY <2>3
    <3>3. \A i \in 1..Len(inbox') : inbox'[i].of \in Friends
             /\ inbox'[i].upto <= arrived'[inbox'[i].of]
      <4> SUFFICES ASSUME NEW i \in 1..Len(inbox')
                   PROVE  inbox'[i].of \in Friends /\ inbox'[i].upto <= arrived'[inbox'[i].of]
        OBVIOUS
      <4>1. CASE i \in 1..Len(inbox)
        BY <4>1, <3>1, <2>6
      <4>2. CASE i = Len(inbox) + 1
        BY <4>2, <3>1, <3>2
      <4> QED
        BY <4>1, <4>2, <3>1
    <3> QED
      BY <3>3, <2>7, <1>1 DEF Arrive
  <2> QED
    BY <2>8, <2>9, <1>1 DEF Arrive
<1>2. ASSUME NEW f \in Friends, Open(f) PROVE InboxOK'
  BY <1>2 DEF Open
<1>3. CASE Refresh
  BY <1>3 DEF Refresh
<1>4. CASE Close
  BY <1>4 DEF Close
<1>5. CASE Revoke
  BY <1>5 DEF Revoke
<1>6. CASE Pop
  <2>1. CASE inbox = <<>>
    BY <2>1, <1>6 DEF Pop
  <2>2. CASE inbox # <<>>
    <3>1. /\ Len(inbox) \in Nat \ {0} /\ Head(inbox) = inbox[1]
          /\ Len(Tail(inbox)) = Len(inbox) - 1
          /\ \A i \in 1..Len(Tail(inbox)) : Tail(inbox)[i] = inbox[i + 1]
      BY <2>2, HeadTailProperties, EmptySeq
    <3>2. popped' = inbox[1] /\ inbox' = Tail(inbox)
      BY <3>1, <2>2, <1>6 DEF Pop
    <3>3. 1 \in 1..Len(inbox) /\ \A i \in 1..Len(inbox') : i + 1 \in 1..Len(inbox)
      BY <3>1, <3>2
    <3> QED
      BY <3>1, <3>2, <3>3, <1>6 DEF Pop
  <2> QED
    BY <2>1, <2>2
<1>7. CASE Popped
  BY <1>7 DEF Popped
<1>8. CASE PollRefresh
  BY <1>8 DEF PollRefresh
<1>9. CASE PollSkip
  BY <1>9 DEF PollSkip
<1>10. CASE Check
  BY <1>10 DEF Check
<1>11. CASE Clear
  BY <1>11 DEF Clear
<1>12. CASE Create
  BY <1>12 DEF Create
<1>13. CASE WaitEnds
  BY <1>13 DEF WaitEnds
<1>14. CASE Fill
  BY <1>14 DEF Fill
<1>15. CASE Reset
  BY <1>15 DEF Reset
<1>16. CASE Take
  BY <1>16 DEF Take
<1>17. CASE Show
  BY <1>17 DEF Show
<1>18. CASE FetchRequest
  BY <1>18 DEF FetchRequest
<1>19. CASE FetchStore
  BY <1>19 DEF FetchStore
<1>20. CASE FetchFlag
  BY <1>20 DEF FetchFlag
<1>21. CASE Finish
  BY <1>21 DEF Finish
<1>22. CASE UNCHANGED vars
  BY <1>22 DEF vars
<1> QED
  BY <1>1, <1>2, <1>3, <1>4, <1>5, <1>6, <1>7, <1>8, <1>9, <1>10, <1>11, <1>12, <1>13, <1>14,
     <1>15, <1>16, <1>17, <1>18, <1>19, <1>20, <1>21, <1>22
  DEF Next, NotifStep, BoxStep, FetchStep

\* Every step keeps the protocol of get_message and its task.
LEMMA ProtocolStep == TypeOK /\ OneTask /\ Protocol /\ [Next]_vars => (OneTask /\ Protocol)'
<1> SUFFICES ASSUME TypeOK /\ OneTask /\ Protocol, [Next]_vars PROVE (OneTask /\ Protocol)'
  OBVIOUS
<1> USE DEF TypeOK, OneTask, Protocol, ForFriend, server, notifs, shares, boxes, fetches
<1>1. ASSUME NEW f \in Friends, Arrive(f) PROVE (OneTask /\ Protocol)'
  BY <1>1 DEF Arrive
<1>2. ASSUME NEW f \in Friends, Open(f) PROVE (OneTask /\ Protocol)'
  BY <1>2 DEF Open
<1>3. CASE Refresh
  BY <1>3 DEF Refresh
<1>4. CASE Close
  BY <1>4 DEF Close
<1>5. CASE Revoke
  BY <1>5 DEF Revoke
<1>6. CASE Pop
  BY <1>6 DEF Pop
<1>7. CASE Popped
  BY <1>7 DEF Popped
<1>8. CASE PollRefresh
  BY <1>8 DEF PollRefresh
<1>9. CASE PollSkip
  BY <1>9 DEF PollSkip
<1>10. CASE Check
  BY <1>10 DEF Check
<1>11. CASE Clear
  BY <1>11 DEF Clear
<1>12. CASE Create
  BY <1>12 DEF Create
<1>13. CASE WaitEnds
  BY <1>13 DEF WaitEnds
<1>14. CASE Fill
  BY <1>14 DEF Fill
<1>15. CASE Reset
  BY <1>15 DEF Reset
<1>16. CASE Take
  BY <1>16 DEF Take
<1>17. CASE Show
  BY <1>17 DEF Show
<1>18. CASE FetchRequest
  BY <1>18 DEF FetchRequest
<1>19. CASE FetchStore
  BY <1>19 DEF FetchStore
<1>20. CASE FetchFlag
  BY <1>20 DEF FetchFlag
<1>21. CASE Finish
  BY <1>21 DEF Finish
<1>22. CASE UNCHANGED vars
  BY <1>22 DEF vars
<1> QED
  BY <1>1, <1>2, <1>3, <1>4, <1>5, <1>6, <1>7, <1>8, <1>9, <1>10, <1>11, <1>12, <1>13, <1>14,
     <1>15, <1>16, <1>17, <1>18, <1>19, <1>20, <1>21, <1>22
  DEF Next, NotifStep, BoxStep, FetchStep

\* Every variable holds a value of its kind in every reachable state, and no
\* more is read, or announced, of a friend than has arrived.
THEOREM TypeCorrect == Spec => []TypeOK
<1>1. Init => IInv
  BY InitIInv
<1>2. IInv /\ [Next]_vars => IInv'
  BY TypeStep, InboxStep, ProtocolStep DEF IInv
<1>3. IInv => TypeOK
  BY DEF IInv
<1> QED
  BY <1>1, <1>2, <1>3, PTL DEF Spec

\* get_message returns the list of the friend it was asked for, or none,
\* whenever the fetch tasks and the timeouts of the message box come.
THEOREM AnswerForFriend == Spec => []AnswerIsForFriend
<1>1. Init => IInv
  BY InitIInv
<1>2. IInv /\ [Next]_vars => IInv'
  BY TypeStep, InboxStep, ProtocolStep DEF IInv
<1>3. IInv => AnswerIsForFriend
  BY DEF IInv, Protocol, ForFriend, AnswerIsForFriend
<1> QED
  BY <1>1, <1>2, <1>3, PTL DEF Spec

---------------------------------------------------------------------------
(* OpenChat.                                                               *)

\* What is on the screen is remembered, and is there once.
Remembered ==
    /\ \E M : log \in Seq(M)
    /\ \A i \in 1..Len(log) : HasId(log[i]) => Id(log[i]) \in seen
    /\ ShownOnce

\* A message that is shown is not one that was.
LEMMA ShowRemembers == ASSUME Remembered, NEW msg, AddMessage(msg) PROVE Remembered'
<1>1. CASE HasId(msg) /\ Id(msg) \in seen
  BY <1>1 DEF AddMessage, viewVars, Remembered, ShownOnce
<1>2. CASE ~(HasId(msg) /\ Id(msg) \in seen)
  <2>1. /\ log' = Append(log, msg) /\ seen \subseteq seen'
        /\ HasId(msg) => Id(msg) \in seen'
    BY <1>2 DEF AddMessage
  <2>2. PICK M : log \in Seq(M)
    BY DEF Remembered
  <2>3. log \in Seq(M \cup {msg}) /\ msg \in M \cup {msg}
    BY <2>2
  <2>4. /\ log' \in Seq(M \cup {msg}) /\ Len(log') = Len(log) + 1 /\ log'[Len(log) + 1] = msg
        /\ \A i \in 1..Len(log) : log'[i] = log[i]
        /\ Len(log) \in Nat
    BY <2>1, <2>3
  <2>5. \A i \in 1..Len(log') : i \in 1..Len(log) \/ (i = Len(log) + 1 /\ log'[i] = msg)
    BY <2>4
  <2>6. \A i \in 1..Len(log') : HasId(log'[i]) => Id(log'[i]) \in seen'
    BY <2>1, <2>4, <2>5 DEF Remembered
  <2>7. \A i \in 1..Len(log) : HasId(log[i]) /\ HasId(msg) => Id(log[i]) # Id(msg)
    BY <1>2 DEF Remembered
  <2>8. ShownOnce'
    BY <2>4, <2>5, <2>7 DEF Remembered, ShownOnce
  <2> QED
    BY <2>4, <2>6, <2>8 DEF Remembered
<1> QED
  BY <1>1, <1>2

\* A step that leaves the lists alone keeps them so.
LEMMA SameView == ASSUME Remembered, UNCHANGED viewVars PROVE Remembered'
  BY DEF Remembered, viewVars, ShownOnce

\* Every step does.
LEMMA RememberStep == ASSUME Remembered, [ChatNext]_chatVars PROVE Remembered'
<1>1. CASE Unsubscribe
  <2>1. log' = <<>>
    BY <1>1 DEF Unsubscribe
  <2>2. log' \in Seq({}) /\ Len(log') = 0
    BY <2>1
  <2> QED
    BY <2>2 DEF Remembered, ShownOnce
<1>2. CASE PopListener
  BY <1>2, ShowRemembers, SameView DEF PopListener
<1>3. CASE Played \/ Send
  BY <1>3, ShowRemembers DEF Played, Send
<1>4. CASE Network \/ UNCHANGED chatVars
  BY <1>4, SameView DEF Network, Connect, Disconnect, StopClient, OnEvent,
     OtherSends, BrokerTakes,
     chatVars
<1>5. CASE Task /\ ~Unsubscribe /\ ~PopListener /\ ~Played /\ ~Send
  BY <1>5, SameView DEF Task, Start, EnterRoom, SubscribeRoom, Exit, Reopen,
     Move, ReadKeys,
     Key, Cancel, RemoveListener
<1> QED
  BY <1>1, <1>2, <1>3, <1>4, <1>5 DEF ChatNext

\* ShownOnce of OpenChat: however often the broker, a retransmission or the echo
\* of an own message delivers a message with an id, the room shows it once.
THEOREM NothingShownTwice == ChatSpec => []ShownOnce
<1>1. ChatInit => Remembered
  <2> SUFFICES ASSUME ChatInit PROVE Remembered
    OBVIOUS
  <2>1. log = <<>>
    BY DEF ChatInit
  <2>2. log \in Seq({}) /\ Len(log) = 0
    BY <2>1
  <2> QED
    BY <2>2 DEF Remembered, ShownOnce
<1>2. Remembered /\ [ChatNext]_chatVars => Remembered'
  BY RememberStep
<1>3. Remembered => ShownOnce
  BY DEF Remembered
<1> QED
  BY <1>1, <1>2, <1>3, PTL DEF ChatSpec

\* What a sequence made of two contains, and in which order.
LEMMA OccursInBoth ==
    ASSUME NEW S, NEW s \in Seq(S), NEW t \in Seq(S), NEW a
    PROVE  Occurs(s \o t, a) <=> Occurs(s, a) \/ Occurs(t, a)
<1>1. /\ Len(s) \in Nat /\ Len(t) \in Nat /\ Len(s \o t) = Len(s) + Len(t)
      /\ DOMAIN s = 1..Len(s) /\ DOMAIN t = 1..Len(t) /\ DOMAIN (s \o t) = 1..Len(s \o t)
      /\ \A i \in 1..Len(s) : (s \o t)[i] = s[i]
      /\ \A i \in 1..Len(t) : (s \o t)[Len(s) + i] = t[i]
  OBVIOUS
<1>2. ASSUME Occurs(s \o t, a) PROVE Occurs(s, a) \/ Occurs(t, a)
  <2>1. PICK i \in 1..(Len(s) + Len(t)) : (s \o t)[i] = a
    BY <1>1, <1>2 DEF Occurs
  <2>2. CASE i > Len(s)
    <3>1. i - Len(s) \in 1..Len(t) /\ i = Len(s) + (i - Len(s))
      BY <1>1, <2>2
    <3>2. t[i - Len(s)] = a
      BY <1>1, <2>1, <3>1
    <3> QED
      BY <1>1, <3>1, <3>2 DEF Occurs
  <2>3. CASE i <= Len(s)
    BY <1>1, <2>1, <2>3 DEF Occurs
  <2> QED
    BY <1>1, <2>2, <2>3
<1>3. Occurs(s, a) => Occurs(s \o t, a)
  BY <1>1 DEF Occurs
<1>4. ASSUME Occurs(t, a) PROVE Occurs(s \o t, a)
  <2>1. PICK i \in 1..Len(t) : t[i] = a
    BY <1>1, <1>4 DEF Occurs
  <2>2. Len(s) + i \in 1..Len(s \o t) /\ (s \o t)[Len(s) + i] = a
    BY <1>1, <2>1
  <2> QED
    BY <1>1, <2>2 DEF Occurs
<1> QED
  BY <1>2, <1>3, <1>4

\* The order of two messages in a sequence made of two.
LEMMA BeforeInBoth ==
    ASSUME NEW S, NEW s \in Seq(S), NEW t \in Seq(S), NEW a, NEW b
    PROVE  Before(s \o t, a, b) <=> Before(s, a, b) \/ (~Occurs(s, b) /\ Before(t, a, b))
<1>1. /\ Len(s) \in Nat /\ Len(t) \in Nat /\ Len(s \o t) = Len(s) + Len(t)
      /\ DOMAIN s = 1..Len(s) /\ DOMAIN t = 1..Len(t) /\ DOMAIN (s \o t) = 1..Len(s \o t)
      /\ \A i \in 1..Len(s) : (s \o t)[i] = s[i]
      /\ \A i \in 1..Len(t) : (s \o t)[Len(s) + i] = t[i]
  OBVIOUS
<1>2. ASSUME Before(s \o t, a, b) PROVE Before(s, a, b) \/ (~Occurs(s, b) /\ Before(t, a, b))
  <2>1. PICK i \in 1..(Len(s) + Len(t)) : (s \o t)[i] = a /\ \A j \in 1..i : (s \o t)[j] # b
    BY <1>1, <1>2 DEF Before
  <2>2. CASE i > Len(s)
    <3>1. i - Len(s) \in 1..Len(t) /\ i = Len(s) + (i - Len(s))
      BY <1>1, <2>2
    <3>2. t[i - Len(s)] = a
      BY <1>1, <2>1, <3>1
    <3>3. ASSUME NEW j \in 1..(i - Len(s)) PROVE t[j] # b
      <4>1. j \in 1..Len(t) /\ Len(s) + j \in 1..i
        BY <1>1, <2>1, <2>2
      <4> QED
        BY <1>1, <2>1, <4>1
    <3>4. ~Occurs(s, b)
      BY <1>1, <2>1, <2>2 DEF Occurs
    <3> QED
      BY <1>1, <3>1, <3>2, <3>3, <3>4 DEF Before
  <2>3. CASE i <= Len(s)
    <3>1. i \in DOMAIN s /\ s[i] = a /\ \A j \in 1..i : s[j] # b
      BY <1>1, <2>1, <2>3
    <3> QED
      BY <3>1 DEF Before
  <2> QED
    BY <1>1, <2>2, <2>3
<1>3. ASSUME Before(s, a, b) PROVE Before(s \o t, a, b)
  <2>1. PICK i \in 1..Len(s) : s[i] = a /\ \A j \in 1..i : s[j] # b
    BY <1>1, <1>3 DEF Before
  <2>2. i \in 1..Len(s \o t) /\ (s \o t)[i] = a /\ \A j \in 1..i : (s \o t)[j] # b
    BY <1>1, <2>1
  <2> QED
    BY <1>1, <2>2 DEF Before
<1>4. ASSUME ~Occurs(s, b), Before(t, a, b) PROVE Before(s \o t, a, b)
  <2>1. PICK i \in 1..Len(t) : t[i] = a /\ \A j \in 1..i : t[j] # b
    BY <1>1, <1>4 DEF Before
  <2>2. Len(s) + i \in 1..Len(s \o t) /\ (s \o t)[Len(s) + i] = a
    BY <1>1, <2>1
  <2>3. ASSUME NEW j \in 1..(Len(s) + i) PROVE (s \o t)[j] # b
    <3>1. CASE j <= Len(s)
      BY <1>1, <1>4, <3>1 DEF Occurs
    <3>2. CASE j > Len(s)
      <4>1. j - Len(s) \in 1..i /\ j - Len(s) \in 1..Len(t) /\ j = Len(s) + (j - Len(s))
        BY <1>1, <2>1, <3>2
      <4> QED
        BY <1>1, <2>1, <4>1
    <3> QED
      BY <1>1, <3>1, <3>2
  <2> QED
    BY <1>1, <2>2, <2>3 DEF Before
<1> QED
  BY <1>2, <1>3, <1>4

\* What a sequence of one contains.
LEMMA OneElement ==
    ASSUME NEW e, NEW a, NEW b
    PROVE  /\ Occurs(<<e>>, a) <=> e = a
           /\ Before(<<e>>, a, b) <=> e = a /\ a # b
           /\ ~Occurs(<<>>, a) /\ ~Before(<<>>, a, b)
<1>1. DOMAIN <<e>> = {1} /\ <<e>>[1] = e /\ 1..1 = {1} /\ DOMAIN <<>> = {}
  OBVIOUS
<1> QED
  BY <1>1 DEF Occurs, Before

\* The same of a way in three parts.
LEMMA OnTheWay ==
    ASSUME NEW S, NEW s \in Seq(S), NEW h \in Seq(S), NEW q \in Seq(S), NEW a, NEW b
    PROVE  /\ Occurs(s \o h \o q, a) <=> Occurs(s, a) \/ Occurs(h, a) \/ Occurs(q, a)
           /\ Before(s \o h \o q, a, b) <=>
                \/ Before(s, a, b)
                \/ ~Occurs(s, b) /\ Before(h, a, b)
                \/ ~Occurs(s, b) /\ ~Occurs(h, b) /\ Before(q, a, b)
<1>1. s \o h \in Seq(S)
  OBVIOUS
<1>2. Occurs(s \o h \o q, a) <=> Occurs(s \o h, a) \/ Occurs(q, a)
  BY <1>1, OccursInBoth
<1>3. Occurs(s \o h, a) <=> Occurs(s, a) \/ Occurs(h, a)
  BY OccursInBoth
<1>4. Occurs(s \o h, b) <=> Occurs(s, b) \/ Occurs(h, b)
  BY OccursInBoth
<1>5. Before(s \o h \o q, a, b) <=>
        Before(s \o h, a, b) \/ (~Occurs(s \o h, b) /\ Before(q, a, b))
  BY <1>1, BeforeInBoth
<1>6. Before(s \o h, a, b) <=> Before(s, a, b) \/ (~Occurs(s, b) /\ Before(h, a, b))
  BY BeforeInBoth
<1> QED
  BY <1>2, <1>3, <1>4, <1>5, <1>6

\* The task is at one of its places; what it plays is another's, and not cut.
TaskOK ==
    /\ pc \in {"start", "rooms", "listen", "pump", "play", "input", "compose", "leave",
               "unsubscribe", "ended"}
    /\ pc = "play" => hand \in Foreign

\* The entry of the current listener, with q queued.
Entry(q) == [id |-> lid, room |-> room, queue |-> q]

\* While the task is in a room its listener is the only one; else there is none.
TableOK ==
    /\ InRoom => \E q \in Seq(ChatMessage) : listeners = <<Entry(q)>>
    /\ ~InRoom => listeners = <<>>

\* The lists begin anew with each room, and seen_ids holds only what was shown.
ViewOK ==
    /\ pc \in {"start", "rooms", "ended"} => log = <<>> /\ heard = <<>>
    /\ \A k \in seen : \E i \in DOMAIN log : k = <<log[i].from, log[i].n>>

\* The messages the device and the broker have, on whichever way.
Held == IF pc = "play" THEN <<hand>> ELSE <<>>
\* Every message that may still be delivered or shown.
Known == Range(air) \cup outbox \cup Range(heard) \cup Range(log) \cup Range(Held) \cup Range(Waiting)

\* A number is given to one message of a sender.
KnownOK ==
    /\ \A x \in Known : x.n <= sent[x.from]
    /\ \A x, y \in Known : x.from = y.from /\ x.n = y.n => x = y

\* The inductive invariant of OpenChat.
ChatInv ==
    ChatTypeOK /\ TaskOK /\ TableOK /\ ViewOK /\ KnownOK /\ RoomIsHeard

\* The search of the table, when it has the one entry.
LEMMA OneEntry ==
    ASSUME NEW l, NEW r, NEW q, NEW t, t = <<[id |-> l, room |-> r, queue |-> q]>>
    PROVE  /\ Len(t) = 1 /\ DOMAIN t = {1} /\ 1..Len(t) = {1}
           /\ {i \in DOMAIN t : t[i].id = l} = {1} /\ (CHOOSE i \in {1} : TRUE) = 1
           /\ t[1] = [id |-> l, room |-> r, queue |-> q]
  OBVIOUS

\* A table of one entry is that entry.
LEMMA OneIsAll ==
    ASSUME NEW t, DOMAIN t = {1}, t = [i \in DOMAIN t |-> t[i]], NEW e, t[1] = e PROVE t = <<e>>
<1>1. 1..1 = {1} /\ DOMAIN <<e>> = {1} /\ <<e>>[1] = e /\ <<e>> = [i \in {1} |-> e]
  OBVIOUS
<1>2. t = [i \in {1} |-> e]
  OBVIOUS
<1> QED
  BY <1>1, <1>2

\* EXCEPT on the entry changes its queue only.
LEMMA OtherQueue ==
    ASSUME NEW l, NEW r, NEW q, NEW x
    PROVE  [[id |-> l, room |-> r, queue |-> q] EXCEPT !.queue = x] = [id |-> l, room |-> r, queue |-> x]
  OBVIOUS

\* With its one entry in the table, the task waits for that queue.
LEMMA WaitingIs ==
    ASSUME NEW q, listeners = <<Entry(q)>> PROVE Waiting = q
  BY OneEntry DEF Waiting, Entry

\* With an empty table nothing is queued.
LEMMA NothingWaits == listeners = <<>> => Waiting = <<>>
  BY DEF Waiting

\* Each step moves the task along its places.
LEMMA TaskStep == ASSUME ChatInv, [ChatNext]_chatVars PROVE TaskOK'
<1> USE DEF TaskOK, ChatInv
<1>1. CASE Task
  <2>1. CASE PopListener
    <3>1. PICK q \in Seq(ChatMessage) : listeners = <<Entry(q)>>
      BY <2>1 DEF TableOK, InRoom, PopListener
    <3>2. Waiting = q
      BY <3>1, WaitingIs
    <3>3. Head(Waiting) \in ChatMessage
      BY <2>1, <3>2 DEF PopListener
    <3> QED
      BY <2>1, <3>3 DEF PopListener, Foreign
  <2>2. CASE ~PopListener
    BY <1>1, <2>2 DEF Task, Start, EnterRoom, SubscribeRoom, Exit, Reopen, Move, Played,
       ReadKeys,
       Key, Cancel, Send, RemoveListener, Unsubscribe
  <2> QED
    BY <2>1, <2>2
<1>2. CASE Network
  BY <1>2 DEF Network, Connect, Disconnect, StopClient, OnEvent, OtherSends, BrokerTakes
<1>3. CASE UNCHANGED chatVars
  BY <1>3 DEF chatVars
<1> QED
  BY <1>1, <1>2, <1>3 DEF ChatNext

\* What the steps that leave the table alone do to the place of the task.
Aside ==
    \/ Connect \/ Disconnect \/ StopClient \/ (\E s \in Others : OtherSends(s))
    \/ (\E msg \in outbox : BrokerTakes(msg))
    \/ Start \/ SubscribeRoom \/ Exit \/ Reopen \/ (\E r \in Rooms : Move(r))
    \/ ReadKeys \/ Key \/ Cancel \/ UNCHANGED chatVars

\* What those steps leave alone.
LEMMA AsideLeaves ==
    ASSUME TaskOK, Aside
    PROVE  /\ UNCHANGED <<tableVars, viewVars, lid, hand, heard>>
           /\ InRoom' = InRoom /\ (InRoom => room' = room)
           /\ (pc' = "play" <=> pc = "play")
           /\ (pc' \in {"start", "rooms", "ended"} <=> pc \in {"start", "rooms", "ended"})
           /\ Waiting' = Waiting /\ Held' = Held
<1>1. /\ UNCHANGED <<listeners, nextId, screen, seen, log, lid, hand, heard>>
      /\ InRoom' = InRoom /\ (InRoom => room' = room)
      /\ (pc' = "play" <=> pc = "play")
      /\ (pc' \in {"start", "rooms", "ended"} <=> pc \in {"start", "rooms", "ended"})
  BY DEF TaskOK, Aside, Connect, Disconnect, StopClient, OtherSends, BrokerTakes, Start,
     SubscribeRoom, Exit, Reopen, Move, ReadKeys, Key, Cancel, chatVars, tableVars, viewVars,
     netVars, InRoom
<1> QED
  BY <1>1 DEF tableVars, viewVars, Waiting, Held

\* The steps that touch the table, a list or the task's hand, and the others.
LEMMA Steps ==
    ASSUME [ChatNext]_chatVars
    PROVE  \/ Aside \/ OnEvent \/ EnterRoom \/ PopListener \/ Played \/ Send \/ RemoveListener
           \/ Unsubscribe
  BY DEF ChatNext, Task, Network, Aside

\* on_event puts a message of the room into the queue of its one listener.
LEMMA EventQueues ==
    ASSUME ChatTypeOK, TableOK, OnEvent
    PROVE  /\ TableOK'
           /\ Waiting' = IF InRoom /\ Head(air).room = room THEN Append(Waiting, Head(air))
                         ELSE Waiting
<1> DEFINE msg == Head(air)
<1>1. UNCHANGED <<pc, lid, room>> /\ msg \in ChatMessage /\ InRoom' = InRoom
  BY DEF OnEvent, ChatTypeOK, InRoom
<1>2. listeners' = IF FirstFor(msg.room) = 0 THEN listeners ELSE QueuedFor(FirstFor(msg.room), msg)
  BY DEF OnEvent
<1> HIDE DEF msg
<1>3. CASE ~InRoom
  <2>1. listeners = <<>> /\ Waiting = <<>>
    BY <1>3, NothingWaits DEF TableOK
  <2>2. FirstFor(msg.room) = 0
    BY <2>1 DEF FirstFor
  <2>3. listeners' = <<>>
    BY <1>2, <2>1, <2>2
  <2>4. Waiting' = <<>>
    BY <2>3 DEF Waiting
  <2> QED
    BY <1>1, <1>3, <2>1, <2>3, <2>4 DEF TableOK, msg
<1>4. CASE InRoom
  <2>1. PICK q \in Seq(ChatMessage) : listeners = <<Entry(q)>>
    BY <1>4 DEF TableOK
  <2>2. DOMAIN listeners = {1} /\ 1..Len(listeners) = {1} /\ listeners[1] = Entry(q)
    BY <2>1, OneEntry DEF Entry
  <2>3. Waiting = q
    BY <2>1, WaitingIs
  <2>4. CASE msg.room # room
    <3>1. FirstFor(msg.room) = 0
      BY <2>2, <2>4 DEF FirstFor, Entry
    <3>2. listeners' = listeners
      BY <1>2, <3>1
    <3>3. Waiting' = Waiting
      BY <1>1, <3>2 DEF Waiting
    <3> QED
      BY <1>1, <1>4, <2>1, <2>4, <3>2, <3>3 DEF TableOK, Entry, msg
  <2>5. CASE msg.room = room
    <3>1. {i \in 1..Len(listeners) : listeners[i].room = msg.room} = {1}
      BY <2>2, <2>5 DEF Entry
    <3>2. (CHOOSE i \in {1} : \A j \in {1} : i <= j) = 1 /\ {1} # {}
      OBVIOUS
    <3>3. FirstFor(msg.room) = 1
      BY <3>1, <3>2 DEF FirstFor
    <3>4. listeners' = [listeners EXCEPT ![1].queue = Append(@, msg)]
      BY <1>2, <3>3 DEF QueuedFor
    <3>5. Append(q, msg) \in Seq(ChatMessage)
      BY <1>1
    <3>6. listeners'[1] = [Entry(q) EXCEPT !.queue = Append(Entry(q).queue, msg)]
      BY <2>2, <3>4
    <3>7. Entry(q).queue = q
      BY DEF Entry
    <3>8. listeners'[1] = Entry(Append(q, msg))
      BY <3>6, <3>7, OtherQueue DEF Entry
    <3>9. DOMAIN listeners' = {1} /\ listeners' = [i \in DOMAIN listeners' |-> listeners'[i]]
      BY <2>2, <3>4
    <3>10. listeners' = <<Entry(Append(q, msg))>>
      BY <3>8, <3>9, OneIsAll
    <3>11. Waiting' = Append(q, msg)
      BY <1>1, <3>10, OneEntry DEF Waiting, Entry
    <3> QED
      BY <1>1, <1>4, <2>3, <2>5, <3>5, <3>10, <3>11 DEF TableOK, Entry, msg
  <2> QED
    BY <2>4, <2>5
<1> QED
  BY <1>3, <1>4

\* mqtt_rt_listener_pop takes the head of the queue.
LEMMA PopTakesHead ==
    ASSUME TableOK, PopListener
    PROVE  TableOK' /\ Waiting \in Seq(ChatMessage) /\ Waiting # <<>> /\ Waiting' = Tail(Waiting)
<1>1. PICK q \in Seq(ChatMessage) : listeners = <<Entry(q)>>
  BY DEF PopListener, TableOK, InRoom
<1>2. Waiting = q /\ q # <<>>
  BY <1>1, WaitingIs DEF PopListener
<1>3. DOMAIN listeners = {1} /\ listeners[1] = Entry(q)
  BY <1>1, OneEntry DEF Entry
<1>4. listeners' = [i \in DOMAIN listeners |->
                      IF listeners[i].id = lid
                      THEN [listeners[i] EXCEPT !.queue = Tail(listeners[i].queue)]
                      ELSE listeners[i]]
  BY DEF PopListener
<1>5. Entry(q).queue = q /\ Entry(q).id = lid
  BY DEF Entry
<1>6. listeners'[1] = [Entry(q) EXCEPT !.queue = Tail(q)]
  BY <1>3, <1>4, <1>5
<1>7. listeners'[1] = Entry(Tail(q))
  BY <1>6, OtherQueue DEF Entry
<1>8. DOMAIN listeners' = {1} /\ listeners' = [i \in DOMAIN listeners' |-> listeners'[i]]
  BY <1>3, <1>4
<1>9. listeners' = <<Entry(Tail(q))>> /\ Tail(q) \in Seq(ChatMessage)
  BY <1>2, <1>7, <1>8, OneIsAll
<1>10. UNCHANGED <<lid, room>> /\ InRoom'
  BY DEF PopListener, InRoom
<1>11. Waiting' = Tail(q)
  BY <1>9, <1>10, OneEntry DEF Waiting, Entry
<1> QED
  BY <1>2, <1>9, <1>10, <1>11 DEF TableOK, Entry

\* The steps that move the task through the table.
LEMMA EnterAdds ==
    ASSUME TableOK, EnterRoom PROVE TableOK' /\ Waiting' = <<>> /\ Waiting = <<>> /\ InRoom'
<1>1. listeners = <<>>
  BY DEF EnterRoom, TableOK, InRoom
<1>2. listeners' = <<[id |-> nextId, room |-> room, queue |-> <<>>]>> /\ lid' = nextId
      /\ room' = room /\ pc' = "listen"
  BY <1>1 DEF EnterRoom
<1>3. listeners' = <<[id |-> lid', room |-> room', queue |-> <<>>]>> /\ <<>> \in Seq(ChatMessage)
  BY <1>2
<1>4. Waiting' = <<>>
  BY <1>3, OneEntry DEF Waiting
<1> QED
  BY <1>1, <1>2, <1>3, <1>4, NothingWaits DEF TableOK, InRoom, Entry

\* mqtt_rt_remove_listener leaves the table empty: the entry was the only one.
LEMMA RemoveEmpties ==
    ASSUME TableOK, RemoveListener PROVE TableOK' /\ listeners' = <<>> /\ Waiting' = <<>>
<1>1. PICK q \in Seq(ChatMessage) : listeners = <<Entry(q)>>
  BY DEF RemoveListener, TableOK, InRoom
<1>2. Without(lid) = RemoveAt(listeners, 1)
  BY <1>1, OneEntry DEF Without, Entry
<1>3. Len(listeners) = 1
  BY <1>1
<1>4. listeners' = <<>>
  BY <1>1, <1>2, <1>3 DEF RemoveAt, RemoveListener
<1>5. Waiting' = <<>>
  BY <1>4 DEF Waiting
<1> QED
  BY <1>4, <1>5 DEF RemoveListener, TableOK, InRoom

\* Each step keeps the table.
LEMMA TableStep == ASSUME ChatInv, [ChatNext]_chatVars PROVE TableOK'
<1> USE DEF ChatInv
<1>1. CASE Aside
  BY <1>1, AsideLeaves DEF TableOK, tableVars, Entry
<1>2. CASE Played \/ Send
  <2>1. UNCHANGED <<listeners, lid, room>> /\ InRoom /\ InRoom'
    BY <1>2 DEF Played, Send, tableVars, InRoom
  <2> QED
    BY <2>1 DEF TableOK, Entry
<1>3. CASE Unsubscribe
  BY <1>3 DEF Unsubscribe, TableOK, InRoom, tableVars
<1> QED
  BY Steps, EventQueues, PopTakesHead, EnterAdds, RemoveEmpties, <1>1, <1>2, <1>3

\* What is put on the screen is typed, and the list keeps its limit.
LEMMA AddTyped ==
    ASSUME ChatTypeOK, NEW msg \in ChatMessage, AddMessage(msg)
    PROVE  /\ log' \in Seq(ChatMessage) /\ log' \in {log, Append(log, msg)}
           /\ screen' \in Seq(ChatMessage) /\ Len(screen') <= Cap
<1>1. CASE HasId(msg) /\ Id(msg) \in seen
  BY <1>1 DEF AddMessage, viewVars, ChatTypeOK
<1>2. CASE ~(HasId(msg) /\ Id(msg) \in seen)
  <2>0. log' = Append(log, msg)
        /\ screen' = IF Len(screen) < Cap THEN Append(screen, msg) ELSE Tail(Append(screen, msg))
    BY <1>2 DEF AddMessage
  <2>1. log \in Seq(ChatMessage) /\ Append(log, msg) \in Seq(ChatMessage)
    BY DEF ChatTypeOK
  <2>2. screen \in Seq(ChatMessage) /\ Len(screen) <= Cap /\ Len(screen) \in Nat
        /\ Cap \in Nat \ {0}
    BY OpenChatAssumption DEF ChatTypeOK
  <2>3. Append(screen, msg) \in Seq(ChatMessage) /\ Len(Append(screen, msg)) = Len(screen) + 1
    BY <2>2
  <2>4. Append(screen, msg) # <<>>
    BY <2>2, <2>3
  <2>5. /\ Tail(Append(screen, msg)) \in Seq(ChatMessage)
        /\ Len(Tail(Append(screen, msg))) = Len(screen)
    BY <2>2, <2>3, <2>4
  <2>6. CASE Len(screen) < Cap
    <3>1. screen' = Append(screen, msg) /\ Len(screen) + 1 <= Cap
      BY <2>0, <2>2, <2>6
    <3> QED
      BY <2>0, <2>1, <2>3, <3>1
  <2>7. CASE ~(Len(screen) < Cap)
    <3>1. screen' = Tail(Append(screen, msg))
      BY <2>0, <2>7
    <3> QED
      BY <2>0, <2>1, <2>2, <2>5, <3>1
  <2> QED
    BY <2>6, <2>7
<1> QED
  BY <1>1, <1>2

\* The types of the network and of the task.
NetTypes ==
    /\ client \in {"none", "offline", "online"} /\ subs \subseteq Rooms
    /\ outbox \subseteq ChatMessage /\ air \in Seq(ChatMessage)
    /\ nextId \in Nat /\ lid \in Nat /\ room \in Rooms /\ sent \in [Senders -> 0..MaxSent]

\* The broker adds what it passes on, or nothing.
LEMMA PassTyped ==
    ASSUME ChatTypeOK, NEW msg \in ChatMessage, PassOn(msg)
    PROVE  air' \in Seq(ChatMessage) /\ air' \in {air, Append(air, msg)}
  BY DEF PassOn, ChatTypeOK

\* Each step keeps the types of the network, the table and the counters.
LEMMA NetStep == ASSUME ChatTypeOK, TaskOK, TableOK, [ChatNext]_chatVars PROVE NetTypes'
<1>0. NetTypes /\ MaxSent \in Nat
  BY OpenChatAssumption DEF ChatTypeOK, NetTypes
<1> USE DEF NetTypes, tableVars, netVars
<1>1. CASE Network
  <2>1. CASE Connect
    <3>1. \A i \in 1..Len(listeners) : listeners[i].room \in Rooms
      BY DEF ChatTypeOK
    <3> QED
      BY <1>0, <2>1, <3>1 DEF Connect
  <2>2. CASE Disconnect \/ StopClient
    <3>1. air' = <<>> /\ subs' = {} /\ outbox' \in {outbox, {}} /\ client' \in {"none", "offline"}
          /\ UNCHANGED <<nextId, lid, room, sent>>
      BY <2>2 DEF Disconnect, StopClient
    <3>2. <<>> \in Seq(ChatMessage)
      OBVIOUS
    <3> QED
      BY <1>0, <3>1, <3>2
  <2>3. CASE OnEvent
    BY <1>0, <2>3 DEF OnEvent
  <2>4. ASSUME NEW s \in Others, OtherSends(s) PROVE NetTypes'
    <3>1. CASE /\ sent[s] < MaxSent
               /\ \E r \in subs, k \in ChatKinds :
                    PassOn([from |-> s, n |-> sent[s] + 1, room |-> r, kind |-> k])
               /\ sent' = [sent EXCEPT ![s] = @ + 1]
      <4>1. s \in Senders /\ sent[s] \in 0..MaxSent /\ sent[s] + 1 \in 1..MaxSent
        BY <1>0, <3>1 DEF Senders
      <4>2. PICK r \in subs, k \in ChatKinds :
              PassOn([from |-> s, n |-> sent[s] + 1, room |-> r, kind |-> k])
        BY <3>1
      <4>3. [from |-> s, n |-> sent[s] + 1, room |-> r, kind |-> k] \in ChatMessage
        BY <1>0, <4>1, <4>2 DEF ChatMessage
      <4>4. air' \in Seq(ChatMessage)
        BY <4>2, <4>3, PassTyped
      <4>5. sent' \in [Senders -> 0..MaxSent]
        BY <1>0, <3>1, <4>1
      <4> QED
        BY <1>0, <2>4, <4>4, <4>5 DEF OtherSends
    <3>2. CASE /\ \E i \in 1..Len(heard) : heard[i].from = s /\ PassOn(heard[i])
               /\ UNCHANGED sent
      <4>1. PICK i \in 1..Len(heard) : PassOn(heard[i])
        BY <3>2
      <4>2. heard[i] \in ChatMessage
        BY DEF ChatTypeOK
      <4>3. air' \in Seq(ChatMessage)
        BY <4>1, <4>2, PassTyped
      <4> QED
        BY <1>0, <2>4, <3>2, <4>3 DEF OtherSends
    <3> QED
      BY <2>4, <3>1, <3>2 DEF OtherSends
  <2>5. ASSUME NEW msg \in outbox, BrokerTakes(msg) PROVE NetTypes'
    <3>1. msg \in ChatMessage
      BY <1>0
    <3>2. air' \in Seq(ChatMessage)
      BY <2>5, <3>1, PassTyped DEF BrokerTakes
    <3> QED
      BY <1>0, <2>5, <3>2 DEF BrokerTakes
  <2> QED
    BY <1>1, <2>1, <2>2, <2>3, <2>4, <2>5 DEF Network
<1>2. CASE Task
  <2>1. CASE Start \/ Exit \/ Reopen \/ (\E r \in Rooms : Move(r)) \/ PopListener \/ Played
             \/ ReadKeys \/ Key \/ Cancel \/ RemoveListener
    BY <1>0, <2>1 DEF Start, Exit, Reopen, Move, PopListener, Played, ReadKeys, Key, Cancel,
       RemoveListener
  <2>2. CASE EnterRoom \/ SubscribeRoom \/ Unsubscribe
    BY <1>0, <2>2 DEF EnterRoom, SubscribeRoom, Unsubscribe
  <2>3. CASE Send
    <3>1. Me \in Senders /\ sent[Me] \in 0..MaxSent /\ sent[Me] + 1 \in 1..MaxSent
      BY <1>0, <2>3, OpenChatAssumption DEF Senders, Send
    <3>2. [from |-> Me, n |-> sent[Me] + 1, room |-> room, kind |-> "id"] \in ChatMessage
      BY <1>0, <3>1 DEF ChatMessage, ChatKinds
    <3>3. outbox' \subseteq ChatMessage
      BY <1>0, <2>3, <3>2 DEF Send, Publish
    <3>4. sent' \in [Senders -> 0..MaxSent]
      BY <1>0, <2>3, <3>1 DEF Send
    <3> QED
      BY <1>0, <2>3, <3>3, <3>4 DEF Send
  <2> QED
    BY <1>2, <2>1, <2>2, <2>3 DEF Task
<1>3. CASE UNCHANGED chatVars
  BY <1>0, <1>3 DEF chatVars
<1> QED
  BY <1>1, <1>2, <1>3 DEF ChatNext

\* The types of the screen.
ViewTypes ==
    /\ heard \in Seq(ChatMessage) /\ log \in Seq(ChatMessage)
    /\ screen \in Seq(ChatMessage) /\ Len(screen) <= Cap /\ hand \in ChatMessage \cup {NoMessage}

\* Each step keeps the types of the lists and of the message in hand.
LEMMA ViewStep == ASSUME ChatTypeOK, TaskOK, TableOK, [ChatNext]_chatVars PROVE ViewTypes'
<1>0. ViewTypes /\ 0 <= Cap
  BY OpenChatAssumption DEF ChatTypeOK, ViewTypes
<1> USE DEF ViewTypes
<1>1. CASE Aside
  BY <1>0, <1>1, AsideLeaves DEF viewVars
<1>2. CASE OnEvent
  <2>1. Head(air) \in ChatMessage
    BY <1>2 DEF OnEvent, ChatTypeOK
  <2>2. heard' \in Seq(ChatMessage)
    BY <1>0, <1>2, <2>1 DEF OnEvent
  <2> QED
    BY <1>0, <1>2, <2>2 DEF OnEvent, viewVars
<1>3. CASE EnterRoom \/ RemoveListener
  BY <1>0, <1>3 DEF EnterRoom, RemoveListener, viewVars
<1>4. CASE PopListener
  <2>1. Head(Waiting) \in ChatMessage
    BY <1>4, PopTakesHead
  <2>2. /\ hand' \in {hand, Head(Waiting)} /\ heard' = heard
        /\ UNCHANGED viewVars \/ AddMessage(Head(Waiting))
    BY <1>4 DEF PopListener
  <2> QED
    BY <1>0, <2>1, <2>2, AddTyped DEF viewVars
<1>5. CASE Played
  <2>1. hand \in ChatMessage /\ AddMessage(hand) /\ hand' = NoMessage /\ heard' = heard
    BY <1>5 DEF Played, TaskOK, Foreign
  <2> QED
    BY <1>0, <2>1, AddTyped
<1>6. CASE Send
  <2>1. Me \in Senders /\ sent[Me] \in 0..MaxSent /\ sent[Me] + 1 \in 1..MaxSent /\ room \in Rooms
    BY <1>6, OpenChatAssumption DEF Senders, Send, ChatTypeOK
  <2>2. [from |-> Me, n |-> sent[Me] + 1, room |-> room, kind |-> "id"] \in ChatMessage
    BY <2>1 DEF ChatMessage, ChatKinds
  <2> QED
    BY <1>0, <1>6, <2>2, AddTyped DEF Send
<1>7. CASE Unsubscribe
  BY <1>0, <1>7 DEF Unsubscribe
<1> QED
  BY Steps, <1>1, <1>2, <1>3, <1>4, <1>5, <1>6, <1>7

\* TypeOK of OpenChat, one step.
LEMMA ChatTypeStep == ASSUME ChatTypeOK, TaskOK, TableOK, TableOK', [ChatNext]_chatVars PROVE ChatTypeOK'
<1>1. NetTypes' /\ ViewTypes'
  BY NetStep, ViewStep
<1>2. /\ Len(listeners') <= 1
      /\ \A i \in 1..Len(listeners') : listeners'[i].room \in Rooms
                                       /\ listeners'[i].queue \in Seq(ChatMessage)
  <2>1. CASE listeners' = <<>>
    BY <2>1
  <2>2. CASE listeners' # <<>>
    <3>1. PICK q \in Seq(ChatMessage) : listeners' = <<[id |-> lid', room |-> room', queue |-> q]>>
      BY <2>2 DEF TableOK, Entry
    <3>2. 1..Len(listeners') = {1} /\ listeners'[1] = [id |-> lid', room |-> room', queue |-> q]
      BY <3>1, OneEntry
    <3>3. Len(listeners') = 1 /\ room' \in Rooms
      BY <1>1, <3>1 DEF NetTypes
    <3> QED
      BY <3>2, <3>3
  <2> QED
    BY <2>1, <2>2
<1> QED
  BY <1>1, <1>2 DEF NetTypes, ViewTypes, ChatTypeOK

\* seen_ids holds only what was shown: add_message writes both.
LEMMA AddSeen ==
    ASSUME ChatTypeOK, NEW msg \in ChatMessage, AddMessage(msg),
           \A k \in seen : \E i \in DOMAIN log : k = <<log[i].from, log[i].n>>
    PROVE  \A k \in seen' : \E i \in DOMAIN log' : k = <<log'[i].from, log'[i].n>>
<1>1. CASE HasId(msg) /\ Id(msg) \in seen
  BY <1>1 DEF AddMessage, viewVars
<1>2. CASE ~(HasId(msg) /\ Id(msg) \in seen)
  <2>1. log' = Append(log, msg) /\ seen' \subseteq seen \cup {<<msg.from, msg.n>>}
    BY <1>2 DEF AddMessage, Id
  <2>2. log \in Seq(ChatMessage)
    BY DEF ChatTypeOK
  <2>3. /\ DOMAIN log' = 1..(Len(log) + 1) /\ log'[Len(log) + 1] = msg /\ Len(log) \in Nat
        /\ DOMAIN log = 1..Len(log) /\ \A i \in 1..Len(log) : log'[i] = log[i]
    BY <2>1, <2>2
  <2>4. ASSUME NEW k \in seen PROVE \E i \in DOMAIN log' : k = <<log'[i].from, log'[i].n>>
    <3>1. PICK i \in DOMAIN log : k = <<log[i].from, log[i].n>>
      OBVIOUS
    <3>2. i \in DOMAIN log' /\ log'[i] = log[i]
      BY <2>3
    <3> QED
      BY <3>1, <3>2
  <2>5. Len(log) + 1 \in DOMAIN log'
    BY <2>3
  <2> QED
    BY <2>1, <2>3, <2>4, <2>5
<1> QED
  BY <1>1, <1>2

\* A message of this device: the next number, in the outbox, on the list.
LEMMA SendSends ==
    ASSUME ChatTypeOK, Send
    PROVE  \E msg \in ChatMessage :
              /\ msg.from = Me /\ msg.n = sent[Me] + 1 /\ AddMessage(msg)
              /\ outbox' \in {outbox, outbox \cup {msg}}
              /\ UNCHANGED <<air, listeners, lid, room, heard, hand>>
              /\ sent' = [sent EXCEPT ![Me] = @ + 1] /\ sent[Me] < MaxOwn
              /\ pc = "compose" /\ pc' \in {"pump", "leave"}
<1> DEFINE own == [from |-> Me, n |-> sent[Me] + 1, room |-> room, kind |-> "id"]
<1>1. Me \in Senders /\ sent[Me] \in 0..MaxSent /\ sent[Me] + 1 \in 1..MaxSent /\ room \in Rooms
  BY OpenChatAssumption DEF Senders, Send, ChatTypeOK
<1>2. own \in ChatMessage
  BY <1>1 DEF ChatMessage, ChatKinds
<1>3. own.from = Me /\ own.n = sent[Me] + 1
  OBVIOUS
<1>4. AddMessage(own) /\ outbox' \in {outbox, outbox \cup {own}}
  BY DEF Send, Publish
<1> HIDE DEF own
<1> QED
  BY <1>2, <1>3, <1>4 DEF Send, tableVars

\* What play_morse_message has played goes on the list.
LEMMA PlayedPlays ==
    ASSUME TaskOK, Played
    PROVE  /\ hand \in Foreign /\ hand \in ChatMessage /\ AddMessage(hand)
           /\ UNCHANGED <<air, outbox, listeners, lid, room, heard, sent>>
           /\ pc = "play" /\ pc' = "pump"
  BY DEF Played, TaskOK, Foreign, netVars, tableVars

\* Each step keeps what the lists say.
LEMMA ListsStep == ASSUME ChatInv, [ChatNext]_chatVars PROVE ViewOK'
<1> USE DEF ChatInv, ViewOK
<1>1. CASE Aside
  BY <1>1, AsideLeaves DEF viewVars
<1>2. CASE OnEvent
  BY <1>2 DEF OnEvent, InRoom, viewVars
<1>3. CASE EnterRoom \/ RemoveListener
  BY <1>3 DEF EnterRoom, RemoveListener, viewVars
<1>4. CASE PopListener
  <2>1. Head(Waiting) \in ChatMessage
    BY <1>4, PopTakesHead
  <2>2. /\ pc' \notin {"start", "rooms", "ended"}
        /\ UNCHANGED viewVars \/ AddMessage(Head(Waiting))
    BY <1>4 DEF PopListener
  <2> QED
    BY <2>1, <2>2, AddSeen DEF viewVars
<1>5. CASE Played
  BY <1>5, PlayedPlays, AddSeen
<1>6. CASE Send
  BY <1>6, SendSends, AddSeen
<1>7. CASE Unsubscribe
  BY <1>7 DEF Unsubscribe
<1> QED
  BY Steps, <1>1, <1>2, <1>3, <1>4, <1>5, <1>6, <1>7

\* What sequences hold.
LEMMA RangeIs ==
    ASSUME NEW S, NEW s \in Seq(S), NEW e \in S
    PROVE  /\ Range(s) \subseteq S /\ Range(Append(s, e)) \subseteq Range(s) \cup {e}
           /\ s # <<>> => Head(s) \in Range(s) /\ Range(Tail(s)) \subseteq Range(s)
           /\ Range(<<>>) = {} /\ Range(<<e>>) = {e}
<1>1. Range(s) \subseteq S
  BY DEF Range
<1>2. Range(Append(s, e)) \subseteq Range(s) \cup {e}
  <2> SUFFICES ASSUME NEW x \in DOMAIN Append(s, e) PROVE Append(s, e)[x] \in Range(s) \cup {e}
    BY DEF Range
  <2>1. x \in 1..(Len(s) + 1) /\ Len(s) \in Nat /\ DOMAIN s = 1..Len(s)
    OBVIOUS
  <2>2. CASE x = Len(s) + 1
    BY <2>2
  <2>3. CASE x # Len(s) + 1
    <3>1. x \in DOMAIN s /\ Append(s, e)[x] = s[x]
      BY <2>1, <2>3
    <3> QED
      BY <3>1 DEF Range
  <2> QED
    BY <2>2, <2>3
<1>3. ASSUME s # <<>> PROVE Head(s) \in Range(s) /\ Range(Tail(s)) \subseteq Range(s)
  <2>1. Len(s) \in Nat \ {0} /\ DOMAIN s = 1..Len(s) /\ 1 \in DOMAIN s /\ Head(s) = s[1]
    BY <1>3
  <2>2. ASSUME NEW x \in DOMAIN Tail(s) PROVE Tail(s)[x] \in Range(s)
    <3>1. x \in 1..(Len(s) - 1) /\ Tail(s)[x] = s[x + 1]
      BY <1>3, <2>1
    <3>2. x + 1 \in DOMAIN s
      BY <2>1, <3>1
    <3> QED
      BY <3>1, <3>2 DEF Range
  <2>3. Head(s) \in Range(s)
    BY <2>1 DEF Range
  <2> QED
    BY <2>2, <2>3 DEF Range
<1>4. Range(<<>>) = {} /\ Range(<<e>>) = {e}
  <2>1. DOMAIN <<>> = {} /\ DOMAIN <<e>> = {1} /\ <<e>>[1] = e
    OBVIOUS
  <2> QED
    BY <2>1 DEF Range
<1> QED
  BY <1>1, <1>2, <1>3, <1>4

\* The ways a message may be on are sequences of messages.
LEMMA Ways ==
    ASSUME ChatTypeOK, TaskOK, TableOK
    PROVE  /\ Waiting \in Seq(ChatMessage) /\ Held \in Seq(ChatMessage)
           /\ log \in Seq(ChatMessage) /\ heard \in Seq(ChatMessage) /\ air \in Seq(ChatMessage)
           /\ Known \subseteq ChatMessage
           /\ pc = "play" => hand \in Known
<1>1. Waiting \in Seq(ChatMessage)
  <2>1. CASE InRoom
    BY <2>1, WaitingIs DEF TableOK
  <2>2. CASE ~InRoom
    BY <2>2, NothingWaits DEF TableOK
  <2> QED
    BY <2>1, <2>2
<1>2. pc = "play" => hand \in ChatMessage
  BY DEF TaskOK, Foreign
<1>3. Held \in Seq(ChatMessage) /\ Range(Held) \subseteq ChatMessage
      /\ (pc = "play" => hand \in Range(Held))
  <2>1. CASE pc = "play"
    <3>1. Held = <<hand>> /\ hand \in ChatMessage
      BY <1>2, <2>1 DEF Held
    <3>2. <<hand>> \in Seq(ChatMessage) /\ DOMAIN <<hand>> = {1} /\ <<hand>>[1] = hand
      BY <3>1
    <3> QED
      BY <3>1, <3>2 DEF Range
  <2>2. CASE pc # "play"
    <3>1. Held = <<>> /\ <<>> \in Seq(ChatMessage) /\ DOMAIN <<>> = {}
      BY <2>2 DEF Held
    <3> QED
      BY <2>2, <3>1 DEF Range
  <2> QED
    BY <2>1, <2>2
<1>4. \A s \in Seq(ChatMessage) : Range(s) \subseteq ChatMessage
  BY DEF Range
<1> QED
  BY <1>1, <1>3, <1>4 DEF ChatTypeOK, Known

\* No step brings a message but a new one, whose number was not given before.
LEMMA SameKnown ==
    ASSUME ChatTypeOK, KnownOK, Known' \subseteq Known, sent' = sent
    PROVE  KnownOK'
  BY DEF KnownOK

\* A new message has the number nobody had.
LEMMA NewKnown ==
    ASSUME ChatTypeOK, KnownOK, Known \subseteq ChatMessage, NEW s \in Senders,
           NEW msg \in ChatMessage, msg.from = s, msg.n = sent[s] + 1,
           Known' \subseteq Known \cup {msg}, sent' = [sent EXCEPT ![s] = @ + 1]
    PROVE  KnownOK'
<1>1. sent \in [Senders -> Nat]
  BY OpenChatAssumption DEF ChatTypeOK
<1>2. \A x \in Known : x.from \in Senders /\ x.n \in Nat /\ x.n <= sent[x.from]
  BY OpenChatAssumption DEF KnownOK, ChatMessage
<1>3. sent'[s] = sent[s] + 1 /\ \A x \in Senders : sent'[x] >= sent[x] /\ sent[x] \in Nat
  BY <1>1
<1>4. ASSUME NEW x \in Known' PROVE x.n <= sent'[x.from]
  <2>1. CASE x = msg
    BY <1>3, <2>1
  <2>2. CASE x \in Known
    BY <1>2, <1>3, <2>2
  <2> QED
    BY <2>1, <2>2
<1>5. ASSUME NEW x \in Known, x.from = msg.from PROVE x.n # msg.n
  BY <1>2, <1>3, <1>5
<1>6. ASSUME NEW x \in Known', NEW y \in Known', x.from = y.from, x.n = y.n PROVE x = y
  BY <1>5, <1>6 DEF KnownOK
<1> QED
  BY <1>4, <1>6 DEF KnownOK

\* Each way is a part of Known.
LEMMA PartsOfKnown ==
    /\ Range(air) \subseteq Known /\ outbox \subseteq Known /\ Range(heard) \subseteq Known
    /\ Range(log) \subseteq Known /\ Range(Held) \subseteq Known /\ Range(Waiting) \subseteq Known
  BY DEF Known

\* Known is no more than its parts.
LEMMA KnownOf ==
    ASSUME NEW K, Range(air') \subseteq K, outbox' \subseteq K, Range(heard') \subseteq K,
           Range(log') \subseteq K, Range(Held') \subseteq K, Range(Waiting') \subseteq K
    PROVE  Known' \subseteq K
  BY DEF Known

\* One more message of K keeps a sequence in K.
LEMMA MoreIn ==
    ASSUME NEW K, NEW s \in Seq(ChatMessage), NEW e \in ChatMessage, Range(s) \subseteq K, e \in K,
           NEW u \in {s, Append(s, e)}
    PROVE  Range(u) \subseteq K
<1>1. Range(Append(s, e)) \subseteq Range(s) \cup {e}
  BY RangeIs
<1> QED
  BY <1>1

\* Each step keeps the numbers the messages' own.
LEMMA KnownStep == ASSUME ChatInv, [ChatNext]_chatVars PROVE KnownOK'
<1>0. ChatTypeOK /\ TaskOK /\ TableOK /\ KnownOK
  BY DEF ChatInv
<1> USE Ways, PartsOfKnown, <1>0
<1>1. /\ Known \subseteq ChatMessage /\ Range(<<>>) = {}
      /\ \A s \in Seq(ChatMessage), e \in ChatMessage : Range(Append(s, e)) \subseteq Range(s) \cup {e}
      /\ \A s \in Seq(ChatMessage) : s # <<>> => Head(s) \in Range(s)
            /\ Range(Tail(s)) \subseteq Range(s)
      /\ \A e \in ChatMessage : Range(<<e>>) = {e}
  <2>1. Range(<<>>) = {}
    <3>1. DOMAIN <<>> = {}
      OBVIOUS
    <3> QED
      BY <3>1 DEF Range
  <2>2. ASSUME NEW s \in Seq(ChatMessage), s # <<>> PROVE Head(s) \in ChatMessage
    BY <2>2
  <2>3. \A s \in Seq(ChatMessage) : s # <<>> => Head(s) \in Range(s)
           /\ Range(Tail(s)) \subseteq Range(s)
    BY <2>2, RangeIs
  <2>4. \A e \in ChatMessage : Range(<<e>>) = {e}
    <3>1. <<>> \in Seq(ChatMessage)
      OBVIOUS
    <3> QED
      BY <3>1, RangeIs
  <2> QED
    BY <2>1, <2>3, <2>4, RangeIs
<1>2. CASE Aside
  <2>1. /\ Range(heard') \subseteq Known /\ Range(log') \subseteq Known
        /\ Range(Held') \subseteq Known
        /\ Range(Waiting') \subseteq Known
    BY <1>2, AsideLeaves DEF viewVars
  <2>2. CASE \/ Connect \/ Disconnect \/ StopClient \/ Start \/ SubscribeRoom \/ Exit \/ Reopen
             \/ (\E r \in Rooms : Move(r)) \/ ReadKeys \/ Key \/ Cancel \/ UNCHANGED chatVars
    <3>1. air' \in {air, <<>>} /\ outbox' \in {outbox, {}} /\ sent' = sent
      BY <2>2 DEF Connect, Disconnect, StopClient, Start, SubscribeRoom, Exit, Reopen, Move,
         ReadKeys, Key, Cancel, chatVars, netVars
    <3>2. Known' \subseteq Known
      BY <1>1, <2>1, <3>1, KnownOf
    <3> QED
      BY <3>1, <3>2, SameKnown
  <2>3. ASSUME NEW s \in Others, OtherSends(s) PROVE KnownOK'
    <3>1. outbox' = outbox
      BY <2>3 DEF OtherSends
    <3>2. CASE /\ sent[s] < MaxSent
               /\ \E r \in subs, k \in ChatKinds :
                    PassOn([from |-> s, n |-> sent[s] + 1, room |-> r, kind |-> k])
               /\ sent' = [sent EXCEPT ![s] = @ + 1]
      <4>1. s \in Senders /\ sent[s] + 1 \in 1..MaxSent
        <5>1. sent[s] < MaxSent
          BY <3>2
        <5>2. s \in Senders
          BY DEF Senders
        <5>3. sent[s] \in Nat
          BY <5>2 DEF ChatTypeOK
        <5> QED
          BY <5>1, <5>2, <5>3, OpenChatAssumption
      <4>2. PICK r \in subs, k \in ChatKinds :
              PassOn([from |-> s, n |-> sent[s] + 1, room |-> r, kind |-> k])
        BY <3>2
      <4> DEFINE new == [from |-> s, n |-> sent[s] + 1, room |-> r, kind |-> k]
      <4>3. new \in ChatMessage /\ new.from = s /\ new.n = sent[s] + 1
        BY <4>1, <4>2 DEF ChatMessage, ChatTypeOK
      <4>4. air' \in {air, Append(air, new)}
        BY <4>2 DEF PassOn
      <4> HIDE DEF new
      <4>5. Range(air') \subseteq Known \cup {new}
        BY <1>1, <4>3, <4>4
      <4>6. Known' \subseteq Known \cup {new}
        BY <2>1, <3>1, <4>5, KnownOf
      <4> QED
        BY <1>1, <3>2, <4>1, <4>3, <4>6, NewKnown
    <3>3. CASE /\ \E i \in 1..Len(heard) : heard[i].from = s /\ PassOn(heard[i])
               /\ UNCHANGED sent
      <4>1. PICK i \in 1..Len(heard) : PassOn(heard[i])
        BY <3>3
      <4>2. heard[i] \in Range(heard)
        BY DEF Range
      <4>3. heard[i] \in Known /\ heard[i] \in ChatMessage
        BY <1>1, <4>2
      <4>4. Range(air') \subseteq Known
        BY <1>1, <4>1, <4>3 DEF PassOn
      <4>5. Known' \subseteq Known
        BY <2>1, <3>1, <4>4, KnownOf
      <4> QED
        BY <3>3, <4>5, SameKnown
    <3> QED
      BY <2>3, <3>2, <3>3 DEF OtherSends
  <2>4. ASSUME NEW msg \in outbox, BrokerTakes(msg) PROVE KnownOK'
    <3>1. air' \in {air, Append(air, msg)} /\ outbox' \subseteq outbox /\ sent' = sent
      BY <2>4 DEF BrokerTakes, PassOn
    <3>2. msg \in Known /\ msg \in ChatMessage
      BY <1>1
    <3>4. Range(air') \subseteq Known
      BY <3>1, <3>2, MoreIn
    <3>3. Known' \subseteq Known
      BY <2>1, <3>1, <3>4, KnownOf
    <3> QED
      BY <3>1, <3>3, SameKnown
  <2> QED
    BY <1>2, <2>2, <2>3, <2>4 DEF Aside
<1>3. CASE OnEvent
  <2>1. /\ air # <<>> /\ air' = Tail(air) /\ UNCHANGED <<outbox, log, pc, hand, sent>>
        /\ heard' \in {heard, Append(heard, Head(air))}
        /\ Waiting' \in {Waiting, Append(Waiting, Head(air))}
    BY <1>3, EventQueues DEF OnEvent, viewVars
  <2>2. Held' = Held
    BY <2>1 DEF Held
  <2>3. Head(air) \in Known /\ Head(air) \in ChatMessage
    BY <1>1, <2>1
  <2>4. Range(air') \subseteq Known /\ Range(heard') \subseteq Known
        /\ Range(Waiting') \subseteq Known
    <3>1. Range(air') \subseteq Known
      BY <1>1, <2>1
    <3>2. Range(heard') \subseteq Known
      BY <2>1, <2>3, MoreIn
    <3>3. Range(Waiting') \subseteq Known
      BY <2>1, <2>3, MoreIn
    <3> QED
      BY <3>1, <3>2, <3>3
  <2>5. Known' \subseteq Known
    BY <2>1, <2>2, <2>4, KnownOf
  <2> QED
    BY <2>1, <2>5, SameKnown
<1>4. CASE EnterRoom \/ RemoveListener
  <2>1. /\ UNCHANGED <<air, outbox, heard, log, sent>> /\ pc # "play" /\ pc' # "play"
        /\ Waiting' = <<>>
    BY <1>4, EnterAdds, RemoveEmpties DEF EnterRoom, RemoveListener, netVars, viewVars
  <2>2. Held' = Held
    BY <2>1 DEF Held
  <2>3. Known' \subseteq Known
    BY <1>1, <2>1, <2>2, KnownOf
  <2> QED
    BY <2>1, <2>3, SameKnown
<1>5. CASE PopListener
  <2>1. /\ UNCHANGED <<air, outbox, heard, sent>> /\ pc # "play"
        /\ UNCHANGED viewVars \/ AddMessage(Head(Waiting))
        /\ pc' # "play" \/ hand' = Head(Waiting)
    BY <1>5 DEF PopListener, netVars
  <2>2. Waiting # <<>> /\ Waiting' = Tail(Waiting) /\ Head(Waiting) \in Known
        /\ Head(Waiting) \in ChatMessage
    BY <1>1, <1>5, PopTakesHead
  <2>3. log' \in {log, Append(log, Head(Waiting))}
    BY <2>1, <2>2, AddTyped DEF viewVars
  <2>4. Range(Held') \subseteq Known
    BY <1>1, <2>1, <2>2 DEF Held
  <2>5. Range(log') \subseteq Known /\ Range(Waiting') \subseteq Known
    <3>1. Range(log') \subseteq Known
      BY <2>2, <2>3, MoreIn
    <3> QED
      BY <1>1, <2>2, <3>1
  <2>6. Known' \subseteq Known
    BY <2>1, <2>4, <2>5, KnownOf
  <2> QED
    BY <2>1, <2>6, SameKnown
<1>6. CASE Played
  <2>1. /\ hand \in ChatMessage /\ UNCHANGED <<air, outbox, heard, sent, listeners, lid>>
        /\ pc = "play"
        /\ pc' = "pump" /\ log' \in {log, Append(log, hand)}
    BY <1>6, PlayedPlays, AddTyped
  <2>2. Held' = <<>> /\ Waiting' = Waiting /\ hand \in Known
    BY <2>1 DEF Held, Waiting
  <2>3. Range(log') \subseteq Known
    BY <2>1, <2>2, MoreIn
  <2>4. Known' \subseteq Known
    BY <1>1, <2>1, <2>2, <2>3, KnownOf
  <2> QED
    BY <2>1, <2>4, SameKnown
<1>7. CASE Send
  <2>1. PICK msg \in ChatMessage :
           /\ msg.from = Me /\ msg.n = sent[Me] + 1 /\ AddMessage(msg)
           /\ outbox' \in {outbox, outbox \cup {msg}}
           /\ UNCHANGED <<air, listeners, lid, heard, hand>>
           /\ sent' = [sent EXCEPT ![Me] = @ + 1]
           /\ pc = "compose" /\ pc' \in {"pump", "leave"}
    BY <1>7, SendSends
  <2>2. log' \in {log, Append(log, msg)} /\ Held' = Held /\ Waiting' = Waiting
    BY <2>1, AddTyped DEF Held, Waiting
  <2>3. Range(log') \subseteq Known \cup {msg}
    <3>1. Range(log) \subseteq Known \cup {msg} /\ msg \in Known \cup {msg}
      OBVIOUS
    <3> QED
      BY <2>1, <2>2, <3>1, MoreIn
  <2>4. Known' \subseteq Known \cup {msg}
    <3>1. Range(air') \subseteq Known \cup {msg} /\ Range(heard') \subseteq Known \cup {msg}
      BY <2>1
    <3>2. Range(Held') \subseteq Known \cup {msg} /\ Range(Waiting') \subseteq Known \cup {msg}
      BY <2>2
    <3>3. outbox' \subseteq Known \cup {msg}
      BY <2>1
    <3> QED
      BY <2>3, <3>1, <3>2, <3>3, KnownOf
  <2> QED
    BY <1>1, <2>1, <2>4, NewKnown DEF Senders
<1>8. CASE Unsubscribe
  <2>1. /\ UNCHANGED <<air, outbox, listeners, sent>> /\ pc' = "rooms" /\ log' = <<>>
        /\ heard' = <<>>
        /\ listeners = <<>>
    BY <1>8 DEF Unsubscribe, tableVars, TableOK, InRoom
  <2>2. Held' = <<>> /\ Waiting' = <<>>
    BY <2>1 DEF Held, Waiting
  <2>3. Known' \subseteq Known
    BY <1>1, <2>1, <2>2, KnownOf
  <2> QED
    BY <2>1, <2>3, SameKnown
<1> QED
  BY Steps, <1>2, <1>3, <1>4, <1>5, <1>6, <1>7, <1>8

\* What a message at either end of a sequence adds.
LEMMA LastIs ==
    ASSUME NEW S, NEW s \in Seq(S), NEW e \in S, NEW a, NEW b
    PROVE  /\ Occurs(Append(s, e), a) <=> Occurs(s, a) \/ e = a
           /\ Before(Append(s, e), a, b) <=> Before(s, a, b) \/ (~Occurs(s, b) /\ e = a /\ a # b)
<1>1. <<e>> \in Seq(S) /\ Append(s, e) = s \o <<e>>
  OBVIOUS
<1>2. Occurs(s \o <<e>>, a) <=> Occurs(s, a) \/ Occurs(<<e>>, a)
  BY <1>1, OccursInBoth
<1>3. Before(s \o <<e>>, a, b) <=> Before(s, a, b) \/ (~Occurs(s, b) /\ Before(<<e>>, a, b))
  BY <1>1, BeforeInBoth
<1> QED
  BY <1>1, <1>2, <1>3, OneElement

\* The same, at the front.
LEMMA FirstIs ==
    ASSUME NEW S, NEW s \in Seq(S), s # <<>>, NEW a, NEW b
    PROVE  /\ Occurs(s, a) <=> Head(s) = a \/ Occurs(Tail(s), a)
           /\ Before(s, a, b) <=> (Head(s) = a /\ a # b) \/ (Head(s) # b /\ Before(Tail(s), a, b))
<1>1. Head(s) \in S /\ Tail(s) \in Seq(S) /\ <<Head(s)>> \in Seq(S)
  OBVIOUS
<1>2. s = <<Head(s)>> \o Tail(s)
  OBVIOUS
<1> DEFINE h == <<Head(s)>>
<1> DEFINE r == Tail(s)
<1>3. Occurs(h \o r, a) <=> Occurs(h, a) \/ Occurs(r, a)
  BY <1>1, OccursInBoth
<1>4. Before(h \o r, a, b) <=> Before(h, a, b) \/ (~Occurs(h, b) /\ Before(r, a, b))
  BY <1>1, BeforeInBoth
<1>5. /\ Occurs(h, a) <=> Head(s) = a
      /\ Occurs(h, b) <=> Head(s) = b
      /\ Before(h, a, b) <=> Head(s) = a /\ a # b
  BY OneElement
<1>6. s = h \o r
  BY <1>2
<1> HIDE DEF h, r
<1>7. /\ Occurs(s, a) <=> Occurs(h, a) \/ Occurs(r, a)
      /\ Before(s, a, b) <=> Before(h, a, b) \/ (~Occurs(h, b) /\ Before(r, a, b))
  BY <1>3, <1>4, <1>6
<1> QED
  BY <1>5, <1>7 DEF r

\* The way as its parts say it.
WayIs ==
    \A a, b \in Foreign :
       /\ Occurs(Way, a) <=> Occurs(log, a) \/ Occurs(Held, a) \/ Occurs(Waiting, a)
       /\ Before(Way, a, b) <=>
            \/ Before(log, a, b)
            \/ ~Occurs(log, b) /\ Before(Held, a, b)
            \/ ~Occurs(log, b) /\ ~Occurs(Held, b) /\ Before(Waiting, a, b)

\* The way, in its parts.
LEMMA WayParts == ChatTypeOK /\ TaskOK /\ TableOK => WayIs
<1> SUFFICES ASSUME ChatTypeOK, TaskOK, TableOK, NEW a \in Foreign, NEW b \in Foreign
             PROVE  /\ Occurs(Way, a) <=> Occurs(log, a) \/ Occurs(Held, a) \/ Occurs(Waiting, a)
                    /\ Before(Way, a, b) <=>
                         \/ Before(log, a, b)
                         \/ ~Occurs(log, b) /\ Before(Held, a, b)
                         \/ ~Occurs(log, b) /\ ~Occurs(Held, b) /\ Before(Waiting, a, b)
  BY DEF WayIs
<1>1. Waiting \in Seq(ChatMessage) /\ Held \in Seq(ChatMessage) /\ log \in Seq(ChatMessage)
  BY Ways
<1>2. Way = log \o Held \o Waiting
  BY DEF Way, Held
<1> QED
  BY <1>1, <1>2, OnTheWay

\* The same after the step.
LEMMA WayPartsNext == (ChatTypeOK /\ TaskOK /\ TableOK => WayIs)'
  BY WayParts, PTL

\* A message shown before is on the list: seen_ids and the uniqueness of numbers say so.
LEMMA ShownIsOnList ==
    ASSUME ChatInv, NEW msg \in Known, AddMessage(msg)
    PROVE  log' = Append(log, msg) \/ (log' = log /\ Occurs(log, msg))
<1>1. CASE HasId(msg) /\ Id(msg) \in seen
  <2>1. PICK i \in DOMAIN log : <<msg.from, msg.n>> = <<log[i].from, log[i].n>>
    BY <1>1 DEF ChatInv, ViewOK, Id
  <2>2. log[i] \in Known
    BY DEF Known, Range
  <2>3. log[i].from = msg.from /\ log[i].n = msg.n
    BY <2>1
  <2>4. log[i] = msg
    BY <2>2, <2>3 DEF ChatInv, KnownOK
  <2> QED
    BY <1>1, <2>4 DEF AddMessage, viewVars, Occurs
<1>2. CASE ~(HasId(msg) /\ Id(msg) \in seen)
  BY <1>2 DEF AddMessage
<1> QED
  BY <1>1, <1>2

\* Each step keeps what was delivered and what is on the way in agreement.
LEMMA RoomStep ==
    ASSUME ChatInv, ChatTypeOK', TaskOK', TableOK', [ChatNext]_chatVars PROVE RoomIsHeard'
<1>0. ChatTypeOK /\ TaskOK /\ TableOK /\ RoomIsHeard
  BY DEF ChatInv
<1>1. WayIs /\ WayIs'
  BY <1>0, WayParts, WayPartsNext
<1>2. /\ Waiting \in Seq(ChatMessage) /\ log \in Seq(ChatMessage) /\ heard \in Seq(ChatMessage)
      /\ Foreign' = Foreign
  BY <1>0, Ways DEF Foreign, ChatMessage
<1> SUFFICES ASSUME InRoom', NEW a \in Foreign, NEW b \in Foreign
             PROVE  /\ Occurs(heard', a) <=> Occurs(Way', a)
                    /\ Before(heard', a, b) <=> Before(Way', a, b)
  BY <1>2 DEF RoomIsHeard, Occurs, Before
<1>3. /\ a \in ChatMessage /\ b \in ChatMessage /\ a.from # Me /\ b.from # Me
      /\ a.kind # "big" /\ b.kind # "big"
  BY DEF Foreign
<1>4. /\ Occurs(Way, a) <=> Occurs(log, a) \/ Occurs(Held, a) \/ Occurs(Waiting, a)
      /\ Before(Way, a, b) <=>
           \/ Before(log, a, b)
           \/ ~Occurs(log, b) /\ Before(Held, a, b)
           \/ ~Occurs(log, b) /\ ~Occurs(Held, b) /\ Before(Waiting, a, b)
  BY <1>1 DEF WayIs
<1>5. /\ Occurs(Way', a) <=> Occurs(log', a) \/ Occurs(Held', a) \/ Occurs(Waiting', a)
      /\ Before(Way', a, b) <=>
           \/ Before(log', a, b)
           \/ ~Occurs(log', b) /\ Before(Held', a, b)
           \/ ~Occurs(log', b) /\ ~Occurs(Held', b) /\ Before(Waiting', a, b)
  <2>1. a \in Foreign' /\ b \in Foreign'
    BY <1>2
  <2> QED
    BY <1>1, <2>1 DEF WayIs
<1>6. InRoom => /\ Occurs(heard, a) <=> Occurs(Way, a)
                /\ Occurs(heard, b) <=> Occurs(Way, b)
                /\ Before(heard, a, b) <=> Before(Way, a, b)
  BY <1>0 DEF RoomIsHeard
<1>7. Occurs(Way, b) <=> Occurs(log, b) \/ Occurs(Held, b) \/ Occurs(Waiting, b)
  BY <1>1 DEF WayIs
<1>8. \A e : pc # "play" => ~Occurs(Held, e) /\ ~Before(Held, a, b)
  BY OneElement DEF Held
<1>9. \A e : pc' # "play" => ~Occurs(Held', e) /\ ~Before(Held', a, b)
  BY OneElement DEF Held
<1>10. CASE Aside
  <2>1. heard' = heard /\ log' = log /\ Held' = Held /\ Waiting' = Waiting /\ InRoom
    BY <1>0, <1>10, AsideLeaves DEF viewVars
  <2> QED
    BY <1>4, <1>5, <1>6, <2>1
<1>11. CASE OnEvent
  <2>1. UNCHANGED <<log, pc, hand, room>> /\ InRoom /\ Head(air) \in ChatMessage
    BY <1>0, <1>11 DEF OnEvent, viewVars, InRoom, ChatTypeOK
  <2>2. Held' = Held
    BY <2>1 DEF Held
  <2>3. CASE Head(air).room # room
    <3>1. heard' = heard /\ Waiting' = Waiting
      BY <1>0, <1>11, <2>3, EventQueues DEF OnEvent
    <3> QED
      BY <1>4, <1>5, <1>6, <2>1, <2>2, <3>1
  <2>4. CASE Head(air).room = room
    <3> DEFINE e == Head(air)
    <3>1. heard' = Append(heard, e) /\ Waiting' = Append(Waiting, e)
      BY <1>0, <1>11, <2>1, <2>4, EventQueues DEF OnEvent
    <3>2. e \in ChatMessage
      BY <2>1
    <3> HIDE DEF e
    <3>3. /\ Occurs(heard', a) <=> Occurs(heard, a) \/ e = a
          /\ Before(heard', a, b) <=> Before(heard, a, b) \/ (~Occurs(heard, b) /\ e = a /\ a # b)
      BY <1>2, <3>1, <3>2, LastIs
    <3>4. /\ Occurs(Waiting', a) <=> Occurs(Waiting, a) \/ e = a
          /\ Before(Waiting', a, b) <=> Before(Waiting, a, b) \/ (~Occurs(Waiting, b) /\ e = a /\ a # b)
      BY <1>2, <3>1, <3>2, LastIs
    <3> QED
      BY <1>4, <1>5, <1>6, <1>7, <2>1, <2>2, <3>3, <3>4
  <2> QED
    BY <2>3, <2>4
<1>12. CASE EnterRoom
  <2>1. heard' = <<>> /\ log' = <<>> /\ Waiting' = <<>> /\ pc' # "play"
    BY <1>0, <1>12, EnterAdds DEF EnterRoom, viewVars, ChatInv, ViewOK
  <2>2. \A e : ~Occurs(<<>>, e) /\ ~Before(<<>>, a, b)
    BY OneElement
  <2> QED
    BY <1>5, <1>9, <2>1, <2>2
<1>13. CASE PopListener
  <2> DEFINE e == Head(Waiting)
  <2>1. /\ InRoom /\ heard' = heard /\ pc = "pump"
        /\ \/ e.kind = "big" /\ UNCHANGED <<viewVars, pc>>
           \/ e.from = Me /\ AddMessage(e) /\ UNCHANGED pc
           \/ hand' = e /\ pc' = "play" /\ UNCHANGED viewVars
    BY <1>13 DEF PopListener, InRoom
  <2>2. Waiting # <<>> /\ Waiting' = Tail(Waiting) /\ e \in ChatMessage
    BY <1>0, <1>13, PopTakesHead
  <2> HIDE DEF e
  <2>3. /\ Occurs(Waiting, a) <=> e = a \/ Occurs(Waiting', a)
        /\ Before(Waiting, a, b) <=> (e = a /\ a # b) \/ (e # b /\ Before(Waiting', a, b))
    BY <1>2, <2>2, FirstIs DEF e
  <2>4. CASE e.kind = "big" /\ UNCHANGED <<viewVars, pc>>
    <3>1. log' = log /\ pc' # "play" /\ pc # "play" /\ e # a /\ e # b
      BY <1>3, <2>1, <2>4 DEF viewVars
    <3> QED
      BY <1>4, <1>5, <1>6, <1>8, <1>9, <2>1, <2>3, <3>1
  <2>5. CASE e.from = Me /\ AddMessage(e) /\ UNCHANGED pc
    <3>1. pc' # "play" /\ pc # "play" /\ e # a /\ e # b
      BY <1>3, <2>1, <2>5
    <3>2. log' \in {log, Append(log, e)}
      BY <1>0, <2>2, <2>5, AddTyped
    <3>3. (Occurs(log', a) <=> Occurs(log, a)) /\ (Before(log', a, b) <=> Before(log, a, b))
          /\ (Occurs(log', b) <=> Occurs(log, b))
      <4>1. CASE log' = Append(log, e)
        BY <1>2, <2>2, <3>1, <4>1, LastIs
      <4> QED
        BY <3>2, <4>1
    <3> QED
      BY <1>4, <1>5, <1>6, <1>8, <1>9, <2>1, <2>3, <3>1, <3>3
  <2>6. CASE hand' = e /\ pc' = "play" /\ UNCHANGED viewVars
    <3>1. Held' = <<e>> /\ log' = log
      BY <2>6 DEF Held, viewVars
    <3>2. /\ Occurs(Held', a) <=> e = a
          /\ Occurs(Held', b) <=> e = b
          /\ Before(Held', a, b) <=> e = a /\ a # b
      BY <3>1, OneElement
    <3>3. pc # "play"
      BY <2>1
    <3> QED
      BY <1>4, <1>5, <1>6, <1>8, <2>1, <2>3, <3>1, <3>2, <3>3
  <2> QED
    BY <2>1, <2>4, <2>5, <2>6
<1>14. CASE Played
  <2>1. /\ hand \in ChatMessage /\ AddMessage(hand) /\ UNCHANGED <<heard, listeners, lid>>
        /\ pc = "play" /\ pc' = "pump"
    BY <1>0, <1>14, PlayedPlays
  <2>2. Held = <<hand>> /\ pc' # "play" /\ Waiting' = Waiting /\ InRoom
    BY <2>1 DEF Held, Waiting, InRoom
  <2>3. /\ Occurs(Held, a) <=> hand = a
        /\ Occurs(Held, b) <=> hand = b
        /\ Before(Held, a, b) <=> hand = a /\ a # b
    BY <2>2, OneElement
  <2>4. hand \in Known
    BY <1>0, <2>1, Ways
  <2>5. CASE log' = Append(log, hand)
    <3>1. /\ Occurs(log', a) <=> Occurs(log, a) \/ hand = a
          /\ Occurs(log', b) <=> Occurs(log, b) \/ hand = b
          /\ Before(log', a, b) <=> Before(log, a, b) \/ (~Occurs(log, b) /\ hand = a /\ a # b)
      BY <1>2, <2>1, <2>5, LastIs
    <3> QED
      BY <1>4, <1>5, <1>6, <1>9, <2>1, <2>2, <2>3, <3>1
  <2>6. CASE log' = log /\ Occurs(log, hand)
    <3>1. /\ hand = a => Occurs(log, a)
          /\ hand = b => Occurs(log, b)
      BY <2>6
    <3>2. Occurs(log, a) /\ ~Occurs(log, b) => Before(log, a, b)
      <4> SUFFICES ASSUME Occurs(log, a), ~Occurs(log, b) PROVE Before(log, a, b)
        OBVIOUS
      <4>1. PICK i \in DOMAIN log : log[i] = a
        BY DEF Occurs
      <4>2. 1..i \subseteq DOMAIN log
        BY <1>2, <4>1
      <4> QED
        BY <4>1, <4>2 DEF Occurs, Before
    <3> QED
      BY <1>4, <1>5, <1>6, <1>9, <2>1, <2>2, <2>3, <2>6, <3>1, <3>2
  <2> QED
    BY <2>1, <2>4, <2>5, <2>6, ShownIsOnList
<1>15. CASE Send
  <2>1. PICK msg \in ChatMessage :
           /\ msg.from = Me /\ AddMessage(msg) /\ UNCHANGED <<listeners, lid, heard, hand>>
           /\ pc = "compose" /\ pc' \in {"pump", "leave"}
    BY <1>0, <1>15, SendSends
  <2>2. /\ log' \in {log, Append(log, msg)} /\ Waiting' = Waiting /\ InRoom /\ msg # a /\ msg # b
        /\ pc # "play" /\ pc' # "play"
    BY <1>0, <1>3, <2>1, AddTyped DEF Waiting, InRoom
  <2>3. (Occurs(log', a) <=> Occurs(log, a)) /\ (Before(log', a, b) <=> Before(log, a, b))
        /\ (Occurs(log', b) <=> Occurs(log, b))
    <3>1. CASE log' = Append(log, msg)
      BY <1>2, <2>1, <2>2, <3>1, LastIs
    <3> QED
      BY <2>2, <3>1
  <2> QED
    BY <1>4, <1>5, <1>6, <1>8, <1>9, <2>1, <2>2, <2>3
<1>16. CASE RemoveListener \/ Unsubscribe
  BY <1>16 DEF RemoveListener, Unsubscribe, InRoom
<1> QED
  BY Steps, <1>10, <1>11, <1>12, <1>13, <1>14, <1>15, <1>16

\* The invariant holds at the start.
LEMMA ChatStarts == ChatInit => ChatInv
<1> SUFFICES ASSUME ChatInit PROVE ChatInv
  OBVIOUS
<1>1. listeners = <<>> /\ Waiting = <<>> /\ pc = "start" /\ Held = <<>>
      /\ <<>> \in Seq(ChatMessage)
  BY NothingWaits DEF ChatInit, Held
<1>2. Len(<<>>) = 0 /\ 1..0 = {} /\ DOMAIN <<>> = {}
  OBVIOUS
<1>3. ChatTypeOK
  BY <1>1, <1>2, OpenChatAssumption DEF ChatTypeOK, ChatInit
<1>4. TaskOK /\ TableOK /\ ViewOK /\ RoomIsHeard
  BY <1>1 DEF ChatInit, TaskOK, TableOK, ViewOK, RoomIsHeard, InRoom
<1>5. Known = {}
  BY <1>1, <1>2 DEF Known, Range, ChatInit
<1> QED
  BY <1>3, <1>4, <1>5 DEF ChatInv, KnownOK

\* The invariant of OpenChat is inductive.
LEMMA ChatSafe == ChatSpec => []ChatInv
<1>1. ChatInv /\ [ChatNext]_chatVars => ChatInv'
  <2> SUFFICES ASSUME ChatInv, [ChatNext]_chatVars PROVE ChatInv'
    OBVIOUS
  <2>1. TaskOK' /\ TableOK' /\ ViewOK' /\ KnownOK'
    BY TaskStep, TableStep, ListsStep, KnownStep
  <2>2. ChatTypeOK'
    BY <2>1, ChatTypeStep DEF ChatInv
  <2>3. RoomIsHeard'
    BY <2>1, <2>2, RoomStep
  <2> QED
    BY <2>1, <2>2, <2>3 DEF ChatInv
<1> QED
  BY <1>1, ChatStarts, PTL DEF ChatSpec

\* ChatTypeOK of OpenChat: the types, the limit of the list on the screen and the
\* one listener of the task, for any rooms, senders and bounds.
THEOREM ChatTyped == ChatSpec => []ChatTypeOK
<1>1. ChatInv => ChatTypeOK
  BY DEF ChatInv
<1> QED
  BY <1>1, ChatSafe, PTL

\* RoomIsHeard of OpenChat: what on_event delivered for the room is, in order, what
\* the screen has shown, holds in its hand and finds in its queue.
THEOREM NothingLost == ChatSpec => []RoomIsHeard
<1>1. ChatInv => RoomIsHeard
  BY DEF ChatInv
<1> QED
  BY <1>1, ChatSafe, PTL

---------------------------------------------------------------------------
(* MorseInput.                                                             *)

\* The fields of a Button.
Field == {"edge", "pushing", "pushed", "same", "long"}

\* The records of the keys are records.
BtnOK == btn \in [Keys -> [Field -> BOOLEAN]]

\* Where the screen is, and the keys.
PlaceOK ==
    /\ kind \in Kinds /\ page \in {"keying", "result", "left", "restarted"}
    /\ held \subseteq Keys /\ stick \in Dirs /\ dirSeen \in Dirs

\* The counters.  A game that keys has a round left.
CountOK ==
    /\ pressed \in 0..(Long + 1) /\ idle \in 0..Settled
    /\ found \in 0..Rounds /\ (kind = "game" /\ page = "keying" => found < Rounds)

\* The flags.
FlagOK == {gap, tone, toneFlag, scored} \subseteq BOOLEAN

\* The letter that is asked for.
AskedOK == asked \in Letters

\* The times.
TimeOK == polled \in 0..Lag /\ wait \in 0..Pause /\ since \in 0..Settled

\* Where the tone may sound: not on a screen that was left, in the peer-to-peer screen
\* only with its flag, and after the key is up no longer than until the next poll.
Sounding ==
    kind # "game" =>
      /\ page = "left" => ~tone
      /\ kind = "p2p" /\ tone => toneFlag
      /\ tone /\ "type" \notin held => since = 0 \/ polled > 0 \/ wait > 0

\* What get_button_state returns.
LEMMA ReadIs ==
    ASSUME BtnOK, NEW k \in Keys
    PROVE  /\ Read(k) \in [Field -> BOOLEAN]
           /\ Read(k)["pushing"] <=> k \in held
           /\ Read(k)["edge"] => k \in held
<1>1. btn[k] \in [Field -> BOOLEAN]
  BY DEF BtnOK
<1>2. (k = "type" /\ pressed > Long) \in BOOLEAN
  OBVIOUS
<1> DEFINE late == k = "type" /\ pressed > Long
<1>3. Read(k) = IF k \in held /\ ~btn[k]["pushing"]
         THEN [btn[k] EXCEPT !["pushing"] = TRUE, !["edge"] = TRUE]
         ELSE IF k \notin held /\ btn[k]["pushing"]
         THEN [btn[k] EXCEPT !["pushing"] = FALSE, !["edge"] = FALSE, !["pushed"] = TRUE, !["long"] = late]
         ELSE [btn[k] EXCEPT !["edge"] = FALSE]
  BY DEF Read
<1>4. late \in BOOLEAN
  BY <1>2
<1> HIDE DEF late
<1> QED
  BY <1>1, <1>3, <1>4 DEF Field

\* The record of a key that was only read.
LEMMA SnapIs ==
    ASSUME BtnOK, NEW s, s = Snapshot
    PROVE  /\ s.t \in [Field -> BOOLEAN] /\ s.b \in [Field -> BOOLEAN]
           /\ s.e \in [Field -> BOOLEAN]
           /\ s.t["pushing"] <=> "type" \in held
           /\ s.t["edge"] => "type" \in held
<1>1. /\ s.t = Read("type") /\ s.b = Read("back") /\ s.e = Read("enter")
      /\ {"type", "back", "enter"} \subseteq Keys
  BY DEF Snapshot, Keys
<1> QED
  BY <1>1, ReadIs

\* A cleared record is one.
LEMMA FreshIs == Fresh \in [Field -> BOOLEAN]
<1>1. DOMAIN Fresh = Field
  BY DEF Fresh, Field
<1>2. \A f \in Field : Fresh[f] = FALSE
  BY DEF Fresh, Field
<1>3. Fresh = [f \in DOMAIN Fresh |-> Fresh[f]]
  BY DEF Fresh
<1> QED
  BY <1>1, <1>2, <1>3

\* What a poll reads.
LEMMA PausedIs ==
    ASSUME gap \in BOOLEAN, NEW t
    PROVE  Paused(t) \in BOOLEAN
<1>1. (idle > Gap) \in BOOLEAN
  OBVIOUS
<1>2. Paused(t) = IF t.pushing THEN gap ELSE (idle > Gap)
  BY DEF Paused
<1> DEFINE over == idle > Gap
<1>3. over \in BOOLEAN /\ Paused(t) = IF t.pushing THEN gap ELSE over
  BY <1>1, <1>2
<1> HIDE DEF over
<1> QED
  BY <1>3

\* What a poll leaves in the records.
LEMMA PolledIs ==
    ASSUME BtnOK, NEW s, s.t \in [Field -> BOOLEAN], s.b \in [Field -> BOOLEAN], s.e \in [Field -> BOOLEAN],
           NEW C, NEW P, NEW r, Polled(s, C, P, r)
    PROVE  BtnOK'
<1>1. Fresh \in [Field -> BOOLEAN]
  BY FreshIs
<1>2. ASSUME NEW b \in [Field -> BOOLEAN]
      PROVE [b EXCEPT !["same"] = TRUE] \in [Field -> BOOLEAN]
  BY <1>2 DEF Field
<1>3. btn' = After(s, C, P)
  BY DEF Polled
<1>4. ASSUME NEW k \in Keys
      PROVE  After(s, C, P)[k] \in [Field -> BOOLEAN]
  <2> DEFINE b == CASE k = "type" -> s.t [] k = "back" -> s.b [] OTHER -> s.e
  <2>1. b \in [Field -> BOOLEAN]
    OBVIOUS
  <2>2. After(s, C, P)[k] = IF k \in C THEN Fresh
                               ELSE IF k \in P THEN [b EXCEPT !["same"] = TRUE] ELSE b
    BY DEF After
  <2> HIDE DEF b
  <2> QED
    BY <1>1, <1>2, <2>1, <2>2
<1>5. After(s, C, P) = [k \in Keys |-> After(s, C, P)[k]]
  BY DEF After
<1> QED
  BY <1>3, <1>4, <1>5 DEF BtnOK

\* Every step keeps the records.
LEMMA BtnStep == ASSUME BtnOK, [MorseNext]_morseVars PROVE BtnOK'
<1>1. ASSUME NEW s, NEW C, NEW P, NEW r, s = Snapshot, Polled(s, C, P, r)
      PROVE  BtnOK'
  BY <1>1, SnapIs, PolledIs
<1>2. CASE PollTalk \/ PollP2p \/ PollOpenChat \/ PollGame
  BY <1>1, <1>2 DEF PollTalk, PollP2p, PollOpenChat, PollGame
<1>3. CASE PollResult
  <2>1. PICK C, r : Polled([Snapshot EXCEPT !.e = btn["enter"]], C, {}, r)
    BY <1>3 DEF PollResult
  <2>2. btn["enter"] \in [Field -> BOOLEAN]
    BY DEF BtnOK, Keys
  <2>3. Snapshot = [t |-> Snapshot.t, b |-> Snapshot.b, e |-> Snapshot.e, gap |-> Snapshot.gap]
    BY DEF Snapshot
  <2> DEFINE s == [Snapshot EXCEPT !.e = btn["enter"]]
  <2>4. s.t = Snapshot.t /\ s.b = Snapshot.b /\ s.e = btn["enter"]
    BY <2>3
  <2> QED
    BY <2>1, <2>2, <2>4, SnapIs, PolledIs
<1>4. CASE UNCHANGED btn
  BY <1>4 DEF BtnOK
<1> QED
  BY <1>2, <1>3, <1>4 DEF MorseNext, Poll, Press, Release, MoveStick, Tick, morseVars

\* Every step keeps the tone where it may sound.
LEMMA SoundStep == ASSUME BtnOK, TimeOK, Sounding, [MorseNext]_morseVars PROVE Sounding'
<1> USE MorseInputAssumption DEF Sounding, TimeOK, Leaves, hist, input
<1>1. CASE PollTalk
  <2>1. PICK s : s = Snapshot /\ (TalkLeave(s) \/ TalkSend(s) \/ TalkCommit(s))
                 /\ UNCHANGED <<kind, held>>
    BY <1>1 DEF PollTalk, Polled
  <2>2. CASE TalkLeave(s) \/ TalkSend(s)
    BY <2>1, <2>2, <1>1 DEF TalkLeave, TalkSend, PollTalk
  <2>3. CASE TalkCommit(s)
    <3>1. tone' => s.t["pushing"] \/ s.t["edge"]
      BY <2>3 DEF TalkCommit, TalkTone, TalkStops, TalkStarts
    <3> QED
      BY <1>1, <2>1, <2>3, <3>1, SnapIs DEF PollTalk, TalkCommit
  <2> QED
    BY <2>1, <2>2, <2>3
<1>2. CASE PollP2p
  <2>1. PICK s : s = Snapshot /\ (P2pLeave(s) \/ P2pCommit(s)) /\ UNCHANGED <<kind, held>>
    BY <1>2 DEF PollP2p, Polled
  <2>2. CASE P2pLeave(s)
    BY <1>2, <2>1, <2>2 DEF P2pLeave, PollP2p
  <2>3. CASE P2pCommit(s)
    <3>1. KeyTone(s) /\ UNCHANGED page
      BY <2>3 DEF P2pCommit
    <3>2. tone' => ~(~s.t["pushing"] /\ toneFlag) /\ (tone \/ s.t["edge"])
      BY <3>1 DEF KeyTone
    <3>3. toneFlag' = ((toneFlag \/ (s.t["edge"] /\ ~s.b["pushing"])) /\ ~(~s.t["pushing"] /\ toneFlag))
      BY <3>1 DEF KeyTone
    <3>4. tone' => tone \/ (s.t["edge"] /\ ~s.b["pushing"])
      BY <3>1 DEF KeyTone
    <3>5. kind = "p2p" /\ page = "keying"
      BY <1>2 DEF PollP2p
    <3> QED
      BY <2>1, <3>1, <3>2, <3>3, <3>4, <3>5, SnapIs
  <2> QED
    BY <2>1, <2>2, <2>3
<1>3. CASE PollOpenChat
  <2>1. PICK s : s = Snapshot /\ (OpenCancel(s) \/ OpenConfirm(s) \/ OpenStay(s))
        /\ UNCHANGED <<kind, held>>
    BY <1>3 DEF PollOpenChat, Polled
  <2>2. CASE OpenCancel(s) \/ OpenConfirm(s)
    BY <1>3, <2>1, <2>2 DEF OpenCancel, OpenConfirm, PollOpenChat
  <2>3. CASE OpenStay(s)
    BY <1>3, <2>1, <2>3, SnapIs DEF OpenStay, OpenTone, PollOpenChat
  <2> QED
    BY <2>1, <2>2, <2>3
<1>4. CASE PollGame \/ PollResult
  BY <1>4 DEF PollGame, PollResult, Polled
<1>5. CASE (\E k \in Keys : Press(k) \/ Release(k)) \/ \E d \in Dirs : MoveStick(d)
  BY <1>5 DEF Press, Release, MoveStick, Gesture
<1>6. CASE Tick
  BY <1>6 DEF Tick
<1>7. CASE UNCHANGED morseVars
  BY <1>7 DEF morseVars, clock
<1> QED
  BY <1>1, <1>2, <1>3, <1>4, <1>5, <1>6, <1>7 DEF MorseNext, Poll

\* Every step keeps the places.
LEMMA PlaceStep == ASSUME PlaceOK, [MorseNext]_morseVars PROVE PlaceOK'
<1> USE DEF PlaceOK, Leaves, input
<1>1. CASE PollTalk \/ PollP2p \/ PollOpenChat \/ PollGame \/ PollResult
  <2>1. UNCHANGED <<kind, held, stick>> /\ dirSeen' = stick
    BY <1>1 DEF PollTalk, PollP2p, PollOpenChat, PollGame, PollResult, Polled
  <2>2. page' \in {page, "left", "restarted", "result", "keying"}
    BY <1>1 DEF PollTalk, TalkLeave, TalkSend, TalkCommit, PollP2p, P2pLeave,
       P2pCommit,
       PollOpenChat, OpenCancel, OpenConfirm, OpenStay, PollGame, GameLeave, GameRestart, GamePlay,
       PollResult, PlayAgain, ResultLeave, ResultStay
  <2> QED
    BY <2>1, <2>2
<1>2. ASSUME NEW k \in Keys, Press(k) \/ Release(k) PROVE PlaceOK'
  BY <1>2 DEF Press, Release
<1>3. ASSUME NEW d \in Dirs, MoveStick(d) PROVE PlaceOK'
  BY <1>3 DEF MoveStick
<1>4. CASE Tick \/ UNCHANGED morseVars
  BY <1>4 DEF Tick, morseVars
<1> QED
  BY <1>1, <1>2, <1>3, <1>4 DEF MorseNext, Poll

\* Every step keeps the times within their bounds.
LEMMA TimeStep == ASSUME TimeOK, [MorseNext]_morseVars PROVE TimeOK'
<1> USE MorseInputAssumption DEF TimeOK, Settled
<1>1. CASE PollTalk \/ PollP2p \/ PollOpenChat \/ PollGame \/ PollResult
  <2>1. polled' = 0 /\ UNCHANGED since
    BY <1>1 DEF PollTalk, PollP2p, PollOpenChat, PollGame, PollResult, Polled, hist
  <2>2. wait' \in {0, wait, Pause} \/ (kind = "game" /\ wait' = 1)
    BY <1>1 DEF PollTalk, TalkLeave, TalkSend, TalkCommit, PollP2p, P2pLeave,
       P2pCommit,
       PollOpenChat, PollGame, GameLeave, GameRestart, GamePlay,
       PollResult
  <2> QED
    BY <2>1, <2>2
<1>2. ASSUME NEW k \in Keys, Press(k) \/ Release(k) PROVE TimeOK'
  BY <1>2 DEF Press, Release, Gesture, clock
<1>3. ASSUME NEW d \in Dirs, MoveStick(d) PROVE TimeOK'
  BY <1>3 DEF MoveStick, Gesture, clock
<1>4. CASE Tick
  BY <1>4 DEF Tick, UpTo
<1>5. CASE UNCHANGED morseVars
  BY <1>5 DEF morseVars, clock, hist
<1> QED
  BY <1>1, <1>2, <1>3, <1>4, <1>5 DEF MorseNext, Poll

\* Every step keeps the counters within theirs.
LEMMA CountStep == ASSUME CountOK, [MorseNext]_morseVars PROVE CountOK'
<1> USE MorseInputAssumption DEF CountOK, Settled
<1>1. CASE PollTalk \/ PollP2p \/ PollOpenChat \/ PollGame \/ PollResult
  <2>1. pressed' \in {0, pressed} /\ idle' \in {0, idle} /\ UNCHANGED kind
    BY <1>1 DEF PollTalk, PollP2p, PollOpenChat, PollGame, PollResult, Polled
  <2>2. CASE PollTalk \/ PollP2p \/ PollOpenChat
    <3>1. kind # "game" /\ UNCHANGED found
      BY <2>2 DEF PollTalk, PollP2p, PollOpenChat, game
    <3> QED
      BY <2>1, <3>1
  <2>3. CASE PollGame
    <3>1. UNCHANGED found \/ (found' = found + 1 /\ found < Rounds)
      BY <2>3 DEF PollGame, GameLeave, GameRestart, GamePlay, game
    <3>2. page' = "keying" => found' # Rounds
      BY <2>3 DEF PollGame, GameLeave, GameRestart, GamePlay, Leaves
    <3> QED
      BY <2>1, <3>1, <3>2
  <2>4. CASE PollResult
    <3>1. found' = 0 \/ (UNCHANGED found /\ page' # "keying")
      BY <2>4 DEF PollResult, PlayAgain, ResultLeave, ResultStay, Leaves
    <3> QED
      BY <2>1, <3>1
  <2> QED
    BY <1>1, <2>2, <2>3, <2>4
<1>2. ASSUME NEW k \in Keys, Press(k) \/ Release(k) PROVE CountOK'
  BY <1>2 DEF Press, Release, clock, game
<1>3. ASSUME NEW d \in Dirs, MoveStick(d) PROVE CountOK'
  BY <1>3 DEF MoveStick, clock, game
<1>4. CASE Tick
  BY <1>4 DEF Tick, UpTo, game
<1>5. CASE UNCHANGED morseVars
  BY <1>5 DEF morseVars, clock, game
<1> QED
  BY <1>1, <1>2, <1>3, <1>4, <1>5 DEF MorseNext, Poll

\* Every step keeps the letter a letter.
LEMMA AskedStep == ASSUME AskedOK, [MorseNext]_morseVars PROVE AskedOK'
<1>1. UNCHANGED asked \/ asked' \in Letters \cup {asked}
  BY DEF MorseNext, Press, Release, MoveStick, Tick, game, morseVars, Poll,
     PollTalk, PollP2p, PollOpenChat, PollGame, PollResult, GameLeave, GameRestart, GamePlay
<1> QED
  BY <1>1 DEF AskedOK

\* Every step keeps the flags flags.
LEMMA FlagStep == ASSUME FlagOK, BtnOK, [MorseNext]_morseVars PROVE FlagOK'
<1> USE DEF FlagOK, game
<1>1. ASSUME NEW s, NEW C, NEW P, NEW r, s = Snapshot, Polled(s, C, P, r)
      PROVE  gap' \in BOOLEAN
  <2>1. gap' = Paused(Read("type"))
    BY <1>1 DEF Polled, Snapshot
  <2> QED
    BY <2>1, PausedIs
<1>2. ASSUME NEW s, KeyTone(s) PROVE tone' \in BOOLEAN /\ toneFlag' \in BOOLEAN
  BY <1>2 DEF KeyTone
<1>3. CASE PollTalk
  <2>1. PICK s : s = Snapshot /\ (TalkLeave(s) \/ TalkSend(s) \/ TalkCommit(s))
                 /\ \E C, P, r : Polled(s, C, P, r)
    BY <1>3 DEF PollTalk
  <2>2. tone' \in BOOLEAN /\ toneFlag' \in BOOLEAN
    BY <2>1 DEF TalkLeave, TalkSend, TalkCommit, Leaves, TalkTone
  <2> QED
    BY <1>1, <1>3, <2>1, <2>2 DEF PollTalk
<1>4. CASE PollP2p
  <2>1. PICK s : s = Snapshot /\ (P2pLeave(s) \/ P2pCommit(s))
                 /\ \E C, P, r : Polled(s, C, P, r)
    BY <1>4 DEF PollP2p
  <2>2. tone' \in BOOLEAN /\ toneFlag' \in BOOLEAN
    BY <1>2, <2>1 DEF P2pLeave, P2pCommit, Leaves
  <2> QED
    BY <1>1, <1>4, <2>1, <2>2 DEF PollP2p
<1>5. CASE PollOpenChat
  <2>1. PICK s : s = Snapshot /\ (OpenCancel(s) \/ OpenConfirm(s) \/ OpenStay(s))
                 /\ \E C, P, r : Polled(s, C, P, r)
    BY <1>5 DEF PollOpenChat
  <2>2. tone' \in BOOLEAN /\ toneFlag' \in BOOLEAN
    BY <2>1 DEF OpenCancel, OpenConfirm, OpenStay, OpenTone, Leaves
  <2> QED
    BY <1>1, <1>5, <2>1, <2>2 DEF PollOpenChat
<1>6. CASE PollGame
  <2>1. PICK s : s = Snapshot /\ (GameLeave(s) \/ GameRestart(s) \/ GamePlay(s))
                 /\ \E C, P, r : Polled(s, C, P, r)
    BY <1>6 DEF PollGame
  <2>2. tone' \in BOOLEAN /\ toneFlag' \in BOOLEAN
    BY <1>2, <2>1 DEF GameLeave, GameRestart, GamePlay, Leaves
  <2>3. scored' \in BOOLEAN
    BY <2>1 DEF GameLeave, GameRestart, GamePlay
  <2> QED
    BY <1>1, <2>1, <2>2, <2>3
<1>7. CASE PollResult
  <2>1. gap' \in BOOLEAN
    <3>1. gap' = Paused(Read("type"))
      BY <1>7 DEF PollResult, Polled, Snapshot
    <3> QED
      BY <3>1, PausedIs
  <2>2. tone' \in BOOLEAN /\ toneFlag' \in BOOLEAN
    BY <1>7 DEF PollResult, PlayAgain, ResultLeave, ResultStay, Leaves
  <2> QED
    BY <1>7, <2>1, <2>2 DEF PollResult
<1>8. CASE UNCHANGED <<gap, tone, toneFlag, scored>>
  BY <1>8
<1> QED
  BY <1>3, <1>4, <1>5, <1>6, <1>7, <1>8 DEF MorseNext, Poll, Press, Release, MoveStick,
     Tick, morseVars

\* The inductive invariant of MorseInput.
MorseInv == PlaceOK /\ CountOK /\ FlagOK /\ AskedOK /\ TimeOK /\ BtnOK /\ Sounding

\* It holds always.
LEMMA MorseSafe == MorseSpec => []MorseInv
<1>1. MorseInit => MorseInv
  <2> SUFFICES ASSUME MorseInit PROVE MorseInv
    OBVIOUS
  <2>1. "e" \in Letters /\ asked \in Letters
    <3>1. <<".">> \in DOMAIN Codes /\ Codes[<<".">>] = "e"
      BY DEF Codes
    <3>2. "e" \in Letters
      BY <3>1 DEF Letters
    <3> QED
      BY <3>2 DEF MorseInit
  <2>2. Settled \in Nat
    BY MorseInputAssumption DEF Settled
  <2>3. PlaceOK
    BY DEF MorseInit, PlaceOK, Keys, Dirs
  <2>4. CountOK /\ TimeOK
    BY <2>2, MorseInputAssumption DEF MorseInit, CountOK, TimeOK
  <2>5. FlagOK
    BY DEF MorseInit, FlagOK
  <2>6. BtnOK
    BY FreshIs DEF MorseInit, BtnOK
  <2>7. Sounding
    BY DEF MorseInit, Sounding
  <2> QED
    BY <2>1, <2>3, <2>4, <2>5, <2>6, <2>7 DEF MorseInv, AskedOK
<1>2. MorseInv /\ [MorseNext]_morseVars => MorseInv'
  BY PlaceStep, CountStep, FlagStep, AskedStep, TimeStep, BtnStep, SoundStep DEF MorseInv
<1> QED
  BY <1>1, <1>2, PTL DEF MorseSpec

\* TypeOK of MorseInput.
THEOREM MorseTyped == MorseSpec => []MorseTypeOK
<1>1. MorseInv => MorseTypeOK
  BY DEF MorseInv, PlaceOK, CountOK, FlagOK, AskedOK, TimeOK, BtnOK, MorseTypeOK, Field
<1> QED
  BY <1>1, MorseSafe, PTL

\* KeyedTone: on the screens that send text the tone outlasts the key by no more than
\* the time to the next poll, and never the screen.
THEOREM ToneEnds == MorseSpec => []KeyedTone
<1>1. MorseInv => KeyedTone
  BY MorseInputAssumption DEF MorseInv, TimeOK, Sounding, KeyedTone, ToneOnlyWhileKeyed
<1> QED
  BY <1>1, MorseSafe, PTL

\* What a message is made of: letters, line ends and spaces.
Glyph == Letters \cup {"nl", "sp"}

\* Where a careful user's fingers are.
Posture ==
  CASE op \in {"idle", "letter"} -> held = {} /\ stick = "mid"
    [] op = "sent" -> held = {} /\ stick = "mid" /\ kind # "game"
    [] op = "mark" -> held = {"type"} /\ stick = "mid"
    [] op = "enter" -> held = {"enter"} /\ stick = "mid" /\ kind # "game" /\ meant # <<>>
    [] op = "flick" -> held = {} /\ stick \in {"up", "down"} /\ kind = "openchat"
    [] op \in {"eraser", "chordEnd"} ->
         \/ held = {"back"} /\ stick = "mid" /\ "back" \in Eraser[kind]
         \/ held = {} /\ stick = "left" /\ "left" \in Eraser[kind]
    [] op = "chord" ->
         \/ held = {"back", "type"} /\ stick = "mid" /\ "back" \in Eraser[kind]
         \/ held = {"type"} /\ stick = "left" /\ "left" \in Eraser[kind]
    [] OTHER -> FALSE

\* The last poll saw the key as it is.
Seen(k) == btn[k].pushing <=> k \in held

\* What the last poll has not seen is the last gesture.
Watched ==
  /\ \A k \in Keys : ~btn[k].pushed
  /\ ~Seen("type") => op \in {"mark", "letter", "chord", "chordEnd"} /\ since <= polled
  /\ ~Seen("back") => /\ since <= polled /\ "back" \in Eraser[kind]
                      /\ op = "idle" \/ (op = "eraser" /\ "back" \in held)
  /\ ~Seen("enter") => op \in {"enter", "sent"} /\ since <= polled
  /\ dirSeen # stick => op \in {"eraser", "idle", "flick"} /\ since <= polled

\* To the screen the type key is still down.
TypeDown == btn["type"].pushing

\* The pause starts when the screen saw the key up, a press when it saw it down.
Timed ==
  /\ TypeDown => idle <= polled
  /\ op = "mark" /\ TypeDown => pressed <= since /\ (since <= pressed + Lag \/ pressed > Long)

\* The message is as meant; in a game the letters are counted.
Written ==
  IF kind = "game" THEN text = <<>> /\ found = Len(meant) ELSE text = meant

\* A mark whose end no poll has seen: how long the key was down tells which it is.
Released ==
  /\ Written /\ aim = asked /\ page = "keying" /\ wait = 0 /\ (gap => morse = <<>>)
     /\ since <= idle
  /\ \/ keyed = Append(morse, ".") /\ pressed + Lag <= Long + since
     \/ keyed = Append(morse, "_") /\ pressed > Long

\* The letter is open: its marks are those that were keyed, its pause is running.
Undecided ==
  /\ Written /\ aim = asked /\ page = "keying" /\ wait = 0 /\ morse = keyed /\ ~gap
  /\ since <= idle /\ idle <= since + Lag /\ idle <= Gap + polled

\* Letters of the game keyed as asked, the one just keyed included.
Counted == Len(meant) + (IF Codes[keyed] = aim THEN 1 ELSE 0)

\* The letter is closed: it is in the message, or in a game compared, or about to be.
Decided ==
  /\ morse = <<>> /\ since + Lag > Gap
  /\ page = "keying" \/ (page = "result" /\ kind = "game")
  /\ wait > 0 => kind = "game" /\ wait = 1
  /\ keyed \in DOMAIN Codes =>
       IF kind # "game" THEN text = Append(meant, Codes[keyed])
       ELSE \/ /\ text = <<Codes[keyed]>> /\ found = Len(meant) /\ aim = asked
               /\ since <= Gap + Lag + polled /\ wait = 0 /\ page = "keying"
            \/ text = <<>> /\ found = Counted
  /\ kind = "game" /\ keyed \notin DOMAIN Codes => text = <<>>

\* What the screen holds at each stage of the careful user's plan.
Stage ==
  /\ op \in {"idle", "mark", "eraser", "chord", "enter"} => Written
  /\ op \in {"mark", "letter"} \/ morse = <<>>
  /\ op \notin {"letter", "idle", "sent"} => page = "keying"
  /\ op = "idle" => page = "keying" \/ (page = "result" /\ kind = "game")
  /\ op # "letter" => wait = 0
  /\ op = "mark" => morse = keyed /\ (gap => morse = <<>>) /\ aim = asked
  /\ op = "letter" => keyed # <<>> /\ IF TypeDown THEN Released ELSE Undecided \/ Decided
  /\ op = "chordEnd" => IF TypeDown THEN meant = ButLast(text) ELSE text = meant
  /\ op = "chordEnd" /\ ~TypeDown /\ "back" \in held => btn["back"].same
  /\ op = "idle" /\ btn["back"].pushing => btn["back"].same
  /\ op = "flick" => IF dirSeen = stick THEN text = meant ELSE meant = Append(text, StickLetter[stick])
  /\ op = "sent" =>
       IF btn["enter"].pushing THEN page = "keying" /\ text = meant /\ meant # <<>>
       ELSE \/ page = "left" /\ out = meant /\ since <= Lag
            \/ page = "keying" /\ kind = "p2p" /\ text = <<>>

\* Messages are made of letters, letters of marks.
CareTypes ==
  /\ text \in Seq(Glyph) /\ meant \in Seq(Glyph)
  /\ morse \in Seq({".", "_"}) /\ keyed \in Seq({".", "_"})

\* The inductive invariant: as long as the user is careful the screen follows.
Care == op # "off" => Posture /\ Watched /\ Timed /\ Stage /\ CareTypes

\* The thresholds of a screen, and the counters.
LEMMA Ticks ==
    ASSUME MorseInv
    PROVE  /\ Long \in Nat /\ Gap \in Nat /\ Lag \in Nat /\ Lag >= 1 /\ Long >= 2 * Lag + 1
           /\ Gap > Long + Lag /\ Settled = Gap + 2 * Lag + 1
           /\ polled \in 0..Lag /\ since \in 0..Settled /\ idle \in 0..Settled
           /\ pressed \in 0..(Long + 1) /\ wait \in 0..Pause
  BY MorseInputAssumption DEF MorseInv, CountOK, TimeOK, Settled

\* What a press of a key means to a careful user.
LEMMA PressPlans ==
    ASSUME NEW k \in Keys, PressPlan(k)
    PROVE  \/ op' = "off"
           \/ k = "type" /\ AtRest /\ op' = "mark" /\ keyed' = <<>> /\ meant' = meant
           \/ k = "type" /\ op = "letter" /\ Steady /\ since <= Gap - Lag /\ op' = "mark"
              /\ keyed' = keyed /\ meant' = meant
           \/ k = "type" /\ op = "eraser" /\ Steady /\ op' = "chord" /\ keyed' = <<>>
              /\ meant' = meant
           \/ k = "back" /\ AtRest /\ "back" \in Eraser[kind] /\ op' = "eraser" /\ keyed' = <<>>
              /\ meant' = meant
           \/ k = "enter" /\ AtRest /\ kind # "game" /\ meant # <<>> /\ op' = "enter"
              /\ keyed' = <<>>
              /\ meant' = meant
  BY DEF PressPlan, Plan, Off

\* What a release means.
LEMMA ReleasePlans ==
    ASSUME NEW k \in Keys, ReleasePlan(k)
    PROVE  \/ op' = "off"
           \/ k = "type" /\ op = "mark" /\ Steady /\ since <= Long - Lag /\ op' = "letter"
              /\ keyed' = Append(keyed, ".") /\ meant' = meant
           \/ k = "type" /\ op = "mark" /\ since > Long + Lag /\ op' = "letter"
              /\ keyed' = Append(keyed, "_") /\ meant' = meant
           \/ k = "type" /\ op = "chord" /\ Steady /\ op' = "chordEnd" /\ keyed' = <<>>
              /\ meant' = ButLast(meant)
           \/ k = "back" /\ op = "chordEnd" /\ Steady /\ op' = "idle" /\ keyed' = <<>>
              /\ meant' = meant
           \/ k = "enter" /\ op = "enter" /\ Steady /\ op' = "sent" /\ keyed' = <<>>
              /\ meant' = meant
  BY DEF ReleasePlan, Plan, Off, ButLast

\* What the stick means.
LEMMA StickPlans ==
    ASSUME NEW d \in Dirs, StickPlan(d)
    PROVE  \/ op' = "off"
           \/ d = "left" /\ AtRest /\ "left" \in Eraser[kind] /\ op' = "eraser" /\ keyed' = <<>>
              /\ meant' = meant
           \/ d = "mid" /\ stick = "left" /\ op \in {"eraser", "chordEnd"} /\ Steady
              /\ op' = "idle"
              /\ keyed' = <<>> /\ meant' = meant
           \/ d \in {"up", "down"} /\ AtRest /\ kind = "openchat" /\ op' = "flick" /\ keyed' = <<>>
              /\ meant' = Append(meant, StickLetter[d])
           \/ d = "mid" /\ op = "flick" /\ Steady /\ op' = "idle" /\ keyed' = <<>>
              /\ meant' = meant
  BY DEF StickPlan, Plan, Off

\* A sequence with one more at its end, and with one less.
LEMMA OneMore ==
    ASSUME NEW S, NEW s \in Seq(S), NEW e \in S
    PROVE  Append(s, e) \in Seq(S) /\ Append(s, e) # <<>> /\ Len(Append(s, e)) = Len(s) + 1
<1>1. Len(Append(s, e)) = Len(s) + 1 /\ Len(s) \in Nat /\ Append(s, e) \in Seq(S)
  OBVIOUS
<1>2. Len(<<>>) = 0
  OBVIOUS
<1> QED
  BY <1>1, <1>2

\* The same of a sequence without its last.
LEMMA OneLess ==
    ASSUME NEW S, NEW s \in Seq(S)
    PROVE  ButLast(s) \in Seq(S)
<1>1. CASE s = <<>>
  BY <1>1 DEF ButLast
<1>2. CASE s # <<>>
  <2>1. Len(s) \in Nat /\ Len(s) # 0
    BY <1>2
  <2>2. Front(s) = SubSeq(s, 1, Len(s) - 1)
    BY DEF Front
  <2>3. SubSeq(s, 1, Len(s) - 1) \in Seq(S)
    BY <2>1
  <2> QED
    BY <1>2, <2>2, <2>3 DEF ButLast
<1> QED
  BY <1>1, <1>2

\* After more than a polling interval without a gesture the last poll has seen it all.
LEMMA AllSeen ==
    ASSUME MorseInv, Care, op # "off", since > Lag
    PROVE  (\A k \in Keys : Seen(k)) /\ dirSeen = stick
<1>1. since > polled
  BY Ticks
<1>2. ~(since <= polled)
  BY <1>1, Ticks
<1> QED
  BY <1>2 DEF Care, Watched, Keys

\* At rest everything is seen, the message is written and no letter is open.
LEMMA RestIs ==
    ASSUME MorseInv, Care, AtRest
    PROVE  /\ op = "idle" /\ held = {} /\ stick = "mid" /\ dirSeen = "mid"
           /\ \A k \in Keys : Seen(k) /\ ~btn[k].pushed
           /\ Written /\ morse = <<>> /\ page = "keying" /\ wait = 0
<1>1. op = "idle" /\ since > Lag /\ page = "keying" /\ wait = 0
  BY Ticks DEF AtRest
<1> QED
  BY <1>1, AllSeen DEF Care, Posture, Watched, Stage

\* A gesture alone changes nothing the screen holds.
LEMMA GestureOnly ==
    ASSUME MorseInv, Gesture,
           UNCHANGED <<kind, page, btn, dirSeen, clock, gap, wait, morse, text, tone, toneFlag, out, game>>
    PROVE  /\ UNCHANGED <<kind, page, btn, dirSeen, pressed, idle, polled, gap, wait, morse, text, out,
                          asked, found>>
           /\ since' = 0 /\ page \in {"keying", "result"}
           /\ since' <= polled' /\ since' <= idle' /\ (TypeDown' <=> TypeDown)
  BY Ticks DEF Gesture, clock, game, Awake, TypeDown

\* A key that goes down keeps the screen with the careful user.
LEMMA CarePress == ASSUME MorseInv, Care, NEW k \in Keys, Press(k) PROVE Care'
<1> SUFFICES ASSUME op' # "off" PROVE (Posture /\ Watched /\ Timed /\ Stage /\ CareTypes)'
  BY DEF Care
<1>1. /\ UNCHANGED <<kind, page, stick, btn, dirSeen, pressed, idle, polled, gap, wait, morse, text, out,
                     asked, found>>
      /\ since' = 0 /\ since' <= polled' /\ since' <= idle' /\ (TypeDown' <=> TypeDown)
      /\ held' = held \cup {k} /\ k \notin held
      /\ aim' = IF k = "type" /\ op # "letter" THEN asked ELSE aim
      /\ \A j \in Keys : btn'[j].pushed = btn[j].pushed /\ btn'[j].pushing = btn[j].pushing
  BY GestureOnly DEF Press
<1>2. op # "off"
  BY PressPlans DEF Press, AtRest
<1>8. <<>> \in Seq({".", "_"})
  OBVIOUS
<1>3. Posture /\ Watched /\ Timed /\ Stage /\ CareTypes
  BY <1>2 DEF Care
<1>4. CASE AtRest /\ k = "type" /\ op' = "mark" /\ keyed' = <<>> /\ meant' = meant
  <2>1. /\ op = "idle" /\ held = {} /\ stick = "mid" /\ dirSeen = "mid" /\ Written /\ morse = <<>>
        /\ \A j \in Keys : Seen(j) /\ ~btn[j].pushed
        /\ page = "keying" /\ wait = 0
    BY <1>4, RestIs
  <2>2. Posture'
    BY <1>1, <1>4, <2>1 DEF Posture
  <2>3. Watched'
    BY <1>1, <1>4, <2>1 DEF Watched, Seen, Keys
  <2>4. ~TypeDown'
    BY <1>1, <2>1 DEF TypeDown, Seen, Keys
  <2>5. Written'
    BY <1>1, <1>4, <2>1 DEF Written
  <2>6. Stage' /\ Timed'
    BY <1>1, <1>4, <2>1, <2>4, <2>5 DEF Stage, Timed
  <2>7. CareTypes'
    BY <1>1, <1>8, <1>3, <1>4 DEF CareTypes
  <2> QED
    BY <2>2, <2>3, <2>6, <2>7
<1>5. CASE k = "type" /\ op = "letter" /\ Steady /\ since <= Gap - Lag /\ op' = "mark"
           /\ keyed' = keyed /\ meant' = meant
  <2>1. (\A j \in Keys : Seen(j)) /\ dirSeen = stick /\ held = {} /\ stick = "mid" /\ ~TypeDown
    BY <1>2, <1>3, <1>5, AllSeen DEF Steady, Posture, Seen, Keys, TypeDown
  <2>2. Undecided
    BY <1>3, <1>5, <2>1, Ticks DEF Stage, Decided
  <2>3. Posture'
    BY <1>1, <1>5, <2>1 DEF Posture
  <2>4. Watched'
    BY <1>1, <1>3, <1>5, <2>1 DEF Watched, Seen, Keys
  <2>5. Written'
    BY <1>1, <1>5, <2>2 DEF Written, Undecided
  <2>6. Stage' /\ Timed'
    BY <1>1, <1>5, <2>1, <2>2, <2>5 DEF Stage, Timed, Undecided
  <2>7. CareTypes'
    BY <1>1, <1>3, <1>5 DEF CareTypes
  <2> QED
    BY <2>3, <2>4, <2>6, <2>7
<1>6. CASE k = "type" /\ op = "eraser" /\ Steady /\ op' = "chord" /\ keyed' = <<>>
           /\ meant' = meant
  <2>1. (\A j \in Keys : Seen(j)) /\ dirSeen = stick
    BY <1>2, <1>6, AllSeen DEF Steady
  <2>2. "type" \notin held /\ ~TypeDown
    BY <1>3, <1>6, <2>1 DEF Posture, Seen, Keys, TypeDown
  <2>3. Posture'
    BY <1>1, <1>3, <1>6 DEF Posture
  <2>4. Watched'
    BY <1>1, <1>3, <1>6, <2>1 DEF Watched, Seen, Keys
  <2>5. Written'
    BY <1>1, <1>3, <1>6 DEF Written, Stage
  <2>6. Stage' /\ Timed'
    BY <1>1, <1>3, <1>6, <2>2, <2>5 DEF Stage, Timed
  <2>7. CareTypes'
    BY <1>1, <1>8, <1>3, <1>6 DEF CareTypes
  <2> QED
    BY <2>3, <2>4, <2>6, <2>7
<1>7. CASE AtRest /\ op' \in {"eraser", "enter"} /\ keyed' = <<>> /\ meant' = meant
           /\ \/ k = "back" /\ "back" \in Eraser[kind] /\ op' = "eraser"
              \/ k = "enter" /\ kind # "game" /\ meant # <<>> /\ op' = "enter"
  <2>1. /\ op = "idle" /\ held = {} /\ stick = "mid" /\ dirSeen = "mid" /\ Written /\ morse = <<>>
        /\ \A j \in Keys : Seen(j) /\ ~btn[j].pushed
        /\ page = "keying" /\ wait = 0
    BY <1>7, RestIs
  <2>2. Posture'
    BY <1>1, <1>7, <2>1 DEF Posture
  <2>3. Watched'
    BY <1>1, <1>7, <2>1 DEF Watched, Seen, Keys
  <2>4. ~TypeDown'
    BY <1>1, <2>1 DEF TypeDown, Seen, Keys
  <2>5. Written'
    BY <1>1, <1>7, <2>1 DEF Written
  <2>6. Stage' /\ Timed'
    BY <1>1, <1>7, <2>1, <2>4, <2>5 DEF Stage, Timed
  <2>7. CareTypes'
    BY <1>1, <1>8, <1>3, <1>7 DEF CareTypes
  <2> QED
    BY <2>2, <2>3, <2>6, <2>7
<1> QED
  BY PressPlans, <1>4, <1>5, <1>6, <1>7 DEF Press

\* So does a key that goes up.
LEMMA CareRelease == ASSUME MorseInv, Care, NEW k \in Keys, Release(k) PROVE Care'
<1> SUFFICES ASSUME op' # "off" PROVE (Posture /\ Watched /\ Timed /\ Stage /\ CareTypes)'
  BY DEF Care
<1>1. /\ UNCHANGED <<kind, page, stick, btn, dirSeen, pressed, idle, polled, gap, wait, morse, text, out,
                     asked, found, aim>>
      /\ since' = 0 /\ since' <= polled' /\ since' <= idle' /\ (TypeDown' <=> TypeDown)
      /\ held' = held \ {k} /\ k \in held
      /\ \A j \in Keys : btn'[j].pushed = btn[j].pushed /\ btn'[j].pushing = btn[j].pushing
  BY GestureOnly DEF Release
<1>2. op # "off"
  BY ReleasePlans DEF Release
<1>3. Posture /\ Watched /\ Timed /\ Stage /\ CareTypes
  BY <1>2 DEF Care
<1>4. <<>> \in Seq({".", "_"}) /\ "." \in {".", "_"} /\ "_" \in {".", "_"}
  OBVIOUS
<1>5. CASE k = "type" /\ op = "mark" /\ op' = "letter" /\ meant' = meant
           /\ \/ Steady /\ since <= Long - Lag /\ keyed' = Append(keyed, ".")
              \/ since > Long + Lag /\ keyed' = Append(keyed, "_")
  <2>1. since > Lag
    <3>1. since > Long + Lag => since > Lag
      BY Ticks
    <3> QED
      BY <1>5, <3>1 DEF Steady
  <2>2. (\A j \in Keys : Seen(j)) /\ dirSeen = stick /\ held = {"type"} /\ stick = "mid"
           /\ TypeDown
    BY <1>2, <1>3, <1>5, <2>1, AllSeen DEF Posture, Seen, Keys, TypeDown
  <2>3. Posture'
    BY <1>1, <1>5, <2>2 DEF Posture
  <2>4. Watched'
    BY <1>1, <1>3, <1>5, <2>2 DEF Watched, Seen, Keys
  <2>5. Written'
    BY <1>1, <1>3, <1>5 DEF Written, Stage
  <2>6. Timed'
    BY <1>1, <1>3, <1>5 DEF Timed
  <2>7. pressed <= since /\ (since <= pressed + Lag \/ pressed > Long) /\ morse = keyed
    BY <1>3, <1>5, <2>2 DEF Timed, Stage
  <2>8. \/ keyed' = Append(morse', ".") /\ pressed' + Lag <= Long + since'
        \/ keyed' = Append(morse', "_") /\ pressed' > Long
    <3>1. CASE since <= Long - Lag /\ keyed' = Append(keyed, ".")
      <4>1. pressed + Lag <= Long + 0
        BY <2>7, <3>1, Ticks
      <4> QED
        BY <1>1, <2>7, <3>1, <4>1
    <3>2. CASE since > Long + Lag /\ keyed' = Append(keyed, "_")
      <4>1. since > Long + Lag /\ since <= pressed + Lag => pressed > Long
        BY Ticks
      <4> QED
        BY <1>1, <2>7, <3>2, <4>1
    <3> QED
      BY <1>5, <3>1, <3>2
  <2>9. keyed' # <<>> /\ keyed' \in Seq({".", "_"})
    BY <1>3, <1>4, <1>5, OneMore DEF CareTypes
  <2>10. Released'
    BY <1>1, <1>3, <1>5, <2>5, <2>8 DEF Released, Stage
  <2>11. Stage'
    BY <1>1, <1>5, <2>2, <2>9, <2>10 DEF Stage
  <2>12. CareTypes'
    BY <1>1, <1>3, <1>5, <2>9 DEF CareTypes
  <2> QED
    BY <2>3, <2>4, <2>6, <2>11, <2>12
<1>6. CASE k = "type" /\ op = "chord" /\ Steady /\ op' = "chordEnd" /\ keyed' = <<>>
           /\ meant' = ButLast(meant)
  <2>1. (\A j \in Keys : Seen(j)) /\ dirSeen = stick /\ TypeDown
    BY <1>1, <1>2, <1>6, AllSeen DEF Steady, Seen, Keys, TypeDown
  <2>2. Posture'
    BY <1>1, <1>3, <1>6 DEF Posture
  <2>3. Watched'
    BY <1>1, <1>3, <1>6, <2>1 DEF Watched, Seen, Keys
  <2>4. Timed'
    BY <1>1, <1>3, <1>6 DEF Timed
  <2>5. kind # "game"
    BY <1>3, <1>6 DEF Posture, Eraser
  <2>6. text = meant
    BY <1>3, <1>6, <2>5 DEF Stage, Written
  <2>7. Stage'
    BY <1>1, <1>3, <1>6, <2>1, <2>6 DEF Stage
  <2>8. ButLast(meant) \in Seq(Glyph)
    BY <1>3, OneLess DEF CareTypes
  <2>9. CareTypes'
    BY <1>1, <1>3, <1>4, <1>6, <2>8 DEF CareTypes
  <2> QED
    BY <2>2, <2>3, <2>4, <2>7, <2>9
<1>7. CASE k = "back" /\ op = "chordEnd" /\ Steady /\ op' = "idle" /\ keyed' = <<>>
           /\ meant' = meant
  <2>1. (\A j \in Keys : Seen(j)) /\ dirSeen = stick
    BY <1>2, <1>7, AllSeen DEF Steady
  <2>2. held = {"back"} /\ stick = "mid" /\ "back" \in Eraser[kind] /\ ~TypeDown
        /\ btn["back"].pushing
    BY <1>1, <1>3, <1>7, <2>1 DEF Posture, Seen, Keys, TypeDown
  <2>3. kind # "game"
    BY <2>2 DEF Eraser
  <2>4. Posture'
    BY <1>1, <1>7, <2>2 DEF Posture
  <2>5. Watched'
    BY <1>1, <1>3, <1>7, <2>1, <2>2 DEF Watched, Seen, Keys
  <2>6. Timed'
    BY <1>1, <1>3, <1>7 DEF Timed
  <2>7. text = meant /\ btn["back"].same
    BY <1>3, <1>7, <2>2 DEF Stage
  <2>8. Written'
    BY <1>1, <1>7, <2>3, <2>7 DEF Written
  <2>9. Stage'
    BY <1>1, <1>3, <1>7, <2>7, <2>8 DEF Stage
  <2>10. CareTypes'
    BY <1>1, <1>3, <1>4, <1>7 DEF CareTypes
  <2> QED
    BY <2>4, <2>5, <2>6, <2>9, <2>10
<1>8. CASE k = "enter" /\ op = "enter" /\ Steady /\ op' = "sent" /\ keyed' = <<>> /\ meant' = meant
  <2>1. (\A j \in Keys : Seen(j)) /\ dirSeen = stick /\ btn["enter"].pushing
    BY <1>1, <1>2, <1>8, AllSeen DEF Steady, Seen, Keys
  <2>2. held = {"enter"} /\ stick = "mid" /\ kind # "game" /\ meant # <<>>
    BY <1>3, <1>8 DEF Posture
  <2>3. Posture'
    BY <1>1, <1>8, <2>2 DEF Posture
  <2>4. Watched'
    BY <1>1, <1>3, <1>8, <2>1 DEF Watched, Seen, Keys
  <2>5. Timed'
    BY <1>1, <1>3, <1>8 DEF Timed
  <2>6. text = meant
    BY <1>3, <1>8, <2>2 DEF Stage, Written
  <2>7. Stage'
    BY <1>1, <1>3, <1>8, <2>1, <2>2, <2>6 DEF Stage
  <2>8. CareTypes'
    BY <1>1, <1>3, <1>4, <1>8 DEF CareTypes
  <2> QED
    BY <2>3, <2>4, <2>5, <2>7, <2>8
<1> QED
  BY ReleasePlans, <1>5, <1>6, <1>7, <1>8 DEF Release

\* And the stick.
LEMMA CareStick == ASSUME MorseInv, Care, NEW d \in Dirs, MoveStick(d) PROVE Care'
<1> SUFFICES ASSUME op' # "off" PROVE (Posture /\ Watched /\ Timed /\ Stage /\ CareTypes)'
  BY DEF Care
<1>1. /\ UNCHANGED <<kind, page, held, btn, dirSeen, pressed, idle, polled, gap, wait, morse, text, out,
                     asked, found, aim>>
      /\ since' = 0 /\ since' <= polled' /\ since' <= idle' /\ (TypeDown' <=> TypeDown)
      /\ stick' = d /\ d # stick
      /\ \A j \in Keys : btn'[j].pushed = btn[j].pushed /\ btn'[j].pushing = btn[j].pushing
  BY GestureOnly DEF MoveStick
<1>2. op # "off"
  BY StickPlans DEF MoveStick, AtRest
<1>3. Posture /\ Watched /\ Timed /\ Stage /\ CareTypes
  BY <1>2 DEF Care
<1>4. <<>> \in Seq({".", "_"})
  OBVIOUS
<1>5. CASE d = "left" /\ AtRest /\ "left" \in Eraser[kind] /\ op' = "eraser" /\ keyed' = <<>>
           /\ meant' = meant
  <2>1. /\ op = "idle" /\ held = {} /\ stick = "mid" /\ dirSeen = "mid" /\ Written /\ morse = <<>>
        /\ \A j \in Keys : Seen(j) /\ ~btn[j].pushed
        /\ page = "keying" /\ wait = 0
    BY <1>5, RestIs
  <2>2. Posture'
    BY <1>1, <1>5, <2>1 DEF Posture
  <2>3. Watched'
    BY <1>1, <1>5, <2>1 DEF Watched, Seen, Keys
  <2>4. ~TypeDown'
    BY <1>1, <2>1 DEF TypeDown, Seen, Keys
  <2>5. Written'
    BY <1>1, <1>5, <2>1 DEF Written
  <2>6. Stage' /\ Timed'
    BY <1>1, <1>5, <2>1, <2>4, <2>5 DEF Stage, Timed
  <2>7. CareTypes'
    BY <1>1, <1>3, <1>4, <1>5 DEF CareTypes
  <2> QED
    BY <2>2, <2>3, <2>6, <2>7
<1>6. CASE d = "mid" /\ stick = "left" /\ op \in {"eraser", "chordEnd"} /\ Steady /\ op' = "idle"
           /\ keyed' = <<>> /\ meant' = meant
  <2>1. (\A j \in Keys : Seen(j)) /\ dirSeen = stick
    BY <1>2, <1>6, AllSeen DEF Steady
  <2>2. held = {} /\ "left" \in Eraser[kind] /\ ~TypeDown /\ ~btn["back"].pushing
    BY <1>3, <1>6, <2>1 DEF Posture, Seen, Keys, TypeDown
  <2>3. kind # "game"
    BY <2>2 DEF Eraser
  <2>4. Posture'
    BY <1>1, <1>6, <2>2 DEF Posture
  <2>5. Watched'
    BY <1>1, <1>3, <1>6, <2>1 DEF Watched, Seen, Keys
  <2>6. text = meant
    BY <1>3, <1>6, <2>2, <2>3 DEF Stage, Written
  <2>7. Written'
    BY <1>1, <1>6, <2>3, <2>6 DEF Written
  <2>8. Stage' /\ Timed'
    BY <1>1, <1>3, <1>6, <2>2, <2>7 DEF Stage, Timed
  <2>9. CareTypes'
    BY <1>1, <1>3, <1>4, <1>6 DEF CareTypes
  <2> QED
    BY <2>4, <2>5, <2>8, <2>9
<1>7. CASE d \in {"up", "down"} /\ AtRest /\ kind = "openchat" /\ op' = "flick" /\ keyed' = <<>>
           /\ meant' = Append(meant, StickLetter[d])
  <2>1. /\ op = "idle" /\ held = {} /\ stick = "mid" /\ dirSeen = "mid" /\ Written /\ morse = <<>>
        /\ \A j \in Keys : Seen(j) /\ ~btn[j].pushed
        /\ page = "keying" /\ wait = 0
    BY <1>7, RestIs
  <2>2. Posture'
    BY <1>1, <1>7, <2>1 DEF Posture
  <2>3. Watched'
    BY <1>1, <1>7, <2>1 DEF Watched, Seen, Keys
  <2>4. ~TypeDown'
    BY <1>1, <2>1 DEF TypeDown, Seen, Keys
  <2>5. text = meant /\ dirSeen' # stick'
    BY <1>1, <1>7, <2>1 DEF Written
  <2>6. Stage' /\ Timed'
    BY <1>1, <1>7, <2>1, <2>4, <2>5 DEF Stage, Timed
  <2>7. StickLetter[d] \in Glyph
    BY <1>7 DEF StickLetter, Glyph
  <2>8. meant' \in Seq(Glyph)
    BY <1>3, <1>7, <2>7, OneMore DEF CareTypes
  <2>9. CareTypes'
    BY <1>1, <1>3, <1>4, <1>7, <2>8 DEF CareTypes
  <2> QED
    BY <2>2, <2>3, <2>6, <2>9
<1>8. CASE d = "mid" /\ op = "flick" /\ Steady /\ op' = "idle" /\ keyed' = <<>> /\ meant' = meant
  <2>1. (\A j \in Keys : Seen(j)) /\ dirSeen = stick
    BY <1>2, <1>8, AllSeen DEF Steady
  <2>2. held = {} /\ kind = "openchat" /\ ~TypeDown /\ ~btn["back"].pushing
    BY <1>3, <1>8, <2>1 DEF Posture, Seen, Keys, TypeDown
  <2>3. Posture'
    BY <1>1, <1>8, <2>2 DEF Posture
  <2>4. Watched'
    BY <1>1, <1>3, <1>8, <2>1 DEF Watched, Seen, Keys
  <2>5. text = meant
    BY <1>3, <1>8, <2>1 DEF Stage
  <2>6. Written'
    BY <1>1, <1>8, <2>2, <2>5 DEF Written
  <2>7. Stage' /\ Timed'
    BY <1>1, <1>3, <1>8, <2>2, <2>6 DEF Stage, Timed
  <2>8. CareTypes'
    BY <1>1, <1>3, <1>4, <1>8 DEF CareTypes
  <2> QED
    BY <2>3, <2>4, <2>7, <2>8
<1> QED
  BY StickPlans, <1>5, <1>6, <1>7, <1>8 DEF MoveStick

\* While the loop sleeps, the last gesture is long seen.
LEMMA AsleepIs ==
    ASSUME MorseInv, Care, op # "off", wait > 0
    PROVE  op = "letter" /\ ~TypeDown /\ Decided /\ wait = 1 /\ since > Lag
<1>1. wait # 0
  BY Ticks
<1>2. op = "letter" /\ Stage
  BY <1>1 DEF Care, Stage
<1>3. ~TypeDown /\ Decided
  BY <1>1, <1>2 DEF Stage, Released, Undecided
<1>4. since + Lag > Gap /\ wait = 1
  BY <1>3 DEF Decided
<1>5. since > Lag
  BY <1>4, Ticks
<1> QED
  BY <1>2, <1>3, <1>4, <1>5

\* A letter that was released is seen as such by the next poll.
LEMMA ReleasedIs ==
    ASSUME MorseInv, Care, op = "letter", TypeDown
    PROVE  since <= polled /\ Released
<1>1. ~Seen("type")
  BY DEF Care, Posture, Seen, TypeDown
<1> QED
  BY <1>1 DEF Care, Watched, Stage

\* What a tick does to the counters.
LEMMA TickIs ==
    ASSUME MorseInv, Tick
    PROVE  /\ since' = (IF since < Settled THEN since + 1 ELSE Settled)
           /\ idle' = (IF idle < Settled THEN idle + 1 ELSE Settled)
           /\ pressed' = (IF pressed < Long + 1 THEN pressed + 1 ELSE Long + 1)
           /\ wait = 0 => polled < Lag /\ polled' = polled + 1 /\ wait' = 0
           /\ wait > 0 => polled' = Lag /\ wait' = wait - 1
           /\ UNCHANGED <<kind, page, held, stick, btn, dirSeen, gap, morse, text, out, asked,
                          found, aim>>
           /\ page # "left" /\ (TypeDown' <=> TypeDown) /\ (\A k \in Keys : Seen(k)' <=> Seen(k))
<1>1. wait = 0 \/ wait > 0
  BY Ticks
<1> QED
  BY <1>1, Ticks DEF Tick, UpTo, input, game, TypeDown, Seen, Awake

\* The tick that ends the pause after a letter: it has been read and committed.
LEMMA CareEnds ==
    ASSUME MorseInv, Care, Tick, op = "letter", since + 1 = Settled PROVE Care'
<1> SUFFICES ASSUME op' # "off" PROVE (Posture /\ Watched /\ Timed /\ Stage /\ CareTypes)'
  BY DEF Care
<1>0. Posture /\ Watched /\ Timed /\ Stage /\ CareTypes
  BY DEF Care
<1>1. /\ keyed \in DOMAIN Codes /\ op' = "idle" /\ keyed' = <<>>
      /\ meant' = IF kind = "game" /\ Codes[keyed] # aim
                  THEN meant ELSE Append(meant, Codes[keyed])
  BY DEF Tick, LetterPlan, Plan, Off
<1>2. since = Gap + 2 * Lag /\ since > Lag /\ ~(since <= polled)
  BY Ticks
<1>3. ~TypeDown /\ (\A k \in Keys : Seen(k)) /\ dirSeen = stick
  BY <1>2, AllSeen, ReleasedIs
<1>4. ~Undecided
  <2> SUFFICES ASSUME Undecided PROVE FALSE
    OBVIOUS
  <2>1. wait = 0 /\ since <= idle /\ idle <= Gap + polled
    BY DEF Undecided
  <2>2. polled < Lag
    BY <2>1, TickIs
  <2> QED
    BY <1>2, <2>1, <2>2, Ticks
<1>5. Decided
  BY <1>0, <1>3, <1>4 DEF Stage
<1>6. ~(since <= Gap + Lag + polled /\ wait = 0)
  BY <1>2, TickIs, Ticks
<1>7. IF kind # "game" THEN text = Append(meant, Codes[keyed]) ELSE text = <<>> /\ found = Counted
  BY <1>1, <1>5, <1>6 DEF Decided
<1>8. Codes[keyed] \in Glyph
  BY <1>1 DEF Glyph, Letters
<1>9. /\ meant' \in Seq(Glyph) /\ <<>> \in Seq({".", "_"}) /\ Len(meant) \in Nat
      /\ Len(Append(meant, Codes[keyed])) = Len(meant) + 1
  <2>1. meant \in Seq(Glyph)
    BY <1>0 DEF CareTypes
  <2>2. Append(meant, Codes[keyed]) \in Seq(Glyph)
        /\ Len(Append(meant, Codes[keyed])) = Len(meant) + 1
    BY <1>8, <2>1, OneMore
  <2>3. Len(meant) \in Nat /\ <<>> \in Seq({".", "_"})
    BY <2>1
  <2> QED
    BY <1>1, <2>1, <2>2, <2>3
<1>10. CareTypes'
  BY <1>0, <1>1, <1>9, TickIs DEF CareTypes
<1>11. Posture'
  BY <1>0, <1>1, TickIs DEF Posture
<1>12. Watched'
  BY <1>0, <1>1, <1>3, TickIs DEF Watched, Keys
<1>13. Timed'
  BY <1>1, <1>3, TickIs DEF Timed
<1>14. Written'
  <2>1. CASE kind # "game"
    BY <1>1, <1>7, <2>1, TickIs DEF Written
  <2>2. CASE kind = "game"
    <3>1. Len(meant) + 0 = Len(meant)
      BY <1>9
    <3>2. Len(meant') = Counted
      BY <1>1, <1>9, <2>2, <3>1 DEF Counted
    <3> QED
      BY <1>7, <2>2, <3>2, TickIs DEF Written
  <2> QED
    BY <2>1, <2>2
<1>15. wait' = 0
  <2>1. wait \in {0, 1}
    BY AsleepIs, Ticks
  <2> QED
    BY <2>1, TickIs
<1>16. ~btn["back"].pushing
  BY <1>0, <1>3 DEF Posture, Seen, Keys
<1>17. Stage'
  BY <1>1, <1>5, <1>14, <1>15, <1>16, TickIs DEF Stage, Decided
<1> QED
  BY <1>10, <1>11, <1>12, <1>13, <1>17

\* Time alone keeps the screen with the careful user.
LEMMA CareTick == ASSUME MorseInv, Care, Tick PROVE Care'
<1>1. CASE op = "letter" /\ since + 1 = Settled
  BY <1>1, CareEnds
<1> SUFFICES ASSUME ~(op = "letter" /\ since + 1 = Settled), op' # "off"
             PROVE  (Posture /\ Watched /\ Timed /\ Stage /\ CareTypes)'
  BY <1>1 DEF Care
<1>2. UNCHANGED <<op, keyed, meant>> /\ op # "off"
  BY DEF Tick, LetterPlan
<1>3. Posture /\ Watched /\ Timed /\ Stage /\ CareTypes
  BY <1>2 DEF Care
<1>4. UNCHANGED <<kind, page, held, stick, btn, dirSeen, gap, morse, text, out, asked, found, aim>>
      /\ page # "left"
      /\ (TypeDown' <=> TypeDown) /\ (\A k \in Keys : Seen(k)' <=> Seen(k))
  BY TickIs
<1>5. Posture' /\ CareTypes' /\ (Written' <=> Written) /\ Counted' = Counted
  BY <1>2, <1>3, <1>4 DEF Posture, CareTypes, Written, Counted
<1>6. since <= polled => since' <= polled'
  <2>1. since <= polled => wait = 0
    BY <1>2, AsleepIs, Ticks
  <2> QED
    BY <2>1, TickIs, Ticks
<1>7. Watched'
  BY <1>2, <1>3, <1>4, <1>6 DEF Watched, Keys
<1>8. TypeDown => wait = 0 /\ idle' <= polled'
  <2>1. TypeDown => wait = 0
    BY <1>2, AsleepIs, Ticks
  <2>2. TypeDown => idle <= polled
    BY <1>3 DEF Timed
  <2> QED
    BY <2>1, <2>2, TickIs, Ticks
<1>9. pressed <= since /\ (since <= pressed + Lag \/ pressed > Long)
        => pressed' <= since' /\ (since' <= pressed' + Lag \/ pressed' > Long)
  BY TickIs, Ticks
<1>10. Timed'
  BY <1>2, <1>3, <1>4, <1>8, <1>9 DEF Timed
<1>11. op = "letter" /\ TypeDown => Released'
  <2> SUFFICES ASSUME op = "letter", TypeDown PROVE Released'
    OBVIOUS
  <2>1. since <= polled /\ Released
    BY ReleasedIs
  <2>2. since' = since + 1 /\ since' <= idle'
    <3>1. since <= idle
      BY <2>1 DEF Released
    <3>2. since < Settled
      BY <2>1, Ticks
    <3> QED
      BY <3>1, <3>2, TickIs, Ticks
  <2>3. pressed + Lag <= Long + since => pressed' + Lag <= Long + since'
    BY <2>2, TickIs, Ticks
  <2>4. pressed > Long => pressed' > Long
    BY TickIs, Ticks
  <2>5. wait' = 0
    BY <2>1, TickIs DEF Released
  <2> QED
    BY <1>2, <1>4, <1>5, <2>1, <2>2, <2>3, <2>4, <2>5 DEF Released
<1>12. Undecided => Undecided'
  <2> SUFFICES ASSUME Undecided PROVE Undecided'
    OBVIOUS
  <2>1. wait = 0 /\ since <= idle /\ idle <= since + Lag /\ idle <= Gap + polled
    BY DEF Undecided
  <2>2. wait' = 0 /\ polled' = polled + 1 /\ polled < Lag
    BY <2>1, TickIs
  <2>3. since' = since + 1 /\ idle' = idle + 1
    BY <2>1, <2>2, TickIs, Ticks
  <2>4. since' <= idle' /\ idle' <= since' + Lag /\ idle' <= Gap + polled'
    BY <2>1, <2>2, <2>3, Ticks
  <2> QED
    BY <1>2, <1>4, <1>5, <2>2, <2>4 DEF Undecided
<1>13. Decided => Decided'
  <2> SUFFICES ASSUME Decided PROVE Decided'
    OBVIOUS
  <2>1. since + Lag > Gap => since' + Lag > Gap
    BY TickIs, Ticks
  <2>2. wait' > 0 => FALSE
    <3>1. wait \in {0, 1}
      BY Ticks DEF Decided
    <3> QED
      BY <3>1, TickIs
  <2>3. since <= Gap + Lag + polled /\ wait = 0 => since' <= Gap + Lag + polled' /\ wait' = 0
    BY TickIs, Ticks
  <2> QED
    BY <1>2, <1>4, <1>5, <2>1, <2>2, <2>3 DEF Decided
<1>14. op # "letter" => wait' = 0
  BY <1>3, TickIs DEF Stage
<1>15. Stage'
  BY <1>2, <1>3, <1>4, <1>5, <1>11, <1>12, <1>13, <1>14 DEF Stage
<1> QED
  BY <1>5, <1>7, <1>10, <1>15

\* What the loop reads of keys that a careful user handles.
LEMMA CareReads ==
    ASSUME MorseInv, \A j \in Keys : ~btn[j].pushed, NEW k \in Keys
    PROVE  /\ Read(k).pushing <=> k \in held
           /\ Read(k).pushed <=> k \notin held /\ btn[k].pushing
           /\ Read(k).edge <=> k \in held /\ ~btn[k].pushing
           /\ Read(k).same = btn[k].same
           /\ Read(k).pushed => (Read(k).long <=> k = "type" /\ pressed > Long)
<1>1. btn[k] \in [Field -> BOOLEAN] /\ btn[k]["pushed"] = FALSE
  BY DEF MorseInv, BtnOK
<1> DEFINE late == k = "type" /\ pressed > Long
<1>2. Read(k) = IF k \in held /\ ~btn[k]["pushing"]
         THEN [btn[k] EXCEPT !["pushing"] = TRUE, !["edge"] = TRUE]
         ELSE IF k \notin held /\ btn[k]["pushing"]
         THEN [btn[k] EXCEPT !["pushing"] = FALSE, !["edge"] = FALSE, !["pushed"] = TRUE, !["long"] = late]
         ELSE [btn[k] EXCEPT !["edge"] = FALSE]
  BY DEF Read
<1>3. late \in BOOLEAN
  OBVIOUS
<1> HIDE DEF late
<1>4. /\ Read(k)["pushing"] <=> k \in held
      /\ Read(k)["pushed"] <=> k \notin held /\ btn[k]["pushing"]
      /\ Read(k)["edge"] <=> k \in held /\ ~btn[k]["pushing"]
      /\ Read(k)["same"] = btn[k]["same"]
      /\ Read(k)["pushed"] => (Read(k)["long"] <=> late)
  BY <1>1, <1>2, <1>3 DEF Field
<1> QED
  BY <1>4 DEF late

\* A snapshot of keys of which only the last gesture is unseen.
Snap(s) ==
  /\ s.t.pushing <=> "type" \in held
  /\ s.b.pushing <=> "back" \in held
  /\ s.e.pushing <=> "enter" \in held
  /\ s.t.pushed <=> "type" \notin held /\ btn["type"].pushing
  /\ s.b.pushed <=> "back" \notin held /\ btn["back"].pushing
  /\ s.e.pushed <=> "enter" \notin held /\ btn["enter"].pushing
  /\ s.t.edge <=> "type" \in held /\ ~btn["type"].pushing
  /\ s.b.same = btn["back"].same
  /\ s.t.pushed => (s.t.long <=> pressed > Long)
  /\ s.gap = (IF "type" \in held THEN gap ELSE idle > Gap)

\* Every snapshot is one while the user is careful.
LEMMA CareSnap ==
    ASSUME MorseInv, Care, op # "off", NEW s, s = Snapshot
    PROVE  Snap(s)
<1>1. \A j \in Keys : ~btn[j].pushed
  BY DEF Care, Watched
<1>2. s.t = Read("type") /\ s.b = Read("back") /\ s.e = Read("enter")
      /\ s.gap = Paused(Read("type"))
  BY DEF Snapshot
<1>3. {"type", "back", "enter"} \subseteq Keys
  BY DEF Keys
<1>4. Paused(Read("type")) = (IF "type" \in held THEN gap ELSE idle > Gap)
  BY <1>1, <1>3, CareReads DEF Paused
<1> QED
  BY <1>1, <1>2, <1>3, <1>4, CareReads DEF Snap

\* The keys C that a loop clears are the ones it saw released.
Clears(s, C) ==
  /\ "type" \in C <=> s.t.pushed
  /\ "back" \in C <=> s.b.pushed
  /\ "enter" \in C <=> s.e.pushed

\* What is known of keys, stick and counters after a poll.
LEMMA AfterPoll ==
    ASSUME BtnOK, NEW s, s.t \in [Field -> BOOLEAN], s.b \in [Field -> BOOLEAN], s.e \in [Field -> BOOLEAN],
           Snap(s), NEW C, NEW P, NEW r, Polled(s, C, P, r), Clears(s, C)
    PROVE  /\ \A k \in Keys : Seen(k)' /\ ~btn'[k].pushed
           /\ "back" \in held /\ ("back" \in P \/ btn["back"].same) => btn'["back"].same
           /\ dirSeen' = stick /\ polled' = 0 /\ gap' = s.gap
           /\ idle' = (IF "type" \in held \/ r THEN 0 ELSE idle)
           /\ pressed' = (IF "type" \in held /\ ~btn["type"].pushing THEN 0 ELSE pressed)
           /\ UNCHANGED <<kind, held, stick, op, keyed, meant, since, aim>>
<1>1. /\ btn' = After(s, C, P) /\ dirSeen' = stick /\ polled' = 0 /\ gap' = s.gap
      /\ idle' = (IF s.t.pushing \/ r THEN 0 ELSE idle)
      /\ pressed' = (IF s.t.edge THEN 0 ELSE pressed)
      /\ UNCHANGED <<kind, held, stick, op, keyed, meant, since, aim>>
  BY DEF Polled, input, hist
<1>2. ASSUME NEW b \in [Field -> BOOLEAN]
      PROVE  /\ [b EXCEPT !["same"] = TRUE]["pushing"] = b["pushing"]
             /\ [b EXCEPT !["same"] = TRUE]["pushed"] = b["pushed"]
             /\ [b EXCEPT !["same"] = TRUE]["same"] = TRUE
  BY <1>2 DEF Field
<1>3. ASSUME NEW k \in Keys, NEW b \in [Field -> BOOLEAN],
             b = CASE k = "type" -> s.t [] k = "back" -> s.b [] OTHER -> s.e,
             k \in C <=> b["pushed"], b["pushing"] <=> k \in held, b["pushed"] => k \notin held
      PROVE  /\ btn'[k]["pushing"] <=> k \in held
             /\ ~btn'[k]["pushed"]
             /\ k \notin C /\ (k \in P \/ b["same"]) => btn'[k]["same"]
  <2>1. btn'[k] = IF k \in C THEN Fresh ELSE IF k \in P THEN [b EXCEPT !["same"] = TRUE] ELSE b
    BY <1>1, <1>3 DEF After
  <2>2. CASE k \in C
    BY <1>3, <2>1, <2>2 DEF Fresh
  <2>3. CASE k \notin C
    BY <1>2, <1>3, <2>1, <2>3
  <2> QED
    BY <2>2, <2>3
<1>4. /\ btn'["type"]["pushing"] <=> "type" \in held
      /\ ~btn'["type"]["pushed"]
  BY <1>3 DEF Snap, Clears, Keys
<1>5. /\ btn'["back"]["pushing"] <=> "back" \in held
      /\ ~btn'["back"]["pushed"]
      /\ "back" \notin C /\ ("back" \in P \/ s.b["same"]) => btn'["back"]["same"]
  BY <1>3 DEF Snap, Clears, Keys
<1>6. /\ btn'["enter"]["pushing"] <=> "enter" \in held
      /\ ~btn'["enter"]["pushed"]
  BY <1>3 DEF Snap, Clears, Keys
<1>7. \A k \in Keys : Seen(k)' /\ ~btn'[k].pushed
  BY <1>1, <1>4, <1>5, <1>6 DEF Seen, Keys
<1>8. "back" \in held /\ ("back" \in P \/ btn["back"].same) => btn'["back"].same
  BY <1>5 DEF Snap, Clears
<1> QED
  BY <1>1, <1>7, <1>8 DEF Snap

\* The iteration that sees nothing new.
Quiet(s) ==
  /\ ~s.t.pushed /\ ~s.e.pushed /\ (s.b.pushed => s.b.same /\ kind \in {"talk", "p2p"})
  /\ s.gap => morse = <<>>
  /\ stick # "right" /\ (stick = "left" => kind \in {"talk", "openchat"})
  /\ kind = "openchat" => ~Edge("up") /\ ~Edge("down")

\* The iteration that sees the type key released: a mark.
Marks(s) ==
  /\ s.t.pushed /\ ~s.e.pushed /\ ~s.b.pushed /\ ~s.b.pushing /\ ~s.t.pushing /\ stick = "mid"
  /\ ~s.gap

\* The iteration that sees the pause over: a letter.
Ends(s) ==
  /\ ~s.t.pushed /\ ~s.e.pushed /\ ~s.b.pushed /\ ~s.t.pushing /\ ~s.b.pushing /\ stick = "mid"
  /\ s.gap /\ morse # <<>>

\* The iteration that sees the type key released next to the eraser: a letter less.
Erases(s) ==
  /\ s.t.pushed /\ ~s.e.pushed /\ ~s.b.pushed /\ ~s.t.pushing /\ morse = <<>> /\ ~s.gap
  /\ \/ stick = "left" /\ ~s.b.pushing /\ kind \in {"talk", "openchat"}
     \/ stick = "mid" /\ s.b.pushing /\ kind \in {"talk", "p2p"}

\* The iteration that sees Enter released: the end.
Enters(s) ==
  /\ s.e.pushed /\ ~s.t.pushed /\ ~s.b.pushed /\ ~s.b.pushing /\ ~s.t.pushing /\ stick = "mid"
  /\ morse = <<>> /\ text # <<>>

\* The letter of the marks, none when the code has none.
Letter == IF morse \in DOMAIN Codes THEN <<Codes[morse]>> ELSE <<>>

\* No letter is without marks.
LEMMA NoCode == <<>> \notin DOMAIN Codes
  BY DEF Codes

\* What a letter, or none, adds to a message.
LEMMA Joined ==
    ASSUME NEW S, NEW q \in Seq(S)
    PROVE  q \o <<>> = q /\ \A x \in S : q \o <<x>> = Append(q, x)
  OBVIOUS

\* The iterations of the Talk screen.
LEMMA TalkQuiet ==
    ASSUME NEW s, Quiet(s), text \in Seq(Glyph), TalkLeave(s) \/ TalkSend(s) \/ TalkCommit(s)
    PROVE  /\ UNCHANGED <<text, morse, page>> /\ wait' = 0
           /\ TalkClears(s) = Only(s.b.pushed, "back")
<1>1. /\ ~Chord(s) /\ ~BackAlone(s) /\ ~RightEdge(s) /\ ~TalkErases(s) /\ ~TalkMarks(s)
      /\ ~TalkSends(s)
      /\ TalkEdits(s) = text /\ TalkMorse(s) = morse /\ (BackIgnored(s) <=> s.b.pushed)
  BY DEF Quiet, Chord, BackAlone, RightEdge, Edge, TalkErases, TalkMarks, TalkSends, TalkEdits,
     TalkMorse, BackIgnored
<1>2. ~TalkEnds(s) /\ TalkAlphabet(s) = <<>>
  BY <1>1 DEF TalkEnds, TalkAlphabet, Quiet
<1>3. TalkCommit(s)
  BY <1>1 DEF TalkLeave, TalkSend
<1>4. TalkClears(s) = Only(s.b.pushed, "back")
  BY <1>1 DEF TalkClears, Only, Quiet
<1> QED
  BY <1>1, <1>2, <1>3, <1>4, Joined DEF TalkCommit

\* It appends a mark.
LEMMA TalkMark ==
    ASSUME NEW s, Marks(s), text \in Seq(Glyph), TalkLeave(s) \/ TalkSend(s) \/ TalkCommit(s)
    PROVE  /\ UNCHANGED <<text, page>> /\ morse' = Append(morse, MarkOf(s.t)) /\ wait' = 0
           /\ TalkClears(s) = {"type"}
<1>1. /\ ~Chord(s) /\ ~BackAlone(s) /\ ~RightEdge(s) /\ ~TalkErases(s) /\ TalkMarks(s)
      /\ ~TalkSends(s)
      /\ TalkEdits(s) = text /\ TalkMorse(s) = Append(morse, MarkOf(s.t)) /\ ~BackIgnored(s)
  BY DEF Marks, Chord, BackAlone, RightEdge, Edge, TalkErases, TalkMarks, TalkSends, TalkEdits,
     TalkMorse, BackIgnored
<1>2. ~TalkEnds(s) /\ TalkAlphabet(s) = <<>>
  BY <1>1 DEF TalkEnds, TalkAlphabet, Marks
<1>3. TalkCommit(s)
  BY <1>1 DEF TalkLeave, TalkSend
<1>4. TalkClears(s) = {"type"}
  BY <1>1 DEF TalkClears, Only, Marks
<1> QED
  BY <1>1, <1>2, <1>3, <1>4, Joined DEF TalkCommit

\* It commits a letter.
LEMMA TalkLetter ==
    ASSUME NEW s, Ends(s), text \in Seq(Glyph), TalkLeave(s) \/ TalkSend(s) \/ TalkCommit(s)
    PROVE  /\ UNCHANGED page /\ text' = text \o Letter /\ morse' = <<>> /\ wait' = 0
           /\ TalkClears(s) = {}
<1>1. /\ ~Chord(s) /\ ~BackAlone(s) /\ ~RightEdge(s) /\ ~TalkErases(s) /\ ~TalkMarks(s)
      /\ ~TalkSends(s)
      /\ TalkEdits(s) = text /\ TalkMorse(s) = morse /\ ~BackIgnored(s)
  BY DEF Ends, Chord, BackAlone, RightEdge, Edge, TalkErases, TalkMarks, TalkSends, TalkEdits,
     TalkMorse, BackIgnored
<1>2. TalkEnds(s) /\ TalkAlphabet(s) = Letter
  BY <1>1 DEF TalkEnds, TalkAlphabet, Ends, Decode, Letter
<1>3. TalkCommit(s)
  BY <1>1 DEF TalkLeave, TalkSend
<1>4. TalkClears(s) = {}
  BY <1>1 DEF TalkClears, Only, Ends
<1> QED
  BY <1>1, <1>2, <1>3, <1>4 DEF TalkCommit

\* It erases the last letter.
LEMMA TalkErase ==
    ASSUME NEW s, Erases(s), kind = "talk", text \in Seq(Glyph), TalkLeave(s) \/ TalkSend(s) \/ TalkCommit(s)
    PROVE  /\ UNCHANGED <<morse, page>> /\ text' = ButLast(text) /\ wait' = 0
           /\ TalkClears(s) = {"type"} /\ (s.b.pushing => Chord(s))
<1>1. /\ ~BackAlone(s) /\ ~RightEdge(s) /\ ~TalkMarks(s) /\ ~TalkSends(s)
      /\ TalkEdits(s) = ButLast(text) /\ TalkMorse(s) = morse /\ ~BackIgnored(s)
      /\ TalkErases(s) \/ Chord(s)
  BY DEF Erases, Chord, BackAlone, RightEdge, Edge, TalkErases, TalkMarks, TalkSends, TalkEdits,
     TalkMorse, BackIgnored
<1>2. ~TalkEnds(s) /\ TalkAlphabet(s) = <<>>
  BY <1>1 DEF TalkEnds, TalkAlphabet, Erases
<1>3. TalkCommit(s)
  BY <1>1 DEF TalkLeave, TalkSend
<1>4. TalkClears(s) = {"type"}
  BY <1>1 DEF TalkClears, Only, Erases
<1>5. ButLast(text) \o <<>> = ButLast(text)
  BY OneLess, Joined
<1>6. s.b.pushing => Chord(s)
  BY DEF Erases, Chord
<1> QED
  BY <1>1, <1>2, <1>3, <1>4, <1>5, <1>6 DEF TalkCommit

\* It sends the message and leaves.
LEMMA TalkEnter ==
    ASSUME NEW s, Enters(s), TalkLeave(s) \/ TalkSend(s) \/ TalkCommit(s)
    PROVE  /\ page' = "left" /\ out' = text /\ morse' = <<>> /\ text' = <<>> /\ wait' = 0
           /\ TalkClears(s) = {"enter"}
<1>1. /\ ~Chord(s) /\ ~BackAlone(s) /\ ~TalkErases(s) /\ ~TalkMarks(s)
      /\ TalkEdits(s) = text /\ ~BackIgnored(s) /\ TalkSends(s)
  BY DEF Enters, Chord, BackAlone, TalkErases, TalkMarks, TalkSends, TalkEdits, BackIgnored
<1>2. TalkSend(s)
  BY <1>1 DEF TalkLeave, TalkCommit
<1>3. TalkClears(s) = {"enter"}
  BY <1>1 DEF TalkClears, Only, Enters
<1> QED
  BY <1>1, <1>2, <1>3 DEF TalkSend, Leaves

\* Those of the peer-to-peer screen.
LEMMA P2pQuiet ==
    ASSUME NEW s, Quiet(s), kind = "p2p", text \in Seq(Glyph), P2pLeave(s) \/ P2pCommit(s)
    PROVE  /\ UNCHANGED <<text, morse, page>> /\ wait' = 0
           /\ P2pClears(s) = Only(s.b.pushed, "back") /\ ~P2pExit(s)
<1>1. /\ ~Chord(s) /\ ~BackAlone(s) /\ ~RightEdge(s) /\ ~P2pExit(s) /\ ~P2pMarks(s)
      /\ ~P2pCleared(s)
      /\ P2pEdits(s) = text /\ P2pMorse(s) = morse /\ (BackIgnored(s) <=> s.b.pushed)
  BY DEF Quiet, Chord, BackAlone, RightEdge, Edge, P2pExit, P2pMarks, P2pCleared, P2pEdits,
     P2pMorse, BackIgnored
<1>2. P2pAlphabet(s) = <<>> /\ (IF s.gap THEN <<>> ELSE P2pMorse(s)) = morse
  BY <1>1, NoCode DEF P2pAlphabet, Decode, Quiet
<1>3. P2pCommit(s)
  BY <1>1 DEF P2pLeave
<1>4. P2pClears(s) = Only(s.b.pushed, "back")
  BY <1>1 DEF P2pClears, Only, Quiet
<1> QED
  BY <1>1, <1>2, <1>3, <1>4, Joined DEF P2pCommit

\* It appends a mark.
LEMMA P2pMark ==
    ASSUME NEW s, Marks(s), kind = "p2p", text \in Seq(Glyph), P2pLeave(s) \/ P2pCommit(s)
    PROVE  /\ UNCHANGED <<text, page>> /\ morse' = Append(morse, MarkOf(s.t)) /\ wait' = 0
           /\ P2pClears(s) = {"type"} /\ ~P2pExit(s)
<1>1. /\ ~Chord(s) /\ ~BackAlone(s) /\ ~RightEdge(s) /\ ~P2pExit(s) /\ P2pMarks(s)
      /\ ~P2pCleared(s)
      /\ P2pEdits(s) = text /\ P2pMorse(s) = Append(morse, MarkOf(s.t)) /\ ~BackIgnored(s)
  BY DEF Marks, Chord, BackAlone, RightEdge, Edge, P2pExit, P2pMarks, P2pCleared, P2pEdits,
     P2pMorse, BackIgnored
<1>2. P2pAlphabet(s) = <<>> /\ (IF s.gap THEN <<>> ELSE P2pMorse(s)) = Append(morse, MarkOf(s.t))
  BY <1>1 DEF P2pAlphabet, Marks
<1>3. P2pCommit(s)
  BY <1>1 DEF P2pLeave
<1>4. P2pClears(s) = {"type"}
  BY <1>1 DEF P2pClears, Only, Marks
<1> QED
  BY <1>1, <1>2, <1>3, <1>4, Joined DEF P2pCommit

\* It commits a letter.
LEMMA P2pLetter ==
    ASSUME NEW s, Ends(s), kind = "p2p", text \in Seq(Glyph), P2pLeave(s) \/ P2pCommit(s)
    PROVE  /\ UNCHANGED page /\ text' = text \o Letter /\ morse' = <<>> /\ wait' = 0
           /\ P2pClears(s) = {} /\ ~P2pExit(s)
<1>1. /\ ~Chord(s) /\ ~BackAlone(s) /\ ~RightEdge(s) /\ ~P2pExit(s) /\ ~P2pMarks(s)
      /\ ~P2pCleared(s)
      /\ P2pEdits(s) = text /\ P2pMorse(s) = morse /\ ~BackIgnored(s)
  BY DEF Ends, Chord, BackAlone, RightEdge, Edge, P2pExit, P2pMarks, P2pCleared, P2pEdits,
     P2pMorse, BackIgnored
<1>2. P2pAlphabet(s) = Letter /\ s.gap
  BY <1>1 DEF P2pAlphabet, Decode, Letter, Ends
<1>3. P2pCommit(s)
  BY <1>1 DEF P2pLeave
<1>4. P2pClears(s) = {}
  BY <1>1 DEF P2pClears, Only, Ends
<1> QED
  BY <1>1, <1>2, <1>3, <1>4 DEF P2pCommit

\* It erases the last letter.
LEMMA P2pErase ==
    ASSUME NEW s, Erases(s), kind = "p2p", text \in Seq(Glyph), P2pLeave(s) \/ P2pCommit(s)
    PROVE  /\ UNCHANGED <<morse, page>> /\ text' = ButLast(text) /\ wait' = 0
           /\ P2pClears(s) = {"type"} /\ ~P2pExit(s) /\ Chord(s)
<1>1. /\ Chord(s) /\ ~BackAlone(s) /\ ~RightEdge(s) /\ ~P2pExit(s) /\ ~P2pMarks(s)
      /\ ~P2pCleared(s)
      /\ P2pEdits(s) = ButLast(text) /\ P2pMorse(s) = morse /\ ~BackIgnored(s)
  BY DEF Erases, Chord, BackAlone, RightEdge, Edge, P2pExit, P2pMarks, P2pCleared, P2pEdits,
     P2pMorse, BackIgnored
<1>2. P2pAlphabet(s) = <<>> /\ (IF s.gap THEN <<>> ELSE P2pMorse(s)) = morse
  BY <1>1 DEF P2pAlphabet, Erases
<1>3. P2pCommit(s)
  BY <1>1 DEF P2pLeave
<1>4. P2pClears(s) = {"type"}
  BY <1>1 DEF P2pClears, Only, Erases
<1>5. ButLast(text) \o <<>> = ButLast(text)
  BY OneLess, Joined
<1> QED
  BY <1>1, <1>2, <1>3, <1>4, <1>5 DEF P2pCommit

\* It clears the message and stays.
LEMMA P2pEnter ==
    ASSUME NEW s, Enters(s), kind = "p2p", P2pLeave(s) \/ P2pCommit(s)
    PROVE  /\ UNCHANGED page /\ text' = <<>> /\ morse' = <<>> /\ wait' = 0
           /\ P2pClears(s) = {"enter"} /\ ~P2pExit(s)
<1>1. /\ ~Chord(s) /\ ~BackAlone(s) /\ ~RightEdge(s) /\ ~P2pExit(s) /\ ~P2pMarks(s)
      /\ P2pCleared(s)
      /\ P2pMorse(s) = <<>> /\ ~BackIgnored(s)
  BY DEF Enters, Chord, BackAlone, RightEdge, Edge, P2pExit, P2pMarks, P2pCleared, P2pEdits,
     P2pMorse, BackIgnored
<1>2. P2pAlphabet(s) = <<>> /\ (IF s.gap THEN <<>> ELSE P2pMorse(s)) = <<>>
  BY <1>1, NoCode DEF P2pAlphabet, Decode
<1>3. P2pCommit(s)
  BY <1>1 DEF P2pLeave
<1>4. P2pClears(s) = {"enter"}
  BY <1>1 DEF P2pClears, Only, Enters
<1>5. <<>> \o <<>> = <<>>
  OBVIOUS
<1> QED
  BY <1>1, <1>2, <1>3, <1>4, <1>5 DEF P2pCommit

\* Those of the composer of an open chat.
Composes(s) ==
  /\ text' = OpenText(s)
  /\ morse' = IF OpenEnds(s) THEN <<>> ELSE OpenMorse(s)
  /\ OpenCancel(s) \/ OpenConfirm(s) \/ OpenStay(s)

\* It leaves the message alone when nothing is new.
LEMMA OpenQuiet ==
    ASSUME NEW s, Quiet(s), kind = "openchat", text \in Seq(Glyph), Composes(s)
    PROVE  UNCHANGED <<text, morse, page>> /\ OpenClears(s) = {} /\ ~OpenEnds(s)
<1>1. /\ ~Chord(s) /\ ~TalkErases(s) /\ ~TalkMarks(s) /\ ~OpenEnter(s) /\ ~s.b.pushed
      /\ OpenMorse(s) = morse /\ StickText = <<>>
  BY DEF Quiet, Chord, TalkErases, TalkMarks, OpenEnter, OpenMorse, StickText
<1>2. ~OpenEnds(s) /\ OpenLetter(s) = <<>>
  BY <1>1 DEF OpenEnds, OpenLetter, Quiet
<1>3. OpenTyped(s) = text
  BY <1>1, <1>2, Joined DEF OpenTyped
<1>4. OpenText(s) = text /\ ~OpenCancels(s) /\ ~OpenConfirms(s)
  BY <1>1, <1>3 DEF OpenText, OpenDeletes, OpenCancels, OpenConfirms
<1>5. OpenClears(s) = {}
  BY <1>1 DEF OpenClears, Only, Quiet
<1> QED
  BY <1>1, <1>2, <1>4, <1>5 DEF Composes, OpenCancel, OpenConfirm, OpenStay

\* It appends a mark.
LEMMA OpenMark ==
    ASSUME NEW s, Marks(s), text \in Seq(Glyph), Composes(s)
    PROVE  /\ UNCHANGED <<text, page>> /\ morse' = Append(morse, MarkOf(s.t))
           /\ OpenClears(s) = {"type"} /\ ~OpenEnds(s)
<1>1. /\ ~Chord(s) /\ ~TalkErases(s) /\ TalkMarks(s) /\ ~OpenEnter(s) /\ ~s.b.pushed
      /\ OpenMorse(s) = Append(morse, MarkOf(s.t)) /\ StickText = <<>>
  BY DEF Marks, Chord, TalkErases, TalkMarks, OpenEnter, OpenMorse, StickText, Edge
<1>2. ~OpenEnds(s) /\ OpenLetter(s) = <<>>
  BY <1>1 DEF OpenEnds, OpenLetter, Marks
<1>3. OpenTyped(s) = text
  BY <1>1, <1>2, Joined DEF OpenTyped
<1>4. OpenText(s) = text /\ ~OpenCancels(s) /\ ~OpenConfirms(s)
  BY <1>1, <1>3 DEF OpenText, OpenDeletes, OpenCancels, OpenConfirms
<1>5. OpenClears(s) = {"type"}
  BY <1>1 DEF OpenClears, Only, Marks
<1> QED
  BY <1>1, <1>2, <1>4, <1>5 DEF Composes, OpenCancel, OpenConfirm, OpenStay

\* It commits a letter.
LEMMA OpenLetters ==
    ASSUME NEW s, Ends(s), text \in Seq(Glyph), Composes(s)
    PROVE  /\ UNCHANGED page /\ text' = text \o Letter /\ morse' = <<>>
           /\ OpenClears(s) = {}
<1>1. /\ ~Chord(s) /\ ~TalkErases(s) /\ ~TalkMarks(s) /\ ~OpenEnter(s) /\ ~s.b.pushed
      /\ OpenMorse(s) = morse /\ StickText = <<>>
  BY DEF Ends, Chord, TalkErases, TalkMarks, OpenEnter, OpenMorse, StickText, Edge
<1>2. OpenEnds(s) /\ OpenLetter(s) = Letter
  BY <1>1 DEF OpenEnds, OpenLetter, Letter, Ends
<1>3. Letter \in Seq(Glyph)
  <2>1. CASE morse \in DOMAIN Codes
    <3>1. Codes[morse] \in Glyph
      BY <2>1 DEF Glyph, Letters
    <3> QED
      BY <2>1, <3>1 DEF Letter
  <2>2. CASE morse \notin DOMAIN Codes
    BY <2>2 DEF Letter
  <2> QED
    BY <2>1, <2>2
<1>4. text \o Letter \in Seq(Glyph)
  BY <1>3
<1>5. OpenTyped(s) = text \o Letter
  BY <1>1, <1>2, <1>4, Joined DEF OpenTyped
<1>6. OpenText(s) = text \o Letter /\ ~OpenCancels(s) /\ ~OpenConfirms(s)
  BY <1>1, <1>5 DEF OpenText, OpenDeletes, OpenCancels, OpenConfirms
<1>7. OpenClears(s) = {}
  BY <1>1 DEF OpenClears, Only, Ends
<1> QED
  BY <1>1, <1>2, <1>6, <1>7 DEF Composes, OpenCancel, OpenConfirm, OpenStay

\* It erases the last letter.
LEMMA OpenErase ==
    ASSUME NEW s, Erases(s), kind = "openchat", text \in Seq(Glyph), Composes(s)
    PROVE  /\ UNCHANGED <<morse, page>> /\ text' = ButLast(text)
           /\ OpenClears(s) = {"type"} /\ ~OpenEnds(s)
<1>1. /\ ~Chord(s) /\ TalkErases(s) /\ ~TalkMarks(s) /\ ~OpenEnter(s) /\ ~s.b.pushed
      /\ OpenMorse(s) = morse /\ StickText = <<>>
  BY DEF Erases, Chord, TalkErases, TalkMarks, OpenEnter, OpenMorse, StickText, Edge
<1>2. ~OpenEnds(s) /\ OpenLetter(s) = <<>>
  BY <1>1 DEF OpenEnds, OpenLetter, Erases
<1>3. ButLast(text) \in Seq(Glyph)
  BY OneLess
<1>4. OpenTyped(s) = ButLast(text)
  BY <1>1, <1>2, <1>3, Joined DEF OpenTyped
<1>5. OpenText(s) = ButLast(text) /\ ~OpenCancels(s) /\ ~OpenConfirms(s)
  BY <1>1, <1>4 DEF OpenText, OpenDeletes, OpenCancels, OpenConfirms
<1>6. OpenClears(s) = {"type"}
  BY <1>1 DEF OpenClears, Only, Erases
<1> QED
  BY <1>1, <1>2, <1>5, <1>6 DEF Composes, OpenCancel, OpenConfirm, OpenStay

\* It hands the message over and leaves.
LEMMA OpenEnters ==
    ASSUME NEW s, Enters(s), text \in Seq(Glyph), Composes(s)
    PROVE  /\ page' = "left" /\ out' = text /\ text' = text /\ morse' = <<>>
           /\ OpenClears(s) = {"enter"}
<1>1. /\ ~Chord(s) /\ ~TalkErases(s) /\ ~TalkMarks(s) /\ OpenEnter(s) /\ ~s.b.pushed
      /\ OpenMorse(s) = <<>> /\ StickText = <<>>
  BY DEF Enters, Chord, TalkErases, TalkMarks, OpenEnter, OpenMorse, StickText, Edge
<1>2. ~OpenEnds(s) /\ OpenLetter(s) = <<>>
  BY <1>1 DEF OpenEnds, OpenLetter
<1>3. OpenTyped(s) = text
  BY <1>1, <1>2, Joined DEF OpenTyped
<1>4. OpenText(s) = text /\ ~OpenCancels(s) /\ OpenConfirms(s)
  BY <1>1, <1>3 DEF OpenText, OpenDeletes, OpenCancels, OpenConfirms, Enters
<1>5. OpenClears(s) = {"enter"}
  BY <1>1 DEF OpenClears, Only, Enters
<1> QED
  BY <1>1, <1>2, <1>4, <1>5 DEF Composes, OpenCancel, OpenConfirm, OpenStay, Leaves

\* It adds a line end or a space.
LEMMA OpenFlick ==
    ASSUME NEW s, ~s.t.pushed, ~s.e.pushed, ~s.b.pushed, morse = <<>>, stick \in {"up", "down"},
           dirSeen # stick, text \in Seq(Glyph), Composes(s)
    PROVE  /\ UNCHANGED <<morse, page>> /\ text' = Append(text, StickLetter[stick])
           /\ OpenClears(s) = {} /\ ~OpenEnds(s)
<1>1. /\ ~Chord(s) /\ ~TalkErases(s) /\ ~TalkMarks(s) /\ ~OpenEnter(s)
      /\ OpenMorse(s) = morse /\ StickText = <<StickLetter[stick]>>
  BY DEF Chord, TalkErases, TalkMarks, OpenEnter, OpenMorse, StickText, Edge, StickLetter
<1>2. ~OpenEnds(s) /\ OpenLetter(s) = <<>>
  BY <1>1 DEF OpenEnds, OpenLetter
<1>3. StickLetter[stick] \in Glyph
  BY DEF StickLetter, Glyph
<1>4. OpenTyped(s) = Append(text, StickLetter[stick])
  BY <1>1, <1>2, <1>3, Joined DEF OpenTyped
<1>5. OpenText(s) = Append(text, StickLetter[stick]) /\ ~OpenCancels(s) /\ ~OpenConfirms(s)
  BY <1>1, <1>4 DEF OpenText, OpenDeletes, OpenCancels, OpenConfirms
<1>6. OpenClears(s) = {}
  BY <1>1 DEF OpenClears, Only
<1> QED
  BY <1>1, <1>2, <1>5, <1>6 DEF Composes, OpenCancel, OpenConfirm, OpenStay

\* Those of the Morse trainer.
LEMMA GameQuiet ==
    ASSUME NEW s, Quiet(s), kind = "game", text = <<>>, found # Rounds,
           GameLeave(s) \/ GameRestart(s) \/ GamePlay(s)
    PROVE  /\ UNCHANGED <<text, morse, page, asked, found>> /\ wait' = 0
           /\ GameClears(s) = {} /\ ~GameExit(s)
<1>1. ~GameExit(s) /\ ~GameRestarts(s) /\ ~P2pMarks(s) /\ P2pMorse(s) = morse /\ ~Right
      /\ ~Wrong /\ ~s.b.pushed
  BY DEF Quiet, GameExit, GameRestarts, P2pMarks, P2pMorse, Right, Wrong
<1>2. GameAlphabet(s) = <<>> /\ (IF s.gap THEN <<>> ELSE P2pMorse(s)) = morse
  BY <1>1, NoCode DEF GameAlphabet, Quiet
<1>3. GamePlay(s)
  BY <1>1 DEF GameLeave, GameRestart
<1>4. GameClears(s) = {}
  BY <1>1 DEF GameClears, Only
<1> QED
  BY <1>1, <1>2, <1>3, <1>4 DEF GamePlay

\* It appends a mark.
LEMMA GameMark ==
    ASSUME NEW s, Marks(s), text = <<>>, found # Rounds,
           GameLeave(s) \/ GameRestart(s) \/ GamePlay(s)
    PROVE  /\ UNCHANGED <<text, page, asked, found>> /\ morse' = Append(morse, MarkOf(s.t))
           /\ wait' = 0
           /\ GameClears(s) = {"type"} /\ ~GameExit(s)
<1>1. /\ ~GameExit(s) /\ ~GameRestarts(s) /\ P2pMarks(s)
      /\ P2pMorse(s) = Append(morse, MarkOf(s.t))
      /\ ~Right /\ ~Wrong /\ ~s.b.pushed
  BY DEF Marks, GameExit, GameRestarts, P2pMarks, P2pMorse, Right, Wrong
<1>2. GameAlphabet(s) = <<>> /\ ~s.gap
  BY <1>1 DEF GameAlphabet, Marks
<1>3. GamePlay(s)
  BY <1>1 DEF GameLeave, GameRestart
<1>4. GameClears(s) = {"type"}
  BY <1>1 DEF GameClears, Only
<1> QED
  BY <1>1, <1>2, <1>3, <1>4 DEF GamePlay

\* It commits a letter, for the next iteration to compare.
LEMMA GameLetter ==
    ASSUME NEW s, Ends(s), text = <<>>, found # Rounds,
           GameLeave(s) \/ GameRestart(s) \/ GamePlay(s)
    PROVE  /\ UNCHANGED <<page, asked, found>> /\ text' = Letter /\ morse' = <<>> /\ wait' = 0
           /\ GameClears(s) = {} /\ ~GameExit(s)
<1>1. /\ ~GameExit(s) /\ ~GameRestarts(s) /\ ~P2pMarks(s) /\ P2pMorse(s) = morse
      /\ ~Right /\ ~Wrong /\ ~s.b.pushed
  BY DEF Ends, GameExit, GameRestarts, P2pMarks, P2pMorse, Right, Wrong
<1>2. GameAlphabet(s) = Letter /\ s.gap
  BY <1>1 DEF GameAlphabet, Ends, Letter
<1>3. GamePlay(s)
  BY <1>1 DEF GameLeave, GameRestart
<1>4. GameClears(s) = {}
  BY <1>1 DEF GameClears, Only
<1> QED
  BY <1>1, <1>2, <1>3, <1>4 DEF GamePlay

\* The iteration that compares the letter x.
LEMMA GameCompare ==
    ASSUME NEW s, Quiet(s), kind = "game", morse = <<>>, NEW x, text = <<x>>, page = "keying",
           GameLeave(s) \/ GameRestart(s) \/ GamePlay(s)
    PROVE  /\ text' = <<>> /\ morse' = <<>> /\ wait' \in {0, 1} /\ page' \in {"keying", "result"}
           /\ found' = (IF x = asked THEN found + 1 ELSE found)
           /\ GameClears(s) = {} /\ ~GameExit(s)
<1>1. text # <<>> /\ Head(text) = x
  OBVIOUS
<1>2. /\ ~GameExit(s) /\ ~GameRestarts(s) /\ ~P2pMarks(s) /\ P2pMorse(s) = <<>> /\ ~s.b.pushed
      /\ (Right <=> x = asked)
  BY <1>1 DEF Quiet, GameExit, GameRestarts, P2pMarks, P2pMorse, Right
<1>3. GameAlphabet(s) = <<>>
  BY <1>2, NoCode DEF GameAlphabet
<1>4. GamePlay(s)
  BY <1>2 DEF GameLeave, GameRestart
<1>5. GameClears(s) = {}
  BY <1>2 DEF GameClears, Only
<1> QED
  BY <1>2, <1>3, <1>4, <1>5 DEF GamePlay

\* The same of whichever screen it is: what a poll of each sort does.
Reads(s, r) == \E C, P : Polled(s, C, P, r) /\ Clears(s, C)

\* Nothing new: the message, the letter and the page stay.
LEMMA QuietPoll ==
    ASSUME Poll, page = "keying", NEW s, s = Snapshot, Quiet(s), text \in Seq(Glyph),
           kind = "game" => text = <<>> /\ found # Rounds
    PROVE  UNCHANGED <<text, morse, page, asked, found>> /\ wait' = 0 /\ \E r : ~r /\ Reads(s, r)
<1>0. ~s.t.pushed /\ ~s.e.pushed
  BY DEF Quiet
<1>1. CASE PollTalk
  <2>1. (TalkLeave(s) \/ TalkSend(s) \/ TalkCommit(s)) /\ UNCHANGED game
        /\ Polled(s, TalkClears(s), Only(Chord(s), "back"), FALSE)
    BY <1>1 DEF PollTalk
  <2>2. Clears(s, TalkClears(s))
    BY <1>0, <2>1, TalkQuiet DEF Clears, Only
  <2> QED
    BY <2>1, <2>2, TalkQuiet DEF Reads, game
<1>2. CASE PollP2p
  <2>1. (P2pLeave(s) \/ P2pCommit(s)) /\ UNCHANGED game /\ kind = "p2p"
        /\ Polled(s, P2pClears(s), Only(Chord(s), "back"), P2pExit(s))
    BY <1>2 DEF PollP2p
  <2>2. Clears(s, P2pClears(s))
    BY <1>0, <2>1, P2pQuiet DEF Clears, Only
  <2> QED
    BY <2>1, <2>2, P2pQuiet DEF Reads, game
<1>3. CASE PollOpenChat
  <2>1. Composes(s) /\ UNCHANGED game /\ wait' = 0 /\ kind = "openchat"
        /\ Polled(s, OpenClears(s), {}, OpenEnds(s))
    BY <1>3 DEF PollOpenChat, Composes
  <2>2. Clears(s, OpenClears(s))
    BY <1>0, <2>1, OpenQuiet DEF Clears, Quiet
  <2> QED
    BY <2>1, <2>2, OpenQuiet DEF Reads, game
<1>4. CASE PollGame
  <2>1. (GameLeave(s) \/ GameRestart(s) \/ GamePlay(s)) /\ kind = "game"
        /\ Polled(s, GameClears(s), {}, GameExit(s))
    BY <1>4 DEF PollGame
  <2>2. Clears(s, GameClears(s))
    BY <1>0, <2>1, GameQuiet DEF Clears, Quiet
  <2> QED
    BY <2>1, <2>2, GameQuiet DEF Reads
<1> QED
  BY <1>1, <1>2, <1>3, <1>4 DEF Poll, PollResult

\* A mark.
LEMMA MarkPoll ==
    ASSUME Poll, page = "keying", NEW s, s = Snapshot, Marks(s), text \in Seq(Glyph),
           kind = "game" => text = <<>> /\ found # Rounds
    PROVE  /\ UNCHANGED <<text, page, asked, found>> /\ morse' = Append(morse, MarkOf(s.t))
           /\ wait' = 0
           /\ \E r : ~r /\ Reads(s, r)
<1>0. s.t.pushed /\ ~s.e.pushed /\ ~s.b.pushed
  BY DEF Marks
<1>1. CASE PollTalk
  <2>1. (TalkLeave(s) \/ TalkSend(s) \/ TalkCommit(s)) /\ UNCHANGED game
        /\ Polled(s, TalkClears(s), Only(Chord(s), "back"), FALSE)
    BY <1>1 DEF PollTalk
  <2>2. Clears(s, TalkClears(s))
    BY <1>0, <2>1, TalkMark DEF Clears
  <2> QED
    BY <2>1, <2>2, TalkMark DEF Reads, game
<1>2. CASE PollP2p
  <2>1. (P2pLeave(s) \/ P2pCommit(s)) /\ UNCHANGED game /\ kind = "p2p"
        /\ Polled(s, P2pClears(s), Only(Chord(s), "back"), P2pExit(s))
    BY <1>2 DEF PollP2p
  <2>2. Clears(s, P2pClears(s))
    BY <1>0, <2>1, P2pMark DEF Clears
  <2> QED
    BY <2>1, <2>2, P2pMark DEF Reads, game
<1>3. CASE PollOpenChat
  <2>1. Composes(s) /\ UNCHANGED game /\ wait' = 0
        /\ Polled(s, OpenClears(s), {}, OpenEnds(s))
    BY <1>3 DEF PollOpenChat, Composes
  <2>2. Clears(s, OpenClears(s))
    BY <1>0, <2>1, OpenMark DEF Clears
  <2> QED
    BY <2>1, <2>2, OpenMark DEF Reads, game
<1>4. CASE PollGame
  <2>1. (GameLeave(s) \/ GameRestart(s) \/ GamePlay(s)) /\ kind = "game"
        /\ Polled(s, GameClears(s), {}, GameExit(s))
    BY <1>4 DEF PollGame
  <2>2. Clears(s, GameClears(s))
    BY <1>0, <2>1, GameMark DEF Clears
  <2> QED
    BY <2>1, <2>2, GameMark DEF Reads
<1> QED
  BY <1>1, <1>2, <1>3, <1>4 DEF Poll, PollResult

\* A letter.
LEMMA LetterPoll ==
    ASSUME Poll, page = "keying", NEW s, s = Snapshot, Ends(s), text \in Seq(Glyph),
           kind = "game" => text = <<>> /\ found # Rounds
    PROVE  /\ UNCHANGED <<page, asked, found>> /\ morse' = <<>> /\ wait' = 0
           /\ text' = (IF kind = "game" THEN Letter ELSE text \o Letter)
           /\ \E r : Reads(s, r)
<1>0. ~s.t.pushed /\ ~s.e.pushed /\ ~s.b.pushed
  BY DEF Ends
<1>1. CASE PollTalk
  <2>1. (TalkLeave(s) \/ TalkSend(s) \/ TalkCommit(s)) /\ UNCHANGED game /\ kind = "talk"
        /\ Polled(s, TalkClears(s), Only(Chord(s), "back"), FALSE)
    BY <1>1 DEF PollTalk
  <2>2. Clears(s, TalkClears(s))
    BY <1>0, <2>1, TalkLetter DEF Clears
  <2> QED
    BY <2>1, <2>2, TalkLetter DEF Reads, game
<1>2. CASE PollP2p
  <2>1. (P2pLeave(s) \/ P2pCommit(s)) /\ UNCHANGED game /\ kind = "p2p"
        /\ Polled(s, P2pClears(s), Only(Chord(s), "back"), P2pExit(s))
    BY <1>2 DEF PollP2p
  <2>2. Clears(s, P2pClears(s))
    BY <1>0, <2>1, P2pLetter DEF Clears
  <2> QED
    BY <2>1, <2>2, P2pLetter DEF Reads, game
<1>3. CASE PollOpenChat
  <2>1. Composes(s) /\ UNCHANGED game /\ wait' = 0 /\ kind = "openchat"
        /\ Polled(s, OpenClears(s), {}, OpenEnds(s))
    BY <1>3 DEF PollOpenChat, Composes
  <2>2. Clears(s, OpenClears(s))
    BY <1>0, <2>1, OpenLetters DEF Clears
  <2> QED
    BY <2>1, <2>2, OpenLetters DEF Reads, game
<1>4. CASE PollGame
  <2>1. (GameLeave(s) \/ GameRestart(s) \/ GamePlay(s)) /\ kind = "game"
        /\ Polled(s, GameClears(s), {}, GameExit(s))
    BY <1>4 DEF PollGame
  <2>2. Clears(s, GameClears(s))
    BY <1>0, <2>1, GameLetter DEF Clears
  <2> QED
    BY <2>1, <2>2, GameLetter DEF Reads
<1> QED
  BY <1>1, <1>2, <1>3, <1>4 DEF Poll, PollResult

\* A letter less; Back is remembered as pressed at the same time.
LEMMA ErasePoll ==
    ASSUME Poll, page = "keying", NEW s, s = Snapshot, Erases(s), text \in Seq(Glyph)
    PROVE  /\ UNCHANGED <<morse, page, asked, found>> /\ text' = ButLast(text) /\ wait' = 0
           /\ \E r, C, P : ~r /\ Polled(s, C, P, r) /\ Clears(s, C)
                 /\ (s.b.pushing => "back" \in P)
<1>0. s.t.pushed /\ ~s.e.pushed /\ ~s.b.pushed /\ (kind = "openchat" => ~s.b.pushing)
      /\ kind \in {"talk", "p2p", "openchat"}
  BY DEF Erases
<1>1. CASE PollTalk
  <2>1. (TalkLeave(s) \/ TalkSend(s) \/ TalkCommit(s)) /\ UNCHANGED game /\ kind = "talk"
        /\ Polled(s, TalkClears(s), Only(Chord(s), "back"), FALSE)
    BY <1>1 DEF PollTalk
  <2>2. Clears(s, TalkClears(s)) /\ (s.b.pushing => "back" \in Only(Chord(s), "back"))
    BY <1>0, <2>1, TalkErase DEF Clears, Only
  <2> QED
    BY <2>1, <2>2, TalkErase DEF game
<1>2. CASE PollP2p
  <2>1. (P2pLeave(s) \/ P2pCommit(s)) /\ UNCHANGED game /\ kind = "p2p"
        /\ Polled(s, P2pClears(s), Only(Chord(s), "back"), P2pExit(s))
    BY <1>2 DEF PollP2p
  <2>2. Clears(s, P2pClears(s)) /\ (s.b.pushing => "back" \in Only(Chord(s), "back"))
    BY <1>0, <2>1, P2pErase DEF Clears, Only
  <2> QED
    BY <2>1, <2>2, P2pErase DEF game
<1>3. CASE PollOpenChat
  <2>1. Composes(s) /\ UNCHANGED game /\ wait' = 0 /\ kind = "openchat"
        /\ Polled(s, OpenClears(s), {}, OpenEnds(s))
    BY <1>3 DEF PollOpenChat, Composes
  <2>2. Clears(s, OpenClears(s))
    BY <1>0, <2>1, OpenErase DEF Clears
  <2> QED
    BY <1>0, <2>1, <2>2, OpenErase DEF game
<1> QED
  BY <1>0, <1>1, <1>2, <1>3 DEF Poll, PollResult, PollGame

\* The end: the message is sent, or in the peer-to-peer screen cleared.
LEMMA EnterPoll ==
    ASSUME Poll, page = "keying", NEW s, s = Snapshot, Enters(s), text \in Seq(Glyph), kind # "game"
    PROVE  /\ morse' = <<>> /\ wait' = 0 /\ text' \in {<<>>, text} /\ UNCHANGED <<asked, found>>
           /\ (page' = "left" /\ out' = text) \/ (UNCHANGED page /\ kind = "p2p" /\ text' = <<>>)
           /\ \E r : Reads(s, r)
<1>0. s.e.pushed /\ ~s.t.pushed /\ ~s.b.pushed
  BY DEF Enters
<1>1. CASE PollTalk
  <2>1. (TalkLeave(s) \/ TalkSend(s) \/ TalkCommit(s)) /\ UNCHANGED game
        /\ Polled(s, TalkClears(s), Only(Chord(s), "back"), FALSE)
    BY <1>1 DEF PollTalk
  <2>2. Clears(s, TalkClears(s))
    BY <1>0, <2>1, TalkEnter DEF Clears
  <2> QED
    BY <2>1, <2>2, TalkEnter DEF Reads, game
<1>2. CASE PollP2p
  <2>1. (P2pLeave(s) \/ P2pCommit(s)) /\ UNCHANGED game /\ kind = "p2p"
        /\ Polled(s, P2pClears(s), Only(Chord(s), "back"), P2pExit(s))
    BY <1>2 DEF PollP2p
  <2>2. Clears(s, P2pClears(s))
    BY <1>0, <2>1, P2pEnter DEF Clears
  <2> QED
    BY <2>1, <2>2, P2pEnter DEF Reads, game
<1>3. CASE PollOpenChat
  <2>1. Composes(s) /\ UNCHANGED game /\ wait' = 0
        /\ Polled(s, OpenClears(s), {}, OpenEnds(s))
    BY <1>3 DEF PollOpenChat, Composes
  <2>2. Clears(s, OpenClears(s))
    BY <1>0, <2>1, OpenEnters DEF Clears
  <2> QED
    BY <2>1, <2>2, OpenEnters DEF Reads, game
<1> QED
  BY <1>1, <1>2, <1>3 DEF Poll, PollResult, PollGame

\* A letter from the stick.
LEMMA FlickPoll ==
    ASSUME Poll, page = "keying", kind = "openchat", NEW s, s = Snapshot, ~s.t.pushed, ~s.e.pushed,
           ~s.b.pushed, morse = <<>>, stick \in {"up", "down"}, dirSeen # stick, text \in Seq(Glyph)
    PROVE  /\ UNCHANGED <<morse, page>> /\ text' = Append(text, StickLetter[stick]) /\ wait' = 0
           /\ \E r : ~r /\ Reads(s, r)
<1>1. Composes(s) /\ wait' = 0 /\ Polled(s, OpenClears(s), {}, OpenEnds(s))
  BY DEF Poll, PollTalk, PollP2p, PollGame, PollResult, PollOpenChat, Composes
<1>2. Clears(s, OpenClears(s))
  BY <1>1, OpenFlick DEF Clears
<1> QED
  BY <1>1, <1>2, OpenFlick DEF Reads

\* The comparison of a game.
LEMMA ComparePoll ==
    ASSUME Poll, page = "keying", kind = "game", NEW s, s = Snapshot, Quiet(s), morse = <<>>,
           NEW x, text = <<x>>
    PROVE  /\ text' = <<>> /\ morse' = <<>> /\ wait' \in {0, 1} /\ page' \in {"keying", "result"}
           /\ found' = (IF x = asked THEN found + 1 ELSE found)
           /\ \E r : ~r /\ Reads(s, r)
<1>1. (GameLeave(s) \/ GameRestart(s) \/ GamePlay(s)) /\ Polled(s, GameClears(s), {}, GameExit(s))
  BY DEF Poll, PollTalk, PollP2p, PollGame, PollResult, PollOpenChat
<1>2. Clears(s, GameClears(s))
  BY <1>1, GameCompare DEF Clears, Quiet
<1> QED
  BY <1>1, <1>2, GameCompare DEF Reads

\* In the result of a game nothing is keyed: the screen stays.
LEMMA ResultPoll ==
    ASSUME Poll, page = "result", BtnOK, held = {}, stick = "mid",
           \A k \in Keys : Seen(k) /\ ~btn[k].pushed
    PROVE  /\ UNCHANGED <<page, found, text, morse, wait, asked>>
           /\ \E s : /\ s.t \in [Field -> BOOLEAN] /\ s.b \in [Field -> BOOLEAN]
                     /\ s.e \in [Field -> BOOLEAN]
                     /\ Snap(s) /\ \E r : ~r /\ Reads(s, r)
<1>1. /\ btn["enter"] \in [Field -> BOOLEAN] /\ ~btn["enter"]["pushing"] /\ ~btn["enter"]["pushed"]
      /\ ~btn["type"]["pushing"] /\ ~btn["type"]["pushed"] /\ ~btn["back"]["pushing"]
  BY DEF BtnOK, Seen, Keys
<1>2. /\ Snapshot.t \in [Field -> BOOLEAN] /\ Snapshot.b \in [Field -> BOOLEAN]
      /\ Snapshot.t = Read("type") /\ Snapshot.b = Read("back")
      /\ Snapshot.gap = Paused(Read("type"))
  BY SnapIs DEF Snapshot
<1>3. /\ btn["type"] \in [Field -> BOOLEAN] /\ btn["back"] \in [Field -> BOOLEAN]
      /\ btn["back"]["pushed"] = FALSE
  BY DEF BtnOK, Keys
<1>4. Read("type") = [btn["type"] EXCEPT !["edge"] = FALSE]
      /\ Read("back") = [btn["back"] EXCEPT !["edge"] = FALSE]
  BY <1>1 DEF Read
<1>5. /\ ~Read("type")["pushing"] /\ ~Read("type")["pushed"] /\ ~Read("type")["edge"]
      /\ ~Read("back")["pushing"] /\ ~Read("back")["pushed"]
      /\ Read("back")["same"] = btn["back"]["same"]
  BY <1>1, <1>3, <1>4 DEF Field
<1>6. PICK s : /\ s = [Snapshot EXCEPT !.e = btn["enter"]]
               /\ PlayAgain(s) \/ ResultLeave(s) \/ ResultStay(s)
               /\ Polled(s, IF ResultLeaves(s) THEN Keys ELSE Only(s.t.pushed, "type"), {}, ResultLeaves(s))
               /\ UNCHANGED <<wait, asked>>
  BY DEF Poll, PollTalk, PollP2p, PollOpenChat, PollGame, PollResult
<1>7. s.t = Snapshot.t /\ s.b = Snapshot.b /\ s.e = btn["enter"] /\ s.gap = Snapshot.gap
  <2>1. Snapshot = [t |-> Snapshot.t, b |-> Snapshot.b, e |-> Snapshot.e, gap |-> Snapshot.gap]
    BY DEF Snapshot
  <2> QED
    BY <1>6, <2>1
<1>8. ~ResultLeaves(s) /\ ~s.t.pushed /\ ~s.b.pushed /\ ~s.e.pushed
  BY <1>1, <1>2, <1>5, <1>7 DEF ResultLeaves
<1>9. ResultStay(s)
  BY <1>6, <1>8 DEF PlayAgain, ResultLeave
<1>10. s.gap = (idle > Gap)
  BY <1>2, <1>5, <1>7 DEF Paused
<1>11. Snap(s)
  BY <1>1, <1>2, <1>5, <1>7, <1>10 DEF Snap
<1>12. (IF ResultLeaves(s) THEN Keys ELSE Only(s.t.pushed, "type")) = {}
  BY <1>8 DEF Only
<1>13. Polled(s, {}, {}, ResultLeaves(s)) /\ Clears(s, {})
  BY <1>6, <1>8, <1>12 DEF Clears
<1>14. \E r : ~r /\ Reads(s, r)
  BY <1>8, <1>13 DEF Reads
<1> QED
  BY <1>1, <1>2, <1>6, <1>7, <1>9, <1>11, <1>14 DEF ResultStay

\* What every poll leaves of a careful user's screen.
LEMMA CarePolled ==
    ASSUME MorseInv, Care, op # "off", NEW s,
           s.t \in [Field -> BOOLEAN], s.b \in [Field -> BOOLEAN], s.e \in [Field -> BOOLEAN], Snap(s),
           NEW C, NEW P, NEW r, Polled(s, C, P, r), Clears(s, C)
    PROVE  /\ Posture' /\ Watched' /\ Timed'
           /\ UNCHANGED <<kind, held, stick, op, keyed, meant, since, aim>>
           /\ dirSeen' = stick /\ polled' = 0 /\ gap' = s.gap
           /\ \A k \in Keys : Seen(k)'
           /\ "back" \in held /\ ("back" \in P \/ btn["back"].same) => btn'["back"].same
           /\ idle' = (IF "type" \in held \/ r THEN 0 ELSE idle)
<1>1. BtnOK
  BY DEF MorseInv
<1>2. /\ \A k \in Keys : Seen(k)' /\ ~btn'[k].pushed
      /\ "back" \in held /\ ("back" \in P \/ btn["back"].same) => btn'["back"].same
      /\ dirSeen' = stick /\ polled' = 0 /\ gap' = s.gap
      /\ idle' = (IF "type" \in held \/ r THEN 0 ELSE idle)
      /\ pressed' = (IF "type" \in held /\ ~btn["type"].pushing THEN 0 ELSE pressed)
      /\ UNCHANGED <<kind, held, stick, op, keyed, meant, since, aim>>
  BY <1>1, AfterPoll
<1>3. Posture'
  BY <1>2 DEF Care, Posture
<1>4. Watched'
  BY <1>2 DEF Watched, Keys
<1>5. TypeDown' <=> "type" \in held
  BY <1>2 DEF TypeDown, Seen, Keys
<1>6. ASSUME op = "mark", "type" \in held
      PROVE  pressed' <= since /\ (since <= pressed' + Lag \/ pressed' > Long)
  <2>1. CASE TypeDown
    BY <1>2, <1>6, <2>1 DEF Care, Timed, TypeDown
  <2>2. CASE ~TypeDown
    <3>1. since <= polled
      BY <1>6, <2>2 DEF Care, Watched, Seen, TypeDown, Keys
    <3>2. pressed' = 0
      BY <1>2, <1>6, <2>2 DEF TypeDown
    <3> QED
      BY <3>1, <3>2, Ticks
  <2> QED
    BY <2>1, <2>2
<1>7. Timed'
  BY <1>2, <1>5, <1>6 DEF Timed
<1> QED
  BY <1>2, <1>3, <1>4, <1>7

\* A poll that finds nothing new.
LEMMA CareQuiet ==
    ASSUME MorseInv, Care, Poll, op # "off", page = "keying", NEW s, s = Snapshot, Quiet(s),
           kind = "game" => text = <<>>
    PROVE  /\ UNCHANGED <<text, morse, page, asked, found, kind, held, stick, op, keyed, meant, since, aim>>
           /\ wait' = 0 /\ Posture' /\ Watched' /\ Timed' /\ CareTypes'
              /\ (\A k \in Keys : Seen(k)')
           /\ dirSeen' = stick /\ polled' = 0 /\ gap' = s.gap
           /\ idle' = (IF "type" \in held THEN 0 ELSE idle)
           /\ "back" \in held /\ btn["back"].same => btn'["back"].same
<1>1. text \in Seq(Glyph) /\ (kind = "game" => found # Rounds) /\ BtnOK
  <2>1. found < Rounds => found # Rounds
    BY MorseInputAssumption DEF MorseInv, CountOK
  <2> QED
    BY <2>1 DEF Care, CareTypes, MorseInv, CountOK
<1>2. UNCHANGED <<text, morse, page, asked, found>> /\ wait' = 0 /\ \E r : ~r /\ Reads(s, r)
  BY <1>1, QuietPoll
<1>3. PICK r, C, P : ~r /\ Polled(s, C, P, r) /\ Clears(s, C)
  BY <1>2 DEF Reads
<1>4. /\ s.t \in [Field -> BOOLEAN] /\ s.b \in [Field -> BOOLEAN] /\ s.e \in [Field -> BOOLEAN]
      /\ Snap(s)
  BY <1>1, SnapIs, CareSnap
<1>5. /\ Posture' /\ Watched' /\ Timed'
      /\ UNCHANGED <<kind, held, stick, op, keyed, meant, since, aim>>
      /\ dirSeen' = stick /\ polled' = 0 /\ gap' = s.gap
      /\ \A k \in Keys : Seen(k)'
      /\ "back" \in held /\ btn["back"].same => btn'["back"].same
      /\ idle' = (IF "type" \in held THEN 0 ELSE idle)
  BY <1>3, <1>4, CarePolled
<1>6. CareTypes'
  BY <1>2, <1>5 DEF Care, CareTypes
<1> QED
  BY <1>2, <1>5, <1>6

\* Which control may erase, by screen.
LEMMA Erasers ==
    ASSUME MorseInv
    PROVE  /\ kind \in {"talk", "p2p", "openchat", "game"}
           /\ "back" \in Eraser[kind] => kind \in {"talk", "p2p"}
           /\ "left" \in Eraser[kind] => kind \in {"talk", "openchat"}
<1>1. kind \in {"talk", "p2p", "openchat", "game"}
  BY MorseInputAssumption DEF MorseInv, PlaceOK
<1> QED
  BY <1>1 DEF Eraser

\* Where a poll has nothing to do.
LEMMA NothingNew ==
    ASSUME MorseInv, Care, NEW s, s = Snapshot, page = "keying",
           \/ op \in {"idle", "mark", "eraser", "chord", "enter"}
           \/ op = "letter" /\ ~TypeDown /\ (idle > Gap => morse = <<>>)
           \/ op = "chordEnd" /\ ~TypeDown
           \/ op = "flick" /\ dirSeen = stick
           \/ op = "sent" /\ ~btn["enter"].pushing
    PROVE  Quiet(s)
<1>1. op # "off" /\ Posture /\ Watched /\ Stage /\ Snap(s)
  BY CareSnap DEF Care
<1>2. ~s.t.pushed
  BY <1>1 DEF Posture, Watched, Snap, Seen, Keys, TypeDown
<1>3. ~s.e.pushed
  BY <1>1 DEF Posture, Watched, Snap, Seen, Keys
<1>4. s.b.pushed => s.b.same /\ kind \in {"talk", "p2p"}
  <2> SUFFICES ASSUME s.b.pushed PROVE s.b.same /\ kind \in {"talk", "p2p"}
    OBVIOUS
  <2>1. "back" \notin held /\ btn["back"].pushing /\ ~Seen("back")
    BY <1>1 DEF Snap, Seen
  <2>2. op = "idle" /\ "back" \in Eraser[kind]
    BY <1>1, <2>1 DEF Watched
  <2>3. btn["back"].same
    BY <1>1, <2>1, <2>2 DEF Stage
  <2> QED
    BY <1>1, <2>2, <2>3, Erasers DEF Snap
<1>5. s.gap => morse = <<>>
  BY <1>1 DEF Posture, Stage, Snap, TypeDown
<1>6. stick # "right" /\ (stick = "left" => kind \in {"talk", "openchat"})
  BY <1>1, Erasers DEF Posture
<1>7. kind = "openchat" => ~Edge("up") /\ ~Edge("down")
  BY <1>1 DEF Posture, Edge
<1> QED
  BY <1>2, <1>3, <1>4, <1>5, <1>6, <1>7 DEF Quiet

\* A poll while the user rests, presses, or has done what the screen already knows.
LEMMA PollRests ==
    ASSUME MorseInv, Care, Poll, page = "keying",
           \/ op \in {"idle", "mark", "eraser", "chord", "enter"}
           \/ op = "chordEnd" /\ ~TypeDown
           \/ op = "flick" /\ dirSeen = stick
           \/ op = "sent" /\ ~btn["enter"].pushing
    PROVE  Care'
<1> DEFINE s == Snapshot
<1>0. op # "off" /\ Posture /\ Watched /\ Stage
  BY DEF Care
<1>1. Quiet(s)
  BY NothingNew
<1>2. kind = "game" => text = <<>>
  BY <1>0, Erasers DEF Posture, Stage, Written
<1>3. /\ UNCHANGED <<text, morse, page, asked, found, kind, held, stick, op, keyed, meant, since, aim>>
      /\ wait' = 0 /\ Posture' /\ Watched' /\ Timed' /\ CareTypes' /\ (\A k \in Keys : Seen(k)')
      /\ dirSeen' = stick /\ polled' = 0 /\ gap' = s.gap
      /\ "back" \in held /\ btn["back"].same => btn'["back"].same
  BY <1>0, <1>1, <1>2, CareQuiet
<1>4. Written' <=> Written
  BY <1>3 DEF Written
<1>5. /\ TypeDown' <=> "type" \in held
      /\ btn'["back"].pushing <=> "back" \in held
      /\ btn'["enter"].pushing <=> "enter" \in held
  BY <1>3 DEF TypeDown, Seen, Keys
<1>6. op = "mark" => (gap' => morse' = <<>>)
  BY <1>1, <1>3 DEF Quiet
<1> HIDE DEF s
<1>7. op \in {"idle", "mark", "eraser", "chord", "enter"} => Written'
  BY <1>0, <1>4 DEF Stage
<1>8. Stage'
  <2>1. CASE op \in {"idle", "mark", "eraser", "chord", "enter"}
    BY <1>0, <1>3, <1>5, <1>6, <1>7, <2>1 DEF Stage, Posture
  <2>2. CASE op = "chordEnd" /\ ~TypeDown
    <3>1. ~TypeDown'
      BY <1>0, <1>5, <2>2 DEF Posture
    <3> QED
      BY <1>0, <1>3, <2>2, <3>1 DEF Stage
  <2>3. CASE op = "flick" /\ dirSeen = stick
    BY <1>0, <1>3, <2>3 DEF Stage
  <2>4. CASE op = "sent" /\ ~btn["enter"].pushing
    <3>1. ~btn'["enter"].pushing
      BY <1>0, <1>5, <2>4 DEF Posture
    <3> QED
      BY <1>0, <1>3, <2>4, <3>1 DEF Stage
  <2> QED
    BY <2>1, <2>2, <2>3, <2>4
<1> QED
  BY <1>3, <1>8 DEF Care

\* A poll that finds what the user did.
LEMMA CareFound ==
    ASSUME MorseInv, Care, op # "off", NEW s, s = Snapshot,
           NEW C, NEW P, NEW r, Polled(s, C, P, r), Clears(s, C)
    PROVE  /\ Posture' /\ Watched' /\ Timed' /\ Snap(s)
           /\ UNCHANGED <<kind, held, stick, op, keyed, meant, since, aim>>
           /\ dirSeen' = stick /\ polled' = 0 /\ gap' = s.gap
           /\ \A k \in Keys : Seen(k)'
           /\ "back" \in held /\ ("back" \in P \/ btn["back"].same) => btn'["back"].same
           /\ idle' = (IF "type" \in held \/ r THEN 0 ELSE idle)
<1>1. /\ s.t \in [Field -> BOOLEAN] /\ s.b \in [Field -> BOOLEAN] /\ s.e \in [Field -> BOOLEAN]
      /\ Snap(s)
  BY SnapIs, CareSnap DEF MorseInv
<1> QED
  BY <1>1, CarePolled

\* The poll that sees a key released writes the mark that was meant.
LEMMA PollMarks == ASSUME MorseInv, Care, Poll, op = "letter", TypeDown PROVE Care'
<1> DEFINE s == Snapshot
<1>0. op # "off" /\ Posture /\ Watched /\ Timed /\ CareTypes /\ Stage /\ Snap(s)
  BY CareSnap DEF Care
<1>1. since <= polled /\ Released /\ idle <= polled /\ held = {} /\ stick = "mid"
  BY <1>0, ReleasedIs DEF Timed, Posture
<1>2. ~(idle > Gap) /\ idle <= Lag /\ since <= Lag
  BY <1>1, Ticks
<1>3. Marks(s)
  <2>1. ~s.e.pushed /\ ~s.b.pushed
    BY <1>0 DEF Watched, Snap, Seen, Keys
  <2> QED
    BY <1>0, <1>1, <1>2, <2>1 DEF Marks, Snap, TypeDown
<1>4. /\ text \in Seq(Glyph) /\ page = "keying" /\ Written /\ aim = asked /\ since <= idle
      /\ (kind = "game" => text = <<>> /\ found # Rounds)
  <2>1. found < Rounds => found # Rounds
    BY MorseInputAssumption DEF MorseInv, CountOK
  <2> QED
    BY <1>0, <1>1, <2>1 DEF CareTypes, Released, Written, MorseInv, CountOK
<1>5. /\ UNCHANGED <<text, page, asked, found>> /\ morse' = Append(morse, MarkOf(s.t)) /\ wait' = 0
      /\ \E r : ~r /\ Reads(s, r)
  BY <1>3, <1>4, MarkPoll
<1>6. PICK r, C, P : ~r /\ Polled(s, C, P, r) /\ Clears(s, C)
  BY <1>5 DEF Reads
<1>7. /\ Posture' /\ Watched' /\ Timed'
      /\ UNCHANGED <<kind, held, stick, op, keyed, meant, since, aim>>
      /\ polled' = 0 /\ gap' = s.gap /\ (\A k \in Keys : Seen(k)') /\ idle' = idle
  BY <1>0, <1>1, <1>6, CareFound
<1>8. morse' = keyed
  <2>1. s.t.long <=> pressed > Long
    BY <1>0, <1>3 DEF Snap, Marks
  <2>2. pressed + Lag <= Long + since => ~(pressed > Long)
    BY <1>2, Ticks
  <2> QED
    BY <1>1, <1>5, <2>1, <2>2 DEF Released, MarkOf
<1>9. ~TypeDown' /\ ~gap'
  BY <1>1, <1>3, <1>7 DEF TypeDown, Seen, Keys, Marks
<1>10. since' <= idle' /\ idle' <= since' + Lag /\ idle' <= Gap + polled'
  BY <1>1, <1>2, <1>4, <1>7, Ticks, SMTT(30)
<1>11. Written'
  BY <1>4, <1>5, <1>7 DEF Written
<1>12. Undecided'
  BY <1>4, <1>5, <1>7, <1>8, <1>9, <1>10, <1>11 DEF Undecided
<1>13. Stage'
  BY <1>0, <1>5, <1>7, <1>9, <1>12 DEF Stage
<1>14. CareTypes'
  BY <1>0, <1>5, <1>7, <1>8 DEF CareTypes
<1> HIDE DEF s
<1> QED
  BY <1>7, <1>13, <1>14 DEF Care

\* The poll that sees the end of a letter commits it.
LEMMA PollEnds ==
    ASSUME MorseInv, Care, Poll, op = "letter", ~TypeDown, Undecided, idle > Gap
    PROVE  Care'
<1> DEFINE s == Snapshot
<1>0. op # "off" /\ Posture /\ Watched /\ CareTypes /\ Stage /\ Snap(s)
  BY CareSnap DEF Care
<1>1. held = {} /\ stick = "mid" /\ keyed # <<>> /\ morse = keyed
  BY <1>0 DEF Posture, Stage, Undecided
<1>2. Ends(s)
  <2>1. ~s.e.pushed /\ ~s.b.pushed
    BY <1>0 DEF Watched, Snap, Seen, Keys
  <2> QED
    BY <1>0, <1>1, <2>1 DEF Ends, Snap, TypeDown
<1>3. /\ text \in Seq(Glyph) /\ page = "keying" /\ Written /\ aim = asked
      /\ (kind = "game" => text = <<>> /\ found = Len(meant) /\ found # Rounds)
      /\ (kind # "game" => text = meant)
  <2>1. found < Rounds => found # Rounds
    BY MorseInputAssumption DEF MorseInv, CountOK
  <2> QED
    BY <1>0, <2>1 DEF CareTypes, Undecided, Written, MorseInv, CountOK
<1>4. /\ UNCHANGED <<page, asked, found>> /\ morse' = <<>> /\ wait' = 0
      /\ text' = (IF kind = "game" THEN Letter ELSE text \o Letter)
      /\ \E r : Reads(s, r)
  BY <1>2, <1>3, LetterPoll
<1>5. PICK r, C, P : Polled(s, C, P, r) /\ Clears(s, C)
  BY <1>4 DEF Reads
<1>6. /\ Posture' /\ Watched' /\ Timed'
      /\ UNCHANGED <<kind, held, stick, op, keyed, meant, since, aim>>
      /\ polled' = 0 /\ (\A k \in Keys : Seen(k)')
  BY <1>0, <1>5, CareFound
<1>7. keyed \in DOMAIN Codes => Letter = <<Codes[keyed]>> /\ Codes[keyed] \in Glyph
  BY <1>1 DEF Letter, Glyph, Letters
<1>8. keyed \notin DOMAIN Codes => Letter = <<>>
  BY <1>1 DEF Letter
<1>9. since + Lag > Gap /\ since' <= Gap + Lag + polled'
  BY <1>6, Ticks DEF Undecided
<1>10. ~TypeDown'
  BY <1>1, <1>6 DEF TypeDown, Seen, Keys
<1>11. keyed \in DOMAIN Codes =>
         text' = (IF kind = "game" THEN <<Codes[keyed]>> ELSE Append(meant, Codes[keyed]))
  BY <1>3, <1>4, <1>7, Joined
<1>12. Decided'
  <2>1. /\ since' + Lag > Gap /\ morse' = <<>> /\ page' = "keying" /\ wait' = 0 /\ ~(wait' > 0)
        /\ since' <= Gap + Lag + polled' /\ aim' = asked' /\ kind' = kind /\ keyed' = keyed
    BY <1>3, <1>4, <1>6, <1>9
  <2>2. CASE kind = "game"
    <3>1. found' = Len(meant)'
      BY <1>3, <1>4, <1>6, <2>2
    <3> QED
      BY <1>4, <1>8, <1>11, <2>1, <2>2, <3>1 DEF Decided
  <2>3. CASE kind # "game"
    <3>1. keyed \in DOMAIN Codes => text' = Append(meant, Codes[keyed])'
      BY <1>6, <1>11, <2>3
    <3> QED
      BY <2>1, <2>3, <3>1 DEF Decided
  <2> QED
    BY <2>2, <2>3
<1>13. text' \in Seq(Glyph)
  <2>1. <<>> \in Seq(Glyph) /\ text \o <<>> = text /\ \A x \in Glyph : <<x>> \in Seq(Glyph)
        /\ text \o <<x>> \in Seq(Glyph)
    BY <1>3
  <2> QED
    BY <1>3, <1>4, <1>7, <1>8, <2>1
<1>14. Stage'
  BY <1>0, <1>4, <1>6, <1>10, <1>12 DEF Stage
<1>15. CareTypes'
  <2>1. <<>> \in Seq({".", "_"})
    OBVIOUS
  <2> QED
    BY <1>0, <1>4, <1>6, <1>13, <2>1 DEF CareTypes
<1> HIDE DEF s
<1> QED
  BY <1>6, <1>14, <1>15 DEF Care

\* The poll that compares the letter of a game counts it.
LEMMA PollCompares ==
    ASSUME MorseInv, Care, Poll, op = "letter", ~TypeDown, Decided, kind = "game", page = "keying",
           keyed \in DOMAIN Codes, text = <<Codes[keyed]>>, found = Len(meant), aim = asked
    PROVE  Care'
<1> DEFINE s == Snapshot
<1>0. op # "off" /\ Posture /\ Watched /\ CareTypes /\ Stage /\ Snap(s) /\ morse = <<>>
  BY CareSnap DEF Care, Decided
<1>1. Quiet(s)
  BY <1>0, NothingNew
<1>2. /\ text' = <<>> /\ morse' = <<>> /\ wait' \in {0, 1} /\ page' \in {"keying", "result"}
      /\ found' = (IF Codes[keyed] = asked THEN found + 1 ELSE found)
      /\ \E r : ~r /\ Reads(s, r)
  BY <1>0, <1>1, ComparePoll
<1>3. PICK r, C, P : ~r /\ Polled(s, C, P, r) /\ Clears(s, C)
  BY <1>2 DEF Reads
<1>4. /\ Posture' /\ Watched' /\ Timed'
      /\ UNCHANGED <<kind, held, stick, op, keyed, meant, since, aim>>
      /\ polled' = 0 /\ (\A k \in Keys : Seen(k)')
  BY <1>0, <1>3, CareFound
<1>5. Counted' = Counted /\ found' = Counted
  <2>1. Len(meant) + 0 = Len(meant)
    <3>1. meant \in Seq(Glyph)
      BY <1>0 DEF CareTypes
    <3>2. Len(meant) \in Nat
      BY <3>1
    <3> QED
      BY <3>2
  <2>2. Counted' = Counted
    BY <1>4 DEF Counted
  <2>3. found' = Counted
    BY <1>2, <2>1 DEF Counted
  <2> QED
    BY <2>2, <2>3
<1>6. Decided'
  BY <1>2, <1>4, <1>5 DEF Decided
<1>7. ~TypeDown'
  BY <1>0, <1>4 DEF TypeDown, Seen, Keys, Posture
<1>8. Stage'
  BY <1>0, <1>4, <1>2, <1>6, <1>7 DEF Stage
<1>9. CareTypes'
  <2>1. <<>> \in Seq({".", "_"}) /\ <<>> \in Seq(Glyph)
    OBVIOUS
  <2> QED
    BY <1>0, <1>2, <1>4, <2>1 DEF CareTypes
<1> HIDE DEF s
<1> QED
  BY <1>4, <1>8, <1>9 DEF Care

\* The polls of the pause before and after the end of a letter.
LEMMA PollPauses ==
    ASSUME MorseInv, Care, Poll, op = "letter", ~TypeDown, page = "keying",
           idle > Gap => morse = <<>>, kind = "game" => text = <<>>
    PROVE  Care'
<1> DEFINE s == Snapshot
<1>0. op # "off" /\ Posture /\ Stage /\ Snap(s)
  BY CareSnap DEF Care
<1>1. Quiet(s)
  BY NothingNew
<1>2. /\ UNCHANGED <<text, morse, page, asked, found, kind, held, stick, op, keyed, meant, since, aim>>
      /\ wait' = 0 /\ Posture' /\ Watched' /\ Timed' /\ CareTypes' /\ (\A k \in Keys : Seen(k)')
      /\ polled' = 0 /\ gap' = s.gap /\ idle' = idle
  BY <1>0, <1>1, CareQuiet DEF Posture
<1>3. ~TypeDown'
  BY <1>0, <1>2 DEF TypeDown, Seen, Keys, Posture
<1>4. Undecided => Undecided'
  <2> SUFFICES ASSUME Undecided PROVE Undecided'
    OBVIOUS
  <2>1. ~(idle > Gap)
    BY <1>0 DEF Stage, Undecided
  <2>2. ~gap'
    BY <1>0, <1>2, <2>1 DEF Snap, Posture
  <2>4. idle' <= Gap + polled'
    BY <1>2, <2>1, Ticks
  <2>3. Written'
    BY <1>2 DEF Undecided, Written
  <2> QED
    BY <1>2, <2>2, <2>3, <2>4 DEF Undecided
<1>5. Decided => Decided'
  <2> SUFFICES ASSUME Decided PROVE Decided'
    OBVIOUS
  <2>1. Counted' = Counted
    BY <1>2 DEF Counted
  <2>2. kind = "game" => text # <<Codes[keyed]>>
    OBVIOUS
  <2> QED
    BY <1>2, <2>1, <2>2 DEF Decided
<1>6. Stage'
  BY <1>0, <1>2, <1>3, <1>4, <1>5 DEF Stage
<1> HIDE DEF s
<1> QED
  BY <1>2, <1>6 DEF Care

\* The poll of a chord erases the last letter.
LEMMA PollErases == ASSUME MorseInv, Care, Poll, op = "chordEnd", TypeDown PROVE Care'
<1> DEFINE s == Snapshot
<1>0. op # "off" /\ Posture /\ Watched /\ Timed /\ CareTypes /\ Stage /\ Snap(s)
  BY CareSnap DEF Care
<1>1. /\ page = "keying" /\ morse = <<>> /\ meant = ButLast(text) /\ text \in Seq(Glyph)
      /\ "type" \notin held /\ ~(idle > Gap)
  <2>1. ~(idle > Gap)
    <3>1. idle <= polled
      BY <1>0 DEF Timed
    <3> QED
      BY <3>1, Ticks
  <2>2. page = "keying" /\ morse = <<>> /\ meant = ButLast(text)
    BY <1>0 DEF Stage
  <2>3. text \in Seq(Glyph)
    BY <1>0 DEF CareTypes
  <2>4. "type" \notin held
    BY <1>0 DEF Posture
  <2> QED
    BY <2>1, <2>2, <2>3, <2>4
<1>2. Erases(s)
  <2>1. ~s.e.pushed /\ ~s.b.pushed
    BY <1>0 DEF Watched, Snap, Seen, Keys, Posture
  <2>2. s.t.pushed /\ ~s.t.pushing /\ ~s.gap
    BY <1>0, <1>1 DEF Snap, TypeDown
  <2>3. \/ stick = "left" /\ ~s.b.pushing /\ kind \in {"talk", "openchat"}
        \/ stick = "mid" /\ s.b.pushing /\ kind \in {"talk", "p2p"}
    BY <1>0, Erasers DEF Posture, Snap
  <2> QED
    BY <1>1, <2>1, <2>2, <2>3 DEF Erases
<1>3. /\ UNCHANGED <<morse, page, asked, found>> /\ text' = ButLast(text) /\ wait' = 0
      /\ \E r, C, P : ~r /\ Polled(s, C, P, r) /\ Clears(s, C) /\ (s.b.pushing => "back" \in P)
  BY <1>1, <1>2, ErasePoll
<1>4. PICK r, C, P : ~r /\ Polled(s, C, P, r) /\ Clears(s, C) /\ (s.b.pushing => "back" \in P)
  BY <1>3
<1>5. /\ Posture' /\ Watched' /\ Timed'
      /\ UNCHANGED <<kind, held, stick, op, keyed, meant, since, aim>>
      /\ (\A k \in Keys : Seen(k)')
      /\ "back" \in held => btn'["back"].same
  BY <1>0, <1>4, CareFound DEF Snap
<1>6. ~TypeDown'
  BY <1>1, <1>5 DEF TypeDown, Seen, Keys
<1>7. Stage'
  BY <1>0, <1>1, <1>3, <1>5, <1>6 DEF Stage
<1>8. CareTypes'
  BY <1>0, <1>1, <1>3, <1>5 DEF CareTypes
<1> HIDE DEF s
<1> QED
  BY <1>5, <1>7, <1>8 DEF Care

\* The poll that sees the stick flicked adds its letter.
LEMMA PollFlicks == ASSUME MorseInv, Care, Poll, op = "flick", dirSeen # stick PROVE Care'
<1> DEFINE s == Snapshot
<1>0. op # "off" /\ Posture /\ Watched /\ CareTypes /\ Stage /\ Snap(s)
  BY CareSnap DEF Care
<1>1. /\ page = "keying" /\ morse = <<>> /\ meant = Append(text, StickLetter[stick])
      /\ text \in Seq(Glyph)
      /\ kind = "openchat" /\ stick \in {"up", "down"}
  BY <1>0 DEF Stage, CareTypes, Posture
<1>2. ~s.t.pushed /\ ~s.e.pushed /\ ~s.b.pushed
  BY <1>0 DEF Watched, Snap, Seen, Keys
<1>3. /\ UNCHANGED <<morse, page>> /\ text' = Append(text, StickLetter[stick]) /\ wait' = 0
      /\ \E r : ~r /\ Reads(s, r)
  BY <1>1, <1>2, FlickPoll
<1>4. PICK r, C, P : ~r /\ Polled(s, C, P, r) /\ Clears(s, C)
  BY <1>3 DEF Reads
<1>5. /\ Posture' /\ Watched' /\ Timed' /\ dirSeen' = stick
      /\ UNCHANGED <<kind, held, stick, op, keyed, meant, since, aim>>
  BY <1>0, <1>4, CareFound
<1>6. Stage'
  BY <1>0, <1>1, <1>3, <1>5 DEF Stage
<1>7. CareTypes'
  BY <1>0, <1>1, <1>3, <1>5 DEF CareTypes
<1> HIDE DEF s
<1> QED
  BY <1>5, <1>6, <1>7 DEF Care

\* The poll that sees Enter released sends the message.
LEMMA PollSends == ASSUME MorseInv, Care, Poll, op = "sent", btn["enter"].pushing PROVE Care'
<1> DEFINE s == Snapshot
<1>0. op # "off" /\ Posture /\ Watched /\ CareTypes /\ Stage /\ Snap(s)
  BY CareSnap DEF Care
<1>1. /\ page = "keying" /\ morse = <<>> /\ text = meant /\ meant # <<>> /\ text \in Seq(Glyph)
      /\ held = {} /\ stick = "mid" /\ kind # "game"
  BY <1>0 DEF Stage, CareTypes, Posture
<1>2. since <= Lag
  <2>1. since <= polled
    BY <1>0, <1>1 DEF Watched, Seen, Keys
  <2> QED
    BY <2>1, Ticks
<1>3. Enters(s)
  <2>1. ~s.t.pushed /\ ~s.b.pushed
    BY <1>0 DEF Watched, Snap, Seen, Keys
  <2> QED
    BY <1>0, <1>1, <2>1 DEF Enters, Snap
<1>4. /\ morse' = <<>> /\ wait' = 0 /\ text' \in {<<>>, text}
      /\ (page' = "left" /\ out' = text) \/ (UNCHANGED page /\ kind = "p2p" /\ text' = <<>>)
      /\ \E r : Reads(s, r)
  BY <1>1, <1>3, EnterPoll
<1>5. PICK r, C, P : Polled(s, C, P, r) /\ Clears(s, C)
  BY <1>4 DEF Reads
<1>6. /\ Posture' /\ Watched' /\ Timed' /\ (\A k \in Keys : Seen(k)')
      /\ UNCHANGED <<kind, held, stick, op, keyed, meant, since, aim>>
  BY <1>0, <1>5, CareFound
<1>7. ~btn'["enter"].pushing
  BY <1>1, <1>6 DEF Seen, Keys
<1>8. Stage'
  BY <1>0, <1>1, <1>2, <1>4, <1>6, <1>7 DEF Stage
<1>9. CareTypes'
  <2>1. <<>> \in Seq(Glyph)
    OBVIOUS
  <2> QED
    BY <1>0, <1>1, <1>4, <1>6, <2>1 DEF CareTypes
<1> HIDE DEF s
<1> QED
  BY <1>6, <1>8, <1>9 DEF Care

\* The polls of the result of a game.
LEMMA PollResults == ASSUME MorseInv, Care, Poll, op # "off", page = "result" PROVE Care'
<1>0. Posture /\ Watched /\ CareTypes /\ Stage
  BY DEF Care
<1>1. /\ op \in {"idle", "letter"} /\ held = {} /\ stick = "mid" /\ kind = "game"
      /\ (op = "letter" => ~TypeDown /\ Decided)
  BY <1>0 DEF Stage, Posture, Released, Undecided, Decided
<1>2. \A k \in Keys : Seen(k) /\ ~btn[k].pushed
  <2>1. Seen("type")
    BY <1>0, <1>1 DEF Seen, Watched, TypeDown
  <2>2. Seen("back")
    BY <1>0, <1>1, Erasers DEF Watched
  <2>3. Seen("enter")
    BY <1>0, <1>1 DEF Watched
  <2> QED
    BY <1>0, <2>1, <2>2, <2>3 DEF Watched, Keys
<1>3. BtnOK
  BY DEF MorseInv
<1>4. PICK s : /\ s.t \in [Field -> BOOLEAN] /\ s.b \in [Field -> BOOLEAN]
               /\ s.e \in [Field -> BOOLEAN]
               /\ Snap(s) /\ \E r : ~r /\ Reads(s, r)
  BY <1>1, <1>2, <1>3, ResultPoll
<1>5. UNCHANGED <<page, found, text, morse, wait, asked>>
  BY <1>1, <1>2, <1>3, ResultPoll
<1>6. PICK r, C, P : ~r /\ Polled(s, C, P, r) /\ Clears(s, C)
  BY <1>4 DEF Reads
<1>7. /\ Posture' /\ Watched' /\ Timed' /\ (\A k \in Keys : Seen(k)') /\ polled' = 0
      /\ UNCHANGED <<kind, held, stick, op, keyed, meant, since, aim>>
  BY <1>4, <1>6, CarePolled
<1>8. ~TypeDown' /\ ~btn'["back"].pushing
  BY <1>1, <1>7 DEF TypeDown, Seen, Keys
<1>9. op = "letter" => Decided'
  <2> SUFFICES ASSUME op = "letter" PROVE Decided'
    OBVIOUS
  <2>1. Counted' = Counted
    BY <1>5, <1>7 DEF Counted
  <2> QED
    BY <1>1, <1>5, <1>7, <2>1 DEF Decided
<1>10. Written' <=> Written
  BY <1>5, <1>7 DEF Written
<1>11. Stage'
  BY <1>0, <1>1, <1>5, <1>7, <1>8, <1>9, <1>10 DEF Stage
<1>12. CareTypes'
  BY <1>0, <1>5, <1>7 DEF CareTypes
<1> QED
  BY <1>7, <1>11, <1>12 DEF Care

\* Every poll keeps the screen with the careful user.
LEMMA CarePoll == ASSUME MorseInv, Care, Poll PROVE Care'
<1>1. UNCHANGED op
  BY DEF Poll, PollTalk, PollP2p, PollOpenChat, PollGame, PollResult, Polled, hist
<1>2. CASE op = "off"
  BY <1>1, <1>2 DEF Care
<1>3. CASE op # "off" /\ page = "result"
  BY <1>3, PollResults
<1>4. CASE op # "off" /\ page = "keying"
  <2>1. CASE op \in {"idle", "mark", "eraser", "chord", "enter"}
    BY <1>4, <2>1, PollRests
  <2>2. CASE op = "chordEnd"
    BY <1>4, <2>2, PollRests, PollErases
  <2>3. CASE op = "flick"
    BY <1>4, <2>3, PollRests, PollFlicks
  <2>4. CASE op = "sent"
    BY <1>4, <2>4, PollRests, PollSends
  <2>5. CASE op = "letter"
    <3>1. CASE TypeDown
      BY <2>5, <3>1, PollMarks
    <3>2. CASE ~TypeDown /\ Undecided /\ idle > Gap
      BY <2>5, <3>2, PollEnds
    <3>3. CASE ~TypeDown /\ Undecided /\ ~(idle > Gap)
      BY <1>4, <2>5, <3>3, PollPauses DEF Undecided, Written
    <3>4. CASE ~TypeDown /\ Decided
      BY <1>4, <2>5, <3>4, PollPauses, PollCompares DEF Decided
    <3> QED
      BY <1>4, <2>5, <3>1, <3>2, <3>3, <3>4 DEF Care, Stage
  <2> QED
    BY <1>4, <2>1, <2>2, <2>3, <2>4, <2>5 DEF Care, Posture
<1> QED
  BY <1>2, <1>3, <1>4 DEF Poll, PollTalk, PollP2p, PollOpenChat, PollGame, PollResult

\* A screen opens with a user at rest.
LEMMA CareStart == ASSUME MorseInit PROVE Care
<1>0. Settled > Lag /\ Settled \in Nat
  BY MorseInputAssumption DEF Settled
<1>1. /\ held = {} /\ stick = "mid" /\ dirSeen = "mid" /\ op = "idle" /\ page = "keying"
      /\ text = <<>> /\ morse = <<>>
      /\ keyed = <<>> /\ meant = <<>> /\ found = 0 /\ wait = 0 /\ polled = 0 /\ ~gap
  BY DEF MorseInit
<1>2. \A k \in Keys : ~btn[k].pushing /\ ~btn[k].pushed
  BY DEF MorseInit, Fresh
<1>3. Posture /\ Watched /\ Timed
  BY <1>1, <1>2 DEF Posture, Watched, Timed, Seen, TypeDown, Keys
<1>4. Written
  BY <1>1 DEF Written
<1>5. Stage
  BY <1>1, <1>2, <1>4 DEF Stage, Keys
<1>6. CareTypes
  <2>1. <<>> \in Seq({".", "_"}) /\ <<>> \in Seq(Glyph)
    OBVIOUS
  <2> QED
    BY <1>1, <2>1 DEF CareTypes
<1> QED
  BY <1>3, <1>5, <1>6 DEF Care

\* Every step keeps the screen with the careful user.
LEMMA CareStep == ASSUME MorseInv, Care, [MorseNext]_morseVars PROVE Care'
<1>1. CASE UNCHANGED morseVars
  BY <1>1 DEF Care, Posture, Watched, Timed, Stage, CareTypes, Seen, TypeDown, Written,
     Released, Undecided,
     Decided, Counted, morseVars, input, clock, game, hist
<1> QED
  BY <1>1, CarePress, CareRelease, CareStick, CareTick, CarePoll DEF MorseNext

\* A screen stays with a careful user.
LEMMA CareSafe == MorseSpec => [](MorseInv /\ Care)
<1>1. MorseInit => Care
  BY CareStart
<1>2. MorseInv /\ Care /\ [MorseNext]_morseVars => Care'
  BY CareStep
<1>3. MorseSpec => []MorseInv
  BY MorseSafe
<1> QED
  BY <1>1, <1>2, <1>3, PTL DEF MorseSpec

\* KeyedIsCommitted: on every screen, whatever the thresholds, what a careful user keys is
\* what the screen holds after the pause, only sending makes the screen go away, and all of
\* the message is sent; the score of a game is the number of letters keyed as asked.
THEOREM KeyedText == MorseSpec => []KeyedIsCommitted
<1>1. ASSUME MorseInv, Care PROVE KeyedIsCommitted
  <2>1. op = "idle" => IF kind = "game" THEN found = Len(meant) ELSE text = meant
    BY <1>1 DEF Care, Stage, Written
  <2>2. page \in {"left", "restarted"} => op \in {"sent", "off"}
    BY <1>1 DEF Care, Stage, Posture, Released, Undecided, Decided
  <2>3. op = "sent" /\ page = "left" => out = meant
    BY <1>1 DEF Care, Stage
  <2>4. op = "sent" /\ since > Lag => kind = "p2p" /\ text = <<>>
    <3> SUFFICES ASSUME op = "sent", since > Lag PROVE kind = "p2p" /\ text = <<>>
      OBVIOUS
    <3>1. ~btn["enter"].pushing
      BY <1>1, AllSeen DEF Care, Posture, Seen, Keys
    <3>2. ~(since <= Lag)
      BY <1>1, Ticks
    <3> QED
      BY <1>1, <3>1, <3>2 DEF Care, Stage
  <2> QED
    BY <2>1, <2>2, <2>3, <2>4 DEF KeyedIsCommitted
<1> QED
  BY <1>1, CareSafe, PTL
===========================================================================
