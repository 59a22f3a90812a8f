----------------------- MODULE WifiCredentialsProofs -----------------------
(***************************************************************************)
(* Type correctness, Unique and SavedWorked of WifiCredentials, and that   *)
(* the ring implements the queue of CredentialStore, for any capacity and  *)
(* any networks.                                                           *)
(*                                                                         *)
(* The argument: a name is written only after the search has not found it, *)
(* and only the settings screen writes.  The wait of the screen ends with  *)
(* its own connection unless an event of an older one was on its way or    *)
(* the retry task has reconfigured the station, which is what mixed tells; *)
(* so a password that is stored has opened its network.                    *)
(*                                                                         *)
(* What the ring holds is a queue: the slots from wifi_next on, then those *)
(* before it, without the free ones.  A ring is sound when its free slots  *)
(* come last and its names differ.  Each write is a step of the queue or   *)
(* none: the password of a known network is an update in place; a new name *)
(* and its password change nothing yet; the index adds the network behind  *)
(* all others; and a reset before the index is written leaves its slot as  *)
(* the oldest, which is torn and the next to go.                           *)
(***************************************************************************)
EXTENDS WifiCredentials, SequenceTheorems, TLAPS

\* While the screen waits, and nothing else can end its wait, what connects is
\* the network that was typed.
WaitOK ==
    screen = "wait" /\ ~mixed =>
        /\ config = new
        /\ bit \/ events # <<>> \/ link # NoName => Good(new)

\* What a save in progress knows.
SaverOK ==
    /\ saver # "idle" <=> screen = "save"
    /\ screen # "idle" => new.ssid \in Networks
    /\ saver # "idle" /\ ~mixed => Good(new)
    /\ saver = "name" => \A i \in Slot : ssid[i] # new.ssid
    /\ saver \in {"pass", "next"} => ssid[next] = new.ssid
    /\ saver = "next" => pass[next] = new.pass

\* A stored password has opened its network, or its network is doubtful.
SoundSlot(i) == ssid[i] # NoName => Good(Entry(ssid[i], pass[i])) \/ ssid[i] \in doubtful

\* ... but for the slot that is being written.
SlotsOK == \A i \in Slot : SoundSlot(i) \/ (saver \in {"pass", "next"} /\ i = next)

IInv == TypeOK /\ Unique /\ WaitOK /\ SaverOK /\ SlotsOK

\* wifi_next stays in the ring.
LEMMA FollowingIsSlot == ASSUME next \in Slot PROVE Following \in Slot
  BY CapacityAssumption DEF Slot, Following

\* Every step keeps the types.
LEMMA TypeStep == TypeOK /\ SaverOK /\ [Next]_vars => TypeOK'
<1> SUFFICES ASSUME TypeOK /\ SaverOK, [Next]_vars PROVE TypeOK'
  OBVIOUS
<1> USE CapacityAssumption, PasswordAssumption, NameAssumption, BoundAssumption
<1> USE DEF TypeOK, SaveStep, ring, save, radio, tries, history
<1>1. CASE Find
  BY <1>1 DEF Find, SlotsOfNew
<1>2. CASE UpdatePass
  <2>1. new.ssid \in Networks /\ doubtful' \subseteq Networks
    BY <1>2 DEF UpdatePass, Finish, SaverOK
  <2>2. new.pass \in Passwords
    OBVIOUS
  <2>3. pass' \in [Slot -> Passwords]
    BY <2>2, <1>2 DEF UpdatePass
  <2> QED
    BY <2>1, <2>3, <1>2 DEF UpdatePass
<1>3. CASE WriteName
  BY <1>3 DEF WriteName
<1>4. CASE WritePass
  BY <1>4 DEF WritePass
<1>5. CASE WriteNext
  <2>1. new.ssid \in Networks /\ doubtful' \subseteq Networks
    BY <1>5 DEF WriteNext, Finish, SaverOK
  <2> QED
    BY <2>1, FollowingIsSlot, <1>5 DEF WriteNext
<1>6. CASE SaveReturns
  BY <1>6 DEF SaveReturns, Nothing, Entry
<1>7. CASE StartTrial
  BY <1>7 DEF StartTrial
<1>8. CASE TryNext
  BY <1>8 DEF TryNext, SetSta
<1>9. CASE Connected
  BY <1>9 DEF Connected, EndTrial
<1>10. CASE Failed
  BY <1>10 DEF Failed, EndTrial
<1>11. CASE Join
  BY <1>11 DEF Join
<1>12. CASE GotIp
  BY <1>12 DEF GotIp
<1>13. CASE Lose
  BY <1>13 DEF Lose
<1>14. CASE Move
  BY <1>14 DEF Move
<1>15. CASE WaitEnds
  BY <1>15 DEF WaitEnds, Nothing, Entry
<1>16. CASE Reset
  <2>1. doubtful' \subseteq Networks
    BY <1>16 DEF Reset, SaverOK
  <2>2. mixed' \in BOOLEAN
    BY <1>16 DEF Reset
  <2>3. resets' \in 0..MaxResets
    BY <1>16 DEF Reset
  <2> QED
    BY <2>1, <2>2, <2>3, <1>16 DEF Reset, Nothing, Entry
<1>17. ASSUME NEW s \in Networks, NEW p \in Passwords, ConnectByHand(s, p) PROVE TypeOK'
  BY <1>17 DEF ConnectByHand, SetSta, Entry
<1>18. CASE UNCHANGED vars
  BY <1>18 DEF vars
<1> QED
  BY <1>1, <1>2, <1>3, <1>4, <1>5, <1>6, <1>7, <1>8, <1>9, <1>10, <1>11, <1>12, <1>13,
     <1>14, <1>15, <1>16, <1>17, <1>18
  DEF Next, Save, Tries

\* Every step keeps the names different.
LEMMA UniqueStep == IInv /\ [Next]_vars => Unique'
<1> SUFFICES ASSUME IInv, [Next]_vars PROVE Unique'
  OBVIOUS
<1> USE CapacityAssumption, NameAssumption
<1> USE DEF IInv, TypeOK, Unique, SaverOK, SaveStep, ring, save, radio, tries, history
<1>1. CASE Find
  BY <1>1 DEF Find, SlotsOfNew
<1>2. CASE UpdatePass
  BY <1>2 DEF UpdatePass, SlotsOfNew, Finish
<1>3. CASE WriteName
  BY <1>3 DEF WriteName
<1>4. CASE WritePass
  BY <1>4 DEF WritePass
<1>5. CASE WriteNext
  BY <1>5 DEF WriteNext, Finish
<1>6. CASE SaveReturns
  BY <1>6 DEF SaveReturns, Nothing, Entry
<1>7. CASE StartTrial
  BY <1>7 DEF StartTrial
<1>8. CASE TryNext
  BY <1>8 DEF TryNext, SetSta
<1>9. CASE Connected
  BY <1>9 DEF Connected, EndTrial
<1>10. CASE Failed
  BY <1>10 DEF Failed, EndTrial
<1>11. CASE Join
  BY <1>11 DEF Join
<1>12. CASE GotIp
  BY <1>12 DEF GotIp
<1>13. CASE Lose
  BY <1>13 DEF Lose
<1>14. CASE Move
  BY <1>14 DEF Move
<1>15. CASE WaitEnds
  BY <1>15 DEF WaitEnds, Nothing, Entry
<1>16. CASE Reset
  BY <1>16 DEF Reset, Nothing, Entry
<1>17. ASSUME NEW s \in Networks, NEW p \in Passwords, ConnectByHand(s, p) PROVE Unique'
  BY <1>17 DEF ConnectByHand, SetSta, Entry
<1>18. CASE UNCHANGED vars
  BY <1>18 DEF vars
<1> QED
  BY <1>1, <1>2, <1>3, <1>4, <1>5, <1>6, <1>7, <1>8, <1>9, <1>10, <1>11, <1>12, <1>13,
     <1>14, <1>15, <1>16, <1>17, <1>18
  DEF Next, Save, Tries

\* Every step keeps what the wait of the screen is for.
LEMMA WaitStep == IInv /\ [Next]_vars => WaitOK'
<1> SUFFICES ASSUME IInv, [Next]_vars PROVE WaitOK'
  OBVIOUS
<1> USE CapacityAssumption, NameAssumption
<1> USE DEF IInv, TypeOK, WaitOK, SaverOK, SaveStep, ring, save, radio, tries, history
<1>1. CASE Find
  BY <1>1 DEF Find, SlotsOfNew
<1>2. CASE UpdatePass
  BY <1>2 DEF UpdatePass, SlotsOfNew, Finish
<1>3. CASE WriteName
  BY <1>3 DEF WriteName
<1>4. CASE WritePass
  BY <1>4 DEF WritePass
<1>5. CASE WriteNext
  BY <1>5 DEF WriteNext, Finish
<1>6. CASE SaveReturns
  BY <1>6 DEF SaveReturns, Nothing, Entry
<1>7. CASE StartTrial
  BY <1>7 DEF StartTrial
<1>8. CASE TryNext
  BY <1>8 DEF TryNext, SetSta
<1>9. CASE Connected
  BY <1>9 DEF Connected, EndTrial
<1>10. CASE Failed
  BY <1>10 DEF Failed, EndTrial
<1>11. CASE Join
  BY <1>11 DEF Join, Good
<1>12. CASE GotIp
  BY <1>12 DEF GotIp
<1>13. CASE Lose
  BY <1>13 DEF Lose
<1>14. CASE Move
  BY <1>14 DEF Move
<1>15. CASE WaitEnds
  BY <1>15 DEF WaitEnds, Nothing, Entry
<1>16. CASE Reset
  BY <1>16 DEF Reset, Nothing, Entry
<1>17. ASSUME NEW s \in Networks, NEW p \in Passwords, ConnectByHand(s, p) PROVE WaitOK'
  BY <1>17 DEF ConnectByHand, SetSta, Entry
<1>18. CASE UNCHANGED vars
  BY <1>18 DEF vars
<1> QED
  BY <1>1, <1>2, <1>3, <1>4, <1>5, <1>6, <1>7, <1>8, <1>9, <1>10, <1>11, <1>12, <1>13,
     <1>14, <1>15, <1>16, <1>17, <1>18
  DEF Next, Save, Tries

\* Every step keeps what a save knows.
LEMMA SaverStep == IInv /\ [Next]_vars => SaverOK'
<1> SUFFICES ASSUME IInv, [Next]_vars PROVE SaverOK'
  OBVIOUS
<1> USE CapacityAssumption, NameAssumption
<1> USE DEF IInv, TypeOK, WaitOK, SaverOK, Good, Entry, SaveStep, ring, save, radio, tries,
            history
<1>1. CASE Find
  BY <1>1 DEF Find, SlotsOfNew
<1>2. CASE UpdatePass
  BY <1>2 DEF UpdatePass, SlotsOfNew, Finish
<1>3. CASE WriteName
  BY <1>3 DEF WriteName
<1>4. CASE WritePass
  BY <1>4 DEF WritePass
<1>5. CASE WriteNext
  BY <1>5 DEF WriteNext, Finish
<1>6. CASE SaveReturns
  BY <1>6 DEF SaveReturns, Nothing, Entry
<1>7. CASE StartTrial
  BY <1>7 DEF StartTrial
<1>8. CASE TryNext
  BY <1>8 DEF TryNext, SetSta
<1>9. CASE Connected
  BY <1>9 DEF Connected, EndTrial
<1>10. CASE Failed
  BY <1>10 DEF Failed, EndTrial
<1>11. CASE Join
  BY <1>11 DEF Join
<1>12. CASE GotIp
  BY <1>12 DEF GotIp
<1>13. CASE Lose
  BY <1>13 DEF Lose
<1>14. CASE Move
  BY <1>14 DEF Move
<1>15. CASE WaitEnds
  BY <1>15 DEF WaitEnds, Nothing, Entry
<1>16. CASE Reset
  BY <1>16 DEF Reset, Nothing, Entry
<1>17. ASSUME NEW s \in Networks, NEW p \in Passwords, ConnectByHand(s, p) PROVE SaverOK'
  BY <1>17 DEF ConnectByHand, SetSta, Entry
<1>18. CASE UNCHANGED vars
  BY <1>18 DEF vars
<1> QED
  BY <1>1, <1>2, <1>3, <1>4, <1>5, <1>6, <1>7, <1>8, <1>9, <1>10, <1>11, <1>12, <1>13,
     <1>14, <1>15, <1>16, <1>17, <1>18
  DEF Next, Save, Tries

\* Every step keeps the stored passwords good.
LEMMA SlotsStep == IInv /\ [Next]_vars => SlotsOK'
<1> SUFFICES ASSUME IInv, [Next]_vars PROVE SlotsOK'
  OBVIOUS
<1> USE CapacityAssumption, NameAssumption
<1> USE DEF IInv, TypeOK, Unique, SaverOK, SlotsOK, SoundSlot, Good, Entry, SaveStep, ring,
            save, radio, tries, history
<1>1. CASE Find
  BY <1>1 DEF Find, SlotsOfNew
<1>2. CASE UpdatePass
  BY <1>2 DEF UpdatePass, SlotsOfNew, Finish
<1>3. CASE WriteName
  BY <1>3 DEF WriteName
<1>4. CASE WritePass
  BY <1>4 DEF WritePass
<1>5. CASE WriteNext
  <2>1. pass[next] = new.pass /\ ssid[next] = new.ssid /\ ssid' = ssid /\ pass' = pass
    BY <1>5 DEF WriteNext
  <2> SUFFICES ASSUME NEW i \in Slot PROVE SoundSlot(i)'
    OBVIOUS
  <2>2. CASE i = next
    BY <2>1, <2>2, <1>5 DEF WriteNext, Finish
  <2>3. CASE i # next
    BY <2>1, <2>3, <1>5 DEF WriteNext, Finish
  <2> QED
    BY <2>2, <2>3
<1>6. CASE SaveReturns
  BY <1>6 DEF SaveReturns, Nothing, Entry
<1>7. CASE StartTrial
  BY <1>7 DEF StartTrial
<1>8. CASE TryNext
  BY <1>8 DEF TryNext, SetSta
<1>9. CASE Connected
  BY <1>9 DEF Connected, EndTrial
<1>10. CASE Failed
  BY <1>10 DEF Failed, EndTrial
<1>11. CASE Join
  BY <1>11 DEF Join
<1>12. CASE GotIp
  BY <1>12 DEF GotIp
<1>13. CASE Lose
  BY <1>13 DEF Lose
<1>14. CASE Move
  BY <1>14 DEF Move
<1>15. CASE WaitEnds
  BY <1>15 DEF WaitEnds, Nothing, Entry
<1>16. CASE Reset
  BY <1>16 DEF Reset, Nothing, Entry
<1>17. ASSUME NEW s \in Networks, NEW p \in Passwords, ConnectByHand(s, p) PROVE SlotsOK'
  BY <1>17 DEF ConnectByHand, SetSta, Entry
<1>18. CASE UNCHANGED vars
  BY <1>18 DEF vars
<1> QED
  BY <1>1, <1>2, <1>3, <1>4, <1>5, <1>6, <1>7, <1>8, <1>9, <1>10, <1>11, <1>12, <1>13,
     <1>14, <1>15, <1>16, <1>17, <1>18
  DEF Next, Save, Tries

-----------------------------------------------------------------------------
(* The ring as a queue.                                                    *)

Rings  == [ssid : [Slot -> Networks \cup {NoName}], pass : [Slot -> Passwords], next : Slot]
Full(r)   == \A k \in Slot : r.ssid[k] # NoName
\* The slots below wifi_next are stored; those above it are all stored or all empty.
Packed(r) ==
    /\ \A k \in Slot : k < r.next => r.ssid[k] # NoName
    /\ Full(r) \/ \A k \in Slot : k > r.next => r.ssid[k] = NoName
Distinct(r) == \A i, j \in Slot : r.ssid[i] = r.ssid[j] /\ r.ssid[i] # NoName => i = j
Sound(r) == r \in Rings /\ Packed(r) /\ Distinct(r)
Absent(r, s) == \A k \in Slot : r.ssid[k] # s
\* The ring after the name and the password of a save, and after its index.
Written(r, s, p) == [ssid |-> [r.ssid EXCEPT ![r.next] = s],
                     pass |-> [r.pass EXCEPT ![r.next] = p], next |-> r.next]
Size(r) == Heads(r) + r.next

\* The index after the last slot is 0.
LEMMA FollowingIs ==
    ASSUME NEW n \in Slot
    PROVE  (n + 1) % Capacity = IF n + 1 = Capacity THEN 0 ELSE n + 1
  BY CapacityAssumption DEF Slot

\* In a sound ring the stored slots at wifi_next and above are all there are, or
\* the one at wifi_next, or none; and there are as many as Heads says.
LEMMA HeadsFacts ==
    ASSUME NEW r, Sound(r)
    PROVE  /\ Heads(r) \in Nat /\ Size(r) \in 0..Capacity
           /\ Full(r) => Heads(r) = Capacity - r.next /\ Size(r) = Capacity
           /\ ~Full(r) /\ r.ssid[r.next] # NoName => Heads(r) = 1 /\ Size(r) < Capacity
           /\ ~Full(r) /\ r.ssid[r.next] = NoName => Heads(r) = 0 /\ Size(r) < Capacity
<1> USE CapacityAssumption
<1>1. r.next \in Nat /\ r.next < Capacity /\ Capacity \in Nat \ {0}
  BY DEF Sound, Rings, Slot
<1>2. CASE Full(r)
  <2>1. r.next \in Slot
    BY DEF Sound, Rings
  <2>2. Heads(r) = Capacity - r.next
    BY <1>2, <2>1 DEF Full, Heads
  <2> QED
    BY <1>1, <1>2, <2>2 DEF Size
<1>3. CASE ~Full(r) /\ r.ssid[r.next] = NoName
  BY <1>1, <1>3 DEF Heads, Size
<1>4. CASE ~Full(r) /\ r.ssid[r.next] # NoName
  <2>1. Heads(r) = 1
    BY <1>4 DEF Heads, Full
  <2>2. r.next + 1 # Capacity
    <3> SUFFICES ASSUME r.next + 1 = Capacity PROVE FALSE
      OBVIOUS
    <3>1. \A k \in Slot : k < r.next \/ k = r.next
      BY <1>1 DEF Slot
    <3> QED
      BY <3>1, <1>4 DEF Sound, Packed, Full
  <2> QED
    BY <1>1, <1>4, <2>1, <2>2 DEF Size
<1> QED
  BY <1>2, <1>3, <1>4

\* The queue of a sound ring has one place for each stored slot.
LEMMA PlaceFacts ==
    ASSUME NEW r, Sound(r)
    PROVE  /\ \A i \in 1..Size(r) : Place(r, i) \in Slot /\ r.ssid[Place(r, i)] # NoName
           /\ \A k \in Slot : r.ssid[k] # NoName => \E i \in 1..Size(r) : Place(r, i) = k
<1> USE CapacityAssumption
<1>1. r.next \in Nat /\ r.next < Capacity /\ Capacity \in Nat \ {0}
  BY DEF Sound, Rings, Slot
<1>2. CASE Full(r)
  <2>1. Heads(r) = Capacity - r.next /\ Size(r) = Capacity
    BY <1>2, HeadsFacts
  <2>2. \A i \in 1..Size(r) : Place(r, i) \in Slot
    BY <1>1, <2>1 DEF Place, Slot
  <2>3. ASSUME NEW k \in Slot PROVE \E i \in 1..Size(r) : Place(r, i) = k
    <3>1. CASE k < r.next
      <4>1. Place(r, k + Capacity - r.next + 1) = k /\ k + Capacity - r.next + 1 \in 1..Size(r)
        BY <1>1, <2>1, <3>1 DEF Place, Slot
      <4> QED
        BY <4>1
    <3>2. CASE k >= r.next
      <4>1. Place(r, k - r.next + 1) = k /\ k - r.next + 1 \in 1..Size(r)
        BY <1>1, <2>1, <3>2 DEF Place, Slot
      <4> QED
        BY <4>1
    <3> QED
      BY <3>1, <3>2, <1>1 DEF Slot
  <2> QED
    BY <1>2, <2>2, <2>3 DEF Full
<1>3. CASE ~Full(r) /\ r.ssid[r.next] = NoName
  <2>1. Heads(r) = 0 /\ Size(r) = r.next
    BY <1>1, <1>3, HeadsFacts DEF Size
  <2>2. \A i \in 1..Size(r) : Place(r, i) = i - 1 /\ i - 1 \in Slot /\ i - 1 < r.next
    BY <1>1, <2>1 DEF Place, Slot
  <2>3. \A k \in Slot : r.ssid[k] # NoName => k < r.next
    BY <1>1, <1>3 DEF Sound, Packed, Slot
  <2>4. \A k \in Slot : k < r.next => k + 1 \in 1..Size(r) /\ Place(r, k + 1) = k
    BY <1>1, <2>1 DEF Place, Slot
  <2> QED
    BY <2>2, <2>3, <2>4 DEF Sound, Packed
<1>4. CASE ~Full(r) /\ r.ssid[r.next] # NoName
  <2>1. Heads(r) = 1 /\ Size(r) = r.next + 1
    BY <1>1, <1>4, HeadsFacts DEF Size
  <2>2. Place(r, 1) = r.next /\ r.next \in Slot
    BY <1>1, <2>1 DEF Place, Slot
  <2>3. \A i \in 2..Size(r) : Place(r, i) = i - 2 /\ i - 2 \in Slot /\ i - 2 < r.next
    BY <1>1, <2>1 DEF Place, Slot
  <2>4. \A i \in 1..Size(r) : i = 1 \/ i \in 2..Size(r)
    BY <1>1, <2>1
  <2>5. \A k \in Slot : r.ssid[k] # NoName => k <= r.next
    BY <1>1, <1>4 DEF Sound, Packed, Slot
  <2>6. \A k \in Slot : k < r.next => k + 2 \in 1..Size(r) /\ Place(r, k + 2) = k
    BY <1>1, <2>1 DEF Place, Slot
  <2>7. 1 \in 1..Size(r)
    BY <1>1, <2>1
  <2>8. \A i \in 1..Size(r) : Place(r, i) \in Slot /\ r.ssid[Place(r, i)] # NoName
    BY <1>4, <2>2, <2>3, <2>4 DEF Sound, Packed
  <2>9. ASSUME NEW k \in Slot, r.ssid[k] # NoName PROVE \E i \in 1..Size(r) : Place(r, i) = k
    <3>1. CASE k < r.next
      BY <2>6, <3>1
    <3>2. CASE k = r.next
      BY <2>2, <2>7, <3>2
    <3> QED
      BY <1>1, <2>5, <2>9, <3>1, <3>2 DEF Slot
  <2> QED
    BY <2>8, <2>9
<1> QED
  BY <1>2, <1>3, <1>4

\* What the queue of a sound ring is, entry by entry.
LEMMA QueueFacts ==
    ASSUME NEW r, Sound(r)
    PROVE  /\ Queue(r) \in Seq([ssid : Networks, pass : Passwords])
           /\ Len(Queue(r)) = Size(r) /\ DOMAIN Queue(r) = 1..Size(r)
           /\ \A i \in 1..Size(r) : Queue(r)[i] = Entry(r.ssid[Place(r, i)], r.pass[Place(r, i)])
<1>1. Size(r) \in Nat
  BY HeadsFacts, CapacityAssumption
<1>2. \A i \in 1..Size(r) : Entry(r.ssid[Place(r, i)], r.pass[Place(r, i)])
                              \in [ssid : Networks, pass : Passwords]
  BY PlaceFacts DEF Sound, Rings, Entry
<1>3. Queue(r) = [i \in 1..Size(r) |-> Entry(r.ssid[Place(r, i)], r.pass[Place(r, i)])]
  BY DEF Queue, Size
<1>4. Queue(r) \in [1..Size(r) -> [ssid : Networks, pass : Passwords]]
  BY <1>2, <1>3
<1>5. \A S : \A n \in Nat : \A f \in [1..n -> S] : f \in Seq(S) /\ Len(f) = n
  OBVIOUS
<1> QED
  BY <1>1, <1>3, <1>4, <1>5

\* A network is known to the queue if and only if a slot has its name.
LEMMA KnownIff ==
    ASSUME NEW r, Sound(r), NEW s \in Networks
    PROVE  (\E i \in DOMAIN Queue(r) : Queue(r)[i].ssid = s) <=> ~Absent(r, s)
<1>1. ASSUME NEW i \in 1..Size(r) PROVE Queue(r)[i].ssid = r.ssid[Place(r, i)]
  <2>1. Queue(r)[i] = Entry(r.ssid[Place(r, i)], r.pass[Place(r, i)])
    BY QueueFacts
  <2> QED
    BY <2>1 DEF Entry
<1>2. s # NoName
  BY NameAssumption
<1>3. DOMAIN Queue(r) = 1..Size(r)
  BY QueueFacts
<1>4. ASSUME NEW i \in 1..Size(r), r.ssid[Place(r, i)] = s PROVE ~Absent(r, s)
  BY <1>4, PlaceFacts DEF Absent
<1>5. ASSUME NEW k \in Slot, r.ssid[k] = s PROVE \E i \in 1..Size(r) : r.ssid[Place(r, i)] = s
  BY <1>2, <1>5, PlaceFacts
<1> QED
  BY <1>1, <1>3, <1>4, <1>5 DEF Absent

\* A new password for a stored network changes its entry and no other.
Corrected(r, j, p) == [ssid |-> r.ssid, pass |-> [r.pass EXCEPT ![j] = p], next |-> r.next]

\* A save of a network that has a slot is the store's update in place.
LEMMA UpdateQueue ==
    ASSUME NEW r, Sound(r), NEW j \in Slot, NEW s \in Networks, r.ssid[j] = s,
           NEW p \in Passwords
    PROVE  /\ Sound(Corrected(r, j, p))
           /\ Queue(Corrected(r, j, p)) =
                [i \in DOMAIN Queue(r) |-> IF Queue(r)[i].ssid = s
                                           THEN [Queue(r)[i] EXCEPT !.pass = p]
                                           ELSE Queue(r)[i]]
           /\ Torn(Corrected(r, j, p)) = Torn(r)
<1> DEFINE w == Corrected(r, j, p)
<1>0. w = [ssid |-> r.ssid, pass |-> [r.pass EXCEPT ![j] = p], next |-> r.next]
  BY DEF Corrected
<1> HIDE DEF w
<1>1. Sound(w)
  BY <1>0 DEF Sound, Rings, Packed, Full, Distinct
<1>2. Heads(w) = Heads(r) /\ Size(w) = Size(r) /\ \A i : Place(w, i) = Place(r, i)
  BY <1>0 DEF Heads, Size, Place
<1> DEFINE Q == [i \in DOMAIN Queue(r) |-> IF Queue(r)[i].ssid = s
                                           THEN [Queue(r)[i] EXCEPT !.pass = p]
                                           ELSE Queue(r)[i]]
<1>3. ASSUME NEW i \in 1..Size(r)
      PROVE  Queue(w)[i] = Entry(r.ssid[Place(r, i)], w.pass[Place(r, i)])
  <2>1. Queue(w)[i] = Entry(w.ssid[Place(w, i)], w.pass[Place(w, i)])
    BY <1>1, <1>2, QueueFacts
  <2> QED
    BY <1>0, <1>2, <2>1
<1>4. ASSUME NEW i \in 1..Size(r) PROVE Queue(w)[i] = Q[i]
  <2>1. Queue(r)[i] = Entry(r.ssid[Place(r, i)], r.pass[Place(r, i)]) /\ i \in DOMAIN Queue(r)
    BY QueueFacts
  <2>2. Place(r, i) \in Slot /\ r.ssid[Place(r, i)] # NoName
    BY PlaceFacts
  <2>3. r.pass \in [Slot -> Passwords]
    BY DEF Sound, Rings
  <2>4. CASE Place(r, i) = j
    BY <1>0, <1>3, <2>1, <2>2, <2>3, <2>4 DEF Entry
  <2>5. CASE Place(r, i) # j
    <3>1. r.ssid[Place(r, i)] # s
      BY <2>2, <2>5, NameAssumption DEF Sound, Distinct
    <3> QED
      BY <1>0, <1>3, <2>1, <2>2, <2>3, <2>5, <3>1 DEF Entry
  <2> QED
    BY <2>4, <2>5
<1>5. Queue(w) = [i \in 1..Size(r) |-> Queue(w)[i]]
  BY <1>2 DEF Queue, Size
<1>6. Queue(w) = Q
  BY <1>4, <1>5, QueueFacts
<1>7. Len(Queue(w)) = Len(Queue(r))
  BY <1>1, <1>2, QueueFacts
<1>8. Torn(w) = Torn(r)
  BY <1>0, <1>7 DEF Torn
<1> QED
  BY <1>1, <1>6, <1>8 DEF w

\* What a new network finds in the queue.
Rest(r) == IF Torn(r) \/ Len(Queue(r)) = Capacity THEN Tail(Queue(r)) ELSE Queue(r)
Entries == [ssid : Networks, pass : Passwords]

\* The entry at wifi_next, if there is one, is the one that goes.
LEMMA RestFacts ==
    ASSUME NEW r, Sound(r)
    PROVE  /\ Rest(r) \in Seq(Entries)
           /\ ~Full(r) => /\ Len(Rest(r)) = r.next
                          /\ \A i \in 1..r.next : Rest(r)[i] = Entry(r.ssid[i - 1], r.pass[i - 1])
           /\ Full(r) => /\ Len(Rest(r)) = Capacity - 1
                         /\ \A i \in 1..(Capacity - 1) :
                              Rest(r)[i] = IF i < Capacity - r.next
                                           THEN Entry(r.ssid[r.next + i], r.pass[r.next + i])
                                           ELSE Entry(r.ssid[i - (Capacity - r.next)],
                                                      r.pass[i - (Capacity - r.next)])
<1> USE CapacityAssumption
<1> DEFINE Q == Queue(r)
<1>1. r.next \in Slot /\ r.next \in Nat /\ r.next < Capacity /\ Capacity \in Nat \ {0}
  BY DEF Sound, Rings, Slot
<1>2. /\ Q \in Seq(Entries) /\ Len(Q) = Size(r)
      /\ \A i \in 1..Size(r) : Q[i] = Entry(r.ssid[Place(r, i)], r.pass[Place(r, i)])
  BY QueueFacts DEF Entries
<1>3. ASSUME Q # <<>>
      PROVE  /\ Tail(Q) \in Seq(Entries) /\ Len(Tail(Q)) = Size(r) - 1
             /\ \A i \in 1..(Size(r) - 1) : Tail(Q)[i] = Q[i + 1]
  BY <1>2, <1>3, HeadTailProperties
<1>4. CASE Full(r)
  <2>1. Heads(r) = Capacity - r.next /\ Size(r) = Capacity
    BY <1>4, HeadsFacts
  <2>2. Rest(r) = Tail(Q) /\ Q # <<>>
    BY <1>1, <1>2, <2>1 DEF Rest
  <2>3. \A i \in 1..(Capacity - 1) : i + 1 \in 1..Size(r) /\ Rest(r)[i] = Q[i + 1]
    BY <1>1, <1>3, <2>1, <2>2
  <2>4. \A i \in 1..(Capacity - 1) :
          Place(r, i + 1) = IF i < Capacity - r.next THEN r.next + i ELSE i - (Capacity - r.next)
    BY <1>1, <2>1 DEF Place
  <2> QED
    BY <1>2, <1>3, <1>4, <2>1, <2>2, <2>3, <2>4
<1>5. CASE ~Full(r) /\ r.ssid[r.next] = NoName
  <2>1. Heads(r) = 0 /\ Size(r) = r.next /\ Size(r) < Capacity
    BY <1>1, <1>5, HeadsFacts DEF Size
  <2>2. Rest(r) = Q
    BY <1>1, <1>2, <1>5, <2>1 DEF Rest, Torn
  <2>3. \A i \in 1..r.next : Place(r, i) = i - 1
    BY <1>1, <2>1 DEF Place
  <2> QED
    BY <1>2, <1>5, <2>1, <2>2, <2>3
<1>6. CASE ~Full(r) /\ r.ssid[r.next] # NoName
  <2>1. Heads(r) = 1 /\ Size(r) = r.next + 1 /\ Size(r) < Capacity
    BY <1>1, <1>6, HeadsFacts DEF Size
  <2>2. Rest(r) = Tail(Q) /\ Q # <<>>
    BY <1>1, <1>2, <1>6, <2>1 DEF Rest, Torn
  <2>3. \A i \in 1..r.next : i + 1 \in 1..Size(r) /\ Rest(r)[i] = Q[i + 1]
    BY <1>1, <1>3, <2>1, <2>2
  <2>4. \A i \in 1..r.next : Place(r, i + 1) = i - 1
    BY <1>1, <2>1 DEF Place
  <2>5. Rest(r) \in Seq(Entries) /\ Len(Rest(r)) = r.next
    BY <1>1, <1>3, <2>1, <2>2
  <2> QED
    BY <1>2, <1>6, <2>3, <2>4, <2>5
<1> QED
  BY <1>4, <1>5, <1>6

\* The name and the password of a new network are written over the slot at
\* wifi_next: a reset before the index is written leaves it first, to go next.
LEMMA WrittenQueue ==
    ASSUME NEW r, Sound(r), NEW s \in Networks, Absent(r, s), NEW p \in Passwords
    PROVE  /\ Sound(Written(r, s, p))
           /\ Queue(Written(r, s, p)) = <<Entry(s, p)>> \o Rest(r)
           /\ Torn(Written(r, s, p)) = (Len(Queue(Written(r, s, p))) < Capacity)
<1> USE CapacityAssumption
<1> DEFINE w == Written(r, s, p)
<1>1. r.next \in Slot /\ r.next \in Nat /\ r.next < Capacity /\ Capacity \in Nat \ {0}
  BY DEF Sound, Rings, Slot
<1>2. /\ w.next = r.next /\ s # NoName
      /\ \A k \in Slot : w.ssid[k] = (IF k = r.next THEN s ELSE r.ssid[k])
                        /\ w.pass[k] = (IF k = r.next THEN p ELSE r.pass[k])
  BY NameAssumption DEF Written, Sound, Rings
<1>3. Sound(w)
  <2>1. w \in Rings
    BY DEF Written, Sound, Rings
  <2>2. Packed(w)
    BY <1>1, <1>2 DEF Sound, Packed, Full
  <2>3. Distinct(w)
    BY <1>2 DEF Sound, Distinct, Absent
  <2> QED
    BY <2>1, <2>2, <2>3 DEF Sound
<1>4. /\ Queue(w) \in Seq(Entries) /\ Len(Queue(w)) = Size(w)
      /\ \A i \in 1..Size(w) : Queue(w)[i] = Entry(w.ssid[Place(w, i)], w.pass[Place(w, i)])
  BY <1>3, QueueFacts DEF Entries
<1> DEFINE Q == <<Entry(s, p)>> \o Rest(r)
<1>5. /\ Q \in Seq(Entries) /\ Len(Q) = Len(Rest(r)) + 1 /\ Q[1] = Entry(s, p)
      /\ \A i \in 2..(Len(Rest(r)) + 1) : Q[i] = Rest(r)[i - 1]
  <2>1. <<Entry(s, p)>> \in Seq(Entries) /\ Len(<<Entry(s, p)>>) = 1
        /\ <<Entry(s, p)>>[1] = Entry(s, p)
    BY DEF Entries, Entry
  <2>2. Rest(r) \in Seq(Entries) /\ Len(Rest(r)) \in Nat
    BY RestFacts, LenProperties
  <2> QED
    BY <2>1, <2>2, ConcatProperties
<1>6. CASE Full(r)
  <2>1. Full(w)
    BY <1>2, <1>6 DEF Full
  <2>2. Heads(w) = Capacity - r.next /\ Size(w) = Capacity
    BY <1>2, <1>3, <2>1, HeadsFacts
  <2>3. Place(w, 1) = r.next
    BY <1>1, <1>2, <2>2 DEF Place
  <2>4. \A i \in 2..Capacity : /\ i - 1 \in 1..(Capacity - 1)
                              /\ Place(w, i) # r.next
                              /\ Place(w, i) = IF i - 1 < Capacity - r.next THEN r.next + (i - 1)
                                                ELSE (i - 1) - (Capacity - r.next)
    BY <1>1, <1>2, <2>2 DEF Place
  <2>5. \A i \in 2..Capacity : Queue(w)[i] = Q[i]
    <3> SUFFICES ASSUME NEW i \in 2..Capacity PROVE Queue(w)[i] = Q[i]
      OBVIOUS
    <3>1. Place(w, i) \in Slot /\ i \in 1..Size(w)
      BY <1>1, <1>3, <2>2, PlaceFacts
    <3>2. Queue(w)[i] = Entry(r.ssid[Place(w, i)], r.pass[Place(w, i)])
      BY <1>2, <1>4, <2>4, <3>1
    <3>3. Q[i] = Rest(r)[i - 1]
      BY <1>5, <1>6, RestFacts, <1>1
    <3> QED
      BY <1>1, <1>6, <2>4, <3>2, <3>3, RestFacts
  <2>6. Len(Queue(w)) = Len(Q)
    BY <1>1, <1>4, <1>5, <1>6, <2>2, RestFacts
  <2>7. Queue(w)[1] = Q[1]
    BY <1>1, <1>2, <1>4, <1>5, <2>2, <2>3
  <2>8. Queue(w) = Q
    BY <1>1, <1>4, <1>5, <2>2, <2>5, <2>6, <2>7, SeqEqual
  <2> QED
    BY <1>3, <1>2, <1>1, <2>8 DEF Torn
<1>7. CASE ~Full(r)
  <2>1. Heads(w) = 1 /\ Size(w) = r.next + 1
    <3>1. CASE Full(w)
      <4>1. \A k \in Slot : k # r.next => r.ssid[k] # NoName
        BY <1>2, <3>1 DEF Full
      <4>2. r.ssid[r.next] = NoName
        BY <1>7, <4>1 DEF Full
      <4>3. \A k \in Slot : ~(k > r.next)
        BY <1>7, <4>1, <1>1 DEF Sound, Packed, Slot
      <4>4. r.next = Capacity - 1
        BY <1>1, <4>3 DEF Slot
      <4> QED
        BY <1>1, <1>2, <1>3, <3>1, <4>4, HeadsFacts
    <3>2. CASE ~Full(w)
      BY <1>1, <1>2, <1>3, <3>2, HeadsFacts DEF Size
    <3> QED
      BY <3>1, <3>2
  <2>2. Place(w, 1) = r.next /\ \A i \in 2..(r.next + 1) : Place(w, i) = i - 2
    BY <1>1, <1>2, <2>1 DEF Place
  <2>3. \A i \in 2..(r.next + 1) : Queue(w)[i] = Q[i]
    <3> SUFFICES ASSUME NEW i \in 2..(r.next + 1) PROVE Queue(w)[i] = Q[i]
      OBVIOUS
    <3>1. Place(w, i) \in Slot /\ Place(w, i) # r.next /\ i \in 1..Size(w)
      BY <1>1, <2>1, <2>2 DEF Slot
    <3>2. Queue(w)[i] = Entry(r.ssid[i - 2], r.pass[i - 2])
      BY <1>2, <1>4, <2>2, <3>1
    <3>3. i - 1 \in 1..r.next /\ (i - 1) - 1 = i - 2
      BY <1>1
    <3>4. Q[i] = Rest(r)[i - 1]
      BY <1>5, <1>7, RestFacts, <1>1
    <3> QED
      BY <1>7, <3>2, <3>3, <3>4, RestFacts
  <2>4. Len(Queue(w)) = Len(Q)
    BY <1>1, <1>4, <1>5, <1>7, <2>1, RestFacts
  <2>5. Queue(w)[1] = Q[1]
    BY <1>1, <1>2, <1>4, <1>5, <2>1, <2>2
  <2>6. \A i \in 1..Len(Q) : i = 1 \/ i \in 2..(r.next + 1)
    BY <1>1, <1>4, <2>1, <2>4
  <2>7. Queue(w) = Q
    BY <1>4, <1>5, <2>3, <2>4, <2>5, <2>6, SeqEqual
  <2> QED
    BY <1>3, <1>2, <1>1, <2>7 DEF Torn
<1> QED
  BY <1>6, <1>7

\* The ring once the index is written as well.
Advanced(r, s, p) == [Written(r, s, p) EXCEPT !.next = (r.next + 1) % Capacity]

\* Then the new network is the last of the queue, and nothing is torn.
LEMMA AdvancedQueue ==
    ASSUME NEW r, Sound(r), NEW s \in Networks, Absent(r, s), NEW p \in Passwords
    PROVE  /\ Sound(Advanced(r, s, p))
           /\ Queue(Advanced(r, s, p)) = Append(Rest(r), Entry(s, p))
           /\ Torn(Advanced(r, s, p)) = FALSE
<1> USE CapacityAssumption
<1> DEFINE v == Advanced(r, s, p)
<1>1. r.next \in Slot /\ r.next \in Nat /\ r.next < Capacity /\ Capacity \in Nat \ {0}
  BY DEF Sound, Rings, Slot
<1>2. /\ v.next = (IF r.next + 1 = Capacity THEN 0 ELSE r.next + 1) /\ s # NoName
      /\ \A k \in Slot : v.ssid[k] = (IF k = r.next THEN s ELSE r.ssid[k])
                        /\ v.pass[k] = (IF k = r.next THEN p ELSE r.pass[k])
  BY <1>1, FollowingIs, NameAssumption DEF Advanced, Written, Sound, Rings
<1>3. Sound(v)
  <2>1. v.next \in Slot
    BY <1>1, <1>2 DEF Slot
  <2>2. v \in Rings
    BY <1>1, <1>2, <2>1, FollowingIs DEF Advanced, Written, Sound, Rings
  <2>3. Packed(v)
    <3>1. \A k \in Slot : k < v.next => v.ssid[k] # NoName
      BY <1>1, <1>2 DEF Sound, Packed, Full, Slot
    <3>2. Full(v) \/ \A k \in Slot : k > v.next => v.ssid[k] = NoName
      BY <1>1, <1>2 DEF Sound, Packed, Full, Slot
    <3> QED
      BY <3>1, <3>2 DEF Packed
  <2>4. Distinct(v)
    BY <1>2 DEF Sound, Distinct, Absent
  <2> QED
    BY <2>2, <2>3, <2>4 DEF Sound
<1>4. /\ Queue(v) \in Seq(Entries) /\ Len(Queue(v)) = Size(v)
      /\ \A i \in 1..Size(v) : Queue(v)[i] = Entry(v.ssid[Place(v, i)], v.pass[Place(v, i)])
  BY <1>3, QueueFacts DEF Entries
<1> DEFINE Q == Append(Rest(r), Entry(s, p))
<1>5. /\ Q \in Seq(Entries) /\ Len(Q) = Len(Rest(r)) + 1 /\ Len(Rest(r)) \in Nat
      /\ Q[Len(Rest(r)) + 1] = Entry(s, p)
      /\ \A i \in 1..Len(Rest(r)) : Q[i] = Rest(r)[i]
  <2>1. Entry(s, p) \in Entries
    BY DEF Entries, Entry
  <2>2. Rest(r) \in Seq(Entries) /\ Len(Rest(r)) \in Nat
    BY RestFacts, LenProperties
  <2> QED
    BY <2>1, <2>2, AppendProperties
<1>6. CASE Full(r)
  <2>1. Full(v)
    BY <1>2, <1>6 DEF Full
  <2>2. Heads(v) = Capacity - v.next /\ Size(v) = Capacity
    BY <1>3, <2>1, HeadsFacts
  <2>3. Place(v, Capacity) = r.next
    BY <1>1, <1>2, <2>2 DEF Place
  <2>4. \A i \in 1..(Capacity - 1) :
          /\ Place(v, i) # r.next
          /\ Place(v, i) = IF i < Capacity - r.next THEN r.next + i ELSE i - (Capacity - r.next)
    BY <1>1, <1>2, <2>2 DEF Place
  <2>5. Len(Rest(r)) = Capacity - 1
    BY <1>6, RestFacts
  <2>6. \A i \in 1..(Capacity - 1) : Queue(v)[i] = Q[i]
    <3> SUFFICES ASSUME NEW i \in 1..(Capacity - 1) PROVE Queue(v)[i] = Q[i]
      OBVIOUS
    <3>1. Place(v, i) \in Slot /\ i \in 1..Size(v)
      BY <1>1, <1>3, <2>2, PlaceFacts
    <3>2. Queue(v)[i] = Entry(r.ssid[Place(v, i)], r.pass[Place(v, i)])
      BY <1>2, <1>4, <2>4, <3>1
    <3>3. Q[i] = Rest(r)[i]
      BY <1>5, <2>5
    <3> QED
      BY <1>6, <2>4, <3>2, <3>3, RestFacts
  <2>7. Queue(v)[Capacity] = Q[Capacity]
    BY <1>1, <1>2, <1>4, <1>5, <2>2, <2>3, <2>5
  <2>8. Len(Queue(v)) = Len(Q) /\ \A i \in 1..Len(Q) : i = Capacity \/ i \in 1..(Capacity - 1)
    BY <1>1, <1>4, <1>5, <2>2, <2>5
  <2>9. Queue(v) = Q
    BY <1>4, <1>5, <2>6, <2>7, <2>8, SeqEqual
  <2> QED
    BY <1>1, <1>3, <1>4, <2>2, <2>9 DEF Torn
<1>7. CASE ~Full(r)
  <2>1. /\ Size(v) = r.next + 1 /\ (v.next = 0 => Heads(v) = Capacity)
        /\ (v.next # 0 => Heads(v) = 0) /\ Torn(v) = FALSE
    <3>1. CASE r.next + 1 = Capacity
      <4>1. Full(v)
        BY <1>1, <1>2, <3>1 DEF Sound, Packed, Full, Slot
      <4> QED
        BY <1>1, <1>2, <1>3, <1>4, <3>1, <4>1, HeadsFacts DEF Torn
    <3>2. CASE r.next + 1 # Capacity
      <4>1. v.next = r.next + 1 /\ v.next \in Slot
        BY <1>1, <1>2, <3>2 DEF Slot
      <4>2. v.ssid[v.next] = NoName
        BY <1>1, <1>2, <1>7, <4>1 DEF Sound, Packed
      <4>3. ~Full(v)
        BY <4>1, <4>2 DEF Full
      <4> QED
        BY <1>1, <1>3, <4>1, <4>2, <4>3, HeadsFacts DEF Size, Torn
    <3> QED
      BY <3>1, <3>2
  <2>2. \A i \in 1..(r.next + 1) : Place(v, i) = i - 1
    BY <1>1, <1>2, <2>1 DEF Place
  <2>3. Len(Rest(r)) = r.next
    BY <1>7, RestFacts
  <2>4. \A i \in 1..r.next : Queue(v)[i] = Q[i]
    <3> SUFFICES ASSUME NEW i \in 1..r.next PROVE Queue(v)[i] = Q[i]
      OBVIOUS
    <3>1. i - 1 \in Slot /\ i - 1 # r.next /\ i \in 1..Size(v)
      BY <1>1, <2>1 DEF Slot
    <3>2. Queue(v)[i] = Entry(r.ssid[i - 1], r.pass[i - 1])
      BY <1>2, <1>4, <2>1, <2>2, <3>1
    <3>3. Q[i] = Rest(r)[i]
      BY <1>5, <2>3
    <3> QED
      BY <1>7, <3>2, <3>3, RestFacts
  <2>5. Queue(v)[r.next + 1] = Q[r.next + 1]
    <3>1. r.next + 1 \in 1..Size(v) /\ Place(v, r.next + 1) = r.next
      BY <1>1, <2>1, <2>2
    <3>2. Queue(v)[r.next + 1] = Entry(s, p)
      BY <1>1, <1>2, <1>4, <3>1
    <3> QED
      BY <1>5, <2>3, <3>2
  <2>6. Len(Queue(v)) = Len(Q) /\ \A i \in 1..Len(Q) : i = r.next + 1 \/ i \in 1..r.next
    BY <1>1, <1>4, <1>5, <2>1, <2>3
  <2>7. Queue(v) = Q
    BY <1>4, <1>5, <2>4, <2>5, <2>6, SeqEqual
  <2> QED
    BY <1>3, <2>1, <2>7
<1> QED
  BY <1>6, <1>7

-----------------------------------------------------------------------------
(* The readers' view of the ring.                                          *)

\* The ring when a save began to write, as long as it writes.
BeforeOK ==
    saver \in {"pass", "next"} =>
        /\ before.next = next /\ Absent(before, new.ssid)
        /\ ssid = [before.ssid EXCEPT ![next] = new.ssid]
        /\ saver = "pass" => pass = before.pass
        /\ saver = "next" => pass = [before.pass EXCEPT ![next] = new.pass]

\* The whole inductive invariant: what readers see is sound at every step.
QueueInv == IInv /\ BeforeOK /\ Sound(Visible)

\* Every step keeps what the ring was before a save.
LEMMA BeforeStep == IInv /\ BeforeOK /\ [Next]_vars => BeforeOK'
<1> SUFFICES ASSUME IInv /\ BeforeOK, [Next]_vars PROVE BeforeOK'
  OBVIOUS
<1> USE CapacityAssumption
<1> USE DEF IInv, TypeOK, BeforeOK, SaveStep, ring, save, radio, tries, history
<1>1. CASE Find
  BY <1>1 DEF Find, SlotsOfNew
<1>2. CASE UpdatePass
  BY <1>2 DEF UpdatePass, SlotsOfNew, Finish
<1>3. CASE WriteName
  <2>1. before' = Ring /\ saver' = "pass" /\ ssid' = [ssid EXCEPT ![next] = new.ssid]
        /\ UNCHANGED <<pass, next, new>>
    BY <1>3 DEF WriteName
  <2>2. Absent(Ring, new.ssid)
    BY <1>3 DEF WriteName, SaverOK, Absent, Ring
  <2>3. before'.ssid = ssid /\ before'.pass = pass /\ before'.next = next
        /\ Absent(before', new.ssid)
    BY <2>1, <2>2 DEF Ring
  <2> QED
    BY <2>1, <2>3 DEF Absent
<1>4. CASE WritePass
  <2>1. saver' = "next" /\ pass' = [pass EXCEPT ![next] = new.pass]
        /\ UNCHANGED <<ssid, next, before, new>>
    BY <1>4 DEF WritePass
  <2>2. saver = "pass"
    BY <1>4 DEF WritePass
  <2> QED
    BY <2>1, <2>2 DEF Absent
<1>5. CASE WriteNext
  BY <1>5 DEF WriteNext, Finish
<1>6. CASE SaveReturns
  BY <1>6 DEF SaveReturns, Nothing, Entry
<1>7. CASE StartTrial
  BY <1>7 DEF StartTrial
<1>8. CASE TryNext
  BY <1>8 DEF TryNext, SetSta
<1>9. CASE Connected
  BY <1>9 DEF Connected, EndTrial
<1>10. CASE Failed
  BY <1>10 DEF Failed, EndTrial
<1>11. CASE Join
  BY <1>11 DEF Join
<1>12. CASE GotIp
  BY <1>12 DEF GotIp
<1>13. CASE Lose
  BY <1>13 DEF Lose
<1>14. CASE Move
  BY <1>14 DEF Move
<1>15. CASE WaitEnds
  BY <1>15 DEF WaitEnds, SaverOK, Nothing, Entry
<1>16. CASE Reset
  BY <1>16 DEF Reset, Nothing, Entry
<1>17. ASSUME NEW s \in Networks, NEW p \in Passwords, ConnectByHand(s, p) PROVE BeforeOK'
  BY <1>17 DEF ConnectByHand, SaverOK, SetSta, Entry
<1>18. CASE UNCHANGED vars
  BY <1>18 DEF vars
<1> QED
  BY <1>1, <1>2, <1>3, <1>4, <1>5, <1>6, <1>7, <1>8, <1>9, <1>10, <1>11, <1>12, <1>13,
     <1>14, <1>15, <1>16, <1>17, <1>18
  DEF Next, Save, Tries

\* The queue of the next ring is the next queue.
LEMMA ViewPrimed == Queue(Visible)' = Queue(Visible')
  BY DEF Queue, Heads, Place
\* Whether the next ring is torn is whether it is torn next.
LEMMA TornPrimed == Torn(Visible)' = Torn(Visible')
  BY ViewPrimed DEF Torn
\* And likewise whether it is sound.
LEMMA SoundPrimed == Sound(Visible)' <=> Sound(Visible')
  BY DEF Sound, Rings, Packed, Full, Distinct

\* A step that writes nothing readers see is no step of the queue.
LEMMA SameView ==
    ASSUME Sound(Visible), Visible' = Visible, resets' = resets
    PROVE  Sound(Visible)' /\ [Store!Next]_<<Queue(Visible), Torn(Visible), resets>>
<1>1. Queue(Visible)' = Queue(Visible)
  BY DEF Queue, Heads, Place
<1>2. Torn(Visible)' = Torn(Visible)
  BY <1>1 DEF Torn
<1>3. Sound(Visible)'
  BY DEF Sound, Rings, Packed, Full, Distinct
<1> QED
  BY <1>1, <1>2, <1>3


\* The variables of the queue.
view == <<Queue(Visible), Torn(Visible), resets>>

\* What a step does to the ring that readers see is a step of the queue.
LEMMA QueueStep ==
    QueueInv /\ [Next]_vars => Sound(Visible)' /\ [Store!Next]_view
<1> SUFFICES ASSUME QueueInv, [Next]_vars PROVE Sound(Visible)' /\ [Store!Next]_view
  OBVIOUS
<1> USE CapacityAssumption
<1> USE DEF QueueInv, IInv, TypeOK, SaveStep, ring, save, radio, tries, history
<1>1. ASSUME Ring' = Ring, resets' = resets, saver \notin {"pass", "next"},
             saver' \notin {"pass", "next"}
      PROVE  Sound(Visible)' /\ [Store!Next]_view
  <2>1. Visible' = Visible
    BY <1>1 DEF Visible
  <2> QED
    BY <1>1, <2>1, SameView DEF view
<1>2. CASE Find
  BY <1>1, <1>2 DEF Find, Ring
<1>3. CASE UpdatePass
  <2>1. PICK j \in Slot : ssid[j] = new.ssid /\ pass' = [pass EXCEPT ![j] = new.pass]
    BY <1>3 DEF UpdatePass, SlotsOfNew
  <2>2. /\ Visible = Ring /\ Visible' = Ring' /\ Ring.ssid[j] = new.ssid
        /\ Ring' = Corrected(Ring, j, new.pass) /\ Sound(Ring)
    BY <1>3, <2>1 DEF UpdatePass, Visible, Ring, Corrected
  <2>3. new.ssid \in Networks /\ new.pass \in Passwords
    BY <1>3 DEF UpdatePass, SaverOK
  <2>4. /\ Sound(Ring')
        /\ Queue(Ring') = [i \in DOMAIN Queue(Ring) |->
                             IF Queue(Ring)[i].ssid = new.ssid
                             THEN [Queue(Ring)[i] EXCEPT !.pass = new.pass]
                             ELSE Queue(Ring)[i]]
        /\ Torn(Ring') = Torn(Ring)
    BY <2>1, <2>2, <2>3, UpdateQueue
  <2>5. \E i \in DOMAIN Queue(Ring) : Queue(Ring)[i].ssid = new.ssid
    BY <2>2, <2>3, KnownIff DEF Absent
  <2>6. Store!Update(new.ssid, new.pass)
    <3>1. resets' = resets
      BY <1>3 DEF UpdatePass
    <3> QED
      BY <2>2, <2>4, <2>5, <3>1, ViewPrimed, TornPrimed DEF Store!Update, Store!Known
  <2> QED
    BY <2>2, <2>3, <2>4, <2>6, SoundPrimed DEF Store!Next
<1>4. CASE WriteName
  <2>1. Visible' = Visible /\ resets' = resets
    BY <1>4 DEF WriteName, Visible
  <2> QED
    BY <2>1, SameView DEF view
<1>5. CASE WritePass
  <2>1. Visible' = Visible /\ resets' = resets
    BY <1>5 DEF WritePass, Visible
  <2> QED
    BY <2>1, SameView DEF view
<1>6. CASE WriteNext
  <2>1. /\ Visible = before /\ Visible' = Ring' /\ new.ssid \in Networks
        /\ new.pass \in Passwords /\ Absent(before, new.ssid)
    BY <1>6 DEF WriteNext, Visible, SaverOK, BeforeOK
  <2>2. Ring' = Advanced(before, new.ssid, new.pass)
    BY <1>6 DEF WriteNext, Ring, Following, Advanced, Written, BeforeOK
  <2>3. /\ Sound(Ring') /\ Torn(Ring') = FALSE
        /\ Queue(Ring') = Append(Rest(before), Entry(new.ssid, new.pass))
    BY <2>1, <2>2, AdvancedQueue
  <2>4. Store!Add(new.ssid, new.pass)
    <3>1. resets' = resets
      BY <1>6 DEF WriteNext
    <3>2. ~ \E i \in DOMAIN Queue(before) : Queue(before)[i].ssid = new.ssid
      BY <2>1, KnownIff
    <3> QED
      BY <2>1, <2>3, <3>1, <3>2, ViewPrimed, TornPrimed
      DEF Store!Add, Store!Known, Rest, Entry
  <2> QED
    BY <2>1, <2>3, <2>4, SoundPrimed DEF Store!Next
<1>7. CASE SaveReturns
  BY <1>1, <1>7 DEF SaveReturns, Ring
<1>8. CASE Reset
  <2>1. Ring' = Ring /\ Visible' = Ring /\ resets' = resets + 1
    BY <1>8 DEF Reset, Ring, Visible
  <2>2. CASE saver \in {"pass", "next"}
    <3>1. /\ Visible = before /\ new.ssid \in Networks /\ Absent(before, new.ssid)
          /\ pass[next] \in Passwords
      BY <2>2 DEF Visible, SaverOK, BeforeOK
    <3>2. Ring = Written(before, new.ssid, pass[next])
      BY <2>2 DEF Ring, Written, BeforeOK
    <3>3. /\ Sound(Ring) /\ Torn(Ring) = (Len(Queue(Ring)) < Capacity)
          /\ Queue(Ring) = <<Entry(new.ssid, pass[next])>> \o Rest(before)
      BY <3>1, <3>2, WrittenQueue
    <3>4. ~ \E i \in DOMAIN Queue(before) : Queue(before)[i].ssid = new.ssid
      BY <3>1, KnownIff
    <3>5. Store!Tear(new.ssid, pass[next])
      BY <2>1, <3>1, <3>3, <3>4, ViewPrimed, TornPrimed
      DEF Store!Tear, Store!Known, Rest, Entry
    <3> QED
      BY <2>1, <3>1, <3>3, <3>5, SoundPrimed DEF Store!Next
  <2>3. CASE saver \notin {"pass", "next"}
    <3>1. Visible = Ring
      BY <2>3 DEF Visible
    <3>2. Store!Reset
      BY <2>1, <3>1, ViewPrimed, TornPrimed DEF Store!Reset
    <3> QED
      BY <2>1, <3>1, <3>2, SoundPrimed DEF Store!Next
  <2> QED
    BY <2>2, <2>3
<1>9. CASE Tries \/ Join \/ GotIp \/ Lose \/ Move \/ UNCHANGED vars
  <2>1. Visible' = Visible /\ resets' = resets
    BY <1>9 DEF Tries, StartTrial, TryNext, Connected, Failed, EndTrial, Join, GotIp, Lose,
       Move, SetSta, vars, Visible, Ring
  <2> QED
    BY <2>1, SameView DEF view
<1>10. CASE WaitEnds
  BY <1>1, <1>10 DEF WaitEnds, Ring, SaverOK
<1>11. ASSUME NEW s \in Networks, NEW p \in Passwords, ConnectByHand(s, p)
       PROVE  Sound(Visible)' /\ [Store!Next]_view
  BY <1>1, <1>11 DEF ConnectByHand, SetSta, Ring, SaverOK
<1> QED
  BY <1>2, <1>3, <1>4, <1>5, <1>6, <1>7, <1>8, <1>9, <1>10, <1>11 DEF Next, Save


-----------------------------------------------------------------------------
(* The theorems.                                                           *)

\* The ring of a new device is sound, and it is the empty queue.
LEMMA InitInv == Init => QueueInv /\ Store!Init
<1> SUFFICES ASSUME Init PROVE QueueInv /\ Store!Init
  OBVIOUS
<1> USE CapacityAssumption, PasswordAssumption, NameAssumption, BoundAssumption
<1>1. 0 \in Slot
  BY DEF Slot
<1>2. IInv
  BY <1>1 DEF Init, IInv, TypeOK, Unique, WaitOK, SaverOK, SlotsOK, SoundSlot, Nothing, Entry
<1>3. BeforeOK
  BY DEF Init, BeforeOK
<1>4. Visible = Ring /\ Ring.next = 0 /\ \A k \in Slot : Ring.ssid[k] = NoName
  BY DEF Init, Visible, Ring
<1>5. Sound(Ring)
  <2>1. Ring \in Rings
    BY <1>1 DEF Init, Ring, Rings
  <2> QED
    BY <1>4, <2>1 DEF Sound, Packed, Distinct, Slot
<1>6. Size(Ring) = 0 /\ Ring.ssid[Ring.next] = NoName
  BY <1>1, <1>4 DEF Size, Heads
<1>7. Queue(Ring) = <<>> /\ Torn(Ring) = FALSE
  BY <1>5, <1>6, QueueFacts DEF Torn
<1> QED
  BY <1>2, <1>3, <1>4, <1>5, <1>7 DEF QueueInv, Store!Init, Init

\* Every step keeps the invariant of the ring and of the queue.
LEMMA InvStep == QueueInv /\ [Next]_vars => QueueInv'
  BY TypeStep, UniqueStep, WaitStep, SaverStep, SlotsStep, BeforeStep, QueueStep
  DEF QueueInv, IInv

\* The invariant holds in every state of every behaviour.
LEMMA Invariance == Spec => []QueueInv
<1>1. Init => QueueInv
  BY InitInv
<1> QED
  BY <1>1, InvStep, PTL DEF Spec

\* The types of the variables, whatever the steps of save_wifi_credential,
\* set_wifi_info and wifi_connect_saved_any and whatever the resets.
THEOREM TypeCorrect == Spec => []TypeOK
<1>1. QueueInv => TypeOK
  BY DEF QueueInv, IInv
<1> QED
  BY <1>1, Invariance, PTL

\* save_wifi_credential stores no network twice, wherever a reset cuts it short.
THEOREM NoTwins == Spec => []Unique
<1>1. QueueInv => Unique
  BY DEF QueueInv, IInv
<1> QED
  BY <1>1, Invariance, PTL

\* A stored password has opened its network, unless a reset cut the save short or
\* another connection came into the wait of set_wifi_info.
THEOREM SavedHaveWorked == Spec => []SavedWorked
<1>1. QueueInv => SavedWorked
  BY DEF QueueInv, IInv, TypeOK, SaverOK, SlotsOK, SoundSlot, SavedWorked, Good, Entry
<1> QED
  BY <1>1, Invariance, PTL

\* The ring of slots in NVS, written key by key, is the queue of CredentialStore: every
\* step of a save, of the pass over the networks and every reset is a step of the
\* queue or invisible in it.
THEOREM Refinement == Spec => IsQueue
<1>1. Init => Store!Init
  BY InitInv
<1>2. QueueInv /\ [Next]_vars => [Store!Next]_view
  BY QueueStep
<1> QED
  BY <1>1, <1>2, Invariance, PTL DEF Spec, IsQueue, Store!Spec, view
=============================================================================
