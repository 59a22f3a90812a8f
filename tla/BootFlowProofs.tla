--------------------------- MODULE BootFlowProofs ---------------------------
(***************************************************************************)
(* Type correctness of BootFlow, and that an update writes its blocks in   *)
(* order, is booted, and leaves the image that was confirmed last to go    *)
(* back to: for any number of releases, blocks, retries, attempts, updates *)
(* and resets.                                                             *)
(*                                                                         *)
(* The argument: the two entries of otadata are ordered by their sequence  *)
(* numbers, and as long as only whole images were selected the newest      *)
(* valid one names the image confirmed last.  An entry that is new or      *)
(* pending is newer than that one, a download starts only when there is    *)
(* none, and it writes to the slot and to the entry that are not in use.   *)
(***************************************************************************)
EXTENDS BootFlow, TLAPS

Updating == {"get", "read", "end", "erase", "write", "restart"}

\* Blocks are written in order, each behind the last one.
DownloadOK ==
    /\ InOrder
    /\ ota \in {"get", "read"} => Len(image[target]) = offset /\ offset < Units
    /\ ota = "read" => range.at = offset /\ offset < range.end

\* A download goes to the slot that is not running, and the running one is confirmed.
UpdateOK == ota \in Updating => target = NextSlot /\ ~Pending

MarkOK == validator = "mark" => Pending

\* Only a whole image is selected, or it is on record.
WholeOK == ota \in {"erase", "write", "restart"} => badSwitch \/ Whole(image[target])

Live(i)  == otadata[i].state \in {"new", "pending", "valid"}
Valid(i) == otadata[i].state = "valid"

\* Before the restart the newest entry is the target's.
RestartOK == ota = "restart" =>
    \E j \in Entry : /\ otadata[j].state \in {"new", "valid"} /\ SlotOf(otadata[j].seq) = target
                     /\ \A i \in Entry : Live(i) => otadata[i].seq <= otadata[j].seq

\* What the two entries of otadata tell, as long as only whole images were selected.
NewestOK == \A i, j \in Entry : i # j /\ Live(i) /\ Live(j) =>
    /\ otadata[i].seq # otadata[j].seq /\ (Valid(i) \/ Valid(j))
    /\ otadata[j].seq < otadata[i].seq => Valid(j)
ConfirmedOK ==
    /\ Whole(image[confirmed])
    /\ \A i \in Entry :
        Valid(i) /\ (\A j \in Entry : Valid(j) => otadata[j].seq <= otadata[i].seq) =>
            SlotOf(otadata[i].seq) = confirmed
    /\ (\A i \in Entry : ~Valid(i)) => confirmed = "factory"
TrialOK == \A i \in Entry :
    /\ otadata[i].state = "new" => ota = "restart" /\ SlotOf(otadata[i].seq) = target
    /\ otadata[i].state = "pending" =>
        SlotOf(otadata[i].seq) = running /\ Whole(image[running]) /\ ota \notin Updating
RunningOK == (\A i \in Entry : otadata[i].state # "pending") => running = confirmed
EntriesOK == ~badSwitch => NewestOK /\ ConfirmedOK /\ TrialOK /\ RunningOK

FactoryOK == image["factory"] = ImageOf(0)

\* An update is counted before it is written.
BoundOK == ota \in {"head", "begin", "get", "read", "end"} => updates < MaxUpdates

FlashInv == FactoryOK /\ DownloadOK /\ UpdateOK /\ MarkOK /\ WholeOK /\ RestartOK /\ EntriesOK
IInv == TypeOK /\ BoundOK /\ FlashInv

-----------------------------------------------------------------------------
(* The bootloader's choice.                                                *)

Entries == [Entry -> [seq : Nat, state : EntryStates]]
Keys    == [user : BOOLEAN, setup : BOOLEAN, off : BOOLEAN, auto : BOOLEAN, known : BOOLEAN]

\* The smaller of two numbers.
LEMMA MinOfTwo ==
    ASSUME NEW a \in Nat, NEW b \in Nat PROVE Min({a, b}) = IF a <= b THEN a ELSE b
  BY DEF Min

\* Active is the entry with the largest number of those that can be used.
LEMMA ActiveFacts ==
    ASSUME NEW es \in Entries
    PROVE  /\ Active(es) = -1 => \A i \in Entry : es[i].state \in {"erased", "aborted"}
           /\ Active(es) # -1 =>
                /\ Active(es) \in Entry /\ es[Active(es)].state \notin {"erased", "aborted"}
                /\ \A i \in Entry : es[i].state \notin {"erased", "aborted"} =>
                     es[i].seq <= es[Active(es)].seq
<1> DEFINE usable == {i \in Entry : es[i].state \notin {"erased", "aborted"}}
           newest == {i \in usable : \A j \in usable : es[j].seq <= es[i].seq}
<1>1. Active(es) = IF usable = {} THEN -1 ELSE Min(newest)
  BY DEF Active
<1>2. es[0].seq \in Nat /\ es[1].seq \in Nat
  BY DEF Entries, Entry
<1>3. CASE usable = {}
  BY <1>1, <1>3
<1>4. CASE usable # {}
  <2>1. newest # {} /\ newest \subseteq {0, 1}
    <3>1. CASE 0 \in usable /\ (1 \in usable => es[1].seq <= es[0].seq)
      <4>1. 0 \in newest
        BY <1>2, <3>1 DEF Entry
      <4> QED
        BY <4>1 DEF Entry
    <3>2. CASE 1 \in usable /\ (0 \in usable => es[0].seq <= es[1].seq)
      <4>1. 1 \in newest
        BY <1>2, <3>2 DEF Entry
      <4> QED
        BY <4>1 DEF Entry
    <3>3. 0 \in usable \/ 1 \in usable
      BY <1>4 DEF Entry
    <3> QED
      BY <1>2, <3>1, <3>2, <3>3
  <2>2. \E m \in newest : \A x \in newest : m <= x
    <3>1. CASE 0 \in newest
      BY <2>1, <3>1
    <3>2. CASE 0 \notin newest
      BY <2>1, <3>2
    <3> QED
      BY <3>1, <3>2
  <2>3. Min(newest) \in newest
    BY <2>2 DEF Min
  <2>4. -1 \notin Entry
    BY DEF Entry
  <2> QED
    BY <1>1, <1>4, <2>3, <2>4
<1> QED
  BY <1>3, <1>4

\* Numbers that follow each other name different slots.
LEMMA SlotOfFacts ==
    /\ \A n \in Nat : SlotOf(n) \in {"ota0", "ota1"}
    /\ \A n \in Nat : SlotOf(n) # SlotOf(n + 1)
  BY DEF SlotOf

\* On a start an image that was on trial is given up ...
LEMMA AbortedTypes ==
    ASSUME NEW es \in Entries
    PROVE  /\ Aborted(es) \in Entries
           /\ \A i \in Entry : /\ Aborted(es)[i].seq = es[i].seq
                               /\ Aborted(es)[i].state =
                                    IF es[i].state = "pending" THEN "aborted" ELSE es[i].state
  BY DEF Aborted, Entries, EntryStates

\* ... and the selected one, if it is new, goes on trial.
LEMMA TriedTypes ==
    ASSUME NEW es \in Entries
    PROVE  /\ Tried(es) \in Entries
           /\ \A i \in Entry : /\ Tried(es)[i].seq = es[i].seq
                               /\ Tried(es)[i].state =
                                    IF i = Active(Aborted(es))
                                    /\ es[i].state = "new" THEN "pending"
                                    ELSE Aborted(es)[i].state
  BY AbortedTypes DEF Tried, Entries, EntryStates

\* What is selected is a slot of the table of partitions.
LEMMA SelectedIsSlot ==
    ASSUME NEW es \in Entries PROVE Selected(es) \in Slots
<1>1. Aborted(es) \in Entries
  BY AbortedTypes
<1>2. Active(Aborted(es)) # -1 => Active(Aborted(es)) \in Entry
  BY <1>1, ActiveFacts
<1>3. \A i \in Entry : es[i].seq \in Nat
  BY DEF Entries
<1>4. CASE Active(Aborted(es)) = -1
  BY <1>4 DEF Selected, Slots
<1>5. CASE Active(Aborted(es)) # -1
  <2>1. es[Active(Aborted(es))].seq \in Nat
    BY <1>2, <1>3, <1>5
  <2>2. Selected(es) = SlotOf(es[Active(Aborted(es))].seq)
    BY <1>5 DEF Selected
  <2> QED
    BY <2>1, <2>2, SlotOfFacts DEF Slots
<1> QED
  BY <1>4, <1>5

\* The entry with the largest number of those that are new or valid is selected ...
LEMMA SelectedNewest ==
    ASSUME NEW es \in Entries, NEW j \in Entry, es[j].state \in {"new", "valid"},
           \A i \in Entry : es[i].state \in {"new", "valid"} => es[i].seq <= es[j].seq
    PROVE  /\ Selected(es) = SlotOf(es[j].seq)
           /\ Active(Aborted(es)) \in Entry
           /\ es[Active(Aborted(es))].state \in {"new", "valid"}
           /\ es[Active(Aborted(es))].seq = es[j].seq
<1> DEFINE a == Active(Aborted(es))
<1>1. Aborted(es) \in Entries /\ \A i \in Entry : es[i].seq \in Nat
  BY AbortedTypes DEF Entries
<1>2. \A i \in Entry : /\ Aborted(es)[i].seq = es[i].seq
                       /\ Aborted(es)[i].state \notin {"erased", "aborted"} <=>
                             es[i].state \in {"new", "valid"}
  <2>1. \A i \in Entry : es[i].state \in EntryStates
    BY DEF Entries
  <2> QED
    BY <2>1, AbortedTypes DEF EntryStates
<1>3. a # -1
  BY <1>1, <1>2, ActiveFacts
<1>4. a \in Entry /\ es[a].state \in {"new", "valid"} /\ es[j].seq <= es[a].seq
  <2>1. /\ a \in Entry /\ Aborted(es)[a].state \notin {"erased", "aborted"}
        /\ \A i \in Entry : Aborted(es)[i].state \notin {"erased", "aborted"} =>
             Aborted(es)[i].seq <= Aborted(es)[a].seq
    BY <1>1, <1>3, ActiveFacts
  <2> HIDE DEF a
  <2> QED
    BY <1>2, <2>1
<1>5. es[a].seq = es[j].seq
  BY <1>1, <1>4
<1>6. Selected(es) = SlotOf(es[a].seq)
  BY <1>3 DEF Selected
<1> QED
  BY <1>4, <1>5, <1>6

\* ... and the factory image when there is none.
LEMMA SelectedNone ==
    ASSUME NEW es \in Entries, \A i \in Entry : es[i].state \notin {"new", "valid"}
    PROVE  Selected(es) = "factory" /\ Active(Aborted(es)) = -1
<1>1. Aborted(es) \in Entries
  BY AbortedTypes
<1>2. \A i \in Entry : Aborted(es)[i].state \in {"erased", "aborted"}
  <2>1. \A i \in Entry : es[i].state \in EntryStates
    BY DEF Entries
  <2> QED
    BY <2>1, AbortedTypes DEF EntryStates
<1>3. Active(Aborted(es)) = -1
  BY <1>1, <1>2, ActiveFacts
<1> QED
  BY <1>3 DEF Selected

\* And so is what is loaded.
LEMMA LoadableIsSlot == ASSUME NEW s \in Slots PROVE Loadable(s) \in Slots
  BY DEF Loadable, Slots

-----------------------------------------------------------------------------
(* The types.                                                              *)

\* What a restart leaves has its type.
LEMMA BootTypes == ASSUME TypeOK, BootImage PROVE otadata' \in Entries /\ running' \in Slots
<1>1. otadata \in Entries
  BY DEF TypeOK, OtaTypeOK, Entries
<1> QED
  BY <1>1, TriedTypes, SelectedIsSlot, LoadableIsSlot DEF BootImage

\* A restart keeps the types, whatever marks and keys it leaves.
LEMMA RestartTypes ==
    ASSUME TypeOK, Restart, rtc' \subseteq Marks, nvs' \in Keys, resets' \in 0..MaxResets
    PROVE  TypeOK'
<1>1. otadata' \in Entries /\ running' \in Slots
  BY BootTypes DEF Restart
<1>2. range' \in [from : 0..Units, at : 0..Units, end : 0..Units]
  BY SizeAssumption DEF Restart
<1>3. attempt' \in 0..MaxAttempts /\ retries' \in 0..MaxRetries /\ offset' \in 0..Units
  BY SizeAssumption, BoundAssumption DEF Restart
<1>4. OtaTypeOK'
  BY <1>1, <1>2, <1>3 DEF Restart, TypeOK, OtaTypeOK, history, Entries
<1> QED
  BY <1>4 DEF Restart, TypeOK, Keys

-----------------------------------------------------------------------------
(* The flash.                                                              *)

\* What holds as long as the flash stays, however the update goes on.
LEMMA SameFlash ==
    ASSUME FlashInv, UNCHANGED <<flash, target, confirmed>>, badSwitch => badSwitch',
           ota' \in Updating => ota \in Updating, ota' = "restart" <=> ota = "restart"
    PROVE  FactoryOK' /\ InOrder' /\ UpdateOK' /\ RestartOK' /\ EntriesOK'
           /\ (Pending' <=> Pending)
<1> USE DEF flash
<1>1. FactoryOK' /\ InOrder'
  BY DEF FlashInv, FactoryOK, DownloadOK, InOrder
<1>2. Pending' <=> Pending
  BY DEF Pending
<1>3. UpdateOK'
  BY <1>2 DEF FlashInv, UpdateOK, NextSlot
<1>4. RestartOK'
  BY DEF FlashInv, RestartOK, Live
<1>5. EntriesOK'
  <2>1. SUFFICES ASSUME ~badSwitch' PROVE (NewestOK /\ ConfirmedOK /\ TrialOK /\ RunningOK)'
    BY DEF EntriesOK
  <2>2. NewestOK /\ ConfirmedOK /\ TrialOK /\ RunningOK
    BY <2>1 DEF FlashInv, EntriesOK
  <2>3. NewestOK'
    BY <2>2 DEF NewestOK, Live, Valid
  <2>4. ConfirmedOK'
    BY <2>2 DEF ConfirmedOK, Valid, Whole
  <2>5. TrialOK'
    BY <2>2 DEF TrialOK, Whole, Updating
  <2>6. RunningOK'
    BY <2>2 DEF RunningOK
  <2> QED
    BY <2>3, <2>4, <2>5, <2>6
<1> QED
  BY <1>1, <1>2, <1>3, <1>4, <1>5

\* A step of app_main or of the user that leaves update and flash alone.
LEMMA QuietStep ==
    ASSUME FlashInv, UNCHANGED <<otaVars, confirmed>>, validator' = "mark" => Pending
    PROVE  FlashInv'
<1> USE DEF otaVars, flash, history, download
<1>1. FactoryOK' /\ InOrder' /\ UpdateOK' /\ RestartOK' /\ EntriesOK' /\ (Pending' <=> Pending)
  BY SameFlash
<1>2. DownloadOK'
  BY <1>1 DEF FlashInv, DownloadOK
<1>3. MarkOK'
  BY <1>1 DEF MarkOK
<1>4. WholeOK'
  BY DEF FlashInv, WholeOK, Whole
<1> QED
  BY <1>1, <1>2, <1>3, <1>4 DEF FlashInv

\* The newest valid entry, if there is a valid one.
LEMMA NewestValid ==
    ASSUME TypeOK, NEW k \in Entry, Valid(k)
    PROVE  \E j \in Entry : Valid(j)
              /\ \A i \in Entry : Valid(i) => otadata[i].seq <= otadata[j].seq
<1>1. otadata[0].seq \in Nat /\ otadata[1].seq \in Nat
  BY DEF TypeOK, OtaTypeOK, Entry
<1>2. CASE Valid(0) /\ (Valid(1) => otadata[1].seq <= otadata[0].seq)
  BY <1>1, <1>2 DEF Entry
<1>3. CASE Valid(1) /\ (Valid(0) => otadata[0].seq <= otadata[1].seq)
  BY <1>1, <1>3 DEF Entry
<1>4. Valid(0) \/ Valid(1)
  BY DEF Entry
<1> QED
  BY <1>1, <1>2, <1>3, <1>4

\* A restart starts the new entry's image if there is one, and the confirmed image
\* otherwise; an entry that was on trial is given up.
LEMMA RestartEntries ==
    ASSUME TypeOK, FlashInv, Restart, ~badSwitch
    PROVE  (NewestOK /\ ConfirmedOK /\ TrialOK /\ RunningOK)'
<1>1. NewestOK /\ ConfirmedOK /\ TrialOK /\ RunningOK
  BY DEF FlashInv, EntriesOK
<1>2. /\ otadata' = Tried(otadata) /\ running' = Loadable(Selected(otadata)) /\ ota' = "idle"
      /\ UNCHANGED <<image, target, confirmed>>
  BY DEF Restart, BootImage
<1>3. otadata \in Entries /\ \A i \in Entry : otadata[i].seq \in Nat
      /\ otadata[i].state \in EntryStates
  BY DEF TypeOK, OtaTypeOK, Entries
<1>4. \A i \in Entry : /\ otadata'[i].seq = otadata[i].seq
                       /\ otadata'[i].state =
                            IF i = Active(Aborted(otadata))
                            /\ otadata[i].state = "new" THEN "pending"
                            ELSE IF otadata[i].state = "pending" THEN "aborted"
                            ELSE otadata[i].state
  BY <1>2, <1>3, TriedTypes, AbortedTypes
<1>5. CASE \E i \in Entry : otadata[i].state = "new"
  <2>1. PICK n \in Entry : otadata[n].state = "new"
    BY <1>5
  <2>2. \A i \in Entry \ {n} : otadata[i].state \in {"erased", "aborted", "valid"}
                              /\ (Valid(i) => otadata[i].seq < otadata[n].seq)
    BY <1>1, <1>3, <2>1 DEF NewestOK, Live, Valid, EntryStates
  <2>3. \A i \in Entry : otadata[i].state \in {"new", "valid"} => otadata[i].seq <= otadata[n].seq
    BY <1>3, <2>2 DEF Valid
  <2>4. Selected(otadata) = SlotOf(otadata[n].seq) /\ Active(Aborted(otadata)) = n
    BY <1>3, <2>1, <2>2, <2>3, SelectedNewest DEF Valid
  <2>5. SlotOf(otadata[n].seq) = target /\ ota = "restart" /\ Whole(image[target])
    BY <1>1, <2>1 DEF TrialOK, FlashInv, WholeOK
  <2>6. running' = target
    BY <1>2, <2>4, <2>5 DEF Loadable
  <2>7. /\ otadata'[n].state = "pending" /\ \A i \in Entry : otadata'[i].seq = otadata[i].seq
        /\ \A i \in Entry \ {n} : otadata'[i].state = otadata[i].state
    BY <1>4, <2>1, <2>2, <2>4
  <2>8. \A i \in Entry : Valid(i)' <=> Valid(i)
    BY <2>1, <2>7 DEF Valid
  <2>9. NewestOK'
    <3> SUFFICES ASSUME NEW i \in Entry, NEW j \in Entry, i # j, Live(i)', Live(j)'
                 PROVE  /\ otadata'[i].seq # otadata'[j].seq /\ (Valid(i)' \/ Valid(j)')
                        /\ otadata'[j].seq < otadata'[i].seq => Valid(j)'
      BY DEF NewestOK
    <3>1. i = n \/ j = n
      BY DEF Entry
    <3>2. CASE i = n
      BY <1>3, <2>2, <2>7, <3>2 DEF Live, Valid
    <3>3. CASE j = n
      BY <1>3, <2>2, <2>7, <3>3 DEF Live, Valid
    <3> QED
      BY <3>1, <3>2, <3>3
  <2>10. ConfirmedOK'
    BY <1>1, <1>2, <2>7, <2>8 DEF ConfirmedOK, Whole
  <2>11. TrialOK'
    BY <1>2, <2>2, <2>5, <2>6, <2>7 DEF TrialOK, Whole, Updating
  <2>12. RunningOK'
    BY <2>7 DEF RunningOK
  <2> QED
    BY <2>9, <2>10, <2>11, <2>12
<1>6. CASE \A i \in Entry : otadata[i].state # "new"
  <2>1. \A i \in Entry : /\ otadata'[i].seq = otadata[i].seq
                         /\ otadata'[i].state = IF otadata[i].state = "pending" THEN "aborted"
                                                ELSE otadata[i].state
    BY <1>4, <1>6
  <2>2. \A i \in Entry : (Valid(i)' <=> Valid(i)) /\ (Live(i)' <=> Valid(i))
    BY <1>3, <1>6, <2>1 DEF Live, Valid, EntryStates
  <2>3. Selected(otadata) = confirmed
    <3>1. CASE \E k \in Entry : Valid(k)
      <4>1. PICK j \in Entry : Valid(j)
            /\ \A i \in Entry : Valid(i) => otadata[i].seq <= otadata[j].seq
        BY <3>1, NewestValid
      <4>2. Selected(otadata) = SlotOf(otadata[j].seq)
        BY <1>3, <1>6, <4>1, SelectedNewest DEF Valid
      <4> QED
        BY <1>1, <4>1, <4>2 DEF ConfirmedOK
    <3>2. CASE \A k \in Entry : ~Valid(k)
      BY <1>1, <1>3, <1>6, <3>2, SelectedNone DEF ConfirmedOK, Valid
    <3> QED
      BY <3>1, <3>2
  <2>4. running' = confirmed
    BY <1>1, <1>2, <2>3 DEF ConfirmedOK, Loadable
  <2>5. NewestOK'
    BY <1>1, <2>1, <2>2 DEF NewestOK, Live, Valid
  <2>6. ConfirmedOK'
    BY <1>1, <1>2, <2>1, <2>2 DEF ConfirmedOK, Whole
  <2>7. TrialOK'
    BY <1>6, <2>1 DEF TrialOK
  <2>8. RunningOK'
    BY <1>2, <2>4 DEF RunningOK
  <2> QED
    BY <2>5, <2>6, <2>7, <2>8
<1> QED
  BY <1>5, <1>6

\* A restart keeps what holds of the flash.
LEMMA RestartStep == ASSUME TypeOK, FlashInv, Restart PROVE FlashInv'
<1>1. ota' = "idle" /\ validator' = "none" /\ UNCHANGED <<image, badSwitch>>
  BY DEF Restart, history
<1>2. FactoryOK' /\ DownloadOK'
  BY <1>1 DEF FlashInv, FactoryOK, DownloadOK, InOrder
<1>3. UpdateOK' /\ MarkOK' /\ WholeOK' /\ RestartOK'
  BY <1>1 DEF UpdateOK, MarkOK, WholeOK, RestartOK, Updating
<1>4. EntriesOK'
  BY <1>1, RestartEntries DEF EntriesOK
<1> QED
  BY <1>2, <1>3, <1>4 DEF FlashInv


\* A range ends within the file, behind where it starts.
LEMMA GetFacts ==
    ASSUME TypeOK, Get, offset < Units
    PROVE  /\ range' \in [from : 0..Units, at : 0..Units, end : 0..Units]
           /\ range'.at = offset /\ offset < range'.end
<1>0. offset \in Nat /\ Units \in Nat /\ Chunk \in Nat
  BY SizeAssumption DEF TypeOK, OtaTypeOK
<1>1. Min({offset + Chunk, Units}) = IF offset + Chunk <= Units THEN offset + Chunk ELSE Units
  BY <1>0, MinOfTwo
<1>2. range' = [from |-> offset, at |-> offset, end |-> Min({offset + Chunk, Units})]
  BY DEF Get
<1>3. offset \in 0..Units /\ Units \in Nat \ {0} /\ Chunk \in Nat \ {0}
  BY SizeAssumption DEF TypeOK, OtaTypeOK
<1>4. Min({offset + Chunk, Units}) \in 0..Units /\ offset < Min({offset + Chunk, Units})
  BY <1>1, <1>3
<1> QED
  BY <1>2, <1>3, <1>4

\* The steps that leave the flash alone: the manifest, the length of the file, the
\* request of a range, a broken connection, the end of the download.
LEMMA WaitingStep ==
    ASSUME TypeOK, FlashInv, UNCHANGED <<confirmed, validator>>,
           CheckUpdate \/ AskLength \/ Get \/ GetFails \/ ReadFails \/ End \/ Publish
    PROVE  FlashInv'
<1> USE DEF history, download, flash, Fails, NoProgress
<1>1. /\ UNCHANGED <<flash, target>> /\ (badSwitch => badSwitch')
      /\ (ota' \in Updating => ota \in Updating) /\ (ota' = "restart" <=> ota = "restart")
  <2>1. CASE End
    <3>1. badSwitch \in BOOLEAN
      BY DEF TypeOK, OtaTypeOK
    <3>2. badSwitch => badSwitch'
      BY <2>1, <3>1 DEF End
    <3> QED
      BY <2>1, <3>2 DEF End, Updating
  <2>2. CASE CheckUpdate \/ AskLength
    BY <2>2 DEF CheckUpdate, AskLength, Updating, Idle
  <2>3. CASE Get \/ GetFails
    BY <2>3 DEF Get, GetFails, Updating
  <2>4. CASE ReadFails \/ Publish
    BY <2>4 DEF ReadFails, Publish, Updating
  <2> QED
    BY <2>1, <2>2, <2>3, <2>4
<1>2. FactoryOK' /\ InOrder' /\ UpdateOK' /\ RestartOK' /\ EntriesOK' /\ (Pending' <=> Pending)
  BY <1>1, SameFlash
<1>3. MarkOK'
  BY <1>2 DEF MarkOK, FlashInv
<1>4. WholeOK'
  <2>1. CASE End
    BY <2>1 DEF End, WholeOK, Whole
  <2>2. CASE CheckUpdate \/ AskLength \/ Get \/ GetFails \/ ReadFails \/ Publish
    BY <2>2 DEF FlashInv, CheckUpdate, AskLength, Get, GetFails, ReadFails, Publish, Idle,
       WholeOK, Whole
  <2> QED
    BY <2>1, <2>2
<1>5. DownloadOK'
  <2>1. CASE CheckUpdate \/ AskLength \/ End \/ Publish
    BY <1>2, <2>1 DEF FlashInv, CheckUpdate, AskLength, End, Publish, DownloadOK
  <2>2. CASE Get
    <3>1. offset < Units
      BY <2>2 DEF FlashInv, DownloadOK, Get
    <3> QED
      BY <1>2, <2>2, <3>1, GetFacts DEF FlashInv, Get, DownloadOK
  <2>3. CASE GetFails \/ ReadFails
    BY <1>2, <2>3 DEF FlashInv, GetFails, ReadFails, DownloadOK
  <2> QED
    BY <2>1, <2>2, <2>3
<1> QED
  BY <1>2, <1>3, <1>4, <1>5 DEF FlashInv

\* Nothing is on trial where no entry of the running slot is pending.
LEMMA NothingPending ==
    ASSUME TypeOK, FlashInv, ~badSwitch, ~Pending
    PROVE  /\ \A i \in Entry : otadata[i].state # "pending"
           /\ running = confirmed
<1>1. TrialOK /\ RunningOK
  BY DEF FlashInv, EntriesOK
<1>2. ASSUME NEW i \in Entry, otadata[i].state = "pending" PROVE FALSE
  <2>1. otadata[i].seq \in Nat
    BY DEF TypeOK, OtaTypeOK
  <2>2. SlotOf(otadata[i].seq) = running
    BY <1>1, <1>2 DEF TrialOK
  <2>3. running # "factory"
    BY <2>1, <2>2, SlotOfFacts
  <2> QED
    BY <1>2, <2>2, <2>3 DEF Pending
<1> QED
  BY <1>1, <1>2 DEF RunningOK

\* A download never goes to the slot that is running.
LEMMA NextSlotFacts == NextSlot # running /\ NextSlot \in {"ota0", "ota1"}
  BY DEF NextSlot

\* The slot that is erased and written is neither running nor the confirmed one.
LEMMA BeginStep ==
    ASSUME TypeOK, FlashInv, Begin, UNCHANGED <<confirmed, validator>> PROVE FlashInv'
<1> USE DEF history, download, flash, Fails
<1>1. CASE Pending
  <2>1. /\ UNCHANGED <<flash, target, badSwitch>>
        /\ (ota' \in Updating => ota \in Updating) /\ (ota' = "restart" <=> ota = "restart")
    BY <1>1 DEF Begin, Updating
  <2>2. FactoryOK' /\ InOrder' /\ UpdateOK' /\ RestartOK' /\ EntriesOK' /\ (Pending' <=> Pending)
    BY <2>1, SameFlash
  <2>3. MarkOK' /\ WholeOK' /\ DownloadOK'
    BY <1>1, <2>2 DEF Begin, MarkOK, WholeOK, Whole, DownloadOK, FlashInv
  <2> QED
    BY <2>2, <2>3 DEF FlashInv
<1>2. CASE ~Pending
  <2>1. /\ target' = NextSlot /\ image' = [image EXCEPT ![NextSlot] = <<>>] /\ offset' = 0
        /\ ota = "begin" /\ ota' = "get" /\ UNCHANGED <<otadata, running, badSwitch>>
    BY <1>2 DEF Begin
  <2>2. \A s \in Slots : image'[s] = IF s = NextSlot THEN <<>> ELSE image[s]
    BY <2>1 DEF TypeOK, OtaTypeOK
  <2>3. NextSlot \in Slots /\ NextSlot # "factory"
    BY NextSlotFacts DEF Slots
  <2>4. FactoryOK' /\ DownloadOK'
    <3>1. FactoryOK'
      BY <2>2, <2>3 DEF FlashInv, FactoryOK, Slots
    <3>2. InOrder'
      BY <2>2 DEF FlashInv, DownloadOK, InOrder
    <3>3. Len(image'[target']) = 0 /\ 0 < Units
      BY <2>1, <2>2, <2>3, SizeAssumption
    <3> QED
      BY <2>1, <3>1, <3>2, <3>3 DEF DownloadOK
  <2>5. UpdateOK' /\ MarkOK' /\ WholeOK' /\ RestartOK'
    BY <1>2, <2>1 DEF FlashInv, UpdateOK, MarkOK, WholeOK, RestartOK, Pending, NextSlot
  <2>6. ASSUME ~badSwitch PROVE (NewestOK /\ ConfirmedOK /\ TrialOK /\ RunningOK)'
    <3>1. NewestOK /\ ConfirmedOK /\ TrialOK /\ RunningOK
      BY <2>6 DEF FlashInv, EntriesOK
    <3>2. /\ \A i \in Entry : otadata[i].state # "pending"
          /\ running = confirmed
      BY <1>2, <2>6, NothingPending
    <3>3. NewestOK' /\ RunningOK'
      BY <2>1, <3>1, <3>2 DEF NewestOK, RunningOK, Live, Valid
    <3>4. image'[confirmed] = image[confirmed]
      BY <2>2, <3>2, NextSlotFacts DEF TypeOK, OtaTypeOK
    <3>5. ConfirmedOK'
      BY <2>1, <3>1, <3>4 DEF ConfirmedOK, Valid, Whole
    <3>6. TrialOK'
      BY <2>1, <3>1, <3>2 DEF TrialOK
    <3> QED
      BY <3>3, <3>5, <3>6
  <2> QED
    BY <2>1, <2>4, <2>5, <2>6 DEF FlashInv, EntriesOK
<1> QED
  BY <1>1, <1>2

\* A block is written behind the last one, to the slot that is not running.
LEMMA ReadStep ==
    ASSUME TypeOK, FlashInv, Read, UNCHANGED <<confirmed, validator>> PROVE FlashInv'
<1> USE DEF history, download, flash
<1> DEFINE unit == Unit(release, range.at + 1)
           longer == Append(image[target], unit)
<1>1. /\ ota = "read" /\ image' = [image EXCEPT ![target] = longer]
      /\ offset' = offset + 1 /\ range' = [range EXCEPT !.at = range.at + 1]
      /\ ota' \in {"read", "get", "end"} /\ (ota' = "read" => offset + 1 < range.end)
      /\ (ota' = "get" => offset + 1 < Units)
      /\ UNCHANGED <<otadata, running, target, badSwitch>>
  BY DEF Read
<1>2. /\ target \in Slots /\ target # "factory" /\ offset \in Nat /\ range.end <= Units
      /\ Units \in Nat /\ range.at = offset /\ Len(image[target]) = offset
      /\ image[target] \in Seq([release : Releases \cup {0}, at : Nat])
  <2>1. range.at = offset /\ Len(image[target]) = offset
    BY <1>1 DEF FlashInv, DownloadOK
  <2>2. offset \in 0..Units /\ target \in Slots \ {"factory"} /\ range.end \in 0..Units
        /\ image \in [Slots -> Seq([release : Releases \cup {0}, at : Nat])]
    BY DEF TypeOK, OtaTypeOK
  <2>3. image[target] \in Seq([release : Releases \cup {0}, at : Nat])
    BY <2>2
  <2>4. offset \in Nat /\ Units \in Nat /\ range.end <= Units
    BY <2>2, SizeAssumption
  <2> QED
    BY <2>1, <2>2, <2>3, <2>4
<1>3. unit \in [release : Releases \cup {0}, at : Nat] /\ unit.at = offset + 1
  BY <1>2 DEF Unit, TypeOK, OtaTypeOK
<1> HIDE DEF unit
<1>4. /\ Len(longer) = offset + 1 /\ longer[offset + 1] = unit
      /\ DOMAIN longer = 1..(offset + 1) /\ DOMAIN image[target] = 1..offset
      /\ \A i \in 1..offset : longer[i] = image[target][i]
  BY <1>2, <1>3
<1> HIDE DEF longer
<1>5. \A s \in Slots : image'[s] = IF s = target THEN longer ELSE image[s]
  BY <1>1 DEF TypeOK, OtaTypeOK
<1>6. FactoryOK'
  BY <1>2, <1>5 DEF FlashInv, FactoryOK, Slots
<1>7. InOrder
  BY DEF FlashInv, DownloadOK
<1>8. InOrder'
  <2> SUFFICES ASSUME NEW s \in Slots, NEW i \in DOMAIN image'[s] PROVE image'[s][i].at = i
    BY DEF InOrder
  <2>1. CASE s = target
    <3>1. image'[s] = longer /\ i \in 1..(offset + 1)
      BY <1>4, <1>5, <2>1
    <3>2. CASE i \in 1..offset
      BY <1>2, <1>4, <1>7, <3>1, <3>2 DEF InOrder
    <3>3. CASE i = offset + 1
      BY <1>3, <1>4, <3>1, <3>3
    <3> QED
      BY <1>2, <3>1, <3>2, <3>3
  <2>2. CASE s # target
    BY <1>5, <1>7, <2>2 DEF InOrder
  <2> QED
    BY <2>1, <2>2
<1>9. DownloadOK'
  <2>1. Len(image'[target']) = offset'
    BY <1>1, <1>2, <1>4, <1>5
  <2>2. ota' = "read" => range'.at = offset' /\ offset' < range'.end
    BY <1>1, <1>2 DEF TypeOK, OtaTypeOK
  <2>3. ota' \in {"get", "read"} => offset' < Units
    BY <1>1, <1>2 DEF TypeOK, OtaTypeOK
  <2> QED
    BY <1>8, <2>1, <2>2, <2>3 DEF DownloadOK
<1>10. target = NextSlot /\ ~Pending
  BY <1>1 DEF FlashInv, UpdateOK, Updating
<1>11. UpdateOK' /\ MarkOK' /\ WholeOK' /\ RestartOK'
  BY <1>1, <1>10 DEF FlashInv, UpdateOK, MarkOK, WholeOK, RestartOK, Pending, NextSlot
<1>12. ASSUME ~badSwitch PROVE (NewestOK /\ ConfirmedOK /\ TrialOK /\ RunningOK)'
  <2>1. NewestOK /\ ConfirmedOK /\ TrialOK /\ RunningOK
    BY <1>12 DEF FlashInv, EntriesOK
  <2>2. /\ \A i \in Entry : otadata[i].state # "pending"
        /\ running = confirmed
    BY <1>10, <1>12, NothingPending
  <2>3. NewestOK' /\ RunningOK'
    BY <1>1, <2>1, <2>2 DEF NewestOK, RunningOK, Live, Valid
  <2>4. image'[confirmed] = image[confirmed]
    BY <1>5, <1>10, <2>2, NextSlotFacts DEF TypeOK, OtaTypeOK
  <2>5. ConfirmedOK'
    BY <1>1, <2>1, <2>4 DEF ConfirmedOK, Valid, Whole
  <2>6. TrialOK'
    BY <1>1, <2>1, <2>2 DEF TrialOK
  <2> QED
    BY <2>3, <2>5, <2>6
<1> QED
  BY <1>1, <1>6, <1>9, <1>11, <1>12 DEF FlashInv, EntriesOK


-----------------------------------------------------------------------------
(* The choice of the slot, and the confirmation.                           *)

\* The entry that is replaced is the one that is not active.
LEMMA OtherFacts ==
    ASSUME NEW es \in Entries
    PROVE  /\ Other(es) \in Entry
           /\ Active(es) # -1 => /\ Active(es) \in Entry /\ Other(es) # Active(es)
                                 /\ \A i \in Entry : i = Active(es) \/ i = Other(es)
<1>1. CASE Active(es) = -1
  BY <1>1 DEF Other, Entry
<1>2. CASE Active(es) # -1
  <2>1. Active(es) \in Entry /\ Other(es) = 1 - Active(es)
    BY <1>2, ActiveFacts DEF Other
  <2> HIDE DEF Entry
  <2>2. Active(es) = 0 \/ Active(es) = 1
    BY <2>1 DEF Entry
  <2> QED
    BY <2>1, <2>2 DEF Entry
<1> QED
  BY <1>1, <1>2

\* The number that is written names the target and is not below the active entry's.
LEMMA NewSeqFacts ==
    ASSUME NEW es \in Entries, target \in {"ota0", "ota1"}
    PROVE  /\ NewSeq(es) \in Nat /\ SlotOf(NewSeq(es)) = target
           /\ Active(es) # -1 => es[Active(es)].seq <= NewSeq(es)
<1>1. CASE Active(es) = -1
  BY <1>1 DEF NewSeq, IndexOf, SlotOf
<1>2. CASE Active(es) # -1
  <2> DEFINE c == es[Active(es)].seq
  <2>1. c \in Nat
    BY <1>2, ActiveFacts DEF Entries
  <2>2. NewSeq(es) = CHOOSE n \in {c, c + 1} : SlotOf(n) = target
    BY <1>2 DEF NewSeq
  <2> HIDE DEF c
  <2>3. SlotOf(c) = target \/ SlotOf(c + 1) = target
    BY <2>1 DEF SlotOf
  <2>4. NewSeq(es) \in {c, c + 1} /\ SlotOf(NewSeq(es)) = target
    BY <2>2, <2>3
  <2>5. NewSeq(es) \in Nat /\ c <= NewSeq(es)
    BY <2>1, <2>4
  <2> QED
    BY <2>4, <2>5 DEF c
<1> QED
  BY <1>1, <1>2

\* Behind a download the active entry, if there is one, is the confirmed slot's.
LEMMA ActiveIsConfirmed ==
    ASSUME TypeOK, FlashInv, ~badSwitch, ota \in Updating \ {"restart"}
    PROVE  /\ \A i \in Entry : Live(i) => Valid(i)
           /\ running = confirmed /\ target = NextSlot
           /\ Active(otadata) = -1 => confirmed = "factory" /\ \A i \in Entry : ~Live(i)
           /\ Active(otadata) # -1 => /\ Valid(Active(otadata))
                                      /\ SlotOf(otadata[Active(otadata)].seq) = confirmed
<1> DEFINE a == Active(otadata)
<1>1. NewestOK /\ ConfirmedOK /\ TrialOK /\ RunningOK
  BY DEF FlashInv, EntriesOK
<1>2. target = NextSlot /\ ~Pending
  BY DEF FlashInv, UpdateOK
<1>3. running = confirmed /\ \A i \in Entry : otadata[i].state # "pending"
  BY <1>2, NothingPending
<1>4. \A i \in Entry : otadata[i].state # "new"
  BY <1>1 DEF TrialOK
<1>5. \A i \in Entry : Live(i) => Valid(i)
  BY <1>3, <1>4 DEF Live, Valid
<1>6. otadata \in Entries /\ \A i \in Entry : otadata[i].state \in EntryStates
  BY DEF TypeOK, OtaTypeOK, Entries
<1>7. CASE a = -1
  <2>1. \A i \in Entry : ~Live(i) /\ ~Valid(i)
    BY <1>6, <1>7, ActiveFacts DEF Live, Valid
  <2> QED
    BY <1>1, <1>2, <1>3, <1>5, <1>7, <2>1 DEF ConfirmedOK
<1>8. CASE a # -1
  <2>1. /\ a \in Entry /\ otadata[a].state \notin {"erased", "aborted"}
        /\ \A i \in Entry : otadata[i].state \notin {"erased", "aborted"} =>
             otadata[i].seq <= otadata[a].seq
    BY <1>6, <1>8, ActiveFacts
  <2> HIDE DEF a
  <2>2. Valid(a)
    BY <1>3, <1>4, <1>6, <2>1 DEF Valid, EntryStates
  <2>3. \A i \in Entry : Valid(i) => otadata[i].seq <= otadata[a].seq
    BY <2>1 DEF Valid
  <2>4. SlotOf(otadata[a].seq) = confirmed
    BY <1>1, <2>1, <2>2, <2>3 DEF ConfirmedOK
  <2> QED
    BY <1>2, <1>3, <1>5, <1>8, <2>2, <2>4 DEF a
<1> QED
  BY <1>7, <1>8

\* The first write of the switch leaves the entry of the confirmed slot.
LEMMA EraseStep ==
    ASSUME TypeOK, FlashInv, EraseEntry, UNCHANGED <<confirmed, validator>> PROVE FlashInv'
<1> USE DEF history, download
<1> DEFINE o == Other(otadata)
           a == Active(otadata)
<1>1. /\ ota = "erase" /\ ota' = "write" /\ otadata' = [otadata EXCEPT ![o] = NoEntry]
      /\ UNCHANGED <<image, running, target, badSwitch>>
  BY DEF EraseEntry
<1>2. otadata \in Entries /\ o \in Entry
      /\ (a # -1 => a \in Entry /\ o # a /\ \A i \in Entry : i = a \/ i = o)
  BY OtherFacts DEF TypeOK, OtaTypeOK, Entries
<1> HIDE DEF o, a
<1>3. /\ otadata'[o].state = "erased"
      /\ \A i \in Entry : i # o => otadata'[i] = otadata[i]
  BY <1>1, <1>2 DEF NoEntry, Entries
<1>4. FactoryOK' /\ DownloadOK'
  BY <1>1 DEF FlashInv, FactoryOK, DownloadOK, InOrder
<1>5. UpdateOK' /\ MarkOK'
  BY <1>1, <1>3 DEF FlashInv, UpdateOK, MarkOK, Pending, NextSlot, Updating
<1>6. WholeOK' /\ RestartOK'
  BY <1>1 DEF FlashInv, WholeOK, RestartOK, Whole
<1>7. ASSUME ~badSwitch PROVE (NewestOK /\ ConfirmedOK /\ TrialOK /\ RunningOK)'
  <2>1. /\ \A i \in Entry : Live(i) => Valid(i)
        /\ running = confirmed
        /\ a = -1 => confirmed = "factory" /\ \A i \in Entry : ~Live(i)
        /\ a # -1 => Valid(a) /\ SlotOf(otadata[a].seq) = confirmed
    BY <1>1, <1>7, ActiveIsConfirmed DEF a, Updating
  <2>2. Whole(image[confirmed])
    BY <1>7 DEF FlashInv, EntriesOK, ConfirmedOK
  <2>3. \A i \in Entry : Live(i)' => i # o /\ Live(i)
    BY <1>3 DEF Live
  <2>4. \A i \in Entry : Live(i)' => a # -1 /\ i = a
    BY <1>2, <2>1, <2>3
  <2>5. NewestOK'
    BY <2>4 DEF NewestOK
  <2>6. \A i \in Entry : Valid(i)' => Live(i)'
    BY DEF Live, Valid
  <2>7. a # -1 => otadata'[a] = otadata[a]
    BY <1>2, <1>3
  <2>8. ConfirmedOK'
    <3>1. \A i \in Entry : Valid(i)' => SlotOf(otadata'[i].seq) = confirmed
      BY <2>1, <2>4, <2>6, <2>7
    <3>2. (\A i \in Entry : ~Valid(i)') => confirmed = "factory"
      BY <1>2, <2>1, <2>7 DEF Valid
    <3> QED
      BY <1>1, <2>2, <3>1, <3>2 DEF ConfirmedOK, Whole
  <2>9. TrialOK' /\ RunningOK'
    BY <1>1, <2>1, <2>3, <1>3 DEF TrialOK, RunningOK, Live, Valid
  <2> QED
    BY <2>5, <2>8, <2>9
<1> QED
  BY <1>1, <1>4, <1>5, <1>6, <1>7 DEF FlashInv, EntriesOK

\* The second write makes the new image the newest, and keeps that entry too.
LEMMA WriteStep ==
    ASSUME TypeOK, FlashInv, WriteEntry, UNCHANGED <<confirmed, validator>> PROVE FlashInv'
<1> USE DEF history, download
<1> DEFINE o == Other(otadata)
           a == Active(otadata)
           n == NewSeq(otadata)
<1>1. /\ ota = "write" /\ ota' = "restart"
      /\ otadata' = [otadata EXCEPT ![o] = [seq |-> n, state |-> "new"]]
      /\ UNCHANGED <<image, running, target, badSwitch>>
  BY DEF WriteEntry
<1>2. otadata \in Entries /\ o \in Entry
      /\ (a # -1 => a \in Entry /\ o # a /\ \A i \in Entry : i = a \/ i = o)
  BY OtherFacts DEF TypeOK, OtaTypeOK, Entries
<1>3. /\ n \in Nat /\ SlotOf(n) = target /\ (a # -1 => otadata[a].seq <= n)
      /\ target \in {"ota0", "ota1"}
  <2>1. target \in {"ota0", "ota1"}
    BY DEF TypeOK, OtaTypeOK, Slots
  <2> QED
    BY <1>2, <2>1, NewSeqFacts
<1>4. a = -1 => \A i \in Entry : ~Live(i)
  BY <1>2, ActiveFacts DEF Live
<1> HIDE DEF o, a, n
<1>5. /\ otadata'[o].state = "new" /\ otadata'[o].seq = n
      /\ \A i \in Entry : i # o => otadata'[i] = otadata[i]
  BY <1>1, <1>2 DEF Entries
<1>6. FactoryOK' /\ DownloadOK'
  BY <1>1 DEF FlashInv, FactoryOK, DownloadOK, InOrder
<1>7. UpdateOK' /\ MarkOK'
  BY <1>1, <1>5 DEF FlashInv, UpdateOK, MarkOK, Pending, NextSlot, Updating
<1>8. WholeOK'
  BY <1>1 DEF FlashInv, WholeOK, Whole
<1>9. RestartOK'
  <2>1. \A i \in Entry : Live(i)' => otadata'[i].seq <= n
    <3> SUFFICES ASSUME NEW i \in Entry, Live(i)' PROVE otadata'[i].seq <= n
      OBVIOUS
    <3>1. CASE i = o
      BY <1>3, <1>5, <3>1
    <3>2. CASE i # o
      BY <1>2, <1>3, <1>4, <1>5, <3>2 DEF Live
    <3> QED
      BY <3>1, <3>2
  <2> QED
    BY <1>1, <1>2, <1>3, <1>5, <2>1 DEF RestartOK
<1>10. ASSUME ~badSwitch PROVE (NewestOK /\ ConfirmedOK /\ TrialOK /\ RunningOK)'
  <2>1. /\ \A i \in Entry : Live(i) => Valid(i)
        /\ running = confirmed /\ target = NextSlot
        /\ a = -1 => confirmed = "factory"
        /\ a # -1 => Valid(a) /\ SlotOf(otadata[a].seq) = confirmed
    BY <1>1, <1>10, ActiveIsConfirmed DEF a, Updating
  <2>2. Whole(image[confirmed])
    BY <1>10 DEF FlashInv, EntriesOK, ConfirmedOK
  <2>3. a # -1 => otadata[a].seq # n /\ otadata[a].seq \in Nat /\ otadata'[a] = otadata[a]
    BY <1>2, <1>3, <1>5, <2>1, NextSlotFacts DEF Entries
  <2>4. \A i \in Entry : i # o /\ Live(i)' => a # -1 /\ i = a /\ Valid(i)'
    BY <1>2, <1>4, <1>5, <2>1 DEF Live, Valid
  <2>5. \A i \in Entry : i = o => otadata'[i].state # "valid"
    BY <1>5
  <2>6. NewestOK'
    <3> SUFFICES ASSUME NEW i \in Entry, NEW j \in Entry, i # j, Live(i)', Live(j)'
                 PROVE  /\ otadata'[i].seq # otadata'[j].seq /\ (Valid(i)' \/ Valid(j)')
                        /\ otadata'[j].seq < otadata'[i].seq => Valid(j)'
      BY DEF NewestOK
    <3>1. CASE i = o
      BY <1>3, <1>5, <2>3, <2>4, <3>1
    <3>2. CASE j = o
      BY <1>3, <1>5, <2>3, <2>4, <3>2
    <3>3. CASE i # o /\ j # o
      BY <2>4, <3>3
    <3> QED
      BY <3>1, <3>2, <3>3
  <2>7. \A i \in Entry : Valid(i)' => Live(i)' /\ i # o
    BY <2>5 DEF Live, Valid
  <2>8. ConfirmedOK'
    <3>1. \A i \in Entry : Valid(i)' => SlotOf(otadata'[i].seq) = confirmed
      BY <2>1, <2>3, <2>4, <2>7
    <3>2. (\A i \in Entry : ~Valid(i)') => confirmed = "factory"
      BY <1>2, <2>1, <2>3 DEF Valid
    <3> QED
      BY <1>1, <2>2, <3>1, <3>2 DEF ConfirmedOK, Whole
  <2>9. TrialOK'
    <3> SUFFICES ASSUME NEW i \in Entry
                 PROVE  /\ otadata'[i].state = "new" => SlotOf(otadata'[i].seq) = target
                        /\ otadata'[i].state # "pending"
      BY <1>1 DEF TrialOK
    <3>1. CASE i = o
      BY <1>3, <1>5, <3>1
    <3>2. CASE i # o
      BY <2>1, <1>5, <3>2 DEF Live, Valid
    <3> QED
      BY <3>1, <3>2
  <2>10. RunningOK'
    BY <1>1, <2>1 DEF RunningOK
  <2> QED
    BY <2>6, <2>8, <2>9, <2>10
<1> QED
  BY <1>1, <1>6, <1>7, <1>8, <1>9, <1>10 DEF FlashInv, EntriesOK

\* The confirmation marks the entry that is on trial, which is the newest.
LEMMA MarkStep == ASSUME TypeOK, FlashInv, Mark PROVE FlashInv'
<1> USE DEF history, download
<1>1. /\ validator = "mark" /\ validator' = "none" /\ confirmed' = running
      /\ otadata' = [otadata EXCEPT ![Active(otadata)].state = "valid"]
      /\ UNCHANGED <<image, running, target, badSwitch, ota>>
  BY DEF Mark, MarkValid
<1>2. Pending /\ ota \notin Updating
  BY <1>1 DEF FlashInv, MarkOK, UpdateOK
<1>3. FactoryOK' /\ DownloadOK'
  BY <1>1, <1>2 DEF FlashInv, FactoryOK, DownloadOK, InOrder, Updating
<1>4. UpdateOK' /\ MarkOK' /\ WholeOK' /\ RestartOK'
  BY <1>1, <1>2 DEF UpdateOK, MarkOK, WholeOK, RestartOK, Updating
<1>5. ASSUME ~badSwitch PROVE (NewestOK /\ ConfirmedOK /\ TrialOK /\ RunningOK)'
  <2>1. NewestOK /\ ConfirmedOK /\ TrialOK /\ RunningOK
    BY <1>5 DEF FlashInv, EntriesOK
  <2>2. PICK p \in Entry : otadata[p].state = "pending"
    BY <1>2 DEF Pending
  <2>3. SlotOf(otadata[p].seq) = running /\ Whole(image[running])
    BY <2>1, <2>2 DEF TrialOK
  <2>4. otadata \in Entries /\ \A i \in Entry : otadata[i].seq \in Nat
        /\ otadata[i].state \in EntryStates
    BY DEF TypeOK, OtaTypeOK, Entries
  <2>5. \A i \in Entry : i # p /\ Live(i) => Valid(i) /\ otadata[i].seq < otadata[p].seq
    BY <2>1, <2>2, <2>4 DEF NewestOK, Live, Valid
  <2>6. Active(otadata) = p
    <3>1. /\ Active(otadata) \in Entry
          /\ otadata[Active(otadata)].state \notin {"erased", "aborted"}
          /\ otadata[p].seq <= otadata[Active(otadata)].seq
      BY <2>2, <2>4, ActiveFacts
    <3>2. Live(Active(otadata))
      BY <2>4, <3>1 DEF Live, EntryStates
    <3> QED
      BY <2>4, <2>5, <3>1, <3>2
  <2>7. /\ otadata'[p].state = "valid" /\ otadata'[p].seq = otadata[p].seq
        /\ \A i \in Entry : i # p => otadata'[i] = otadata[i]
    BY <1>1, <2>4, <2>6 DEF Entries
  <2>8. \A i \in Entry : i # p /\ Live(i)' => Valid(i)' /\ otadata'[i].seq < otadata'[p].seq
    BY <2>5, <2>7 DEF Live, Valid
  <2>9. NewestOK'
    <3> SUFFICES ASSUME NEW i \in Entry, NEW j \in Entry, i # j, Live(i)', Live(j)'
                 PROVE  /\ otadata'[i].seq # otadata'[j].seq /\ (Valid(i)' \/ Valid(j)')
                        /\ otadata'[j].seq < otadata'[i].seq => Valid(j)'
      BY DEF NewestOK
    <3>1. i = p \/ j = p
      BY DEF Entry
    <3>2. Valid(p)'
      BY <2>7 DEF Valid
    <3>3. CASE i = p
      BY <2>4, <2>7, <2>8, <3>2, <3>3
    <3>4. CASE j = p
      BY <2>4, <2>7, <2>8, <3>2, <3>4
    <3> QED
      BY <3>1, <3>3, <3>4
  <2>10. ConfirmedOK'
    <3>1. Whole(image[confirmed])'
      BY <1>1, <2>3 DEF Whole
    <3>2. ASSUME NEW i \in Entry, Valid(i)',
                 \A j \in Entry : Valid(j)' => otadata'[j].seq <= otadata'[i].seq
          PROVE  SlotOf(otadata'[i].seq) = confirmed'
      <4>1. Valid(p)' /\ Live(i)'
        BY <2>7, <3>2 DEF Valid, Live
      <4>2. otadata'[p].seq <= otadata'[i].seq
        BY <3>2, <4>1
      <4>3. i = p
        BY <2>4, <2>5, <2>7, <2>8, <4>1, <4>2
      <4> QED
        BY <1>1, <2>3, <2>7, <4>3
    <3>3. Valid(p)'
      BY <2>7 DEF Valid
    <3> QED
      BY <3>1, <3>2, <3>3 DEF ConfirmedOK
  <2>11. TrialOK' /\ RunningOK'
    BY <1>1, <2>7, <2>8 DEF TrialOK, RunningOK, Live, Valid
  <2> QED
    BY <2>9, <2>10, <2>11
<1> QED
  BY <1>1, <1>3, <1>4, <1>5 DEF FlashInv, EntriesOK


-----------------------------------------------------------------------------
(* The types of every step, and the invariance of all that.                *)

\* Every step of do_ota keeps the types.
LEMMA OtaTypeStep ==
    ASSUME TypeOK, FlashInv, BoundOK, OtaStep PROVE OtaTypeOK' /\ BoundOK'
<1> USE SizeAssumption, BoundAssumption
<1> USE DEF history, download, flash, Fails, NoProgress
<1> DEFINE Images == [Slots -> Seq([release : Releases \cup {0}, at : Nat])]
           Ranges == [from : 0..Units, at : 0..Units, end : 0..Units]
<1>1. /\ image \in Images /\ otadata \in Entries /\ range \in Ranges
      /\ running \in Slots /\ target \in Slots \ {"factory"} /\ release \in Releases
  BY DEF TypeOK, OtaTypeOK, Entries
<1>2. /\ attempt \in 0..MaxAttempts /\ retries \in 0..MaxRetries /\ offset \in 0..Units
      /\ updates \in 0..MaxUpdates /\ badSwitch \in BOOLEAN
      /\ ota \in {"idle", "head", "begin", "get", "read", "end", "erase", "write", "restart"}
  BY DEF TypeOK, OtaTypeOK
<1>3. ota = "read" => range.at = offset /\ offset + 1 <= range.end /\ range.end <= Units
                      /\ offset \in Nat /\ range.end \in Nat /\ Units \in Nat
  <2>1. ota = "read" => range.at = offset /\ offset < range.end
    BY DEF FlashInv, DownloadOK
  <2>2. range.end \in 0..Units /\ offset \in 0..Units
    BY <1>1, <1>2
  <2>3. Units \in Nat
    OBVIOUS
  <2> QED
    BY <2>1, <2>2, <2>3
<1>4. image' \in Images
  <2>1. CASE Begin
    <3>1. <<>> \in Seq([release : Releases \cup {0}, at : Nat])
      OBVIOUS
    <3> QED
      BY <1>1, <2>1, <3>1 DEF Begin
  <2>2. CASE Read
    <3>1. Unit(release, range.at + 1) \in [release : Releases \cup {0}, at : Nat]
      <4>1. release \in Releases /\ range.at + 1 \in Nat
        BY <1>1, <1>3, <2>2 DEF Read
      <4> QED
        BY <4>1 DEF Unit
    <3>2. image[target] \in Seq([release : Releases \cup {0}, at : Nat])
      BY <1>1
    <3>3. Append(image[target], Unit(release, range.at + 1))
            \in Seq([release : Releases \cup {0}, at : Nat])
      BY <3>1, <3>2
    <3>4. image' = [image EXCEPT ![target] = Append(image[target], Unit(release, range.at + 1))]
      BY <2>2 DEF Read
    <3> QED
      BY <1>1, <3>3, <3>4
  <2>3. CASE ~Begin /\ ~Read
    <3>1. image' = image
      BY <2>3 DEF OtaStep, AskLength, Get, GetFails, ReadFails, End, EraseEntry, WriteEntry
    <3> QED
      BY <1>1, <3>1
  <2> QED
    BY <2>1, <2>2, <2>3
<1>5. otadata' \in Entries
  <2>1. CASE EraseEntry
    BY <1>1, <2>1 DEF EraseEntry, Entries, NoEntry, EntryStates
  <2>2. CASE WriteEntry
    <3>1. target \in {"ota0", "ota1"}
      BY <1>1 DEF Slots
    <3>2. NewSeq(otadata) \in Nat
      BY <1>1, <3>1, NewSeqFacts
    <3> QED
      BY <1>1, <2>2, <3>2 DEF WriteEntry, Entries, EntryStates
  <2>3. CASE ~EraseEntry /\ ~WriteEntry
    <3>1. otadata' = otadata
      BY <2>3 DEF OtaStep, AskLength, Begin, Get, GetFails, Read, ReadFails, End
    <3> QED
      BY <1>1, <3>1
  <2> QED
    BY <2>1, <2>2, <2>3
<1>6. range' \in Ranges
  <2>1. CASE Get
    BY <2>1, GetFacts DEF FlashInv, DownloadOK, Get
  <2>2. CASE Read
    <3>1. range' = [range EXCEPT !.at = range.at + 1] /\ ota = "read"
      BY <2>2 DEF Read
    <3>2. range.at + 1 \in 0..Units
      BY <1>3, <3>1
    <3> QED
      BY <1>1, <3>1, <3>2
  <2>3. CASE ~Get /\ ~Read
    <3>1. range' = range
      BY <2>3 DEF OtaStep, AskLength, Begin, GetFails, ReadFails, End, EraseEntry, WriteEntry
    <3> QED
      BY <1>1, <3>1
  <2> QED
    BY <2>1, <2>2, <2>3
<1>7. target' \in Slots \ {"factory"} /\ running' = running /\ release' = release
  BY <1>1, NextSlotFacts DEF OtaStep, AskLength, Begin, Get, GetFails, Read, ReadFails, End,
     EraseEntry, WriteEntry, Slots
<1>8. attempt' \in 0..MaxAttempts
  BY <1>2 DEF OtaStep, AskLength, Begin, Get, GetFails, Read, ReadFails, End, EraseEntry,
     WriteEntry
<1>9. retries' \in 0..MaxRetries
  BY <1>2 DEF OtaStep, AskLength, Begin, Get, GetFails, Read, ReadFails, End, EraseEntry,
     WriteEntry
<1>10. offset' \in 0..Units
  <2>1. CASE Read
    <3>1. ota = "read" /\ offset' = offset + 1
      BY <2>1 DEF Read
    <3> QED
      BY <1>3, <3>1
  <2>2. CASE ~Read
    BY <1>2, <2>2 DEF OtaStep, AskLength, Begin, Get, GetFails, ReadFails, End, EraseEntry,
       WriteEntry
  <2> QED
    BY <2>1, <2>2
<1>11. ota' \in {"idle", "head", "begin", "get", "read", "end", "erase", "write", "restart"}
  BY <1>2 DEF OtaStep, AskLength, Begin, Get, GetFails, Read, ReadFails, End, EraseEntry,
     WriteEntry
<1>12. updates' \in 0..MaxUpdates /\ badSwitch' \in BOOLEAN /\ BoundOK'
  <2>1. CASE End
    <3>1. updates' \in 0..MaxUpdates /\ BoundOK'
      BY <1>2, <2>1 DEF End, BoundOK
    <3>2. badSwitch' \in BOOLEAN
      BY <1>2, <2>1 DEF End
    <3> QED
      BY <3>1, <3>2
  <2>2. CASE ~End
    <3>1. UNCHANGED <<updates, badSwitch>>
      BY <2>2 DEF OtaStep, AskLength, Begin, Get, GetFails, Read, ReadFails, EraseEntry,
         WriteEntry
    <3>2. ota' \in {"head", "begin", "get", "read", "end"} =>
            ota \in {"head", "begin", "get", "read", "end"}
      BY <2>2 DEF OtaStep, AskLength, Begin, Get, GetFails, Read, ReadFails, EraseEntry,
         WriteEntry
    <3> QED
      BY <1>2, <3>1, <3>2 DEF BoundOK
  <2> QED
    BY <2>1, <2>2
<1> QED
  BY <1>1, <1>4, <1>5, <1>6, <1>7, <1>8, <1>9, <1>10, <1>11, <1>12 DEF OtaTypeOK, Entries

\* A step that keeps the update and the flash keeps their types.
LEMMA SameOta == ASSUME OtaTypeOK, UNCHANGED otaVars PROVE OtaTypeOK'
  BY DEF OtaTypeOK, otaVars, flash, history, download

\* The steps of the boot and of the user that leave the update alone.
QuietBoot == \/ TakeReset \/ EraseNvs \/ EnterSetup \/ SafeBoot \/ DeferBle \/ EnterOtaMinimal
             \/ NoWifi \/ Connected \/ ManualOff \/ BleOnlyBoot \/ StartApp \/ StartMenu
             \/ EndSetup
QuietUser == ChooseNetwork \/ StoreUser \/ ToggleWifi \/ ToggleAutoUpdate \/ Validate
             \/ LinkChanges

\* The steps of app_main that leave update and flash alone keep the invariant ...
LEMMA QuietBootStep == ASSUME IInv, QuietBoot PROVE IInv'
<1> USE DEF Go, ram, Ended, Screens, EnsureProfile, Marks, Blank
<1>0. TypeOK /\ OtaTypeOK /\ FlashInv /\ BoundOK
  BY DEF IInv, TypeOK
<1>1. UNCHANGED <<otaVars, confirmed, resets>> /\ (validator' = "mark" => Pending)
      /\ validator' \in {validator, "wait"}
  BY <1>0 DEF QuietBoot, TakeReset, EraseNvs, EnterSetup, SafeBoot, DeferBle, EnterOtaMinimal,
     NoWifi, Connected, ManualOff, BleOnlyBoot, StartApp, StartMenu, EndSetup, FlashInv, MarkOK
<1>2. FlashInv'
  BY <1>0, <1>1, QuietStep
<1>3. OtaTypeOK' /\ BoundOK'
  BY <1>0, <1>1, SameOta DEF BoundOK, otaVars, history
<1>4. rtc' \subseteq Marks
  BY <1>0 DEF QuietBoot, TakeReset, EraseNvs, EnterSetup, SafeBoot, DeferBle, EnterOtaMinimal,
     NoWifi, Connected, ManualOff, BleOnlyBoot, StartApp, StartMenu, EndSetup, TypeOK
<1>5. nvs' \in Keys
  <2>1. nvs \in Keys
    BY <1>0 DEF TypeOK, Keys
  <2>2. \/ nvs' = nvs \/ nvs' = Blank
        \/ \E b \in BOOLEAN : nvs' = [nvs EXCEPT !.setup = b] \/ nvs' = [nvs EXCEPT !.off = b]
    <3>1. CASE EnterSetup
      <4>1. nvs' = [nvs EXCEPT !.setup = (nvs.setup \/ ~nvs.user)]
        BY <3>1 DEF EnterSetup
      <4>2. (nvs.setup \/ ~nvs.user) \in BOOLEAN
        OBVIOUS
      <4> QED
        BY <4>1, <4>2
    <3>2. CASE EraseNvs \/ SafeBoot \/ DeferBle \/ EnterOtaMinimal \/ EndSetup
      BY <3>2 DEF EraseNvs, SafeBoot, DeferBle, EnterOtaMinimal, EndSetup
    <3>3. CASE TakeReset \/ NoWifi \/ Connected \/ ManualOff \/ BleOnlyBoot \/ StartApp \/ StartMenu
      BY <3>3 DEF TakeReset, NoWifi, Connected, ManualOff, BleOnlyBoot, StartApp, StartMenu
    <3> QED
      BY <3>1, <3>2, <3>3 DEF QuietBoot
  <2>3. Blank \in Keys
    BY DEF Blank, Keys
  <2>4. \A b \in BOOLEAN : [nvs EXCEPT !.setup = b] \in Keys /\ [nvs EXCEPT !.off = b] \in Keys
    BY <2>1 DEF Keys
  <2> QED
    BY <2>1, <2>2, <2>3, <2>4
<1>6. /\ defer' \in BOOLEAN /\ ble' \in BOOLEAN /\ bleOnly' \in BOOLEAN /\ link' \in BOOLEAN
      /\ background' \in BOOLEAN
  BY <1>0 DEF QuietBoot, TakeReset, EraseNvs, EnterSetup, SafeBoot, DeferBle, EnterOtaMinimal,
     NoWifi, Connected, ManualOff, BleOnlyBoot, StartApp, StartMenu, EndSetup, TypeOK
<1>7. pc' \in Ended \cup {"start", "erase", "mark", "magics", "safe", "mode", "otawifi",
                "otacheck", "otarun", "bleboot", "app", "tasks", "stored"}
  BY <1>0 DEF QuietBoot, TakeReset, EraseNvs, EnterSetup, SafeBoot, DeferBle, EnterOtaMinimal,
     NoWifi, Connected, ManualOff, BleOnlyBoot, StartApp, StartMenu, EndSetup, TypeOK
<1> QED
  BY <1>0, <1>1, <1>2, <1>3, <1>4, <1>5, <1>6, <1>7 DEF IInv, TypeOK, Keys

\* ... and so do those of the user and of the validation task.
LEMMA QuietUserStep == ASSUME IInv, QuietUser PROVE IInv'
<1> USE DEF Ended, Screens
<1>0. TypeOK /\ OtaTypeOK /\ FlashInv /\ BoundOK
  BY DEF IInv, TypeOK
<1>1. UNCHANGED <<otaVars, confirmed, resets>> /\ (validator' = "mark" => Pending)
      /\ validator' \in {validator, "mark", "none"}
  BY <1>0 DEF QuietUser, ChooseNetwork, StoreUser, ToggleWifi, ToggleAutoUpdate, Validate,
     LinkChanges, FlashInv, MarkOK, Go, ram
<1>2. FlashInv'
  BY <1>0, <1>1, QuietStep
<1>3. OtaTypeOK' /\ BoundOK'
  BY <1>0, <1>1, SameOta DEF BoundOK, otaVars, history
<1>4. rtc' \subseteq Marks
  BY <1>0 DEF QuietUser, ChooseNetwork, StoreUser, ToggleWifi, ToggleAutoUpdate, Validate,
     LinkChanges, Go, ram, TypeOK
<1>5. nvs' \in Keys
  BY <1>0 DEF QuietUser, ChooseNetwork, StoreUser, ToggleWifi, ToggleAutoUpdate, Validate,
     LinkChanges, Go, ram, TypeOK, Keys
<1>6. /\ defer' \in BOOLEAN /\ ble' \in BOOLEAN /\ bleOnly' \in BOOLEAN /\ link' \in BOOLEAN
      /\ background' \in BOOLEAN
  BY <1>0 DEF QuietUser, ChooseNetwork, StoreUser, ToggleWifi, ToggleAutoUpdate, Validate,
     LinkChanges, Go, ram, TypeOK
<1>7. pc' \in Ended \cup {"start", "erase", "mark", "magics", "safe", "mode", "otawifi",
                "otacheck", "otarun", "bleboot", "app", "tasks", "stored"}
  BY <1>0 DEF QuietUser, ChooseNetwork, StoreUser, ToggleWifi, ToggleAutoUpdate, Validate,
     LinkChanges, Go, ram, TypeOK
<1> QED
  BY <1>0, <1>1, <1>2, <1>3, <1>4, <1>5, <1>6, <1>7 DEF IInv, TypeOK, Keys

\* A restart, with whatever marks and keys it leaves.
LEMMA RestartInv ==
    ASSUME IInv, Restart, rtc' \subseteq Marks, nvs' \in Keys, resets' \in 0..MaxResets
    PROVE  IInv'
<1>1. TypeOK' /\ FlashInv'
  BY RestartTypes, RestartStep DEF IInv
<1>2. BoundOK'
  BY DEF Restart, BoundOK
<1> QED
  BY <1>1, <1>2 DEF IInv

\* The steps of the update, whatever drives it.
LEMMA UpdateInv ==
    ASSUME IInv, OtaStep, UNCHANGED bootVars PROVE IInv'
<1>1. TypeOK /\ FlashInv /\ BoundOK /\ UNCHANGED <<confirmed, validator>>
  BY DEF IInv, bootVars
<1>2. OtaTypeOK' /\ BoundOK'
  BY <1>1, OtaTypeStep
<1>3. FlashInv'
  BY <1>1, WaitingStep, BeginStep, ReadStep, EraseStep, WriteStep DEF OtaStep
<1>4. TypeOK'
  BY <1>1, <1>2 DEF TypeOK, bootVars
<1> QED
  BY <1>2, <1>3, <1>4 DEF IInv

\* A check that finds another version, and the version that is published.
LEMMA CheckInv ==
    ASSUME IInv, CheckUpdate \/ Publish, UNCHANGED <<confirmed, validator>>
    PROVE OtaTypeOK' /\ BoundOK' /\ FlashInv'
<1> USE DEF history, download, flash
<1>1. TypeOK /\ FlashInv /\ BoundOK
  BY DEF IInv
<1>2. FlashInv'
  BY <1>1, WaitingStep
<1>3. OtaTypeOK' /\ BoundOK'
  <2>1. CASE CheckUpdate
    <3>1. attempt' \in 0..MaxAttempts /\ ota' = "head" /\ updates < MaxUpdates
          /\ UNCHANGED <<image, otadata, running, release, retries, target, offset, range,
                         updates, badSwitch>>
      BY <2>1, SizeAssumption DEF CheckUpdate
    <3> QED
      BY <1>1, <3>1 DEF TypeOK, OtaTypeOK, BoundOK
  <2>2. CASE Publish
    <3>1. release' \in Releases
          /\ UNCHANGED <<image, otadata, running, ota, attempt, retries, target, offset,
                         range, updates, badSwitch>>
      BY <2>2 DEF Publish
    <3> QED
      BY <1>1, <3>1 DEF TypeOK, OtaTypeOK, BoundOK
  <2> QED
    BY <2>1, <2>2
<1> QED
  BY <1>2, <1>3

\* The confirmation.
LEMMA MarkInv == ASSUME IInv, Mark PROVE IInv'
<1>1. TypeOK /\ FlashInv /\ BoundOK
  BY DEF IInv
<1>2. FlashInv'
  BY <1>1, MarkStep
<1>3. otadata' \in Entries
  <2>1. otadata \in Entries
    BY <1>1 DEF TypeOK, OtaTypeOK, Entries
  <2>2. otadata' = [otadata EXCEPT ![Active(otadata)].state = "valid"]
    BY DEF Mark, MarkValid
  <2> QED
    BY <2>1, <2>2 DEF Entries, EntryStates
<1>4. /\ validator' = "none" /\ confirmed' = running
      /\ UNCHANGED <<image, running, history, ota, download,
                     pc, rtc, nvs, defer, ble, bleOnly, link, background, resets>>
  BY DEF Mark
<1>5. OtaTypeOK' /\ BoundOK'
  BY <1>1, <1>3, <1>4 DEF TypeOK, OtaTypeOK, BoundOK, Entries, history, download
<1>6. running \in Slots
  BY <1>1 DEF TypeOK, OtaTypeOK
<1>7. TypeOK'
  BY <1>1, <1>4, <1>5, <1>6 DEF TypeOK
<1> QED
  BY <1>2, <1>5, <1>7 DEF IInv

-----------------------------------------------------------------------------
\* A device as it leaves the factory.
LEMMA InitInv == Init => IInv
<1> SUFFICES ASSUME Init PROVE IInv
  OBVIOUS
<1>1. /\ image = [s \in Slots |-> IF s = "factory" THEN ImageOf(0) ELSE <<>>]
      /\ otadata = [i \in Entry |-> NoEntry] /\ release \in Releases
      /\ ota = "idle" /\ running = "factory" /\ confirmed = "factory" /\ validator = "none"
  BY DEF Init, OtaInit
<1>2. image \in [Slots -> Seq([release : Releases \cup {0}, at : Nat])]
  <2>1. ImageOf(0) \in Seq([release : Releases \cup {0}, at : Nat])
    BY SizeAssumption DEF ImageOf, Unit
  <2>2. <<>> \in Seq([release : Releases \cup {0}, at : Nat])
    OBVIOUS
  <2> QED
    BY <1>1, <2>1, <2>2
<1>3. otadata \in [Entry -> [seq : Nat, state : EntryStates]]
  BY <1>1 DEF NoEntry, EntryStates
<1>4. range \in [from : 0..Units, at : 0..Units, end : 0..Units]
  BY SizeAssumption DEF Init, OtaInit
<1>5. attempt \in 0..MaxAttempts /\ retries \in 0..MaxRetries /\ offset \in 0..Units
      /\ updates \in 0..MaxUpdates /\ badSwitch \in BOOLEAN
      /\ running \in Slots /\ target \in Slots \ {"factory"} /\ confirmed \in Slots
  <2>1. attempt = 0 /\ retries = 0 /\ offset = 0 /\ updates = 0 /\ badSwitch = FALSE
        /\ running = "factory" /\ target = "ota0" /\ confirmed = "factory"
    BY DEF Init, OtaInit
  <2>2. 0 \in 0..MaxAttempts /\ 0 \in 0..MaxRetries /\ 0 \in 0..Units /\ 0 \in 0..MaxUpdates
    BY SizeAssumption, BoundAssumption
  <2>3. running \in Slots /\ target \in Slots \ {"factory"} /\ confirmed \in Slots
    BY <2>1 DEF Slots
  <2>4. badSwitch \in BOOLEAN
    BY <2>1
  <2> QED
    BY <2>1, <2>2, <2>3, <2>4
<1>6. nvs \in Keys /\ rtc \subseteq Marks /\ resets \in 0..MaxResets
  BY ResetsAssumption DEF Init, Blank, Keys
<1>7. TypeOK
  <2>1. OtaTypeOK
    BY <1>1, <1>2, <1>3, <1>4, <1>5 DEF OtaTypeOK
  <2>2. pc = "start" /\ defer = FALSE /\ ble = FALSE /\ bleOnly = FALSE /\ link = FALSE
        /\ background = FALSE
    BY DEF Init
  <2> QED
    BY <1>1, <1>5, <1>6, <2>1, <2>2 DEF TypeOK, Keys
<1>8. FactoryOK /\ InOrder
  <2>1. FactoryOK
    BY <1>1 DEF FactoryOK, Slots
  <2>2. InOrder
    <3> SUFFICES ASSUME NEW s \in Slots, NEW i \in DOMAIN image[s] PROVE image[s][i].at = i
      BY DEF InOrder
    <3>1. image[s] = IF s = "factory" THEN ImageOf(0) ELSE <<>>
      BY <1>1
    <3>2. image[s] = ImageOf(0)
      BY <3>1
    <3> QED
      BY <3>2 DEF ImageOf, Unit
  <2> QED
    BY <2>1, <2>2
<1>9. DownloadOK /\ UpdateOK /\ MarkOK /\ WholeOK /\ RestartOK /\ BoundOK
  BY <1>1, <1>8 DEF DownloadOK, UpdateOK, MarkOK, WholeOK, RestartOK, BoundOK, Updating
<1>10. EntriesOK
  <2>1. \A i \in Entry : otadata[i].state = "erased"
    BY <1>1 DEF NoEntry
  <2>2. NewestOK /\ TrialOK /\ RunningOK
    BY <1>1, <2>1 DEF NewestOK, TrialOK, RunningOK, Live
  <2>3. Whole(image["factory"])
    BY <1>1 DEF Whole, Slots
  <2>4. ConfirmedOK
    BY <1>1, <2>1, <2>3 DEF ConfirmedOK, Valid
  <2> QED
    BY <2>2, <2>4 DEF EntriesOK
<1> QED
  BY <1>7, <1>8, <1>9, <1>10 DEF IInv, FlashInv

\* Every step keeps the invariant.
LEMMA InvStep == IInv /\ [Next]_vars => IInv'
<1> SUFFICES ASSUME IInv, [Next]_vars PROVE IInv'
  OBVIOUS
<1>0. TypeOK /\ nvs \in Keys /\ rtc \subseteq Marks /\ resets \in 0..MaxResets
  BY DEF IInv, TypeOK, Keys
<1>1. CASE QuietBoot
  BY <1>1, QuietBootStep
<1>2. CASE QuietUser
  BY <1>2, QuietUserStep
<1>3. CASE OtaMinimalEnds \/ SafeBootEnds \/ OtaRestarts
  <2>1. Restart /\ UNCHANGED <<rtc, nvs, resets>>
    BY <1>3 DEF OtaMinimalEnds, SafeBootEnds, OtaRestarts
  <2> QED
    BY <1>0, <2>1, RestartInv
<1>4. CASE MarkSafeBoot
  <2>1. Restart /\ resets' = resets /\ rtc' = rtc \cup {"prsb", "dbo1"}
        /\ nvs' = [nvs EXCEPT !.setup = TRUE]
    BY <1>4 DEF MarkSafeBoot
  <2>2. nvs' \in Keys
    BY <1>0, <2>1 DEF Keys
  <2>3. rtc' \subseteq Marks
    BY <1>0, <2>1 DEF Marks
  <2> QED
    BY <1>0, <2>1, <2>2, <2>3, RestartInv
<1>5. CASE OtaMinimalWifi
  <2>1. CASE Restart /\ UNCHANGED <<rtc, nvs>>
    BY <1>0, <1>5, <2>1, RestartInv DEF OtaMinimalWifi
  <2>2. CASE /\ pc' = "otacheck" /\ link' = TRUE
             /\ UNCHANGED <<otaVars, rtc, nvs, defer, ble, bleOnly, validator, background,
                            confirmed, resets>>
    <3>1. OtaTypeOK' /\ BoundOK'
      BY <1>0, <2>2, SameOta DEF IInv, TypeOK, BoundOK, otaVars, history
    <3>2. FlashInv'
      BY <2>2, QuietStep DEF IInv, FlashInv, MarkOK
    <3>3. TypeOK'
      BY <1>0, <2>2, <3>1 DEF TypeOK
    <3> QED
      BY <3>1, <3>2, <3>3 DEF IInv
  <2> QED
    BY <1>5, <2>1, <2>2 DEF OtaMinimalWifi
<1>6. CASE OtaMinimalCheck
  <2>1. CASE Restart /\ UNCHANGED <<rtc, nvs>>
    BY <1>0, <1>6, <2>1, RestartInv DEF OtaMinimalCheck
  <2>2. CASE CheckUpdate /\ pc' = "otarun" /\ UNCHANGED <<rtc, nvs, ram, confirmed, resets>>
    <3>1. OtaTypeOK' /\ BoundOK' /\ FlashInv'
      BY <2>2, CheckInv DEF ram
    <3>2. TypeOK'
      BY <1>0, <2>2, <3>1 DEF TypeOK, ram
    <3> QED
      BY <3>1, <3>2 DEF IInv
  <2> QED
    BY <1>6, <2>1, <2>2 DEF OtaMinimalCheck
<1>7. CASE UpdateNow \/ FactoryReset
  <2>1. Restart /\ UNCHANGED <<nvs, resets>> /\ rtc' \subseteq Marks
    BY <1>0, <1>7 DEF UpdateNow, FactoryReset, Marks
  <2> QED
    BY <1>0, <2>1, RestartInv
<1>8. CASE OtaGoesOn
  BY <1>8, UpdateInv DEF OtaGoesOn
<1>9. CASE BackgroundCheck \/ (Publish /\ UNCHANGED bootVars)
  <2>1. (CheckUpdate \/ Publish) /\ UNCHANGED bootVars
    BY <1>9 DEF BackgroundCheck
  <2>2. OtaTypeOK' /\ BoundOK' /\ FlashInv'
    BY <2>1, CheckInv DEF bootVars
  <2>3. TypeOK'
    BY <1>0, <2>1, <2>2 DEF TypeOK, bootVars
  <2> QED
    BY <2>2, <2>3 DEF IInv
<1>10. CASE Mark
  BY <1>10, MarkInv
<1>11. CASE Reset
  <2>1. Restart /\ UNCHANGED nvs /\ rtc' \subseteq Marks
    BY <1>0, <1>11 DEF Reset
  <2>2. resets' \in 0..MaxResets
    BY <1>0, <1>11, ResetsAssumption DEF Reset
  <2> QED
    BY <1>0, <2>1, <2>2, RestartInv
<1>12. CASE UNCHANGED vars
  <2>1. UNCHANGED otaVars /\ UNCHANGED bootVars
    BY <1>12 DEF vars
  <2>2. OtaTypeOK' /\ BoundOK'
    BY <1>0, <2>1, SameOta DEF IInv, TypeOK, BoundOK, otaVars, history
  <2>3. FlashInv'
    BY <2>1, QuietStep DEF IInv, FlashInv, MarkOK, bootVars
  <2>4. TypeOK'
    BY <1>0, <2>1, <2>2 DEF TypeOK, bootVars
  <2> QED
    BY <2>2, <2>3, <2>4 DEF IInv
<1> QED
  BY <1>1, <1>2, <1>3, <1>4, <1>5, <1>6, <1>7, <1>8, <1>9, <1>10, <1>11, <1>12
  DEF Next, BootStep, UserStep, QuietBoot, QuietUser

\* The invariant holds in every state of every behaviour.
LEMMA Invariance == Spec => []IInv
  BY InitInv, InvStep, PTL DEF Spec

\* The variables keep their types, however often the device restarts.
THEOREM TypeCorrect == Spec => []TypeOK
<1>1. IInv => TypeOK
  BY DEF IInv
<1> QED
  BY <1>1, Invariance, PTL

\* Every block of every image is where it belongs: ranges that break off, the answer
\* 200 and new attempts included (download_and_write, ota_client.cpp).
THEOREM BlocksInOrder == Spec => []InOrder
<1>1. IInv => InOrder
  BY DEF IInv, FlashInv, DownloadOK
<1> QED
  BY <1>1, Invariance, PTL

\* What set_boot_partition_unverified has written makes the bootloader choose the
\* image just downloaded, whatever the two entries held.
THEOREM UpdateIsBooted == Spec => []UpdateBoots
<1>1. IInv => UpdateBoots
  <2> SUFFICES ASSUME IInv, ota = "restart" PROVE Selected(otadata) = target
    BY DEF UpdateBoots
  <2>1. PICK j \in Entry :
          /\ otadata[j].state \in {"new", "valid"} /\ SlotOf(otadata[j].seq) = target
          /\ \A i \in Entry : Live(i) => otadata[i].seq <= otadata[j].seq
    BY DEF IInv, FlashInv, RestartOK
  <2>2. otadata \in Entries
    BY DEF IInv, TypeOK, OtaTypeOK, Entries
  <2>3. \A i \in Entry : otadata[i].state \in {"new", "valid"} => otadata[i].seq <= otadata[j].seq
    BY <2>1 DEF Live
  <2> QED
    BY <2>1, <2>2, <2>3, SelectedNewest
<1> QED
  BY <1>1, Invariance, PTL

\* Were the images that are not confirmed refused, the device would start the one it
\* confirmed last, and that one is whole: in every state of an update, of a
\* confirmation and of a reset.
THEOREM Survives == Spec => []ConfirmedSurvives
<1>1. IInv => ConfirmedSurvives
  <2> SUFFICES ASSUME IInv, ~badSwitch PROVE Fallback = confirmed /\ Whole(image[confirmed])
    BY DEF ConfirmedSurvives
  <2> DEFINE es == [i \in Entry |->
        IF otadata[i].state = "new" THEN [otadata[i] EXCEPT !.state = "aborted"] ELSE otadata[i]]
  <2>1. TypeOK /\ ConfirmedOK
    BY DEF IInv, FlashInv, EntriesOK
  <2>2. otadata \in Entries
    BY <2>1 DEF TypeOK, OtaTypeOK, Entries
  <2>3. /\ es \in Entries
        /\ \A i \in Entry : /\ es[i].seq = otadata[i].seq
                            /\ es[i].state \in {"new", "valid"} <=> Valid(i)
    BY <2>2 DEF Entries, EntryStates, Valid
  <2>4. Fallback = Loadable(Selected(es))
    BY DEF Fallback
  <2> HIDE DEF es
  <2>5. Selected(es) = confirmed
    <3>1. CASE \E k \in Entry : Valid(k)
      <4>1. PICK j \in Entry :
              Valid(j) /\ \A i \in Entry : Valid(i) => otadata[i].seq <= otadata[j].seq
        BY <2>1, <3>1, NewestValid
      <4>2. /\ es[j].state \in {"new", "valid"}
            /\ \A i \in Entry : es[i].state \in {"new", "valid"} => es[i].seq <= es[j].seq
        BY <2>3, <4>1
      <4>3. Selected(es) = SlotOf(otadata[j].seq)
        BY <2>3, <4>2, SelectedNewest
      <4> QED
        BY <2>1, <4>1, <4>3 DEF ConfirmedOK
    <3>2. CASE \A k \in Entry : ~Valid(k)
      BY <2>1, <2>3, <3>2, SelectedNone DEF ConfirmedOK
    <3> QED
      BY <3>1, <3>2
  <2>6. Whole(image[confirmed])
    BY <2>1 DEF ConfirmedOK
  <2> QED
    BY <2>4, <2>5, <2>6 DEF Loadable
<1> QED
  BY <1>1, Invariance, PTL
=============================================================================
