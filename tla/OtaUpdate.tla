----------------------------- MODULE OtaUpdate -----------------------------
(***************************************************************************)
(* The firmware update of components/services/ota_update/ota_client.cpp:   *)
(* the check of the manifest, the download by ranges with its retries, and *)
(* the choice of the slot to boot next.  The table of partitions has the   *)
(* factory image and two slots; otadata holds two entries, each in a       *)
(* sector of its own, and the bootloader boots the slot that the entry     *)
(* with the larger sequence number names (CONFIG_BOOTLOADER_APP_ROLLBACK_  *)
(* ENABLE is set in sdkconfig.defaults).  ESP-IDF's bootloader and         *)
(* esp_ota_* functions are external, as is the server.                     *)
(*                                                                         *)
(* A unit of an image stands for a block that arrives in one read; a range *)
(* asks for up to Chunk of them.  Module BootFlow adds what runs the       *)
(* update and what a restart does.                                         *)
(***************************************************************************)
EXTENDS Integers, Sequences, FiniteSetsExt

CONSTANTS
    Releases,    \* firmware versions the server may offer; the factory's is 0
    Units,       \* units of an image
    Chunk,       \* kRangeChunkSize, in units
    MaxRetries,  \* kRangeNoProgressMaxRetries
    MaxAttempts, \* kOtaMaxAttempts
    MaxUpdates   \* bound: images written completely

ASSUME ReleasesAssumption == Releases \subseteq Nat \ {0}
ASSUME SizeAssumption ==
    Units \in Nat \ {0} /\ Chunk \in Nat \ {0} /\ MaxAttempts \in Nat \ {0}
ASSUME BoundAssumption == MaxRetries \in Nat /\ MaxUpdates \in Nat

Slots == {"factory", "ota0", "ota1"}
Entry == {0, 1}

VARIABLES
    image,    \* what each slot holds: the units written, each with its place
    otadata,  \* the two entries
    running,  \* the slot of the running app
    release,  \* the version the server offers
    ota,      \* where do_ota is
    attempt, retries,
    target,   \* update_partition
    offset,   \* bytes received, in units
    range,    \* offset it was asked at, next unit of the file it brings, and its end
    updates,  \* images written
    badSwitch \* history: a slot was chosen whose image is not whole

download == <<attempt, retries, target, offset, range>>
flash    == <<image, otadata, running>>
history  == <<release, updates, badSwitch>>
otaVars  == <<flash, history, ota, download>>

Unit(v, i) == [release |-> v, at |-> i]
ImageOf(v) == [i \in 1..Units |-> Unit(v, i)]
Whole(img) == \E v \in Releases \cup {0} : img = ImageOf(v)
NoEntry    == [seq |-> 0, state |-> "erased"]

-----------------------------------------------------------------------------
(* The bootloader.                                                         *)

SlotOf(seq) == IF seq % 2 = 1 THEN "ota0" ELSE "ota1"
IndexOf(slot) == IF slot = "ota0" THEN 0 ELSE 1

\* bootloader_common_get_active_otadata: -1 if no entry can be used.
Active(es) ==
    LET usable == {i \in Entry : es[i].state \notin {"erased", "aborted"}}
        newest == {i \in usable : \A j \in usable : es[j].seq <= es[i].seq}
    IN IF usable = {} THEN -1 ELSE Min(newest)

\* An image that was started and not confirmed is aborted on the next start, and one
\* that is new gets its chance.
Aborted(es) == [i \in Entry |->
    IF es[i].state = "pending" THEN [es[i] EXCEPT !.state = "aborted"] ELSE es[i]]
Tried(es) ==
    LET old == Aborted(es) IN
    [i \in Entry |-> IF i = Active(old) /\ old[i].state = "new"
                     THEN [old[i] EXCEPT !.state = "pending"] ELSE old[i]]

Selected(es) == LET i == Active(Aborted(es)) IN
                IF i = -1 THEN "factory" ELSE SlotOf(es[i].seq)

\* From the selected slot the loader goes down to the factory image until it finds
\* an image that verifies.
Loadable(slot) ==
    IF Whole(image[slot]) THEN slot
    ELSE IF slot = "ota1" /\ Whole(image["ota0"]) THEN "ota0" ELSE "factory"

\* What a restart does to the flash.
BootImage == otadata' = Tried(otadata) /\ running' = Loadable(Selected(otadata))

\* The state of the running app's own entry.
Pending == \E i \in Entry : /\ running # "factory" /\ SlotOf(otadata[i].seq) = running
                            /\ otadata[i].state = "pending"

\* esp_ota_mark_app_valid_cancel_rollback
MarkValid == otadata' = [otadata EXCEPT ![Active(otadata)].state = "valid"]

\* esp_ota_get_next_update_partition
NextSlot == IF running = "ota0" THEN "ota1" ELSE "ota0"

-----------------------------------------------------------------------------
OtaInit ==
    /\ image = [s \in Slots |-> IF s = "factory" THEN ImageOf(0) ELSE <<>>]
    /\ otadata = [i \in Entry |-> NoEntry] /\ running = "factory"
    /\ release \in Releases
    /\ ota = "idle" /\ attempt = 0 /\ retries = 0 /\ target = "ota0"
    /\ offset = 0 /\ range = [from |-> 0, at |-> 0, end |-> 0]
    /\ updates = 0 /\ badSwitch = FALSE

Idle == ota = "idle"

\* A new version is published, in the middle of a download or not.
Publish == /\ \E v \in Releases : v > release /\ release' = v
           /\ UNCHANGED <<flash, ota, download, updates, badSwitch>>

\* check_and_update_once reads the manifest: any other version is newer (version_is_newer).
CheckUpdate ==
    /\ Idle /\ updates < MaxUpdates /\ image[running][1].release # release
    /\ ota' = "head" /\ attempt' = 1
    /\ UNCHANGED <<flash, history, retries, target, offset, range>>

\* One download_and_write has failed; do_ota tries kOtaMaxAttempts times.
Fails == IF attempt < MaxAttempts
         THEN ota' = "head" /\ attempt' = attempt + 1
         ELSE ota' = "idle" /\ UNCHANGED attempt

\* The length of the file.
AskLength ==
    /\ ota = "head"
    /\ \/ ota' = "begin" /\ UNCHANGED attempt
       \/ Fails
    /\ UNCHANGED <<flash, history, retries, target, offset, range>>

\* esp_ota_get_next_update_partition and esp_ota_begin, which refuses while the running
\* app is not confirmed and erases the slot.
Begin ==
    /\ ota = "begin"
    /\ IF Pending THEN Fails /\ UNCHANGED <<image, target, offset, retries>>
       ELSE /\ target' = NextSlot
            /\ image' = [image EXCEPT ![NextSlot] = <<>>]
            /\ offset' = 0 /\ retries' = 0 /\ ota' = "get" /\ UNCHANGED attempt
    /\ UNCHANGED <<otadata, running, history, range>>

\* A range that brought nothing is asked for again; too many in a row end the attempt.
NoProgress == IF retries < MaxRetries
              THEN retries' = retries + 1 /\ ota' = "get" /\ UNCHANGED attempt
              ELSE Fails /\ UNCHANGED retries

\* Mutant: the answer 200, which is the whole file, is taken at any offset.
GetAnyStatus ==
    /\ ota = "get" /\ ota' = "read"
    /\ \E start \in {0, offset} :
          range' = [from |-> offset, at |-> start, end |-> Min({offset + Chunk, Units})]
    /\ UNCHANGED <<flash, history, attempt, retries, target, offset>>

\* 206, or 200 at the start of the file, where the two are the same.
Get ==
    /\ ota = "get" /\ ota' = "read"
    /\ range' = [from |-> offset, at |-> offset, end |-> Min({offset + Chunk, Units})]
    /\ UNCHANGED <<flash, history, attempt, retries, target, offset>>

\* It cannot be opened, or the status is another.
GetFails ==
    /\ ota = "get" /\ NoProgress
    /\ UNCHANGED <<flash, history, target, offset, range>>

\* One block is read and written behind the last one.
Read ==
    /\ ota = "read"
    /\ image' = [image EXCEPT ![target] = Append(@, Unit(release, range.at + 1))]
    /\ offset' = offset + 1 /\ range' = [range EXCEPT !.at = @ + 1]
    /\ IF offset' < range.end THEN UNCHANGED <<ota, retries>>
       ELSE retries' = 0 /\ ota' = IF offset' < Units THEN "get" ELSE "end"
    /\ UNCHANGED <<otadata, running, history, attempt, target>>

\* The connection breaks.  What this range brought is kept, and the next one starts
\* behind it.
ReadFails ==
    /\ ota = "read"
    /\ IF offset > range.from THEN retries' = 0 /\ ota' = "get" /\ UNCHANGED attempt
       ELSE NoProgress
    /\ UNCHANGED <<flash, history, target, offset, range>>

\* esp_ota_end verifies the image.  Valid, it is selected by esp_ota_set_boot_partition,
\* which may fail; otherwise, or when the check lacks memory, by
\* set_boot_partition_unverified.
End ==
    /\ ota = "end"
    /\ \/ /\ ota' = "erase" /\ updates' = updates + 1
          /\ badSwitch' = (badSwitch \/ ~Whole(image[target]))
          /\ UNCHANGED attempt
       \/ Fails /\ UNCHANGED <<updates, badSwitch>>
    /\ UNCHANGED <<flash, release, retries, target, offset, range>>

\* Mutant: the entry that is active is replaced.
OtherIsActive(es) == IF Active(es) = -1 THEN 0 ELSE Active(es)

\* The entry that is not active is replaced, in two writes.
Other(es) == IF Active(es) = -1 THEN 0 ELSE 1 - Active(es)

EraseEntry ==
    /\ ota = "erase" /\ ota' = "write"
    /\ otadata' = [otadata EXCEPT ![Other(otadata)] = NoEntry]
    /\ UNCHANGED <<image, running, history, download>>

\* Mutant: the sequence number is that of the slot, whatever the active entry has.
NewSeqOfSlot(es) == IndexOf(target) + 1

\* The smallest number that stands for the target slot and is not below the active
\* entry's.
NewSeq(es) ==
    LET current == es[Active(es)].seq IN
    IF Active(es) = -1 THEN IndexOf(target) + 1
    ELSE CHOOSE n \in {current, current + 1} : SlotOf(n) = target

WriteEntry ==
    /\ ota = "write" /\ ota' = "restart"
    /\ otadata' = [otadata EXCEPT ![Other(otadata)] =
                      [seq |-> NewSeq(otadata), state |-> "new"]]
    /\ UNCHANGED <<image, running, history, download>>

OtaStep == AskLength \/ Begin \/ Get \/ GetFails \/ Read \/ ReadFails
           \/ End \/ EraseEntry \/ WriteEntry

EntryStates == {"erased", "new", "pending", "valid", "aborted"}
OtaTypeOK ==
    /\ image \in [Slots -> Seq([release : Releases \cup {0}, at : Nat])]
    /\ otadata \in [Entry -> [seq : Nat, state : EntryStates]]
    /\ running \in Slots /\ target \in Slots \ {"factory"} /\ release \in Releases
    /\ ota \in {"idle", "head", "begin", "get", "read", "end", "erase", "write", "restart"}
    /\ attempt \in 0..MaxAttempts /\ retries \in 0..MaxRetries
    /\ offset \in 0..Units /\ range \in [from : 0..Units, at : 0..Units, end : 0..Units]
    /\ updates \in 0..MaxUpdates /\ badSwitch \in BOOLEAN
=============================================================================
