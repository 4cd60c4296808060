------------------------------- MODULE OtaUpdate -------------------------------
(***************************************************************************)
(* runtime.mod/native/esp32_ota.c: update handles that write an image into *)
(* the slot that does not run and make it the one to boot; and, external,  *)
(* the slots, what ESP-IDF refuses, and the boot loader with rollback,     *)
(* which every board's sdkconfig enables.                                  *)
(*                                                                         *)
(* Functions are called by one task.  The chip may restart after any step; *)
(* no handle outlives that.  An image is ImageSize units of flash.         *)
(***************************************************************************)
EXTENDS Naturals

CONSTANTS
  Updates,      \* the handles, each begun again after it was destroyed
  SlotSize,     \* units of a partition
  ImageSize,    \* units of an image
  ExpectedSizes,\* asked of begin; 0: unknown
  WriteSizes

ASSUME OtaAssumption ==
  /\ SlotSize \in Nat /\ ImageSize \in 1 .. SlotSize
  /\ ExpectedSizes \subseteq Nat /\ WriteSizes \subseteq Nat

VARIABLES
  updates,    \* open, active, finished, written, expected_size, partition
  otaFlash,   \* by slot and unit: "blank", "mixed", or whose image it is of
  otaState,   \* by slot, the otadata: "new", "pending", "valid", "invalid"
  otaRunning, \* the slot that runs
  otaBoot     \* the slot to boot next

otaVars == <<updates, otaFlash, otaState, otaRunning, otaBoot>>
otaSlots == <<otaState, otaRunning, otaBoot>>

Partitions == {"ota0", "ota1"}
OtherSlot(slot) == IF slot = "ota0" THEN "ota1" ELSE "ota0"

NoUpdate == [open |-> FALSE, active |-> FALSE, finished |-> FALSE,
             written |-> 0, expected |-> 0, partition |-> "ota0"]

\* The image was there when the device was made, or one update wrote it whole.
Intact(slot) ==
  \E image \in Updates \cup {"factory"} :
    \A unit \in 1 .. ImageSize : otaFlash[slot][unit] = image

\* Whom the boot loader may return to.
Fallback(slot) == Intact(slot) /\ otaState[slot] = "valid"

----------------------------------------------------------------------------
(* bmx_esp32_ota_begin *)

\* Fault: the update goes to the slot to boot, not to the one after the running.
Fault_UpdateSlot == otaBoot

UpdateSlot == OtherSlot(otaRunning)

\* esp_ota_begin erases what is expected, or all; it refuses while the running
\* image is not confirmed.
OtaBegin(u, expected) ==
  /\ ~updates[u].open
  /\ expected <= SlotSize
  /\ otaState[otaRunning] # "pending"
  /\ updates' = [updates EXCEPT ![u] =
       [NoUpdate EXCEPT !.open = TRUE, !.active = TRUE, !.expected = expected,
                        !.partition = UpdateSlot]]
  /\ otaFlash' = [otaFlash EXCEPT ![UpdateSlot] =
       [unit \in 1 .. SlotSize |->
          IF expected = 0 \/ unit <= expected THEN "blank" ELSE @[unit]]]
  /\ UNCHANGED otaSlots

----------------------------------------------------------------------------
(* bmx_esp32_ota_write.  What was written and not erased mixes.            *)

\* Fault: only the slot's size is looked at.
Fault_Fits(u, size) == size <= SlotSize - updates[u].written

Fits(u, size) ==
  /\ size <= SlotSize - updates[u].written
  /\ updates[u].expected # 0 => size <= updates[u].expected - updates[u].written

Programmed(u, size, data) ==
  LET from == updates[u].written IN
  [otaFlash EXCEPT ![updates[u].partition] =
     [unit \in 1 .. SlotSize |->
        IF unit \notin from + 1 .. from + size THEN @[unit]
        ELSE IF @[unit] = "blank" THEN data ELSE "mixed"]]

OtaWrite(u, size) ==
  /\ updates[u].active
  /\ Fits(u, size)
  /\ otaFlash' = Programmed(u, size, u)
  /\ updates' = [updates EXCEPT ![u].written = @ + size]
  /\ UNCHANGED otaSlots

OtaWriteFails(u, size) ==
  /\ updates[u].active
  /\ Fits(u, size)
  /\ otaFlash' = Programmed(u, size, "mixed")
  /\ UNCHANGED <<updates, otaSlots>>

----------------------------------------------------------------------------
(* bmx_esp32_ota_finish, activate, abort, destroy. *)

Ended(u, ok) == [updates EXCEPT ![u].active = FALSE, ![u].finished = ok]

\* Fault: what has come is taken for the whole.
Fault_Complete(u) == TRUE

Complete(u) == updates[u].expected \in {0, updates[u].written}

\* esp_ota_abort if not complete, otherwise esp_ota_end, which verifies.
OtaFinish(u) ==
  /\ updates[u].active
  /\ updates' =
       IF Complete(u)
       THEN Ended(u, updates[u].written > 0 /\ Intact(updates[u].partition))
       ELSE [updates EXCEPT ![u].active = FALSE]
  /\ UNCHANGED <<otaFlash, otaSlots>>

\* esp_ota_set_boot_partition verifies again.
OtaActivate(u) ==
  /\ updates[u].finished
  /\ Intact(updates[u].partition)
  /\ otaBoot' = updates[u].partition
  /\ otaState' = [otaState EXCEPT ![updates[u].partition] = "new"]
  /\ UNCHANGED <<updates, otaFlash, otaRunning>>

OtaAbort(u) ==
  /\ updates[u].open
  /\ updates' = Ended(u, FALSE)
  /\ UNCHANGED <<otaFlash, otaSlots>>

OtaDestroy(u) ==
  /\ updates[u].open
  /\ updates' = [updates EXCEPT ![u] = NoUpdate]
  /\ UNCHANGED <<otaFlash, otaSlots>>

----------------------------------------------------------------------------
(* bmx_esp32_ota_mark_valid, mark_invalid; a restart. *)

OtaMarkValid ==
  /\ otaState' = [otaState EXCEPT ![otaRunning] = "valid"]
  /\ UNCHANGED <<updates, otaFlash, otaRunning, otaBoot>>

Boots(slot) == otaRunning' = slot /\ otaBoot' = slot

OtaMarkInvalid ==
  /\ Fallback(OtherSlot(otaRunning))
  /\ otaState' = [otaState EXCEPT ![otaRunning] = "invalid"]
  /\ Boots(OtherSlot(otaRunning))
  /\ updates' = [u \in Updates |-> NoUpdate]
  /\ UNCHANGED otaFlash

\* The boot loader: a new image is tried once; what is not whole, and what was
\* tried and not confirmed, gives way to the other.
OtaRestart ==
  /\ updates' = [u \in Updates |-> NoUpdate]
  /\ \/ /\ Intact(otaBoot) /\ otaState[otaBoot] \in {"new", "valid"}
        /\ Boots(otaBoot)
        /\ otaState' = [otaState EXCEPT ![otaBoot] =
                          IF @ = "new" THEN "pending" ELSE @]
     \/ /\ ~Intact(otaBoot) \/ otaState[otaBoot] \in {"pending", "invalid"}
        /\ Fallback(OtherSlot(otaBoot))
        /\ Boots(OtherSlot(otaBoot))
        /\ otaState' = [otaState EXCEPT ![otaBoot] = "invalid"]
  /\ UNCHANGED otaFlash

----------------------------------------------------------------------------
OtaInit ==
  /\ updates = [u \in Updates |-> NoUpdate]
  /\ otaFlash = [slot \in Partitions |-> [unit \in 1 .. SlotSize |->
                   IF slot = "ota0" THEN "factory" ELSE "blank"]]
  /\ otaState = [slot \in Partitions |->
                   IF slot = "ota0" THEN "valid" ELSE "invalid"]
  /\ otaRunning = "ota0" /\ otaBoot = "ota0"

OtaNext ==
  \/ \E u \in Updates, expected \in ExpectedSizes : OtaBegin(u, expected)
  \/ \E u \in Updates, size \in WriteSizes : OtaWrite(u, size) \/ OtaWriteFails(u, size)
  \/ \E u \in Updates :
       OtaFinish(u) \/ OtaActivate(u) \/ OtaAbort(u) \/ OtaDestroy(u)
  \/ OtaMarkValid \/ OtaMarkInvalid \/ OtaRestart

----------------------------------------------------------------------------
(* Properties. *)

\* The state is of the types the code declares.
OtaTypeOK ==
  /\ updates \in [Updates -> [open : BOOLEAN, active : BOOLEAN,
                     finished : BOOLEAN, written : 0 .. SlotSize,
                     expected : 0 .. SlotSize, partition : Partitions]]
  /\ otaFlash \in [Partitions -> [1 .. SlotSize ->
                                    Updates \cup {"factory", "blank", "mixed"}]]
  /\ otaState \in [Partitions -> {"new", "pending", "valid", "invalid"}]
  /\ otaRunning \in Partitions /\ otaBoot \in Partitions

\* The image that runs is never written to, and a restart at any moment finds
\* one that boots: what was activated, or the one that runs; and behind an
\* image that is not yet confirmed there is the one before it.
AlwaysBoots ==
  /\ Intact(otaRunning)
  /\ \A u \in Updates : updates[u].active => updates[u].partition # otaRunning
  /\ otaState[otaRunning] = "pending" => Fallback(OtherSlot(otaRunning))
  /\ \/ Intact(otaBoot) /\ otaState[otaBoot] \in {"new", "valid"}
     \/ Fallback(OtherSlot(otaBoot))

\* No sequence of writes exceeds what begin was told, so that the unsigned
\* differences of write never wrap; and what counts as finished is all of it.
SizesKept ==
  \A u \in Updates :
    /\ updates[u].expected # 0 => updates[u].written <= updates[u].expected
    /\ updates[u].finished =>
         ~updates[u].active /\ updates[u].expected \in {0, updates[u].written}
=============================================================================
