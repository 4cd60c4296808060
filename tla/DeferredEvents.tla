---------------------------- MODULE DeferredEvents ----------------------------
(***************************************************************************)
(* runtime.mod/native/esp32_events.c: the deferred-event ring, and the     *)
(* sleep and wake-up protocol built on a binary semaphore that the first   *)
(* wait or wake creates.                                                   *)
(*                                                                         *)
(*  - Posters are the tasks and interrupt handlers that call               *)
(*    bmx_embedded_event_post_ex / _from_isr_ex.  The ring is updated      *)
(*    inside one critical section; the semaphore is given after it.        *)
(*  - Wakers are the Wi-Fi, Ethernet and NimBLE tasks.  They queue in a    *)
(*    ring of their own (here the number of events in it) and then call    *)
(*    bmx_embedded_system_wake.                                            *)
(*  - The owner is the managed task.  It drains both kinds of queue and,   *)
(*    having found them empty, calls bmx_embedded_system_wait.             *)
(*                                                                         *)
(* The C type uint32_t is the range 0..Modulus-1 and its arithmetic wraps. *)
(***************************************************************************)
EXTENDS Integers

CONSTANTS
  Posters,        \* callers of bmx_embedded_event_post_ex
  Wakers,         \* callers of bmx_embedded_system_wake
  Events,         \* the payloads posted: token and four data words
  NoEvent,        \* what a ring slot holds before it is first written
  Capacity,       \* BMX_ESP32_EVENT_CAPACITY
  Modulus,        \* 2^32
  MaxDropped,     \* UINT32_MAX
  NativeCapacity  \* size of the rings of the network subsystems

ASSUME RingAssumption ==
  /\ Capacity \in Nat \ {0}
  /\ Modulus \in Nat
  /\ Modulus > Capacity
  /\ Modulus % Capacity = 0
  /\ MaxDropped \in Nat
  /\ NativeCapacity \in Nat

VARIABLES
  slots,    \* bmx_esp32_deferred_events
  put,      \* bmx_esp32_deferred_event_put
  get,      \* bmx_esp32_deferred_event_get
  dropped,  \* bmx_esp32_deferred_event_dropped
  created,  \* bmx_esp32_deferred_event_signal is not NULL
  recreated, \* history: the semaphore was initialised a second time
  given,    \* the semaphore's count, 0 or 1
  listed,   \* the owner is on the semaphore's list of waiting tasks
  owner,    \* where the owner task is
  poster,   \* where each poster is
  waker,    \* where each waker is
  native    \* events in the rings of the network subsystems

ring == <<slots, put, get, dropped>>
signal == <<created, recreated, given, listed>>
vars == <<slots, put, get, dropped, created, recreated, given, listed, owner,
          poster, waker, native>>

OwnerStates == {"run", "wait", "create", "check", "take", "blocked"}
PosterStates == {"idle", "give"}
WakerStates == {"idle", "wake", "create", "give"}

Index == 0 .. Capacity - 1
Counter == 0 .. Modulus - 1

----------------------------------------------------------------------------
(* uint32_t arithmetic on the two free-running counters. *)

Succ(n) == IF n = Modulus - 1 THEN 0 ELSE n + 1

\* put - get
Used == IF put >= get THEN put - get ELSE put - get + Modulus

\* n & BMX_ESP32_EVENT_MASK
SlotOf(n) == n % Capacity

IsEmpty == get = put

\* Fault: the comparison lets one event too many in.
Fault_FullTooLate == Used > Capacity

IsFull == Used >= Capacity

----------------------------------------------------------------------------
(* FreeRTOS: a binary semaphore in static storage. *)

\* xSemaphoreCreateBinaryStatic initialises the storage: nothing is given and
\* nobody waits, whatever the storage held before.
CreateSignal ==
  /\ created' = TRUE
  /\ recreated' = (recreated \/ created)
  /\ given' = FALSE
  /\ listed' = FALSE

\* Fault: a give that is not remembered when nobody is listed yet.
Fault_GiveNotLatched ==
  /\ given' = listed
  /\ listed' = FALSE
  /\ owner' = IF listed THEN "take" ELSE owner
  /\ UNCHANGED <<created, recreated>>

\* xSemaphoreGive: the count becomes 1 and a listed task is made ready; it
\* tries to take the semaphore again when it next runs.
Give ==
  /\ given' = TRUE
  /\ listed' = FALSE
  /\ owner' = IF listed THEN "take" ELSE owner
  /\ UNCHANGED <<created, recreated>>

----------------------------------------------------------------------------
(* Posting, from a task or from an interrupt handler. *)

\* Fault: the counter is advanced before the slot is written.
Fault_StoreAfterAdvance(e) ==
  /\ ~IsFull
  /\ slots' = [slots EXCEPT ![SlotOf(Succ(put))] = e]
  /\ put' = Succ(put)
  /\ UNCHANGED <<get, dropped>>

\* post_locked with room in the ring.
Store(e) ==
  /\ ~IsFull
  /\ slots' = [slots EXCEPT ![SlotOf(put)] = e]
  /\ put' = Succ(put)
  /\ UNCHANGED <<get, dropped>>

\* post_locked on a full ring: the new event is dropped and counted.
Drop ==
  /\ IsFull
  /\ dropped' = IF dropped # MaxDropped THEN dropped + 1 ELSE dropped
  /\ UNCHANGED <<slots, put, get>>

\* The critical section, in which the semaphore's handle is read as well.
Post(p, e) ==
  /\ poster[p] = "idle"
  /\ \/ /\ Store(e)
        /\ poster' = [poster EXCEPT ![p] = IF created THEN "give" ELSE "idle"]
     \/ /\ Drop
        /\ UNCHANGED poster
  /\ UNCHANGED <<signal, owner, waker, native>>

PostGive(p) ==
  /\ poster[p] = "give"
  /\ poster' = [poster EXCEPT ![p] = "idle"]
  /\ Give
  /\ UNCHANGED <<ring, waker, native>>

----------------------------------------------------------------------------
(* A network task: queue in the subsystem's ring, then wake the owner. *)

NativeQueue(w) ==
  /\ waker[w] = "idle"
  /\ native < NativeCapacity
  /\ native' = native + 1
  /\ waker' = [waker EXCEPT ![w] = "wake"]
  /\ UNCHANGED <<ring, signal, owner, poster>>

\* if (!bmx_esp32_deferred_event_signal), read without the lock
WakeCheck(w) ==
  /\ waker[w] = "wake"
  /\ waker' = [waker EXCEPT ![w] = IF created THEN "give" ELSE "create"]
  /\ UNCHANGED <<ring, signal, owner, poster, native>>

WakeCreate(w) ==
  /\ waker[w] = "create"
  /\ waker' = [waker EXCEPT ![w] = "give"]
  /\ CreateSignal
  /\ UNCHANGED <<ring, owner, poster, native>>

WakeGive(w) ==
  /\ waker[w] = "give"
  /\ waker' = [waker EXCEPT ![w] = "idle"]
  /\ Give
  /\ UNCHANGED <<ring, poster, native>>

----------------------------------------------------------------------------
(* The owner task. *)

\* bmx_embedded_event_take
Take ==
  /\ owner = "run"
  /\ ~IsEmpty
  /\ get' = Succ(get)
  /\ UNCHANGED <<slots, put, dropped, signal, owner, poster, waker, native>>

\* bmx_embedded_{wifi,ethernet,ble}_take_event
TakeNative ==
  /\ owner = "run"
  /\ native > 0
  /\ native' = native - 1
  /\ UNCHANGED <<ring, signal, owner, poster, waker>>

\* Everything was found drained: the program calls bmx_embedded_system_wait.
CallWait ==
  /\ owner = "run"
  /\ IsEmpty
  /\ native = 0
  /\ owner' = "wait"
  /\ UNCHANGED <<ring, signal, poster, waker, native>>

\* if (!bmx_esp32_deferred_event_signal), read without the lock
WaitEntry ==
  /\ owner = "wait"
  /\ owner' = IF created THEN "check" ELSE "create"
  /\ UNCHANGED <<ring, signal, poster, waker, native>>

WaitCreate ==
  /\ owner = "create"
  /\ owner' = "check"
  /\ CreateSignal
  /\ UNCHANGED <<ring, poster, waker, native>>

\* Fault: the owner blocks without looking at the ring again.
Fault_WaitUnchecked ==
  /\ owner = "check"
  /\ owner' = "take"
  /\ UNCHANGED <<ring, signal, poster, waker, native>>

\* The critical section: return if an event is queued, else go and block.
WaitCheck ==
  /\ owner = "check"
  /\ owner' = IF IsEmpty THEN "take" ELSE "run"
  /\ UNCHANGED <<ring, signal, poster, waker, native>>

\* xSemaphoreTake(signal, portMAX_DELAY)
WaitTake ==
  /\ owner = "take"
  /\ owner' = IF given THEN "run" ELSE "blocked"
  /\ given' = FALSE
  /\ listed' = ~given
  /\ UNCHANGED <<ring, created, recreated, poster, waker, native>>

----------------------------------------------------------------------------
Init ==
  /\ slots = [i \in Index |-> NoEvent]
  /\ put = 0
  /\ get = 0
  /\ dropped = 0
  /\ created = FALSE
  /\ recreated = FALSE
  /\ given = FALSE
  /\ listed = FALSE
  /\ owner = "run"
  /\ poster = [p \in Posters |-> "idle"]
  /\ waker = [w \in Wakers |-> "idle"]
  /\ native = 0

PosterStep(p) == PostGive(p) \/ \E e \in Events : Post(p, e)
WakerStep(w) == NativeQueue(w) \/ WakeCheck(w) \/ WakeCreate(w) \/ WakeGive(w)
WaitStep == WaitEntry \/ WaitCreate \/ WaitCheck \/ WaitTake
OwnerStep == Take \/ TakeNative \/ CallWait \/ WaitStep

Next ==
  \/ \E p \in Posters : PosterStep(p)
  \/ \E w \in Wakers : WakerStep(w)
  \/ OwnerStep

Spec == Init /\ [][Next]_vars

(***************************************************************************)
(* A task inside a call runs on until it returns or blocks, and the owner  *)
(* drains what it finds before it waits again.  Nothing is assumed of when *)
(* events are posted.                                                      *)
(***************************************************************************)
Fairness ==
  /\ WF_vars(Take)
  /\ WF_vars(TakeNative)
  /\ WF_vars(WaitStep)
  /\ \A p \in Posters : WF_vars(PostGive(p))
  /\ \A w \in Wakers : WF_vars(WakeCheck(w) \/ WakeCreate(w) \/ WakeGive(w))

FairSpec == Spec /\ Fairness

----------------------------------------------------------------------------
(* Properties. *)

\* Every variable has its type; in particular the free-running counters are
\* never further apart than the ring is long.
TypeOK ==
  /\ slots \in [Index -> Events \cup {NoEvent}]
  /\ put \in Counter
  /\ get \in Counter
  /\ Used <= Capacity
  /\ dropped \in 0 .. MaxDropped
  /\ created \in BOOLEAN
  /\ recreated \in BOOLEAN
  /\ given \in BOOLEAN
  /\ listed \in BOOLEAN
  /\ owner \in OwnerStates
  /\ poster \in [Posters -> PosterStates]
  /\ waker \in [Wakers -> WakerStates]
  /\ native \in 0 .. NativeCapacity

WorkQueued == ~IsEmpty \/ native > 0

\* Somebody is about to give the semaphore.
GiveUnderWay ==
  \/ \E p \in Posters : poster[p] = "give"
  \/ \E w \in Wakers : waker[w] # "idle"

\* The owner sleeps in bmx_embedded_system_wait with an event in the deferred
\* ring or in a network ring, and nobody is about to wake it.
Stranded ==
  owner = "blocked" /\ WorkQueued /\ ~(listed /\ GiveUnderWay)

\* No wake-up is lost as long as the semaphore was created once: a sleeping
\* owner with work queued is on the semaphore's list, and a task that queued an
\* event has yet to give it.
NoLostWakeup == Stranded => recreated

\* README.md "Call PollSystem, WaitSystem, or use BRL.EventQueue so those events
\* are drained": an owner asleep in WaitSystem while a network event is queued
\* always has a wake-up to come.
WaitSystemDrains == ~Stranded

\* The deferred ring implements the abstract channel: events leave in the order
\* they were accepted, none twice, none overwritten, and each refusal is
\* counted, wherever the counters stand when they wrap.
Fifo == INSTANCE EventFifo WITH
  queue <- [i \in 1 .. Used |-> slots[SlotOf(get + i - 1)]],
  lost <- dropped

\* The safety of the channel, whatever becomes of the semaphore.
DeliversInOrder == Fifo!Spec

\* Every accepted event is delivered in the end, since the owner is always woken
\* for it: unless the semaphore is created twice.
Delivers == []~recreated => Fifo!Fairness

\* A blocked owner for which there is work gets up again, with the same proviso.
OwnerWakes ==
  []~recreated => (owner = "blocked" /\ WorkQueued ~> owner = "run")
=============================================================================
