------------------------------ MODULE AlarmSlots ------------------------------
(***************************************************************************)
(* runtime.mod/native/esp32_time.c: one-shot and repeating alarms in a     *)
(* fixed array of slots, each with an esp_timer of its own.                *)
(*                                                                         *)
(* Callers are the tasks bmx_esp32_managed_context_valid lets through: the *)
(* owner of the managed arena, which runs on the core of the esp_timer     *)
(* task, and in the multicore build a worker on the other core.  The       *)
(* esp_timer task has the higher priority, so that a caller on its core    *)
(* does not run while a callback is in progress; the worker may.           *)
(*                                                                         *)
(* A caller's operation is a sequence of steps: each critical section is   *)
(* one, and so is each call of the esp_timer library.  Times are left out: *)
(* a running timer may expire at any moment.                               *)
(***************************************************************************)
EXTENDS Integers, FiniteSets

CONSTANTS
  Capacity,       \* BMX_ESP32_ALARM_CAPACITY
  MaxGeneration,  \* 0x7fffff, the last generation a handle can carry
  MaxPending,     \* UINT32_MAX
  Owner, Worker   \* the two callers

ASSUME AlarmAssumption ==
  /\ Capacity \in 1 .. 255
  /\ MaxGeneration \in Nat \ {0}
  /\ MaxPending \in Nat \ {0}
  /\ Owner # Worker

VARIABLES
  multicore,  \* the build has a worker (BMX_EMBEDDED_MULTICORE); never changes
  slot,       \* bmx_esp32_alarm_slots: state, pending, generation, repeating
  timer,      \* each slot's esp_timer: not created, stopped or running
  startedFor, \* the generation the slot's timer was last started for
  inFlight,   \* the callback in progress: slot and generation, or NoCall
  call,       \* the operation each caller is in
  held        \* the handles the program still remembers

vars == <<multicore, slot, timer, startedFor, inFlight, call, held>>

Callers == {Owner, Worker}
Index == 0 .. Capacity - 1
Generation == 1 .. MaxGeneration
SlotStates == {"FREE", "RESERVED", "ARMED", "FIRED", "RELEASING"}

Handles == [index : Index, generation : Generation]

NoCall == [index |-> -1, generation |-> 0]
Idle == [at |-> "idle", index |-> 0, generation |-> 0]
Running == {"once", "periodic"}
CallSteps == {"idle", "create", "arm", "start", "fail", "stop", "wait", "free"}

----------------------------------------------------------------------------
(* Helpers. *)

\* Fault: the generation grows past what a handle can carry.
Fault_UnboundedGeneration(g) == g + 1

\* generation + 1, skipping 0 so that a handle is never 0
NextGeneration(g) == IF g = MaxGeneration THEN 1 ELSE g + 1

FreeSlots == {i \in Index : slot[i].state = "FREE"}

\* bmx_esp32_alarm_slot_locked: the handle names a live slot.
Live(h) ==
  /\ slot[h.index].generation = h.generation
  /\ slot[h.index].state # "FREE"

\* The caller's task gets the processor.
Runs(c) ==
  \/ c = Owner /\ inFlight = NoCall
  \/ c = Worker /\ multicore

At(c, step) == Runs(c) /\ call[c].at = step
Goto(c, step) == call' = [call EXCEPT ![c].at = step]
Return(c) == call' = [call EXCEPT ![c] = Idle]

SetState(i, state) == slot' = [slot EXCEPT ![i].state = state]

----------------------------------------------------------------------------
(* bmx_esp32_alarm_schedule. *)

\* The first critical section takes the first free slot.  By the time a
\* generation comes round again the program has forgotten the handle that had it.
Reserve(c, repeating) ==
  /\ At(c, "idle")
  /\ \E i \in FreeSlots :
       LET g == NextGeneration(slot[i].generation) IN
       /\ \A m \in FreeSlots : i <= m
       /\ held' = held \ {[index |-> i, generation |-> g]}
       /\ slot' = [slot EXCEPT ![i] =
            [state |-> "RESERVED", pending |-> 0, generation |-> g,
             repeating |-> repeating]]
       /\ call' = [call EXCEPT ![c] =
            [at |-> IF timer[i] = "none" THEN "create" ELSE "arm",
             index |-> i, generation |-> g]]
  /\ UNCHANGED <<multicore, timer, startedFor, inFlight>>

\* esp_timer_create, the first time a slot is used; it may be out of memory.
CreateTimer(c) ==
  /\ At(c, "create")
  /\ \/ /\ timer' = [timer EXCEPT ![call[c].index] = "off"]
        /\ Goto(c, "arm")
     \/ /\ Goto(c, "fail")
        /\ UNCHANGED timer
  /\ UNCHANGED <<multicore, slot, startedFor, inFlight, held>>

Arm(c) ==
  /\ At(c, "arm")
  /\ SetState(call[c].index, "ARMED")
  /\ Goto(c, "start")
  /\ UNCHANGED <<multicore, timer, startedFor, inFlight, held>>

\* esp_timer_start_once or _periodic, refused for a timer that is running.
StartTimer(c) ==
  LET i == call[c].index IN
  /\ At(c, "start")
  /\ \/ /\ timer[i] = "off"
        /\ timer' = [timer EXCEPT ![i] =
             IF slot[i].repeating THEN "periodic" ELSE "once"]
        /\ startedFor' = [startedFor EXCEPT ![i] = call[c].generation]
        /\ held' = held \cup {[index |-> i, generation |-> call[c].generation]}
        /\ Return(c)
     \/ /\ Goto(c, "fail")
        /\ UNCHANGED <<timer, startedFor, held>>
  /\ UNCHANGED <<multicore, slot, inFlight>>

\* Fault: the slot is not given back.
Fault_FailKeepsSlot(c) ==
  /\ At(c, "fail")
  /\ Return(c)
  /\ UNCHANGED <<multicore, slot, timer, startedFor, inFlight, held>>

\* Creating or starting the timer failed: give the slot back.
Fail(c) ==
  /\ At(c, "fail")
  /\ SetState(call[c].index, "FREE")
  /\ Return(c)
  /\ UNCHANGED <<multicore, timer, startedFor, inFlight, held>>

----------------------------------------------------------------------------
(* bmx_esp32_alarm_cancel and bmx_esp32_alarm_take_events. *)

Begin(c, h, step) ==
  call' = [call EXCEPT ![c] =
    [at |-> step, index |-> h.index, generation |-> h.generation]]

\* Fault: cancel accepts an alarm that is being released.
Fault_CancelAnyState(c, h) ==
  /\ At(c, "idle")
  /\ Live(h)
  /\ SetState(h.index, "RELEASING")
  /\ Begin(c, h, IF slot[h.index].state = "ARMED" THEN "stop" ELSE "wait")
  /\ UNCHANGED <<multicore, timer, startedFor, inFlight, held>>

\* cancel, first critical section; only a running timer is stopped.
Cancel(c, h) ==
  /\ At(c, "idle")
  /\ Live(h)
  /\ slot[h.index].state \in {"ARMED", "FIRED"}
  /\ SetState(h.index, "RELEASING")
  /\ Begin(c, h, IF slot[h.index].state = "ARMED" THEN "stop" ELSE "wait")
  /\ UNCHANGED <<multicore, timer, startedFor, inFlight, held>>

\* Fault: cancel waits for the timer without stopping it.
Fault_NoStop(c) ==
  /\ At(c, "stop")
  /\ Goto(c, "wait")
  /\ UNCHANGED <<multicore, slot, timer, startedFor, inFlight, held>>

\* Fault: cancel leaves the timer running.
Fault_LeaveRunning(c) ==
  /\ At(c, "stop")
  /\ Goto(c, "free")
  /\ UNCHANGED <<multicore, slot, timer, startedFor, inFlight, held>>

\* esp_timer_stop; that it was not running is ignored.
StopTimer(c) ==
  /\ At(c, "stop")
  /\ timer' = [timer EXCEPT ![call[c].index] = "off"]
  /\ Goto(c, "wait")
  /\ UNCHANGED <<multicore, slot, startedFor, inFlight, held>>

\* take_events, first critical section: the events are consumed, and a fired
\* one-shot alarm is released.
TakeEvents(c, h) ==
  /\ At(c, "idle")
  /\ Live(h)
  /\ \/ /\ slot[h.index].state = "FIRED"
        /\ slot' = [slot EXCEPT ![h.index].pending = 0,
                                ![h.index].state = "RELEASING"]
        /\ Begin(c, h, "wait")
     \/ /\ slot[h.index].state # "FIRED"
        /\ slot' = [slot EXCEPT ![h.index].pending = 0]
        /\ UNCHANGED call
  /\ UNCHANGED <<multicore, timer, startedFor, inFlight, held>>

\* bmx_esp32_alarm_wait_inactive: esp_timer_is_active has become false.  It is
\* false as well while the callback of an expired one-shot timer is running.
WaitInactive(c) ==
  /\ At(c, "wait")
  /\ timer[call[c].index] \notin Running
  /\ Goto(c, "free")
  /\ UNCHANGED <<multicore, slot, timer, startedFor, inFlight, held>>

\* The last critical section of both.
Release(c) ==
  LET i == call[c].index IN
  /\ At(c, "free")
  /\ IF slot[i].generation = call[c].generation /\ slot[i].state = "RELEASING"
     THEN slot' = [slot EXCEPT ![i].pending = 0, ![i].state = "FREE"]
     ELSE UNCHANGED slot
  /\ Return(c)
  /\ UNCHANGED <<multicore, timer, startedFor, inFlight, held>>

----------------------------------------------------------------------------
(* The esp_timer task. *)

\* A timer expires: a one-shot timer stops, and the callback is entered.
Expire(i) ==
  /\ timer[i] \in Running
  /\ inFlight = NoCall
  /\ inFlight' = [index |-> i, generation |-> startedFor[i]]
  /\ timer' = [timer EXCEPT ![i] = IF @ = "once" THEN "off" ELSE @]
  /\ UNCHANGED <<multicore, slot, startedFor, call, held>>

\* Fault: a one-shot alarm stays armed after it fired.
Fault_StaysArmed ==
  /\ inFlight # NoCall
  /\ slot' = [slot EXCEPT ![inFlight.index].pending =
       IF @ # MaxPending THEN @ + 1 ELSE @]
  /\ inFlight' = NoCall
  /\ UNCHANGED <<multicore, timer, startedFor, call, held>>

\* bmx_esp32_alarm_callback: its one critical section.
Callback ==
  LET i == inFlight.index IN
  /\ inFlight # NoCall
  /\ IF slot[i].state = "ARMED"
     THEN slot' = [slot EXCEPT
            ![i].pending = IF @ # MaxPending THEN @ + 1 ELSE @,
            ![i].state = IF slot[i].repeating THEN "ARMED" ELSE "FIRED"]
     ELSE UNCHANGED slot
  /\ inFlight' = NoCall
  /\ UNCHANGED <<multicore, timer, startedFor, call, held>>

----------------------------------------------------------------------------
Init ==
  /\ multicore \in BOOLEAN
  /\ slot = [i \in Index |->
       [state |-> "FREE", pending |-> 0, generation |-> 0, repeating |-> FALSE]]
  /\ timer = [i \in Index |-> "none"]
  /\ startedFor = [i \in Index |-> 0]
  /\ inFlight = NoCall
  /\ call = [c \in Callers |-> Idle]
  /\ held = {}

ScheduleStep(c) ==
  \/ \E repeating \in BOOLEAN : Reserve(c, repeating)
  \/ CreateTimer(c) \/ Arm(c) \/ StartTimer(c) \/ Fail(c)

ReleaseStep(c) ==
  \/ \E h \in held : Cancel(c, h) \/ TakeEvents(c, h)
  \/ StopTimer(c) \/ WaitInactive(c) \/ Release(c)

Next ==
  \/ \E c \in Callers : ScheduleStep(c) \/ ReleaseStep(c)
  \/ \E i \in Index : Expire(i)
  \/ Callback

Spec == Init /\ [][Next]_vars

(***************************************************************************)
(* A caller finishes the operation it is in, even when expiring timers     *)
(* take the processor from it again and again.  The list of running timers *)
(* is in the order of their deadlines, so a repeating alarm cannot keep    *)
(* another one from expiring.                                              *)
(***************************************************************************)
Advance(c) ==
  \/ CreateTimer(c) \/ Arm(c) \/ StartTimer(c) \/ Fail(c)
  \/ StopTimer(c) \/ WaitInactive(c) \/ Release(c)

Fairness ==
  /\ \A c \in Callers : SF_vars(Advance(c))
  /\ \A i \in Index : SF_vars(Expire(i))
  /\ WF_vars(Callback)

FairSpec == Spec /\ Fairness

----------------------------------------------------------------------------
(* Properties. *)

TypeOK ==
  /\ multicore \in BOOLEAN
  /\ slot \in [Index -> [state : SlotStates, pending : 0 .. MaxPending,
                         generation : 0 .. MaxGeneration, repeating : BOOLEAN]]
  /\ timer \in [Index -> {"none", "off"} \cup Running]
  /\ startedFor \in [Index -> 0 .. MaxGeneration]
  /\ inFlight \in Handles \cup {NoCall}
  /\ call \in [Callers -> [at : CallSteps, index : Index,
                           generation : 0 .. MaxGeneration]]
  /\ held \subseteq Handles

\* A slot is worked on by one caller at a time: between the critical sections
\* of cancel, take_events and schedule nobody else reuses or releases it.
OneOperationPerSlot ==
  \A c, d \in Callers :
    c # d /\ call[c].at # "idle" /\ call[d].at # "idle"
      => call[c].index # call[d].index

\* A running timer belongs to the alarm that is in its slot: a slot is given
\* back, or reused, only with its timer stopped.
NoStrayTimer ==
  \A i \in Index : timer[i] \in Running =>
    /\ startedFor[i] = slot[i].generation
    /\ slot[i].state \notin {"FREE", "RESERVED"}

\* No armed alarm is dead: once schedule has returned, its timer is running or
\* its callback is in progress.
ArmedWillFire ==
  \A i \in Index : slot[i].state = "ARMED" =>
    \/ timer[i] \in Running
    \/ inFlight.index = i
    \/ \E c \in Callers : call[c].at \in {"start", "fail"} /\ call[c].index = i

\* The slots keep their types, and the slots and the timers agree, in both
\* directions.
SlotsMatchTimers == TypeOK /\ NoStrayTimer /\ ArmedWillFire

\* A one-shot alarm is counted once, however its expiry, its release and a
\* callback of the slot's earlier alarm interleave.
OneShotOnce ==
  \A i \in Index : ~slot[i].repeating => slot[i].pending <= 1

\* In the default build an alarm only receives events of its own timer: the
\* callback of an alarm that was cancelled does not count for the next one in
\* the slot.
OwnEventsOnly ==
  [][\A i \in Index : ~multicore /\ slot'[i].pending > slot[i].pending
       => inFlight.index = i /\ inFlight.generation = slot[i].generation]_vars

\* cancel and take_events return: the spin in wait_inactive ends.
ReleaseCompletes ==
  \A c \in Callers : call[c].at \in {"stop", "wait", "free"} ~> call[c].at = "idle"
=============================================================================
