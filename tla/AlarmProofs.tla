------------------------------ MODULE AlarmProofs ------------------------------
(***************************************************************************)
(* Proofs about AlarmSlots, for every number of slots, every range of      *)
(* generations and every bound on the pending count.                       *)
(***************************************************************************)
EXTENDS AlarmSlots, TLAPS

ScheduleSteps == {"create", "arm", "start", "fail"}
ReleaseSteps == {"stop", "wait", "free"}

----------------------------------------------------------------------------
(* The inductive invariant. *)

\* While a caller is in schedule its slot has the generation it gave the slot,
\* the program does not hold that handle yet, and the timer stands still.
ScheduleOwns ==
  \A c \in Callers : call[c].at \in ScheduleSteps =>
    LET i == call[c].index IN
    /\ slot[i].generation = call[c].generation
    /\ [index |-> i, generation |-> call[c].generation] \notin held
    /\ timer[i] \notin Running
    /\ slot[i].state \in {"RESERVED", "ARMED", "FIRED"}
    /\ call[c].at \in {"create", "arm"} => slot[i].state = "RESERVED"
    /\ call[c].at = "start" => slot[i].state # "RESERVED"

\* While a caller is in cancel or take_events nobody else takes the slot, and
\* once the wait is over its timer stands still.
ReleaseOwns ==
  \A c \in Callers : call[c].at \in ReleaseSteps =>
    LET i == call[c].index IN
    /\ slot[i].generation = call[c].generation
    /\ slot[i].state = "RELEASING"
    /\ call[c].at = "free" => timer[i] \notin Running

\* A slot in use has had a generation.
UsedHasGeneration ==
  \A i \in Index : slot[i].state # "FREE" => slot[i].generation \in Generation

\* An armed repeating alarm never depends on the callback in progress.
RepeatingRuns ==
  \A i \in Index : slot[i].state = "ARMED" /\ slot[i].repeating =>
    \/ timer[i] = "periodic"
    \/ \E c \in Callers : call[c].at \in {"start", "fail"} /\ call[c].index = i

\* A one-shot alarm that has not fired has no events.
NothingBeforeFiring ==
  \A i \in Index : ~slot[i].repeating /\ slot[i].state \in {"RESERVED", "ARMED"}
    => slot[i].pending = 0

\* On one core the slot is not reused while a callback of it is in progress.
CallbackOfItsAlarm ==
  ~multicore /\ inFlight # NoCall
    => inFlight.generation = slot[inFlight.index].generation

AlarmInv ==
  /\ TypeOK
  /\ OneOperationPerSlot /\ ScheduleOwns /\ ReleaseOwns /\ UsedHasGeneration
  /\ NoStrayTimer /\ ArmedWillFire /\ RepeatingRuns
  /\ OneShotOnce /\ NothingBeforeFiring
  /\ CallbackOfItsAlarm

LEMMA AlarmInitially == Init => AlarmInv
<1> SUFFICES ASSUME Init PROVE AlarmInv
  OBVIOUS
<1>1. 0 \in Index /\ 0 \in 0 .. MaxPending /\ 0 \in 0 .. MaxGeneration
  BY AlarmAssumption DEF Index
<1>2. TypeOK
  BY <1>1 DEF Init, TypeOK, SlotStates, CallSteps, Idle
<1> QED
  BY <1>2 DEF Init, AlarmInv, OneOperationPerSlot, ScheduleOwns, ReleaseOwns,
     UsedHasGeneration, NoStrayTimer, ArmedWillFire, RepeatingRuns, OneShotOnce,
     NothingBeforeFiring, CallbackOfItsAlarm, Idle, Running, ScheduleSteps, ReleaseSteps

----------------------------------------------------------------------------
(* What the helpers change, field by field. *)

SlotType == [state : SlotStates, pending : 0 .. MaxPending,
             generation : 0 .. MaxGeneration, repeating : BOOLEAN]
CallType == [at : CallSteps, index : Index, generation : 0 .. MaxGeneration]

\* Every slot but i, and of i the generation and the kind of alarm, are as before.
SlotKept(i) ==
  /\ slot' \in [Index -> SlotType]
  /\ \A j \in Index : /\ slot'[j].generation = slot[j].generation
                      /\ slot'[j].repeating = slot[j].repeating
                      /\ j # i => slot'[j] = slot[j]

\* The call of c is at another step, and all else of it and of the others as before.
CallKept(c) ==
  /\ call' \in [Callers -> CallType]
  /\ \A d \in Callers : /\ call'[d].index = call[d].index
                        /\ call'[d].generation = call[d].generation
                        /\ d # c => call'[d] = call[d]

LEMMA SetStateFields ==
  ASSUME TypeOK, NEW i \in Index, NEW s \in SlotStates, SetState(i, s)
  PROVE  SlotKept(i) /\ slot'[i].state = s /\ slot'[i].pending = slot[i].pending
<1>1. slot \in [Index -> SlotType]
  BY DEF TypeOK, SlotType
<1>2. ASSUME NEW r \in SlotType
      PROVE  LET q == [r EXCEPT !.state = s] IN
             /\ q \in SlotType /\ q.state = s /\ q.pending = r.pending
             /\ q.generation = r.generation /\ q.repeating = r.repeating
  BY DEF SlotType
<1>3. slot' = [slot EXCEPT ![i] = [slot[i] EXCEPT !.state = s]]
  BY DEF SetState
<1> QED
  BY <1>1, <1>2, <1>3 DEF SlotKept

LEMMA GotoFields ==
  ASSUME TypeOK, NEW c \in Callers, NEW step \in CallSteps, Goto(c, step)
  PROVE  CallKept(c) /\ call'[c].at = step
<1>1. call \in [Callers -> CallType]
  BY DEF TypeOK, CallType
<1>2. ASSUME NEW r \in CallType
      PROVE  LET q == [r EXCEPT !.at = step] IN
             /\ q \in CallType /\ q.at = step
             /\ q.index = r.index /\ q.generation = r.generation
  BY DEF CallType
<1>3. call' = [call EXCEPT ![c] = [call[c] EXCEPT !.at = step]]
  BY DEF Goto
<1> QED
  BY <1>1, <1>2, <1>3 DEF CallKept

LEMMA ReturnFields ==
  ASSUME TypeOK, NEW c \in Callers, Return(c)
  PROVE  /\ call' \in [Callers -> CallType]
         /\ call'[c].at = "idle"
         /\ \A d \in Callers : d # c => call'[d] = call[d]
  BY AlarmAssumption DEF TypeOK, CallType, CallSteps, Index, Idle, Return

\* A slot of which only the events are changed.
LEMMA CountedFields ==
  ASSUME NEW r \in SlotType, NEW n \in 0 .. MaxPending
  PROVE  LET q == [r EXCEPT !.pending = n] IN
         /\ q \in SlotType /\ q.pending = n /\ q.state = r.state
         /\ q.generation = r.generation /\ q.repeating = r.repeating
  BY DEF SlotType

\* take_events consumes the events; it and the release may change the state.
LEMMA ConsumedFields ==
  ASSUME NEW i \in Index, NEW s \in SlotStates, slot \in [Index -> SlotType]
  PROVE  /\ slot' = [slot EXCEPT ![i].pending = 0]
              => /\ SlotKept(i) /\ slot'[i].pending = 0
                 /\ slot'[i].state = slot[i].state
         /\ slot' = [slot EXCEPT ![i].pending = 0, ![i].state = s]
              => /\ SlotKept(i) /\ slot'[i].pending = 0
                 /\ slot'[i].state = s
<1>1. slot[i] \in SlotType /\ 0 \in 0 .. MaxPending
  BY AlarmAssumption
<1> DEFINE n == 0
<1>2. n \in 0 .. MaxPending
  BY <1>1
<1> HIDE DEF n
<1> DEFINE q == [slot[i] EXCEPT !.pending = n]
           z == [slot[i] EXCEPT !.pending = n, !.state = s]
<1>3. /\ q \in SlotType /\ q.pending = n /\ q.state = slot[i].state
      /\ q.generation = slot[i].generation /\ q.repeating = slot[i].repeating
  BY <1>1, <1>2, CountedFields
<1>4. /\ z \in SlotType /\ z.pending = n /\ z.state = s
      /\ z.generation = slot[i].generation /\ z.repeating = slot[i].repeating
  BY <1>1, <1>2 DEF SlotType
<1>5. slot' = [slot EXCEPT ![i].pending = 0] => slot' = [slot EXCEPT ![i] = q]
  BY DEF n
<1>6. slot' = [slot EXCEPT ![i].pending = 0, ![i].state = s]
        => slot' = [slot EXCEPT ![i] = z]
  BY DEF n
<1> HIDE DEF q, z
<1>7. slot' = [slot EXCEPT ![i] = q]
        => SlotKept(i) /\ slot'[i].pending = n /\ slot'[i].state = slot[i].state
  BY <1>3 DEF SlotKept
<1>8. slot' = [slot EXCEPT ![i] = z]
        => SlotKept(i) /\ slot'[i].pending = n /\ slot'[i].state = s
  BY <1>4 DEF SlotKept
<1> QED
  BY <1>5, <1>6, <1>7, <1>8 DEF n

LEMMA NextGenerationType ==
  ASSUME NEW n \in 0 .. MaxGeneration
  PROVE  NextGeneration(n) \in Generation
  BY AlarmAssumption DEF NextGeneration, Generation

\* Cancel and take_events begin to release an alarm that is armed or has fired.
LEMMA BeginRelease ==
  ASSUME AlarmInv, NEW c \in Callers, NEW h \in held,
         call[c].at = "idle", Live(h), slot[h.index].state \in {"ARMED", "FIRED"},
         SlotKept(h.index), slot'[h.index].state = "RELEASING",
         slot'[h.index].pending \in {0, slot[h.index].pending},
         NEW step \in {"stop", "wait"}, Begin(c, h, step),
         UNCHANGED <<multicore, timer, startedFor, inFlight, held>>
  PROVE  AlarmInv'
<1> USE DEF AlarmInv
<1>1. /\ slot \in [Index -> SlotType] /\ call \in [Callers -> CallType]
      /\ h \in Handles /\ h.index \in Index /\ h.generation \in 0 .. MaxGeneration
      /\ inFlight # NoCall => inFlight.index \in Index
  BY DEF TypeOK, SlotType, CallType, Handles, Generation
<1>2. /\ call' \in [Callers -> CallType]
      /\ call'[c].at = step /\ call'[c].index = h.index
      /\ call'[c].generation = h.generation
      /\ \A d \in Callers : d # c => call'[d] = call[d]
  BY <1>1 DEF Begin, CallType, CallSteps
<1>3. /\ slot[h.index].generation = h.generation
      /\ h = [index |-> h.index, generation |-> h.generation]
  BY <1>1 DEF Live, Handles
<1>4. \A d \in Callers : call[d].at # "idle" => call[d].index # h.index
  <2> SUFFICES ASSUME NEW d \in Callers, call[d].at # "idle", call[d].index = h.index
               PROVE  FALSE
    OBVIOUS
  <2>1. call[d].at \in ScheduleSteps \cup ReleaseSteps
    BY <1>1 DEF CallType, CallSteps, ScheduleSteps, ReleaseSteps
  <2>2. call[d].at \notin ReleaseSteps
    BY DEF ReleaseOwns
  <2>3. /\ slot[h.index].generation = call[d].generation
        /\ [index |-> h.index, generation |-> call[d].generation] \notin held
    BY <2>1, <2>2 DEF ScheduleOwns
  <2> QED
    BY <1>3, <2>3
<1>5. TypeOK'
  BY <1>1, <1>2 DEF TypeOK, SlotKept, SlotType, CallType
<1>6. OneOperationPerSlot'
  BY <1>1, <1>2, <1>4 DEF OneOperationPerSlot, CallType
<1>7. ScheduleOwns' /\ ReleaseOwns'
  <2>1. ScheduleOwns'
    <3>1. ASSUME NEW d \in Callers, call'[d].at \in ScheduleSteps
          PROVE  call'[d] = call[d] /\ slot'[call[d].index] = slot[call[d].index]
      <4>1. d # c /\ call'[d] = call[d]
        BY <1>2, <3>1 DEF ScheduleSteps
      <4>2. call[d].index \in Index
        BY <1>1 DEF CallType
      <4>3. call[d].index # h.index
        BY <1>4, <3>1, <4>1 DEF ScheduleSteps
      <4> QED
        BY <4>1, <4>2, <4>3 DEF SlotKept
    <3> QED
      BY <3>1 DEF ScheduleOwns
  <2>2. ReleaseOwns'
    BY <1>1, <1>2, <1>3, <1>4 DEF SlotKept, ReleaseOwns, ReleaseSteps, CallType
  <2> QED
    BY <2>1, <2>2
<1>8. UsedHasGeneration' /\ NoStrayTimer' /\ ArmedWillFire' /\ RepeatingRuns'
  BY <1>1, <1>2, <1>4 DEF SlotKept, UsedHasGeneration, NoStrayTimer, ArmedWillFire,
     RepeatingRuns
<1>9. OneShotOnce' /\ NothingBeforeFiring' /\ CallbackOfItsAlarm'
  BY <1>1 DEF SlotKept, SlotType, OneShotOnce, NothingBeforeFiring, CallbackOfItsAlarm
<1> QED
  BY <1>5, <1>6, <1>7, <1>8, <1>9

----------------------------------------------------------------------------
(* Every step keeps the invariant. *)

LEMMA AlarmStep == AlarmInv /\ [Next]_vars => AlarmInv'
<1> SUFFICES ASSUME AlarmInv, [Next]_vars
             PROVE  AlarmInv'
  OBVIOUS
<1> USE AlarmAssumption DEF AlarmInv
<1>types. /\ slot \in [Index -> SlotType] /\ call \in [Callers -> CallType]
      /\ timer \in [Index -> {"none", "off"} \cup Running]
  BY DEF TypeOK, SlotType, CallType
<1>index. inFlight # NoCall => inFlight.index \in Index
  BY DEF TypeOK, Handles
<1>1. ASSUME NEW c \in Callers, NEW repeating \in BOOLEAN, Reserve(c, repeating)
      PROVE  AlarmInv'
  <2>1. PICK i \in FreeSlots :
          LET g == NextGeneration(slot[i].generation) IN
          /\ held' = held \ {[index |-> i, generation |-> g]}
          /\ slot' = [slot EXCEPT ![i] =
               [state |-> "RESERVED", pending |-> 0, generation |-> g,
                repeating |-> repeating]]
          /\ call' = [call EXCEPT ![c] =
               [at |-> IF timer[i] = "none" THEN "create" ELSE "arm",
                index |-> i, generation |-> g]]
    BY <1>1 DEF Reserve
  <2> DEFINE g == NextGeneration(slot[i].generation)
  <2>2. i \in Index /\ slot[i].state = "FREE"
    BY DEF FreeSlots
  <2>3. g \in Generation
    BY <1>types, <2>2, NextGenerationType DEF SlotType
  <2>4. /\ call[c].at = "idle"
        /\ \A d \in Callers : call[d].at # "idle" => call[d].index # i
    <3>1. ASSUME NEW d \in Callers, call[d].at # "idle", call[d].index = i
          PROVE  FALSE
      <4>1. call[d].at \in ScheduleSteps \cup ReleaseSteps
        BY <1>types, <3>1 DEF CallType, CallSteps, ScheduleSteps, ReleaseSteps
      <4>2. CASE call[d].at \in ScheduleSteps
        BY <2>2, <3>1, <4>2 DEF ScheduleOwns
      <4>3. CASE call[d].at \in ReleaseSteps
        BY <2>2, <3>1, <4>3 DEF ReleaseOwns
      <4> QED
        BY <4>1, <4>2, <4>3
    <3>2. call[c].at = "idle"
      BY <1>1 DEF Reserve, At
    <3> QED
      BY <3>1, <3>2
  <2>5. timer[i] \notin Running
    BY <2>2 DEF NoStrayTimer
  <2> HIDE DEF g
  <2>6. /\ slot' \in [Index -> SlotType] /\ call' \in [Callers -> CallType]
        /\ \A j \in Index : j # i => slot'[j] = slot[j]
        /\ \A d \in Callers : d # c => call'[d] = call[d]
        /\ slot'[i].state = "RESERVED" /\ slot'[i].pending = 0
        /\ slot'[i].generation = g /\ call'[c].generation = g
        /\ call'[c].index = i /\ call'[c].at \in {"create", "arm"}
    BY <1>types, <2>1, <2>2, <2>3 DEF g, SlotType, CallType, SlotStates, CallSteps, Generation
  <2>7. held' = held \ {[index |-> i, generation |-> g]}
    BY <2>1 DEF g
  <2>8. UNCHANGED <<multicore, timer, startedFor, inFlight>>
    BY <1>1 DEF Reserve
  <2>9. TypeOK'
    BY <2>6, <2>7, <2>8 DEF TypeOK, SlotType, CallType
  <2>10. OneOperationPerSlot' /\ ScheduleOwns' /\ ReleaseOwns'
    <3>1. OneOperationPerSlot'
      BY <1>types, <2>4, <2>6 DEF OneOperationPerSlot, CallType
    <3>2. ScheduleOwns'
      <4>1. ASSUME NEW d \in Callers, call'[d].at \in ScheduleSteps, d # c
            PROVE  call'[d] = call[d] /\ slot'[call[d].index] = slot[call[d].index]
        <5>1. call'[d] = call[d] /\ call[d].index \in Index
          BY <1>types, <2>6, <4>1 DEF CallType
        <5>2. call[d].index # i
          BY <2>4, <4>1, <5>1 DEF ScheduleSteps
        <5> QED
          BY <2>6, <5>1, <5>2
      <4>2. call'[c].at \in {"create", "arm"} /\ call'[c].index = i
        BY <2>6
      <4>3. slot'[i].generation = call'[c].generation /\ slot'[i].state = "RESERVED"
        BY <2>6
      <4>4. [index |-> i, generation |-> call'[c].generation] \notin held'
        BY <2>6, <2>7
      <4>5. held' \subseteq held /\ timer' = timer
        BY <2>7, <2>8
      <4> QED
        BY <2>5, <4>1, <4>2, <4>3, <4>4, <4>5 DEF ScheduleOwns
    <3>3. ReleaseOwns'
      BY <1>types, <2>4, <2>6, <2>8 DEF ReleaseOwns, ReleaseSteps, CallType
    <3> QED
      BY <3>1, <3>2, <3>3
  <2>11. UsedHasGeneration' /\ NoStrayTimer' /\ ArmedWillFire' /\ RepeatingRuns'
    BY <2>2, <2>3, <2>4, <2>5, <2>6, <2>8 DEF UsedHasGeneration,
       NoStrayTimer, ArmedWillFire, RepeatingRuns
  <2>12. OneShotOnce' /\ NothingBeforeFiring'
    BY <2>2, <2>6 DEF OneShotOnce, NothingBeforeFiring
  <2>13. CallbackOfItsAlarm'
    BY <1>1, <2>8 DEF Reserve, At, Runs, CallbackOfItsAlarm
  <2> QED
    BY <2>9, <2>10, <2>11, <2>12, <2>13
<1>2. ASSUME NEW c \in Callers, CreateTimer(c)
      PROVE  AlarmInv'
  <2>1. /\ CallKept(c) /\ call'[c].at \in {"arm", "fail"}
        /\ call[c].at = "create" /\ call[c].index \in Index
    BY <1>types, <1>2, GotoFields DEF CreateTimer, At, CallSteps, CallType
  <2>2. /\ timer' \in [Index -> {"none", "off"} \cup Running]
        /\ \A i \in Index : timer'[i] # timer[i] =>
             i = call[c].index /\ timer'[i] = "off"
    BY <1>types, <1>2, <2>1 DEF CreateTimer
  <2>3. UNCHANGED <<multicore, slot, startedFor, inFlight, held>>
    BY <1>2 DEF CreateTimer
  <2>4. slot[call[c].index].state = "RESERVED"
    BY <2>1 DEF ScheduleOwns, ScheduleSteps
  <2>5. TypeOK'
    BY <2>1, <2>2, <2>3, <2>4 DEF CallKept, TypeOK, CallType
  <2>6. OneOperationPerSlot'
    BY <1>types, <2>1, <2>2, <2>3, <2>4 DEF CallKept, OneOperationPerSlot, CallType, Running
  <2>7. ScheduleOwns'
    BY <1>types, <2>1, <2>2, <2>3, <2>4 DEF CallKept, ScheduleOwns, ScheduleSteps,
       OneOperationPerSlot, CallType, Running
  <2>8. ReleaseOwns'
    BY <1>types, <2>1, <2>2, <2>3, <2>4 DEF CallKept, ReleaseOwns, ReleaseSteps,
       OneOperationPerSlot, CallType, Running
  <2>9. UsedHasGeneration' /\ NoStrayTimer' /\ ArmedWillFire' /\ RepeatingRuns'
    BY <1>types, <2>1, <2>2, <2>3, <2>4 DEF CallKept, UsedHasGeneration, NoStrayTimer,
       ArmedWillFire, RepeatingRuns,
       Running
  <2>10. OneShotOnce' /\ NothingBeforeFiring'
    BY <2>1, <2>2, <2>3, <2>4 DEF CallKept, OneShotOnce, NothingBeforeFiring
  <2>11. CallbackOfItsAlarm'
    BY <1>index, <2>1, <2>2, <2>3, <2>4 DEF CallKept, CallbackOfItsAlarm
  <2> QED
    BY <2>5, <2>6, <2>7, <2>8, <2>9, <2>10, <2>11
<1>3. ASSUME NEW c \in Callers, Arm(c)
      PROVE  AlarmInv'
  <2>1. /\ CallKept(c) /\ call'[c].at = "start" /\ call[c].at = "arm"
        /\ call[c].index \in Index
    BY <1>types, <1>3, GotoFields DEF Arm, At, CallSteps, CallType
  <2>2. SlotKept(call[c].index) /\ slot'[call[c].index].state = "ARMED"
        /\ slot'[call[c].index].pending = slot[call[c].index].pending
    BY <1>3, <2>1, SetStateFields DEF Arm, SlotStates
  <2>3. UNCHANGED <<multicore, timer, startedFor, inFlight, held>>
    BY <1>3 DEF Arm
  <2>4. /\ slot[call[c].index].state = "RESERVED"
        /\ slot[call[c].index].generation = call[c].generation
        /\ timer[call[c].index] \notin Running
    BY <2>1 DEF ScheduleOwns, ScheduleSteps
  <2>5. TypeOK'
    BY <2>1, <2>2, <2>3, <2>4 DEF CallKept, SlotKept, TypeOK, CallType, SlotType
  <2>6. OneOperationPerSlot'
    BY <1>types, <2>1, <2>2, <2>3, <2>4 DEF CallKept, SlotKept, OneOperationPerSlot, CallType
  <2>7. ScheduleOwns'
    BY <1>types, <2>1, <2>2, <2>3, <2>4 DEF CallKept, SlotKept, ScheduleOwns, ScheduleSteps,
       OneOperationPerSlot, CallType
  <2>8. ReleaseOwns'
    BY <1>types, <2>1, <2>2, <2>3, <2>4 DEF CallKept, SlotKept, ReleaseOwns, ReleaseSteps,
       OneOperationPerSlot, CallType
  <2>9. UsedHasGeneration' /\ NoStrayTimer' /\ RepeatingRuns'
    BY <1>types, <2>1, <2>2, <2>3, <2>4 DEF CallKept, SlotKept, UsedHasGeneration,
       NoStrayTimer, RepeatingRuns
  <2>9a. ArmedWillFire'
    BY <1>types, <2>1, <2>2, <2>3, <2>4 DEF CallKept, SlotKept, ArmedWillFire, Running
  <2>10. OneShotOnce' /\ NothingBeforeFiring'
    BY <2>1, <2>2, <2>3, <2>4 DEF CallKept, SlotKept, OneShotOnce, NothingBeforeFiring
  <2>11. CallbackOfItsAlarm'
    BY <1>index, <2>1, <2>2, <2>3, <2>4 DEF CallKept, SlotKept, CallbackOfItsAlarm
  <2> QED
    BY <2>5, <2>6, <2>7, <2>8, <2>9, <2>9a, <2>10, <2>11
<1>4. ASSUME NEW c \in Callers, StartTimer(c)
      PROVE  AlarmInv'
  <2> DEFINE i == call[c].index
  <2>1. call[c].at = "start" /\ i \in Index
    BY <1>types, <1>4 DEF StartTimer, At, CallType
  <2>2. /\ slot[i].generation = call[c].generation /\ slot[i].generation \in Generation
        /\ slot[i].state \in {"ARMED", "FIRED"} /\ timer[i] \notin Running
    BY <2>1 DEF ScheduleOwns, ScheduleSteps, UsedHasGeneration
  <2> HIDE DEF i
  <2>3. UNCHANGED <<multicore, slot, inFlight>>
    BY <1>4 DEF StartTimer
  <2>4. ASSUME Return(c),
               timer' = [timer EXCEPT ![i] = IF slot[i].repeating THEN "periodic" ELSE "once"],
               startedFor' = [startedFor EXCEPT ![i] = call[c].generation],
               held' = held \cup {[index |-> i, generation |-> call[c].generation]}
        PROVE  AlarmInv'
    <3>2. /\ call' \in [Callers -> CallType] /\ call'[c].at = "idle"
          /\ \A d \in Callers : d # c => call'[d] = call[d]
      BY <2>4, ReturnFields
    <3>3. [index |-> i, generation |-> call[c].generation] \in Handles
      BY <2>1, <2>2 DEF Handles
    <3>4. /\ timer' \in [Index -> {"none", "off"} \cup Running]
          /\ startedFor' \in [Index -> 0 .. MaxGeneration]
          /\ timer'[i] \in Running /\ startedFor'[i] = slot[i].generation
          /\ slot[i].repeating => timer'[i] = "periodic"
          /\ \A j \in Index : j # i => timer'[j] = timer[j] /\ startedFor'[j] = startedFor[j]
      BY <1>types, <2>1, <2>2, <2>4 DEF Running, Generation, TypeOK
    <3>5. TypeOK'
      BY <2>3, <2>4, <3>2, <3>3, <3>4 DEF TypeOK, CallType
    <3>6. \A d \in Callers : d # c /\ call[d].at # "idle" => call[d].index # i
      BY <2>1 DEF OneOperationPerSlot, i
    <3>7. OneOperationPerSlot' /\ ReleaseOwns'
      <4>1. OneOperationPerSlot'
        BY <1>types, <3>2 DEF OneOperationPerSlot, CallType
      <4>2. ReleaseOwns'
        BY <1>types, <2>3, <3>2, <3>4, <3>6 DEF ReleaseOwns, ReleaseSteps, CallType
      <4> QED
        BY <4>1, <4>2
    <3>8. ScheduleOwns'
      BY <1>types, <2>3, <2>4, <3>2, <3>4, <3>6 DEF ScheduleOwns, ScheduleSteps, CallType
    <3>9. UsedHasGeneration' /\ NoStrayTimer' /\ ArmedWillFire' /\ RepeatingRuns'
      BY <1>types, <2>1, <2>2, <2>3, <3>2, <3>4 DEF UsedHasGeneration, NoStrayTimer,
         ArmedWillFire, RepeatingRuns, i
    <3> QED
      BY <2>3, <3>5, <3>7, <3>8, <3>9 DEF OneShotOnce, NothingBeforeFiring, CallbackOfItsAlarm
  <2>5. CASE UNCHANGED <<timer, startedFor, held>> /\ Goto(c, "fail")
    <3>1. CallKept(c) /\ call'[c].at = "fail"
      BY <2>5, GotoFields DEF CallSteps
    <3>2. TypeOK'
      BY <2>3, <2>5, <3>1 DEF TypeOK, CallKept, CallType
    <3>3. OneOperationPerSlot'
      BY <1>types, <2>1, <3>1 DEF CallKept, OneOperationPerSlot, CallType
    <3>3a. ScheduleOwns'
      BY <1>types, <2>1, <2>2, <2>3, <2>5, <3>1 DEF CallKept, ScheduleOwns, ScheduleSteps,
         CallType, i
    <3>3b. ReleaseOwns'
      BY <1>types, <2>3, <2>5, <3>1 DEF CallKept, ReleaseOwns, ReleaseSteps, CallType
    <3>4. UsedHasGeneration' /\ NoStrayTimer' /\ ArmedWillFire' /\ RepeatingRuns'
      BY <1>types, <2>1, <2>3, <2>5, <3>1 DEF CallKept, UsedHasGeneration, NoStrayTimer,
         ArmedWillFire, RepeatingRuns
    <3> QED
      BY <2>3, <3>2, <3>3, <3>3a, <3>3b, <3>4
         DEF OneShotOnce, NothingBeforeFiring, CallbackOfItsAlarm
  <2> QED
    BY <1>4, <2>4, <2>5 DEF StartTimer, i
<1>5. ASSUME NEW c \in Callers, Fail(c)
      PROVE  AlarmInv'
  <2>1. /\ call' \in [Callers -> CallType] /\ call'[c].at = "idle"
        /\ \A d \in Callers : d # c => call'[d] = call[d]
        /\ call[c].at = "fail" /\ call[c].index \in Index
    BY <1>types, <1>5, ReturnFields DEF Fail, At, CallType
  <2>2. SlotKept(call[c].index) /\ slot'[call[c].index].state = "FREE"
        /\ slot'[call[c].index].pending = slot[call[c].index].pending
    BY <1>5, <2>1, SetStateFields DEF Fail, SlotStates
  <2>3. UNCHANGED <<multicore, timer, startedFor, inFlight, held>>
    BY <1>5 DEF Fail
  <2>4. timer[call[c].index] \notin Running
    BY <2>1 DEF ScheduleOwns, ScheduleSteps
  <2>5. TypeOK'
    BY <2>1, <2>2, <2>3, <2>4 DEF SlotKept, TypeOK, SlotType, CallType
  <2>6. OneOperationPerSlot'
    BY <1>types, <2>1, <2>2, <2>3, <2>4 DEF SlotKept, OneOperationPerSlot, CallType
  <2>7. ScheduleOwns'
    BY <1>types, <2>1, <2>2, <2>3, <2>4 DEF SlotKept, ScheduleOwns, ScheduleSteps,
       OneOperationPerSlot, CallType
  <2>8. ReleaseOwns'
    BY <1>types, <2>1, <2>2, <2>3, <2>4 DEF SlotKept, ReleaseOwns, ReleaseSteps,
       OneOperationPerSlot, CallType
  <2>9. UsedHasGeneration' /\ NoStrayTimer' /\ ArmedWillFire' /\ RepeatingRuns'
    BY <1>types, <2>1, <2>2, <2>3, <2>4 DEF SlotKept, UsedHasGeneration, NoStrayTimer,
       ArmedWillFire, RepeatingRuns
  <2>10. OneShotOnce' /\ NothingBeforeFiring'
    BY <2>1, <2>2, <2>3, <2>4 DEF SlotKept, OneShotOnce, NothingBeforeFiring
  <2>11. CallbackOfItsAlarm'
    BY <1>index, <2>1, <2>2, <2>3, <2>4 DEF SlotKept, CallbackOfItsAlarm
  <2> QED
    BY <2>5, <2>6, <2>7, <2>8, <2>9, <2>10, <2>11
<1>6. ASSUME NEW c \in Callers, NEW h \in held, Cancel(c, h)
      PROVE  AlarmInv'
  <2>1. h.index \in Index
    BY DEF TypeOK, Handles
  <2>2. /\ SlotKept(h.index) /\ slot'[h.index].state = "RELEASING"
        /\ slot'[h.index].pending = slot[h.index].pending
    BY <1>6, <2>1, SetStateFields DEF Cancel, SlotStates
  <2> QED
    BY <1>6, <2>2, BeginRelease DEF Cancel, At
<1>7. ASSUME NEW c \in Callers, NEW h \in held, TakeEvents(c, h)
      PROVE  AlarmInv'
  <2>1. h.index \in Index /\ slot[h.index] \in SlotType
    BY <1>types DEF TypeOK, Handles
  <2>3. CASE slot[h.index].state = "FIRED"
    <3>1. /\ SlotKept(h.index) /\ slot'[h.index].state = "RELEASING"
          /\ slot'[h.index].pending = 0
      BY <1>types, <1>7, <2>1, <2>3, ConsumedFields DEF TakeEvents, SlotStates
    <3> QED
      BY <1>7, <2>3, <3>1, BeginRelease DEF TakeEvents, At
  <2>4. CASE slot[h.index].state # "FIRED"
    <3>2. /\ SlotKept(h.index) /\ slot'[h.index].state = slot[h.index].state
          /\ slot'[h.index].pending = 0
      BY <1>types, <1>7, <2>1, <2>4, ConsumedFields DEF TakeEvents, SlotStates
    <3>3. UNCHANGED <<multicore, timer, startedFor, inFlight, call, held>>
      BY <1>7, <2>4 DEF TakeEvents
    <3>4. TypeOK' /\ \A j \in Index : slot'[j].state = slot[j].state
      BY <3>2, <3>3 DEF SlotKept, SlotType, TypeOK
    <3>5. OneOperationPerSlot' /\ ScheduleOwns' /\ ReleaseOwns'
      BY <1>types, <3>2, <3>3, <3>4 DEF SlotKept, OneOperationPerSlot, ScheduleOwns,
         ReleaseOwns,
         ScheduleSteps, ReleaseSteps, CallType
    <3>6. UsedHasGeneration' /\ NoStrayTimer' /\ ArmedWillFire' /\ RepeatingRuns'
      BY <3>2, <3>3 DEF SlotKept, UsedHasGeneration, NoStrayTimer, ArmedWillFire, RepeatingRuns
    <3>7. OneShotOnce' /\ NothingBeforeFiring' /\ CallbackOfItsAlarm'
      BY <1>index, <3>2, <3>3 DEF SlotKept, OneShotOnce, NothingBeforeFiring,
         CallbackOfItsAlarm
    <3> QED
      BY <3>4, <3>5, <3>6, <3>7
  <2> QED
    BY <2>3, <2>4
<1>8. ASSUME NEW c \in Callers, StopTimer(c)
      PROVE  AlarmInv'
  <2>1. /\ CallKept(c) /\ call'[c].at = "wait" /\ call[c].at = "stop"
        /\ call[c].index \in Index
    BY <1>types, <1>8, GotoFields DEF StopTimer, At, CallSteps, CallType
  <2>2. /\ timer' \in [Index -> {"none", "off"} \cup Running]
        /\ \A i \in Index : timer'[i] # timer[i] =>
             i = call[c].index /\ timer'[i] = "off"
    BY <1>types, <1>8, <2>1 DEF StopTimer
  <2>3. UNCHANGED <<multicore, slot, startedFor, inFlight, held>>
    BY <1>8 DEF StopTimer
  <2>4. slot[call[c].index].state = "RELEASING"
    BY <2>1 DEF ReleaseOwns, ReleaseSteps
  <2>5. TypeOK'
    BY <2>1, <2>2, <2>3, <2>4 DEF CallKept, TypeOK, CallType
  <2>6. OneOperationPerSlot'
    BY <1>types, <2>1, <2>2, <2>3, <2>4 DEF CallKept, OneOperationPerSlot, CallType, Running
  <2>7. ScheduleOwns'
    BY <1>types, <2>1, <2>2, <2>3, <2>4 DEF CallKept, ScheduleOwns, ScheduleSteps,
       OneOperationPerSlot, CallType, Running
  <2>8. ReleaseOwns'
    BY <1>types, <2>1, <2>2, <2>3, <2>4 DEF CallKept, ReleaseOwns, ReleaseSteps,
       OneOperationPerSlot, CallType, Running
  <2>9. UsedHasGeneration' /\ NoStrayTimer' /\ ArmedWillFire' /\ RepeatingRuns'
    BY <1>types, <2>1, <2>2, <2>3, <2>4 DEF CallKept, UsedHasGeneration, NoStrayTimer,
       ArmedWillFire, RepeatingRuns,
       Running
  <2>10. OneShotOnce' /\ NothingBeforeFiring'
    BY <2>1, <2>2, <2>3, <2>4 DEF CallKept, OneShotOnce, NothingBeforeFiring
  <2>11. CallbackOfItsAlarm'
    BY <1>index, <2>1, <2>2, <2>3, <2>4 DEF CallKept, CallbackOfItsAlarm
  <2> QED
    BY <2>5, <2>6, <2>7, <2>8, <2>9, <2>10, <2>11
<1>9. ASSUME NEW c \in Callers, WaitInactive(c)
      PROVE  AlarmInv'
  <2>1. /\ CallKept(c) /\ call'[c].at = "free" /\ call[c].at = "wait"
        /\ call[c].index \in Index
    BY <1>types, <1>9, GotoFields DEF WaitInactive, At, CallSteps, CallType
  <2>2. UNCHANGED <<multicore, slot, timer, startedFor, inFlight, held>>
    BY <1>9 DEF WaitInactive
  <2>3. timer[call[c].index] \notin Running
    BY <1>9 DEF WaitInactive
  <2>4. TypeOK'
    BY <2>1, <2>2, <2>3 DEF CallKept, TypeOK, CallType
  <2>5. OneOperationPerSlot'
    BY <1>types, <2>1, <2>2, <2>3 DEF CallKept, OneOperationPerSlot, CallType
  <2>6. ScheduleOwns'
    BY <1>types, <2>1, <2>2, <2>3 DEF CallKept, ScheduleOwns, ScheduleSteps,
       OneOperationPerSlot, CallType
  <2>7. ReleaseOwns'
    BY <1>types, <2>1, <2>2, <2>3 DEF CallKept, ReleaseOwns, ReleaseSteps,
       OneOperationPerSlot, CallType
  <2>8. UsedHasGeneration' /\ NoStrayTimer' /\ ArmedWillFire' /\ RepeatingRuns'
    BY <1>types, <2>1, <2>2, <2>3 DEF CallKept, UsedHasGeneration, NoStrayTimer,
       ArmedWillFire, RepeatingRuns
  <2>9. OneShotOnce' /\ NothingBeforeFiring'
    BY <2>1, <2>2, <2>3 DEF CallKept, OneShotOnce, NothingBeforeFiring
  <2>10. CallbackOfItsAlarm'
    BY <1>index, <2>1, <2>2, <2>3 DEF CallKept, CallbackOfItsAlarm
  <2> QED
    BY <2>4, <2>5, <2>6, <2>7, <2>8, <2>9, <2>10
<1>10. ASSUME NEW c \in Callers, Release(c)
      PROVE  AlarmInv'
  <2>1. /\ call' \in [Callers -> CallType] /\ call'[c].at = "idle"
        /\ \A d \in Callers : d # c => call'[d] = call[d]
        /\ call[c].at = "free" /\ call[c].index \in Index
    BY <1>types, <1>10, ReturnFields DEF Release, At, CallType
  <2>2. slot[call[c].index].generation = call[c].generation
        /\ slot[call[c].index].state = "RELEASING"
        /\ timer[call[c].index] \notin Running
    BY <2>1 DEF ReleaseOwns, ReleaseSteps
  <2>3. slot' = [slot EXCEPT ![call[c].index].pending = 0, ![call[c].index].state = "FREE"]
    BY <1>10, <2>2 DEF Release
  <2>4. /\ SlotKept(call[c].index) /\ slot'[call[c].index].state = "FREE"
        /\ slot'[call[c].index].pending = 0
    BY <1>types, <2>1, <2>3, ConsumedFields DEF SlotStates
  <2>5. UNCHANGED <<multicore, timer, startedFor, inFlight, held>>
    BY <1>10 DEF Release
  <2>6. TypeOK'
    BY <2>1, <2>2, <2>4, <2>5 DEF SlotKept, TypeOK, SlotType, CallType
  <2> DEFINE i == call[c].index
  <2>others. /\ i \in Index /\ slot[i].generation = call[c].generation
             /\ \A d \in Callers : d # c /\ call[d].at # "idle" => call[d].index # i
             /\ \A d \in Callers : call[d].at # "idle" => call[d].index \in Index
    BY <1>types, <2>1, <2>2 DEF OneOperationPerSlot, CallType
  <2>kept. /\ \A d \in Callers : call'[d].at # "idle" => d # c /\ call'[d] = call[d]
           /\ \A j \in Index : j # i => slot'[j] = slot[j]
           /\ UNCHANGED <<timer, held>>
    BY <2>1, <2>4, <2>5 DEF SlotKept
  <2> HIDE DEF i
  <2>7. OneOperationPerSlot'
    BY <2>others, <2>kept DEF OneOperationPerSlot
  <2>8. ScheduleOwns'
    BY <2>others, <2>kept DEF ScheduleOwns, ScheduleSteps
  <2>9. ReleaseOwns'
    BY <2>others, <2>kept DEF ReleaseOwns, ReleaseSteps
  <2>10. UsedHasGeneration' /\ NoStrayTimer' /\ RepeatingRuns'
    BY <2>others, <2>kept, <2>1, <2>2, <2>4, <2>5 DEF i, SlotKept, UsedHasGeneration,
       NoStrayTimer, RepeatingRuns
  <2>10a. ArmedWillFire'
    <3>1. slot'[i].state = "FREE" /\ call[c].at = "free"
      BY <2>1, <2>4 DEF i
    <3>2. UNCHANGED <<startedFor, inFlight>>
      BY <2>5
    <3> SUFFICES ASSUME NEW j \in Index, slot'[j].state = "ARMED"
                 PROVE  \/ timer[j] \in Running \/ inFlight.index = j
                        \/ \E d \in Callers : /\ call'[d].at \in {"start", "fail"}
                                              /\ call'[d].index = j
      BY <2>kept, <3>2 DEF ArmedWillFire
    <3>3. slot[j].state = "ARMED"
      BY <2>kept, <3>1
    <3>4. CASE \E d \in Callers : call[d].at \in {"start", "fail"} /\ call[d].index = j
      <4>1. PICK d \in Callers : call[d].at \in {"start", "fail"} /\ call[d].index = j
        BY <3>4
      <4>2. d # c
        BY <3>1, <4>1
      <4> QED
        BY <2>1, <4>1, <4>2
    <3> QED
      BY <3>3, <3>4 DEF ArmedWillFire
  <2>11. OneShotOnce' /\ NothingBeforeFiring'
    BY <2>1, <2>2, <2>4, <2>5 DEF SlotKept, OneShotOnce, NothingBeforeFiring
  <2>12. CallbackOfItsAlarm'
    BY <1>index, <2>1, <2>2, <2>4, <2>5 DEF SlotKept, CallbackOfItsAlarm
  <2> QED
    BY <2>6, <2>7, <2>8, <2>9, <2>10, <2>10a, <2>11, <2>12
<1>11. ASSUME NEW i \in Index, Expire(i)
      PROVE  AlarmInv'
  <2>1. /\ timer[i] \in Running /\ inFlight = NoCall
        /\ inFlight' = [index |-> i, generation |-> startedFor[i]]
        /\ UNCHANGED <<multicore, slot, startedFor, call, held>>
    BY <1>11 DEF Expire
  <2>2. /\ startedFor[i] = slot[i].generation /\ slot[i].generation \in Generation
    BY <2>1 DEF NoStrayTimer, UsedHasGeneration
  <2>3. /\ timer' \in [Index -> {"none", "off"} \cup Running]
        /\ \A j \in Index : j # i => timer'[j] = timer[j]
        /\ timer'[i] = IF timer[i] = "once" THEN "off" ELSE timer[i]
    BY <1>types, <1>11 DEF Expire
  <2>4. TypeOK'
    BY <2>1, <2>2, <2>3 DEF TypeOK, Handles
  <2>5. OneOperationPerSlot'
    BY <1>types, <2>1, <2>2, <2>3 DEF OneOperationPerSlot, CallType, Running
  <2>6. ScheduleOwns'
    BY <1>types, <2>1, <2>2, <2>3 DEF ScheduleOwns, ScheduleSteps,
       OneOperationPerSlot, CallType, Running
  <2>7. ReleaseOwns'
    BY <1>types, <2>1, <2>2, <2>3 DEF ReleaseOwns, ReleaseSteps,
       OneOperationPerSlot, CallType, Running
  <2>8. UsedHasGeneration' /\ NoStrayTimer' /\ ArmedWillFire' /\ RepeatingRuns'
    <3>1. UsedHasGeneration' /\ NoStrayTimer' /\ RepeatingRuns'
      BY <2>1, <2>3 DEF UsedHasGeneration, NoStrayTimer, RepeatingRuns, Running
    <3>2. ArmedWillFire'
      <4> SUFFICES ASSUME NEW j \in Index, slot[j].state = "ARMED", j # i,
                          timer[j] \notin Running
                   PROVE  \E c \in Callers :
                            call[c].at \in {"start", "fail"} /\ call[c].index = j
        BY <2>1, <2>3 DEF ArmedWillFire
      <4> QED
        BY <2>1 DEF ArmedWillFire, NoCall, Index
    <3> QED
      BY <3>1, <3>2
  <2>9. OneShotOnce' /\ NothingBeforeFiring'
    BY <2>1, <2>2, <2>3 DEF OneShotOnce, NothingBeforeFiring
  <2>10. CallbackOfItsAlarm'
    BY <1>index, <2>1, <2>2, <2>3 DEF CallbackOfItsAlarm, NoCall
  <2> QED
    BY <2>4, <2>5, <2>6, <2>7, <2>8, <2>9, <2>10
<1>12. CASE Callback
  <2> DEFINE i == inFlight.index
  <2>1. /\ i \in Index /\ slot[i] \in SlotType /\ inFlight # NoCall /\ inFlight' = NoCall
        /\ UNCHANGED <<multicore, timer, startedFor, call, held>>
    BY <1>types, <1>index, <1>12 DEF Callback
  <2> DEFINE p == IF slot[i].pending # MaxPending THEN slot[i].pending + 1 ELSE slot[i].pending
             s == IF slot[i].repeating THEN "ARMED" ELSE "FIRED"
  <2>2. p \in 0 .. MaxPending /\ s \in SlotStates
    BY <2>1 DEF SlotType, SlotStates
  <2>3. CASE slot[i].state = "ARMED"
    <3>1. slot' = [slot EXCEPT ![i] = [slot[i] EXCEPT !.pending = p, !.state = s]]
      BY <1>12, <2>3 DEF Callback
    <3> HIDE DEF i
    <3>2. /\ SlotKept(i) /\ slot'[i].state = s /\ slot'[i].pending = p
      <4> HIDE DEF p, s
      <4> QED
        BY <1>types, <2>1, <2>2, <3>1 DEF SlotKept, SlotType
    <3>3. TypeOK'
      BY <2>1, <3>2 DEF SlotKept, SlotType, TypeOK
    <3>4. OneOperationPerSlot' /\ ScheduleOwns' /\ ReleaseOwns'
      BY <1>types, <2>1, <2>3, <3>2 DEF SlotKept, OneOperationPerSlot, ScheduleOwns,
         ReleaseOwns,
         ScheduleSteps, ReleaseSteps, CallType
    <3>5. UsedHasGeneration' /\ NoStrayTimer' /\ ArmedWillFire' /\ RepeatingRuns'
      BY <2>1, <2>3, <3>2 DEF SlotKept, UsedHasGeneration, NoStrayTimer, ArmedWillFire,
         RepeatingRuns, Running, i
    <3>6. OneShotOnce' /\ NothingBeforeFiring' /\ CallbackOfItsAlarm'
      BY <2>1, <2>3, <3>2 DEF SlotKept, SlotType, OneShotOnce, NothingBeforeFiring,
         CallbackOfItsAlarm
    <3> QED
      BY <3>3, <3>4, <3>5, <3>6
  <2>4. CASE slot[i].state # "ARMED"
    <3>1. UNCHANGED slot
      BY <1>12, <2>4 DEF Callback
    <3> QED
      BY <2>1, <2>4, <3>1 DEF TypeOK, OneOperationPerSlot, ScheduleOwns, ReleaseOwns,
         UsedHasGeneration, NoStrayTimer, ArmedWillFire, RepeatingRuns, OneShotOnce,
         NothingBeforeFiring, CallbackOfItsAlarm
  <2> QED
    BY <2>3, <2>4
<1>13. CASE UNCHANGED vars
  BY <1>13 DEF vars, TypeOK, OneOperationPerSlot, ScheduleOwns, ReleaseOwns,
     UsedHasGeneration, NoStrayTimer, ArmedWillFire, RepeatingRuns, OneShotOnce,
     NothingBeforeFiring, CallbackOfItsAlarm
<1> QED
  BY <1>1, <1>2, <1>3, <1>4, <1>5, <1>6, <1>7, <1>8, <1>9, <1>10, <1>11, <1>12, <1>13
     DEF Next, ScheduleStep, ReleaseStep

LEMMA AlarmAlways == Spec => []AlarmInv
  BY AlarmInitially, AlarmStep, PTL DEF Spec

----------------------------------------------------------------------------
(* The theorems. *)

\* Between the critical sections of schedule, cancel and take_events nobody else
\* works on the slot.
THEOREM OneOperationPerSlotAlways == Spec => []OneOperationPerSlot
<1>1. AlarmInv => OneOperationPerSlot
  BY DEF AlarmInv
<1> QED
  BY AlarmAlways, <1>1, PTL

\* Slots and timers are of their types and agree: no timer runs for an alarm that
\* is gone, and no armed alarm is without one.
THEOREM SlotsMatchTimersAlways == Spec => []SlotsMatchTimers
<1>1. AlarmInv => SlotsMatchTimers
  BY DEF AlarmInv, SlotsMatchTimers
<1> QED
  BY AlarmAlways, <1>1, PTL

\* A one-shot alarm is counted at most once.
THEOREM OneShotCountedOnce == Spec => []OneShotOnce
<1>1. AlarmInv => OneShotOnce
  BY DEF AlarmInv
<1> QED
  BY AlarmAlways, <1>1, PTL

\* On one core only the callback of its own timer adds an event to an alarm: the
\* callback adds to the slot it was entered for, which cannot have been reused.
THEOREM EventsAreOwn == Spec => OwnEventsOnly
<1>1. ASSUME AlarmInv, [Next]_vars
      PROVE  [\A i \in Index : ~multicore /\ slot'[i].pending > slot[i].pending
                => inFlight.index = i /\ inFlight.generation = slot[i].generation]_vars
  <2> SUFFICES ASSUME NEW i \in Index, ~multicore, slot'[i].pending > slot[i].pending
               PROVE  inFlight.index = i /\ inFlight.generation = slot[i].generation
    OBVIOUS
  <2> USE DEF AlarmInv
  <2>inv. TypeOK /\ CallbackOfItsAlarm /\ multicore \in BOOLEAN
    BY <1>1 DEF TypeOK
  <2>types. /\ slot \in [Index -> SlotType] /\ call \in [Callers -> CallType]
         /\ \A h \in held : h.index \in Index
    <3>1. slot \in [Index -> SlotType] /\ call \in [Callers -> CallType]
      BY <2>inv DEF TypeOK, SlotType, CallType
    <3>2. ASSUME NEW h \in held
          PROVE  h.index \in Index
      BY <2>inv DEF TypeOK, Handles
    <3> QED
      BY <3>1, <3>2
  <2>count. slot[i].pending \in Nat
    BY <2>types, AlarmAssumption DEF SlotType
  <2>1. UNCHANGED slot => FALSE
    BY <2>count
  <2>2. ASSUME NEW c \in Callers, NEW r \in BOOLEAN, Reserve(c, r)
        PROVE  FALSE
    <3>1. PICK j \in FreeSlots :
            slot' = [slot EXCEPT ![j] =
              [state |-> "RESERVED", pending |-> 0,
               generation |-> NextGeneration(slot[j].generation), repeating |-> r]]
      BY <2>2 DEF Reserve
    <3>2. slot'[i] = slot[i] \/ slot'[i].pending = 0
      BY <2>types, <3>1
    <3> QED
      BY <2>count, <3>2
  <2>3. ASSUME NEW c \in Callers, Arm(c) \/ Fail(c) \/ \E h \in held : Cancel(c, h)
        PROVE  FALSE
    <3>1. PICK j \in Index, s \in SlotStates : SetState(j, s)
      <4>1. ASSUME Arm(c) \/ Fail(c)
            PROVE  \E s \in SlotStates : SetState(call[c].index, s)
        BY <4>1 DEF Arm, Fail, SlotStates
      <4>2. ASSUME NEW h \in held, Cancel(c, h)
            PROVE  \E s \in SlotStates : SetState(h.index, s)
        BY <4>2 DEF Cancel, SlotStates
      <4> QED
        BY <2>3, <2>types, <4>1, <4>2 DEF CallType
    <3>2. slot'[i].pending = slot[i].pending
      <4>1. SlotKept(j) /\ slot'[j].pending = slot[j].pending
        BY <2>inv, <3>1, SetStateFields
      <4> QED
        BY <4>1 DEF SlotKept
    <3> QED
      BY <2>count, <3>2
  <2>4. ASSUME NEW c \in Callers, Release(c) \/ \E h \in held : TakeEvents(c, h)
        PROVE  FALSE
    <3>1. PICK j \in Index, s \in SlotStates :
            \/ UNCHANGED slot
            \/ slot' = [slot EXCEPT ![j].pending = 0]
            \/ slot' = [slot EXCEPT ![j].pending = 0, ![j].state = s]
      <4>1. ASSUME Release(c)
            PROVE  \/ UNCHANGED slot
                   \/ slot' = [slot EXCEPT ![call[c].index].pending = 0,
                                          ![call[c].index].state = "FREE"]
        BY <4>1 DEF Release
      <4>2. ASSUME NEW h \in held, TakeEvents(c, h)
            PROVE  \/ slot' = [slot EXCEPT ![h.index].pending = 0]
                   \/ slot' = [slot EXCEPT ![h.index].pending = 0,
                                          ![h.index].state = "RELEASING"]
        BY <4>2 DEF TakeEvents
      <4>3. "FREE" \in SlotStates /\ "RELEASING" \in SlotStates /\ call[c].index \in Index
        BY <2>types DEF SlotStates, CallType
      <4> QED
        BY <2>4, <2>types, <4>1, <4>2, <4>3
    <3>2. \/ UNCHANGED slot
          \/ SlotKept(j) /\ slot'[j].pending = 0
      BY <2>types, <3>1, ConsumedFields
    <3>3. slot'[i].pending = slot[i].pending \/ slot'[i].pending = 0
      BY <3>2 DEF SlotKept
    <3> QED
      BY <2>count, <3>3
  <2>5. ASSUME Callback
        PROVE  inFlight.index = i /\ inFlight.generation = slot[i].generation
    <3>1. inFlight # NoCall
      BY <2>5 DEF Callback
    <3>2. inFlight.index = i
      <4> SUFFICES ASSUME inFlight.index # i
                   PROVE  slot'[i] = slot[i]
        BY <2>count
      <4> DEFINE j == inFlight.index
                 q == [slot[j] EXCEPT
                         !.pending = IF @ # MaxPending THEN @ + 1 ELSE @,
                         !.state = IF slot[j].repeating THEN "ARMED" ELSE "FIRED"]
      <4>1. UNCHANGED slot \/ slot' = [slot EXCEPT ![j] = q]
        BY <2>5 DEF Callback
      <4> HIDE DEF j, q
      <4>2. j # i
        BY DEF j
      <4> QED
        BY <2>types, <4>1, <4>2
    <3> QED
      BY <2>inv, <3>1, <3>2 DEF CallbackOfItsAlarm
  <2>6. ASSUME NEW c \in Callers, ScheduleStep(c) \/ ReleaseStep(c)
        PROVE  FALSE
    BY <2>1, <2>2, <2>3, <2>4, <2>6 DEF ScheduleStep, ReleaseStep, CreateTimer,
       StartTimer, StopTimer, WaitInactive
  <2>7. ASSUME NEW j \in Index, Expire(j)
        PROVE  FALSE
    BY <2>1, <2>7 DEF Expire
  <2> QED
    BY <1>1, <2>1, <2>5, <2>6, <2>7 DEF Next, vars
<1> QED
  BY AlarmAlways, <1>1, PTL DEF Spec, OwnEventsOnly
=============================================================================
