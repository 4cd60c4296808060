----------------------------- MODULE CalendarAlarm -----------------------------
(***************************************************************************)
(* runtime.mod/native/esp32_calendar.c: the system's clock set from a date,*)
(* and one alarm, an esp_timer whose callback counts and clears what       *)
(* wake_delay_us is told; and the light sleep of esp32_power.c, which asks *)
(* it when to wake.                                                        *)
(*                                                                         *)
(* The task of esp_timer is on core 0.  A program there does not run       *)
(* between the expiry and the end of the callback; managed code on core 1  *)
(* does.  A date is whole minutes: hours, seconds and milliseconds are     *)
(* tested and converted alike.                                             *)
(***************************************************************************)
EXTENDS Integers

CONSTANTS
  Dates,         \* the dates asked for, valid and not
  CalendarYears, \* the years in which the clock is looked at
  AlarmsMax      \* UINT32_MAX

ASSUME CalendarAssumption ==
  /\ AlarmsMax \in Nat \ {0}
  /\ Dates \subseteq [year : Int, month : Int, day : Int, minute : Int, utc : BOOLEAN,
                      offset : Int, dst : BOOLEAN]
  /\ {1970} \cup {date.year : date \in Dates} \subseteq CalendarYears
  /\ CalendarYears \subseteq Int

VARIABLES
  calCore,   \* never changes: the core of the task that calls
  calClock,  \* the system's time in minutes since 1970 (-1: before it)
  calAsked,  \* the date last accepted
  cal,       \* stopped, alarm_events, alarm_wakes
  calApp,    \* "idle", or where the program is in set_alarm or disable_alarm
  calWake,   \* the wake_from_low_power of the set_alarm under way
  calTimer,  \* esp_timer: "none", "off", "armed"
  calFiring, \* timers that expired and whose callback has not run: 0 or more
  calDue,    \* the alarm set last went off and was not taken
  slp        \* light sleep: what is to wake the chip, and what is enabled to

calVars == <<calCore, calClock, calAsked, cal, calApp, calWake, calTimer,
             calFiring, calDue, slp>>
calTime == <<calClock, calAsked>>
calAlarm == <<calApp, calWake, calTimer, calFiring, calDue, slp>>

----------------------------------------------------------------------------
(* Dates. *)

IsLeap(year) == (year % 4 = 0 /\ year % 100 # 0) \/ year % 400 = 0

\* Fault: every fourth year has a 29 February.
Fault_DaysInMonth(year, month) ==
  IF month \notin 1 .. 12 THEN 0
  ELSE <<31, 28, 31, 30, 31, 30, 31, 31, 30, 31, 30, 31>>[month]
       + IF month = 2 /\ year % 4 = 0 THEN 1 ELSE 0

DaysInMonth(year, month) ==
  IF month \notin 1 .. 12 THEN 0
  ELSE <<31, 28, 31, 30, 31, 30, 31, 31, 30, 31, 30, 31>>[month]
       + IF month = 2 /\ IsLeap(year) THEN 1 ELSE 0

ValidDate(date) ==
  /\ date.year \in 1970 .. 9999 /\ date.month \in 1 .. 12
  /\ date.day \in 1 .. DaysInMonth(date.year, date.month)
  /\ date.minute \in 0 .. 1439

\* timegm's days: a day past the month's last is one of the next month.
TimegmDays(date) ==
  LET y == date.year - 1
      leapDays == (y \div 4 - y \div 100 + y \div 400) - 477
      before == <<0, 31, 59, 90, 120, 151, 181, 212, 243, 273, 304, 334>>
  IN 365 * (date.year - 1970) + leapDays + before[date.month]
     + (IF date.month > 2 /\ IsLeap(date.year) THEN 1 ELSE 0)
     + date.day - 1

\* bmx_esp32_calendar_to_timeval, of a valid date.
ToTimeval(date) ==
  1440 * TimegmDays(date) + date.minute
  - (IF date.utc THEN 0 ELSE date.offset + (IF date.dst THEN 60 ELSE 0))

----------------------------------------------------------------------------
(* The clock. *)

\* calendar_start and calendar_set: a time before 1970 is set as well, and read
\* as a clock that does not run.
CalendarStart(date) ==
  /\ calApp = "idle"
  /\ ValidDate(date)
  /\ calClock' = IF ToTimeval(date) >= 0 THEN ToTimeval(date) ELSE -1
  /\ calAsked' = date
  /\ cal' = [cal EXCEPT !.stopped = FALSE]
  /\ UNCHANGED <<calCore, calAlarm>>

CalendarIsRunning == ~cal.stopped /\ calClock >= 0

\* gmtime_r: the year and the month that the day is in.
Gmtime(time) ==
  LET days == time \div 1440
      First(y, m) == TimegmDays([year |-> y, month |-> m, day |-> 1])
      year == CHOOSE y \in CalendarYears : days \in First(y, 1) .. First(y + 1, 1) - 1
      month == CHOOSE m \in 1 .. 12 :
                 First(year, m) <= days /\ (m < 12 => days < First(year, m + 1))
  IN [year |-> year, month |-> month, day |-> days - First(year, month) + 1]

----------------------------------------------------------------------------
(* bmx_esp32_calendar_set_alarm, of a date after now. *)

SetAlarm(wake) ==
  /\ calApp = "idle"
  /\ calApp' = "setReset"
  /\ calWake' = wake
  /\ calTimer' = "off"
  /\ UNCHANGED <<calCore, calTime, cal, calFiring, calDue, slp>>

SetReset ==
  /\ calApp = "setReset"
  /\ cal' = [cal EXCEPT !.events = 0]
  /\ calDue' = FALSE
  /\ calApp' = "setWakes"
  /\ UNCHANGED <<calCore, calTime, calWake, calTimer, calFiring, slp>>

SetWakes ==
  /\ calApp = "setWakes"
  /\ cal' = [cal EXCEPT !.wakes = calWake]
  /\ calApp' = "setStart"
  /\ UNCHANGED <<calCore, calTime, calWake, calTimer, calFiring, calDue, slp>>

SetStart ==
  /\ calApp = "setStart"
  /\ calTimer' = "armed"
  /\ calApp' = "idle"
  /\ UNCHANGED <<calCore, calTime, cal, calWake, calFiring, calDue, slp>>

\* Fault: what a failed set_alarm told wake_delay_us stays.
Fault_SetStartFails ==
  /\ calApp = "setStart"
  /\ calApp' = "idle"
  /\ UNCHANGED <<calCore, calTime, cal, calWake, calTimer, calFiring, calDue, slp>>

\* esp_timer_start_once fails.
SetStartFails ==
  /\ calApp = "setStart"
  /\ cal' = [cal EXCEPT !.wakes = FALSE]
  /\ calApp' = "idle"
  /\ UNCHANGED <<calCore, calTime, calWake, calTimer, calFiring, calDue, slp>>

----------------------------------------------------------------------------
(* disable_alarm, and stop, which disables and then says so. *)

DisableAlarm(stops) ==
  /\ calApp = "idle"
  /\ calTimer' = IF calTimer = "armed" THEN "off" ELSE calTimer
  /\ calApp' = IF stops THEN "stopping" ELSE "disabling"
  /\ UNCHANGED <<calCore, calTime, cal, calWake, calFiring, calDue, slp>>

DisableReset ==
  /\ calApp \in {"stopping", "disabling"}
  /\ cal' = [stopped |-> cal.stopped \/ calApp = "stopping", events |-> 0,
             wakes |-> FALSE]
  /\ calDue' = FALSE
  /\ calApp' = "idle"
  /\ UNCHANGED <<calCore, calTime, calWake, calTimer, calFiring, slp>>

TakeAlarmEvents ==
  /\ calApp = "idle" /\ cal.events > 0
  /\ cal' = [cal EXCEPT !.events = 0]
  /\ calDue' = FALSE
  /\ UNCHANGED <<calCore, calTime, calApp, calWake, calTimer, calFiring, slp>>

----------------------------------------------------------------------------
(* Light sleep, for a time or until an interrupt (bmx_embedded_power_sleep_ *)
(* for_ms, sleep_until_interrupt).  No timer of esp_timer expires asleep.   *)

WakeSources == {"none", "requested", "alarm"}

\* Fault: the calendar's alarm counts only when no time was asked for.
Fault_WakeAt(timed) ==
  IF timed THEN "requested" ELSE IF cal.wakes THEN "alarm" ELSE "none"

\* At the earlier of the two times, so by the alarm when it is to wake.
WakeAt(timed) ==
  IF cal.wakes THEN "alarm" ELSE IF timed THEN "requested" ELSE "none"

LightSleep(timed) ==
  /\ calApp = "idle"
  /\ slp' = [slp EXCEPT !.at = WakeAt(timed)]
  /\ calApp' = "sleepy"
  /\ UNCHANGED <<calCore, calTime, cal, calWake, calTimer, calFiring, calDue>>

\* The source cannot be enabled.
SleepFails ==
  /\ calApp = "sleepy" /\ slp.at # "none"
  /\ slp' = [slp EXCEPT !.at = "none"]
  /\ calApp' = "idle"
  /\ UNCHANGED <<calCore, calTime, cal, calWake, calTimer, calFiring, calDue>>

SleepStart ==
  /\ calApp = "sleepy"
  /\ slp' = [slp EXCEPT !.source = slp.at]
  /\ calApp' = "asleep"
  /\ UNCHANGED <<calCore, calTime, cal, calWake, calTimer, calFiring, calDue>>

\* Fault: the timer that woke the chip stays enabled.
Fault_SleepEnds ==
  /\ calApp = "asleep"
  /\ calApp' = "idle"
  /\ UNCHANGED <<calCore, calTime, cal, calWake, calTimer, calFiring, calDue, slp>>

\* By the source, by an interrupt, or at once because the sleep was refused.
SleepEnds ==
  /\ calApp = "asleep"
  /\ slp' = [at |-> "none", source |-> "none"]
  /\ calApp' = "idle"
  /\ UNCHANGED <<calCore, calTime, cal, calWake, calTimer, calFiring, calDue>>

----------------------------------------------------------------------------
(* esp_timer and the callback. *)

TimerExpires ==
  /\ calTimer = "armed" /\ calFiring = 0 /\ calApp # "asleep"
  /\ calTimer' = "off"
  /\ calFiring' = 1
  /\ UNCHANGED <<calCore, calTime, cal, calApp, calWake, calDue, slp>>

\* Fault: the alarm that went off still wakes.
Fault_AlarmCallback ==
  /\ calFiring = 1 /\ calApp # "asleep"
  /\ cal' = [cal EXCEPT !.events = IF @ # AlarmsMax THEN @ + 1 ELSE @]
  /\ calFiring' = 0
  /\ calDue' = TRUE
  /\ UNCHANGED <<calCore, calTime, calApp, calWake, calTimer, slp>>

AlarmCallback ==
  /\ calFiring = 1 /\ calApp # "asleep"
  /\ cal' = [cal EXCEPT !.events = IF @ # AlarmsMax THEN @ + 1 ELSE @,
                        !.wakes = FALSE]
  /\ calFiring' = 0
  /\ calDue' = TRUE
  /\ UNCHANGED <<calCore, calTime, calApp, calWake, calTimer, slp>>

----------------------------------------------------------------------------
CalendarInit ==
  /\ calCore \in {0, 1}
  /\ calClock = 0
  /\ calAsked = [year |-> 1970, month |-> 1, day |-> 1, minute |-> 0,
                 utc |-> TRUE, offset |-> 0, dst |-> FALSE]
  /\ cal = [stopped |-> FALSE, events |-> 0, wakes |-> FALSE]
  /\ calApp = "idle" /\ calWake = FALSE
  /\ calTimer = "none" /\ calFiring = 0 /\ calDue = FALSE
  /\ slp = [at |-> "none", source |-> "none"]

CalendarCall ==
  \/ \E date \in Dates : CalendarStart(date)
  \/ \E wake \in BOOLEAN : SetAlarm(wake)
  \/ SetReset \/ SetWakes \/ SetStart \/ SetStartFails
  \/ \E stops \in BOOLEAN : DisableAlarm(stops)
  \/ DisableReset \/ TakeAlarmEvents
  \/ \E timed \in BOOLEAN : LightSleep(timed)
  \/ SleepFails \/ SleepStart \/ SleepEnds

\* On core 0 the program waits for the callback.
CalendarNext ==
  \/ (calCore = 0 => calFiring = 0) /\ CalendarCall
  \/ TimerExpires \/ AlarmCallback

----------------------------------------------------------------------------
(* Properties. *)

\* The state is of the types the code declares.
CalendarTypeOK ==
  /\ calCore \in {0, 1}
  /\ calClock \in Int /\ calClock >= -1
  /\ cal \in [stopped : BOOLEAN, events : 0 .. AlarmsMax, wakes : BOOLEAN]
  /\ calApp \in {"idle", "setReset", "setWakes", "setStart", "stopping",
                 "disabling", "sleepy", "asleep"}
  /\ slp \in [at : WakeSources, source : WakeSources]
  /\ calTimer \in {"none", "off", "armed"}
  /\ calFiring \in {0, 1} /\ calDue \in BOOLEAN

\* What set accepts is what get shows: a date that days_in_month lets through
\* is the date the clock then has, in the time zone it was given in.
DateShown ==
  CalendarIsRunning =>
    LET time == calClock + ToTimeval([calAsked EXCEPT !.utc = TRUE])
                         - ToTimeval(calAsked)
    IN /\ Gmtime(time) = [year |-> calAsked.year, month |-> calAsked.month,
                          day |-> calAsked.day]
       /\ time % 1440 = calAsked.minute

\* Between calls, wake_delay_us reports a deadline only of an alarm that is
\* still to come or whose callback is about to run, and one alarm counts once.
\* On core 0 the alarm that is set is also never forgotten: it wakes as asked,
\* and what was not taken is what went off.
AlarmTold ==
  calApp = "idle" =>
    /\ cal.wakes => calTimer = "armed" \/ calFiring = 1
    /\ calCore = 0 =>
         /\ calTimer = "armed" => cal.wakes = calWake
         /\ calFiring = 0 => cal.events = IF calDue THEN 1 ELSE 0

\* The chip does not sleep past an alarm that is to wake it, for however long
\* it was told to, and awake no timer is left to wake it the next time.
SleepCovered ==
  /\ calApp = "asleep" /\ calTimer = "armed" /\ calWake /\ calCore = 0
       => slp.source = "alarm"
  /\ calApp # "asleep" => slp.source = "none"
=============================================================================
