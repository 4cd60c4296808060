------------------------------- MODULE Watchdog -------------------------------
(***************************************************************************)
(* runtime.mod/native/esp32_watchdog.c: the task watchdog of ESP-IDF,      *)
(* which the system may have started already and put the task on, borrowed *)
(* by enable and handed back by disable.                                   *)
(*                                                                         *)
(* One task calls these functions, so that each is a step.  Any call of    *)
(* ESP-IDF may fail, and then changes nothing.                             *)
(***************************************************************************)
EXTENDS Naturals

CONSTANT Delays  \* the timeouts asked for, in milliseconds

ASSUME WatchdogAssumption == Delays \subseteq Nat \ {0}

VARIABLES
  wdt,     \* active, added and initialized: the three static flags
  twdt,    \* ESP-IDF: whether the watchdog runs, its timeout (0: that of the
           \* build's configuration), whether the task is subscribed
  wdtHome, \* never changes: twdt as the system set it up
  wdtLost  \* a call of ESP-IDF failed whose result is ignored

wdtVars == <<wdt, twdt, wdtHome, wdtLost>>

TwdtState == [running : BOOLEAN, timeout : Delays \cup {0}, subscribed : BOOLEAN]

Stopped == [running |-> FALSE, timeout |-> 0, subscribed |-> FALSE]

\* Started by enable, or reconfigured by it.
Timed(delay) == [twdt EXCEPT !.running = TRUE, !.timeout = delay]

----------------------------------------------------------------------------
(* bmx_embedded_watchdog_enable. *)

\* While active only the timeout changes.
EnableAgain(delay) ==
  /\ wdt.active
  /\ twdt' = Timed(delay)
  /\ UNCHANGED <<wdt, wdtHome, wdtLost>>

\* Fault: the task counts as added by enable although it was subscribed.
Fault_Enable(delay) ==
  /\ ~wdt.active
  /\ twdt' = [Timed(delay) EXCEPT !.subscribed = TRUE]
  /\ wdt' = [active |-> TRUE, added |-> TRUE,
             initialized |-> wdt.initialized \/ ~twdt.running]
  /\ UNCHANGED <<wdtHome, wdtLost>>

Enable(delay) ==
  /\ ~wdt.active
  /\ twdt' = [Timed(delay) EXCEPT !.subscribed = TRUE]
  /\ wdt' = [active |-> TRUE, added |-> wdt.added \/ ~twdt.subscribed,
             initialized |-> wdt.initialized \/ ~twdt.running]
  /\ UNCHANGED <<wdtHome, wdtLost>>

\* The task cannot be subscribed: the watchdog is stopped if enable started
\* it, and otherwise given its old timeout, if that does not fail as well.
EnableFails(delay) ==
  LET mine == wdt.initialized \/ ~twdt.running IN
  /\ ~wdt.active
  /\ ~twdt.subscribed
  /\ twdt' \in {Timed(delay), IF mine THEN Stopped ELSE Timed(0)}
  /\ wdtLost' = (wdtLost \/ twdt' = Timed(delay))
  /\ wdt' = [wdt EXCEPT !.initialized = FALSE]
  /\ UNCHANGED wdtHome

----------------------------------------------------------------------------
(* bmx_embedded_watchdog_disable. *)

\* The task's subscription after esp_task_wdt_delete, if there is reason to.
Left == [twdt EXCEPT !.subscribed = @ /\ ~wdt.added]

Disable ==
  /\ wdt.active
  /\ twdt' = IF wdt.initialized THEN Stopped ELSE [Left EXCEPT !.timeout = 0]
  /\ wdt' = [active |-> FALSE, added |-> FALSE, initialized |-> FALSE]
  /\ UNCHANGED <<wdtHome, wdtLost>>

\* Fault: the watchdog counts as off although it could not be stopped.
Fault_DisableFails ==
  /\ wdt.active
  /\ twdt' = Left
  /\ wdt' = [wdt EXCEPT !.active = FALSE, !.added = FALSE]
  /\ UNCHANGED <<wdtHome, wdtLost>>

\* The task is off the watchdog, which cannot be stopped or reconfigured: it
\* stays active, and the task stays off it however often enable is called.
DisableFails ==
  /\ wdt.active
  /\ twdt' = Left
  /\ wdt' = [wdt EXCEPT !.added = FALSE]
  /\ UNCHANGED <<wdtHome, wdtLost>>

----------------------------------------------------------------------------
\* bmx_embedded_watchdog_is_enabled; bmx_embedded_watchdog_feed asks the same.
IsEnabled == wdt.active /\ twdt.subscribed

WatchdogInit ==
  /\ wdt = [active |-> FALSE, added |-> FALSE, initialized |-> FALSE]
  /\ wdtHome \in {s \in TwdtState : s.timeout = 0 /\ (s.subscribed => s.running)}
  /\ twdt = wdtHome
  /\ wdtLost = FALSE

WatchdogNext ==
  \/ \E delay \in Delays :
       EnableAgain(delay) \/ Enable(delay) \/ EnableFails(delay)
  \/ Disable \/ DisableFails

----------------------------------------------------------------------------
(* Properties. *)

\* The flags and the watchdog are of their types; only a watchdog that runs has
\* a timeout and tasks.
WatchdogTypeOK ==
  /\ wdt \in [active : BOOLEAN, added : BOOLEAN, initialized : BOOLEAN]
  /\ twdt \in TwdtState /\ wdtHome \in TwdtState
  /\ wdtLost \in BOOLEAN
  /\ twdt.running \/ twdt = Stopped

\* While the watchdog is not active it is as the system set it up, the task's
\* subscription included, after any sequence of calls and of failures that the
\* code does not ignore; and while it is active the task that enable
\* subscribed, or found subscribed, is watched, unless a disable failed half
\* way (bmx_embedded_watchdog_disable clears added first).
WatchdogRestored ==
  ~wdtLost =>
    /\ ~wdt.active => twdt = wdtHome /\ ~wdt.added /\ ~wdt.initialized
    /\ wdt.active => twdt.running /\ (wdt.added \/ wdtHome.subscribed => IsEnabled)
    /\ wdt.initialized => ~wdtHome.running
=============================================================================
