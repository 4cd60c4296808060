------------------------------ MODULE WifiStation ------------------------------
(***************************************************************************)
(* network.mod/wifi.mod/native/esp32_wifi.c.  The owner task calls the     *)
(* functions of the module; the system event task handles what the driver  *)
(* posts; they share flags without a lock, and a ring of events under one. *)
(*                                                                         *)
(* Both tasks are on one core, and the event task has the higher priority: *)
(* it may run between any two steps of the owner, and the owner runs       *)
(* beside it only while the handler is inside a call of the driver.  The   *)
(* handler of a link event makes no such call and is one step.             *)
(*                                                                         *)
(* The driver, the interfaces and the event loop are external.  The        *)
(* addresses, names and reason codes that the events carry are left out:   *)
(* all connections that were not ended on demand are "failed".             *)
(***************************************************************************)
EXTENDS Naturals, Sequences

CONSTANTS
  Capacity,    \* BMX_WIFI_EVENT_CAPACITY
  MaxResults,  \* bound: networks a scan finds
  MaxPosted    \* bound: events of the event loop waiting when another is added,
               \* except the end of a scan

ASSUME WifiAssumption ==
  /\ Capacity \in Nat \ {0}
  /\ MaxResults \in Nat
  /\ MaxPosted \in Nat \ {0}

VARIABLES
  app,          \* the owner: "run", or the next step of the call it is in
  initialized,  \* bmx_wifi_initialized
  held,         \* what initialize has created or registered
  scanActive,   \* bmx_wifi_scan_active
  explicit,     \* bmx_wifi_explicit_disconnect
  apActive,     \* bmx_wifi_ap_active
  link,         \* bmx_wifi_link_status
  ring,         \* bmx_wifi_events from get to put
  handler,      \* the handler: where it is and the scan results left to read
  radio,        \* the driver
  posted,       \* the event loop: events posted and not yet handled
  mishaps       \* history: what the properties make exceptions for

moduleVars == <<initialized, held, scanActive, explicit, apActive, link, ring>>
vars == <<app, moduleVars, handler, radio, posted, mishaps>>

\* The calls of initialize after the first that can fail, and what follows each.
After == [ap |-> "driver", driver |-> "wifiHandler", wifiHandler |-> "ipHandler",
          ipHandler |-> "settings", settings |-> "start", start |-> "finish"]

Resources == {"sta", "ap", "driver", "wifiHandler", "ipHandler"}

AppSteps ==
  {"run", "finish", "scanFlag", "connectLink", "connect", "disconnect",
   "unregisterIp", "unregisterWifi", "deinit"} \cup DOMAIN After

LinkStates == {"down", "joined", "noIp", "up", "failed"}
RingEvents == {"result", "complete", "link"}

Handlers == [at : {"idle", "read", "flag", "complete"}, left : 0 .. MaxResults]

Idle == [at |-> "idle", left |-> 0]

Stations == {"idle", "connecting", "joined", "up"}

\* mode: "apsta" with an access point, "left" when it was left on because the
\* return to station mode failed; leased: the interface has, or
\* lately had, an address; list: the networks found and not yet read.
Radios ==
  [started : BOOLEAN, mode : {"sta", "apsta", "left"}, station : Stations,
   leased : BOOLEAN, scan : BOOLEAN, list : 0 .. MaxResults]

Off == [started |-> FALSE, mode |-> "sta", station |-> "idle", leased |-> FALSE,
        scan |-> FALSE, list |-> 0]

\* early: SCAN_DONE was handled before start_scan had set the flag.
\* unfinished: initialize has failed half way.
\* overlap: disconnect was called with an earlier disconnection still to be
\* handled; it ends with the call.
Mishaps == {"early", "unfinished", "overlap"}

----------------------------------------------------------------------------
(* Helpers. *)

Goto(step) == app' = step
Event(kind) == [kind |-> kind, cause |-> "none"]
Gone(cause) == [kind |-> "gone", cause |-> cause]

WifiKinds == {"scanDone", "joined", "gone", "stopped"}
IpKinds == {"gotIp", "lostIp"}
Causes == {"asked", "lost", "overtaken"}

Postings == {Event(kind) : kind \in (WifiKinds \cup IpKinds) \ {"gone"}}
              \cup {Gone(cause) : cause \in Causes}

IsPosted(kind) == \E i \in DOMAIN posted : posted[i].kind = kind

\* The events with a cause in S were overtaken by a call of the owner.
Overtake(S) ==
  [i \in DOMAIN posted |->
     IF posted[i].cause \in S THEN Gone("overtaken") ELSE posted[i]]

\* Fault: the ring takes one event more than it holds.
Fault_Queue(event) ==
  ring' = IF Len(ring) <= Capacity THEN Append(ring, event) ELSE ring

\* bmx_wifi_queue: an event that finds the ring full is dropped.
Queue(event) == ring' = IF Len(ring) < Capacity THEN Append(ring, event) ELSE ring

\* bmx_wifi_queue_link
QueueLink(status) == link' = status /\ Queue("link")

----------------------------------------------------------------------------
(* initialize and deinitialize. *)

\* The station interface; a second one is refused.  The calls before it leave
\* nothing behind.
Initialize ==
  /\ app = "run" /\ ~initialized
  /\ "sta" \notin held
  /\ held' = held \cup {"sta"}
  /\ Goto("ap")
  /\ UNCHANGED <<initialized, scanActive, explicit, apActive, link, ring,
                 handler, radio, posted, mishaps>>

InitStep ==
  /\ app \in DOMAIN After
  /\ held' = held \cup (Resources \cap {app})
  /\ radio' = CASE app = "settings" -> [radio EXCEPT !.mode = "sta"]
                [] app = "start" -> [radio EXCEPT !.started = TRUE]
                [] OTHER -> radio
  /\ Goto(After[app])
  /\ UNCHANGED <<initialized, scanActive, explicit, apActive, link, ring,
                 handler, posted, mishaps>>

\* Without an access point interface the station interface is given back; the
\* other failures undo nothing.
InitFails ==
  /\ app \in DOMAIN After
  /\ held' = IF app = "ap" THEN held \ {"sta"} ELSE held
  /\ mishaps' = IF app = "ap" THEN mishaps ELSE mishaps \cup {"unfinished"}
  /\ Goto("run")
  /\ UNCHANGED <<initialized, scanActive, explicit, apActive, link, ring,
                 handler, radio, posted>>

InitFinish ==
  /\ app = "finish"
  /\ initialized' = TRUE
  /\ scanActive' = FALSE /\ explicit' = FALSE /\ apActive' = FALSE
  /\ link' = "down"
  /\ ring' = <<>>
  /\ posted' = Overtake({"asked"})
  /\ Goto("run")
  /\ UNCHANGED <<held, handler, radio, mishaps>>

\* Fault: a scan in progress does not keep deinitialize from going on.
Fault_MayStop == TRUE

MayStop == ~scanActive

\* What esp_wifi_stop posts; it ends the connection.
StopEvents ==
  IF ~radio.started THEN <<>>
  ELSE (IF radio.station = "idle" THEN <<>> ELSE <<Gone("overtaken")>>)
         \o <<Event("stopped")>>

\* deinitialize, its checks and esp_wifi_stop.
Deinitialize ==
  /\ app = "run" /\ initialized /\ MayStop
  /\ Len(posted) < MaxPosted
  /\ posted' = posted \o StopEvents
  /\ radio' = [radio EXCEPT !.started = FALSE, !.station = "idle",
                            !.scan = FALSE]
  /\ Goto("unregisterIp")
  /\ UNCHANGED <<moduleVars, handler, mishaps>>

\* Fault: the IP handler is unregistered twice, the other one never.
Fault_Unregister ==
  /\ app \in {"unregisterIp", "unregisterWifi"}
  /\ handler = Idle
  /\ held' = held \ {"ipHandler"}
  /\ Goto(IF app = "unregisterIp" THEN "unregisterWifi" ELSE "deinit")
  /\ UNCHANGED <<initialized, scanActive, explicit, apActive, link, ring,
                 handler, radio, posted, mishaps>>

\* Both calls wait for a handler that is running.
Unregister ==
  /\ app \in {"unregisterIp", "unregisterWifi"}
  /\ handler = Idle
  /\ held' = held \ {IF app = "unregisterIp" THEN "ipHandler" ELSE "wifiHandler"}
  /\ Goto(IF app = "unregisterIp" THEN "unregisterWifi" ELSE "deinit")
  /\ UNCHANGED <<initialized, scanActive, explicit, apActive, link, ring,
                 handler, radio, posted, mishaps>>

\* esp_wifi_deinit and what follows it.
DeinitFinish ==
  /\ app = "deinit"
  /\ held' = held \ {"driver", "sta", "ap"}
  /\ initialized' = FALSE /\ apActive' = FALSE
  /\ ring' = <<>>
  /\ link' = "down"
  /\ radio' = Off
  /\ Goto("run")
  /\ UNCHANGED <<scanActive, explicit, handler, posted, mishaps>>

\* esp_wifi_deinit fails: the module stays initialised without its handlers.
DeinitFails ==
  /\ app = "deinit"
  /\ Goto("run")
  /\ UNCHANGED <<moduleVars, handler, radio, posted, mishaps>>

----------------------------------------------------------------------------
(* Scanning, connecting, the access point.  A call that the driver refuses at *)
(* once changes nothing and is left out. *)

\* start_scan: esp_wifi_scan_start, then the flag.
StartScan ==
  /\ app = "run" /\ initialized /\ ~scanActive
  /\ radio.started /\ ~radio.scan
  /\ radio' = [radio EXCEPT !.scan = TRUE]
  /\ Goto("scanFlag")
  /\ UNCHANGED <<moduleVars, handler, posted, mishaps>>

ScanFlag ==
  /\ app = "scanFlag"
  /\ scanActive' = TRUE
  /\ Goto("run")
  /\ UNCHANGED <<initialized, held, explicit, apActive, link, ring, handler,
                 radio, posted, mishaps>>

\* Fault: the flag of an earlier disconnect is kept.
Fault_KeepExplicit ==
  /\ app = "run" /\ initialized /\ radio.started
  /\ posted' = Overtake({"asked"})
  /\ Goto("connectLink")
  /\ UNCHANGED <<moduleVars, handler, radio, mishaps>>

\* connect after esp_wifi_set_config, in three steps.
Connect ==
  /\ app = "run" /\ initialized /\ radio.started
  /\ explicit' = FALSE
  /\ posted' = Overtake({"asked"})
  /\ Goto("connectLink")
  /\ UNCHANGED <<initialized, held, scanActive, apActive, link, ring, handler,
                 radio, mishaps>>

ConnectLink ==
  /\ app = "connectLink"
  /\ link' = "down"
  /\ Goto("connect")
  /\ UNCHANGED <<initialized, held, scanActive, explicit, apActive, ring,
                 handler, radio, posted, mishaps>>

\* esp_wifi_connect, which has no effect on a station that is not idle, or fails.
ConnectCall ==
  /\ app = "connect"
  /\ \/ radio' = [radio EXCEPT !.station =
                   IF radio.station = "idle" THEN "connecting" ELSE @]
     \/ UNCHANGED radio
  /\ Goto("run")
  /\ UNCHANGED <<moduleVars, handler, posted, mishaps>>

\* disconnect: the flag, then esp_wifi_disconnect.
Disconnect ==
  /\ app = "run" /\ initialized
  /\ explicit' = TRUE
  /\ posted' = Overtake({"lost"})
  /\ mishaps' = mishaps \cup (IF IsPosted("gone") THEN {"overlap"} ELSE {})
  /\ Goto("disconnect")
  /\ UNCHANGED <<initialized, held, scanActive, apActive, link, ring, handler,
                 radio>>

\* A station that is idle stays so, and nothing is posted.  After an overlap the
\* flag may be used up.
DisconnectCall ==
  /\ app = "disconnect" /\ radio.started
  /\ Len(posted) < MaxPosted
  /\ posted' = IF radio.station = "idle" THEN posted
               ELSE Append(posted, Gone(IF "overlap" \in mishaps THEN "overtaken"
                                        ELSE "asked"))
  /\ radio' = [radio EXCEPT !.station = "idle"]
  /\ mishaps' = mishaps \ {"overlap"}
  /\ Goto("run")
  /\ UNCHANGED <<moduleVars, handler>>

DisconnectFails ==
  /\ app = "disconnect"
  /\ explicit' = FALSE
  /\ posted' = Overtake({"asked"})
  /\ mishaps' = mishaps \ {"overlap"}
  /\ Goto("run")
  /\ UNCHANGED <<initialized, held, scanActive, apActive, link, ring, handler,
                 radio>>

StartAccessPoint ==
  /\ app = "run" /\ initialized
  /\ apActive' = TRUE
  /\ radio' = [radio EXCEPT !.mode = "apsta"]
  /\ UNCHANGED <<app, initialized, held, scanActive, explicit, link, ring,
                 handler, posted, mishaps>>

\* Fault: a refused configuration leaves the access point on.
Fault_NoRollback ==
  /\ app = "run" /\ initialized
  /\ radio' = [radio EXCEPT !.mode = "apsta"]
  /\ UNCHANGED <<app, moduleVars, handler, posted, mishaps>>

\* start_access_point: a failure, in either call, is followed by a return to
\* station mode; when that fails too the mode stays, or is the new one.
StartAccessPointFails ==
  /\ app = "run" /\ initialized
  /\ \E mode \in {"sta", "left", radio.mode} : radio' = [radio EXCEPT !.mode = mode]
  /\ UNCHANGED <<app, moduleVars, handler, posted, mishaps>>

StopAccessPoint ==
  /\ app = "run" /\ initialized /\ apActive
  /\ apActive' = FALSE
  /\ radio' = [radio EXCEPT !.mode = "sta"]
  /\ UNCHANGED <<app, initialized, held, scanActive, explicit, link, ring,
                 handler, posted, mishaps>>

TakeEvent ==
  /\ app = "run" /\ ring # <<>>
  /\ ring' = Tail(ring)
  /\ UNCHANGED <<app, initialized, held, scanActive, explicit, apActive, link,
                 handler, radio, posted, mishaps>>

----------------------------------------------------------------------------
(* The handler, on the event task.  Every call of the driver in it is a step, *)
(* and so is the end of a scan, of which the owner may see half if it is on   *)
(* another core. *)

Handles(kind) ==
  /\ handler = Idle
  /\ posted # <<>> /\ Head(posted).kind = kind
  /\ posted' = Tail(posted)

Registered(kind) ==
  (IF kind \in WifiKinds THEN "wifiHandler" ELSE "ipHandler") \in held

\* An event for which no handler is registered any more.
Discard ==
  /\ \E kind \in WifiKinds \cup IpKinds :
       Handles(kind) /\ ~Registered(kind)
  /\ UNCHANGED <<app, moduleVars, handler, radio, mishaps>>

\* Fault: nothing is done when the number of networks is not to be had.
Fault_HandleScanDone ==
  /\ Handles("scanDone") /\ Registered("scanDone")
  /\ \/ handler' = [at |-> "read", left |-> radio.list]
     \/ UNCHANGED handler
  /\ UNCHANGED <<app, moduleVars, radio, mishaps>>

\* Fault: the flag is cleared before the results are read.
Fault_ClearFirst ==
  /\ Handles("scanDone") /\ Registered("scanDone")
  /\ scanActive' = FALSE
  /\ handler' = [at |-> "read", left |-> radio.list]
  /\ UNCHANGED <<app, initialized, held, explicit, apActive, link, ring, radio,
                 mishaps>>

\* scan_done: how many networks there are, if the driver says.
HandleScanDone ==
  /\ Handles("scanDone") /\ Registered("scanDone")
  /\ handler' \in {[at |-> "read", left |-> radio.list], [at |-> "flag", left |-> 0]}
  /\ UNCHANGED <<app, moduleVars, radio, mishaps>>

\* One network is taken from the driver's list and queued; or that fails.
ReadResult ==
  /\ handler.at = "read" /\ handler.left > 0
  /\ \/ /\ Queue("result")
        /\ radio' = [radio EXCEPT !.list = IF @ = 0 THEN 0 ELSE @ - 1]
        /\ handler' = [handler EXCEPT !.left = @ - 1]
     \/ /\ handler' = [handler EXCEPT !.left = 0]
        /\ UNCHANGED <<ring, radio>>
  /\ UNCHANGED <<app, initialized, held, scanActive, explicit, apActive, link,
                 posted, mishaps>>

ClearList ==
  /\ handler.at = "read" /\ handler.left = 0
  /\ radio' = [radio EXCEPT !.list = 0]
  /\ handler' = [handler EXCEPT !.at = "flag"]
  /\ UNCHANGED <<app, moduleVars, posted, mishaps>>

ClearFlag ==
  /\ handler.at = "flag"
  /\ scanActive' = FALSE
  /\ mishaps' = IF app = "scanFlag" THEN mishaps \cup {"early"} ELSE mishaps
  /\ handler' = [handler EXCEPT !.at = "complete"]
  /\ UNCHANGED <<app, initialized, held, explicit, apActive, link, ring, radio,
                 posted>>

QueueComplete ==
  /\ handler.at = "complete"
  /\ Queue("complete")
  /\ handler' = Idle
  /\ UNCHANGED <<app, initialized, held, scanActive, explicit, apActive, link,
                 radio, posted, mishaps>>

HandleJoined ==
  /\ Handles("joined") /\ Registered("joined")
  /\ QueueLink("joined")
  /\ UNCHANGED <<app, initialized, held, scanActive, explicit, apActive, handler,
                 radio, mishaps>>

\* Fault: the end of a connection that the program asked for is not reported.
Fault_OnlyFailures ==
  /\ Handles("gone") /\ Registered("gone")
  /\ IF explicit THEN UNCHANGED <<link, ring>> ELSE QueueLink("failed")
  /\ explicit' = FALSE
  /\ UNCHANGED <<app, initialized, held, scanActive, apActive, handler, radio,
                 mishaps>>

\* WIFI_EVENT_STA_DISCONNECTED uses up the flag of disconnect.
HandleGone ==
  /\ Handles("gone") /\ Registered("gone")
  /\ QueueLink(IF explicit THEN "down" ELSE "failed")
  /\ explicit' = FALSE
  /\ UNCHANGED <<app, initialized, held, scanActive, apActive, handler, radio,
                 mishaps>>

HandleStopped ==
  /\ Handles("stopped") /\ Registered("stopped")
  /\ QueueLink("down")
  /\ UNCHANGED <<app, initialized, held, scanActive, explicit, apActive, handler,
                 radio, mishaps>>

\* IP_EVENT_STA_GOT_IP and IP_EVENT_STA_LOST_IP
HandleIp ==
  /\ \/ Handles("gotIp") /\ Registered("gotIp") /\ QueueLink("up")
     \/ Handles("lostIp") /\ Registered("lostIp") /\ QueueLink("noIp")
  /\ UNCHANGED <<app, initialized, held, scanActive, explicit, apActive, handler,
                 radio, mishaps>>

----------------------------------------------------------------------------
(* The driver and the interface, external.  They post in the order in which *)
(* things happen. *)

Posts(event) == posted' = Append(posted, event)

ScanEnds ==
  /\ radio.scan
  /\ \E n \in 0 .. MaxResults : radio' = [radio EXCEPT !.scan = FALSE, !.list = n]
  /\ Posts(Event("scanDone"))
  /\ UNCHANGED <<app, moduleVars, handler, mishaps>>

Joins ==
  /\ radio.station = "connecting" /\ Len(posted) < MaxPosted
  /\ radio' = [radio EXCEPT !.station = "joined"]
  /\ Posts(Event("joined"))
  /\ UNCHANGED <<app, moduleVars, handler, mishaps>>

GetsAddress ==
  /\ radio.station = "joined" /\ Len(posted) < MaxPosted
  /\ radio' = [radio EXCEPT !.station = "up", !.leased = TRUE]
  /\ Posts(Event("gotIp"))
  /\ UNCHANGED <<app, moduleVars, handler, mishaps>>

\* The network is not found, does not let the station in, or lets it go.
IsLost ==
  /\ radio.station # "idle" /\ Len(posted) < MaxPosted
  /\ radio' = [radio EXCEPT !.station = "idle"]
  /\ Posts(Gone(IF app = "disconnect" THEN "overtaken" ELSE "lost"))
  /\ UNCHANGED <<app, moduleVars, handler, mishaps>>

LosesAddress ==
  /\ radio.station = "up"
  /\ radio' = [radio EXCEPT !.station = "joined"]
  /\ UNCHANGED <<app, moduleVars, handler, posted, mishaps>>

\* The interface reports a lost address some time later.
LeaseEnds ==
  /\ radio.leased /\ radio.station # "up" /\ Len(posted) < MaxPosted
  /\ radio' = [radio EXCEPT !.leased = FALSE]
  /\ Posts(Event("lostIp"))
  /\ UNCHANGED <<app, moduleVars, handler, mishaps>>

----------------------------------------------------------------------------
Init ==
  /\ app = "run"
  /\ initialized = FALSE /\ held = {}
  /\ scanActive = FALSE /\ explicit = FALSE /\ apActive = FALSE
  /\ link = "down"
  /\ ring = <<>>
  /\ handler = Idle
  /\ radio = Off
  /\ posted = <<>>
  /\ mishaps = {}

OwnerStep ==
  \/ Initialize \/ InitStep \/ InitFails \/ InitFinish
  \/ Deinitialize \/ Unregister \/ DeinitFinish \/ DeinitFails
  \/ StartScan \/ ScanFlag
  \/ Connect \/ ConnectLink \/ ConnectCall
  \/ Disconnect \/ DisconnectCall \/ DisconnectFails
  \/ StartAccessPoint \/ StartAccessPointFails \/ StopAccessPoint
  \/ TakeEvent

HandlerStep ==
  \/ Discard
  \/ HandleScanDone \/ ReadResult \/ ClearList \/ ClearFlag \/ QueueComplete
  \/ HandleJoined \/ HandleGone \/ HandleStopped \/ HandleIp

RadioStep ==
  ScanEnds \/ Joins \/ GetsAddress \/ IsLost \/ LosesAddress \/ LeaseEnds

Next == OwnerStep \/ HandlerStep \/ RadioStep

Spec == Init /\ [][Next]_vars

\* The event task is scheduled, and a scan takes a bounded time.
Fairness == WF_vars(HandlerStep) /\ WF_vars(ScanEnds)

FairSpec == Spec /\ Fairness

----------------------------------------------------------------------------
(* Properties. *)

TypeOK ==
  /\ app \in AppSteps
  /\ initialized \in BOOLEAN /\ held \subseteq Resources
  /\ scanActive \in BOOLEAN /\ explicit \in BOOLEAN /\ apActive \in BOOLEAN
  /\ link \in LinkStates
  /\ ring \in Seq(RingEvents) /\ Len(ring) <= Capacity
  /\ handler \in Handlers
  /\ radio \in Radios
  /\ posted \in Seq(Postings)
  /\ mishaps \subseteq Mishaps

\* The scan flag is set only while a scan goes on, or its end is still to be
\* handled.  In particular it is clear, unless a new scan was started, when the
\* completion is reported, so that the program may scan again or give WiFi up;
\* and no scan is cut off by deinitialize, which would leave it set.  The
\* exception is a scan that ended before start_scan could set the flag.
ScanFlagHonest ==
  scanActive =>
    \/ radio.scan \/ IsPosted("scanDone") \/ handler.at \in {"read", "flag"}
    \/ "early" \in mishaps

\* The results of a scan are not read while another one runs.
ResultsOfOneScan == handler.at = "read" => ~radio.scan

\* The link is reported joined or up only while the station is, or the event
\* that says otherwise is on its way, whatever calls and events overlap.
NoStaleLink ==
  link \in {"joined", "up"} /\ "wifiHandler" \in held =>
    \/ radio.station \in {"joined", "up"}
    \/ IsPosted("gone") \/ IsPosted("stopped")

\* A connection the program ended is reported down and one that was lost is not,
\* although disconnect leaves only a flag that the next event, if there is one,
\* uses up.  Events overtaken by a later call are excepted.
CauseReported ==
  [][posted # <<>> /\ Registered(Head(posted).kind) /\ posted' = Tail(posted) =>
       /\ Head(posted).cause = "asked" => link' = "down"
       /\ Head(posted).cause = "lost" => link' # "down"]_vars

\* While WiFi is off nothing is left of it: no interface, handler or driver, no
\* event of the session that ended and no link.  The exception is an initialize
\* that failed half way.
TornDown ==
  app = "run" /\ ~initialized /\ "unfinished" \notin mishaps =>
    held = {} /\ ring = <<>> /\ link = "down" /\ ~apActive

\* No access point runs that the program believes to be off, unless the return
\* to station mode failed as well.
NoHiddenAccessPoint ==
  initialized /\ app = "run" /\ radio.mode = "apsta" => apActive

\* What the program is told of the link and of the access point is so, while the
\* module is in use and after it.
LinkHonest == NoStaleLink /\ TornDown /\ NoHiddenAccessPoint

\* A scan comes to an end, and the flag shows it.
ScanFinishes == scanActive ~> ~scanActive \/ "early" \in mishaps

\* Stated by docs/runtime-integration.md: initialisation is repeatable, after it
\* failed half way too.
InitializeRepeatable == app = "run" /\ ~initialized => held = {}
=============================================================================
