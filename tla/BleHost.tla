-------------------------------- MODULE BleHost --------------------------------
(***************************************************************************)
(* network.mod/ble.mod/native/esp32_ble.c without its GATT server.  The    *)
(* owner task calls the functions of the module; the NimBLE host task      *)
(* calls its callbacks.  They share flags without a lock.                  *)
(*                                                                         *)
(* The host task has the higher priority: it may run between any two steps *)
(* of the owner, and a callback is one step with the change in the host    *)
(* that it reports, except where it restarts advertising: that waits for   *)
(* the controller, and the owner runs meanwhile.                           *)
(*                                                                         *)
(* The host and the controller are external.  Addresses, data, parameters  *)
(* and error codes are left out, and so is the failure of nimble_port_     *)
(* deinit after nimble_port_stop.  A call that fails and changes nothing   *)
(* is no action.                                                           *)
(***************************************************************************)
EXTENDS Naturals, FiniteSets

CONSTANTS
  Links,     \* connection handles the controller gives out, again and again
  NoLink,    \* a read slot that is not active
  NSlots,    \* BMX_BLE_MAX_PENDING_READS
  MaxLinks,  \* BMX_BLE_MAX_CONNECTIONS; the host admits no more
  Capacity   \* BMX_BLE_EVENT_CAPACITY

ASSUME BleAssumption ==
  /\ NoLink \notin Links
  /\ IsFiniteSet(Links) /\ Cardinality(Links) <= MaxLinks
  /\ NSlots \in Nat \ {0}
  /\ MaxLinks \in Nat
  /\ Capacity \in Nat \ {0}

Slots == 1 .. NSlots

VARIABLES
  app,          \* the owner: "run", or the next step of the call it is in
  claim,        \* the slot and the link of the client_read in progress
  initialized,  \* bmx_ble_initialized
  ready,        \* bmx_ble_ready
  scanActive,   \* bmx_ble_scan_active
  advActive,    \* bmx_ble_advertising_active
  autoRestart,  \* bmx_ble_advertising_auto_restart
  connecting,   \* bmx_ble_connecting
  table,        \* bmx_ble_connections, of which the order means nothing
  reads,        \* bmx_ble_client_reads: the link of each active slot
  queued,       \* how many events wait in bmx_ble_events
  handler,      \* the host task: "idle", or in a callback that restarts
  host,         \* the host
  owed,         \* history: a scan was started and its end not yet reported
  mishaps       \* history: the flags that disagree with the host for good

flagVars == <<scanActive, advActive, autoRestart, connecting>>
moduleVars == <<initialized, ready, flagVars, table, reads, queued>>
vars == <<app, claim, moduleVars, handler, host, owed, mishaps>>

AppSteps ==
  {"run", "scanFlag", "scanCancel", "advStart", "advFlag", "advFailed", "advStop",
   "connFlag", "readCall", "deinitConn", "deinitAdv", "deinitPort"}

\* connect: a connection is being established, or that was cancelled; ended:
\* the end of advertising on demand is yet to be reported; inbound: the links
\* in which this device has the role of the slave; procs: the reads under way.
Hosts ==
  [synced : BOOLEAN, scan : BOOLEAN, adv : BOOLEAN, ended : BOOLEAN,
   connect : {"no", "yes", "cancelled"}, links : SUBSET Links,
   inbound : SUBSET Links, procs : SUBSET (Slots \X Links)]

Down == [synced |-> FALSE, scan |-> FALSE, adv |-> FALSE, ended |-> FALSE,
         connect |-> "no", links |-> {}, inbound |-> {}, procs |-> {}]

Mishaps == {"scan", "adv", "connect", "read"}

NoReads == [s \in Slots |-> NoLink]

----------------------------------------------------------------------------
(* Helpers. *)

Goto(step) == app' = step
Ready == app = "run" /\ initialized /\ ready

\* Fault: the ring takes one event more than it holds.
Fault_Queue(n) ==
  queued' = IF queued + n > Capacity THEN Capacity + 1 ELSE queued + n

\* bmx_ble_queue, n times: events that find the ring full are dropped.
Queue(n) == queued' = IF queued + n > Capacity THEN Capacity ELSE queued + n

\* The flag is what it is, and the host does not agree.
Disagrees(flag, wrong) ==
  mishaps' = IF wrong THEN mishaps \cup {flag} ELSE mishaps \ {flag}

\* bmx_ble_add_connection
AddConnection(link) ==
  table' = IF Cardinality(table) < MaxLinks THEN table \cup {link} ELSE table

\* bmx_ble_remove_connection
RemoveConnection(link) == table' = table \ {link}

\* The slots that are released when link ends: first the host fails its reads,
\* then the callback looks for others.
SlotsOf(link) ==
  {s \in Slots : reads[s] = link \/ (<<s, link>> \in host.procs /\ reads[s] # NoLink)}

Release(slots) == [s \in Slots |-> IF s \in slots THEN NoLink ELSE reads[s]]

----------------------------------------------------------------------------
(* initialize and deinitialize. *)

\* A failure in initialize gives back what was taken.  connecting is left as
\* it is.
Initialize ==
  /\ app = "run" /\ ~initialized
  /\ initialized' = TRUE /\ ready' = FALSE
  /\ scanActive' = FALSE /\ advActive' = FALSE /\ autoRestart' = FALSE
  /\ table' = {} /\ reads' = NoReads /\ queued' = 0
  /\ UNCHANGED <<app, claim, connecting, handler, host, owed, mishaps>>

\* Without an error, or with EALREADY, each of the calls is followed by the
\* next step.
Deinitialize ==
  /\ app = "run" /\ initialized
  /\ host' = IF scanActive THEN [host EXCEPT !.scan = FALSE] ELSE host
  /\ Goto("deinitConn")
  /\ UNCHANGED <<claim, moduleVars, handler, owed, mishaps>>

DeinitConn ==
  /\ app = "deinitConn"
  /\ host' = IF connecting /\ host.connect = "yes"
             THEN [host EXCEPT !.connect = "cancelled"] ELSE host
  /\ connecting' = FALSE
  /\ Goto("deinitAdv")
  /\ UNCHANGED <<claim, initialized, ready, scanActive, advActive, autoRestart,
                 table, reads, queued, handler, owed, mishaps>>

DeinitAdv ==
  /\ app = "deinitAdv"
  /\ autoRestart' = FALSE
  /\ host' = IF advActive THEN [host EXCEPT !.adv = FALSE] ELSE host
  /\ Goto("deinitPort")
  /\ UNCHANGED <<claim, initialized, ready, scanActive, advActive, connecting,
                 table, reads, queued, handler, owed, mishaps>>

\* A call that fails ends deinitialize half way.
DeinitFails ==
  /\ \/ app = "deinitConn" /\ connecting /\ UNCHANGED autoRestart
     \/ app = "deinitAdv" /\ advActive /\ autoRestart' = FALSE
     \/ app = "deinitPort" /\ UNCHANGED autoRestart
  /\ mishaps' = (mishaps \ {"scan", "adv"})
                  \cup {flag \in {"scan"} : scanActive # host.scan}
                  \cup {flag \in {"adv"} : advActive # host.adv}
  /\ Goto("run")
  /\ UNCHANGED <<claim, initialized, ready, scanActive, advActive, connecting,
                 table, reads, queued, handler, host, owed>>

\* nimble_port_stop ends every link, with its callbacks, and the host task.
DeinitPort ==
  /\ app = "deinitPort" /\ handler = "idle"
  /\ initialized' = FALSE /\ ready' = FALSE
  /\ scanActive' = FALSE /\ advActive' = FALSE /\ connecting' = FALSE
  /\ table' = {} /\ reads' = NoReads /\ queued' = 0
  /\ host' = Down /\ owed' = FALSE /\ mishaps' = {}
  /\ Goto("run")
  /\ UNCHANGED <<claim, autoRestart, handler>>

----------------------------------------------------------------------------
(* Scanning, by the owner. *)

StartScan ==
  /\ Ready /\ ~scanActive
  /\ host.synced /\ ~host.scan /\ host.connect = "no"
  /\ host' = [host EXCEPT !.scan = TRUE]
  /\ owed' = TRUE
  /\ Goto("scanFlag")
  /\ UNCHANGED <<claim, moduleVars, handler, mishaps>>

\* The scan may have ended by now, and its end been handled: then the flag
\* stays set.
ScanFlag ==
  /\ app = "scanFlag"
  /\ scanActive' = TRUE
  /\ Disagrees("scan", ~host.scan)
  /\ Goto("run")
  /\ UNCHANGED <<claim, initialized, ready, advActive, autoRestart, connecting,
                 table, reads, queued, handler, host, owed>>

StopScan ==
  /\ Ready /\ scanActive
  /\ scanActive' = FALSE
  /\ Goto("scanCancel")
  /\ UNCHANGED <<claim, initialized, ready, advActive, autoRestart, connecting,
                 table, reads, queued, handler, host, owed, mishaps>>

ScanCancel ==
  /\ app = "scanCancel" /\ host.scan
  /\ host' = [host EXCEPT !.scan = FALSE]
  /\ Queue(1) /\ owed' = FALSE
  /\ Goto("run")
  /\ UNCHANGED <<claim, initialized, ready, flagVars, table, reads, handler, mishaps>>

\* Fault: a scan that can not be cancelled is taken to be over.
Fault_ScanCancelFails ==
  /\ app = "scanCancel"
  /\ Goto("run")
  /\ UNCHANGED <<claim, moduleVars, handler, host, owed, mishaps>>

\* EALREADY when the scan ended in between, or another error.
ScanCancelFails ==
  /\ app = "scanCancel"
  /\ scanActive' = TRUE
  /\ Disagrees("scan", ~host.scan)
  /\ Goto("run")
  /\ UNCHANGED <<claim, initialized, ready, advActive, autoRestart, connecting,
                 table, reads, queued, handler, host, owed>>

----------------------------------------------------------------------------
(* Advertising, by the owner. *)

\* A connection being established does not prevent it.
StartAdvertising ==
  /\ Ready /\ ~advActive /\ ~scanActive
  /\ autoRestart' \in BOOLEAN
  /\ Goto("advStart")
  /\ UNCHANGED <<claim, initialized, ready, scanActive, advActive, connecting,
                 table, reads, queued, handler, host, owed, mishaps>>

AdvStart ==
  /\ app = "advStart" /\ host.synced /\ ~host.adv
  /\ host' = [host EXCEPT !.adv = TRUE]
  /\ Goto("advFlag")
  /\ UNCHANGED <<claim, moduleVars, handler, owed, mishaps>>

AdvFlag ==
  /\ app = "advFlag"
  /\ advActive' = TRUE
  /\ Disagrees("adv", ~host.adv)
  /\ Goto("run")
  /\ UNCHANGED <<claim, initialized, ready, scanActive, autoRestart, connecting,
                 table, reads, queued, handler, host, owed>>

AdvStartFails ==
  /\ app = "advStart"
  /\ Goto("advFailed")
  /\ UNCHANGED <<claim, moduleVars, handler, host, owed, mishaps>>

AdvFailed ==
  /\ app = "advFailed"
  /\ autoRestart' = FALSE
  /\ Goto("run")
  /\ UNCHANGED <<claim, initialized, ready, scanActive, advActive, connecting,
                 table, reads, queued, handler, host, owed, mishaps>>

StopAdvertising ==
  /\ Ready
  /\ autoRestart' = FALSE
  /\ Goto(IF advActive THEN "advStop" ELSE "run")
  /\ UNCHANGED <<claim, initialized, ready, scanActive, advActive, connecting,
                 table, reads, queued, handler, host, owed, mishaps>>

\* The flag is left to the callback.  Whether the host reports the end of
\* advertising that it was told to stop is its own affair; if it does not, the
\* flag stays set.
AdvStop ==
  /\ app = "advStop"
  /\ \E report \in BOOLEAN :
       /\ host' = IF host.adv THEN [host EXCEPT !.adv = FALSE, !.ended = report] ELSE host
       /\ Disagrees("adv", advActive /\ ~host'.ended)
  /\ Goto("run")
  /\ UNCHANGED <<claim, moduleVars, handler, owed>>

----------------------------------------------------------------------------
(* Connecting, by the owner.  disconnect only asks the host, which may end a *)
(* link at any time.                                                         *)

Connect ==
  /\ Ready /\ ~connecting /\ ~scanActive /\ ~advActive
  /\ host.synced /\ host.connect = "no" /\ ~host.scan
  /\ host' = [host EXCEPT !.connect = "yes"]
  /\ Goto("connFlag")
  /\ UNCHANGED <<claim, moduleVars, handler, owed, mishaps>>

ConnFlag ==
  /\ app = "connFlag"
  /\ connecting' = TRUE
  /\ Disagrees("connect", host.connect # "yes")
  /\ Goto("run")
  /\ UNCHANGED <<claim, initialized, ready, scanActive, advActive, autoRestart,
                 table, reads, queued, handler, host, owed>>

\* The cancelled attempt ends in a callback.
CancelConnect ==
  /\ Ready /\ connecting /\ host.connect = "yes"
  /\ host' = [host EXCEPT !.connect = "cancelled"]
  /\ connecting' = FALSE
  /\ UNCHANGED <<app, claim, initialized, ready, scanActive, advActive, autoRestart,
                 table, reads, queued, handler, owed, mishaps>>

----------------------------------------------------------------------------
(* The GATT client, by the owner. *)

\* client_read takes the first slot that is free, for any handle.
ClientRead ==
  /\ Ready
  /\ \E s \in Slots, link \in Links :
       /\ reads[s] = NoLink /\ \A t \in 1 .. s - 1 : reads[t] # NoLink
       /\ reads' = [reads EXCEPT ![s] = link]
       /\ claim' = {<<s, link>>}
  /\ Goto("readCall")
  /\ UNCHANGED <<initialized, ready, flagVars, table, queued, handler, host, owed,
                 mishaps>>

\* The link may have ended and its handle been given out again since the slot
\* was taken: the slot is no longer active, and nobody waits for the answer.
ReadCall ==
  /\ app = "readCall"
  /\ \E c \in claim :
       /\ c[2] \in host.links
       /\ host' = [host EXCEPT !.procs = @ \cup {c}]
       /\ mishaps' = IF reads[c[1]] = NoLink THEN mishaps \cup {"read"} ELSE mishaps
  /\ claim' = {}
  /\ Goto("run")
  /\ UNCHANGED <<moduleVars, handler, owed>>

\* Fault: the slot is kept when the host refuses the read.
Fault_ReadFails ==
  /\ app = "readCall"
  /\ claim' = {}
  /\ Goto("run")
  /\ UNCHANGED <<moduleVars, handler, host, owed, mishaps>>

ReadFails ==
  /\ app = "readCall"
  /\ reads' = Release({c[1] : c \in claim})
  /\ claim' = {}
  /\ Goto("run")
  /\ UNCHANGED <<initialized, ready, flagVars, table, queued, handler, host, owed,
                 mishaps>>

\* client_write without response reports its own end.
ClientWrite ==
  /\ Ready /\ host.links # {}
  /\ Queue(1)
  /\ UNCHANGED <<app, claim, initialized, ready, flagVars, table, reads, handler,
                 host, owed, mishaps>>

TakeEvent ==
  /\ app = "run" /\ queued > 0
  /\ queued' = queued - 1
  /\ UNCHANGED <<app, claim, initialized, ready, flagVars, table, reads, handler,
                 host, owed, mishaps>>

----------------------------------------------------------------------------
(* The host task. *)

HostRuns == initialized /\ handler = "idle"

\* bmx_ble_on_sync; the host has no address if it fails.
Sync ==
  /\ HostRuns /\ ~host.synced
  /\ host' = [host EXCEPT !.synced = TRUE]
  /\ ready' \in BOOLEAN
  /\ Queue(1)
  /\ UNCHANGED <<app, claim, initialized, flagVars, table, reads, handler, owed, mishaps>>

\* Fault: a reset leaves the table alone.
Fault_Reset ==
  /\ HostRuns /\ host.synced
  /\ host' = Down
  /\ ready' = FALSE
  /\ scanActive' = FALSE /\ advActive' = FALSE /\ connecting' = FALSE
  /\ reads' = Release(UNION {SlotsOf(link) : link \in host.links})
  /\ Queue(Cardinality(host.links) + 1)
  /\ owed' = FALSE /\ mishaps' = {}
  /\ UNCHANGED <<app, claim, initialized, autoRestart, table, handler>>

\* Every link ends, with its callbacks, before bmx_ble_on_reset is called;
\* advertising can not be restarted by then.
Reset ==
  /\ HostRuns /\ host.synced
  /\ host' = Down
  /\ ready' = FALSE
  /\ scanActive' = FALSE /\ advActive' = FALSE /\ connecting' = FALSE
  /\ table' = {} /\ reads' = Release(UNION {SlotsOf(link) : link \in host.links})
  /\ Queue(Cardinality(host.links) + 1)
  /\ owed' = FALSE /\ mishaps' = {}
  /\ UNCHANGED <<app, claim, initialized, autoRestart, handler>>

\* BLE_GAP_EVENT_DISC_COMPLETE: a scan ends by itself.
DiscComplete ==
  /\ HostRuns /\ host.scan
  /\ host' = [host EXCEPT !.scan = FALSE]
  /\ scanActive' = FALSE
  /\ IF scanActive THEN Queue(1) /\ owed' = FALSE ELSE UNCHANGED <<queued, owed>>
  /\ UNCHANGED <<app, claim, initialized, ready, advActive, autoRestart, connecting,
                 table, reads, handler, mishaps>>

\* BLE_GAP_EVENT_CONNECT with success.  Whichever side asked for the link, both
\* flags are cleared; only advertising that led to the link has ended.
Connected(link) ==
  /\ HostRuns /\ host.synced
  /\ link \notin host.links
  /\ connecting' = FALSE /\ advActive' = FALSE
  /\ AddConnection(link)
  /\ \/ /\ host.connect # "no"
        /\ host' = [host EXCEPT !.connect = "no", !.links = @ \cup {link}]
     \/ /\ host.adv
        /\ host' = [host EXCEPT !.adv = FALSE, !.links = @ \cup {link},
                                !.inbound = @ \cup {link}]
  /\ mishaps' = (mishaps \ {"adv", "connect"})
                  \cup {flag \in {"adv"} : host'.adv}
                  \cup {flag \in {"connect"} : app # "connFlag" /\ host'.connect = "yes"}
  /\ Queue(1)
  /\ UNCHANGED <<app, claim, initialized, ready, scanActive, autoRestart, reads,
                 handler, owed>>

\* BLE_GAP_EVENT_CONNECT with an error: the attempt failed or was cancelled.
ConnectFailed ==
  /\ HostRuns /\ host.connect # "no"
  /\ connecting' = FALSE /\ advActive' = FALSE
  /\ host' = [host EXCEPT !.connect = "no"]
  /\ handler' = IF autoRestart THEN "restart" ELSE "idle"
  /\ Disagrees("adv", host.adv)
  /\ Queue(1)
  /\ UNCHANGED <<app, claim, initialized, ready, scanActive, autoRestart, table,
                 reads, owed>>

\* BLE_GAP_EVENT_DISCONNECT, after the host has failed the reads of the link.
Disconnected(link) ==
  /\ HostRuns /\ link \in host.links
  /\ host' = [host EXCEPT !.links = @ \ {link}, !.inbound = @ \ {link},
                          !.procs = {p \in @ : p[2] # link}]
  /\ RemoveConnection(link)
  /\ reads' = Release(SlotsOf(link))
  /\ advActive' = FALSE
  /\ handler' = IF link \in host.inbound /\ autoRestart THEN "restart" ELSE "idle"
  /\ Disagrees("adv", host.adv)
  /\ Queue(1)
  /\ UNCHANGED <<app, claim, initialized, ready, scanActive, autoRestart, connecting,
                 owed>>

\* Fault: advertising is restarted without its flag.
Fault_Restart ==
  /\ handler = "restart"
  /\ \/ ~host.adv /\ host' = [host EXCEPT !.adv = TRUE] /\ UNCHANGED queued
     \/ Queue(1) /\ UNCHANGED host
  /\ handler' = "idle"
  /\ UNCHANGED <<app, claim, initialized, ready, flagVars, table, reads, owed, mishaps>>

\* bmx_ble_start_advertising_internal in a callback, once the controller has
\* answered.  When advertising is going on it fails and only reports that.
Restart ==
  /\ handler = "restart"
  /\ \/ ~host.adv /\ host' = [host EXCEPT !.adv = TRUE]
        /\ advActive' = TRUE /\ mishaps' = mishaps \ {"adv"} /\ UNCHANGED queued
     \/ Queue(1) /\ UNCHANGED <<host, advActive, mishaps>>
  /\ handler' = "idle"
  /\ UNCHANGED <<app, claim, initialized, ready, scanActive, autoRestart, connecting,
                 table, reads, owed>>

\* BLE_GAP_EVENT_ADV_COMPLETE: advertising has lasted its time, or was stopped.
AdvComplete ==
  /\ HostRuns
  /\ \/ host.ended /\ host' = [host EXCEPT !.ended = FALSE]
     \/ host.adv /\ host' = [host EXCEPT !.adv = FALSE]
  /\ advActive' = FALSE
  /\ Disagrees("adv", host'.adv)
  /\ Queue(1)
  /\ UNCHANGED <<app, claim, initialized, ready, scanActive, autoRestart, connecting,
                 table, reads, handler, owed>>

\* Fault: the answer is queued and the slot stays active.
Fault_ReadComplete(proc) == UNCHANGED reads /\ Queue(1)

\* bmx_ble_client_read_complete
ReadComplete(proc) == reads' = Release({proc[1]}) /\ Queue(1)

\* bmx_ble_client_read_callback, with the last part, a part that does not fit
\* or an error.  Parts that fit are left out.
ReadEnds(proc) ==
  /\ HostRuns /\ proc \in host.procs
  /\ host' = [host EXCEPT !.procs = @ \ {proc}]
  /\ IF reads[proc[1]] = NoLink THEN UNCHANGED <<reads, queued>> ELSE ReadComplete(proc)
  /\ UNCHANGED <<app, claim, initialized, ready, flagVars, table, handler, owed, mishaps>>

\* The other callbacks only queue what they are told: results of scans and
\* discoveries, answers to writes, notifications, and changes of a link.
Report ==
  /\ HostRuns /\ (host.scan \/ host.links # {})
  /\ Queue(1)
  /\ UNCHANGED <<app, claim, initialized, ready, flagVars, table, reads, handler,
                 host, owed, mishaps>>

----------------------------------------------------------------------------
Init ==
  /\ app = "run" /\ claim = {}
  /\ initialized = FALSE /\ ready = FALSE
  /\ scanActive = FALSE /\ advActive = FALSE /\ autoRestart = FALSE
  /\ connecting = FALSE
  /\ table = {} /\ reads = NoReads /\ queued = 0
  /\ handler = "idle" /\ host = Down
  /\ owed = FALSE /\ mishaps = {}

Owner ==
  \/ Initialize \/ Deinitialize \/ DeinitConn \/ DeinitAdv \/ DeinitFails \/ DeinitPort
  \/ StartScan \/ ScanFlag \/ StopScan \/ ScanCancel \/ ScanCancelFails
  \/ StartAdvertising \/ AdvStart \/ AdvFlag \/ AdvStartFails \/ AdvFailed
  \/ StopAdvertising \/ AdvStop
  \/ Connect \/ ConnFlag \/ CancelConnect
  \/ ClientRead \/ ReadCall \/ ReadFails \/ ClientWrite \/ TakeEvent

HostTask ==
  \/ Sync \/ Reset \/ DiscComplete \/ ConnectFailed \/ Restart \/ AdvComplete \/ Report
  \/ \E link \in Links : Connected(link) \/ Disconnected(link)
  \/ \E proc \in host.procs : ReadEnds(proc)

Next == Owner \/ HostTask

Spec == Init /\ [][Next]_vars

\* The owner goes on with the call it is in, a callback ends, and every read
\* ends, if only because the host gives up on it after 30 seconds, however busy
\* it is with other callbacks.
FairSpec ==
  /\ Spec
  /\ WF_vars(ReadCall \/ ReadFails)
  /\ WF_vars(Restart)
  /\ \A s \in Slots, link \in Links : SF_vars(ReadEnds(<<s, link>>))

----------------------------------------------------------------------------
(* Properties. *)

\* The variables have their types, and the ring of BLE events never holds more
\* than it has room for.
TypeOK ==
  /\ app \in AppSteps /\ claim \subseteq Slots \X Links
  /\ initialized \in BOOLEAN /\ ready \in BOOLEAN
  /\ scanActive \in BOOLEAN /\ advActive \in BOOLEAN /\ autoRestart \in BOOLEAN
  /\ connecting \in BOOLEAN
  /\ table \subseteq Links /\ reads \in [Slots -> Links \cup {NoLink}]
  /\ queued \in 0 .. Capacity
  /\ handler \in {"idle", "restart"} /\ host \in Hosts
  /\ owed \in BOOLEAN /\ mishaps \subseteq Mishaps

\* The table lists the links there are: after any sequence of connections,
\* disconnections, resets and restarts of the host, a program that enumerates
\* connections sees neither a dead one nor misses one.
TableMatchesLinks == table = host.links

\* A program that sees the flag of scanning cleared has been sent the event that
\* its scan is complete, or that the host was reset: stop_scan and the callback
\* may both find the scan over, and do not both keep silent about it.
ScanReported == app = "run" /\ ~scanActive => ~owed

\* Outside the calls that change them, the flags by which the functions refuse
\* to scan, advertise and connect say what the host does, but for the races
\* that mishaps records: the end of an operation handled before its flag was
\* set, or a flag cleared by an event of another link.
FlagsMatchHost ==
  app = "run" /\ handler = "idle" =>
    /\ "scan" \in mishaps \/ scanActive = host.scan
    /\ "adv" \in mishaps \/ host.ended \/ advActive = host.adv
    /\ "connect" \in mishaps \/ connecting = (host.connect = "yes")

\* Every active slot belongs to a read that the host will answer, and every
\* answer finds the slot of its own read, as long as no handle was given out
\* again inside client_read.
ReadsMatchSlots ==
  "read" \notin mishaps =>
    /\ \A s \in Slots : reads[s] # NoLink => <<s, reads[s]>> \in host.procs \cup claim
    /\ \A p \in host.procs : reads[p[1]] = p[2]

\* The module's tables are those of the host: the connections and the reads.
TablesMatchHost == TableMatchesLinks /\ ReadsMatchSlots

\* A read that was begun is answered and its slot is free again, whatever
\* becomes of the link: the few slots do not run out for good.
ReadsEnd == \A s \in Slots : reads[s] # NoLink ~> reads[s] = NoLink
=============================================================================
