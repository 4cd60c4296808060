------------------------------ MODULE EthernetLink ------------------------------
(***************************************************************************)
(* network.mod/ethernet.mod/native/esp32_ethernet.c: the driver, what is   *)
(* built on it, and the events of the link, which a callback on the task   *)
(* of the event loop turns into the link's status and a ring of reports.   *)
(*                                                                         *)
(* The program initialises and deinitialises; a step of it, or of the      *)
(* callback, is a call or a run of accesses that the other may come        *)
(* between.  To unregister a handler waits for one that is running, and    *)
(* what stops or deletes does not fail.  Events that are posted are        *)
(* handled in their order, also by handlers registered after they were.    *)
(***************************************************************************)
EXTENDS Integers, Sequences, SequencesExt

CONSTANTS
  EthCapacity,   \* BMX_ETHERNET_EVENT_CAPACITY
  MaxEthPosted   \* bound: events waiting in the event loop

ASSUME EthAssumption == EthCapacity \in Nat \ {0} /\ MaxEthPosted \in Nat

VARIABLES
  eth,      \* initialized, started, has_link, link_status, the two handlers
  ethHeld,  \* what initialize has made and release has not deleted
  ethApp,   \* the program: "idle", or where it is in one of the two
  ethRing,  \* the reports from get to put
  ethLoop,  \* the event loop: events posted
  ethTask,  \* the callback: "idle", or the status it has still to report
  phy,      \* the driver: link, an address, an address lost and not reported
  ethTaken, \* the status of the last report the program took
  ethLost   \* the last report found the ring full

ethVars == <<eth, ethHeld, ethApp, ethRing, ethLoop, ethTask, phy, ethTaken, ethLost>>
ethShared == <<ethRing, ethTaken, ethLost>>

Statuses == {"down", "connected", "noIp", "up"}
EthEvents == {"connected", "disconnected", "stop"}
IpEvents == {"gotIp", "lostIp"}

\* In the order of initialize: the interface is attached once it has its glue.
EthParts == <<"mac", "phy", "driver", "netif", "glue">>

Posts(event) == Len(ethLoop) < MaxEthPosted /\ ethLoop' = Append(ethLoop, event)

Unlinked == [link |-> FALSE, ip |-> FALSE, lost |-> FALSE]

----------------------------------------------------------------------------
(* bmx_embedded_ethernet_initialize. *)

\* Fault: the glue of an interface that could not be attached is kept.
Fault_MakeFails(n) ==
  /\ ethApp = "idle" /\ ~eth.initialized
  /\ ethHeld' = ToSet(SubSeq(EthParts, 1, n)) \
                {"netif", "driver", "mac", "phy"}
  /\ UNCHANGED <<eth, ethApp, ethShared, ethLoop, ethTask, phy>>

\* The step after the first n of these fails: bmx_ethernet_release finds no
\* handler to unregister.
MakeFails(n) ==
  /\ ethApp = "idle" /\ ~eth.initialized
  /\ ethHeld' = ToSet(SubSeq(EthParts, 1, n)) \
                {"glue", "netif", "driver", "mac", "phy"}
  /\ UNCHANGED <<eth, ethApp, ethShared, ethLoop, ethTask, phy>>

Make ==
  /\ ethApp = "idle" /\ ~eth.initialized
  /\ ethHeld' = ToSet(EthParts)
  /\ ethApp' = "registering"
  /\ UNCHANGED <<eth, ethShared, ethLoop, ethTask, phy>>

RegisterEth ==
  /\ ethApp = "registering" /\ ~eth.onEth
  /\ eth' = [eth EXCEPT !.onEth = TRUE]
  /\ UNCHANGED <<ethHeld, ethApp, ethShared, ethLoop, ethTask, phy>>

RegisterIp ==
  /\ ethApp = "registering" /\ eth.onEth
  /\ eth' = [eth EXCEPT !.onIp = TRUE]
  /\ ethApp' = "clearing"
  /\ UNCHANGED <<ethHeld, ethShared, ethLoop, ethTask, phy>>

RegisterFails ==
  /\ ethApp = "registering"
  /\ ethApp' = "release"
  /\ UNCHANGED <<eth, ethHeld, ethShared, ethLoop, ethTask, phy>>

\* The ring, the status and the link of an earlier session are cleared, without
\* the lock.
ClearRing ==
  /\ ethApp = "clearing"
  /\ ethRing' = <<>> /\ ethLost' = FALSE
  /\ ethTaken' = "down"
  /\ ethApp' = "clearingStatus"
  /\ UNCHANGED <<eth, ethHeld, ethLoop, ethTask, phy>>

ClearStatus ==
  /\ ethApp = "clearingStatus"
  /\ eth' = [eth EXCEPT !.hasLink = FALSE, !.status = "down"]
  /\ ethApp' = "starting"
  /\ UNCHANGED <<ethHeld, ethShared, ethLoop, ethTask, phy>>

\* esp_eth_start, after which events come; initialized is set later.
EthStart ==
  /\ ethApp = "starting"
  /\ phy' = Unlinked
  /\ ethApp' = "started"
  /\ UNCHANGED <<eth, ethHeld, ethShared, ethLoop, ethTask>>

StartFails ==
  /\ ethApp = "starting"
  /\ ethApp' = "release"
  /\ UNCHANGED <<eth, ethHeld, ethShared, ethLoop, ethTask, phy>>

Initialized ==
  /\ ethApp = "started"
  /\ eth' = [eth EXCEPT !.started = TRUE, !.initialized = TRUE]
  /\ ethApp' = "idle"
  /\ UNCHANGED <<ethHeld, ethShared, ethLoop, ethTask, phy>>

----------------------------------------------------------------------------
(* bmx_ethernet_release and bmx_embedded_ethernet_deinitialize, which is   *)
(* refused while a socket is open.                                         *)

Deinitialize ==
  /\ ethApp = "idle" /\ eth.initialized
  /\ ethApp' = "release"
  /\ UNCHANGED <<eth, ethHeld, ethShared, ethLoop, ethTask, phy>>

\* esp_eth_stop posts its event and takes the link down.
ReleaseStop ==
  /\ ethApp = "release"
  /\ IF eth.started THEN Posts("stop") /\ phy' = Unlinked
     ELSE UNCHANGED <<ethLoop, phy>>
  /\ eth' = [eth EXCEPT !.started = FALSE]
  /\ ethApp' = "unregister"
  /\ UNCHANGED <<ethHeld, ethShared, ethTask>>

\* Fault: the handlers are left to be unregistered after the driver is gone.
Fault_Unregister ==
  /\ ethApp = "unregister"
  /\ ethApp' = "delete"
  /\ UNCHANGED <<eth, ethHeld, ethShared, ethLoop, ethTask, phy>>

Unregister ==
  /\ ethApp = "unregister"
  /\ ethTask = "idle"
  /\ eth' = [eth EXCEPT !.onIp = FALSE, !.onEth = FALSE]
  /\ ethApp' = "delete"
  /\ UNCHANGED <<ethHeld, ethShared, ethLoop, ethTask, phy>>

\* Everything is deleted; deinitialize then clears what a session has left.
Delete ==
  /\ ethApp = "delete"
  /\ ethHeld' = {}
  /\ eth' = IF eth.initialized
            THEN [eth EXCEPT !.initialized = FALSE, !.hasLink = FALSE,
                             !.status = "down"]
            ELSE eth
  /\ ethRing' = IF eth.initialized THEN <<>> ELSE ethRing
  /\ ethTaken' = IF eth.initialized THEN "down" ELSE ethTaken
  /\ ethLost' = (ethLost /\ ~eth.initialized)
  /\ ethApp' = "idle"
  /\ UNCHANGED <<ethLoop, ethTask, phy>>

----------------------------------------------------------------------------
(* The driver and the interface, external: what they post. *)

Running == eth.started \/ ethApp = "started"

LinkUp ==
  /\ Running /\ ~phy.link
  /\ phy' = [phy EXCEPT !.link = TRUE]
  /\ Posts("connected")
  /\ UNCHANGED <<eth, ethHeld, ethApp, ethShared, ethTask>>

\* The address goes with the link; that is reported only some time later.
LinkDown ==
  /\ Running /\ phy.link
  /\ phy' = [link |-> FALSE, ip |-> FALSE, lost |-> phy.lost \/ phy.ip]
  /\ Posts("disconnected")
  /\ UNCHANGED <<eth, ethHeld, ethApp, ethShared, ethTask>>

GotIp ==
  /\ Running /\ phy.link /\ ~phy.ip
  /\ phy' = [phy EXCEPT !.ip = TRUE, !.lost = FALSE]
  /\ Posts("gotIp")
  /\ UNCHANGED <<eth, ethHeld, ethApp, ethShared, ethTask>>

LostIp ==
  /\ Running /\ (phy.lost \/ phy.ip)
  /\ phy' = [phy EXCEPT !.ip = FALSE, !.lost = FALSE]
  /\ Posts("lostIp")
  /\ UNCHANGED <<eth, ethHeld, ethApp, ethShared, ethTask>>

----------------------------------------------------------------------------
(* bmx_ethernet_event_callback, on the event loop's task. *)

\* Fault: losing the address never shows that the link is down.
Fault_StatusOf(event, link) ==
  CASE event = "connected" -> "connected"
    [] event = "gotIp" -> "up"
    [] event = "lostIp" -> "noIp"
    [] OTHER -> "down"

StatusOf(event, link) ==
  CASE event = "connected" -> "connected"
    [] event = "gotIp" -> "up"
    [] event = "lostIp" -> IF link THEN "noIp" ELSE "down"
    [] OTHER -> "down"

\* Up to the call of bmx_ethernet_queue_state.  Without a handler the event is
\* dropped.
HandleEvent ==
  LET event == Head(ethLoop) IN
  /\ ethTask = "idle" /\ ethLoop # <<>>
  /\ ethLoop' = Tail(ethLoop)
  /\ IF (event \in EthEvents /\ eth.onEth) \/ (event \in IpEvents /\ eth.onIp)
     THEN /\ ethTask' = StatusOf(event, eth.hasLink)
          /\ eth' = IF event \in EthEvents
                    THEN [eth EXCEPT !.hasLink = event = "connected"] ELSE eth
     ELSE UNCHANGED <<ethTask, eth>>
  /\ UNCHANGED <<ethHeld, ethApp, ethShared, phy>>

\* Fault: one report more than there is room for.
Fault_QueueState ==
  /\ ethTask # "idle"
  /\ eth' = [eth EXCEPT !.status = ethTask]
  /\ ethLost' = FALSE
  /\ ethRing' = IF Len(ethRing) <= EthCapacity THEN Append(ethRing, ethTask)
                ELSE ethRing
  /\ ethTask' = "idle"
  /\ UNCHANGED <<ethHeld, ethApp, ethLoop, phy, ethTaken>>

\* bmx_ethernet_queue_state and bmx_ethernet_queue.
QueueState ==
  /\ ethTask # "idle"
  /\ eth' = [eth EXCEPT !.status = ethTask]
  /\ ethLost' = (Len(ethRing) >= EthCapacity)
  /\ ethRing' = IF Len(ethRing) < EthCapacity THEN Append(ethRing, ethTask)
                ELSE ethRing
  /\ ethTask' = "idle"
  /\ UNCHANGED <<ethHeld, ethApp, ethLoop, phy, ethTaken>>

\* bmx_embedded_ethernet_take_event
TakeEvent ==
  /\ ethApp = "idle" /\ ethRing # <<>>
  /\ ethTaken' = Head(ethRing)
  /\ ethRing' = Tail(ethRing)
  /\ UNCHANGED <<eth, ethHeld, ethApp, ethLost, ethLoop, ethTask, phy>>

----------------------------------------------------------------------------
EthInit ==
  /\ eth = [initialized |-> FALSE, started |-> FALSE, hasLink |-> FALSE,
            status |-> "down", onEth |-> FALSE, onIp |-> FALSE]
  /\ ethHeld = {}
  /\ ethApp = "idle" /\ ethTask = "idle"
  /\ ethRing = <<>> /\ ethLoop = <<>>
  /\ phy = Unlinked
  /\ ethTaken = "down" /\ ethLost = FALSE

EthNext ==
  \/ \E n \in 0 .. Len(EthParts) : MakeFails(n)
  \/ Make \/ RegisterEth \/ RegisterIp \/ RegisterFails
  \/ ClearRing \/ ClearStatus \/ EthStart \/ StartFails \/ Initialized
  \/ Deinitialize \/ ReleaseStop \/ Unregister \/ Delete
  \/ LinkUp \/ LinkDown \/ GotIp \/ LostIp
  \/ HandleEvent \/ QueueState \/ TakeEvent

----------------------------------------------------------------------------
(* Properties. *)

\* The state is of the types the code declares, and the ring within its size.
EthTypeOK ==
  /\ eth \in [initialized : BOOLEAN, started : BOOLEAN, hasLink : BOOLEAN,
              status : Statuses, onEth : BOOLEAN, onIp : BOOLEAN]
  /\ ethHeld \subseteq ToSet(EthParts)
  /\ ethRing \in Seq(Statuses) /\ Len(ethRing) <= EthCapacity
  /\ ethLoop \in Seq(EthEvents \cup IpEvents)
  /\ ethTask \in Statuses \cup {"idle"}
  /\ ethTaken \in Statuses

\* Between calls, everything is there while the module is initialised and
\* nothing is otherwise, wherever an initialize has failed; and the callback
\* runs only while the driver it asks is there (the order of release).
EthReleased ==
  /\ ethApp = "idle" =>
       /\ ethHeld = IF eth.initialized THEN ToSet(EthParts) ELSE {}
       /\ eth.onEth = eth.initialized /\ eth.onIp = eth.initialized
       /\ eth.started = eth.initialized
  /\ ethTask # "idle" => "driver" \in ethHeld

\* Once the posted events are handled the status is that of the link, also
\* after events of an earlier session have come late; and the last report is
\* of that status, unless the ring was full (queue_state, the clearing in
\* initialize).  Before, they may differ: a late event that is handled between
\* the two parts of the clearing leaves a report and no status.
LinkTold ==
  eth.initialized /\ ethApp = "idle" /\ ethTask = "idle" /\ ethLoop = <<>> =>
    /\ CASE ~phy.link -> eth.status = "down"
         [] phy.link /\ phy.ip -> eth.status = "up"
         [] OTHER -> eth.status \in {"connected", "noIp"}
    /\ ~ethLost => eth.status = IF ethRing = <<>> THEN ethTaken ELSE Last(ethRing)
=============================================================================
