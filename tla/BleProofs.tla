------------------------------- MODULE BleProofs -------------------------------
(***************************************************************************)
(* Proofs about BleHost.                                                   *)
(***************************************************************************)
EXTENDS BleHost, FiniteSetTheorems, TLAPS

----------------------------------------------------------------------------
(* The inductive invariant.                                                *)

\* Without the port there is no host, and no call is in progress.
DownWithoutPort ==
  ~initialized => ~host.synced /\ app = "run" /\ ~connecting /\ ~owed

\* A host that is not synchronised does nothing, and no callback waits for it.
IdleUntilSynced ==
  ~host.synced =>
    /\ ~host.scan /\ ~host.adv /\ ~host.ended /\ host.connect = "no"
    /\ host.links = {} /\ host.procs = {} /\ handler = "idle"

\* client_read has taken one slot, and while it has, the slot is its own: it is
\* released under it, but not taken for another read.
ClaimOwnsSlot ==
  /\ app # "readCall" => claim = {}
  /\ app = "readCall" => \E s \in Slots, link \in Links : claim = {<<s, link>>}
  /\ \A c \in claim : reads[c[1]] \in {NoLink, c[2]}

\* An active slot waits for an answer, or for client_read to ask.
SlotsAwaitAnswers ==
  \A s \in Slots : reads[s] # NoLink => <<s, reads[s]>> \in host.procs \cup claim

\* The host reads only over links that it has.
ReadsOverLinks == \A p \in host.procs : p[2] \in host.links

\* Unless a handle was given out again inside client_read, a slot has one read.
OneReadPerSlot ==
  "read" \notin mishaps =>
    /\ \A p \in host.procs : reads[p[1]] = p[2]
    /\ \A p \in host.procs, c \in claim : p[1] # c[1]

\* An end of scanning that is still owed is known to the flag, or to a call that
\* will set the flag.
OwedIsRemembered == owed /\ ~scanActive => app \in {"scanFlag", "scanCancel"}

Deinit == {"deinitConn", "deinitAdv", "deinitPort"}

ScanFlagTrue ==
  \/ app \in {"scanFlag", "scanCancel"} \cup Deinit
  \/ "scan" \in mishaps \/ scanActive = host.scan

\* stop_scan clears the flag before it asks the host.
CancelClearsFlag == app = "scanCancel" => ~scanActive

AdvFlagTrue ==
  \/ app \in {"advFlag"} \cup Deinit
  \/ "adv" \in mishaps \/ host.ended \/ advActive = host.adv

ConnFlagTrue ==
  \/ app = "connFlag"
  \/ "connect" \in mishaps \/ connecting = (host.connect = "yes")

BleInv ==
  /\ TypeOK /\ TableMatchesLinks
  /\ DownWithoutPort /\ IdleUntilSynced
  /\ ClaimOwnsSlot /\ SlotsAwaitAnswers /\ ReadsOverLinks /\ OneReadPerSlot
  /\ OwedIsRemembered /\ CancelClearsFlag /\ ScanFlagTrue /\ AdvFlagTrue /\ ConnFlagTrue
----------------------------------------------------------------------------
(* The fields of the host after an update of it. *)

Is(h, synced, scan, adv, ended, connect, links, inbound, procs) ==
  /\ h \in Hosts
  /\ h.synced = synced /\ h.scan = scan /\ h.adv = adv /\ h.ended = ended
  /\ h.connect = connect /\ h.links = links /\ h.inbound = inbound /\ h.procs = procs

LEMMA SyncFields ==
  ASSUME host \in Hosts
  PROVE  Is([host EXCEPT !.synced = TRUE], TRUE, host.scan, host.adv, host.ended,
            host.connect, host.links, host.inbound, host.procs)
BY DEF Hosts, Is

LEMMA ScanFields ==
  ASSUME host \in Hosts, NEW b \in BOOLEAN
  PROVE  Is([host EXCEPT !.scan = b], host.synced, b, host.adv, host.ended,
            host.connect, host.links, host.inbound, host.procs)
BY DEF Hosts, Is

LEMMA AdvFields ==
  ASSUME host \in Hosts, NEW b \in BOOLEAN
  PROVE  Is([host EXCEPT !.adv = b], host.synced, host.scan, b, host.ended,
            host.connect, host.links, host.inbound, host.procs)
BY DEF Hosts, Is

LEMMA EndedFields ==
  ASSUME host \in Hosts, NEW b \in BOOLEAN
  PROVE  Is([host EXCEPT !.ended = b], host.synced, host.scan, host.adv, b,
            host.connect, host.links, host.inbound, host.procs)
BY DEF Hosts, Is

LEMMA AdvEndedFields ==
  ASSUME host \in Hosts, NEW b \in BOOLEAN, NEW e \in BOOLEAN
  PROVE  Is([host EXCEPT !.adv = b, !.ended = e], host.synced, host.scan, b, e,
            host.connect, host.links, host.inbound, host.procs)
BY DEF Hosts, Is

LEMMA ConnectFields ==
  ASSUME host \in Hosts, NEW c \in {"no", "yes", "cancelled"}
  PROVE  Is([host EXCEPT !.connect = c], host.synced, host.scan, host.adv, host.ended,
            c, host.links, host.inbound, host.procs)
BY DEF Hosts, Is

LEMMA OutboundFields ==
  ASSUME host \in Hosts, NEW c \in {"no", "yes", "cancelled"}, NEW l \in SUBSET Links
  PROVE  Is([host EXCEPT !.connect = c, !.links = l], host.synced, host.scan, host.adv,
            host.ended, c, l, host.inbound, host.procs)
BY DEF Hosts, Is

LEMMA InboundFields ==
  ASSUME host \in Hosts, NEW b \in BOOLEAN, NEW l \in SUBSET Links, NEW i \in SUBSET Links
  PROVE  Is([host EXCEPT !.adv = b, !.links = l, !.inbound = i], host.synced, host.scan,
            b, host.ended, host.connect, l, i, host.procs)
BY DEF Hosts, Is

LEMMA LinksFields ==
  ASSUME host \in Hosts, NEW l \in SUBSET Links, NEW i \in SUBSET Links,
         NEW p \in SUBSET (Slots \X Links)
  PROVE  Is([host EXCEPT !.links = l, !.inbound = i, !.procs = p], host.synced,
            host.scan, host.adv, host.ended, host.connect, l, i, p)
BY DEF Hosts, Is

LEMMA ProcsFields ==
  ASSUME host \in Hosts, NEW p \in SUBSET (Slots \X Links)
  PROVE  Is([host EXCEPT !.procs = p], host.synced, host.scan, host.adv, host.ended,
            host.connect, host.links, host.inbound, p)
BY DEF Hosts, Is

LEMMA DownFields == Is(Down, FALSE, FALSE, FALSE, FALSE, "no", {}, {}, {})
BY DEF Down, Hosts, Is

----------------------------------------------------------------------------
(* What the helpers do. *)

LEMMA QueueFits ==
  ASSUME queued \in 0 .. Capacity, NEW n \in Nat, Queue(n)
  PROVE  queued' \in 0 .. Capacity
BY BleAssumption DEF Queue

\* Recording a disagreement touches one flag.
LEMMA DisagreesFields ==
  ASSUME mishaps \subseteq Mishaps, NEW flag \in Mishaps, NEW wrong \in BOOLEAN,
         Disagrees(flag, wrong)
  PROVE  /\ mishaps' \subseteq Mishaps
         /\ flag \in mishaps' <=> wrong
         /\ \A f \in Mishaps : f # flag => (f \in mishaps' <=> f \in mishaps)
BY DEF Disagrees

LEMMA ReleaseFields ==
  ASSUME reads \in [Slots -> Links \cup {NoLink}], NEW slots
  PROVE  /\ Release(slots) \in [Slots -> Links \cup {NoLink}]
         /\ \A s \in slots \cap Slots : Release(slots)[s] = NoLink
         /\ \A s \in Slots \ slots : Release(slots)[s] = reads[s]
BY DEF Release

LEMMA NoReadsFields ==
  NoReads \in [Slots -> Links \cup {NoLink}] /\ \A s \in Slots : NoReads[s] = NoLink
BY DEF NoReads

\* The table has room for every link that the controller has a handle for.
LEMMA RoomForLink ==
  ASSUME table \subseteq Links, NEW link \in Links \ table, AddConnection(link)
  PROVE  table' = table \cup {link}
<1>1. IsFiniteSet(Links) /\ Cardinality(Links) <= MaxLinks /\ MaxLinks \in Nat
  BY BleAssumption
<1>2. IsFiniteSet(table)
  BY <1>1, FS_Subset
<1>3. Cardinality(table \cup {link}) = Cardinality(table) + 1
  BY <1>2, FS_AddElement
<1>4. Cardinality(table \cup {link}) <= Cardinality(Links)
  BY <1>1, FS_Subset
<1>5. Cardinality(table) \in Nat /\ Cardinality(Links) \in Nat
  BY <1>1, <1>2, FS_CardinalityType
<1>6. Cardinality(table) < MaxLinks
  BY <1>1, <1>3, <1>4, <1>5
<1> QED
  BY <1>6 DEF AddConnection

----------------------------------------------------------------------------
(* Steps of the module preserve the invariant. *)

\* The part of it that is about reads.
ReadsInv == ClaimOwnsSlot /\ SlotsAwaitAnswers /\ ReadsOverLinks /\ OneReadPerSlot

\* The part of it that relates the flags and the table to the host.
FlagsInv ==
  /\ TableMatchesLinks /\ DownWithoutPort /\ IdleUntilSynced
  /\ OwedIsRemembered /\ CancelClearsFlag /\ ScanFlagTrue /\ AdvFlagTrue /\ ConnFlagTrue

\* A step that has nothing to do with reads preserves what is known of them.
LEMMA ReadsKept ==
  ASSUME ReadsInv, UNCHANGED <<claim, reads>>,
         host'.procs = host.procs, host'.links = host.links,
         "read" \in mishaps' <=> "read" \in mishaps,
         app' = "readCall" <=> app = "readCall"
  PROVE  ReadsInv'
BY DEF ReadsInv, ClaimOwnsSlot, SlotsAwaitAnswers, ReadsOverLinks, OneReadPerSlot

LEMMA BleStep ==
  ASSUME BleInv, [Next]_vars
  PROVE  BleInv'
<1> USE DEF moduleVars, flagVars
<1>inv. TypeOK /\ ReadsInv /\ FlagsInv
  BY DEF BleInv, ReadsInv, FlagsInv
<1>types. /\ host \in Hosts /\ mishaps \subseteq Mishaps /\ app \in AppSteps
          /\ {"scan", "adv", "connect", "read"} \subseteq Mishaps
          /\ reads \in [Slots -> Links \cup {NoLink}] /\ queued \in 0 .. Capacity
          /\ scanActive \in BOOLEAN /\ advActive \in BOOLEAN /\ connecting \in BOOLEAN
          /\ host.scan \in BOOLEAN /\ host.adv \in BOOLEAN /\ host.ended \in BOOLEAN
  BY <1>inv DEF TypeOK, Mishaps, Hosts
<1> SUFFICES TypeOK' /\ ReadsInv' /\ FlagsInv'
  BY DEF BleInv, ReadsInv, FlagsInv
<1>1. CASE Initialize
  <2>1. host' = host /\ claim' = claim /\ app' = app /\ ~host.synced
    BY <1>1, <1>inv DEF Initialize, FlagsInv, DownWithoutPort
  <2>2. /\ reads' \in [Slots -> Links \cup {NoLink}] /\ \A s \in Slots : reads'[s] = NoLink
        /\ 0 \in 0 .. Capacity
    BY <1>1, NoReadsFields, BleAssumption DEF Initialize
  <2>3. TypeOK'
    BY <1>1, <1>inv, <2>2 DEF Initialize, TypeOK
  <2>4. ReadsInv'
    BY <1>1, <1>inv, <2>1, <2>2 DEF Initialize, FlagsInv, IdleUntilSynced,
       DownWithoutPort, ReadsInv, ClaimOwnsSlot, SlotsAwaitAnswers, ReadsOverLinks,
          OneReadPerSlot
  <2>5. FlagsInv'
    BY <1>1, <1>inv, <1>types, <2>1 DEF Initialize, FlagsInv, TableMatchesLinks,
       DownWithoutPort, IdleUntilSynced, OwedIsRemembered, CancelClearsFlag, ScanFlagTrue,
          AdvFlagTrue, ConnFlagTrue, Is, Deinit
  <2> QED
    BY <2>3, <2>4, <2>5
<1>2. CASE Deinitialize
  <2>1. Is(host', host.synced, host'.scan, host.adv, host.ended, host.connect, host.links,
           host.inbound, host.procs)
    BY <1>2, <1>types, ScanFields DEF Deinitialize, Is
  <2>2. TypeOK'
    BY <1>2, <1>inv, <2>1, BleAssumption DEF Deinitialize, Goto, TypeOK, AppSteps, Is
  <2>3. ReadsInv'
    BY <1>2, <1>inv, <2>1, <1>types, ReadsKept DEF Deinitialize, Goto, Is
  <2>4. FlagsInv'
    BY <1>2, <1>inv, <2>1, <1>types DEF Deinitialize, Goto, FlagsInv, TableMatchesLinks,
       DownWithoutPort, IdleUntilSynced, OwedIsRemembered, CancelClearsFlag, ScanFlagTrue,
          AdvFlagTrue, ConnFlagTrue, Is, Deinit
  <2> QED
    BY <2>2, <2>3, <2>4
<1>3. CASE DeinitConn
  <2> DEFINE cancelled == connecting /\ host.connect = "yes"
  <2>1. CASE cancelled
    <3>1. Is(host', host.synced, host.scan, host.adv, host.ended, "cancelled", host.links,
             host.inbound, host.procs)
      BY <1>3, <1>types, <2>1, ConnectFields DEF DeinitConn
    <3>2. TypeOK'
      BY <1>3, <1>inv, <3>1 DEF DeinitConn, Goto, TypeOK, AppSteps, Is
    <3>3. ReadsInv'
      BY <1>3, <1>inv, <3>1, ReadsKept DEF DeinitConn, Goto, Is
    <3>4. FlagsInv'
      BY <1>3, <1>inv, <1>types, <2>1, <3>1 DEF DeinitConn, Goto, FlagsInv,
         TableMatchesLinks, DownWithoutPort, IdleUntilSynced, OwedIsRemembered,
            CancelClearsFlag, ScanFlagTrue, AdvFlagTrue, ConnFlagTrue, Is, Deinit
    <3> QED
      BY <3>2, <3>3, <3>4
  <2>2. CASE ~cancelled
    <3>1. host' = host /\ connecting' = FALSE
      BY <1>3, <2>2 DEF DeinitConn
    <3>2. TypeOK'
      BY <1>3, <1>inv, <3>1 DEF DeinitConn, Goto, TypeOK, AppSteps
    <3>3. ReadsInv'
      BY <1>3, <1>inv, <3>1, ReadsKept DEF DeinitConn, Goto
    <3>4. ConnFlagTrue'
      BY <1>3, <1>inv, <1>types, <2>2, <3>1 DEF DeinitConn, FlagsInv, ConnFlagTrue
    <3>5. FlagsInv'
      BY <1>3, <1>inv, <1>types, <3>1, <3>4 DEF DeinitConn, Goto, FlagsInv,
         TableMatchesLinks, DownWithoutPort, IdleUntilSynced, OwedIsRemembered,
            CancelClearsFlag, ScanFlagTrue, AdvFlagTrue, Deinit
    <3> QED
      BY <3>2, <3>3, <3>5
  <2> QED
    BY <2>1, <2>2
<1>4. CASE DeinitAdv
  <2>1. Is(host', host.synced, host.scan, host'.adv, host.ended, host.connect, host.links,
           host.inbound, host.procs)
    BY <1>4, <1>types, AdvFields DEF DeinitAdv, Is
  <2>2. TypeOK'
    BY <1>4, <1>inv, <2>1, BleAssumption DEF DeinitAdv, Goto, TypeOK, AppSteps, Is
  <2>3. ReadsInv'
    BY <1>4, <1>inv, <2>1, <1>types, ReadsKept DEF DeinitAdv, Goto, Is
  <2>4. FlagsInv'
    BY <1>4, <1>inv, <2>1, <1>types DEF DeinitAdv, Goto, FlagsInv, TableMatchesLinks,
       DownWithoutPort, IdleUntilSynced, OwedIsRemembered, CancelClearsFlag, ScanFlagTrue,
          AdvFlagTrue, ConnFlagTrue, Is, Deinit
  <2> QED
    BY <2>2, <2>3, <2>4
<1>5. CASE DeinitFails
  <2>1. Is(host', host.synced, host.scan, host.adv, host.ended, host.connect, host.links,
           host.inbound, host.procs)
    BY <1>5, <1>types DEF DeinitFails, Is
  <2>2. TypeOK'
    BY <1>5, <1>inv, <2>1, BleAssumption DEF DeinitFails, Goto, Mishaps, TypeOK, AppSteps,
       Is
  <2>3. ReadsInv'
    BY <1>5, <1>inv, <2>1, <1>types, ReadsKept DEF DeinitFails, Goto, Mishaps, Is
  <2>4. FlagsInv'
    BY <1>5, <1>inv, <2>1, <1>types DEF DeinitFails, Goto, Mishaps, FlagsInv,
       TableMatchesLinks, DownWithoutPort, IdleUntilSynced, OwedIsRemembered,
          CancelClearsFlag, ScanFlagTrue, AdvFlagTrue, ConnFlagTrue, Is, Deinit
  <2> QED
    BY <2>2, <2>3, <2>4
<1>6. CASE DeinitPort
  <2>1. Is(host', FALSE, FALSE, FALSE, FALSE, "no", {}, {}, {}) /\ claim' = claim
    BY <1>6, DownFields DEF DeinitPort
  <2>2. /\ reads' \in [Slots -> Links \cup {NoLink}] /\ \A s \in Slots : reads'[s] = NoLink
        /\ 0 \in 0 .. Capacity
    BY <1>6, NoReadsFields, BleAssumption DEF DeinitPort
  <2>3. TypeOK'
    BY <1>6, <1>inv, <2>1, <2>2 DEF DeinitPort, Goto, TypeOK, AppSteps, Is
  <2>4. ReadsInv'
    BY <1>6, <1>inv, <2>1, <2>2 DEF DeinitPort, Goto, Is, ReadsInv, ClaimOwnsSlot,
       SlotsAwaitAnswers, ReadsOverLinks, OneReadPerSlot
  <2>5. FlagsInv'
    BY <1>6, <1>inv, <1>types, <2>1 DEF DeinitPort, Goto, FlagsInv, TableMatchesLinks,
       DownWithoutPort, IdleUntilSynced, OwedIsRemembered, CancelClearsFlag, ScanFlagTrue,
          AdvFlagTrue, ConnFlagTrue, Is, Deinit
  <2> QED
    BY <2>3, <2>4, <2>5
<1>7. CASE StartScan
  <2>1. Is(host', host.synced, TRUE, host.adv, host.ended, host.connect, host.links,
           host.inbound, host.procs)
    BY <1>7, <1>types, ScanFields DEF StartScan
  <2>2. TypeOK'
    BY <1>7, <1>inv, <2>1, BleAssumption DEF StartScan, Goto, Ready, TypeOK, AppSteps, Is
  <2>3. ReadsInv'
    BY <1>7, <1>inv, <2>1, <1>types, ReadsKept DEF StartScan, Goto, Ready, Is
  <2>4. FlagsInv'
    BY <1>7, <1>inv, <2>1, <1>types DEF StartScan, Goto, Ready, FlagsInv,
       TableMatchesLinks, DownWithoutPort, IdleUntilSynced, OwedIsRemembered,
          CancelClearsFlag, ScanFlagTrue, AdvFlagTrue, ConnFlagTrue, Is, Deinit
  <2> QED
    BY <2>2, <2>3, <2>4
<1>8. CASE ScanFlag
  <2>1. Is(host', host.synced, host.scan, host.adv, host.ended, host.connect, host.links,
           host.inbound, host.procs)
    BY <1>8, <1>types DEF ScanFlag, Is
  <2>2. /\ mishaps' \subseteq Mishaps /\ ("scan" \in mishaps' <=> ~host.scan)
        /\ \A f \in Mishaps : f # "scan" => (f \in mishaps' <=> f \in mishaps)
    BY <1>8, <1>types, DisagreesFields DEF ScanFlag
  <2>3. TypeOK'
    BY <1>8, <1>inv, <2>1, <2>2, BleAssumption DEF ScanFlag, Goto, Mishaps, TypeOK,
       AppSteps, Is
  <2>4. ReadsInv'
    BY <1>8, <1>inv, <2>1, <2>2, <1>types, ReadsKept DEF ScanFlag, Goto, Mishaps, Is
  <2>5. FlagsInv'
    BY <1>8, <1>inv, <2>1, <2>2, <1>types DEF ScanFlag, Goto, Mishaps, FlagsInv,
       TableMatchesLinks, DownWithoutPort, IdleUntilSynced, OwedIsRemembered,
          CancelClearsFlag, ScanFlagTrue, AdvFlagTrue, ConnFlagTrue, Is, Deinit
  <2> QED
    BY <2>3, <2>4, <2>5
<1>9. CASE StopScan
  <2>1. Is(host', host.synced, host.scan, host.adv, host.ended, host.connect, host.links,
           host.inbound, host.procs)
    BY <1>9, <1>types DEF StopScan, Is
  <2>2. TypeOK'
    BY <1>9, <1>inv, <2>1, BleAssumption DEF StopScan, Goto, Ready, TypeOK, AppSteps, Is
  <2>3. ReadsInv'
    BY <1>9, <1>inv, <2>1, <1>types, ReadsKept DEF StopScan, Goto, Ready, Is
  <2>4. FlagsInv'
    BY <1>9, <1>inv, <2>1, <1>types DEF StopScan, Goto, Ready, FlagsInv,
       TableMatchesLinks, DownWithoutPort, IdleUntilSynced, OwedIsRemembered,
          CancelClearsFlag, ScanFlagTrue, AdvFlagTrue, ConnFlagTrue, Is, Deinit
  <2> QED
    BY <2>2, <2>3, <2>4
<1>10. CASE ScanCancel
  <2>1. Is(host', host.synced, FALSE, host.adv, host.ended, host.connect, host.links,
           host.inbound, host.procs)
    BY <1>10, <1>types, ScanFields DEF ScanCancel
  <2>2. queued' \in 0 .. Capacity
    BY <1>10, <1>types, QueueFits DEF ScanCancel
  <2>3. TypeOK'
    BY <1>10, <1>inv, <2>1, <2>2, BleAssumption DEF ScanCancel, Goto, TypeOK, AppSteps, Is
  <2>4. ReadsInv'
    BY <1>10, <1>inv, <2>1, <2>2, <1>types, ReadsKept DEF ScanCancel, Goto, Is
  <2>5. FlagsInv'
    BY <1>10, <1>inv, <2>1, <2>2, <1>types DEF ScanCancel, Goto, FlagsInv,
       TableMatchesLinks, DownWithoutPort, IdleUntilSynced, OwedIsRemembered,
          CancelClearsFlag, ScanFlagTrue, AdvFlagTrue, ConnFlagTrue, Is, Deinit
  <2> QED
    BY <2>3, <2>4, <2>5
<1>11. CASE ScanCancelFails
  <2>1. Is(host', host.synced, host.scan, host.adv, host.ended, host.connect, host.links,
           host.inbound, host.procs)
    BY <1>11, <1>types DEF ScanCancelFails, Is
  <2>2. /\ mishaps' \subseteq Mishaps /\ ("scan" \in mishaps' <=> ~host.scan)
        /\ \A f \in Mishaps : f # "scan" => (f \in mishaps' <=> f \in mishaps)
    BY <1>11, <1>types, DisagreesFields DEF ScanCancelFails
  <2>3. TypeOK'
    BY <1>11, <1>inv, <2>1, <2>2, BleAssumption DEF ScanCancelFails, Goto, Mishaps,
       TypeOK, AppSteps, Is
  <2>4. ReadsInv'
    BY <1>11, <1>inv, <2>1, <2>2, <1>types, ReadsKept DEF ScanCancelFails, Goto, Mishaps, Is
  <2>5. FlagsInv'
    BY <1>11, <1>inv, <2>1, <2>2, <1>types DEF ScanCancelFails, Goto, Mishaps, FlagsInv,
       TableMatchesLinks, DownWithoutPort, IdleUntilSynced, OwedIsRemembered,
          CancelClearsFlag, ScanFlagTrue, AdvFlagTrue, ConnFlagTrue, Is, Deinit
  <2> QED
    BY <2>3, <2>4, <2>5
<1>12. CASE StartAdvertising
  <2>1. Is(host', host.synced, host.scan, host.adv, host.ended, host.connect, host.links,
           host.inbound, host.procs)
    BY <1>12, <1>types DEF StartAdvertising, Is
  <2>2. TypeOK'
    BY <1>12, <1>inv, <2>1, BleAssumption DEF StartAdvertising, Goto, Ready, TypeOK,
       AppSteps, Is
  <2>3. ReadsInv'
    BY <1>12, <1>inv, <2>1, <1>types, ReadsKept DEF StartAdvertising, Goto, Ready, Is
  <2>4. FlagsInv'
    BY <1>12, <1>inv, <2>1, <1>types DEF StartAdvertising, Goto, Ready, FlagsInv,
       TableMatchesLinks, DownWithoutPort, IdleUntilSynced, OwedIsRemembered,
          CancelClearsFlag, ScanFlagTrue, AdvFlagTrue, ConnFlagTrue, Is, Deinit
  <2> QED
    BY <2>2, <2>3, <2>4
<1>13. CASE AdvStart
  <2>1. Is(host', host.synced, host.scan, TRUE, host.ended, host.connect, host.links,
           host.inbound, host.procs)
    BY <1>13, <1>types, AdvFields DEF AdvStart
  <2>2. TypeOK'
    BY <1>13, <1>inv, <2>1, BleAssumption DEF AdvStart, Goto, TypeOK, AppSteps, Is
  <2>3. ReadsInv'
    BY <1>13, <1>inv, <2>1, <1>types, ReadsKept DEF AdvStart, Goto, Is
  <2>4. FlagsInv'
    BY <1>13, <1>inv, <2>1, <1>types DEF AdvStart, Goto, FlagsInv, TableMatchesLinks,
       DownWithoutPort, IdleUntilSynced, OwedIsRemembered, CancelClearsFlag, ScanFlagTrue,
          AdvFlagTrue, ConnFlagTrue, Is, Deinit
  <2> QED
    BY <2>2, <2>3, <2>4
<1>14. CASE AdvFlag
  <2>1. Is(host', host.synced, host.scan, host.adv, host.ended, host.connect, host.links,
           host.inbound, host.procs)
    BY <1>14, <1>types DEF AdvFlag, Is
  <2>2. /\ mishaps' \subseteq Mishaps /\ ("adv" \in mishaps' <=> ~host.adv)
        /\ \A f \in Mishaps : f # "adv" => (f \in mishaps' <=> f \in mishaps)
    BY <1>14, <1>types, DisagreesFields DEF AdvFlag
  <2>3. TypeOK'
    BY <1>14, <1>inv, <2>1, <2>2, BleAssumption DEF AdvFlag, Goto, Mishaps, TypeOK,
       AppSteps, Is
  <2>4. ReadsInv'
    BY <1>14, <1>inv, <2>1, <2>2, <1>types, ReadsKept DEF AdvFlag, Goto, Mishaps, Is
  <2>5. FlagsInv'
    BY <1>14, <1>inv, <2>1, <2>2, <1>types DEF AdvFlag, Goto, Mishaps, FlagsInv,
       TableMatchesLinks, DownWithoutPort, IdleUntilSynced, OwedIsRemembered,
          CancelClearsFlag, ScanFlagTrue, AdvFlagTrue, ConnFlagTrue, Is, Deinit
  <2> QED
    BY <2>3, <2>4, <2>5
<1>15. CASE AdvStartFails
  <2>1. Is(host', host.synced, host.scan, host.adv, host.ended, host.connect, host.links,
           host.inbound, host.procs)
    BY <1>15, <1>types DEF AdvStartFails, Is
  <2>2. TypeOK'
    BY <1>15, <1>inv, <2>1, BleAssumption DEF AdvStartFails, Goto, TypeOK, AppSteps, Is
  <2>3. ReadsInv'
    BY <1>15, <1>inv, <2>1, <1>types, ReadsKept DEF AdvStartFails, Goto, Is
  <2>4. FlagsInv'
    BY <1>15, <1>inv, <2>1, <1>types DEF AdvStartFails, Goto, FlagsInv, TableMatchesLinks,
       DownWithoutPort, IdleUntilSynced, OwedIsRemembered, CancelClearsFlag, ScanFlagTrue,
          AdvFlagTrue, ConnFlagTrue, Is, Deinit
  <2> QED
    BY <2>2, <2>3, <2>4
<1>16. CASE AdvFailed
  <2>1. Is(host', host.synced, host.scan, host.adv, host.ended, host.connect, host.links,
           host.inbound, host.procs)
    BY <1>16, <1>types DEF AdvFailed, Is
  <2>2. TypeOK'
    BY <1>16, <1>inv, <2>1, BleAssumption DEF AdvFailed, Goto, TypeOK, AppSteps, Is
  <2>3. ReadsInv'
    BY <1>16, <1>inv, <2>1, <1>types, ReadsKept DEF AdvFailed, Goto, Is
  <2>4. FlagsInv'
    BY <1>16, <1>inv, <2>1, <1>types DEF AdvFailed, Goto, FlagsInv, TableMatchesLinks,
       DownWithoutPort, IdleUntilSynced, OwedIsRemembered, CancelClearsFlag, ScanFlagTrue,
          AdvFlagTrue, ConnFlagTrue, Is, Deinit
  <2> QED
    BY <2>2, <2>3, <2>4
<1>17. CASE StopAdvertising
  <2>1. Is(host', host.synced, host.scan, host.adv, host.ended, host.connect, host.links,
           host.inbound, host.procs)
    BY <1>17, <1>types DEF StopAdvertising, Is
  <2>2. TypeOK'
    BY <1>17, <1>inv, <2>1, BleAssumption DEF StopAdvertising, Goto, Ready, TypeOK,
       AppSteps, Is
  <2>3. ReadsInv'
    BY <1>17, <1>inv, <2>1, <1>types, ReadsKept DEF StopAdvertising, Goto, Ready, Is
  <2>4. FlagsInv'
    BY <1>17, <1>inv, <2>1, <1>types DEF StopAdvertising, Goto, Ready, FlagsInv,
       TableMatchesLinks, DownWithoutPort, IdleUntilSynced, OwedIsRemembered,
          CancelClearsFlag, ScanFlagTrue, AdvFlagTrue, ConnFlagTrue, Is, Deinit
  <2> QED
    BY <2>2, <2>3, <2>4
<1>18. CASE AdvStop
  <2>0. PICK report \in BOOLEAN :
          /\ host' = IF host.adv THEN [host EXCEPT !.adv = FALSE,
             !.ended = report] ELSE host
          /\ Disagrees("adv", advActive /\ ~host'.ended)
    BY <1>18 DEF AdvStop
  <2>1. Is(host', host.synced, host.scan, FALSE, host'.ended, host.connect, host.links,
           host.inbound, host.procs)
    <3>1. CASE host.adv
      <4>1. host' = [host EXCEPT !.adv = FALSE, !.ended = report]
        BY <2>0, <3>1
      <4>2. Is([host EXCEPT !.adv = FALSE, !.ended = report], host.synced, host.scan, FALSE,
               report, host.connect, host.links, host.inbound, host.procs)
        BY <1>types, AdvEndedFields
      <4> QED
        BY <4>1, <4>2 DEF Is
    <3>2. CASE ~host.adv
      <4>1. host' = host
        BY <2>0, <3>2
      <4> QED
        BY <1>types, <3>2, <4>1 DEF Is, Hosts
    <3> QED
      BY <3>1, <3>2
  <2>2. /\ mishaps' \subseteq Mishaps /\ ("adv" \in mishaps' <=> advActive /\ ~host'.ended)
        /\ \A f \in Mishaps : f # "adv" => (f \in mishaps' <=> f \in mishaps)
    BY <1>types, <2>0, <2>1, DisagreesFields DEF Is
  <2>3. TypeOK'
    BY <1>18, <1>inv, <2>1, <2>2 DEF AdvStop, Goto, TypeOK, AppSteps, Is
  <2>4. ReadsInv'
    BY <1>18, <1>inv, <1>types, <2>1, <2>2, ReadsKept DEF AdvStop, Goto, Is
  <2>5. ~host.synced => ~host'.ended
    BY <1>inv, <2>0 DEF FlagsInv, IdleUntilSynced
  <2>6. FlagsInv'
    BY <1>18, <1>inv, <1>types, <2>1, <2>2, <2>5 DEF AdvStop, Goto, FlagsInv,
       TableMatchesLinks, DownWithoutPort, IdleUntilSynced, OwedIsRemembered,
          CancelClearsFlag, ScanFlagTrue, AdvFlagTrue, ConnFlagTrue, Is, Deinit
  <2> QED
    BY <2>3, <2>4, <2>6
<1>19. CASE Connect
  <2>1. Is(host', host.synced, host.scan, host.adv, host.ended, "yes", host.links,
           host.inbound, host.procs)
    BY <1>19, <1>types, ConnectFields DEF Connect
  <2>2. TypeOK'
    BY <1>19, <1>inv, <2>1, BleAssumption DEF Connect, Goto, Ready, TypeOK, AppSteps, Is
  <2>3. ReadsInv'
    BY <1>19, <1>inv, <2>1, <1>types, ReadsKept DEF Connect, Goto, Ready, Is
  <2>4. FlagsInv'
    BY <1>19, <1>inv, <2>1, <1>types DEF Connect, Goto, Ready, FlagsInv,
       TableMatchesLinks, DownWithoutPort, IdleUntilSynced, OwedIsRemembered,
          CancelClearsFlag, ScanFlagTrue, AdvFlagTrue, ConnFlagTrue, Is, Deinit
  <2> QED
    BY <2>2, <2>3, <2>4
<1>20. CASE ConnFlag
  <2>1. Is(host', host.synced, host.scan, host.adv, host.ended, host.connect, host.links,
           host.inbound, host.procs)
    BY <1>20, <1>types DEF ConnFlag, Is
  <2>2. /\ mishaps' \subseteq Mishaps /\ ("connect" \in mishaps' <=> host.connect # "yes")
        /\ \A f \in Mishaps : f # "connect" => (f \in mishaps' <=> f \in mishaps)
    BY <1>20, <1>types, DisagreesFields DEF ConnFlag
  <2>3. TypeOK'
    BY <1>20, <1>inv, <2>1, <2>2, BleAssumption DEF ConnFlag, Goto, Mishaps, TypeOK,
       AppSteps, Is
  <2>4. ReadsInv'
    BY <1>20, <1>inv, <2>1, <2>2, <1>types, ReadsKept DEF ConnFlag, Goto, Mishaps, Is
  <2>5. FlagsInv'
    BY <1>20, <1>inv, <2>1, <2>2, <1>types DEF ConnFlag, Goto, Mishaps, FlagsInv,
       TableMatchesLinks, DownWithoutPort, IdleUntilSynced, OwedIsRemembered,
          CancelClearsFlag, ScanFlagTrue, AdvFlagTrue, ConnFlagTrue, Is, Deinit
  <2> QED
    BY <2>3, <2>4, <2>5
<1>21. CASE CancelConnect
  <2>1. Is(host', host.synced, host.scan, host.adv, host.ended, "cancelled", host.links,
           host.inbound, host.procs)
    BY <1>21, <1>types, ConnectFields DEF CancelConnect
  <2>2. TypeOK'
    BY <1>21, <1>inv, <2>1, BleAssumption DEF CancelConnect, Goto, Ready, TypeOK,
       AppSteps, Is
  <2>3. ReadsInv'
    BY <1>21, <1>inv, <2>1, <1>types, ReadsKept DEF CancelConnect, Goto, Ready, Is
  <2>4. FlagsInv'
    BY <1>21, <1>inv, <2>1, <1>types DEF CancelConnect, Goto, Ready, FlagsInv,
       TableMatchesLinks, DownWithoutPort, IdleUntilSynced, OwedIsRemembered,
          CancelClearsFlag, ScanFlagTrue, AdvFlagTrue, ConnFlagTrue, Is, Deinit
  <2> QED
    BY <2>2, <2>3, <2>4
<1>22. CASE ClientRead
  <2>1. PICK s \in Slots, link \in Links :
          /\ reads[s] = NoLink /\ reads' = [reads EXCEPT ![s] = link]
          /\ claim' = {<<s, link>>}
    BY <1>22 DEF ClientRead
  <2>2. /\ reads' \in [Slots -> Links \cup {NoLink}] /\ reads'[s] = link
        /\ \A t \in Slots : t # s => reads'[t] = reads[t]
    BY <1>types, <2>1
  <2>3. /\ host' = host /\ mishaps' = mishaps /\ claim = {} /\ app' = "readCall"
        /\ app = "run" /\ initialized
    BY <1>22, <1>inv DEF ClientRead, Goto, Ready, ReadsInv, ClaimOwnsSlot
  <2>4. TypeOK'
    BY <1>22, <1>inv, <2>1, <2>2 DEF ClientRead, Goto, TypeOK, AppSteps
  <2>5. ClaimOwnsSlot' /\ SlotsAwaitAnswers' /\ ReadsOverLinks'
    BY <1>inv, <2>1, <2>2, <2>3 DEF ReadsInv, ClaimOwnsSlot, SlotsAwaitAnswers,
       ReadsOverLinks, OneReadPerSlot
  <2>6. OneReadPerSlot'
    <3>1. \A p \in host.procs : p[1] \in Slots /\ p[2] \in Links
      BY <1>types DEF Hosts
    <3>2. ASSUME "read" \notin mishaps, NEW p \in host.procs
          PROVE  p[1] # s /\ reads'[p[1]] = p[2]
      BY <1>inv, <2>1, <2>2, <3>1, <3>2, BleAssumption DEF ReadsInv, OneReadPerSlot
    <3> QED
      BY <2>1, <2>3, <3>2 DEF OneReadPerSlot
  <2>7. FlagsInv'
    BY <1>22, <1>inv, <1>types, <2>3 DEF ClientRead, FlagsInv, TableMatchesLinks,
       DownWithoutPort, IdleUntilSynced, OwedIsRemembered, CancelClearsFlag, ScanFlagTrue,
          AdvFlagTrue, ConnFlagTrue, Is, Deinit
  <2> QED
    BY <2>4, <2>5, <2>6, <2>7 DEF ReadsInv
<1>23. CASE ReadCall
  <2>1. PICK c \in claim :
          /\ c[2] \in host.links /\ host' = [host EXCEPT !.procs = @ \cup {c}]
          /\ mishaps' = IF reads[c[1]] = NoLink THEN mishaps \cup {"read"} ELSE mishaps
    BY <1>23 DEF ReadCall
  <2>2. PICK s \in Slots, link \in Links : claim = {<<s, link>>}
    BY <1>23, <1>inv DEF ReadCall, ReadsInv, ClaimOwnsSlot
  <2>3. c = <<s, link>> /\ c \in Slots \X Links
    BY <2>1, <2>2
  <2>4. host.procs \cup {c} \in SUBSET (Slots \X Links)
    BY <1>types, <2>3 DEF Hosts
  <2>5. Is(host', host.synced, host.scan, host.adv, host.ended, host.connect, host.links,
           host.inbound, host.procs \cup {c})
    BY <1>types, <2>1, <2>4, ProcsFields
  <2>6. /\ claim' = {} /\ app' = "run" /\ reads' = reads /\ claim = {c}
        /\ mishaps' \subseteq Mishaps /\ mishaps \subseteq mishaps'
        /\ \A f \in Mishaps : f # "read" => (f \in mishaps' <=> f \in mishaps)
        /\ "read" \notin mishaps' => reads[c[1]] # NoLink
    BY <1>23, <1>types, <2>1, <2>2, <2>3 DEF ReadCall, Goto
  <2>7. TypeOK'
    BY <1>23, <1>inv, <2>5, <2>6 DEF ReadCall, TypeOK, AppSteps, Is
  <2>8. ClaimOwnsSlot' /\ SlotsAwaitAnswers' /\ ReadsOverLinks'
    BY <1>inv, <2>1, <2>5, <2>6 DEF Is, ReadsInv, ClaimOwnsSlot, SlotsAwaitAnswers,
       ReadsOverLinks, OneReadPerSlot
  <2>9. OneReadPerSlot'
    BY <1>inv, <2>5, <2>6 DEF Is, ReadsInv, OneReadPerSlot, ClaimOwnsSlot
  <2>10. FlagsInv'
    BY <1>23, <1>inv, <1>types, <2>5, <2>6 DEF ReadCall, FlagsInv, TableMatchesLinks,
       DownWithoutPort, IdleUntilSynced, OwedIsRemembered, CancelClearsFlag, ScanFlagTrue,
          AdvFlagTrue, ConnFlagTrue, Is, Deinit
  <2> QED
    BY <2>7, <2>8, <2>9, <2>10 DEF ReadsInv
<1>24. CASE ReadFails
  <2>1. PICK s \in Slots, link \in Links : claim = {<<s, link>>}
    BY <1>24, <1>inv DEF ReadFails, ReadsInv, ClaimOwnsSlot
  <2>2. {c[1] : c \in claim} = {s}
    BY <2>1
  <2>3. /\ reads' \in [Slots -> Links \cup {NoLink}] /\ reads'[s] = NoLink
        /\ \A t \in Slots : t # s => reads'[t] = reads[t]
    BY <1>24, <1>types, <2>2, ReleaseFields DEF ReadFails
  <2>4. host' = host /\ mishaps' = mishaps /\ claim' = {} /\ app' = "run"
    BY <1>24 DEF ReadFails, Goto
  <2>5. TypeOK'
    BY <1>24, <1>inv, <2>3 DEF ReadFails, Goto, TypeOK, AppSteps
  <2>6. ReadsInv'
    <3>1. \A p \in host.procs : p[1] \in Slots /\ p[2] \in Links
      BY <1>types DEF Hosts
    <3> QED
      BY <1>inv, <2>1, <2>3, <2>4, <3>1 DEF ReadsInv, ClaimOwnsSlot, SlotsAwaitAnswers,
         ReadsOverLinks, OneReadPerSlot
  <2>7. FlagsInv'
    BY <1>24, <1>inv, <1>types, <2>4 DEF ReadFails, FlagsInv, TableMatchesLinks,
       DownWithoutPort, IdleUntilSynced, OwedIsRemembered, CancelClearsFlag, ScanFlagTrue,
          AdvFlagTrue, ConnFlagTrue, Is, Deinit
  <2> QED
    BY <2>5, <2>6, <2>7
<1>25. CASE ClientWrite
  <2>1. Is(host', host.synced, host.scan, host.adv, host.ended, host.connect, host.links,
           host.inbound, host.procs)
    BY <1>25, <1>types DEF ClientWrite, Is
  <2>2. queued' \in 0 .. Capacity
    BY <1>25, <1>types, QueueFits DEF ClientWrite
  <2>3. TypeOK'
    BY <1>25, <1>inv, <2>1, <2>2, BleAssumption DEF ClientWrite, Ready, TypeOK, AppSteps, Is
  <2>4. ReadsInv'
    BY <1>25, <1>inv, <2>1, <2>2, <1>types, ReadsKept DEF ClientWrite, Ready, Is
  <2>5. FlagsInv'
    BY <1>25, <1>inv, <2>1, <2>2, <1>types DEF ClientWrite, Ready, FlagsInv,
       TableMatchesLinks, DownWithoutPort, IdleUntilSynced, OwedIsRemembered,
          CancelClearsFlag, ScanFlagTrue, AdvFlagTrue, ConnFlagTrue, Is, Deinit
  <2> QED
    BY <2>3, <2>4, <2>5
<1>26. CASE TakeEvent
  <2>1. Is(host', host.synced, host.scan, host.adv, host.ended, host.connect, host.links,
           host.inbound, host.procs)
    BY <1>26, <1>types DEF TakeEvent, Is
  <2>2. TypeOK'
    BY <1>26, <1>inv, <2>1, BleAssumption DEF TakeEvent, TypeOK, AppSteps, Is
  <2>3. ReadsInv'
    BY <1>26, <1>inv, <2>1, <1>types, ReadsKept DEF TakeEvent, Is
  <2>4. FlagsInv'
    BY <1>26, <1>inv, <2>1, <1>types DEF TakeEvent, FlagsInv, TableMatchesLinks,
       DownWithoutPort, IdleUntilSynced, OwedIsRemembered, CancelClearsFlag, ScanFlagTrue,
          AdvFlagTrue, ConnFlagTrue, Is, Deinit
  <2> QED
    BY <2>2, <2>3, <2>4
<1>27. CASE Sync
  <2>1. Is(host', TRUE, host.scan, host.adv, host.ended, host.connect, host.links,
           host.inbound, host.procs)
    BY <1>27, <1>types, SyncFields DEF Sync
  <2>2. queued' \in 0 .. Capacity
    BY <1>27, <1>types, QueueFits DEF Sync
  <2>3. TypeOK'
    BY <1>27, <1>inv, <2>1, <2>2, BleAssumption DEF Sync, HostRuns, TypeOK, AppSteps, Is
  <2>4. ReadsInv'
    BY <1>27, <1>inv, <2>1, <2>2, <1>types, ReadsKept DEF Sync, HostRuns, Is
  <2>5. FlagsInv'
    BY <1>27, <1>inv, <2>1, <2>2, <1>types DEF Sync, HostRuns, FlagsInv,
       TableMatchesLinks, DownWithoutPort, IdleUntilSynced, OwedIsRemembered,
          CancelClearsFlag, ScanFlagTrue, AdvFlagTrue, ConnFlagTrue, Is, Deinit
  <2> QED
    BY <2>3, <2>4, <2>5
<1>28. CASE Reset
  <2> DEFINE gone == UNION {SlotsOf(link) : link \in host.links}
  <2>1. Is(host', FALSE, FALSE, FALSE, FALSE, "no", {}, {}, {})
    BY <1>28, DownFields DEF Reset
  <2>2. queued' \in 0 .. Capacity
    <3>1. IsFiniteSet(host.links)
      BY <1>types, BleAssumption, FS_Subset DEF Hosts
    <3>2. Cardinality(host.links) + 1 \in Nat
      BY <3>1, FS_CardinalityType
    <3> QED
      BY <1>28, <1>types, <3>2, QueueFits DEF Reset
  <2>3. /\ reads' \in [Slots -> Links \cup {NoLink}]
        /\ \A s \in gone \cap Slots : reads'[s] = NoLink
        /\ \A s \in Slots \ gone : reads'[s] = reads[s]
    BY <1>28, <1>types, ReleaseFields DEF Reset
  <2>4. TypeOK'
    BY <1>28, <1>inv, <2>1, <2>2, <2>3 DEF Reset, TypeOK, Is
  <2>5. SlotsAwaitAnswers'
    <3>1. ASSUME NEW s \in Slots, reads'[s] # NoLink
          PROVE  <<s, reads[s]>> \in claim /\ reads'[s] = reads[s]
      <4>1. s \notin gone /\ reads'[s] = reads[s]
        BY <2>3, <3>1
      <4>2. ASSUME <<s, reads[s]>> \in host.procs
            PROVE  FALSE
        <5>1. reads[s] \in host.links
          BY <1>inv, <4>2 DEF ReadsInv, ReadsOverLinks
        <5>2. s \in SlotsOf(reads[s])
          BY DEF SlotsOf
        <5> QED
          BY <4>1, <5>1, <5>2
      <4> QED
        BY <1>inv, <3>1, <4>1, <4>2 DEF ReadsInv, SlotsAwaitAnswers
    <3> QED
      BY <1>28, <3>1 DEF Reset, SlotsAwaitAnswers
  <2>6. ClaimOwnsSlot'
    <3>1. \A c \in claim : c[1] \in Slots
      BY <1>inv DEF TypeOK
    <3> QED
      BY <1>28, <1>inv, <2>3, <3>1 DEF Reset, ReadsInv, ClaimOwnsSlot
  <2>7. ReadsOverLinks' /\ OneReadPerSlot'
    BY <2>1 DEF Is, ReadsOverLinks, OneReadPerSlot
  <2>8. FlagsInv'
    BY <1>28, <1>inv, <1>types, <2>1 DEF Reset, HostRuns, FlagsInv, TableMatchesLinks,
       DownWithoutPort, IdleUntilSynced, OwedIsRemembered, CancelClearsFlag, ScanFlagTrue,
          AdvFlagTrue, ConnFlagTrue, Is, Deinit
  <2> QED
    BY <2>4, <2>5, <2>6, <2>7, <2>8 DEF ReadsInv
<1>29. CASE DiscComplete
  <2>1. Is(host', host.synced, FALSE, host.adv, host.ended, host.connect, host.links,
           host.inbound, host.procs)
    BY <1>29, <1>types, ScanFields DEF DiscComplete
  <2>2. queued' \in 0 .. Capacity
    BY <1>29, <1>types, QueueFits DEF DiscComplete
  <2>3. TypeOK'
    BY <1>29, <1>inv, <2>1, <2>2, BleAssumption DEF DiscComplete, HostRuns, TypeOK,
       AppSteps, Is
  <2>4. ReadsInv'
    BY <1>29, <1>inv, <2>1, <2>2, <1>types, ReadsKept DEF DiscComplete, HostRuns, Is
  <2>5. FlagsInv'
    BY <1>29, <1>inv, <2>1, <2>2, <1>types DEF DiscComplete, HostRuns, FlagsInv,
       TableMatchesLinks, DownWithoutPort, IdleUntilSynced, OwedIsRemembered,
          CancelClearsFlag, ScanFlagTrue, AdvFlagTrue, ConnFlagTrue, Is, Deinit
  <2> QED
    BY <2>3, <2>4, <2>5
<1>30. CASE ConnectFailed
  <2>1. Is(host', host.synced, host.scan, host.adv, host.ended, "no", host.links,
           host.inbound, host.procs)
    BY <1>30, <1>types, ConnectFields DEF ConnectFailed
  <2>2. queued' \in 0 .. Capacity
    BY <1>30, <1>types, QueueFits DEF ConnectFailed
  <2>3. /\ mishaps' \subseteq Mishaps /\ ("adv" \in mishaps' <=> host.adv)
        /\ \A f \in Mishaps : f # "adv" => (f \in mishaps' <=> f \in mishaps)
    BY <1>30, <1>types, DisagreesFields DEF ConnectFailed
  <2>4. TypeOK'
    BY <1>30, <1>inv, <2>1, <2>2, <2>3, BleAssumption DEF ConnectFailed, HostRuns,
       Mishaps, TypeOK, AppSteps, Is
  <2>5. ReadsInv'
    BY <1>30, <1>inv, <2>1, <2>2, <2>3, <1>types, ReadsKept DEF ConnectFailed, HostRuns,
       Mishaps, Is
  <2>6. FlagsInv'
    BY <1>30, <1>inv, <2>1, <2>2, <2>3, <1>types DEF ConnectFailed, HostRuns, Mishaps,
       FlagsInv, TableMatchesLinks, DownWithoutPort, IdleUntilSynced, OwedIsRemembered,
          CancelClearsFlag, ScanFlagTrue, AdvFlagTrue, ConnFlagTrue, Is, Deinit
  <2> QED
    BY <2>4, <2>5, <2>6
<1>31. CASE Restart
  <2>0. host.synced /\ initialized
    BY <1>31, <1>inv DEF Restart, FlagsInv, IdleUntilSynced, DownWithoutPort
  <2>1. CASE /\ ~host.adv /\ host' = [host EXCEPT !.adv = TRUE]
             /\ advActive' = TRUE /\ mishaps' = mishaps \ {"adv"} /\ UNCHANGED queued
    <3>1. Is(host', host.synced, host.scan, TRUE, host.ended, host.connect, host.links,
             host.inbound, host.procs)
      BY <1>types, <2>1, AdvFields
    <3>2. TypeOK'
      BY <1>31, <1>inv, <2>1, <3>1 DEF Restart, TypeOK, Is
    <3>3. ReadsInv'
      BY <1>31, <1>inv, <2>1, <3>1, ReadsKept DEF Restart, Is
    <3>4. FlagsInv'
      BY <1>31, <1>inv, <1>types, <2>0, <2>1, <3>1 DEF Restart, FlagsInv,
         TableMatchesLinks, DownWithoutPort, IdleUntilSynced, OwedIsRemembered,
            CancelClearsFlag, ScanFlagTrue, AdvFlagTrue, ConnFlagTrue, Is, Deinit
    <3> QED
      BY <3>2, <3>3, <3>4
  <2>2. CASE Queue(1) /\ UNCHANGED <<host, advActive, mishaps>>
    <3>1. queued' \in 0 .. Capacity
      BY <1>types, <2>2, QueueFits
    <3>2. TypeOK'
      BY <1>31, <1>inv, <2>2, <3>1 DEF Restart, TypeOK
    <3>3. ReadsInv'
      BY <1>31, <1>inv, <2>2, ReadsKept DEF Restart
    <3>4. FlagsInv'
      BY <1>31, <1>inv, <1>types, <2>0, <2>2 DEF Restart, FlagsInv, TableMatchesLinks,
         DownWithoutPort, IdleUntilSynced, OwedIsRemembered, CancelClearsFlag,
            ScanFlagTrue, AdvFlagTrue, ConnFlagTrue, Is, Deinit
    <3> QED
      BY <3>2, <3>3, <3>4
  <2> QED
    BY <1>31, <2>1, <2>2 DEF Restart
<1>32. CASE AdvComplete
  <2>0. (host.ended \/ host.adv) /\ initialized
    BY <1>32 DEF AdvComplete, HostRuns
  <2>1. Is(host', host.synced, host.scan, host'.adv, host'.ended, host.connect, host.links,
           host.inbound, host.procs)
    <3>1. CASE host' = [host EXCEPT !.ended = FALSE]
      <4>1. Is([host EXCEPT !.ended = FALSE], host.synced, host.scan, host.adv, FALSE,
               host.connect, host.links, host.inbound, host.procs)
        BY <1>types, EndedFields
      <4> QED
        BY <3>1, <4>1 DEF Is
    <3>2. CASE host' = [host EXCEPT !.adv = FALSE]
      <4>1. Is([host EXCEPT !.adv = FALSE], host.synced, host.scan, FALSE, host.ended,
               host.connect, host.links, host.inbound, host.procs)
        BY <1>types, AdvFields
      <4> QED
        BY <3>2, <4>1 DEF Is
    <3> QED
      BY <1>32, <3>1, <3>2 DEF AdvComplete
  <2>2. queued' \in 0 .. Capacity
    BY <1>32, <1>types, QueueFits DEF AdvComplete
  <2>3. host'.adv \in BOOLEAN
    BY <2>1 DEF Is, Hosts
  <2>4. /\ mishaps' \subseteq Mishaps /\ ("adv" \in mishaps' <=> host'.adv)
        /\ \A f \in Mishaps : f # "adv" => (f \in mishaps' <=> f \in mishaps)
    BY <1>32, <1>types, <2>3, DisagreesFields DEF AdvComplete
  <2>5. TypeOK'
    BY <1>32, <1>inv, <2>1, <2>2, <2>4 DEF AdvComplete, TypeOK, Is
  <2>6. ReadsInv'
    BY <1>32, <1>inv, <1>types, <2>1, <2>4, ReadsKept DEF AdvComplete, Is
  <2>7. host.synced
    BY <1>inv, <2>0 DEF FlagsInv, IdleUntilSynced
  <2>8. AdvFlagTrue'
    BY <1>32, <2>3, <2>4 DEF AdvComplete, AdvFlagTrue
  <2>9. FlagsInv'
    BY <1>32, <1>inv, <1>types, <2>0, <2>1, <2>4, <2>7, <2>8 DEF AdvComplete, FlagsInv,
       TableMatchesLinks, DownWithoutPort, IdleUntilSynced, OwedIsRemembered,
          CancelClearsFlag, ScanFlagTrue, ConnFlagTrue, Is
  <2> QED
    BY <2>5, <2>6, <2>9
<1>33. CASE Report
  <2>1. Is(host', host.synced, host.scan, host.adv, host.ended, host.connect, host.links,
           host.inbound, host.procs)
    BY <1>33, <1>types DEF Report, Is
  <2>2. queued' \in 0 .. Capacity
    BY <1>33, <1>types, QueueFits DEF Report
  <2>3. TypeOK'
    BY <1>33, <1>inv, <2>1, <2>2, BleAssumption DEF Report, HostRuns, TypeOK, AppSteps, Is
  <2>4. ReadsInv'
    BY <1>33, <1>inv, <2>1, <2>2, <1>types, ReadsKept DEF Report, HostRuns, Is
  <2>5. FlagsInv'
    BY <1>33, <1>inv, <2>1, <2>2, <1>types DEF Report, HostRuns, FlagsInv,
       TableMatchesLinks, DownWithoutPort, IdleUntilSynced, OwedIsRemembered,
          CancelClearsFlag, ScanFlagTrue, AdvFlagTrue, ConnFlagTrue, Is, Deinit
  <2> QED
    BY <2>3, <2>4, <2>5
<1>34. ASSUME NEW link \in Links, Connected(link)
      PROVE  TypeOK' /\ ReadsInv' /\ FlagsInv'
  <2>1. table' = host.links \cup {link} /\ initialized /\ host.synced
    BY <1>34, <1>inv, RoomForLink DEF Connected, HostRuns, TypeOK, FlagsInv,
       TableMatchesLinks
  <2>2. host.links \cup {link} \in SUBSET Links /\ host.inbound \cup {link} \in SUBSET Links
    BY <1>types DEF Hosts
  <2>3. queued' \in 0 .. Capacity
    BY <1>34, <1>types, QueueFits DEF Connected
  <2>4. \E inbound \in SUBSET Links :
          Is(host', host.synced, host.scan, host'.adv, host.ended, host'.connect,
             host.links \cup {link}, inbound, host.procs)
    <3>1. CASE host' = [host EXCEPT !.connect = "no", !.links = @ \cup {link}]
      <4>1. Is(host', host.synced, host.scan, host.adv, host.ended, "no",
               host.links \cup {link}, host.inbound, host.procs)
        BY <1>types, <2>2, <3>1, OutboundFields
      <4>2. host'.adv = host.adv /\ host'.connect = "no" /\ host.inbound \in SUBSET Links
        BY <1>types, <4>1 DEF Is, Hosts
      <4> QED
        BY <4>1, <4>2
    <3>2. CASE host' = [host EXCEPT !.adv = FALSE, !.links = @ \cup {link},
                                    !.inbound = @ \cup {link}]
      <4>1. Is(host', host.synced, host.scan, FALSE, host.ended, host.connect,
               host.links \cup {link}, host.inbound \cup {link}, host.procs)
        BY <1>types, <2>2, <3>2, InboundFields
      <4>2. host'.adv = FALSE /\ host'.connect = host.connect
        BY <4>1 DEF Is
      <4> QED
        BY <2>2, <4>1, <4>2
    <3> QED
      BY <1>34, <3>1, <3>2 DEF Connected
  <2>5. /\ mishaps' \subseteq Mishaps
        /\ "adv" \in mishaps' <=> host'.adv
        /\ "connect" \in mishaps' <=> app # "connFlag" /\ host'.connect = "yes"
        /\ \A f \in {"scan", "read"} : f \in mishaps' <=> f \in mishaps
    BY <1>34, <1>types DEF Connected, Mishaps
  <2>6. TypeOK'
    BY <1>34, <1>inv, <2>1, <2>2, <2>3, <2>4, <2>5 DEF Connected, TypeOK, Is
  <2>7. ReadsInv'
    BY <1>34, <1>inv, <2>4, <2>5 DEF Connected, Is, ReadsInv, ClaimOwnsSlot,
       SlotsAwaitAnswers, ReadsOverLinks, OneReadPerSlot
  <2>8. AdvFlagTrue' /\ ConnFlagTrue'
    BY <1>34, <2>4, <2>5 DEF Connected, AdvFlagTrue, ConnFlagTrue, Is, Hosts
  <2>9. FlagsInv'
    BY <1>34, <1>inv, <1>types, <2>1, <2>4, <2>5, <2>8 DEF Connected, FlagsInv,
       TableMatchesLinks, DownWithoutPort, IdleUntilSynced, OwedIsRemembered,
          CancelClearsFlag, ScanFlagTrue, Is
  <2> QED
    BY <2>6, <2>7, <2>9
<1>35. ASSUME NEW link \in Links, Disconnected(link)
      PROVE  TypeOK' /\ ReadsInv' /\ FlagsInv'
  <2> DEFINE kept == {p \in host.procs : p[2] # link}
  <2>1. kept \in SUBSET (Slots \X Links) /\ host.links \ {link} \in SUBSET Links
        /\ host.inbound \ {link} \in SUBSET Links
    BY <1>types DEF Hosts
  <2>2. Is(host', host.synced, host.scan, host.adv, host.ended, host.connect,
           host.links \ {link}, host.inbound \ {link}, kept)
    BY <1>35, <1>types, <2>1, LinksFields DEF Disconnected
  <2>3. queued' \in 0 .. Capacity
    BY <1>35, <1>types, QueueFits DEF Disconnected
  <2>4. /\ reads' \in [Slots -> Links \cup {NoLink}]
        /\ \A s \in SlotsOf(link) \cap Slots : reads'[s] = NoLink
        /\ \A s \in Slots \ SlotsOf(link) : reads'[s] = reads[s]
    BY <1>35, <1>types, ReleaseFields DEF Disconnected
  <2>5. /\ mishaps' \subseteq Mishaps /\ ("adv" \in mishaps' <=> host.adv)
        /\ \A f \in Mishaps : f # "adv" => (f \in mishaps' <=> f \in mishaps)
    BY <1>35, <1>types, DisagreesFields DEF Disconnected
  <2>6. host.synced /\ initialized /\ claim' = claim /\ app' = app
    BY <1>35, <1>inv DEF Disconnected, FlagsInv, IdleUntilSynced, HostRuns
  <2>7. TypeOK'
    BY <1>35, <1>inv, <2>2, <2>3, <2>4, <2>5 DEF Disconnected, RemoveConnection, TypeOK, Is
  <2>8. host'.procs = kept /\ \A p \in kept : p \in Slots \X Links /\ p[2] # link
    BY <2>1, <2>2 DEF Is
  <2>9. ClaimOwnsSlot'
    <3>1. \A c \in claim : c[1] \in Slots
      BY <1>inv DEF TypeOK
    <3> QED
      BY <1>inv, <2>4, <2>6, <3>1 DEF ReadsInv, ClaimOwnsSlot
  <2>10. SlotsAwaitAnswers'
    <3>1. ASSUME NEW s \in Slots, reads'[s] # NoLink
          PROVE  <<s, reads'[s]>> \in kept \cup claim
      <4>1. s \notin SlotsOf(link) /\ reads'[s] = reads[s]
        BY <2>4, <3>1
      <4>2. reads[s] # link
        BY <4>1 DEF SlotsOf
      <4> QED
        BY <1>inv, <3>1, <4>1, <4>2 DEF ReadsInv, SlotsAwaitAnswers
    <3> QED
      BY <2>6, <2>8, <3>1 DEF SlotsAwaitAnswers
  <2>11. ReadsOverLinks'
    BY <1>inv, <2>2, <2>8 DEF Is, ReadsInv, ReadsOverLinks
  <2>12. OneReadPerSlot'
    <3>1. ASSUME "read" \notin mishaps, NEW p \in kept
          PROVE  reads'[p[1]] = p[2]
      <4>1. p[1] \in Slots /\ p[2] # link /\ reads[p[1]] = p[2]
        BY <1>inv, <2>8, <3>1 DEF ReadsInv, OneReadPerSlot
      <4>2. ASSUME <<p[1], link>> \in host.procs
            PROVE  FALSE
        <5>1. reads[p[1]] = link
          BY <1>inv, <3>1, <4>2 DEF ReadsInv, OneReadPerSlot
        <5> QED
          BY <4>1, <5>1
      <4>3. p[1] \notin SlotsOf(link)
        BY <4>1, <4>2 DEF SlotsOf
      <4> QED
        BY <2>4, <4>1, <4>3
    <3>2. "read" \in mishaps' <=> "read" \in mishaps
      BY <1>types, <2>5
    <3> QED
      BY <1>inv, <2>6, <2>8, <3>1, <3>2 DEF ReadsInv, OneReadPerSlot
  <2>13. AdvFlagTrue'
    BY <1>35, <1>types, <2>2, <2>5 DEF Disconnected, AdvFlagTrue, Is
  <2>14. FlagsInv'
    BY <1>35, <1>inv, <1>types, <2>2, <2>5, <2>6, <2>13 DEF Disconnected,
       RemoveConnection, FlagsInv, TableMatchesLinks, DownWithoutPort, IdleUntilSynced,
          OwedIsRemembered, CancelClearsFlag, ScanFlagTrue, ConnFlagTrue, Is
  <2> QED
    BY <2>7, <2>9, <2>10, <2>11, <2>12, <2>14 DEF ReadsInv
<1>36. ASSUME NEW proc \in host.procs, ReadEnds(proc)
      PROVE  TypeOK' /\ ReadsInv' /\ FlagsInv'
  <2>1. /\ host.procs \ {proc} \in SUBSET (Slots \X Links)
        /\ proc \in Slots \X Links /\ proc[1] \in Slots /\ proc[2] \in Links
        /\ \A p \in host.procs : p = <<p[1], p[2]>> /\ p[1] \in Slots /\ p[2] \in Links
    BY <1>types DEF Hosts
  <2>2. Is(host', host.synced, host.scan, host.adv, host.ended, host.connect, host.links,
           host.inbound, host.procs \ {proc})
    BY <1>36, <1>types, <2>1, ProcsFields DEF ReadEnds
  <2>3. queued' \in 0 .. Capacity
    BY <1>36, <1>types, QueueFits DEF ReadEnds, ReadComplete
  <2>4. /\ reads' \in [Slots -> Links \cup {NoLink}] /\ reads'[proc[1]] = NoLink
        /\ \A s \in Slots : s # proc[1] => reads'[s] = reads[s]
    <3>1. CASE reads[proc[1]] = NoLink
      BY <1>36, <1>types, <3>1 DEF ReadEnds
    <3>2. CASE reads[proc[1]] # NoLink
      BY <1>36, <1>types, <2>1, <3>2, ReleaseFields DEF ReadEnds, ReadComplete
    <3> QED
      BY <3>1, <3>2
  <2>5. UNCHANGED <<app, claim, initialized, ready, flagVars, table, handler, owed,
     mishaps>>
    BY <1>36 DEF ReadEnds
  <2>6. TypeOK'
    BY <1>inv, <2>2, <2>3, <2>4, <2>5 DEF TypeOK, Is
  <2>7. ClaimOwnsSlot' /\ ReadsOverLinks'
    <3>1. \A c \in claim : c[1] \in Slots
      BY <1>inv DEF TypeOK
    <3> QED
      BY <1>inv, <2>2, <2>4, <2>5, <3>1 DEF Is, ReadsInv, ClaimOwnsSlot, ReadsOverLinks
  <2>8. SlotsAwaitAnswers'
    BY <1>inv, <2>1, <2>2, <2>4, <2>5 DEF Is, ReadsInv, SlotsAwaitAnswers
  <2>9. OneReadPerSlot'
    <3>1. ASSUME "read" \notin mishaps, NEW p \in host.procs \ {proc}
          PROVE  p[1] # proc[1] /\ reads'[p[1]] = p[2]
      BY <1>inv, <2>1, <2>4, <3>1 DEF ReadsInv, OneReadPerSlot
    <3> QED
      BY <1>inv, <2>2, <2>5, <3>1 DEF Is, ReadsInv, OneReadPerSlot
  <2>10. FlagsInv'
    BY <1>inv, <1>types, <2>2, <2>5 DEF FlagsInv, TableMatchesLinks, DownWithoutPort,
       IdleUntilSynced, OwedIsRemembered, CancelClearsFlag, ScanFlagTrue, AdvFlagTrue,
          ConnFlagTrue, Is, Deinit
  <2> QED
    BY <2>6, <2>7, <2>8, <2>9, <2>10 DEF ReadsInv
<1>37. CASE UNCHANGED vars
  BY <1>37, <1>inv DEF vars, TypeOK, ReadsInv, ClaimOwnsSlot, SlotsAwaitAnswers,
     ReadsOverLinks, OneReadPerSlot, FlagsInv, TableMatchesLinks, DownWithoutPort,
        IdleUntilSynced, OwedIsRemembered, CancelClearsFlag, ScanFlagTrue, AdvFlagTrue,
           ConnFlagTrue
<1> QED
  BY <1>1, <1>2, <1>3, <1>4, <1>5, <1>6, <1>7, <1>8, <1>9, <1>10, <1>11, <1>12, <1>13,
     <1>14, <1>15, <1>16, <1>17, <1>18, <1>19, <1>20, <1>21, <1>22, <1>23, <1>24, <1>25,
        <1>26, <1>27, <1>28, <1>29, <1>30, <1>31, <1>32, <1>33, <1>34, <1>35, <1>36,
           <1>37 DEF Next, Owner, HostTask

\* In every reachable state the flags, the table and the read slots of esp32_ble.c
\* are what the host task and the owner left for each other.
THEOREM BleAlways == Spec => []BleInv
<1>1. Init => BleInv
  <2>1. NoReads \in [Slots -> Links \cup {NoLink}] /\ 0 \in 0 .. Capacity
    BY NoReadsFields, BleAssumption
  <2>2. Init => TypeOK
    BY <2>1, DownFields DEF Init, TypeOK, AppSteps, Is
  <2> QED
    BY <2>2, NoReadsFields, DownFields DEF Init, BleInv, TableMatchesLinks,
       DownWithoutPort, IdleUntilSynced, ClaimOwnsSlot, SlotsAwaitAnswers, ReadsOverLinks,
          OneReadPerSlot, OwedIsRemembered, CancelClearsFlag, ScanFlagTrue, AdvFlagTrue,
             ConnFlagTrue, Is
<1>2. BleInv /\ [Next]_vars => BleInv'
  BY BleStep
<1> QED
  BY <1>1, <1>2, PTL DEF Spec

----------------------------------------------------------------------------
(* What the invariant implies. *)

\* The variables keep their types and the ring of events that bmx_ble_queue fills its
\* bound, for every capacity, number of read slots and set of handles.
THEOREM BleTypes == Spec => []TypeOK
<1>1. BleInv => TypeOK
  BY DEF BleInv
<1> QED
  BY <1>1, BleAlways, PTL

\* The table of connections is that of the host, an active read slot waits for
\* an answer, and an answer finds the slot of its own read unless its handle was
\* given out again inside client_read.
THEOREM TablesAreTheHosts == Spec => []TablesMatchHost
<1>1. BleInv => TablesMatchHost
  BY DEF BleInv, TablesMatchHost, ReadsMatchSlots, SlotsAwaitAnswers, OneReadPerSlot
<1> QED
  BY <1>1, BleAlways, PTL

\* The end of a scan is never left unreported by both stop_scan and the callback.
THEOREM ScanEndIsReported == Spec => []ScanReported
<1>1. BleInv => ScanReported
  BY DEF BleInv, ScanReported, OwedIsRemembered
<1> QED
  BY <1>1, BleAlways, PTL

\* The flags that guard scanning, advertising and connecting disagree with the
\* host after the recorded races only.
THEOREM FlagsAreTheHosts == Spec => []FlagsMatchHost
<1>1. BleInv => FlagsMatchHost
  BY DEF BleInv, FlagsMatchHost, ScanFlagTrue, AdvFlagTrue, ConnFlagTrue, Deinit
<1> QED
  BY <1>1, BleAlways, PTL
=============================================================================
