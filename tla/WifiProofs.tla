------------------------------ MODULE WifiProofs ------------------------------
(***************************************************************************)
(* Proofs about WifiStation, for every size of the ring, every number of   *)
(* networks a scan finds and any length of the event loop's queue.         *)
(***************************************************************************)
EXTENDS WifiStation, SequenceTheorems, TLAPS

----------------------------------------------------------------------------
(* The ends of scans among the posted events. *)

ScanDones(s) == {i \in DOMAIN s : s[i].kind = "scanDone"}

AtMostOne(S) == \A i, j \in S : i = j

LEMMA PostingTypes ==
  /\ \A kind \in WifiKinds \cup IpKinds : kind # "gone" => Event(kind) \in Postings
  /\ \A cause \in Causes : Gone(cause) \in Postings
  /\ \A cause \in Causes : Gone(cause).kind = "gone"
  /\ \A e \in Postings : e.cause \in Causes => e.kind = "gone"
  BY DEF Postings, Event, Gone, Causes, WifiKinds, IpKinds

LEMMA PostOther ==
  ASSUME NEW s \in Seq(Postings), NEW e \in Postings, e.kind # "scanDone"
  PROVE  /\ Append(s, e) \in Seq(Postings)
         /\ ScanDones(Append(s, e)) = ScanDones(s)
<1>1. /\ Append(s, e) \in Seq(Postings)
      /\ DOMAIN s = 1 .. Len(s)
      /\ DOMAIN Append(s, e) = 1 .. Len(s) + 1
      /\ \A i \in 1 .. Len(s) : Append(s, e)[i] = s[i]
      /\ Append(s, e)[Len(s) + 1] = e
      /\ Len(s) \in Nat
  BY AppendProperties, LenProperties
<1>2. QED
  BY <1>1 DEF ScanDones

LEMMA PostScanDone ==
  ASSUME NEW s \in Seq(Postings), ScanDones(s) = {}
  PROVE  /\ Append(s, Event("scanDone")) \in Seq(Postings)
         /\ ScanDones(Append(s, Event("scanDone"))) = {Len(s) + 1}
<1> DEFINE e == Event("scanDone")
<1>0. e \in Postings /\ e.kind = "scanDone"
  BY PostingTypes DEF Event, WifiKinds
<1> HIDE DEF e
<1>1. /\ Append(s, e) \in Seq(Postings)
      /\ DOMAIN s = 1 .. Len(s)
      /\ DOMAIN Append(s, e) = 1 .. Len(s) + 1
      /\ \A i \in 1 .. Len(s) : Append(s, e)[i] = s[i]
      /\ Append(s, e)[Len(s) + 1] = e
      /\ Len(s) \in Nat
  BY <1>0, AppendProperties, LenProperties
<1>2. ScanDones(Append(s, e)) = {Len(s) + 1}
  BY <1>0, <1>1 DEF ScanDones
<1>3. QED
  BY <1>1, <1>2 DEF e

\* Handling the first event leaves the ends of scans behind it.
LEMMA PostedTail ==
  ASSUME NEW s \in Seq(Postings), s # <<>>
  PROVE  /\ Tail(s) \in Seq(Postings)
         /\ ScanDones(s) = {} => ScanDones(Tail(s)) = {}
         /\ AtMostOne(ScanDones(s)) => AtMostOne(ScanDones(Tail(s)))
         /\ Head(s).kind = "scanDone" =>
              /\ ScanDones(s) # {}
              /\ AtMostOne(ScanDones(s)) => ScanDones(Tail(s)) = {}
         /\ Head(s).kind # "scanDone" /\ ScanDones(s) # {} =>
              ScanDones(Tail(s)) # {}
<1>1. /\ Tail(s) \in Seq(Postings)
      /\ Len(s) \in Nat \ {0}
      /\ Len(Tail(s)) = Len(s) - 1
      /\ DOMAIN s = 1 .. Len(s)
      /\ DOMAIN Tail(s) = 1 .. Len(s) - 1
      /\ \A i \in 1 .. Len(s) - 1 : Tail(s)[i] = s[i + 1]
      /\ Head(s) = s[1]
  BY HeadTailProperties, LenProperties, EmptySeq
<1>2. \A i \in Nat : i \in ScanDones(Tail(s)) => i + 1 \in ScanDones(s)
  BY <1>1 DEF ScanDones
<1>3. ScanDones(Tail(s)) \subseteq Nat \ {0}
  BY <1>1 DEF ScanDones
<1>4. \A i \in ScanDones(s) : i = 1 \/ i - 1 \in ScanDones(Tail(s))
  BY <1>1 DEF ScanDones
<1>5. Head(s).kind = "scanDone" <=> 1 \in ScanDones(s)
  BY <1>1 DEF ScanDones
<1> DEFINE D == ScanDones(s)
           T == ScanDones(Tail(s))
<1> HIDE DEF D, T
<1>6. /\ \A i \in T : i \in Nat \ {0} /\ i + 1 \in D
      /\ \A i \in D : i = 1 \/ i - 1 \in T
      /\ Head(s).kind = "scanDone" <=> 1 \in D
  BY <1>2, <1>3, <1>4, <1>5 DEF D, T
<1>7. D = {} => T = {}
  BY <1>6
<1>8. AtMostOne(D) => AtMostOne(T)
  <2> SUFFICES ASSUME AtMostOne(D), NEW i \in T, NEW j \in T
               PROVE  i = j
    BY DEF AtMostOne
  <2>1. i + 1 = j + 1
    BY <1>6 DEF AtMostOne
  <2>2. QED
    BY <2>1, <1>6
<1>9. ASSUME 1 \in D, AtMostOne(D)
      PROVE  T = {}
  <2> SUFFICES ASSUME NEW i \in T
               PROVE  FALSE
    OBVIOUS
  <2>1. i + 1 = 1
    BY <1>6, <1>9 DEF AtMostOne
  <2>2. QED
    BY <2>1, <1>6
<1>10. 1 \notin D /\ D # {} => T # {}
  BY <1>6
<1>11. QED
  BY <1>1, <1>6, <1>7, <1>8, <1>9, <1>10 DEF D, T

LEMMA PostedOvertake ==
  ASSUME posted \in Seq(Postings), NEW S \in SUBSET Causes
  PROVE  /\ Overtake(S) \in Seq(Postings)
         /\ ScanDones(Overtake(S)) = ScanDones(posted)
<1>1. /\ DOMAIN posted = 1 .. Len(posted)
      /\ Len(posted) \in Nat
      /\ \A i \in 1 .. Len(posted) : posted[i] \in Postings
  BY LenProperties, ElementOfSeq
<1>2. /\ Gone("overtaken") \in Postings
      /\ Gone("overtaken").kind = "gone"
  BY PostingTypes DEF Causes
<1>3. Overtake(S) \in [1 .. Len(posted) -> Postings]
  BY <1>1, <1>2 DEF Overtake
<1>4. Overtake(S) \in Seq(Postings)
  BY <1>1, <1>3, SeqDef
<1>5. DOMAIN Overtake(S) = DOMAIN posted
  BY DEF Overtake
<1>6. \A i \in DOMAIN posted : Overtake(S)[i].kind = posted[i].kind
  BY <1>1, <1>2, PostingTypes DEF Overtake
<1>7. QED
  BY <1>4, <1>5, <1>6 DEF ScanDones

LEMMA PostConcat ==
  ASSUME NEW s \in Seq(Postings), NEW t \in Seq(Postings), ScanDones(t) = {}
  PROVE  /\ s \o t \in Seq(Postings)
         /\ ScanDones(s \o t) = ScanDones(s)
<1>1. /\ s \o t \in Seq(Postings)
      /\ Len(s) \in Nat /\ Len(t) \in Nat
      /\ DOMAIN s = 1 .. Len(s)
      /\ DOMAIN t = 1 .. Len(t)
      /\ DOMAIN (s \o t) = 1 .. Len(s) + Len(t)
      /\ \A i \in 1 .. Len(s) + Len(t) :
           (s \o t)[i] = IF i <= Len(s) THEN s[i] ELSE t[i - Len(s)]
  BY ConcatProperties, LenProperties
<1>2. \A i \in 1 .. Len(s) + Len(t) : i > Len(s) => i - Len(s) \in 1 .. Len(t)
  BY <1>1
<1>3. QED
  BY <1>1, <1>2 DEF ScanDones

\* What esp_wifi_stop posts contains no end of a scan.
LEMMA PostedStop ==
  ASSUME posted \in Seq(Postings)
  PROVE  /\ posted \o StopEvents \in Seq(Postings)
         /\ ScanDones(posted \o StopEvents) = ScanDones(posted)
<1> DEFINE gone == Gone("overtaken")
           stopped == Event("stopped")
<1>1. /\ gone \in Postings /\ gone.kind # "scanDone"
      /\ stopped \in Postings /\ stopped.kind # "scanDone"
  BY PostingTypes DEF Gone, Event, Causes, WifiKinds
<1>2. StopEvents \in {<<>>, <<>> \o <<stopped>>, <<gone>> \o <<stopped>>}
  BY DEF StopEvents
<1> HIDE DEF gone, stopped
<1>3. /\ <<>> \in Seq(Postings) /\ ScanDones(<<>>) = {}
      /\ <<gone>> \in Seq(Postings) /\ ScanDones(<<gone>>) = {}
      /\ <<stopped>> \in Seq(Postings) /\ ScanDones(<<stopped>>) = {}
  BY <1>1 DEF ScanDones
<1>4. StopEvents \in Seq(Postings) /\ ScanDones(StopEvents) = {}
  <2>1. /\ <<>> \o <<stopped>> \in Seq(Postings)
        /\ ScanDones(<<>> \o <<stopped>>) = {}
    BY <1>3, PostConcat
  <2>2. /\ <<gone>> \o <<stopped>> \in Seq(Postings)
        /\ ScanDones(<<gone>> \o <<stopped>>) = {}
    BY <1>3, PostConcat
  <2>3. QED
    BY <1>2, <1>3, <2>1, <2>2
<1>5. QED
  BY <1>4, PostConcat

----------------------------------------------------------------------------
(* Type correctness. *)

LEMMA InitStepNames ==
  /\ DOMAIN After = {"ap", "driver", "wifiHandler", "ipHandler", "settings", "start"}
  /\ After["ap"] = "driver" /\ After["driver"] = "wifiHandler"
  /\ After["wifiHandler"] = "ipHandler" /\ After["ipHandler"] = "settings"
  /\ After["settings"] = "start" /\ After["start"] = "finish"
  BY DEF After

LEMMA QueueType ==
  ASSUME ring \in Seq(RingEvents), Len(ring) <= Capacity,
         NEW event \in RingEvents, Queue(event)
  PROVE  ring' \in Seq(RingEvents) /\ Len(ring') <= Capacity
<1>1. CASE Len(ring) < Capacity
  <2>1. ring' = Append(ring, event)
    BY <1>1 DEF Queue
  <2>2. /\ Append(ring, event) \in Seq(RingEvents)
        /\ Len(Append(ring, event)) = Len(ring) + 1
        /\ Len(ring) \in Nat
    BY AppendProperties, LenProperties
  <2>3. QED
    BY <1>1, <2>1, <2>2, WifiAssumption
<1>2. CASE ~(Len(ring) < Capacity)
  BY <1>2 DEF Queue
<1>3. QED
  BY <1>1, <1>2

LEMMA RadioTypes ==
  ASSUME NEW r \in Radios
  PROVE  /\ r.mode \in {"sta", "apsta", "left"} /\ r.list \in 0 .. MaxResults
         /\ r.station \in Stations
         /\ \A b \in BOOLEAN : /\ [r EXCEPT !.started = b] \in Radios
                                /\ [r EXCEPT !.scan = b] \in Radios
                                /\ [r EXCEPT !.leased = b] \in Radios
         /\ \A m \in {"sta", "apsta", "left"} : [r EXCEPT !.mode = m] \in Radios
         /\ \A s \in Stations : /\ [r EXCEPT !.station = s] \in Radios
                                /\ [r EXCEPT !.station = s, !.leased = TRUE] \in Radios
         /\ \A n \in 0 .. MaxResults : /\ [r EXCEPT !.list = n] \in Radios
                                       /\ [r EXCEPT !.scan = FALSE, !.list = n] \in Radios
         /\ [r EXCEPT !.started = FALSE, !.station = "idle", !.scan = FALSE] \in Radios
<1>1. /\ r.mode \in {"sta", "apsta", "left"} /\ r.list \in 0 .. MaxResults
      /\ r.station \in Stations
  BY DEF Radios
<1>2. ASSUME NEW b \in BOOLEAN
      PROVE  /\ [r EXCEPT !.started = b] \in Radios
             /\ [r EXCEPT !.scan = b] \in Radios
             /\ [r EXCEPT !.leased = b] \in Radios
  BY Zenon DEF Radios
<1>3. ASSUME NEW m \in {"sta", "apsta", "left"}
      PROVE  [r EXCEPT !.mode = m] \in Radios
  BY DEF Radios
<1>4. ASSUME NEW s \in Stations
      PROVE  /\ [r EXCEPT !.station = s] \in Radios
             /\ [r EXCEPT !.station = s, !.leased = TRUE] \in Radios
  BY DEF Radios
<1>5. ASSUME NEW n \in 0 .. MaxResults
      PROVE  /\ [r EXCEPT !.list = n] \in Radios
             /\ [r EXCEPT !.scan = FALSE, !.list = n] \in Radios
  BY DEF Radios
<1>6. [r EXCEPT !.started = FALSE, !.station = "idle", !.scan = FALSE] \in Radios
  BY DEF Radios, Stations
<1>7. QED
  BY <1>1, <1>2, <1>3, <1>4, <1>5, <1>6

LEMMA OffType == Off \in Radios
  BY WifiAssumption DEF Off, Radios, Stations

LEMMA EmptyRing == <<>> \in Seq(RingEvents) /\ Len(<<>>) <= Capacity
  BY EmptySeq, WifiAssumption

LEMMA HandledType ==
  ASSUME posted \in Seq(Postings), NEW kind, Handles(kind)
  PROVE  posted' \in Seq(Postings)
  BY PostedTail DEF Handles

LEMMA LinkType ==
  ASSUME ring \in Seq(RingEvents), Len(ring) <= Capacity,
         NEW status \in LinkStates, QueueLink(status)
  PROVE  /\ ring' \in Seq(RingEvents) /\ Len(ring') <= Capacity
         /\ link' \in LinkStates
  BY QueueType DEF QueueLink, RingEvents

LEMMA PostedEvent ==
  ASSUME posted \in Seq(Postings), NEW kind \in WifiKinds \cup IpKinds,
         kind # "gone", Posts(Event(kind))
  PROVE  posted' \in Seq(Postings)
  BY PostingTypes, AppendProperties DEF Posts

\* No call, event or step of the driver gives a variable a value outside its
\* type, or leaves more events in the ring than it holds.
THEOREM TypeCorrect == Spec => []TypeOK
<1>1. Init => TypeOK
  <2>1. <<>> \in Seq(Postings) /\ Idle \in Handlers
    BY EmptySeq, WifiAssumption DEF Idle, Handlers
  <2>2. QED
    BY <2>1, OffType, EmptyRing DEF Init, TypeOK, AppSteps, LinkStates
<1>2. TypeOK /\ [Next]_vars => TypeOK'
  <2> SUFFICES ASSUME TypeOK, [Next]_vars
               PROVE  TypeOK'
    OBVIOUS
  <2> USE DEF TypeOK
  <2>1. CASE Initialize
    BY <2>1, InitStepNames DEF Initialize, AppSteps, Goto, Resources
  <2>2. CASE InitStep
    BY <2>2, InitStepNames, RadioTypes DEF InitStep, AppSteps, Goto, moduleVars
  <2>3. CASE InitFails
    BY <2>3, InitStepNames DEF InitFails, AppSteps, Goto, moduleVars, Mishaps
  <2>4. CASE InitFinish
    BY <2>4, PostedOvertake, EmptyRing DEF InitFinish, AppSteps, Goto, Causes, LinkStates
  <2>5. CASE Deinitialize
    BY <2>5, PostedStop, RadioTypes DEF Deinitialize, AppSteps, Goto, moduleVars
  <2>6. CASE Unregister
    BY <2>6 DEF Unregister, AppSteps, Goto, moduleVars
  <2>7. CASE DeinitFinish
    BY <2>7, OffType, EmptyRing DEF DeinitFinish, AppSteps, Goto, LinkStates
  <2>8. CASE DeinitFails
    BY <2>8 DEF DeinitFails, AppSteps, Goto, moduleVars
  <2>9. CASE StartScan
    BY <2>9, RadioTypes DEF StartScan, AppSteps, Goto, moduleVars
  <2>10. CASE ScanFlag
    BY <2>10 DEF ScanFlag, AppSteps, Goto, moduleVars
  <2>11. CASE Connect
    BY <2>11, PostedOvertake DEF Connect, AppSteps, Goto, moduleVars, Causes
  <2>12. CASE ConnectLink
    BY <2>12 DEF ConnectLink, AppSteps, Goto, moduleVars, LinkStates
  <2>13. CASE ConnectCall
    <3>1. radio' \in Radios
      <4> DEFINE s == IF radio.station = "idle" THEN "connecting" ELSE radio.station
      <4>1. s \in Stations
        BY RadioTypes DEF Stations
      <4>2. radio' \in {[radio EXCEPT !.station = s], radio}
        BY <2>13 DEF ConnectCall
      <4> HIDE DEF s
      <4>3. [radio EXCEPT !.station = s] \in Radios
        BY <4>1, RadioTypes
      <4>4. QED
        BY <4>2, <4>3
    <3>2. app' \in AppSteps /\ UNCHANGED <<moduleVars, handler, posted, mishaps>>
      BY <2>13 DEF ConnectCall, AppSteps, Goto
    <3>3. QED
      BY <3>1, <3>2 DEF moduleVars
  <2>14. CASE Disconnect
    BY <2>14, PostedOvertake DEF Disconnect, AppSteps, Goto, moduleVars, Causes, Mishaps
  <2>15. CASE DisconnectCall
    BY <2>15, RadioTypes, PostingTypes, PostOther DEF DisconnectCall, AppSteps, Goto,
       moduleVars, Causes, Stations
  <2>16. CASE DisconnectFails
    BY <2>16, PostedOvertake DEF DisconnectFails, AppSteps, Goto, moduleVars, Causes
  <2>17. CASE StartAccessPoint
    BY <2>17, RadioTypes DEF StartAccessPoint, AppSteps, Goto, moduleVars
  <2>18. CASE StartAccessPointFails
    <3>1. PICK mode \in {"sta", "left", radio.mode} : radio' = [radio EXCEPT !.mode = mode]
      BY <2>18 DEF StartAccessPointFails
    <3>2. mode \in {"sta", "apsta", "left"}
      BY RadioTypes
    <3>3. [radio EXCEPT !.mode = mode] \in Radios
      BY <3>2, RadioTypes
    <3>4. QED
      BY <2>18, <3>1, <3>3 DEF StartAccessPointFails, moduleVars
  <2>19. CASE StopAccessPoint
    <3>1. [radio EXCEPT !.mode = "sta"] \in Radios
      BY RadioTypes
    <3>2. QED
      BY <2>19, <3>1 DEF StopAccessPoint
  <2>20. CASE TakeEvent
    <3>1. ring' \in Seq(RingEvents) /\ Len(ring') = Len(ring) - 1
      BY <2>20, HeadTailProperties DEF TakeEvent
    <3>2. Len(ring') <= Capacity
      BY <3>1, LenProperties, WifiAssumption
    <3>3. QED
      BY <2>20, <3>1, <3>2 DEF TakeEvent
  <2>21. CASE Discard
    BY <2>21, HandledType DEF Discard, AppSteps, Goto, moduleVars
  <2>22. CASE HandleScanDone
    <3>1. radio.list \in 0 .. MaxResults
      BY RadioTypes
    <3>2. 0 \in 0 .. MaxResults
      BY WifiAssumption
    <3>3. handler' \in Handlers
      BY <2>22, <3>1, <3>2 DEF HandleScanDone, Handlers
    <3>4. QED
      BY <2>22, <3>3, HandledType DEF HandleScanDone, moduleVars
  <2>23. CASE ReadResult
    <3>1. handler.left \in 0 .. MaxResults /\ handler.left > 0
      BY <2>23 DEF ReadResult, Handlers
    <3>2. /\ [handler EXCEPT !.left = @ - 1] \in Handlers
          /\ [handler EXCEPT !.left = 0] \in Handlers
      BY <3>1, WifiAssumption DEF Handlers
    <3>3. [radio EXCEPT !.list = IF @ = 0 THEN 0 ELSE @ - 1] \in Radios
      <4> DEFINE n == IF radio.list = 0 THEN 0 ELSE radio.list - 1
      <4>1. n \in 0 .. MaxResults
        <5>1. radio.list \in 0 .. MaxResults
          BY RadioTypes
        <5>2. QED
          BY <5>1, WifiAssumption
      <4>2. [radio EXCEPT !.list = n] \in Radios
        BY <4>1, RadioTypes
      <4>3. QED
        BY <4>2
    <3>4. CASE Queue("result")
      <4>1. ring' \in Seq(RingEvents) /\ Len(ring') <= Capacity
        BY <3>4, QueueType DEF RingEvents
      <4>2. handler' \in Handlers /\ radio' \in Radios
        BY <2>23, <3>2, <3>3 DEF ReadResult
      <4>3. QED
        BY <2>23, <4>1, <4>2 DEF ReadResult
    <3>5. CASE UNCHANGED <<ring, radio>>
      BY <2>23, <3>2, <3>5 DEF ReadResult
    <3>6. QED
      BY <2>23, <3>4, <3>5 DEF ReadResult
  <2>24. CASE ClearList
    BY <2>24, RadioTypes, WifiAssumption DEF ClearList, AppSteps, Goto, moduleVars, Handlers
  <2>25. CASE ClearFlag
    BY <2>25 DEF ClearFlag, AppSteps, Goto, moduleVars, Handlers, Mishaps
  <2>26. CASE QueueComplete
    BY <2>26, QueueType, WifiAssumption DEF QueueComplete, AppSteps, Goto, moduleVars,
       Handlers, Idle, RingEvents
  <2>27. CASE HandleJoined
    BY <2>27, HandledType, LinkType DEF HandleJoined, AppSteps, Goto, moduleVars, LinkStates
  <2>28. CASE HandleGone
    BY <2>28, HandledType, LinkType DEF HandleGone, AppSteps, Goto, moduleVars, LinkStates
  <2>29. CASE HandleStopped
    BY <2>29, HandledType, LinkType DEF HandleStopped, AppSteps, Goto, moduleVars, LinkStates
  <2>30. CASE HandleIp
    BY <2>30, HandledType, LinkType DEF HandleIp, AppSteps, Goto, moduleVars, LinkStates
  <2>31. CASE ScanEnds
    BY <2>31, RadioTypes, PostedEvent DEF ScanEnds, AppSteps, Goto, moduleVars, WifiKinds
  <2>32. CASE Joins
    BY <2>32, RadioTypes, PostedEvent DEF Joins, AppSteps, Goto, moduleVars, WifiKinds,
       Stations
  <2>33. CASE GetsAddress
    BY <2>33, RadioTypes, PostedEvent DEF GetsAddress, AppSteps, Goto, moduleVars, IpKinds,
       Stations
  <2>34. CASE IsLost
    BY <2>34, RadioTypes, PostingTypes, AppendProperties DEF IsLost, AppSteps, Goto,
       moduleVars, Causes, Posts, Stations
  <2>35. CASE LosesAddress
    BY <2>35, RadioTypes DEF LosesAddress, AppSteps, Goto, moduleVars, Stations
  <2>36. CASE LeaseEnds
    BY <2>36, RadioTypes, PostedEvent DEF LeaseEnds, AppSteps, Goto, moduleVars, IpKinds
  <2>37. CASE UNCHANGED vars
    BY <2>37 DEF vars, moduleVars
  <2>38. QED
    BY <2>1, <2>2, <2>3, <2>4, <2>5, <2>6, <2>7, <2>8, <2>9, <2>10, <2>11, <2>12, <2>13,
       <2>14, <2>15, <2>16, <2>17, <2>18, <2>19, <2>20, <2>21, <2>22, <2>23, <2>24, <2>25,
       <2>26, <2>27, <2>28, <2>29, <2>30, <2>31, <2>32, <2>33, <2>34, <2>35, <2>36, <2>37
       DEF Next, OwnerStep, HandlerStep, RadioStep
<1>3. QED
  BY <1>1, <1>2, PTL DEF Spec

----------------------------------------------------------------------------
(* The inductive invariant. *)

\* A scan is going on, or its end is posted, or its results are being read.
Pending == ScanDones(posted) # {}
Handling == handler.at \in {"read", "flag"}
Busy == radio.scan \/ Pending \/ Handling

\* start_scan has been called, and the flag is set or about to be.
Claimed == scanActive \/ app = "scanFlag"

\* Where initialize is, where it has registered the handler of the WiFi events,
\* and where deinitialize is.
InitApps == {"ap", "driver", "wifiHandler", "ipHandler", "settings", "start", "finish"}
HandlerApps == {"ipHandler", "settings", "start", "finish"}
DeinitApps == {"unregisterIp", "unregisterWifi", "deinit"}

\* There is one scan at a time, and none that start_scan has not claimed.  The
\* claim is given back by the handler, which stays registered while the driver
\* is started.
ScanInv ==
  /\ AtMostOne(ScanDones(posted))
  /\ radio.scan => ~Pending /\ ~Handling
  /\ Pending => ~Handling
  /\ Busy => Claimed
  /\ Claimed => Busy \/ "early" \in mishaps
  /\ Claimed => initialized /\ radio.started
  /\ radio.started => "wifiHandler" \in held
  /\ app = "scanFlag" => ~scanActive
  /\ app \in InitApps => ~initialized
  /\ app \in HandlerApps => "wifiHandler" \in held
  /\ app \in DeinitApps => ~scanActive /\ ~radio.started

LEMMA PendingIsPosted == IsPosted("scanDone") <=> Pending
  BY DEF IsPosted, Pending, ScanDones

LEMMA HandledOther ==
  ASSUME posted \in Seq(Postings), NEW kind, Handles(kind), kind # "scanDone"
  PROVE  /\ Pending' <=> Pending
         /\ AtMostOne(ScanDones(posted)) => AtMostOne(ScanDones(posted'))
  BY PostedTail DEF Handles, Pending

LEMMA HandledScanDone ==
  ASSUME posted \in Seq(Postings), Handles("scanDone"),
         AtMostOne(ScanDones(posted))
  PROVE  Pending /\ ~Pending' /\ AtMostOne(ScanDones(posted'))
  BY PostedTail DEF Handles, Pending, AtMostOne

LEMMA PostedOther ==
  ASSUME posted \in Seq(Postings), NEW event \in Postings,
         event.kind # "scanDone", posted' = Append(posted, event)
  PROVE  ScanDones(posted') = ScanDones(posted)
  BY PostOther

LEMMA ScanStep ==
  ASSUME TypeOK, ScanInv, [Next]_vars
  PROVE  ScanInv'
<1>0. posted \in Seq(Postings) /\ radio \in Radios /\ handler \in Handlers
  BY DEF TypeOK
<1>1. CASE Initialize
  BY <1>0, <1>1
     DEF Initialize, ScanInv, Pending, Handling, Busy, Claimed, InitApps, HandlerApps,
         DeinitApps, Goto
<1>2. CASE InitStep
  <2>1. radio'.scan = radio.scan /\ (radio'.started => radio.started \/ app = "start")
    BY <1>0, <1>2, InitStepNames DEF InitStep, Radios
  <2>2. /\ app \in InitApps /\ app' \in InitApps
        /\ "wifiHandler" \in held => "wifiHandler" \in held'
        /\ app' \in HandlerApps => app \in HandlerApps \cup {"wifiHandler"}
        /\ app = "start" => app \in HandlerApps
    BY <1>2, InitStepNames DEF InitStep, Goto, InitApps, HandlerApps
  <2>3. app = "wifiHandler" => "wifiHandler" \in held'
    BY <1>2 DEF InitStep, Resources
  <2>4. /\ app' # "scanFlag" /\ app # "scanFlag" /\ app' \notin DeinitApps
    BY <2>2 DEF InitApps, DeinitApps
  <2>5. /\ UNCHANGED <<initialized, scanActive, handler, posted, mishaps>>
    BY <1>2 DEF InitStep
  <2>6. QED
    BY <2>1, <2>2, <2>3, <2>4, <2>5 DEF ScanInv, Pending, Handling, Busy, Claimed
<1>3. CASE InitFails
  BY <1>0, <1>3, InitStepNames
     DEF InitFails, ScanInv, Pending, Handling, Busy, Claimed, InitApps, HandlerApps,
         DeinitApps, Goto
<1>4. CASE InitFinish
  BY <1>0, <1>4, PostedOvertake
     DEF InitFinish, ScanInv, Pending, Handling, Busy, Claimed, InitApps, HandlerApps,
         DeinitApps, Goto, Causes
<1>5. CASE Deinitialize
  BY <1>0, <1>5, PostedStop
     DEF Deinitialize, ScanInv, Pending, Handling, Busy, Claimed, InitApps, HandlerApps,
         DeinitApps, Goto, Radios, MayStop, moduleVars
<1>6. CASE Unregister
  BY <1>0, <1>6
     DEF Unregister, ScanInv, Pending, Handling, Busy, Claimed, InitApps, HandlerApps,
         DeinitApps, Goto
<1>7. CASE DeinitFinish
  BY <1>0, <1>7
     DEF DeinitFinish, ScanInv, Pending, Handling, Busy, Claimed, InitApps, HandlerApps,
         DeinitApps, Goto, Off
<1>8. CASE DeinitFails
  BY <1>0, <1>8
     DEF DeinitFails, ScanInv, Pending, Handling, Busy, Claimed, InitApps, HandlerApps,
         DeinitApps, Goto, moduleVars
<1>9. CASE StartScan
  BY <1>0, <1>9
     DEF StartScan, ScanInv, Pending, Handling, Busy, Claimed, InitApps, HandlerApps,
         DeinitApps, Goto, Radios, moduleVars
<1>10. CASE ScanFlag
  BY <1>0, <1>10
     DEF ScanFlag, ScanInv, Pending, Handling, Busy, Claimed, InitApps, HandlerApps,
         DeinitApps, Goto
<1>11. CASE Connect
  BY <1>0, <1>11, PostedOvertake
     DEF Connect, ScanInv, Pending, Handling, Busy, Claimed, InitApps, HandlerApps,
         DeinitApps, Goto, Causes
<1>12. CASE ConnectLink
  BY <1>0, <1>12
     DEF ConnectLink, ScanInv, Pending, Handling, Busy, Claimed, InitApps, HandlerApps,
         DeinitApps, Goto
<1>13. CASE ConnectCall
  BY <1>0, <1>13
     DEF ConnectCall, ScanInv, Pending, Handling, Busy, Claimed, InitApps, HandlerApps,
         DeinitApps, Goto, Radios, moduleVars
<1>14. CASE Disconnect
  BY <1>0, <1>14, PostedOvertake
     DEF Disconnect, ScanInv, Pending, Handling, Busy, Claimed, InitApps, HandlerApps,
         DeinitApps, Goto, Causes
<1>15. CASE DisconnectCall
  <2>1. ScanDones(posted') = ScanDones(posted)
    BY <1>0, <1>15, PostingTypes, PostedOther DEF DisconnectCall, Causes
  <2>2. radio'.scan = radio.scan /\ radio'.started = radio.started
    BY <1>0, <1>15 DEF DisconnectCall, Radios
  <2>3. /\ app = "disconnect" /\ app' = "run"
        /\ "early" \in mishaps => "early" \in mishaps'
        /\ UNCHANGED <<moduleVars, handler>>
    BY <1>15 DEF DisconnectCall, Goto
  <2>4. QED
    BY <2>1, <2>2, <2>3 DEF ScanInv, Pending, Handling, Busy, Claimed, moduleVars,
       InitApps, HandlerApps, DeinitApps
<1>16. CASE DisconnectFails
  BY <1>0, <1>16, PostedOvertake
     DEF DisconnectFails, ScanInv, Pending, Handling, Busy, Claimed, InitApps, HandlerApps,
         DeinitApps, Goto, Causes
<1>17. CASE StartAccessPoint
  BY <1>0, <1>17
     DEF StartAccessPoint, ScanInv, Pending, Handling, Busy, Claimed, InitApps, HandlerApps,
         DeinitApps, Goto, Radios
<1>18. CASE StartAccessPointFails
  BY <1>0, <1>18
     DEF StartAccessPointFails, ScanInv, Pending, Handling, Busy, Claimed, InitApps,
         HandlerApps, DeinitApps, Goto, Radios, moduleVars
<1>19. CASE StopAccessPoint
  BY <1>0, <1>19
     DEF StopAccessPoint, ScanInv, Pending, Handling, Busy, Claimed, InitApps, HandlerApps,
         DeinitApps, Goto, Radios
<1>20. CASE TakeEvent
  BY <1>0, <1>20
     DEF TakeEvent, ScanInv, Pending, Handling, Busy, Claimed, InitApps, HandlerApps,
         DeinitApps, Goto
<1>21. CASE Discard
  <2>1. PICK kind \in WifiKinds \cup IpKinds : Handles(kind) /\ ~Registered(kind)
    BY <1>21 DEF Discard
  <2>2. kind # "scanDone"
    <3> SUFFICES ASSUME kind = "scanDone"
                 PROVE  FALSE
      OBVIOUS
    <3>1. Pending
      BY <1>0, <2>1, HandledScanDone DEF ScanInv
    <3>2. "wifiHandler" \in held
      BY <3>1 DEF ScanInv, Busy
    <3>3. QED
      BY <2>1, <3>2 DEF Registered, WifiKinds
  <2>3. QED
    BY <1>0, <1>21, <2>1, <2>2, HandledOther
       DEF Discard, ScanInv, Handling, Busy, Claimed, moduleVars
<1>22. CASE HandleScanDone
  BY <1>0, <1>22, HandledScanDone
     DEF HandleScanDone, ScanInv, Pending, Handling, Busy, Claimed, InitApps, HandlerApps,
         DeinitApps, Goto, moduleVars
<1>23. CASE ReadResult
  BY <1>0, <1>23
     DEF ReadResult, ScanInv, Pending, Handling, Busy, Claimed, InitApps, HandlerApps,
         DeinitApps, Goto, Radios, Handlers
<1>24. CASE ClearList
  BY <1>0, <1>24
     DEF ClearList, ScanInv, Pending, Handling, Busy, Claimed, InitApps, HandlerApps,
         DeinitApps, Goto, Radios, Handlers, moduleVars
<1>25. CASE ClearFlag
  BY <1>0, <1>25
     DEF ClearFlag, ScanInv, Pending, Handling, Busy, Claimed, InitApps, HandlerApps,
         DeinitApps, Goto, Handlers
<1>26. CASE QueueComplete
  BY <1>0, <1>26
     DEF QueueComplete, ScanInv, Pending, Handling, Busy, Claimed, InitApps, HandlerApps,
         DeinitApps, Goto, Idle
<1>27. CASE HandleJoined
  BY <1>0, <1>27, HandledOther
     DEF HandleJoined, ScanInv, Pending, Handling, Busy, Claimed, InitApps, HandlerApps,
         DeinitApps, Goto
<1>28. CASE HandleGone
  BY <1>0, <1>28, HandledOther
     DEF HandleGone, ScanInv, Pending, Handling, Busy, Claimed, InitApps, HandlerApps,
         DeinitApps, Goto
<1>29. CASE HandleStopped
  BY <1>0, <1>29, HandledOther
     DEF HandleStopped, ScanInv, Pending, Handling, Busy, Claimed, InitApps, HandlerApps,
         DeinitApps, Goto
<1>30. CASE HandleIp
  BY <1>0, <1>30, HandledOther
     DEF HandleIp, ScanInv, Pending, Handling, Busy, Claimed, InitApps, HandlerApps,
         DeinitApps, Goto
<1>31. CASE ScanEnds
  <2>1. /\ radio.scan /\ ~radio'.scan
        /\ radio'.started = radio.started
    BY <1>0, <1>31 DEF ScanEnds, Radios
  <2>2. ~Pending /\ ~Handling
    BY <2>1 DEF ScanInv
  <2>3. ScanDones(posted') = {Len(posted) + 1}
    BY <1>0, <1>31, <2>2, PostScanDone DEF ScanEnds, Posts, Pending
  <2>4. Pending' /\ AtMostOne(ScanDones(posted'))
    BY <2>3 DEF Pending, AtMostOne
  <2>5. QED
    BY <1>31, <2>1, <2>2, <2>4 DEF ScanEnds, ScanInv, Handling, Busy, Claimed, moduleVars
<1>32. CASE Joins
  BY <1>0, <1>32, PostingTypes, PostedOther
     DEF Joins, ScanInv, Pending, Handling, Busy, Claimed, InitApps, HandlerApps,
         DeinitApps, Goto, Radios, moduleVars, Posts, Event, WifiKinds, IpKinds
<1>33. CASE GetsAddress
  BY <1>0, <1>33, PostingTypes, PostedOther
     DEF GetsAddress, ScanInv, Pending, Handling, Busy, Claimed, InitApps, HandlerApps,
         DeinitApps, Goto, Radios, moduleVars, Posts, Event, WifiKinds, IpKinds
<1>34. CASE LeaseEnds
  BY <1>0, <1>34, PostingTypes, PostedOther
     DEF LeaseEnds, ScanInv, Pending, Handling, Busy, Claimed, InitApps, HandlerApps,
         DeinitApps, Goto, Radios, moduleVars, Posts, Event, WifiKinds, IpKinds
<1>35. CASE IsLost
  BY <1>0, <1>35, PostingTypes, PostedOther
     DEF IsLost, ScanInv, Pending, Handling, Busy, Claimed, InitApps, HandlerApps,
         DeinitApps, Goto, Radios, moduleVars, Posts, Gone, Causes
<1>36. CASE LosesAddress
  BY <1>0, <1>36
     DEF LosesAddress, ScanInv, Pending, Handling, Busy, Claimed, InitApps, HandlerApps,
         DeinitApps, Goto, Radios, moduleVars
<1>37. CASE UNCHANGED vars
  BY <1>37 DEF vars, moduleVars, ScanInv, Pending, Handling, Busy, Claimed
<1>38. QED
  BY <1>1, <1>2, <1>3, <1>4, <1>5, <1>6, <1>7, <1>8, <1>9, <1>10, <1>11, <1>12, <1>13,
     <1>14, <1>15, <1>16, <1>17, <1>18, <1>19, <1>20, <1>21, <1>22, <1>23, <1>24, <1>25,
     <1>26, <1>27, <1>28, <1>29, <1>30, <1>31, <1>32, <1>33, <1>34, <1>35, <1>36, <1>37
     DEF Next, OwnerStep, HandlerStep, RadioStep

LEMMA ScanInitially == Init => ScanInv
<1> SUFFICES ASSUME Init
             PROVE  ScanInv
  OBVIOUS
<1>1. ScanDones(posted) = {}
  BY DEF Init, ScanDones
<1>2. ~radio.scan /\ ~radio.started
  BY DEF Init, Off
<1>3. QED
  BY <1>1, <1>2 DEF Init, ScanInv, AtMostOne, Pending, Handling, Busy, Claimed, Idle,
     InitApps, HandlerApps, DeinitApps

LEMMA ScanInvariant == Spec => []ScanInv
<1>1. TypeOK /\ ScanInv /\ [Next]_vars => ScanInv'
  BY ScanStep
<1>2. QED
  BY <1>1, ScanInitially, TypeCorrect, PTL DEF Spec

----------------------------------------------------------------------------
(* The properties. *)

\* The scan flag is set only while a scan goes on, or its end is still to be
\* handled, unless the scan ended before start_scan could set the flag.
THEOREM ScanFlagIsHonest == Spec => []ScanFlagHonest
<1>1. ScanInv => ScanFlagHonest
  BY PendingIsPosted DEF ScanInv, Busy, Handling, Claimed, ScanFlagHonest
<1>2. QED
  BY <1>1, ScanInvariant, PTL

\* The handler reads the results of a scan only while no other scan runs.
THEOREM ResultsAreOfOneScan == Spec => []ResultsOfOneScan
<1>1. ScanInv => ResultsOfOneScan
  BY DEF ScanInv, Handling, ResultsOfOneScan
<1>2. QED
  BY <1>1, ScanInvariant, PTL

----------------------------------------------------------------------------
(* What is left while WiFi is off, and the access point. *)

\* Where the owner is in a call of a module that is initialised.
CallApps == {"scanFlag", "connectLink", "connect", "disconnect"} \cup DeinitApps

Quiet == ring = <<>> /\ link = "down" /\ ~apActive

\* Initialisation starts from nothing, the two handlers are registered in one order
\* and given back in the other, and nothing is handled without one.  After a failure
\* half way no other initialisation starts.  The mode without an access point is
\* set before initialize ends.
OffInv ==
  /\ app \in CallApps => initialized
  /\ app \in InitApps => ~initialized /\ "sta" \in held
  /\ "unfinished" \in mishaps => app = "run" /\ ~initialized /\ "sta" \in held
  /\ handler # Idle => "wifiHandler" \in held
  /\ "ipHandler" \in held => "wifiHandler" \in held
  /\ app \in {"ap", "driver", "wifiHandler"} => "wifiHandler" \notin held /\ link = "down"
  /\ app = "ap" => held = {"sta"} /\ Quiet
  /\ app = "run" /\ ~initialized /\ "unfinished" \notin mishaps => held = {} /\ Quiet
  /\ app = "unregisterWifi" => "ipHandler" \notin held
  /\ app = "deinit" => "wifiHandler" \notin held
  /\ app \in {"start", "finish"} => radio.mode = "sta"
  /\ initialized /\ radio.mode = "apsta" => apActive

----------------------------------------------------------------------------
(* The station and what is posted of it. *)

Ends == {"gone", "stopped"}
OnAir == radio.station \in {"joined", "up"}

HasEnd(s) == \E i \in DOMAIN s : s[i].kind \in Ends
HasGone(s) == \E i \in DOMAIN s : s[i].kind = "gone"
HasCause(s, cause) == \E i \in DOMAIN s : s[i].cause = cause

\* After an event that says the station is joined comes one that says it is not,
\* unless it is.
Promised(s, onAir) ==
  \A i \in DOMAIN s :
    s[i].kind \in {"joined", "gotIp"} =>
      onAir \/ \E j \in DOMAIN s : j > i /\ s[j].kind \in Ends

\* No connection ends before one that the program ended.
AskedFirst(s) ==
  \A i, j \in DOMAIN s : s[i].cause = "asked" /\ j < i => s[j].kind # "gone"

StationInv ==
  /\ radio.station # "idle" => radio.started
  /\ app \in {"connectLink", "connect"} => radio.started
  /\ Promised(posted, OnAir)
  /\ link \in {"joined", "up"} /\ "wifiHandler" \in held => OnAir \/ HasEnd(posted)

\* The flag of disconnect is set while the event it is for is waiting, and clear
\* while one is waiting that it is not for.
CauseInv ==
  /\ explicit /\ app # "disconnect" => radio.station = "idle"
  /\ app \in {"connectLink", "connect"} => ~explicit
  /\ app = "disconnect" /\ "overlap" \notin mishaps /\ radio.station # "idle" =>
       explicit /\ ~HasGone(posted)
  /\ HasCause(posted, "lost") => ~explicit
  /\ HasCause(posted, "asked") => explicit
  /\ AskedFirst(posted)

\* The same of a sequence with one event more.
LEMMA OneMore ==
  ASSUME NEW s \in Seq(Postings), NEW e \in Postings, NEW onAir \in BOOLEAN
  PROVE  /\ HasEnd(Append(s, e)) <=> HasEnd(s) \/ e.kind \in Ends
         /\ HasGone(Append(s, e)) <=> HasGone(s) \/ e.kind = "gone"
         /\ \A c \in Causes : HasCause(Append(s, e), c) <=> HasCause(s, c) \/ e.cause = c
         /\ AskedFirst(s) /\ (e.cause = "asked" => ~HasGone(s)) => AskedFirst(Append(s, e))
         /\ e.kind \in Ends => Promised(Append(s, e), onAir)
         /\ Promised(s, onAir) /\ (e.kind \in {"joined", "gotIp"} => onAir) =>
              Promised(Append(s, e), onAir)
<1> DEFINE t == Append(s, e)
<1>1. /\ Len(s) \in Nat
      /\ DOMAIN s = 1 .. Len(s) /\ DOMAIN t = 1 .. Len(s) + 1
      /\ \A i \in 1 .. Len(s) : t[i] = s[i]
      /\ t[Len(s) + 1] = e
  BY AppendProperties, LenProperties
<1> HIDE DEF t
<1>2. HasEnd(t) <=> HasEnd(s) \/ e.kind \in Ends
  BY <1>1 DEF HasEnd
<1>3. HasGone(t) <=> HasGone(s) \/ e.kind = "gone"
  BY <1>1 DEF HasGone
<1>4. \A c \in Causes : HasCause(t, c) <=> HasCause(s, c) \/ e.cause = c
  BY <1>1 DEF HasCause
<1>5. ASSUME AskedFirst(s), e.cause = "asked" => ~HasGone(s)
      PROVE  AskedFirst(t)
  BY <1>1, <1>5 DEF AskedFirst, HasGone
<1>6. ASSUME e.kind \in Ends
      PROVE  Promised(t, onAir)
  <2> SUFFICES ASSUME NEW i \in DOMAIN t, t[i].kind \in {"joined", "gotIp"}
               PROVE  \E j \in DOMAIN t : j > i /\ t[j].kind \in Ends
    BY DEF Promised
  <2>1. i # Len(s) + 1
    BY <1>1, <1>6 DEF Ends
  <2>2. Len(s) + 1 \in DOMAIN t /\ Len(s) + 1 > i /\ t[Len(s) + 1].kind \in Ends
    BY <1>1, <1>6, <2>1
  <2> QED
    BY <2>2
<1>7. ASSUME Promised(s, onAir), e.kind \in {"joined", "gotIp"} => onAir
      PROVE  Promised(t, onAir)
  <2> SUFFICES ASSUME NEW i \in DOMAIN t, t[i].kind \in {"joined", "gotIp"}, ~onAir
               PROVE  \E j \in DOMAIN t : j > i /\ t[j].kind \in Ends
    BY DEF Promised
  <2>1. i \in DOMAIN s /\ s[i] = t[i]
    BY <1>1, <1>7
  <2>2. PICK j \in DOMAIN s : j > i /\ s[j].kind \in Ends
    BY <1>7, <2>1 DEF Promised
  <2>3. j \in DOMAIN t /\ t[j] = s[j]
    BY <1>1
  <2> QED
    BY <2>2, <2>3
<1> QED
  BY <1>2, <1>3, <1>4, <1>5, <1>6, <1>7 DEF t

\* And of one whose first event is handled.
LEMMA OneLess ==
  ASSUME NEW s \in Seq(Postings), s # <<>>, NEW onAir \in BOOLEAN
  PROVE  /\ HasEnd(s) /\ Head(s).kind \notin Ends => HasEnd(Tail(s))
         /\ HasGone(Tail(s)) => HasGone(s)
         /\ Head(s).kind = "gone" => HasGone(s)
         /\ \A c \in Causes : /\ HasCause(Tail(s), c) => HasCause(s, c)
                              /\ Head(s).cause = c => HasCause(s, c)
         /\ AskedFirst(s) => AskedFirst(Tail(s))
         /\ AskedFirst(s) /\ Head(s).kind = "gone" => ~HasCause(Tail(s), "asked")
         /\ Promised(s, onAir) => Promised(Tail(s), onAir)
         /\ Promised(s, onAir) /\ Head(s).kind \in {"joined", "gotIp"} =>
              onAir \/ HasEnd(Tail(s))
<1> DEFINE t == Tail(s)
<1>1. /\ Len(s) \in Nat \ {0}
      /\ DOMAIN s = 1 .. Len(s) /\ DOMAIN t = 1 .. Len(s) - 1
      /\ \A i \in 1 .. Len(s) - 1 : t[i] = s[i + 1]
      /\ Head(s) = s[1]
  BY HeadTailProperties, LenProperties, EmptySeq
<1> HIDE DEF t
<1>2. /\ \A i \in DOMAIN t : i \in Nat /\ i + 1 \in DOMAIN s /\ s[i + 1] = t[i]
      /\ \A i \in DOMAIN s : i = 1 \/ (i > 1 /\ i - 1 \in DOMAIN t /\ t[i - 1] = s[i])
      /\ 1 \in DOMAIN s
  BY <1>1
<1>3. HasEnd(s) /\ Head(s).kind \notin Ends => HasEnd(t)
  BY <1>1, <1>2 DEF HasEnd
<1>4. (HasGone(t) => HasGone(s)) /\ (Head(s).kind = "gone" => HasGone(s))
  BY <1>1, <1>2 DEF HasGone
<1>5. \A c \in Causes : /\ HasCause(t, c) => HasCause(s, c)
                        /\ Head(s).cause = c => HasCause(s, c)
  BY <1>1, <1>2 DEF HasCause
<1>6. ASSUME AskedFirst(s)
      PROVE  AskedFirst(t)
  <2> SUFFICES ASSUME NEW i \in DOMAIN t, NEW j \in DOMAIN t, t[i].cause = "asked", j < i
               PROVE  t[j].kind # "gone"
    BY DEF AskedFirst
  <2>1. i + 1 \in DOMAIN s /\ j + 1 \in DOMAIN s /\ j + 1 < i + 1
    BY <1>2
  <2>2. s[i + 1].cause = "asked" /\ s[j + 1] = t[j]
    BY <1>2
  <2> QED
    BY <1>6, <2>1, <2>2 DEF AskedFirst
<1>7. ASSUME AskedFirst(s), Head(s).kind = "gone", HasCause(t, "asked")
      PROVE  FALSE
  <2>1. PICK i \in DOMAIN t : t[i].cause = "asked"
    BY <1>7 DEF HasCause
  <2>2. i + 1 \in DOMAIN s /\ s[i + 1].cause = "asked" /\ 1 < i + 1
    BY <1>1, <1>2, <2>1
  <2> QED
    BY <1>1, <1>2, <1>7, <2>2 DEF AskedFirst
<1>8. ASSUME Promised(s, onAir)
      PROVE  Promised(t, onAir)
  <2> SUFFICES ASSUME NEW i \in DOMAIN t, t[i].kind \in {"joined", "gotIp"}, ~onAir
               PROVE  \E j \in DOMAIN t : j > i /\ t[j].kind \in Ends
    BY DEF Promised
  <2>1. i + 1 \in DOMAIN s /\ s[i + 1] = t[i] /\ i \in Nat
    BY <1>2
  <2>2. PICK j \in DOMAIN s : j > i + 1 /\ s[j].kind \in Ends
    BY <1>8, <2>1 DEF Promised
  <2>3. j - 1 \in DOMAIN t /\ t[j - 1] = s[j] /\ j - 1 > i
    BY <1>1, <1>2, <2>1, <2>2
  <2> QED
    BY <2>2, <2>3
<1>9. ASSUME Promised(s, onAir), Head(s).kind \in {"joined", "gotIp"}, ~onAir
      PROVE  HasEnd(t)
  <2>1. PICK j \in DOMAIN s : j > 1 /\ s[j].kind \in Ends
    BY <1>1, <1>2, <1>9 DEF Promised
  <2>2. j - 1 \in DOMAIN t /\ t[j - 1] = s[j]
    BY <1>1, <1>2, <2>1
  <2> QED
    BY <2>1, <2>2 DEF HasEnd
<1> QED
  BY <1>3, <1>4, <1>5, <1>6, <1>7, <1>8, <1>9 DEF t

\* And when some of them were overtaken.
LEMMA SomeOvertaken ==
  ASSUME posted \in Seq(Postings), NEW S \in SUBSET Causes, NEW onAir \in BOOLEAN
  PROVE  /\ HasEnd(Overtake(S)) <=> HasEnd(posted)
         /\ HasGone(Overtake(S)) <=> HasGone(posted)
         /\ \A c \in {"asked", "lost"} : /\ HasCause(Overtake(S), c) => HasCause(posted, c)
                                         /\ c \in S => ~HasCause(Overtake(S), c)
         /\ AskedFirst(posted) => AskedFirst(Overtake(S))
         /\ Promised(posted, onAir) => Promised(Overtake(S), onAir)
<1> DEFINE t == Overtake(S)
<1>0. /\ DOMAIN posted = 1 .. Len(posted) /\ Len(posted) \in Nat
      /\ \A i \in 1 .. Len(posted) : posted[i] \in Postings
  BY LenProperties, ElementOfSeq
<1>1. Gone("overtaken").kind = "gone" /\ Gone("overtaken").cause = "overtaken"
  BY DEF Gone
<1>2. /\ DOMAIN t = DOMAIN posted
      /\ \A i \in DOMAIN posted :
           t[i] = IF posted[i].cause \in S THEN Gone("overtaken") ELSE posted[i]
  BY DEF Overtake
<1> HIDE DEF t
<1>3. \A i \in DOMAIN posted : t[i].kind = posted[i].kind
  BY <1>0, <1>1, <1>2, PostingTypes
<1>4. \A i \in DOMAIN posted : \A c \in {"asked", "lost"} :
        t[i].cause = c => posted[i].cause = c /\ c \notin S
  BY <1>1, <1>2
<1>5. HasEnd(t) <=> HasEnd(posted)
  BY <1>2, <1>3 DEF HasEnd
<1>6. HasGone(t) <=> HasGone(posted)
  BY <1>2, <1>3 DEF HasGone
<1>7. \A c \in {"asked", "lost"} : /\ HasCause(t, c) => HasCause(posted, c)
                                   /\ c \in S => ~HasCause(t, c)
  BY <1>2, <1>4 DEF HasCause
<1>8. AskedFirst(posted) => AskedFirst(t)
  BY <1>2, <1>3, <1>4 DEF AskedFirst
<1>9. Promised(posted, onAir) => Promised(t, onAir)
  BY <1>2, <1>3 DEF Promised
<1> QED
  BY <1>5, <1>6, <1>7, <1>8, <1>9 DEF t

\* And when WiFi was stopped, with the station on the air only if it is started.
LEMMA AfterStop ==
  ASSUME posted \in Seq(Postings), radio.station # "idle" => radio.started
  PROVE  /\ HasEnd(posted) => HasEnd(posted \o StopEvents)
         /\ \A c \in {"asked", "lost"} :
              HasCause(posted \o StopEvents, c) <=> HasCause(posted, c)
         /\ AskedFirst(posted) => AskedFirst(posted \o StopEvents)
         /\ OnAir => HasEnd(posted \o StopEvents)
         /\ Promised(posted, OnAir) => Promised(posted \o StopEvents, FALSE)
<1> DEFINE gone == Gone("overtaken")
           stopped == Event("stopped")
           one == Append(posted, gone)
<1>1. /\ gone \in Postings /\ gone.kind = "gone" /\ gone.cause = "overtaken"
      /\ stopped \in Postings /\ stopped.kind = "stopped" /\ stopped.cause = "none"
  BY PostingTypes DEF Gone, Event, Causes, WifiKinds
<1>2. CASE ~radio.started
  <2>1. posted \o StopEvents = posted
    <3>1. StopEvents = <<>>
      BY <1>2 DEF StopEvents
    <3> QED
      BY <3>1, ConcatEmptySeq
  <2>2. ~OnAir
    BY <1>2 DEF OnAir
  <2> QED
    BY <2>1, <2>2 DEF Promised
<1>3. CASE radio.started /\ radio.station = "idle"
  <2>1. posted \o StopEvents = Append(posted, stopped)
    <3>1. StopEvents = <<>> \o <<stopped>>
      BY <1>3 DEF StopEvents
    <3> HIDE DEF stopped
    <3>2. StopEvents = <<stopped>>
      BY <3>1, <1>1
    <3> QED
      BY <3>2, <1>1, AppendIsConcat
  <2> HIDE DEF stopped
  <2>2. "asked" \in Causes /\ "lost" \in Causes /\ "stopped" \in Ends
    BY DEF Causes, Ends
  <2> DEFINE two == Append(posted, stopped)
  <2>3. HasEnd(two) /\ (AskedFirst(posted) => AskedFirst(two))
    BY <1>1, <2>2, OneMore
  <2>4. \A c \in {"asked", "lost"} : HasCause(two, c) <=> HasCause(posted, c)
    BY <1>1, <2>2, OneMore
  <2>5. Promised(two, FALSE)
    BY <1>1, <2>2, OneMore
  <2> QED
    BY <2>1, <2>3, <2>4, <2>5
<1>4. CASE radio.started /\ radio.station # "idle"
  <2>0. StopEvents = <<gone>> \o <<stopped>>
    BY <1>4 DEF StopEvents
  <2> HIDE DEF gone, stopped
  <2>1. posted \o StopEvents = Append(one, stopped)
    <3>1. posted \o (<<gone>> \o <<stopped>>) = (posted \o <<gone>>) \o <<stopped>>
      BY <1>1, ConcatAssociative
    <3>2. one \in Seq(Postings) /\ one = posted \o <<gone>>
      BY <1>1, AppendIsConcat, AppendProperties
    <3> QED
      BY <1>1, <2>0, <3>1, <3>2, AppendIsConcat
  <2>2. "asked" \in Causes /\ "lost" \in Causes /\ "stopped" \in Ends /\ "gone" \in Ends
    BY DEF Causes, Ends
  <2>3. one \in Seq(Postings)
    BY <1>1, AppendProperties
  <2>4. /\ HasEnd(one) /\ (AskedFirst(posted) => AskedFirst(one))
        /\ \A c \in {"asked", "lost"} : HasCause(one, c) <=> HasCause(posted, c)
    <3>1. HasEnd(one)
      BY <1>1, <2>2, OneMore
    <3>2. AskedFirst(posted) => AskedFirst(one)
      BY <1>1, <2>2, OneMore
    <3>3. ASSUME NEW c \in {"asked", "lost"}
          PROVE  HasCause(one, c) <=> HasCause(posted, c)
      <4>1. HasCause(one, c) <=> HasCause(posted, c) \/ gone.cause = c
        BY <1>1, <2>2, OneMore
      <4> QED
        BY <1>1, <4>1
    <3> QED
      BY <3>1, <3>2, <3>3
  <2> HIDE DEF one
  <2> DEFINE two == Append(one, stopped)
  <2>5. HasEnd(two) /\ (AskedFirst(one) => AskedFirst(two))
    BY <1>1, <2>2, <2>3, OneMore
  <2>6. \A c \in {"asked", "lost"} : HasCause(two, c) <=> HasCause(one, c)
    BY <1>1, <2>2, <2>3, OneMore
  <2>7. Promised(two, FALSE)
    BY <1>1, <2>2, <2>3, OneMore
  <2> QED
    BY <2>1, <2>4, <2>5, <2>6, <2>7
<1> QED
  BY <1>2, <1>3, <1>4

----------------------------------------------------------------------------
(* The steps. *)

\* OffInv is kept.
LEMMA OffStep ==
  ASSUME TypeOK, ScanInv, OffInv, [Next]_vars
  PROVE  OffInv'
<1>0. /\ radio \in Radios /\ held \subseteq Resources /\ app \in AppSteps
      /\ mishaps \subseteq Mishaps
  BY DEF TypeOK
<1>1. CASE Initialize
  BY <1>0, <1>1
    DEF Initialize, OffInv, Quiet, CallApps, DeinitApps, InitApps, Goto,
        moduleVars
<1>2. CASE InitStep
  <2>1. /\ app' = After[app] /\ app \in DOMAIN After
        /\ held' = held \cup (Resources \cap {app})
        /\ UNCHANGED <<initialized, apActive, link, ring, handler, mishaps>>
    BY <1>2 DEF InitStep, Goto
  <2>2. radio'.mode = IF app = "settings" THEN "sta" ELSE radio.mode
    BY <1>0, <1>2 DEF InitStep, Radios
  <2>3. /\ app \in InitApps \ {"finish"} /\ app' \in InitApps \ {"ap"}
        /\ app' = "start" => app = "settings"
        /\ app' = "finish" => app = "start"
        /\ app' \in {"driver", "wifiHandler"} => app \in {"ap", "driver"}
        /\ app = "ipHandler" => "wifiHandler" \in held
    BY <2>1, InitStepNames DEF InitApps, ScanInv, HandlerApps
  <2>4. /\ app' \notin CallApps /\ app' \notin {"run", "unregisterWifi", "deinit"}
        /\ app # "run"
    BY <2>3 DEF CallApps, DeinitApps, InitApps
  <2>5. /\ "wifiHandler" \in held => "wifiHandler" \in held'
        /\ "ipHandler" \in held' => "ipHandler" \in held \/ app = "ipHandler"
        /\ "wifiHandler" \in held' => "wifiHandler" \in held \/ app = "wifiHandler"
        /\ "sta" \in held => "sta" \in held'
    BY <2>1
  <2> QED
    BY <2>1, <2>2, <2>3, <2>4, <2>5 DEF OffInv
<1>3. CASE InitFails
  BY <1>0, <1>3, InitStepNames
    DEF InitFails, OffInv, Quiet, CallApps, DeinitApps, InitApps, Goto,
        moduleVars
<1>4. CASE InitFinish
  BY <1>0, <1>4
    DEF InitFinish, OffInv, Quiet, CallApps, DeinitApps, InitApps, Goto,
        moduleVars
<1>5. CASE Deinitialize
  BY <1>0, <1>5
    DEF Deinitialize, OffInv, Quiet, CallApps, DeinitApps, InitApps, Goto,
        moduleVars, Radios
<1>6. CASE Unregister
  BY <1>0, <1>6
    DEF Unregister, OffInv, Quiet, CallApps, DeinitApps, InitApps, Goto,
        moduleVars
<1>7. CASE DeinitFinish
  BY <1>0, <1>7
    DEF DeinitFinish, OffInv, Quiet, CallApps, DeinitApps, InitApps, Goto,
        moduleVars, Off, Resources
<1>8. CASE DeinitFails
  BY <1>0, <1>8
    DEF DeinitFails, OffInv, Quiet, CallApps, DeinitApps, InitApps, Goto,
        moduleVars
<1>9. CASE StartScan
  BY <1>0, <1>9
    DEF StartScan, OffInv, Quiet, CallApps, DeinitApps, InitApps, Goto,
        moduleVars, Radios
<1>10. CASE ScanFlag
  BY <1>0, <1>10
    DEF ScanFlag, OffInv, Quiet, CallApps, DeinitApps, InitApps, Goto,
        moduleVars
<1>11. CASE Connect
  BY <1>0, <1>11
    DEF Connect, OffInv, Quiet, CallApps, DeinitApps, InitApps, Goto, moduleVars
<1>12. CASE ConnectLink
  BY <1>0, <1>12
    DEF ConnectLink, OffInv, Quiet, CallApps, DeinitApps, InitApps, Goto,
        moduleVars
<1>13. CASE ConnectCall
  BY <1>0, <1>13
    DEF ConnectCall, OffInv, Quiet, CallApps, DeinitApps, InitApps, Goto,
        moduleVars, Radios
<1>14. CASE Disconnect
  BY <1>0, <1>14
    DEF Disconnect, OffInv, Quiet, CallApps, DeinitApps, InitApps, Goto,
        moduleVars
<1>15. CASE DisconnectCall
  BY <1>0, <1>15
    DEF DisconnectCall, OffInv, Quiet, CallApps, DeinitApps, InitApps, Goto,
        moduleVars, Radios
<1>16. CASE DisconnectFails
  BY <1>0, <1>16
    DEF DisconnectFails, OffInv, Quiet, CallApps, DeinitApps, InitApps, Goto,
        moduleVars
<1>17. CASE StartAccessPoint
  BY <1>0, <1>17
    DEF StartAccessPoint, OffInv, Quiet, CallApps, DeinitApps, InitApps, Goto,
        moduleVars, Radios
<1>18. CASE StartAccessPointFails
  BY <1>0, <1>18
    DEF StartAccessPointFails, OffInv, Quiet, CallApps, DeinitApps, InitApps,
        Goto, moduleVars, Radios
<1>19. CASE StopAccessPoint
  BY <1>0, <1>19
    DEF StopAccessPoint, OffInv, Quiet, CallApps, DeinitApps, InitApps, Goto,
        moduleVars, Radios
<1>20. CASE TakeEvent
  BY <1>0, <1>20
    DEF TakeEvent, OffInv, Quiet, CallApps, DeinitApps, InitApps, Goto,
        moduleVars
<1>21. CASE Discard
  BY <1>0, <1>21
    DEF Discard, OffInv, Quiet, CallApps, DeinitApps, InitApps, Goto, moduleVars,
        Handles, Registered, WifiKinds, IpKinds
<1>22. CASE HandleScanDone
  BY <1>0, <1>22
    DEF HandleScanDone, OffInv, Quiet, CallApps, DeinitApps, InitApps, Goto,
        moduleVars, Handles, Registered, WifiKinds, IpKinds, Idle
<1>23. CASE ReadResult
  BY <1>0, <1>23
    DEF ReadResult, OffInv, Quiet, CallApps, DeinitApps, InitApps, Goto,
        moduleVars, Idle, Radios
<1>24. CASE ClearList
  BY <1>0, <1>24
    DEF ClearList, OffInv, Quiet, CallApps, DeinitApps, InitApps, Goto,
        moduleVars, Idle, Radios
<1>25. CASE ClearFlag
  BY <1>0, <1>25
    DEF ClearFlag, OffInv, Quiet, CallApps, DeinitApps, InitApps, Goto,
        moduleVars, Idle
<1>26. CASE QueueComplete
  BY <1>0, <1>26
    DEF QueueComplete, OffInv, Quiet, CallApps, DeinitApps, InitApps, Goto,
        moduleVars, Idle
<1>27. CASE HandleJoined
  BY <1>0, <1>27
    DEF HandleJoined, OffInv, Quiet, CallApps, DeinitApps, InitApps, Goto,
        moduleVars, Handles, Registered, WifiKinds, IpKinds, QueueLink
<1>28. CASE HandleGone
  BY <1>0, <1>28
    DEF HandleGone, OffInv, Quiet, CallApps, DeinitApps, InitApps, Goto,
        moduleVars, Handles, Registered, WifiKinds, IpKinds, QueueLink
<1>29. CASE HandleStopped
  BY <1>0, <1>29
    DEF HandleStopped, OffInv, Quiet, CallApps, DeinitApps, InitApps, Goto,
        moduleVars, Handles, Registered, WifiKinds, IpKinds, QueueLink
<1>30. CASE HandleIp
  BY <1>0, <1>30
    DEF HandleIp, OffInv, Quiet, CallApps, DeinitApps, InitApps, Goto,
        moduleVars, Handles, Registered, WifiKinds, IpKinds, QueueLink
<1>31. CASE ScanEnds
  BY <1>0, <1>31
    DEF ScanEnds, OffInv, Quiet, CallApps, DeinitApps, InitApps, Goto,
        moduleVars, Radios
<1>32. CASE Joins
  BY <1>0, <1>32
    DEF Joins, OffInv, Quiet, CallApps, DeinitApps, InitApps, Goto, moduleVars,
        Radios
<1>33. CASE GetsAddress
  BY <1>0, <1>33
    DEF GetsAddress, OffInv, Quiet, CallApps, DeinitApps, InitApps, Goto,
        moduleVars, Radios
<1>34. CASE LeaseEnds
  BY <1>0, <1>34
    DEF LeaseEnds, OffInv, Quiet, CallApps, DeinitApps, InitApps, Goto,
        moduleVars, Radios
<1>35. CASE IsLost
  BY <1>0, <1>35
    DEF IsLost, OffInv, Quiet, CallApps, DeinitApps, InitApps, Goto, moduleVars,
        Radios
<1>36. CASE LosesAddress
  BY <1>0, <1>36
    DEF LosesAddress, OffInv, Quiet, CallApps, DeinitApps, InitApps, Goto,
        moduleVars, Radios
<1>37. CASE UNCHANGED vars
  BY <1>37 DEF vars, moduleVars, OffInv, Quiet, CallApps, DeinitApps, InitApps
<1> QED
  BY <1>1, <1>2, <1>3, <1>4, <1>5, <1>6, <1>7, <1>8, <1>9, <1>10, <1>11,
     <1>12, <1>13, <1>14, <1>15, <1>16, <1>17, <1>18, <1>19, <1>20, <1>21,
     <1>22, <1>23, <1>24, <1>25, <1>26, <1>27, <1>28, <1>29, <1>30, <1>31,
     <1>32, <1>33, <1>34, <1>35, <1>36, <1>37
  DEF Next, OwnerStep, HandlerStep, RadioStep

\* StationInv is kept.
LEMMA StationStep ==
  ASSUME TypeOK, ScanInv, OffInv, StationInv, [Next]_vars
  PROVE  StationInv'
<1>0. /\ radio \in Radios /\ held \subseteq Resources /\ app \in AppSteps
      /\ mishaps \subseteq Mishaps /\ posted \in Seq(Postings)
  BY DEF TypeOK
<1> DEFINE on == OnAir
<1>a. on \in BOOLEAN
  BY DEF OnAir
<1>1. CASE Initialize
  BY <1>0, <1>1
    DEF Initialize, StationInv, OnAir, Goto, moduleVars, OffInv
<1>2. CASE InitStep
  <2>1. radio'.station = radio.station /\ (radio.started => radio'.started)
    BY <1>0, <1>2 DEF InitStep, Radios
  <2>2. app' = After[app] /\ app \in DOMAIN After /\ UNCHANGED <<posted, link>>
    BY <1>2 DEF InitStep, Goto
  <2>3. app' \notin {"connectLink", "connect"}
    BY <2>2, InitStepNames
  <2>4. link \in {"joined", "up"} /\ "wifiHandler" \in held' => "wifiHandler" \in held
    BY <1>2 DEF InitStep, OffInv, Resources
  <2>5. on' = on
    BY <2>1 DEF OnAir
  <2> QED
    BY <2>1, <2>2, <2>3, <2>4, <2>5 DEF StationInv
<1>3. CASE InitFails
  BY <1>0, <1>3
    DEF InitFails, StationInv, OnAir, Goto, moduleVars
<1>4. CASE InitFinish
  <2>1. PICK S \in SUBSET Causes : posted' = Overtake(S)
    BY <1>4 DEF InitFinish, Causes
  <2>2. /\ HasEnd(posted)' <=> HasEnd(posted)
        /\ Promised(posted, on) => Promised(posted', on)
    BY <1>0, <1>a, <2>1, SomeOvertaken
  <2>3. on' = on /\ UNCHANGED radio /\ UNCHANGED held
    BY <1>4 DEF InitFinish, OnAir
  <2> QED
    BY <1>4, <2>2, <2>3 DEF InitFinish, StationInv, Goto
<1>5. CASE Deinitialize
  <2>1. radio'.station = "idle" /\ posted' = posted \o StopEvents
    BY <1>0, <1>5 DEF Deinitialize, Radios
  <2>2. UNCHANGED <<link, held>> /\ app' = "unregisterIp"
    BY <1>5 DEF Deinitialize, moduleVars, Goto
  <2>3. /\ HasEnd(posted) => HasEnd(posted')
        /\ OnAir => HasEnd(posted')
        /\ Promised(posted, OnAir) => Promised(posted', FALSE)
    BY <1>0, <2>1, AfterStop DEF StationInv
  <2>4. OnAir' = FALSE
    BY <2>1 DEF OnAir
  <2> QED
    BY <2>1, <2>2, <2>3, <2>4 DEF StationInv
<1>6. CASE Unregister
  BY <1>0, <1>6
    DEF Unregister, StationInv, OnAir, Goto, moduleVars
<1>7. CASE DeinitFinish
  <2>1. radio.station = "idle" /\ "wifiHandler" \notin held'
    BY <1>7 DEF DeinitFinish, StationInv, ScanInv, DeinitApps, OffInv
  <2>2. radio'.station = "idle" /\ UNCHANGED posted /\ app' = "run"
    BY <1>7 DEF DeinitFinish, Off, Goto
  <2>3. OnAir' = OnAir
    BY <2>1, <2>2 DEF OnAir
  <2> QED
    BY <2>1, <2>2, <2>3 DEF StationInv
<1>8. CASE DeinitFails
  BY <1>0, <1>8
    DEF DeinitFails, StationInv, OnAir, Goto, moduleVars
<1>9. CASE StartScan
  <2>1. radio'.station = radio.station /\ radio'.started = radio.started
    BY <1>0, <1>9 DEF StartScan, Radios
  <2> QED
    BY <1>9, <2>1 DEF StartScan, StationInv, OnAir, Goto, moduleVars
<1>10. CASE ScanFlag
  BY <1>0, <1>10
    DEF ScanFlag, StationInv, OnAir, Goto, moduleVars
<1>11. CASE Connect
  <2>1. PICK S \in SUBSET Causes : posted' = Overtake(S)
    BY <1>11 DEF Connect, Causes
  <2>2. /\ HasEnd(posted)' <=> HasEnd(posted)
        /\ Promised(posted, on) => Promised(posted', on)
    BY <1>0, <1>a, <2>1, SomeOvertaken
  <2>3. on' = on /\ UNCHANGED radio /\ UNCHANGED held
    BY <1>11 DEF Connect, OnAir
  <2> QED
    BY <1>11, <2>2, <2>3 DEF Connect, StationInv, Goto
<1>12. CASE ConnectLink
  BY <1>0, <1>12
    DEF ConnectLink, StationInv, OnAir, Goto, moduleVars
<1>13. CASE ConnectCall
  <2>1. /\ radio'.started = radio.started
        /\ radio'.station = radio.station
             \/ (radio.station = "idle" /\ radio'.station = "connecting")
    <3>1. CASE radio.station = "idle"
      <4>1. \/ radio' = [radio EXCEPT !.station = "connecting"]
            \/ radio' = radio
        BY <1>13, <3>1 DEF ConnectCall
      <4> QED
        BY <1>0, <3>1, <4>1 DEF Radios
    <3>2. CASE radio.station # "idle"
      <4> DEFINE s == radio.station
      <4>1. \/ radio' = [radio EXCEPT !.station = s]
            \/ radio' = radio
        BY <1>13, <3>2 DEF ConnectCall
      <4> HIDE DEF s
      <4>2. /\ radio'.station = s \/ radio'.station = radio.station
            /\ radio'.started = radio.started
        BY <1>0, <4>1 DEF Radios
      <4> QED
        BY <4>2 DEF s
    <3> QED
      BY <3>1, <3>2
  <2>2. UNCHANGED <<posted, link, held>> /\ app' = "run" /\ app = "connect"
    BY <1>13 DEF ConnectCall, moduleVars, Goto
  <2>3. OnAir' = OnAir
    BY <2>1 DEF OnAir
  <2> QED
    BY <2>1, <2>2, <2>3 DEF StationInv
<1>14. CASE Disconnect
  <2>1. PICK S \in SUBSET Causes : posted' = Overtake(S)
    BY <1>14 DEF Disconnect, Causes
  <2>2. /\ HasEnd(posted)' <=> HasEnd(posted)
        /\ Promised(posted, on) => Promised(posted', on)
    BY <1>0, <1>a, <2>1, SomeOvertaken
  <2>3. on' = on /\ UNCHANGED radio /\ UNCHANGED held
    BY <1>14 DEF Disconnect, OnAir
  <2> QED
    BY <1>14, <2>2, <2>3 DEF Disconnect, StationInv, Goto
<1>15. CASE DisconnectCall
  <2>1. /\ radio'.station = "idle" /\ app' = "run" /\ UNCHANGED <<link, held>>
    BY <1>0, <1>15 DEF DisconnectCall, Radios, moduleVars, Goto
  <2>2. OnAir' = FALSE
    BY <2>1 DEF OnAir
  <2>3. CASE radio.station = "idle"
    <3>1. posted' = posted /\ OnAir = FALSE
      BY <1>15, <2>3 DEF DisconnectCall, OnAir
    <3> QED
      BY <2>1, <2>2, <3>1 DEF StationInv
  <2>4. CASE radio.station # "idle"
    <3>1. PICK e \in Postings : posted' = Append(posted, e) /\ e.kind = "gone"
      BY <1>15, <2>4, PostingTypes DEF DisconnectCall, Causes
    <3>2. HasEnd(posted') /\ Promised(posted', FALSE)
      BY <1>0, <3>1, OneMore DEF Ends
    <3> QED
      BY <2>1, <2>2, <3>2 DEF StationInv
  <2> QED
    BY <2>3, <2>4
<1>16. CASE DisconnectFails
  <2>1. PICK S \in SUBSET Causes : posted' = Overtake(S)
    BY <1>16 DEF DisconnectFails, Causes
  <2>2. /\ HasEnd(posted)' <=> HasEnd(posted)
        /\ Promised(posted, on) => Promised(posted', on)
    BY <1>0, <1>a, <2>1, SomeOvertaken
  <2>3. on' = on /\ UNCHANGED radio /\ UNCHANGED held
    BY <1>16 DEF DisconnectFails, OnAir
  <2> QED
    BY <1>16, <2>2, <2>3 DEF DisconnectFails, StationInv, Goto
<1>17. CASE StartAccessPoint
  <2>1. radio'.station = radio.station /\ radio'.started = radio.started
    BY <1>0, <1>17 DEF StartAccessPoint, Radios
  <2> QED
    BY <1>17, <2>1 DEF StartAccessPoint, StationInv, OnAir, Goto, moduleVars
<1>18. CASE StartAccessPointFails
  <2>1. radio'.station = radio.station /\ radio'.started = radio.started
    BY <1>0, <1>18 DEF StartAccessPointFails, Radios
  <2> QED
    BY <1>18, <2>1 DEF StartAccessPointFails, StationInv, OnAir, Goto, moduleVars
<1>19. CASE StopAccessPoint
  <2>1. radio'.station = radio.station /\ radio'.started = radio.started
    BY <1>0, <1>19 DEF StopAccessPoint, Radios
  <2> QED
    BY <1>19, <2>1 DEF StopAccessPoint, StationInv, OnAir, Goto, moduleVars
<1>20. CASE TakeEvent
  BY <1>0, <1>20
    DEF TakeEvent, StationInv, OnAir, Goto, moduleVars
<1>21. CASE Discard
  <2>1. UNCHANGED <<radio, held, app>> /\ on' = on
    BY <1>21 DEF Discard, OnAir, moduleVars
  <2>2. PICK kind \in WifiKinds \cup IpKinds : Handles(kind)
    BY <1>21 DEF Discard, WifiKinds, IpKinds
  <2>3. /\ posted # <<>> /\ Head(posted).kind = kind /\ posted' = Tail(posted)
    BY <2>2 DEF Handles
  <2>4. Promised(posted, on) => Promised(posted', on)
    BY <1>0, <1>a, <2>3, OneLess
  <2>5. kind \notin Ends /\ HasEnd(posted) => HasEnd(posted')
    BY <1>0, <1>a, <2>3, OneLess
  <2>6. Promised(posted, on) /\ kind \in {"joined", "gotIp"} => on \/ HasEnd(posted')
    BY <1>0, <1>a, <2>3, OneLess
  <2>7. link' \in {"joined", "up"} /\ "wifiHandler" \in held =>
          \/ kind \in {"joined", "gotIp"}
          \/ link' = link /\ kind \notin Ends
    BY <1>21, <2>2, <2>3 DEF Discard, Handles, Registered, WifiKinds, IpKinds, Ends, moduleVars
  <2> QED
    BY <2>1, <2>4, <2>5, <2>6, <2>7 DEF StationInv
<1>22. CASE HandleScanDone
  <2>1. UNCHANGED <<radio, held, app>> /\ on' = on
    BY <1>22 DEF HandleScanDone, OnAir, moduleVars
  <2>2. PICK kind \in WifiKinds \cup IpKinds : Handles(kind)
    BY <1>22 DEF HandleScanDone, WifiKinds, IpKinds
  <2>3. /\ posted # <<>> /\ Head(posted).kind = kind /\ posted' = Tail(posted)
    BY <2>2 DEF Handles
  <2>4. Promised(posted, on) => Promised(posted', on)
    BY <1>0, <1>a, <2>3, OneLess
  <2>5. kind \notin Ends /\ HasEnd(posted) => HasEnd(posted')
    BY <1>0, <1>a, <2>3, OneLess
  <2>6. Promised(posted, on) /\ kind \in {"joined", "gotIp"} => on \/ HasEnd(posted')
    BY <1>0, <1>a, <2>3, OneLess
  <2>7. link' \in {"joined", "up"} /\ "wifiHandler" \in held =>
          \/ kind \in {"joined", "gotIp"}
          \/ link' = link /\ kind \notin Ends
    BY <1>22, <2>2, <2>3 DEF HandleScanDone, Handles, Registered, WifiKinds, IpKinds, Ends,
       moduleVars
  <2> QED
    BY <2>1, <2>4, <2>5, <2>6, <2>7 DEF StationInv
<1>23. CASE ReadResult
  <2>1. radio'.station = radio.station /\ radio'.started = radio.started
    BY <1>0, <1>23 DEF ReadResult, Radios
  <2> QED
    BY <1>23, <2>1 DEF ReadResult, StationInv, OnAir, Goto, moduleVars
<1>24. CASE ClearList
  <2>1. radio'.station = radio.station /\ radio'.started = radio.started
    BY <1>0, <1>24 DEF ClearList, Radios
  <2> QED
    BY <1>24, <2>1 DEF ClearList, StationInv, OnAir, Goto, moduleVars
<1>25. CASE ClearFlag
  BY <1>0, <1>25
    DEF ClearFlag, StationInv, OnAir, Goto, moduleVars
<1>26. CASE QueueComplete
  BY <1>0, <1>26
    DEF QueueComplete, StationInv, OnAir, Goto, moduleVars
<1>27. CASE HandleJoined
  <2>1. UNCHANGED <<radio, held, app>> /\ on' = on
    BY <1>27 DEF HandleJoined, OnAir, moduleVars
  <2>2. PICK kind \in WifiKinds \cup IpKinds : Handles(kind)
    BY <1>27 DEF HandleJoined, WifiKinds, IpKinds
  <2>3. /\ posted # <<>> /\ Head(posted).kind = kind /\ posted' = Tail(posted)
    BY <2>2 DEF Handles
  <2>4. Promised(posted, on) => Promised(posted', on)
    BY <1>0, <1>a, <2>3, OneLess
  <2>5. kind \notin Ends /\ HasEnd(posted) => HasEnd(posted')
    BY <1>0, <1>a, <2>3, OneLess
  <2>6. Promised(posted, on) /\ kind \in {"joined", "gotIp"} => on \/ HasEnd(posted')
    BY <1>0, <1>a, <2>3, OneLess
  <2>7. link' \in {"joined", "up"} /\ "wifiHandler" \in held =>
          \/ kind \in {"joined", "gotIp"}
          \/ link' = link /\ kind \notin Ends
    BY <1>27, <2>2, <2>3 DEF HandleJoined, Handles, Registered, WifiKinds, IpKinds, Ends,
       QueueLink
  <2> QED
    BY <2>1, <2>4, <2>5, <2>6, <2>7 DEF StationInv
<1>28. CASE HandleGone
  <2>1. UNCHANGED <<radio, held, app>> /\ on' = on
    BY <1>28 DEF HandleGone, OnAir, moduleVars
  <2>2. PICK kind \in WifiKinds \cup IpKinds : Handles(kind)
    BY <1>28 DEF HandleGone, WifiKinds, IpKinds
  <2>3. /\ posted # <<>> /\ Head(posted).kind = kind /\ posted' = Tail(posted)
    BY <2>2 DEF Handles
  <2>4. Promised(posted, on) => Promised(posted', on)
    BY <1>0, <1>a, <2>3, OneLess
  <2>5. kind \notin Ends /\ HasEnd(posted) => HasEnd(posted')
    BY <1>0, <1>a, <2>3, OneLess
  <2>6. Promised(posted, on) /\ kind \in {"joined", "gotIp"} => on \/ HasEnd(posted')
    BY <1>0, <1>a, <2>3, OneLess
  <2>7. link' \in {"joined", "up"} /\ "wifiHandler" \in held =>
          \/ kind \in {"joined", "gotIp"}
          \/ link' = link /\ kind \notin Ends
    BY <1>28, <2>2, <2>3 DEF HandleGone, Handles, Registered, WifiKinds, IpKinds, Ends,
       QueueLink
  <2> QED
    BY <2>1, <2>4, <2>5, <2>6, <2>7 DEF StationInv
<1>29. CASE HandleStopped
  <2>1. UNCHANGED <<radio, held, app>> /\ on' = on
    BY <1>29 DEF HandleStopped, OnAir, moduleVars
  <2>2. PICK kind \in WifiKinds \cup IpKinds : Handles(kind)
    BY <1>29 DEF HandleStopped, WifiKinds, IpKinds
  <2>3. /\ posted # <<>> /\ Head(posted).kind = kind /\ posted' = Tail(posted)
    BY <2>2 DEF Handles
  <2>4. Promised(posted, on) => Promised(posted', on)
    BY <1>0, <1>a, <2>3, OneLess
  <2>5. kind \notin Ends /\ HasEnd(posted) => HasEnd(posted')
    BY <1>0, <1>a, <2>3, OneLess
  <2>6. Promised(posted, on) /\ kind \in {"joined", "gotIp"} => on \/ HasEnd(posted')
    BY <1>0, <1>a, <2>3, OneLess
  <2>7. link' \in {"joined", "up"} /\ "wifiHandler" \in held =>
          \/ kind \in {"joined", "gotIp"}
          \/ link' = link /\ kind \notin Ends
    BY <1>29, <2>2, <2>3 DEF HandleStopped, Handles, Registered, WifiKinds, IpKinds, Ends,
       QueueLink
  <2> QED
    BY <2>1, <2>4, <2>5, <2>6, <2>7 DEF StationInv
<1>30. CASE HandleIp
  <2>1. UNCHANGED <<radio, held, app>> /\ on' = on
    BY <1>30 DEF HandleIp, OnAir, moduleVars
  <2>2. PICK kind \in WifiKinds \cup IpKinds : Handles(kind)
    BY <1>30 DEF HandleIp, WifiKinds, IpKinds
  <2>3. /\ posted # <<>> /\ Head(posted).kind = kind /\ posted' = Tail(posted)
    BY <2>2 DEF Handles
  <2>4. Promised(posted, on) => Promised(posted', on)
    BY <1>0, <1>a, <2>3, OneLess
  <2>5. kind \notin Ends /\ HasEnd(posted) => HasEnd(posted')
    BY <1>0, <1>a, <2>3, OneLess
  <2>6. Promised(posted, on) /\ kind \in {"joined", "gotIp"} => on \/ HasEnd(posted')
    BY <1>0, <1>a, <2>3, OneLess
  <2>7. link' \in {"joined", "up"} /\ "wifiHandler" \in held =>
          \/ kind \in {"joined", "gotIp"}
          \/ link' = link /\ kind \notin Ends
    BY <1>30, <2>2, <2>3 DEF HandleIp, Handles, Registered, WifiKinds, IpKinds, Ends, QueueLink
  <2> QED
    BY <2>1, <2>4, <2>5, <2>6, <2>7 DEF StationInv
<1>31. CASE ScanEnds
  <2>1. PICK e \in Postings : posted' = Append(posted, e) /\ e.kind = "scanDone" /\ e.kind \notin Ends
    BY <1>31, PostingTypes DEF ScanEnds, Posts, Event, Gone, Causes, WifiKinds, IpKinds, Ends
  <2>2. on' \in BOOLEAN /\ (on' = on)
    BY <1>0, <1>31 DEF ScanEnds, OnAir, Radios
  <2>3. /\ HasEnd(posted') <=> HasEnd(posted) \/ e.kind \in Ends
        /\ e.kind \in Ends => Promised(posted', on')
        /\ Promised(posted, on') /\ (e.kind \in {"joined", "gotIp"} => on') =>
             Promised(posted', on')
    BY <1>0, <2>1, <2>2, OneMore
  <2>4. radio'.started = radio.started /\ (radio'.station # "idle" => radio.station # "idle")
    BY <1>0, <1>31 DEF ScanEnds, Radios
  <2>5. UNCHANGED <<app, link, held>>
    BY <1>31 DEF ScanEnds, moduleVars
  <2>6. Promised(posted, TRUE)
    BY DEF Promised
  <2>7. Promised(posted', on')
    BY <2>1, <2>2, <2>3, <2>6 DEF StationInv
  <2> QED
    BY <2>1, <2>2, <2>3, <2>4, <2>5, <2>7 DEF StationInv
<1>32. CASE Joins
  <2>1. PICK e \in Postings : posted' = Append(posted, e) /\ e.kind = "joined"
    BY <1>32, PostingTypes DEF Joins, Posts, Event, Gone, Causes, WifiKinds, IpKinds, Ends
  <2>2. on' \in BOOLEAN /\ (on')
    BY <1>0, <1>32 DEF Joins, OnAir, Radios
  <2>3. /\ HasEnd(posted') <=> HasEnd(posted) \/ e.kind \in Ends
        /\ e.kind \in Ends => Promised(posted', on')
        /\ Promised(posted, on') /\ (e.kind \in {"joined", "gotIp"} => on') =>
             Promised(posted', on')
    BY <1>0, <2>1, <2>2, OneMore
  <2>4. radio'.started = radio.started /\ (radio'.station # "idle" => radio.station # "idle")
    BY <1>0, <1>32 DEF Joins, Radios
  <2>5. UNCHANGED <<app, link, held>>
    BY <1>32 DEF Joins, moduleVars
  <2>6. Promised(posted, TRUE)
    BY DEF Promised
  <2>7. Promised(posted', on')
    BY <2>1, <2>2, <2>3, <2>6 DEF StationInv
  <2> QED
    BY <2>1, <2>2, <2>3, <2>4, <2>5, <2>7 DEF StationInv
<1>33. CASE GetsAddress
  <2>1. PICK e \in Postings : posted' = Append(posted, e) /\ e.kind = "gotIp"
    BY <1>33, PostingTypes DEF GetsAddress, Posts, Event, Gone, Causes, WifiKinds, IpKinds,
       Ends
  <2>2. on' \in BOOLEAN /\ (on')
    BY <1>0, <1>33 DEF GetsAddress, OnAir, Radios
  <2>3. /\ HasEnd(posted') <=> HasEnd(posted) \/ e.kind \in Ends
        /\ e.kind \in Ends => Promised(posted', on')
        /\ Promised(posted, on') /\ (e.kind \in {"joined", "gotIp"} => on') =>
             Promised(posted', on')
    BY <1>0, <2>1, <2>2, OneMore
  <2>4. radio'.started = radio.started /\ (radio'.station # "idle" => radio.station # "idle")
    BY <1>0, <1>33 DEF GetsAddress, Radios
  <2>5. UNCHANGED <<app, link, held>>
    BY <1>33 DEF GetsAddress, moduleVars
  <2>6. Promised(posted, TRUE)
    BY DEF Promised
  <2>7. Promised(posted', on')
    BY <2>1, <2>2, <2>3, <2>6 DEF StationInv
  <2> QED
    BY <2>1, <2>2, <2>3, <2>4, <2>5, <2>7 DEF StationInv
<1>34. CASE LeaseEnds
  <2>1. PICK e \in Postings : posted' = Append(posted, e) /\ e.kind = "lostIp" /\ e.kind \notin Ends
    BY <1>34, PostingTypes DEF LeaseEnds, Posts, Event, Gone, Causes, WifiKinds, IpKinds, Ends
  <2>2. on' \in BOOLEAN /\ (on' = on)
    BY <1>0, <1>34 DEF LeaseEnds, OnAir, Radios
  <2>3. /\ HasEnd(posted') <=> HasEnd(posted) \/ e.kind \in Ends
        /\ e.kind \in Ends => Promised(posted', on')
        /\ Promised(posted, on') /\ (e.kind \in {"joined", "gotIp"} => on') =>
             Promised(posted', on')
    BY <1>0, <2>1, <2>2, OneMore
  <2>4. radio'.started = radio.started /\ (radio'.station # "idle" => radio.station # "idle")
    BY <1>0, <1>34 DEF LeaseEnds, Radios
  <2>5. UNCHANGED <<app, link, held>>
    BY <1>34 DEF LeaseEnds, moduleVars
  <2>6. Promised(posted, TRUE)
    BY DEF Promised
  <2>7. Promised(posted', on')
    BY <2>1, <2>2, <2>3, <2>6 DEF StationInv
  <2> QED
    BY <2>1, <2>2, <2>3, <2>4, <2>5, <2>7 DEF StationInv
<1>35. CASE IsLost
  <2>1. PICK e \in Postings : posted' = Append(posted, e) /\ e.kind \in Ends
    BY <1>35, PostingTypes DEF IsLost, Posts, Event, Gone, Causes, WifiKinds, IpKinds, Ends
  <2>2. on' \in BOOLEAN /\ (~on')
    BY <1>0, <1>35 DEF IsLost, OnAir, Radios
  <2>3. /\ HasEnd(posted') <=> HasEnd(posted) \/ e.kind \in Ends
        /\ e.kind \in Ends => Promised(posted', on')
        /\ Promised(posted, on') /\ (e.kind \in {"joined", "gotIp"} => on') =>
             Promised(posted', on')
    BY <1>0, <2>1, <2>2, OneMore
  <2>4. radio'.started = radio.started /\ (radio'.station # "idle" => radio.station # "idle")
    BY <1>0, <1>35 DEF IsLost, Radios
  <2>5. UNCHANGED <<app, link, held>>
    BY <1>35 DEF IsLost, moduleVars
  <2>6. Promised(posted, TRUE)
    BY DEF Promised
  <2>7. Promised(posted', on')
    BY <2>1, <2>2, <2>3, <2>6 DEF StationInv
  <2> QED
    BY <2>1, <2>2, <2>3, <2>4, <2>5, <2>7 DEF StationInv
<1>36. CASE LosesAddress
  <2>1. /\ radio'.started = radio.started
        /\ radio.station = "up" /\ radio'.station = "joined"
    BY <1>0, <1>36 DEF LosesAddress, Radios
  <2>2. UNCHANGED <<posted, link, held, app>>
    BY <1>36 DEF LosesAddress, moduleVars
  <2>3. OnAir' = OnAir
    BY <2>1 DEF OnAir
  <2> QED
    BY <2>1, <2>2, <2>3 DEF StationInv
<1>37. CASE UNCHANGED vars
  BY <1>37 DEF vars, moduleVars, StationInv, OnAir
<1> QED
  BY <1>1, <1>2, <1>3, <1>4, <1>5, <1>6, <1>7, <1>8, <1>9, <1>10, <1>11,
     <1>12, <1>13, <1>14, <1>15, <1>16, <1>17, <1>18, <1>19, <1>20, <1>21,
     <1>22, <1>23, <1>24, <1>25, <1>26, <1>27, <1>28, <1>29, <1>30, <1>31,
     <1>32, <1>33, <1>34, <1>35, <1>36, <1>37
  DEF Next, OwnerStep, HandlerStep, RadioStep

\* CauseInv is kept.
LEMMA CauseStep ==
  ASSUME TypeOK, ScanInv, OffInv, StationInv, CauseInv,
         [Next]_vars
  PROVE  CauseInv'
<1>0. /\ radio \in Radios /\ held \subseteq Resources /\ app \in AppSteps
      /\ mishaps \subseteq Mishaps /\ posted \in Seq(Postings)
  BY DEF TypeOK
<1>a. "asked" \in Causes /\ "lost" \in Causes
  BY DEF Causes
<1>1. CASE Initialize
  BY <1>0, <1>1
    DEF Initialize, CauseInv, Goto, moduleVars
<1>2. CASE InitStep
  <2>1. radio'.station = radio.station
    BY <1>0, <1>2 DEF InitStep, Radios
  <2>2. /\ app' = After[app] /\ app \in DOMAIN After
        /\ UNCHANGED <<posted, explicit, mishaps>>
    BY <1>2 DEF InitStep, Goto
  <2>3. app' \notin {"connectLink", "connect", "disconnect"} /\ app # "disconnect"
    BY <2>2, InitStepNames
  <2> QED
    BY <2>1, <2>2, <2>3 DEF CauseInv
<1>3. CASE InitFails
  BY <1>0, <1>3, InitStepNames
    DEF InitFails, CauseInv, Goto, moduleVars
<1>4. CASE InitFinish
  <2>1. posted' = Overtake({"asked"}) /\ {"asked"} \in SUBSET Causes /\ UNCHANGED radio
    BY <1>a, <1>4 DEF InitFinish
  <2>2. /\ HasGone(posted') <=> HasGone(posted)
        /\ \A c \in {"asked", "lost"} : HasCause(posted', c) => HasCause(posted, c) /\ c \notin {"asked"}
        /\ AskedFirst(posted) => AskedFirst(posted')
    BY <1>0, <2>1, SomeOvertaken
  <2> QED
    BY <1>4, <2>1, <2>2 DEF InitFinish, CauseInv, Goto, IsPosted, HasGone
<1>5. CASE Deinitialize
  <2>1. radio'.station = "idle" /\ posted' = posted \o StopEvents
    BY <1>0, <1>5 DEF Deinitialize, Radios
  <2>2. UNCHANGED explicit /\ app' = "unregisterIp"
    BY <1>5 DEF Deinitialize, moduleVars, Goto
  <2>3. /\ \A c \in {"asked", "lost"} : HasCause(posted', c) <=> HasCause(posted, c)
        /\ AskedFirst(posted) => AskedFirst(posted')
    BY <1>0, <2>1, AfterStop DEF StationInv
  <2> QED
    BY <2>1, <2>2, <2>3 DEF CauseInv
<1>6. CASE Unregister
  BY <1>0, <1>6
    DEF Unregister, CauseInv, Goto, moduleVars
<1>7. CASE DeinitFinish
  BY <1>0, <1>7
    DEF DeinitFinish, CauseInv, Goto, moduleVars, Off
<1>8. CASE DeinitFails
  BY <1>0, <1>8
    DEF DeinitFails, CauseInv, Goto, moduleVars
<1>9. CASE StartScan
  <2>1. radio'.station = radio.station
    BY <1>0, <1>9 DEF StartScan, Radios
  <2> QED
    BY <1>9, <2>1 DEF StartScan, CauseInv, Goto, moduleVars
<1>10. CASE ScanFlag
  BY <1>0, <1>10
    DEF ScanFlag, CauseInv, Goto, moduleVars
<1>11. CASE Connect
  <2>1. posted' = Overtake({"asked"}) /\ {"asked"} \in SUBSET Causes /\ UNCHANGED radio
    BY <1>a, <1>11 DEF Connect
  <2>2. /\ HasGone(posted') <=> HasGone(posted)
        /\ \A c \in {"asked", "lost"} : HasCause(posted', c) => HasCause(posted, c) /\ c \notin {"asked"}
        /\ AskedFirst(posted) => AskedFirst(posted')
    BY <1>0, <2>1, SomeOvertaken
  <2> QED
    BY <1>11, <2>1, <2>2 DEF Connect, CauseInv, Goto, IsPosted, HasGone
<1>12. CASE ConnectLink
  BY <1>0, <1>12
    DEF ConnectLink, CauseInv, Goto, moduleVars
<1>13. CASE ConnectCall
  <2>1. UNCHANGED <<posted, explicit, mishaps>> /\ app' = "run" /\ app = "connect"
    BY <1>13 DEF ConnectCall, moduleVars, Goto
  <2> QED
    BY <2>1 DEF CauseInv
<1>14. CASE Disconnect
  <2>1. posted' = Overtake({"lost"}) /\ {"lost"} \in SUBSET Causes /\ UNCHANGED radio
    BY <1>a, <1>14 DEF Disconnect
  <2>2. /\ HasGone(posted') <=> HasGone(posted)
        /\ \A c \in {"asked", "lost"} : HasCause(posted', c) => HasCause(posted, c) /\ c \notin {"lost"}
        /\ AskedFirst(posted) => AskedFirst(posted')
    BY <1>0, <2>1, SomeOvertaken
  <2> QED
    BY <1>14, <2>1, <2>2 DEF Disconnect, CauseInv, Goto, IsPosted, HasGone
<1>15. CASE DisconnectCall
  <2>1. /\ radio'.station = "idle" /\ app = "disconnect" /\ app' = "run"
        /\ UNCHANGED explicit
    BY <1>0, <1>15 DEF DisconnectCall, Radios, moduleVars, Goto
  <2>2. CASE radio.station = "idle"
    <3>1. posted' = posted
      BY <1>15, <2>2 DEF DisconnectCall
    <3> QED
      BY <2>1, <3>1 DEF CauseInv
  <2>3. CASE radio.station # "idle"
    <3> DEFINE cause == IF "overlap" \in mishaps THEN "overtaken" ELSE "asked"
               e == Gone(cause)
    <3>1. posted' = Append(posted, e)
      BY <1>15, <2>3 DEF DisconnectCall
    <3>2. e \in Postings /\ e.cause = cause
      BY PostingTypes DEF Causes, Gone
    <3>3. cause = "overtaken" \/ (cause = "asked" /\ explicit /\ ~HasGone(posted))
      BY <2>1, <2>3 DEF CauseInv
    <3> HIDE DEF cause, e
    <3>4. /\ \A c \in Causes : HasCause(posted', c) <=> HasCause(posted, c) \/ cause = c
          /\ AskedFirst(posted) /\ (cause = "asked" => ~HasGone(posted)) => AskedFirst(posted')
      BY <1>0, <3>1, <3>2, OneMore
    <3> QED
      BY <1>a, <2>1, <3>3, <3>4 DEF CauseInv
  <2> QED
    BY <2>2, <2>3
<1>16. CASE DisconnectFails
  <2>1. posted' = Overtake({"asked"}) /\ {"asked"} \in SUBSET Causes /\ UNCHANGED radio
    BY <1>a, <1>16 DEF DisconnectFails
  <2>2. /\ HasGone(posted') <=> HasGone(posted)
        /\ \A c \in {"asked", "lost"} : HasCause(posted', c) => HasCause(posted, c) /\ c \notin {"asked"}
        /\ AskedFirst(posted) => AskedFirst(posted')
    BY <1>0, <2>1, SomeOvertaken
  <2> QED
    BY <1>16, <2>1, <2>2 DEF DisconnectFails, CauseInv, Goto, IsPosted, HasGone
<1>17. CASE StartAccessPoint
  <2>1. radio'.station = radio.station
    BY <1>0, <1>17 DEF StartAccessPoint, Radios
  <2> QED
    BY <1>17, <2>1 DEF StartAccessPoint, CauseInv, Goto, moduleVars
<1>18. CASE StartAccessPointFails
  <2>1. radio'.station = radio.station
    BY <1>0, <1>18 DEF StartAccessPointFails, Radios
  <2> QED
    BY <1>18, <2>1 DEF StartAccessPointFails, CauseInv, Goto, moduleVars
<1>19. CASE StopAccessPoint
  <2>1. radio'.station = radio.station
    BY <1>0, <1>19 DEF StopAccessPoint, Radios
  <2> QED
    BY <1>19, <2>1 DEF StopAccessPoint, CauseInv, Goto, moduleVars
<1>20. CASE TakeEvent
  BY <1>0, <1>20
    DEF TakeEvent, CauseInv, Goto, moduleVars
<1>21. CASE Discard
  <2>1. UNCHANGED <<radio, app, mishaps>>
    BY <1>21 DEF Discard, moduleVars
  <2>2. UNCHANGED explicit
    BY <1>21 DEF Discard, moduleVars
  <2>3. posted # <<>> /\ posted' = Tail(posted)
    BY <1>21 DEF Discard, Handles
  <2>4. /\ HasGone(posted') => HasGone(posted)
        /\ \A c \in Causes : HasCause(posted', c) => HasCause(posted, c)
        /\ AskedFirst(posted) => AskedFirst(posted')
    BY <1>0, <2>3, OneLess
  <2> QED
    BY <2>1, <2>2, <2>4, <1>a DEF CauseInv
<1>22. CASE HandleScanDone
  <2>1. UNCHANGED <<radio, app, mishaps>>
    BY <1>22 DEF HandleScanDone, moduleVars
  <2>2. UNCHANGED explicit
    BY <1>22 DEF HandleScanDone, moduleVars
  <2>3. posted # <<>> /\ posted' = Tail(posted)
    BY <1>22 DEF HandleScanDone, Handles
  <2>4. /\ HasGone(posted') => HasGone(posted)
        /\ \A c \in Causes : HasCause(posted', c) => HasCause(posted, c)
        /\ AskedFirst(posted) => AskedFirst(posted')
    BY <1>0, <2>3, OneLess
  <2> QED
    BY <2>1, <2>2, <2>4, <1>a DEF CauseInv
<1>23. CASE ReadResult
  <2>1. radio'.station = radio.station
    BY <1>0, <1>23 DEF ReadResult, Radios
  <2> QED
    BY <1>23, <2>1 DEF ReadResult, CauseInv, Goto, moduleVars
<1>24. CASE ClearList
  <2>1. radio'.station = radio.station
    BY <1>0, <1>24 DEF ClearList, Radios
  <2> QED
    BY <1>24, <2>1 DEF ClearList, CauseInv, Goto, moduleVars
<1>25. CASE ClearFlag
  BY <1>0, <1>25
    DEF ClearFlag, CauseInv, Goto, moduleVars
<1>26. CASE QueueComplete
  BY <1>0, <1>26
    DEF QueueComplete, CauseInv, Goto, moduleVars
<1>27. CASE HandleJoined
  <2>1. UNCHANGED <<radio, app, mishaps>>
    BY <1>27 DEF HandleJoined, moduleVars
  <2>2. UNCHANGED explicit
    BY <1>27 DEF HandleJoined, moduleVars
  <2>3. posted # <<>> /\ posted' = Tail(posted)
    BY <1>27 DEF HandleJoined, Handles
  <2>4. /\ HasGone(posted') => HasGone(posted)
        /\ \A c \in Causes : HasCause(posted', c) => HasCause(posted, c)
        /\ AskedFirst(posted) => AskedFirst(posted')
    BY <1>0, <2>3, OneLess
  <2> QED
    BY <2>1, <2>2, <2>4, <1>a DEF CauseInv
<1>28. CASE HandleGone
  <2>1. UNCHANGED <<radio, app, mishaps>>
    BY <1>28 DEF HandleGone, moduleVars
  <2>3. posted # <<>> /\ posted' = Tail(posted)
    BY <1>28 DEF HandleGone, Handles
  <2>4. /\ HasGone(posted') => HasGone(posted)
        /\ \A c \in Causes : HasCause(posted', c) => HasCause(posted, c)
        /\ AskedFirst(posted) => AskedFirst(posted')
    BY <1>0, <2>3, OneLess
  <2>5. Head(posted).kind = "gone" /\ explicit' = FALSE
    BY <1>28 DEF HandleGone, Handles
  <2>6. ~HasCause(posted', "asked")
    BY <1>0, <2>3, <2>5, OneLess DEF CauseInv
  <2>7. HasGone(posted)
    BY <1>0, <2>3, <2>5, OneLess
  <2> QED
    BY <2>1, <2>4, <2>5, <2>6, <2>7 DEF CauseInv
<1>29. CASE HandleStopped
  <2>1. UNCHANGED <<radio, app, mishaps>>
    BY <1>29 DEF HandleStopped, moduleVars
  <2>2. UNCHANGED explicit
    BY <1>29 DEF HandleStopped, moduleVars
  <2>3. posted # <<>> /\ posted' = Tail(posted)
    BY <1>29 DEF HandleStopped, Handles
  <2>4. /\ HasGone(posted') => HasGone(posted)
        /\ \A c \in Causes : HasCause(posted', c) => HasCause(posted, c)
        /\ AskedFirst(posted) => AskedFirst(posted')
    BY <1>0, <2>3, OneLess
  <2> QED
    BY <2>1, <2>2, <2>4, <1>a DEF CauseInv
<1>30. CASE HandleIp
  <2>1. UNCHANGED <<radio, app, mishaps>>
    BY <1>30 DEF HandleIp, moduleVars
  <2>2. UNCHANGED explicit
    BY <1>30 DEF HandleIp, moduleVars
  <2>3. posted # <<>> /\ posted' = Tail(posted)
    BY <1>30 DEF HandleIp, Handles
  <2>4. /\ HasGone(posted') => HasGone(posted)
        /\ \A c \in Causes : HasCause(posted', c) => HasCause(posted, c)
        /\ AskedFirst(posted) => AskedFirst(posted')
    BY <1>0, <2>3, OneLess
  <2> QED
    BY <2>1, <2>2, <2>4, <1>a DEF CauseInv
<1>31. CASE ScanEnds
  <2>1. PICK e \in Postings : posted' = Append(posted, e) /\ e.kind # "gone" /\ e.cause = "none"
    BY <1>31, PostingTypes DEF ScanEnds, Posts, Event, WifiKinds, IpKinds
  <2>2. radio'.station = radio.station
    BY <1>0, <1>31 DEF ScanEnds, Radios
  <2>3. /\ HasGone(posted') <=> HasGone(posted)
        /\ \A c \in Causes : HasCause(posted', c) <=> HasCause(posted, c)
        /\ AskedFirst(posted) => AskedFirst(posted')
    BY <1>0, <2>1, OneMore DEF Causes
  <2>4. UNCHANGED <<app, explicit, mishaps>>
    BY <1>31 DEF ScanEnds, moduleVars
  <2> QED
    BY <1>a, <2>2, <2>3, <2>4 DEF CauseInv
<1>32. CASE Joins
  <2>1. PICK e \in Postings : posted' = Append(posted, e) /\ e.kind # "gone" /\ e.cause = "none"
    BY <1>32, PostingTypes DEF Joins, Posts, Event, WifiKinds, IpKinds
  <2>2. radio.station # "idle"
    BY <1>0, <1>32 DEF Joins, Radios
  <2>3. /\ HasGone(posted') <=> HasGone(posted)
        /\ \A c \in Causes : HasCause(posted', c) <=> HasCause(posted, c)
        /\ AskedFirst(posted) => AskedFirst(posted')
    BY <1>0, <2>1, OneMore DEF Causes
  <2>4. UNCHANGED <<app, explicit, mishaps>>
    BY <1>32 DEF Joins, moduleVars
  <2> QED
    BY <1>a, <2>2, <2>3, <2>4 DEF CauseInv
<1>33. CASE GetsAddress
  <2>1. PICK e \in Postings : posted' = Append(posted, e) /\ e.kind # "gone" /\ e.cause = "none"
    BY <1>33, PostingTypes DEF GetsAddress, Posts, Event, WifiKinds, IpKinds
  <2>2. radio.station # "idle"
    BY <1>0, <1>33 DEF GetsAddress, Radios
  <2>3. /\ HasGone(posted') <=> HasGone(posted)
        /\ \A c \in Causes : HasCause(posted', c) <=> HasCause(posted, c)
        /\ AskedFirst(posted) => AskedFirst(posted')
    BY <1>0, <2>1, OneMore DEF Causes
  <2>4. UNCHANGED <<app, explicit, mishaps>>
    BY <1>33 DEF GetsAddress, moduleVars
  <2> QED
    BY <1>a, <2>2, <2>3, <2>4 DEF CauseInv
<1>34. CASE LeaseEnds
  <2>1. PICK e \in Postings : posted' = Append(posted, e) /\ e.kind # "gone" /\ e.cause = "none"
    BY <1>34, PostingTypes DEF LeaseEnds, Posts, Event, WifiKinds, IpKinds
  <2>2. radio'.station = radio.station
    BY <1>0, <1>34 DEF LeaseEnds, Radios
  <2>3. /\ HasGone(posted') <=> HasGone(posted)
        /\ \A c \in Causes : HasCause(posted', c) <=> HasCause(posted, c)
        /\ AskedFirst(posted) => AskedFirst(posted')
    BY <1>0, <2>1, OneMore DEF Causes
  <2>4. UNCHANGED <<app, explicit, mishaps>>
    BY <1>34 DEF LeaseEnds, moduleVars
  <2> QED
    BY <1>a, <2>2, <2>3, <2>4 DEF CauseInv
<1>35. CASE IsLost
  <2>1. radio.station # "idle" /\ radio'.station = "idle"
    BY <1>0, <1>35 DEF IsLost, Radios
  <2>2. UNCHANGED <<app, explicit, mishaps>>
    BY <1>35 DEF IsLost, moduleVars
  <2> DEFINE cause == IF app = "disconnect" THEN "overtaken" ELSE "lost"
             e == Gone(cause)
  <2>3. posted' = Append(posted, e)
    BY <1>35 DEF IsLost, Posts
  <2>4. e \in Postings /\ e.cause = cause
    BY PostingTypes DEF Causes, Gone
  <2>5. cause # "asked" /\ (cause = "lost" => ~explicit)
    BY <2>1 DEF CauseInv
  <2> HIDE DEF cause, e
  <2>6. /\ \A c \in Causes : HasCause(posted', c) <=> HasCause(posted, c) \/ cause = c
        /\ AskedFirst(posted) => AskedFirst(posted')
    BY <1>0, <2>3, <2>4, <2>5, OneMore
  <2> QED
    BY <1>a, <2>1, <2>2, <2>5, <2>6 DEF CauseInv
<1>36. CASE LosesAddress
  <2>1. radio.station = "up"
    BY <1>36 DEF LosesAddress
  <2>2. UNCHANGED <<posted, app, explicit, mishaps>>
    BY <1>36 DEF LosesAddress, moduleVars
  <2> QED
    BY <2>1, <2>2 DEF CauseInv
<1>37. CASE UNCHANGED vars
  BY <1>37 DEF vars, moduleVars, CauseInv
<1> QED
  BY <1>1, <1>2, <1>3, <1>4, <1>5, <1>6, <1>7, <1>8, <1>9, <1>10, <1>11,
     <1>12, <1>13, <1>14, <1>15, <1>16, <1>17, <1>18, <1>19, <1>20, <1>21,
     <1>22, <1>23, <1>24, <1>25, <1>26, <1>27, <1>28, <1>29, <1>30, <1>31,
     <1>32, <1>33, <1>34, <1>35, <1>36, <1>37
  DEF Next, OwnerStep, HandlerStep, RadioStep

----------------------------------------------------------------------------
(* The link, the access point and what ended a connection. *)

WifiInv == TypeOK /\ ScanInv /\ OffInv /\ StationInv /\ CauseInv

LEMMA WifiInitially == Init => OffInv /\ StationInv /\ CauseInv
<1> SUFFICES ASSUME Init
             PROVE  OffInv /\ StationInv /\ CauseInv
  OBVIOUS
<1>1. DOMAIN posted = {} /\ radio.station = "idle" /\ radio.mode = "sta"
  BY DEF Init, Off
<1>2. OffInv
  BY <1>1 DEF Init, OffInv, CallApps, DeinitApps, InitApps, Quiet
<1>3. StationInv
  BY <1>1 DEF Init, StationInv, Promised
<1>4. CauseInv
  BY <1>1 DEF Init, CauseInv, HasCause, AskedFirst
<1> QED
  BY <1>2, <1>3, <1>4

LEMMA WifiAlways == Spec => []WifiInv
<1>1. TypeOK /\ ScanInv /\ OffInv /\ StationInv /\ CauseInv /\ [Next]_vars =>
        OffInv' /\ StationInv' /\ CauseInv'
  BY OffStep, StationStep, CauseStep
<1> QED
  BY <1>1, WifiInitially, ScanInvariant, TypeCorrect, PTL DEF Spec, WifiInv

\* The link is reported joined or up only while the station is, or the event that
\* says otherwise is on its way; while WiFi is off nothing is left of it, unless
\* initialize failed half way; and no access point runs that the program believes
\* to be off, unless the return to station mode failed as well.
THEOREM LinkIsHonest == Spec => []LinkHonest
<1>1. WifiInv => NoStaleLink
  BY DEF WifiInv, StationInv, NoStaleLink, OnAir, HasEnd, Ends, IsPosted
<1>2. WifiInv => TornDown
  BY DEF WifiInv, OffInv, TornDown, Quiet
<1>3. WifiInv => NoHiddenAccessPoint
  BY DEF WifiInv, OffInv, NoHiddenAccessPoint
<1> QED
  BY <1>1, <1>2, <1>3, WifiAlways, PTL DEF LinkHonest

LEMMA LengthOvertaken ==
  ASSUME posted \in Seq(Postings), NEW S \in SUBSET Causes
  PROVE  Len(Overtake(S)) = Len(posted)
<1>1. Overtake(S) \in Seq(Postings)
  BY PostedOvertake
<1>2. DOMAIN Overtake(S) = DOMAIN posted
  BY DEF Overtake
<1> QED
  BY <1>1, <1>2, LenProperties

LEMMA LengthStopped ==
  ASSUME posted \in Seq(Postings)
  PROVE  Len(posted \o StopEvents) >= Len(posted)
<1> DEFINE gone == Gone("overtaken")
           stopped == Event("stopped")
<1>1. /\ gone \in Postings /\ stopped \in Postings
  BY PostingTypes DEF Event, Gone, Causes, WifiKinds
<1>2. StopEvents \in {<<>>, <<>> \o <<stopped>>, <<gone>> \o <<stopped>>}
  BY DEF StopEvents
<1> HIDE DEF gone, stopped
<1>3. /\ <<>> \in Seq(Postings) /\ <<gone>> \in Seq(Postings)
      /\ <<stopped>> \in Seq(Postings)
  BY <1>1
<1>4. <<>> \o <<stopped>> \in Seq(Postings) /\ <<gone>> \o <<stopped>> \in Seq(Postings)
  BY <1>3, ConcatProperties
<1>5. StopEvents \in Seq(Postings)
  BY <1>2, <1>3, <1>4
<1> QED
  BY <1>5, ConcatProperties, LenProperties

\* No posted event is taken from the queue, or the first one is and the program is
\* told as CauseReported says.
Kept == Len(posted') >= Len(posted)

Told ==
  Registered(Head(posted).kind) =>
    /\ Head(posted).cause = "asked" => link' = "down"
    /\ Head(posted).cause = "lost" => link' # "down"

LEMMA ToldStep ==
  ASSUME TypeOK, CauseInv, [Next]_vars
  PROVE  Kept \/ Told
<1>0. posted \in Seq(Postings) /\ Len(posted) \in Nat
  BY LenProperties DEF TypeOK
<1>a. "asked" \in Causes /\ "lost" \in Causes
  BY DEF Causes
<1>1. CASE Initialize
  BY <1>0, <1>1 DEF Initialize, Kept, moduleVars
<1>2. CASE InitStep
  BY <1>0, <1>2 DEF InitStep, Kept, moduleVars
<1>3. CASE InitFails
  BY <1>0, <1>3 DEF InitFails, Kept, moduleVars
<1>4. CASE InitFinish
  BY <1>0, <1>4, LengthOvertaken DEF InitFinish, Kept, Causes
<1>5. CASE Deinitialize
  BY <1>0, <1>5, LengthStopped DEF Deinitialize, Kept
<1>6. CASE Unregister
  BY <1>0, <1>6 DEF Unregister, Kept, moduleVars
<1>7. CASE DeinitFinish
  BY <1>0, <1>7 DEF DeinitFinish, Kept, moduleVars
<1>8. CASE DeinitFails
  BY <1>0, <1>8 DEF DeinitFails, Kept, moduleVars
<1>9. CASE StartScan
  BY <1>0, <1>9 DEF StartScan, Kept, moduleVars
<1>10. CASE ScanFlag
  BY <1>0, <1>10 DEF ScanFlag, Kept, moduleVars
<1>11. CASE Connect
  BY <1>0, <1>11, LengthOvertaken DEF Connect, Kept, Causes
<1>12. CASE ConnectLink
  BY <1>0, <1>12 DEF ConnectLink, Kept, moduleVars
<1>13. CASE ConnectCall
  BY <1>0, <1>13 DEF ConnectCall, Kept, moduleVars
<1>14. CASE Disconnect
  BY <1>0, <1>14, LengthOvertaken DEF Disconnect, Kept, Causes
<1>15. CASE DisconnectCall
  <2>1. PICK e \in Postings : posted' = posted \/ posted' = Append(posted, e)
    BY <1>15, PostingTypes DEF DisconnectCall, Causes
  <2> QED
    BY <1>0, <2>1, AppendProperties DEF Kept
<1>16. CASE DisconnectFails
  BY <1>0, <1>16, LengthOvertaken DEF DisconnectFails, Kept, Causes
<1>17. CASE StartAccessPoint
  BY <1>0, <1>17 DEF StartAccessPoint, Kept, moduleVars
<1>18. CASE StartAccessPointFails
  BY <1>0, <1>18 DEF StartAccessPointFails, Kept, moduleVars
<1>19. CASE StopAccessPoint
  BY <1>0, <1>19 DEF StopAccessPoint, Kept, moduleVars
<1>20. CASE TakeEvent
  BY <1>0, <1>20 DEF TakeEvent, Kept, moduleVars
<1>21. CASE Discard
  BY <1>21 DEF Discard, Handles, Told
<1>22. CASE HandleScanDone
  <2>1. posted # <<>> => Head(posted) \in Postings
    BY <1>0, HeadTailProperties
  <2>2. posted # <<>> /\ Head(posted).kind # "gone"
    BY <1>22 DEF HandleScanDone, Handles
  <2>3. Head(posted).cause \notin {"asked", "lost"}
    BY <1>a, <2>1, <2>2, PostingTypes
  <2> QED
    BY <2>3 DEF Told
<1>23. CASE ReadResult
  BY <1>0, <1>23 DEF ReadResult, Kept, moduleVars
<1>24. CASE ClearList
  BY <1>0, <1>24 DEF ClearList, Kept, moduleVars
<1>25. CASE ClearFlag
  BY <1>0, <1>25 DEF ClearFlag, Kept, moduleVars
<1>26. CASE QueueComplete
  BY <1>0, <1>26 DEF QueueComplete, Kept, moduleVars
<1>27. CASE HandleJoined
  <2>1. posted # <<>> => Head(posted) \in Postings
    BY <1>0, HeadTailProperties
  <2>2. posted # <<>> /\ Head(posted).kind # "gone"
    BY <1>27 DEF HandleJoined, Handles
  <2>3. Head(posted).cause \notin {"asked", "lost"}
    BY <1>a, <2>1, <2>2, PostingTypes
  <2> QED
    BY <2>3 DEF Told
<1>28. CASE HandleGone
  <2>1. /\ posted # <<>>
        /\ link' = IF explicit THEN "down" ELSE "failed"
    BY <1>28 DEF HandleGone, Handles, QueueLink
  <2>2. \A c \in Causes : Head(posted).cause = c => HasCause(posted, c)
    BY <1>0, <2>1, OneLess
  <2>3. /\ Head(posted).cause = "asked" => explicit
        /\ Head(posted).cause = "lost" => ~explicit
    BY <1>a, <2>2 DEF CauseInv
  <2> QED
    BY <2>1, <2>3 DEF Told
<1>29. CASE HandleStopped
  <2>1. posted # <<>> => Head(posted) \in Postings
    BY <1>0, HeadTailProperties
  <2>2. posted # <<>> /\ Head(posted).kind # "gone"
    BY <1>29 DEF HandleStopped, Handles
  <2>3. Head(posted).cause \notin {"asked", "lost"}
    BY <1>a, <2>1, <2>2, PostingTypes
  <2> QED
    BY <2>3 DEF Told
<1>30. CASE HandleIp
  <2>1. posted # <<>> => Head(posted) \in Postings
    BY <1>0, HeadTailProperties
  <2>2. posted # <<>> /\ Head(posted).kind # "gone"
    BY <1>30 DEF HandleIp, Handles
  <2>3. Head(posted).cause \notin {"asked", "lost"}
    BY <1>a, <2>1, <2>2, PostingTypes
  <2> QED
    BY <2>3 DEF Told
<1>31. CASE ScanEnds
  <2>1. PICK e \in Postings : posted' = Append(posted, e)
    BY <1>31, PostingTypes DEF ScanEnds, Posts, Causes, WifiKinds, IpKinds
  <2> QED
    BY <1>0, <2>1, AppendProperties DEF Kept
<1>32. CASE Joins
  <2>1. PICK e \in Postings : posted' = Append(posted, e)
    BY <1>32, PostingTypes DEF Joins, Posts, Causes, WifiKinds, IpKinds
  <2> QED
    BY <1>0, <2>1, AppendProperties DEF Kept
<1>33. CASE GetsAddress
  <2>1. PICK e \in Postings : posted' = Append(posted, e)
    BY <1>33, PostingTypes DEF GetsAddress, Posts, Causes, WifiKinds, IpKinds
  <2> QED
    BY <1>0, <2>1, AppendProperties DEF Kept
<1>34. CASE LeaseEnds
  <2>1. PICK e \in Postings : posted' = Append(posted, e)
    BY <1>34, PostingTypes DEF LeaseEnds, Posts, Causes, WifiKinds, IpKinds
  <2> QED
    BY <1>0, <2>1, AppendProperties DEF Kept
<1>35. CASE IsLost
  <2>1. PICK e \in Postings : posted' = Append(posted, e)
    BY <1>35, PostingTypes DEF IsLost, Posts, Causes, WifiKinds, IpKinds
  <2> QED
    BY <1>0, <2>1, AppendProperties DEF Kept
<1>36. CASE LosesAddress
  BY <1>0, <1>36 DEF LosesAddress, Kept, moduleVars
<1>37. CASE UNCHANGED vars
  BY <1>0, <1>37 DEF vars, Kept
<1> QED
  BY <1>1, <1>2, <1>3, <1>4, <1>5, <1>6, <1>7, <1>8, <1>9, <1>10, <1>11,
     <1>12, <1>13, <1>14, <1>15, <1>16, <1>17, <1>18, <1>19, <1>20, <1>21,
     <1>22, <1>23, <1>24, <1>25, <1>26, <1>27, <1>28, <1>29, <1>30, <1>31,
     <1>32, <1>33, <1>34, <1>35, <1>36, <1>37
  DEF Next, OwnerStep, HandlerStep, RadioStep

\* A connection the program ended is reported down, and one that was lost is not,
\* although disconnect leaves no more than a flag for the event that follows it.
THEOREM CausesAreReported == Spec => CauseReported
<1> DEFINE A ==
      posted # <<>> /\ Registered(Head(posted).kind) /\ posted' = Tail(posted) =>
        /\ Head(posted).cause = "asked" => link' = "down"
        /\ Head(posted).cause = "lost" => link' # "down"
<1>1. ASSUME WifiInv, [Next]_vars
      PROVE  A
  <2>1. Kept \/ Told
    BY <1>1, ToldStep DEF WifiInv
  <2>2. posted # <<>> => Len(Tail(posted)) < Len(posted)
    BY <1>1, HeadTailProperties, LenProperties, EmptySeq DEF WifiInv, TypeOK
  <2>3. Len(posted) \in Nat
    BY <1>1, LenProperties DEF WifiInv, TypeOK
  <2>4. posted # <<>> /\ posted' = Tail(posted) => ~Kept
    BY <2>2, <2>3, <1>1, HeadTailProperties, LenProperties DEF Kept, WifiInv, TypeOK
  <2> QED
    BY <2>1, <2>4 DEF Told
<1> HIDE DEF A
<1>2. WifiInv /\ [Next]_vars => [A]_vars
  BY <1>1
<1>3. Spec => [][A]_vars
  BY <1>2, WifiAlways, PTL DEF Spec
<1> QED
  BY <1>3 DEF A, CauseReported

=============================================================================
