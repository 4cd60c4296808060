----------------------------- MODULE PlatformProofs -----------------------------
(***************************************************************************)
(* Proofs about what the program takes from the platform, for any size of  *)
(* the ring, any slots, images, updates and dates.  Each part has an       *)
(* invariant of its own, which the steps of the others do not touch.       *)
(***************************************************************************)
EXTENDS Platform, FiniteSetTheorems, TLAPS

----------------------------------------------------------------------------
(* The file systems. *)

FsInv == FsTypeOK /\ DefaultMounted /\ NeverFormatsData

\* What _ESP32StorageMountChanged leaves: the volume is shown as it was told, and
\* the default is a volume that is shown, if there is one.
LEMMA DefaultFollows ==
  ASSUME FsInv, NEW volume \in Volumes, NEW mounted \in BOOLEAN,
         MountChanged(volume, mounted)
  PROVE  /\ fsShown' \in [Volumes -> BOOLEAN] /\ fsShown'[volume] = mounted
         /\ \A v \in Volumes : v # volume => fsShown'[v] = fsShown[v]
         /\ fsChosen' \in BOOLEAN /\ fsDefault' \in Volumes \cup {"none"}
         /\ IF fsDefault' = "none" THEN fsShown' = NoVolume /\ ~fsChosen'
            ELSE fsShown'[fsDefault']
<1>1. /\ fsShown \in [Volumes -> BOOLEAN] /\ fsChosen \in BOOLEAN
      /\ fsDefault \in Volumes \cup {"none"}
      /\ IF fsDefault = "none" THEN fsShown = NoVolume /\ ~fsChosen ELSE fsShown[fsDefault]
  BY DEF FsInv, FsTypeOK, DefaultMounted
<1>2. /\ fsShown' \in [Volumes -> BOOLEAN] /\ fsShown'[volume] = mounted
      /\ \A v \in Volumes : v # volume => fsShown'[v] = fsShown[v]
  BY <1>1 DEF MountChanged
<1>3. fsChosen' = (fsChosen /\ (mounted \/ fsDefault # volume)) /\ fsChosen' \in BOOLEAN
  BY <1>1 DEF MountChanged, StillChosen
<1>4. CASE fsChosen'
  BY <1>1, <1>2, <1>3, <1>4 DEF MountChanged
<1>5. CASE ~fsChosen'
  <2>1. fsDefault' = IF fsShown'["littlefs"] THEN "littlefs"
                     ELSE IF fsShown'["sd"] THEN "sd" ELSE "none"
    BY <1>5 DEF MountChanged
  <2>2. ~fsShown'["littlefs"] /\ ~fsShown'["sd"] => fsShown' = NoVolume
    BY <1>2 DEF Volumes, NoVolume
  <2> QED
    BY <1>2, <1>3, <1>5, <2>1, <2>2 DEF Volumes
<1> QED
  BY <1>4, <1>5

LEMMA FsStep ==
  ASSUME FsInv, [FsNext]_fsVars
  PROVE  FsInv'
<1>types. /\ fsMounted \in [Volumes -> BOOLEAN] /\ fsVfs \in [Volumes -> BOOLEAN]
          /\ fsShown \in [Volumes -> BOOLEAN] /\ fsMedium \in [Volumes -> Media]
          /\ fsDefault \in Volumes \cup {"none"} /\ fsChosen \in BOOLEAN
          /\ fsMounted = fsVfs /\ fsErased = {}
          /\ \A v \in Volumes : fsShown[v] => fsMounted[v]
  BY DEF FsInv, FsTypeOK, DefaultMounted, NeverFormatsData
<1>media. "files" \in Media /\ "foreign" \in Media /\ "littlefs" \in Volumes /\ "sd" \in Volumes
  BY DEF Media, Volumes
\* The calls of the facade, with what became of the mount and of the medium.
<1>told. ASSUME NEW volume \in Volumes, NEW mounted \in BOOLEAN, MountChanged(volume, mounted),
                fsMounted' \in [Volumes -> BOOLEAN], fsVfs' = fsMounted',
                mounted => fsMounted'[volume],
                \A v \in Volumes : v # volume => fsMounted'[v] = fsMounted[v],
                fsMedium' \in [Volumes -> Media], fsErased' = {}
         PROVE  FsInv'
  <2>1. /\ fsShown' \in [Volumes -> BOOLEAN] /\ fsShown'[volume] = mounted
        /\ \A v \in Volumes : v # volume => fsShown'[v] = fsShown[v]
        /\ fsChosen' \in BOOLEAN /\ fsDefault' \in Volumes \cup {"none"}
        /\ IF fsDefault' = "none" THEN fsShown' = NoVolume /\ ~fsChosen'
           ELSE fsShown'[fsDefault']
    BY <1>told, DefaultFollows
  <2>2. \A v \in Volumes : fsShown'[v] => fsMounted'[v]
    BY <1>types, <1>told, <2>1
  <2> QED
    BY <1>told, <2>1, <2>2 DEF FsInv, FsTypeOK, DefaultMounted, NeverFormatsData
<1>mounting. ASSUME NEW volume \in Volumes, NEW ok \in BOOLEAN, Mounting(volume, ok),
                    fsMedium' \in [Volumes -> Media], fsErased' = {}
             PROVE  FsInv'
  BY <1>types, <1>told, <1>mounting DEF Mounting
<1>1. ASSUME NEW volume \in Volumes, MountedAlready(volume)
      PROVE  FsInv'
  BY <1>types, <1>told, <1>1 DEF MountedAlready
<1>2. ASSUME NEW volume \in Volumes, MountFiles(volume)
      PROVE  FsInv'
  BY <1>types, <1>mounting, <1>2 DEF MountFiles
<1>3. ASSUME NEW volume \in Volumes, Unmount(volume)
      PROVE  FsInv'
  BY <1>types, <1>mounting, <1>3 DEF Unmount
<1>4. ASSUME NEW volume \in Volumes, NEW asked \in BOOLEAN, MountFormats(volume, asked)
      PROVE  FsInv'
  <2>1. fsErased' = {}
    BY <1>types, <1>4 DEF MountFormats, MayFormat
  <2> QED
    BY <1>types, <1>media, <1>mounting, <1>4, <2>1 DEF MountFormats
<1>5. ASSUME NEW volume \in Volumes, NEW asked \in BOOLEAN, MountFails(volume, asked)
      PROVE  FsInv'
  BY <1>types, <1>media, <1>told, <1>5 DEF MountFails
<1>6. CASE FormatLittleFs
  BY <1>types, <1>media, <1>mounting, <1>6 DEF FormatLittleFs, Formatted
<1>7. CASE FormatFails
  <2>1. PICK as \in {"files", "foreign", fsMedium["littlefs"]} : Formatted("littlefs", as)
    BY <1>7 DEF FormatFails
  <2>2. as \in Media
    BY <1>types, <1>media, <2>1
  <2> QED
    BY <1>types, <1>media, <1>mounting, <1>7, <2>1, <2>2 DEF FormatFails, Formatted
<1>8. CASE FormatUnmountFails
  BY <1>types, <1>media, <1>told, <1>8 DEF FormatUnmountFails
<1>9. CASE FormatCard
  <2>1. fsMedium' \in [Volumes -> Media]
    <3>1. PICK as \in {"files", "foreign"} : fsMedium' = [fsMedium EXCEPT !["sd"] = as]
      BY <1>9 DEF FormatCard, Formatted
    <3>2. as \in Media
      BY <3>1 DEF Media
    <3> QED
      BY <1>types, <3>1, <3>2
  <2>2. UNCHANGED <<fsMounted, fsVfs, fsShown, fsDefault, fsChosen, fsErased>>
    BY <1>9 DEF FormatCard
  <2> QED
    BY <2>1, <2>2 DEF FsInv, FsTypeOK, DefaultMounted, NeverFormatsData
<1>10. ASSUME NEW volume \in Volumes, SetDefaultVolume(volume)
       PROVE  FsInv'
  BY <1>types, <1>media, <1>10
     DEF SetDefaultVolume, FsInv, FsTypeOK, DefaultMounted, NeverFormatsData, Volumes
<1>11. CASE FsRestart
  BY <1>types, <1>11
     DEF FsRestart, Formatted, FsInv, FsTypeOK, DefaultMounted, NeverFormatsData, NoVolume
<1>12. CASE UNCHANGED fsVars
  BY <1>12 DEF fsVars, FsInv, FsTypeOK, DefaultMounted, NeverFormatsData
<1> QED
  BY <1>1, <1>2, <1>3, <1>4, <1>5, <1>6, <1>7, <1>8, <1>9, <1>10, <1>11, <1>12 DEF FsNext

LEMMA FsStarts ==
  ASSUME FsInit
  PROVE  FsInv
BY DEF FsInit, FsInv, FsTypeOK, DefaultMounted, NeverFormatsData, NoVolume

----------------------------------------------------------------------------
(* Updates of the firmware. *)

Handle == [open : BOOLEAN, active : BOOLEAN, finished : BOOLEAN, written : 0 .. SlotSize,
           expected : 0 .. SlotSize, partition : Partitions]
Cells == Updates \cup {"factory", "blank", "mixed"}
Other == OtherSlot(otaRunning)

\* An update that is open goes to the slot that does not run, and only while the
\* image that runs is confirmed; and it keeps to what begin was told.
HandleSafe(h) ==
  /\ h.active \/ h.finished => h.open
  /\ h.open => h.partition = Other /\ otaState[otaRunning] = "valid"
  /\ h.expected # 0 => h.written <= h.expected
  /\ h.finished => ~h.active /\ h.expected \in {0, h.written}

\* An image that is not confirmed runs only while nothing else is to boot.
SlotsSafe ==
  /\ otaFlash \in [Partitions -> [1 .. SlotSize -> Cells]]
  /\ otaState \in [Partitions -> {"new", "pending", "valid", "invalid"}]
  /\ otaRunning \in Partitions /\ otaBoot \in Partitions
  /\ Intact(otaRunning) /\ otaState[otaRunning] \in {"valid", "pending"}
  /\ otaState[otaRunning] = "pending" => Fallback(Other)
  /\ otaBoot # otaRunning => otaState[otaRunning] = "valid"

OtaInv ==
  /\ SlotsSafe
  /\ updates \in [Updates -> Handle] /\ \A u \in Updates : HandleSafe(updates[u])

LEMMA OtaPromises ==
  ASSUME OtaInv
  PROVE  OtaTypeOK /\ AlwaysBoots /\ SizesKept
<1>1. OtaTypeOK /\ SizesKept
  BY DEF OtaInv, SlotsSafe, HandleSafe, OtaTypeOK, SizesKept, Handle, Cells
<1>2. \A u \in Updates : updates[u].active => updates[u].partition # otaRunning
  BY DEF OtaInv, SlotsSafe, HandleSafe, Other, OtherSlot, Partitions
<1>3. Intact(otaRunning) /\ (otaState[otaRunning] = "pending" => Fallback(Other))
  BY DEF OtaInv, SlotsSafe
<1>4. \/ Intact(otaBoot) /\ otaState[otaBoot] \in {"new", "valid"}
      \/ Fallback(OtherSlot(otaBoot))
  <2>1. CASE otaBoot = otaRunning
    BY <2>1 DEF OtaInv, SlotsSafe, Other
  <2>2. CASE otaBoot # otaRunning
    <3>1. OtherSlot(otaBoot) = otaRunning
      BY <2>2 DEF OtaInv, SlotsSafe, OtherSlot, Partitions
    <3> QED
      BY <2>2, <3>1 DEF OtaInv, SlotsSafe, Fallback
  <2> QED
    BY <2>1, <2>2
<1> QED
  BY <1>1, <1>2, <1>3, <1>4 DEF AlwaysBoots, Other

\* The fields of a handle after an update of it.
HandleIs(h, open, active, finished, written, expected, partition) ==
  /\ h \in Handle /\ h.open = open /\ h.active = active /\ h.finished = finished
  /\ h.written = written /\ h.expected = expected /\ h.partition = partition

LEMMA HandleFields ==
  ASSUME NEW h \in Handle, NEW b \in BOOLEAN, NEW w \in 0 .. SlotSize,
         NEW e \in 0 .. SlotSize, NEW p \in Partitions
  PROVE  /\ HandleIs([h EXCEPT !.active = FALSE, !.finished = b], h.open, FALSE, b,
                     h.written, h.expected, h.partition)
         /\ HandleIs([h EXCEPT !.active = FALSE], h.open, FALSE, h.finished, h.written,
                     h.expected, h.partition)
         /\ HandleIs([h EXCEPT !.written = w], h.open, h.active, h.finished, w,
                     h.expected, h.partition)
         /\ HandleIs([NoUpdate EXCEPT !.open = TRUE, !.active = TRUE, !.expected = e,
                                      !.partition = p], TRUE, TRUE, FALSE, 0, e, p)
<1>1. HandleIs([h EXCEPT !.active = FALSE, !.finished = b], h.open, FALSE, b,
               h.written, h.expected, h.partition)
  BY DEF HandleIs, Handle
<1>2. HandleIs([h EXCEPT !.active = FALSE], h.open, FALSE, h.finished, h.written,
               h.expected, h.partition)
  BY DEF HandleIs, Handle
<1>3. HandleIs([h EXCEPT !.written = w], h.open, h.active, h.finished, w, h.expected,
               h.partition)
  BY DEF HandleIs, Handle
<1>4. HandleIs([NoUpdate EXCEPT !.open = TRUE, !.active = TRUE, !.expected = e,
                                !.partition = p], TRUE, TRUE, FALSE, 0, e, p)
  <2> DEFINE n == NoUpdate
  <2>1. n \in Handle /\ n.finished = FALSE /\ n.written = 0
    BY OtaAssumption DEF Handle, NoUpdate, Partitions
  <2> HIDE DEF n
  <2>2. ASSUME NEW t \in BOOLEAN
        PROVE  HandleIs([n EXCEPT !.open = t, !.active = t, !.expected = e, !.partition = p],
                        t, t, FALSE, 0, e, p)
    BY <2>1 DEF HandleIs, Handle
  <2> QED
    BY <2>2 DEF n
<1> QED
  BY <1>1, <1>2, <1>3, <1>4

LEMMA NoUpdateFields == HandleIs(NoUpdate, FALSE, FALSE, FALSE, 0, 0, "ota0")
BY OtaAssumption DEF HandleIs, Handle, NoUpdate, Partitions

\* A step of one handle that leaves the slots alone.
LEMMA OneHandle ==
  ASSUME OtaInv, NEW u \in Updates, NEW h \in Handle, HandleSafe(h),
         updates' = [updates EXCEPT ![u] = h], UNCHANGED otaSlots, SlotsSafe'
  PROVE  OtaInv'
<1>1. updates \in [Updates -> Handle] /\ \A v \in Updates : HandleSafe(updates[v])
  BY DEF OtaInv
<1>2. updates' \in [Updates -> Handle]
  BY <1>1
<1>3. ASSUME NEW v \in Updates
      PROVE  HandleSafe(updates[v])'
  <2>1. HandleSafe(updates'[v])
    BY <1>1
  <2> QED
    BY <2>1 DEF HandleSafe, Other, otaSlots
<1> QED
  BY <1>2, <1>3 DEF OtaInv

\* What is written goes to the other slot while the image that runs is confirmed.
LEMMA OtherSlotOnly ==
  ASSUME SlotsSafe, otaState[otaRunning] = "valid", UNCHANGED otaSlots,
         otaFlash' \in [Partitions -> [1 .. SlotSize -> Cells]],
         otaFlash'[otaRunning] = otaFlash[otaRunning]
  PROVE  SlotsSafe'
<1>1. Intact(otaRunning)'
  BY DEF SlotsSafe, Intact, otaSlots
<1> QED
  BY <1>1 DEF SlotsSafe, otaSlots

LEMMA SlotsUntouched ==
  ASSUME SlotsSafe, UNCHANGED <<otaFlash, otaSlots>>
  PROVE  SlotsSafe'
BY DEF SlotsSafe, Intact, Fallback, Other, otaSlots

LEMMA OtaStep ==
  ASSUME OtaInv, [OtaNext]_otaVars
  PROVE  OtaInv'
<1>types. /\ otaFlash \in [Partitions -> [1 .. SlotSize -> Cells]]
          /\ otaState \in [Partitions -> {"new", "pending", "valid", "invalid"}]
          /\ otaRunning \in Partitions /\ otaBoot \in Partitions
          /\ Intact(otaRunning) /\ otaState[otaRunning] \in {"valid", "pending"}
          /\ updates \in [Updates -> Handle] /\ \A u \in Updates : HandleSafe(updates[u])
          /\ SlotsSafe
  BY DEF OtaInv, SlotsSafe
<1>other. Other \in Partitions /\ Other # otaRunning /\ OtherSlot(Other) = otaRunning
          /\ \A slot \in Partitions : slot = Other \/ slot = otaRunning
  BY <1>types DEF Other, OtherSlot, Partitions
<1>none. updates' = [u \in Updates |-> NoUpdate] =>
           updates' \in [Updates -> Handle] /\ \A u \in Updates : HandleSafe(updates[u])'
  BY NoUpdateFields DEF HandleIs, HandleSafe
<1>1. ASSUME NEW u \in Updates, NEW expected \in ExpectedSizes, OtaBegin(u, expected)
      PROVE  OtaInv'
  <2> DEFINE h == [NoUpdate EXCEPT !.open = TRUE, !.active = TRUE, !.expected = expected,
                                   !.partition = Other]
  <2>1. expected \in 0 .. SlotSize /\ otaState[otaRunning] = "valid"
    BY <1>1, <1>types, OtaAssumption DEF OtaBegin
  <2>2. HandleIs(h, TRUE, TRUE, FALSE, 0, expected, Other)
    <3>1. updates[u] \in Handle /\ FALSE \in BOOLEAN /\ 0 \in 0 .. SlotSize
      BY <1>types, OtaAssumption
    <3> QED
      BY <1>other, <2>1, <3>1, HandleFields
  <2>3. updates' = [updates EXCEPT ![u] = h]
    BY <1>1 DEF OtaBegin, UpdateSlot, Other
  <2> HIDE DEF h
  <2>4. h \in Handle /\ HandleSafe(h)
    BY <2>1, <2>2 DEF HandleIs, HandleSafe
  <2> DEFINE cells == [unit \in 1 .. SlotSize |->
                         IF expected = 0 \/ unit <= expected THEN "blank"
                         ELSE otaFlash[Other][unit]]
  <2>5. otaFlash' = [otaFlash EXCEPT ![Other] = cells]
    BY <1>1, <1>types, <1>other DEF OtaBegin, UpdateSlot, Other
  <2>6. cells \in [1 .. SlotSize -> Cells]
    <3> DEFINE old == otaFlash[Other]
    <3>1. old \in [1 .. SlotSize -> Cells] /\ "blank" \in Cells
      BY <1>types, <1>other DEF Cells
    <3> HIDE DEF old
    <3>2. [unit \in 1 .. SlotSize |-> IF expected = 0 \/ unit <= expected THEN "blank"
                                      ELSE old[unit]] \in [1 .. SlotSize -> Cells]
      BY <3>1
    <3> QED
      BY <3>2 DEF old
  <2> HIDE DEF cells
  <2>7. SlotsSafe'
    <3>1. /\ otaFlash' \in [Partitions -> [1 .. SlotSize -> Cells]]
          /\ otaFlash'[otaRunning] = otaFlash[otaRunning]
      BY <1>types, <1>other, <2>5, <2>6
    <3>2. UNCHANGED otaSlots
      BY <1>1 DEF OtaBegin
    <3> QED
      BY <1>types, <2>1, <3>1, <3>2, OtherSlotOnly
  <2> QED
    BY <1>1, <2>3, <2>4, <2>7, OneHandle DEF OtaBegin
\* A write of whole or part of the data, by a handle that is active.
<1>programmed. ASSUME NEW u \in Updates, NEW size \in WriteSizes, NEW data \in Cells,
                      updates[u].active, otaFlash' = Programmed(u, size, data),
                      UNCHANGED otaSlots
               PROVE  SlotsSafe'
  <2> DEFINE from == updates[u].written
             cells == [unit \in 1 .. SlotSize |->
                         IF unit \notin from + 1 .. from + size THEN otaFlash[Other][unit]
                         ELSE IF otaFlash[Other][unit] = "blank" THEN data ELSE "mixed"]
  <2>1. updates[u].partition = Other /\ otaState[otaRunning] = "valid"
    BY <1>types, <1>programmed DEF HandleSafe
  <2>2. otaFlash' = [otaFlash EXCEPT ![Other] = cells]
    BY <1>types, <1>other, <1>programmed, <2>1 DEF Programmed
  <2>3. cells \in [1 .. SlotSize -> Cells]
    <3>1. \A unit \in 1 .. SlotSize : otaFlash[Other][unit] \in Cells
      BY <1>types, <1>other
    <3>2. "mixed" \in Cells /\ data \in Cells
      BY <1>programmed DEF Cells
    <3> QED
      BY <3>1, <3>2
  <2> HIDE DEF cells
  <2> QED
    BY <1>types, <1>other, <1>programmed, <2>1, <2>2, <2>3, OtherSlotOnly
<1>2. ASSUME NEW u \in Updates, NEW size \in WriteSizes, OtaWrite(u, size)
      PROVE  OtaInv'
  <2> DEFINE h == updates[u]  w == h.written + size  g == [h EXCEPT !.written = w]
  <2>1. h \in Handle /\ HandleSafe(h) /\ h.active
    BY <1>2, <1>types DEF OtaWrite
  <2>2. w \in 0 .. SlotSize /\ (h.expected # 0 => w <= h.expected)
    BY <1>2, <2>1, OtaAssumption DEF OtaWrite, Fits, Handle
  <2>3. updates' = [updates EXCEPT ![u] = g]
    BY <1>2, <1>types DEF OtaWrite
  <2> HIDE DEF w
  <2>4. HandleIs(g, h.open, h.active, h.finished, w, h.expected, h.partition)
    <3>1. FALSE \in BOOLEAN /\ 0 \in 0 .. SlotSize /\ "ota0" \in Partitions
      BY OtaAssumption DEF Partitions
    <3> QED
      BY <2>1, <2>2, <3>1, HandleFields
  <2> HIDE DEF g
  <2>5. g \in Handle /\ HandleSafe(g)
    BY <2>1, <2>2, <2>4 DEF HandleIs, HandleSafe
  <2>6. SlotsSafe'
    BY <1>2, <1>programmed DEF OtaWrite, Cells
  <2> QED
    BY <1>2, <2>3, <2>5, <2>6, OneHandle DEF OtaWrite
<1>3. ASSUME NEW u \in Updates, NEW size \in WriteSizes, OtaWriteFails(u, size)
      PROVE  OtaInv'
  <2>1. SlotsSafe'
    BY <1>3, <1>programmed DEF OtaWriteFails, Cells
  <2> QED
    BY <1>3, <1>types, <2>1 DEF OtaWriteFails, OtaInv, HandleSafe, Other, otaSlots
\* A handle that is no longer active; what it has written stays.
<1>ended. ASSUME NEW u \in Updates, NEW ok \in BOOLEAN, updates[u].open,
                 ok => updates[u].expected \in {0, updates[u].written},
                 updates' = Ended(u, ok), UNCHANGED <<otaFlash, otaSlots>>
          PROVE  OtaInv'
  <2> DEFINE h == updates[u]  g == [h EXCEPT !.active = FALSE, !.finished = ok]
  <2>1. h \in Handle /\ HandleSafe(h)
    BY <1>types
  <2>2. HandleIs(g, h.open, FALSE, ok, h.written, h.expected, h.partition)
    <3>1. 0 \in 0 .. SlotSize /\ "ota0" \in Partitions
      BY OtaAssumption DEF Partitions
    <3> QED
      BY <2>1, <3>1, HandleFields
  <2>3. updates' = [updates EXCEPT ![u] = g]
    BY <1>types, <1>ended DEF Ended, Handle
  <2> HIDE DEF g
  <2>4. g \in Handle /\ HandleSafe(g)
    BY <1>ended, <2>1, <2>2 DEF HandleIs, HandleSafe
  <2> QED
    BY <1>ended, <1>types, <2>3, <2>4, SlotsUntouched, OneHandle
<1>4. ASSUME NEW u \in Updates, OtaFinish(u)
      PROVE  OtaInv'
  <2>1. updates[u].active /\ updates[u].open /\ ~updates[u].finished
    BY <1>4, <1>types DEF OtaFinish, HandleSafe
  <2>2. CASE Complete(u)
    BY <1>4, <1>ended, <2>1, <2>2 DEF OtaFinish, Complete
  <2>3. CASE ~Complete(u)
    <3> DEFINE h == updates[u]  g == [h EXCEPT !.active = FALSE]
    <3>1. h \in Handle /\ HandleSafe(h)
      BY <1>types
    <3>2. HandleIs(g, h.open, FALSE, h.finished, h.written, h.expected, h.partition)
      <4>1. FALSE \in BOOLEAN /\ 0 \in 0 .. SlotSize /\ "ota0" \in Partitions
        BY OtaAssumption DEF Partitions
      <4> QED
        BY <3>1, <4>1, HandleFields
    <3>3. updates' = [updates EXCEPT ![u] = g] /\ UNCHANGED <<otaFlash, otaSlots>>
      BY <1>4, <1>types, <2>3 DEF OtaFinish
    <3> HIDE DEF g
    <3>4. g \in Handle /\ HandleSafe(g)
      BY <2>1, <3>1, <3>2 DEF HandleIs, HandleSafe
    <3> QED
      BY <1>types, <3>3, <3>4, SlotsUntouched, OneHandle
  <2> QED
    BY <2>2, <2>3
<1>5. ASSUME NEW u \in Updates, OtaActivate(u)
      PROVE  OtaInv'
  <2>1. updates[u].partition = Other /\ otaState[otaRunning] = "valid"
    BY <1>5, <1>types DEF OtaActivate, HandleSafe
  <2>2. /\ otaBoot' = Other /\ otaState' = [otaState EXCEPT ![Other] = "new"]
        /\ UNCHANGED <<updates, otaFlash, otaRunning>>
    BY <1>5, <2>1 DEF OtaActivate
  <2>3. otaState'[otaRunning] = "valid" /\ Other' = Other
        /\ otaState' \in [Partitions -> {"new", "pending", "valid", "invalid"}]
    BY <1>types, <1>other, <2>1, <2>2 DEF Other
  <2>4. SlotsSafe'
    BY <1>types, <1>other, <2>2, <2>3 DEF SlotsSafe, Intact
  <2> QED
    BY <1>types, <2>1, <2>2, <2>3, <2>4 DEF OtaInv, HandleSafe
<1>6. ASSUME NEW u \in Updates, OtaAbort(u)
      PROVE  OtaInv'
  BY <1>6, <1>ended DEF OtaAbort
<1>7. ASSUME NEW u \in Updates, OtaDestroy(u)
      PROVE  OtaInv'
  <2>1. NoUpdate \in Handle /\ HandleSafe(NoUpdate)
    BY NoUpdateFields DEF HandleIs, HandleSafe
  <2> QED
    BY <1>7, <1>types, <2>1, SlotsUntouched, OneHandle DEF OtaDestroy
<1>8. CASE OtaMarkValid
  <2>1. /\ otaState' = [otaState EXCEPT ![otaRunning] = "valid"]
        /\ UNCHANGED <<updates, otaFlash, otaRunning, otaBoot>>
    BY <1>8 DEF OtaMarkValid
  <2>2. otaState'[otaRunning] = "valid" /\ Other' = Other
        /\ otaState' \in [Partitions -> {"new", "pending", "valid", "invalid"}]
    BY <1>types, <2>1 DEF Other
  <2>3. SlotsSafe'
    BY <1>types, <2>1, <2>2 DEF SlotsSafe, Intact
  <2> QED
    BY <1>types, <2>1, <2>2, <2>3 DEF OtaInv, HandleSafe
<1>9. CASE OtaMarkInvalid
  <2>1. /\ Intact(Other) /\ otaState[Other] = "valid"
        /\ otaState' = [otaState EXCEPT ![otaRunning] = "invalid"]
        /\ otaRunning' = Other /\ otaBoot' = Other /\ otaFlash' = otaFlash
        /\ updates' = [u \in Updates |-> NoUpdate]
    BY <1>9 DEF OtaMarkInvalid, Fallback, Boots, Other
  <2>2. otaState'[otaRunning'] = "valid"
        /\ otaState' \in [Partitions -> {"new", "pending", "valid", "invalid"}]
    BY <1>types, <1>other, <2>1
  <2>3. SlotsSafe'
    BY <1>types, <1>other, <2>1, <2>2 DEF SlotsSafe, Intact
  <2> QED
    BY <1>none, <2>1, <2>3 DEF OtaInv
<1>10. CASE OtaRestart
  <2>1. updates' = [u \in Updates |-> NoUpdate] /\ otaFlash' = otaFlash
    BY <1>10 DEF OtaRestart
  <2>2. CASE /\ Intact(otaBoot) /\ otaState[otaBoot] \in {"new", "valid"}
             /\ Boots(otaBoot)
             /\ otaState' = [otaState EXCEPT ![otaBoot] = IF @ = "new" THEN "pending" ELSE @]
    <3>1. /\ otaState' \in [Partitions -> {"new", "pending", "valid", "invalid"}]
          /\ otaState'[otaBoot] \in {"pending", "valid"}
          /\ otaState'[otaBoot] = "pending" => otaState[otaBoot] = "new"
          /\ \A slot \in Partitions : slot # otaBoot => otaState'[slot] = otaState[slot]
      BY <1>types, <2>2
    <3>2. otaRunning' = otaBoot /\ otaBoot' = otaBoot /\ Intact(otaBoot)'
      BY <2>1, <2>2 DEF Boots, Intact
    <3>3. otaState'[otaBoot] = "pending" => Fallback(Other)'
      <4> HAVE otaState'[otaBoot] = "pending"
      <4>1. otaBoot # otaRunning
        BY <1>types, <3>1
      <4>2. otaState[otaRunning] = "valid" /\ Other' = otaRunning
        BY <1>types, <1>other, <3>2, <4>1 DEF SlotsSafe, Other
      <4>3. Intact(otaRunning) /\ otaState'[otaRunning] = "valid"
        BY <1>types, <3>1, <4>1, <4>2
      <4> QED
        BY <2>1, <4>2, <4>3 DEF Fallback, Intact
    <3>4. SlotsSafe'
      BY <1>types, <2>1, <3>1, <3>2, <3>3 DEF SlotsSafe, Intact
    <3> QED
      BY <1>none, <2>1, <3>4 DEF OtaInv
  <2>3. CASE /\ Fallback(OtherSlot(otaBoot))
             /\ Boots(OtherSlot(otaBoot))
             /\ otaState' = [otaState EXCEPT ![otaBoot] = "invalid"]
    <3> DEFINE slot == OtherSlot(otaBoot)
    <3>1. slot \in Partitions /\ slot # otaBoot
      BY <1>types DEF OtherSlot, Partitions
    <3>2. otaState' \in [Partitions -> {"new", "pending", "valid", "invalid"}]
          /\ otaState'[slot] = "valid"
      BY <1>types, <2>3, <3>1 DEF Fallback
    <3>3. otaRunning' = slot /\ otaBoot' = slot /\ Intact(otaRunning)'
      BY <2>1, <2>3 DEF Boots, Fallback, Intact
    <3>4. SlotsSafe'
      BY <1>types, <2>1, <3>1, <3>2, <3>3 DEF SlotsSafe
    <3> QED
      BY <1>none, <2>1, <3>4 DEF OtaInv
  <2> QED
    BY <1>10, <2>2, <2>3 DEF OtaRestart
<1>11. CASE UNCHANGED otaVars
  <2>1. SlotsSafe'
    BY <1>11, <1>types, SlotsUntouched DEF otaVars, otaSlots
  <2> QED
    BY <1>11, <1>types, <2>1 DEF OtaInv, HandleSafe, Other, otaVars, otaSlots
<1> QED
  BY <1>1, <1>2, <1>3, <1>4, <1>5, <1>6, <1>7, <1>8, <1>9, <1>10, <1>11 DEF OtaNext

LEMMA OtaStarts ==
  ASSUME OtaInit
  PROVE  OtaInv
<1>1. otaFlash \in [Partitions -> [1 .. SlotSize -> Cells]]
      /\ \A unit \in 1 .. SlotSize : otaFlash["ota0"][unit] = "factory"
  BY DEF OtaInit, Cells, Partitions
<1>2. Intact("ota0")
  <2>1. \A unit \in 1 .. ImageSize : otaFlash["ota0"][unit] = "factory"
    BY <1>1, OtaAssumption
  <2> QED
    BY <2>1 DEF Intact
<1>3. SlotsSafe
  BY <1>1, <1>2 DEF OtaInit, SlotsSafe, Partitions
<1>4. updates \in [Updates -> Handle] /\ \A u \in Updates : updates[u] = NoUpdate
  BY NoUpdateFields DEF OtaInit, HandleIs
<1> QED
  BY <1>3, <1>4, NoUpdateFields DEF OtaInv, HandleSafe, HandleIs

----------------------------------------------------------------------------
(* The managed context and its worker. *)

\* Only the program's task owns the arena, and only the worker is bound as one.
OwnersAreTheirs ==
  /\ ctx.owner \in {NoTask, "main"} /\ ctx.worker \in {NoTask, "worker"}
  /\ ctxArena \/ ctx.lifecycle \/ wrk.at # "none" \/ ctxCalled # {} => ctx.owner = "main"
  /\ ctxApp # "idle" => ctx.owner = "main"
  /\ ctxCalled \subseteq {"main"}
  /\ ctx.worker # NoTask => wrk.at = "entry"

\* An owner that is undone was bound for an arena that nobody has used yet.
OwnerIsNew ==
  ctxApp = "allocating" /\ ~ctxBound =>
    ~ctxArena /\ ~ctx.lifecycle /\ wrk.at = "none" /\ ctxCalled = {}

\* A worker is there only while it is recorded or about to be, and was made with
\* the entry that is recorded.
WorkerIsRecorded ==
  /\ wrk.at # "none" => ctx.lifecycle \/ ctxApp = "recording"
  /\ ctxApp \in {"creating", "recording"} => ~ctx.lifecycle
  /\ ctxApp \in {"creating", "joining"} => wrk.at = "none"
  /\ ctx.entry = ctxAsked
  /\ wrk.runs \in {NoEntry, ctxAsked} /\ (wrk.at = "none" => wrk.runs = NoEntry)

CtxInv == ContextTypeOK /\ OwnersAreTheirs /\ OwnerIsNew /\ WorkerIsRecorded

LEMMA ContextPromises ==
  ASSUME CtxInv
  PROVE  ContextKept /\ WorkerKept
<1>types. /\ ctx.owner \in {NoTask, "main"} /\ ctx.worker \in {NoTask, "worker"}
  BY DEF CtxInv, OwnersAreTheirs
<1>1. ASSUME ctx.owner # NoTask, NEW i \in {0, 1}
      PROVE  Cardinality({task \in Tasks : Exists(task) /\ ContextIndex(task) = i}) <= 1
  <2> DEFINE S == {task \in Tasks : Exists(task) /\ ContextIndex(task) = i}
             t == IF i = 0 THEN "main" ELSE "worker"
  <2>1. S \subseteq {t}
    <3>1. ctx.owner = "main"
      BY <1>types, <1>1
    <3>2. \A task \in Tasks : ContextIndex(task) = 0 => task = "main"
      BY <3>1 DEF ContextIndex, CoreOf, Tasks, NoTask
    <3>3. \A task \in Tasks : ContextIndex(task) = 1 => task = "worker"
      BY <1>types, <3>1 DEF ContextIndex, CoreOf, Tasks, NoTask
    <3> QED
      BY <1>1, <3>2, <3>3
  <2>2. IsFiniteSet({t}) /\ Cardinality({t}) = 1
    BY FS_Singleton
  <2>3. Cardinality(S) <= Cardinality({t})
    BY <2>1, <2>2, FS_Subset
  <2> QED
    BY <2>2, <2>3
<1>2. ctxCalled \subseteq {ctx.owner}
  BY <1>types DEF CtxInv, OwnersAreTheirs, NoTask
<1> QED
  BY <1>1, <1>2 DEF CtxInv, OwnersAreTheirs, WorkerIsRecorded, ContextKept, WorkerKept

Context == [owner : Tasks \cup {NoTask}, worker : Tasks \cup {NoTask},
            lifecycle : BOOLEAN, entry : Entries \cup {NoEntry}]
WorkerTask == [at : {"none", "created", "entry", "unbound", "suspended"},
               runs : Entries \cup {NoEntry}]

\* The fields of the context, and of the worker, after an update of one of them.
ContextIs(c, owner, worker, lifecycle, entry) ==
  /\ c \in Context /\ c.owner = owner /\ c.worker = worker
  /\ c.lifecycle = lifecycle /\ c.entry = entry
WorkerIs(w, at, runs) == w \in WorkerTask /\ w.at = at /\ w.runs = runs

LEMMA ContextFields ==
  ASSUME ctx \in Context, NEW t \in Tasks \cup {NoTask}, NEW b \in BOOLEAN,
         NEW e \in Entries \cup {NoEntry}
  PROVE  /\ ContextIs([ctx EXCEPT !.owner = t], t, ctx.worker, ctx.lifecycle, ctx.entry)
         /\ ContextIs([ctx EXCEPT !.worker = t], ctx.owner, t, ctx.lifecycle, ctx.entry)
         /\ ContextIs([ctx EXCEPT !.lifecycle = b], ctx.owner, ctx.worker, b, ctx.entry)
         /\ ContextIs([ctx EXCEPT !.entry = e], ctx.owner, ctx.worker, ctx.lifecycle, e)
BY DEF ContextIs, Context

LEMMA WorkerFields ==
  ASSUME wrk \in WorkerTask, NEW e \in Entries \cup {NoEntry}
  PROVE  /\ WorkerIs([wrk EXCEPT !.at = "unbound"], "unbound", wrk.runs)
         /\ WorkerIs([wrk EXCEPT !.at = "suspended"], "suspended", wrk.runs)
         /\ WorkerIs([at |-> "created", runs |-> NoEntry], "created", NoEntry)
         /\ WorkerIs([at |-> "entry", runs |-> e], "entry", e)
         /\ WorkerIs(NoWorker, "none", NoEntry)
BY DEF WorkerIs, WorkerTask, NoWorker

LEMMA CtxStarts ==
  ASSUME ContextInit
  PROVE  CtxInv
<1>1. ContextIs(ctx, NoTask, NoTask, FALSE, NoEntry) /\ WorkerIs(wrk, "none", NoEntry)
  BY DEF ContextInit, ContextIs, Context, WorkerIs, WorkerTask, NoWorker
<1>2. ctxArena = FALSE /\ ctxApp = "idle" /\ ctxBound = FALSE /\ ctxAsked = NoEntry
      /\ ctxCalled = {}
  BY DEF ContextInit
<1> QED
  BY <1>1, <1>2 DEF CtxInv, ContextTypeOK, OwnersAreTheirs, OwnerIsNew, WorkerIsRecorded,
     ContextIs, Context, WorkerIs, WorkerTask

LEMMA CtxStep ==
  ASSUME CtxInv, [ContextNext]_ctxVars
  PROVE  CtxInv'
<1>types. /\ ctx \in Context /\ wrk \in WorkerTask
          /\ ctx.owner \in {NoTask, "main"} /\ ctx.worker \in {NoTask, "worker"}
          /\ ctx.lifecycle \in BOOLEAN /\ ctx.entry \in Entries \cup {NoEntry}
          /\ ctxArena \in BOOLEAN /\ ctxBound \in BOOLEAN
          /\ ctxApp \in {"idle", "allocating", "creating", "recording", "joining"}
          /\ ctxAsked \in Entries \cup {NoEntry} /\ ctxCalled \subseteq Tasks
          /\ "main" \in Tasks /\ "worker" \in Tasks /\ NoTask \notin Tasks
          /\ NoTask # "main" /\ NoTask # "worker"
  BY DEF CtxInv, ContextTypeOK, OwnersAreTheirs, Context, WorkerTask, Tasks, NoTask
<1>inv. OwnersAreTheirs /\ OwnerIsNew /\ WorkerIsRecorded
  BY DEF CtxInv
<1>done. ASSUME ctx' \in Context, wrk' \in WorkerTask, ctxArena' \in BOOLEAN,
                ctxBound' \in BOOLEAN,
                ctxApp' \in {"idle", "allocating", "creating", "recording", "joining"},
                ctxAsked' \in Entries \cup {NoEntry}, ctxCalled' \subseteq Tasks,
                OwnersAreTheirs', OwnerIsNew', WorkerIsRecorded'
         PROVE  CtxInv'
  BY <1>done DEF CtxInv, ContextTypeOK, Context, WorkerTask
<1> USE DEF OwnersAreTheirs, OwnerIsNew, WorkerIsRecorded
<1>1. CASE ArenaAcquire
  <2>1. ContextIs(ctx', "main", ctx.worker, ctx.lifecycle, ctx.entry)
    BY <1>1, <1>types, ContextFields DEF ArenaAcquire
  <2> QED
    BY <1>1, <1>types, <1>inv, <1>done, <2>1 DEF ArenaAcquire, ContextIs
<1>2. CASE ArenaAllocated
  BY <1>2, <1>types, <1>inv, <1>done DEF ArenaAllocated
<1>3. CASE ArenaFails
  <2> DEFINE owner == IF ctxBound THEN ctx.owner ELSE NoTask
  <2>1. owner \in Tasks \cup {NoTask} /\ owner \in {NoTask, "main"}
    BY <1>types
  <2>2. ctx' = [ctx EXCEPT !.owner = owner]
    BY <1>3, <1>types DEF ArenaFails, Context
  <2> HIDE DEF owner
  <2>3. ContextIs(ctx', owner, ctx.worker, ctx.lifecycle, ctx.entry)
    BY <1>types, <2>1, <2>2, ContextFields
  <2>4. ctxBound => owner = ctx.owner
    BY DEF owner
  <2> QED
    BY <1>3, <1>types, <1>inv, <1>done, <2>1, <2>3, <2>4 DEF ArenaFails, ContextIs
<1>4. CASE BindOwner
  <2>1. ContextIs(ctx', "main", ctx.worker, ctx.lifecycle, ctx.entry)
    BY <1>4, <1>types, ContextFields DEF BindOwner
  <2> QED
    BY <1>4, <1>types, <1>inv, <1>done, <2>1 DEF BindOwner, ContextIs
<1>5. CASE BindWorker
  <2>1. ContextIs(ctx', ctx.owner, "worker", ctx.lifecycle, ctx.entry)
    BY <1>5, <1>types, ContextFields DEF BindWorker
  <2> QED
    BY <1>5, <1>types, <1>inv, <1>done, <2>1 DEF BindWorker, ContextIs
<1>6. CASE Unbind
  <2>1. ContextIs(ctx', ctx.owner, NoTask, ctx.lifecycle, ctx.entry)
    BY <1>6, <1>types, ContextFields DEF Unbind
  <2>2. WorkerIs(wrk', "unbound", wrk.runs)
    BY <1>6, <1>types, WorkerFields DEF Unbind
  <2> QED
    BY <1>6, <1>types, <1>inv, <1>done, <2>1, <2>2 DEF Unbind, ContextIs, WorkerIs
<1>7. ASSUME NEW entry \in Entries, WorkerStart(entry)
      PROVE  CtxInv'
  <2>1. ContextIs(ctx', ctx.owner, ctx.worker, ctx.lifecycle, entry)
    BY <1>7, <1>types, ContextFields DEF WorkerStart
  <2> QED
    BY <1>7, <1>types, <1>inv, <1>done, <2>1 DEF WorkerStart, ContextIs
<1>8. CASE WorkerCreated
  <2>1. WorkerIs(wrk', "created", NoEntry)
    BY <1>8, <1>types, WorkerFields DEF WorkerCreated
  <2> QED
    BY <1>8, <1>types, <1>inv, <1>done, <2>1 DEF WorkerCreated, WorkerIs
<1>9. CASE CreateFails
  BY <1>9, <1>types, <1>inv, <1>done DEF CreateFails
<1>10. CASE WorkerRecorded
  <2>1. ContextIs(ctx', ctx.owner, ctx.worker, TRUE, ctx.entry)
    BY <1>10, <1>types, ContextFields DEF WorkerRecorded
  <2> QED
    BY <1>10, <1>types, <1>inv, <1>done, <2>1 DEF WorkerRecorded, ContextIs
<1>11. CASE Trampoline
  <2>1. WorkerIs(wrk', "entry", ctx.entry)
    BY <1>11, <1>types, WorkerFields DEF Trampoline
  <2> QED
    BY <1>11, <1>types, <1>inv, <1>done, <2>1 DEF Trampoline, WorkerIs
<1>12. CASE EntryReturns
  <2>1. WorkerIs(wrk', "suspended", wrk.runs)
    BY <1>12, <1>types, WorkerFields DEF EntryReturns
  <2> QED
    BY <1>12, <1>types, <1>inv, <1>done, <2>1 DEF EntryReturns, WorkerIs
<1>13. CASE WorkerJoin
  <2>1. WorkerIs(wrk', "none", NoEntry)
    BY <1>13, <1>types, WorkerFields DEF WorkerJoin
  <2> QED
    BY <1>13, <1>types, <1>inv, <1>done, <2>1 DEF WorkerJoin, WorkerIs
<1>14. CASE WorkerJoined
  <2>1. ContextIs(ctx', ctx.owner, ctx.worker, FALSE, ctx.entry)
    BY <1>14, <1>types, ContextFields DEF WorkerJoined
  <2> QED
    BY <1>14, <1>types, <1>inv, <1>done, <2>1 DEF WorkerJoined, ContextIs
<1>15. ASSUME NEW task \in Tasks, CallbackDispatch(task)
       PROVE  CtxInv'
  <2>1. task = "main" /\ ctxApp = "idle" /\ ctxCalled' = ctxCalled \cup {task}
        /\ UNCHANGED <<ctx, ctxArena, ctxApp, ctxBound, ctxAsked, wrk>> /\ ctx.owner = "main"
    <3>1. ctx.owner = task
      BY <1>15 DEF CallbackDispatch
    <3>2. task = "main"
      BY <1>types, <3>1
    <3> QED
      BY <1>15, <3>1, <3>2 DEF CallbackDispatch, CanCall
  <2> QED
    BY <1>types, <1>inv, <1>done, <2>1
<1>16. ASSUME NEW task \in Tasks, CallbackEnds(task)
       PROVE  CtxInv'
  <2>1. ctxCalled' \subseteq ctxCalled
        /\ UNCHANGED <<ctx, ctxArena, ctxApp, ctxBound, ctxAsked, wrk>>
    BY <1>16 DEF CallbackEnds
  <2> QED
    BY <1>types, <1>inv, <1>done, <2>1
<1>17. CASE UNCHANGED ctxVars
  BY <1>17, <1>types, <1>inv, <1>done DEF ctxVars
<1> QED
  BY <1>1, <1>2, <1>3, <1>4, <1>5, <1>6, <1>7, <1>8, <1>9, <1>10, <1>11, <1>12, <1>13,
     <1>14, <1>15, <1>16, <1>17 DEF ContextNext

----------------------------------------------------------------------------
(* Ethernet: what is made, and deleted. *)

Link == [initialized : BOOLEAN, started : BOOLEAN, hasLink : BOOLEAN,
         status : Statuses, onEth : BOOLEAN, onIp : BOOLEAN]
Phy == [link : BOOLEAN, ip : BOOLEAN, lost : BOOLEAN]
Made == {"mac", "phy", "driver", "netif", "glue"}
Posted == EthEvents \cup IpEvents
AppStates == {"idle", "registering", "clearing", "clearingStatus", "starting", "started",
              "release", "unregister", "delete"}

EthTypes ==
  /\ eth \in Link /\ phy \in Phy /\ ethHeld \subseteq Made
  /\ ethRing \in Seq(Statuses) /\ ethLoop \in Seq(Posted)
  /\ ethTask \in Statuses \cup {"idle"} /\ ethTaken \in Statuses
  /\ ethLost \in BOOLEAN /\ ethApp \in AppStates

\* Everything is there from the making to the deleting, the handlers go before
\* it, and the callback runs only for a handler.
EthInOrder ==
  /\ ethApp = "idle" =>
       /\ ethHeld = IF eth.initialized THEN Made ELSE {}
       /\ eth.onEth = eth.initialized /\ eth.onIp = eth.initialized
       /\ eth.started = eth.initialized
  /\ ethApp # "idle" => ethHeld = Made
  /\ ethApp \in {"registering", "clearing", "clearingStatus", "starting", "started"} =>
       ~eth.initialized /\ ~eth.started
  /\ ethApp \in {"clearing", "clearingStatus", "starting", "started"} =>
       eth.onEth /\ eth.onIp
  /\ ethApp \in {"unregister", "delete"} => ~eth.started
  /\ ethApp = "delete" => ~eth.onEth /\ ~eth.onIp
  /\ eth.started => eth.initialized
  /\ eth.initialized /\ ethApp # "delete" => eth.onEth /\ eth.onIp
  /\ ethTask # "idle" => eth.onEth \/ eth.onIp

EthInv == EthTypes /\ Len(ethRing) <= EthCapacity /\ EthInOrder
LEMMA PartOfParts ==
  ASSUME NEW S, NEW parts \in Seq(S), NEW n \in 0 .. Len(parts)
  PROVE  ToSet(SubSeq(parts, 1, n)) \subseteq S
<1>1. SubSeq(parts, 1, n) \in Seq(S) /\ Len(SubSeq(parts, 1, n)) = n
  OBVIOUS
<1>2. \A i \in 1 .. n : SubSeq(parts, 1, n)[i] = parts[i] /\ parts[i] \in S
  OBVIOUS
<1>3. DOMAIN SubSeq(parts, 1, n) = 1 .. n
  BY <1>1
<1> QED
  BY <1>2, <1>3 DEF ToSet

LEMMA EthPartsSet ==
  /\ ToSet(EthParts) = Made
  /\ \A n \in 0 .. Len(EthParts) :
       ToSet(SubSeq(EthParts, 1, n)) \ {"glue", "netif", "driver", "mac", "phy"} = {}
<1>1. EthParts \in Seq(Made)
  BY DEF Made, EthParts
<1>2. DOMAIN EthParts = {1, 2, 3, 4, 5}
  BY DEF EthParts
<1>3. EthParts[1] = "mac" /\ EthParts[2] = "phy" /\ EthParts[3] = "driver"
      /\ EthParts[4] = "netif" /\ EthParts[5] = "glue"
  BY DEF EthParts
<1>4. ToSet(EthParts) = Made
  BY <1>2, <1>3 DEF ToSet, Made
<1>5. \A n \in 0 .. Len(EthParts) : ToSet(SubSeq(EthParts, 1, n)) \subseteq Made
  BY <1>1, PartOfParts
<1> QED
  BY <1>4, <1>5 DEF Made

LEMMA EthPromises ==
  ASSUME EthInv
  PROVE  EthTypeOK /\ EthReleased
BY EthPartsSet DEF EthInv, EthTypes, EthInOrder, EthTypeOK, EthReleased, Link, Posted, Made

\* The fields of the module after an update of it.
LinkIs(e, initialized, started, hasLink, status, onEth, onIp) ==
  /\ e \in Link /\ e.initialized = initialized /\ e.started = started
  /\ e.hasLink = hasLink /\ e.status = status /\ e.onEth = onEth /\ e.onIp = onIp

LEMMA LinkFields ==
  ASSUME eth \in Link, NEW b \in BOOLEAN, NEW c \in BOOLEAN, NEW s \in Statuses
  PROVE  /\ LinkIs([eth EXCEPT !.onEth = b], eth.initialized, eth.started, eth.hasLink,
                   eth.status, b, eth.onIp)
         /\ LinkIs([eth EXCEPT !.onIp = b], eth.initialized, eth.started, eth.hasLink,
                   eth.status, eth.onEth, b)
         /\ LinkIs([eth EXCEPT !.onIp = b, !.onEth = c], eth.initialized, eth.started,
                   eth.hasLink, eth.status, c, b)
         /\ LinkIs([eth EXCEPT !.hasLink = b, !.status = s], eth.initialized, eth.started,
                   b, s, eth.onEth, eth.onIp)
         /\ LinkIs([eth EXCEPT !.started = b, !.initialized = c], c, b, eth.hasLink,
                   eth.status, eth.onEth, eth.onIp)
         /\ LinkIs([eth EXCEPT !.started = b], eth.initialized, b, eth.hasLink,
                   eth.status, eth.onEth, eth.onIp)
         /\ LinkIs([eth EXCEPT !.initialized = b, !.hasLink = c, !.status = s], b,
                   eth.started, c, s, eth.onEth, eth.onIp)
         /\ LinkIs([eth EXCEPT !.hasLink = b], eth.initialized, eth.started, b, eth.status,
                   eth.onEth, eth.onIp)
         /\ LinkIs([eth EXCEPT !.status = s], eth.initialized, eth.started, eth.hasLink, s,
                   eth.onEth, eth.onIp)
BY DEF LinkIs, Link

PhyIs(p, link, ip, lost) == p \in Phy /\ p.link = link /\ p.ip = ip /\ p.lost = lost

LEMMA PhyFields ==
  ASSUME phy \in Phy, NEW b \in BOOLEAN, NEW c \in BOOLEAN
  PROVE  /\ PhyIs([phy EXCEPT !.link = b], b, phy.ip, phy.lost)
         /\ PhyIs([phy EXCEPT !.ip = b, !.lost = c], phy.link, b, c)
         /\ PhyIs([link |-> FALSE, ip |-> FALSE, lost |-> b], FALSE, FALSE, b)
         /\ PhyIs(Unlinked, FALSE, FALSE, FALSE)
BY DEF PhyIs, Phy, Unlinked

----------------------------------------------------------------------------
(* Ethernet: what the program is told. *)

Matches(status) ==
  IF ~phy.link THEN status = "down"
  ELSE IF phy.ip THEN status = "up" ELSE status \in {"connected", "noIp"}

\* The events are of a session whose status has been cleared.
Listening ==
  ethApp \in {"starting", "started"} \/ (eth.initialized /\ ethApp # "delete")

NoLinkEvent == \A i \in DOMAIN ethLoop : ethLoop[i] \notin EthEvents

LastTold == IF ethRing = <<>> THEN ethTaken ELSE Last(ethRing)

\* A driver that is stopped has no link.
StoppedHasNone == /\ ~Running => ~phy.link /\ ~phy.lost
                  /\ ~phy.link => ~phy.ip

\* The last event posted is what happened to the link last; a stopped driver has
\* said so.
LoopTellsLast ==
  ethLoop # <<>> =>
    /\ Last(ethLoop) = "connected" => phy.link /\ ~phy.ip
    /\ Last(ethLoop) = "gotIp" => phy.link /\ phy.ip
    /\ Last(ethLoop) = "lostIp" => ~phy.ip
    /\ Last(ethLoop) \in {"disconnected", "stop"} => ~phy.link
    /\ ~Running => Last(ethLoop) = "stop"

\* So does the last event of the link, whatever came of addresses after it.
LoopTellsLink ==
  \A i \in DOMAIN ethLoop :
    ethLoop[i] \in EthEvents
    /\ (\A j \in DOMAIN ethLoop : j > i => ethLoop[j] \notin EthEvents)
      => (ethLoop[i] = "connected" <=> phy.link)

\* When no event of the link waits, has_link is the link; when none at all waits,
\* the status that is being reported, or was, is the link's.
HandledAreTold ==
  /\ Listening /\ NoLinkEvent => eth.hasLink = phy.link
  /\ ethLoop = <<>> /\ ethTask # "idle" => Matches(ethTask)
  /\ Listening /\ ethLoop = <<>> /\ ethTask = "idle" =>
       /\ Matches(eth.status)
       /\ ~ethLost => eth.status = LastTold
  /\ ethApp = "clearingStatus" /\ ethLoop = <<>> /\ ethTask = "idle" /\ ~ethLost =>
       LastTold = "down"

LinkInv == StoppedHasNone /\ LoopTellsLast /\ LoopTellsLink /\ HandledAreTold
LEMMA StatusValues ==
  /\ \A link : StatusOf("connected", link) = "connected" /\ StatusOf("gotIp", link) = "up"
               /\ StatusOf("disconnected", link) = "down" /\ StatusOf("stop", link) = "down"
  /\ StatusOf("lostIp", TRUE) = "noIp" /\ StatusOf("lostIp", FALSE) = "down"
BY Zenon DEF StatusOf

LEMMA PostedLast ==
  ASSUME ethLoop \in Seq(Posted), NEW e \in Posted, ethLoop' = Append(ethLoop, e)
  PROVE  /\ ethLoop' \in Seq(Posted) /\ ethLoop' # <<>> /\ Last(ethLoop') = e
         /\ e \in EthEvents => /\ ~NoLinkEvent'
                               /\ (e = "connected" <=> phy'.link) => LoopTellsLink'
         /\ e \notin EthEvents =>
              /\ NoLinkEvent' => NoLinkEvent
              /\ LoopTellsLink /\ phy'.link = phy.link => LoopTellsLink'
<1>1. /\ ethLoop' \in Seq(Posted) /\ Len(ethLoop) \in Nat /\ Len(ethLoop') = Len(ethLoop) + 1
      /\ ethLoop'[Len(ethLoop) + 1] = e
      /\ \A i \in 1 .. Len(ethLoop) : ethLoop'[i] = ethLoop[i]
  OBVIOUS
<1>2. DOMAIN ethLoop = 1 .. Len(ethLoop) /\ DOMAIN ethLoop' = 1 .. Len(ethLoop) + 1
  BY <1>1
<1>3. ethLoop' # <<>> /\ Last(ethLoop') = e
  BY <1>1 DEF Last
<1>4. ASSUME e \in EthEvents
      PROVE  ~NoLinkEvent' /\ ((e = "connected" <=> phy'.link) => LoopTellsLink')
  <2>1. ~NoLinkEvent'
    BY <1>1, <1>2, <1>4 DEF NoLinkEvent
  <2>2. ASSUME NEW i \in DOMAIN ethLoop', \A j \in DOMAIN ethLoop' : j > i => ethLoop'[j] \notin EthEvents
        PROVE  i = Len(ethLoop) + 1
    BY <1>1, <1>2, <1>4, <2>2
  <2> QED
    BY <1>1, <2>1, <2>2 DEF LoopTellsLink
<1>5. ASSUME e \notin EthEvents
      PROVE  /\ NoLinkEvent' => NoLinkEvent
             /\ LoopTellsLink /\ phy'.link = phy.link => LoopTellsLink'
  <2>1. NoLinkEvent' => NoLinkEvent
    BY <1>1, <1>2 DEF NoLinkEvent
  <2>2. ASSUME LoopTellsLink, phy'.link = phy.link, NEW i \in DOMAIN ethLoop',
               ethLoop'[i] \in EthEvents,
               \A j \in DOMAIN ethLoop' : j > i => ethLoop'[j] \notin EthEvents
        PROVE  ethLoop'[i] = "connected" <=> phy'.link
    <3>1. i \in DOMAIN ethLoop /\ ethLoop[i] = ethLoop'[i]
      BY <1>1, <1>2, <1>5, <2>2
    <3>2. \A j \in DOMAIN ethLoop : j > i => ethLoop[j] \notin EthEvents
      BY <1>1, <1>2, <2>2
    <3> QED
      BY <2>2, <3>1, <3>2 DEF LoopTellsLink
  <2> QED
    BY <2>1, <2>2 DEF LoopTellsLink
<1> QED
  BY <1>1, <1>3, <1>4, <1>5

LEMMA TakenFirst ==
  ASSUME ethLoop \in Seq(Posted), ethLoop # <<>>, ethLoop' = Tail(ethLoop), phy' = phy
  PROVE  /\ ethLoop' \in Seq(Posted) /\ Head(ethLoop) \in Posted
         /\ ethLoop' # <<>> => Last(ethLoop') = Last(ethLoop)
         /\ ethLoop' = <<>> => Last(ethLoop) = Head(ethLoop)
         /\ NoLinkEvent' /\ Head(ethLoop) \notin EthEvents => NoLinkEvent
         /\ NoLinkEvent' /\ Head(ethLoop) \in EthEvents /\ LoopTellsLink =>
              (Head(ethLoop) = "connected" <=> phy.link)
         /\ LoopTellsLink => LoopTellsLink'
<1>1. /\ ethLoop' \in Seq(Posted) /\ Len(ethLoop) \in Nat \ {0}
      /\ Len(ethLoop') = Len(ethLoop) - 1
      /\ Head(ethLoop) = ethLoop[1] /\ Head(ethLoop) \in Posted
      /\ \A i \in 1 .. Len(ethLoop) - 1 : ethLoop'[i] = ethLoop[i + 1]
  OBVIOUS
<1>2. DOMAIN ethLoop = 1 .. Len(ethLoop) /\ DOMAIN ethLoop' = 1 .. Len(ethLoop) - 1
  BY <1>1
<1>3. ethLoop' # <<>> => Last(ethLoop') = Last(ethLoop)
  BY <1>1 DEF Last
<1>4. ethLoop' = <<>> => Last(ethLoop) = Head(ethLoop)
  BY <1>1 DEF Last
<1>5. ASSUME NoLinkEvent', NEW j \in DOMAIN ethLoop, j > 1
      PROVE  ethLoop[j] \notin EthEvents
  <2>1. j - 1 \in DOMAIN ethLoop' /\ ethLoop'[j - 1] = ethLoop[j]
    BY <1>1, <1>2, <1>5
  <2> QED
    BY <1>5, <2>1 DEF NoLinkEvent
<1>6. NoLinkEvent' /\ Head(ethLoop) \notin EthEvents => NoLinkEvent
  BY <1>1, <1>2, <1>5 DEF NoLinkEvent
<1>7. NoLinkEvent' /\ Head(ethLoop) \in EthEvents /\ LoopTellsLink =>
        (Head(ethLoop) = "connected" <=> phy.link)
  BY <1>1, <1>2, <1>5 DEF LoopTellsLink
<1>8. ASSUME LoopTellsLink, NEW i \in DOMAIN ethLoop', ethLoop'[i] \in EthEvents,
             \A j \in DOMAIN ethLoop' : j > i => ethLoop'[j] \notin EthEvents
      PROVE  ethLoop'[i] = "connected" <=> phy.link
  <2>1. i + 1 \in DOMAIN ethLoop /\ ethLoop[i + 1] = ethLoop'[i]
    BY <1>1, <1>2, <1>8
  <2>2. ASSUME NEW j \in DOMAIN ethLoop, j > i + 1
        PROVE  ethLoop[j] \notin EthEvents
    <3>1. j - 1 \in DOMAIN ethLoop' /\ ethLoop'[j - 1] = ethLoop[j] /\ j - 1 > i
      BY <1>1, <1>2, <2>2
    <3> QED
      BY <1>8, <3>1
  <2> QED
    BY <1>8, <2>1, <2>2 DEF LoopTellsLink
<1>9. LoopTellsLink => LoopTellsLink'
  BY <1>8 DEF LoopTellsLink
<1> QED
  BY <1>1, <1>3, <1>4, <1>6, <1>7, <1>9

\* The reports: one more, or the first taken.
LEMMA Reported ==
  ASSUME ethRing \in Seq(Statuses), NEW s \in Statuses
  PROVE  /\ Append(ethRing, s) \in Seq(Statuses) /\ Append(ethRing, s) # <<>>
         /\ Len(Append(ethRing, s)) = Len(ethRing) + 1 /\ Len(ethRing) \in Nat
         /\ Last(Append(ethRing, s)) = s
         /\ ethRing # <<>> =>
              /\ Tail(ethRing) \in Seq(Statuses) /\ Head(ethRing) \in Statuses
              /\ Len(Tail(ethRing)) = Len(ethRing) - 1
              /\ Last(ethRing) = IF Tail(ethRing) = <<>> THEN Head(ethRing)
                                 ELSE Last(Tail(ethRing))
<1>1. /\ Append(ethRing, s) \in Seq(Statuses) /\ Len(ethRing) \in Nat
      /\ Len(Append(ethRing, s)) = Len(ethRing) + 1
      /\ Append(ethRing, s)[Len(ethRing) + 1] = s
  OBVIOUS
<1>2. ASSUME ethRing # <<>>
      PROVE  /\ Tail(ethRing) \in Seq(Statuses) /\ Head(ethRing) \in Statuses
             /\ Head(ethRing) = ethRing[1] /\ Len(Tail(ethRing)) = Len(ethRing) - 1
             /\ \A i \in 1 .. Len(ethRing) - 1 : Tail(ethRing)[i] = ethRing[i + 1]
             /\ Len(ethRing) >= 1
  BY <1>2
<1>3. ASSUME ethRing # <<>>
      PROVE  Last(ethRing) = IF Tail(ethRing) = <<>> THEN Head(ethRing)
                             ELSE Last(Tail(ethRing))
  <2>1. CASE Tail(ethRing) = <<>>
    <3>1. Len(ethRing) = 1
      <4> DEFINE rest == Tail(ethRing)
      <4>0. Len(<<>>) = 0 /\ rest = <<>>
        BY <2>1
      <4> HIDE DEF rest
      <4>1. Len(rest) = 0
        BY <4>0
      <4> QED
        BY <1>1, <1>2, <1>3, <4>1 DEF rest
    <3> QED
      BY <1>2, <1>3, <2>1, <3>1 DEF Last
  <2>2. CASE Tail(ethRing) # <<>>
    <3>1. Len(Tail(ethRing)) \in 1 .. Len(ethRing) - 1
      BY <1>1, <1>2, <1>3, <2>2
    <3> QED
      BY <1>1, <1>2, <1>3, <2>2, <3>1 DEF Last
  <2> QED
    BY <2>1, <2>2
<1> QED
  BY <1>1, <1>2, <1>3 DEF Last

LEMMA EthStarts ==
  ASSUME EthInit
  PROVE  EthInv /\ LinkInv
<1>1. /\ LinkIs(eth, FALSE, FALSE, FALSE, "down", FALSE, FALSE)
      /\ PhyIs(phy, FALSE, FALSE, FALSE)
  BY DEF EthInit, LinkIs, Link, Statuses, PhyIs, Phy, Unlinked
<1>2. /\ ethHeld = {} /\ ethApp = "idle" /\ ethTask = "idle" /\ ethRing = <<>>
      /\ ethLoop = <<>> /\ ethTaken = "down" /\ ethLost = FALSE
  BY DEF EthInit
<1>3. ethRing \in Seq(Statuses) /\ Len(ethRing) = 0 /\ ethLoop \in Seq(Posted)
      /\ DOMAIN ethLoop = {} /\ EthCapacity \in Nat
  BY <1>2, EthAssumption
<1>4. EthTypes
  BY <1>1, <1>2, <1>3 DEF EthTypes, LinkIs, PhyIs, Statuses, AppStates
<1>5. EthInOrder
  BY <1>1, <1>2 DEF EthInOrder, LinkIs
<1>6. StoppedHasNone /\ LoopTellsLast /\ LoopTellsLink
  BY <1>1, <1>2, <1>3 DEF StoppedHasNone, LoopTellsLast, LoopTellsLink, PhyIs
<1>7. HandledAreTold
  BY <1>1, <1>2, <1>3 DEF HandledAreTold, Listening, LinkIs
<1> QED
  BY <1>3, <1>4, <1>5, <1>6, <1>7 DEF EthInv, LinkInv

LEMMA EthStep ==
  ASSUME EthInv, [EthNext]_ethVars
  PROVE  EthInv'
<1>types. /\ eth \in Link /\ phy \in Phy /\ ethHeld \subseteq Made
          /\ ethRing \in Seq(Statuses) /\ ethLoop \in Seq(Posted)
          /\ ethTask \in Statuses \cup {"idle"} /\ ethTaken \in Statuses
          /\ ethLost \in BOOLEAN /\ ethApp \in AppStates
          /\ Len(ethRing) <= EthCapacity /\ EthCapacity \in Nat
          /\ <<>> \in Seq(Statuses) /\ Len(<<>>) = 0 /\ "down" \in Statuses
          /\ eth.initialized \in BOOLEAN /\ eth.started \in BOOLEAN
          /\ phy.lost \in BOOLEAN /\ phy.ip \in BOOLEAN /\ "idle" \notin Statuses
  BY EthAssumption DEF EthInv, EthTypes, Link, Phy, Statuses
<1>inv. EthInOrder
  BY DEF EthInv
<1>done. ASSUME eth' \in Link, phy' \in Phy, ethHeld' \subseteq Made,
                ethRing' \in Seq(Statuses), Len(ethRing') <= EthCapacity,
                ethLoop' \in Seq(Posted), ethTask' \in Statuses \cup {"idle"},
                ethTaken' \in Statuses, ethLost' \in BOOLEAN, ethApp' \in AppStates,
                EthInOrder'
         PROVE  EthInv'
  BY <1>done DEF EthInv, EthTypes
<1>posts. ASSUME NEW e \in Posted, Posts(e)
          PROVE  ethLoop' \in Seq(Posted)
  BY <1>types, <1>posts, PostedLast DEF Posts
<1> USE DEF EthInOrder, ethShared, AppStates
<1>1. ASSUME NEW n \in 0 .. Len(EthParts), MakeFails(n)
      PROVE  EthInv'
  <2>1. ethHeld' = {}
    BY <1>1, EthPartsSet DEF MakeFails
  <2> QED
    BY <1>1, <1>types, <1>inv, <1>done, <2>1 DEF MakeFails
<1>2. CASE Make
  BY <1>2, <1>types, <1>inv, <1>done, EthPartsSet DEF Make
<1>3. CASE RegisterEth
  <2>1. LinkIs(eth', eth.initialized, eth.started, eth.hasLink, eth.status, TRUE, eth.onIp)
    BY <1>3, <1>types, LinkFields DEF RegisterEth
  <2> QED
    BY <1>3, <1>types, <1>inv, <1>done, <2>1 DEF RegisterEth, LinkIs
<1>4. CASE RegisterIp
  <2>1. LinkIs(eth', eth.initialized, eth.started, eth.hasLink, eth.status, eth.onEth, TRUE)
    BY <1>4, <1>types, LinkFields DEF RegisterIp
  <2> QED
    BY <1>4, <1>types, <1>inv, <1>done, <2>1 DEF RegisterIp, LinkIs
<1>5. CASE RegisterFails
  BY <1>5, <1>types, <1>inv, <1>done DEF RegisterFails
<1>6. CASE ClearRing
  <2>1. ethRing' = <<>> /\ ethTaken' = "down" /\ ethLost' \in BOOLEAN
        /\ ethApp = "clearing" /\ ethApp' = "clearingStatus"
        /\ UNCHANGED <<eth, ethHeld, ethLoop, ethTask, phy>>
    BY <1>6 DEF ClearRing
  <2>2. ethRing' \in Seq(Statuses) /\ Len(ethRing') <= EthCapacity
    BY <1>types, <2>1
  <2> QED
    BY <1>types, <1>inv, <1>done, <2>1, <2>2
<1>7. CASE ClearStatus
  <2>1. LinkIs(eth', eth.initialized, eth.started, FALSE, "down", eth.onEth, eth.onIp)
    BY <1>7, <1>types, LinkFields DEF ClearStatus
  <2> QED
    BY <1>7, <1>types, <1>inv, <1>done, <2>1 DEF ClearStatus, LinkIs
<1>8. CASE EthStart
  <2>1. PhyIs(phy', FALSE, FALSE, FALSE)
    BY <1>8, <1>types, PhyFields DEF EthStart
  <2> QED
    BY <1>8, <1>types, <1>inv, <1>done, <2>1 DEF EthStart, PhyIs
<1>9. CASE StartFails
  BY <1>9, <1>types, <1>inv, <1>done DEF StartFails
<1>10. CASE Initialized
  <2>1. LinkIs(eth', TRUE, TRUE, eth.hasLink, eth.status, eth.onEth, eth.onIp)
    BY <1>10, <1>types, LinkFields DEF Initialized
  <2> QED
    BY <1>10, <1>types, <1>inv, <1>done, <2>1 DEF Initialized, LinkIs
<1>11. CASE Deinitialize
  BY <1>11, <1>types, <1>inv, <1>done DEF Deinitialize
<1>12. CASE ReleaseStop
  <2>1. LinkIs(eth', eth.initialized, FALSE, eth.hasLink, eth.status, eth.onEth, eth.onIp)
    BY <1>12, <1>types, LinkFields DEF ReleaseStop
  <2>2. ethLoop' \in Seq(Posted)
    BY <1>12, <1>types, <1>posts DEF ReleaseStop, Posted, EthEvents
  <2>3. phy' \in Phy
    BY <1>12, <1>types, PhyFields DEF ReleaseStop, PhyIs
  <2> QED
    BY <1>12, <1>types, <1>inv, <1>done, <2>1, <2>2, <2>3 DEF ReleaseStop, LinkIs
<1>13. CASE Unregister
  <2>1. LinkIs(eth', eth.initialized, eth.started, eth.hasLink, eth.status, FALSE, FALSE)
    BY <1>13, <1>types, LinkFields DEF Unregister
  <2> QED
    BY <1>13, <1>types, <1>inv, <1>done, <2>1 DEF Unregister, LinkIs
<1>14. CASE Delete
  <2>1. ~eth'.initialized /\ eth' \in Link /\ eth'.started = eth.started
        /\ eth'.onEth = eth.onEth /\ eth'.onIp = eth.onIp
    <3>1. CASE eth.initialized
      <4>1. LinkIs(eth', FALSE, eth.started, FALSE, "down", eth.onEth, eth.onIp)
        BY <1>14, <1>types, <3>1, LinkFields DEF Delete
      <4> QED
        BY <4>1 DEF LinkIs
    <3>2. CASE ~eth.initialized
      BY <1>14, <1>types, <3>2 DEF Delete
    <3> QED
      BY <3>1, <3>2
  <2>2. ethRing' \in Seq(Statuses) /\ Len(ethRing') <= EthCapacity /\ ethTaken' \in Statuses
    BY <1>14, <1>types DEF Delete
  <2> QED
    <3>1. ethLost' \in BOOLEAN /\ ethHeld' = {} /\ ethApp = "delete" /\ ethApp' = "idle"
          /\ UNCHANGED <<ethLoop, ethTask, phy>>
      BY <1>14 DEF Delete
    <3>2. /\ eth'.initialized = FALSE /\ eth'.started = FALSE
          /\ eth'.onEth = FALSE /\ eth'.onIp = FALSE /\ ethTask' = "idle"
      BY <1>inv, <1>types, <2>1, <3>1 DEF Link
    <3>3. EthInOrder'
      BY <3>1, <3>2
    <3> QED
      BY <1>types, <1>done, <2>1, <2>2, <3>1, <3>3
<1>15. CASE LinkUp
  <2>1. PhyIs(phy', TRUE, phy.ip, phy.lost)
    BY <1>15, <1>types, PhyFields DEF LinkUp
  <2>2. ethLoop' \in Seq(Posted)
    BY <1>15, <1>posts DEF LinkUp, Posted, EthEvents
  <2> QED
    BY <1>15, <1>types, <1>inv, <1>done, <2>1, <2>2 DEF LinkUp, PhyIs
<1>16. CASE LinkDown
  <2>1. PhyIs(phy', FALSE, FALSE, phy.lost \/ phy.ip)
    BY <1>16, <1>types, PhyFields DEF LinkDown
  <2>2. ethLoop' \in Seq(Posted)
    BY <1>16, <1>posts DEF LinkDown, Posted, EthEvents
  <2> QED
    BY <1>16, <1>types, <1>inv, <1>done, <2>1, <2>2 DEF LinkDown, PhyIs
<1>17. CASE GotIp
  <2>1. PhyIs(phy', phy.link, TRUE, FALSE)
    BY <1>17, <1>types, PhyFields DEF GotIp
  <2>2. ethLoop' \in Seq(Posted)
    BY <1>17, <1>posts DEF GotIp, Posted, IpEvents
  <2> QED
    BY <1>17, <1>types, <1>inv, <1>done, <2>1, <2>2 DEF GotIp, PhyIs
<1>18. CASE LostIp
  <2>1. PhyIs(phy', phy.link, FALSE, FALSE)
    BY <1>18, <1>types, PhyFields DEF LostIp
  <2>2. ethLoop' \in Seq(Posted)
    BY <1>18, <1>posts DEF LostIp, Posted, IpEvents
  <2> QED
    BY <1>18, <1>types, <1>inv, <1>done, <2>1, <2>2 DEF LostIp, PhyIs
<1>19. CASE HandleEvent
  <2> DEFINE event == Head(ethLoop)
             handled == (event \in EthEvents /\ eth.onEth) \/ (event \in IpEvents /\ eth.onIp)
  <2>1. ethLoop' \in Seq(Posted) /\ event \in Posted
    BY <1>19, <1>types, TakenFirst DEF HandleEvent
  <2>2. UNCHANGED <<ethHeld, ethApp, ethRing, ethTaken, ethLost, phy>>
    BY <1>19 DEF HandleEvent
  <2>3. CASE handled
    <3>1. ethTask' \in Statuses
      <4>1. ethTask' = StatusOf(event, eth.hasLink) /\ eth.hasLink \in BOOLEAN
        BY <1>19, <1>types, <2>3 DEF HandleEvent, Link
      <4>2. event \in {"connected", "disconnected", "stop", "gotIp", "lostIp"}
        BY <2>1 DEF Posted, EthEvents, IpEvents
      <4> HIDE DEF event
      <4>3. event = "lostIp" => ethTask' \in {"noIp", "down"}
        BY <4>1, StatusValues
      <4> QED
        BY <4>1, <4>2, <4>3, StatusValues DEF Statuses
    <3>2. \E b \in BOOLEAN : LinkIs(eth', eth.initialized, eth.started, b, eth.status,
                                    eth.onEth, eth.onIp)
      <4>1. CASE event \in EthEvents
        <5> DEFINE b == event = "connected"
        <5>1. b \in BOOLEAN /\ eth' = [eth EXCEPT !.hasLink = b]
          BY <1>19, <2>3, <4>1 DEF HandleEvent
        <5> HIDE DEF b
        <5> QED
          BY <1>types, <5>1, LinkFields
      <4>2. CASE event \notin EthEvents
        <5>1. eth' = eth
          BY <1>19, <2>3, <4>2 DEF HandleEvent
        <5> QED
          BY <1>types, <5>1 DEF LinkIs, Link
      <4> QED
        BY <4>1, <4>2
    <3>3. ethApp # "delete" /\ ethTask' # "idle"
      BY <1>inv, <1>types, <2>3, <3>1
    <3> QED
      BY <1>types, <1>inv, <1>done, <2>1, <2>2, <2>3, <3>1, <3>2, <3>3 DEF LinkIs
  <2>4. CASE ~handled
    <3>1. UNCHANGED <<ethTask, eth>>
      BY <1>19, <2>4 DEF HandleEvent
    <3> QED
      BY <1>types, <1>inv, <1>done, <2>1, <2>2, <3>1
  <2> QED
    BY <2>3, <2>4
<1>20. CASE QueueState
  <2>1. LinkIs(eth', eth.initialized, eth.started, eth.hasLink, ethTask, eth.onEth, eth.onIp)
    BY <1>20, <1>types, LinkFields DEF QueueState
  <2>2. ethRing' \in Seq(Statuses) /\ Len(ethRing') <= EthCapacity
    <3>1. ethTask \in Statuses
      BY <1>20, <1>types DEF QueueState
    <3>2. /\ Append(ethRing, ethTask) \in Seq(Statuses) /\ Len(ethRing) \in Nat
          /\ Len(Append(ethRing, ethTask)) = Len(ethRing) + 1
      BY <1>types, <3>1, Reported
    <3> QED
      BY <1>20, <1>types, <3>2 DEF QueueState
  <2>3. ethLost' \in BOOLEAN /\ ethTask' = "idle"
        /\ UNCHANGED <<ethHeld, ethApp, ethLoop, phy, ethTaken>>
    BY <1>20 DEF QueueState
  <2> QED
    BY <1>types, <1>inv, <1>done, <2>1, <2>2, <2>3 DEF LinkIs
<1>21. CASE TakeEvent
  <2>1. /\ ethRing' \in Seq(Statuses) /\ ethTaken' \in Statuses /\ Len(ethRing) \in Nat
        /\ Len(ethRing') = Len(ethRing) - 1
    BY <1>21, <1>types, Reported DEF TakeEvent
  <2> QED
    BY <1>21, <1>types, <1>inv, <1>done, <2>1 DEF TakeEvent
<1>22. CASE UNCHANGED ethVars
  BY <1>22, <1>types, <1>inv, <1>done DEF ethVars
<1> QED
  BY <1>1, <1>2, <1>3, <1>4, <1>5, <1>6, <1>7, <1>8, <1>9, <1>10, <1>11, <1>12, <1>13,
     <1>14, <1>15, <1>16, <1>17, <1>18, <1>19, <1>20, <1>21, <1>22 DEF EthNext

\* A step that posts, handles and takes nothing.
LEMMA LinkQuiet ==
  ASSUME LinkInv, UNCHANGED <<ethLoop, phy>>, Running' = Running
  PROVE  StoppedHasNone' /\ LoopTellsLast' /\ LoopTellsLink' /\ (NoLinkEvent' = NoLinkEvent)
BY DEF LinkInv, StoppedHasNone, LoopTellsLast, LoopTellsLink, NoLinkEvent

LEMMA LinkStep ==
  ASSUME EthInv, LinkInv, [EthNext]_ethVars
  PROVE  LinkInv'
<1>types. /\ eth \in Link /\ phy \in Phy /\ ethRing \in Seq(Statuses) /\ ethLoop \in Seq(Posted)
          /\ ethTask \in Statuses \cup {"idle"} /\ ethTaken \in Statuses
          /\ "idle" \notin Statuses /\ "down" \in Statuses
          /\ eth.initialized \in BOOLEAN /\ eth.started \in BOOLEAN /\ eth.hasLink \in BOOLEAN
          /\ phy.link \in BOOLEAN /\ phy.ip \in BOOLEAN /\ phy.lost \in BOOLEAN
          /\ ethApp \in AppStates
  BY DEF EthInv, EthTypes, Link, Phy, Statuses
<1>inv. StoppedHasNone /\ LoopTellsLast /\ LoopTellsLink /\ HandledAreTold
  BY DEF LinkInv
<1>order. EthInOrder
  BY DEF EthInv
<1>quiet. ASSUME UNCHANGED <<ethLoop, phy>>, Running' = Running, HandledAreTold'
          PROVE  LinkInv'
  BY <1>quiet, LinkQuiet DEF LinkInv
\* The program's steps that leave what the callback has told alone.
<1>calm. ASSUME UNCHANGED <<ethLoop, phy, ethRing, ethTask, ethTaken, ethLost>>,
                Running' = Running, Listening' => Listening,
                eth'.hasLink = eth.hasLink, eth'.status = eth.status,
                ethApp' # "clearingStatus"
         PROVE  LinkInv'
  <2>1. NoLinkEvent' = NoLinkEvent
    BY <1>calm, LinkQuiet
  <2>2. HandledAreTold'
    BY <1>calm, <1>inv, <2>1 DEF HandledAreTold, Matches, LastTold
  <2> QED
    BY <1>calm, <1>quiet, <2>2
<1> USE DEF ethShared
<1>1. ASSUME NEW n \in 0 .. Len(EthParts), MakeFails(n)
      PROVE  LinkInv'
  BY <1>1, <1>calm DEF MakeFails, Running, Listening
<1>2. CASE Make
  BY <1>2, <1>calm DEF Make, Running, Listening
<1>3. CASE RegisterEth
  <2>1. LinkIs(eth', eth.initialized, eth.started, eth.hasLink, eth.status, TRUE, eth.onIp)
    BY <1>3, <1>types, LinkFields DEF RegisterEth
  <2> QED
    BY <1>3, <1>calm, <2>1 DEF RegisterEth, LinkIs, Running, Listening
<1>4. CASE RegisterIp
  <2>1. LinkIs(eth', eth.initialized, eth.started, eth.hasLink, eth.status, eth.onEth, TRUE)
    BY <1>4, <1>types, LinkFields DEF RegisterIp
  <2> QED
    BY <1>4, <1>calm, <1>order, <2>1 DEF RegisterIp, LinkIs, Running, Listening, EthInOrder
<1>5. CASE RegisterFails
  BY <1>5, <1>calm, <1>order DEF RegisterFails, Running, Listening, EthInOrder
<1>6. CASE ClearRing
  <2>1. ~Listening' /\ Running' = Running /\ UNCHANGED <<eth, ethLoop, ethTask, phy>>
        /\ LastTold' = "down"
    BY <1>6, <1>order DEF ClearRing, Running, Listening, EthInOrder, LastTold
  <2>2. HandledAreTold'
    BY <1>inv, <2>1 DEF HandledAreTold, Matches
  <2> QED
    BY <1>quiet, <2>1, <2>2
<1>7. CASE ClearStatus
  <2>1. LinkIs(eth', eth.initialized, eth.started, FALSE, "down", eth.onEth, eth.onIp)
    BY <1>7, <1>types, LinkFields DEF ClearStatus
  <2>2. /\ Running' = Running /\ ~Running /\ UNCHANGED <<ethLoop, ethTask, phy, ethLost>>
        /\ LastTold' = LastTold /\ ethApp = "clearingStatus" /\ ethApp' = "starting"
    BY <1>7, <1>order, <2>1 DEF ClearStatus, Running, LinkIs, EthInOrder, LastTold
  <2>3. HandledAreTold'
    BY <1>inv, <1>types, <2>1, <2>2 DEF HandledAreTold, Matches, StoppedHasNone, LinkIs
  <2> QED
    BY <1>quiet, <2>2, <2>3
<1>8. CASE EthStart
  <2>1. ~Running /\ PhyIs(phy', FALSE, FALSE, FALSE) /\ Listening
        /\ UNCHANGED <<eth, ethLoop, ethTask, ethRing, ethTaken, ethLost>> /\ ethApp' = "started"
    BY <1>8, <1>types, <1>order, PhyFields DEF EthStart, Running, EthInOrder, Listening
  <2>2. phy'.link = phy.link /\ phy'.ip = phy.ip
    BY <1>types, <1>inv, <2>1 DEF StoppedHasNone, PhyIs
  <2>3. StoppedHasNone' /\ LoopTellsLast' /\ LoopTellsLink'
    BY <1>inv, <2>1, <2>2 DEF StoppedHasNone, LoopTellsLast, LoopTellsLink, PhyIs, Running
  <2>4. HandledAreTold'
    BY <1>inv, <2>1, <2>2 DEF HandledAreTold, Matches, LastTold, NoLinkEvent
  <2> QED
    BY <2>3, <2>4 DEF LinkInv
<1>9. CASE StartFails
  BY <1>9, <1>calm, <1>order DEF StartFails, Running, Listening, EthInOrder
<1>10. CASE Initialized
  <2>1. LinkIs(eth', TRUE, TRUE, eth.hasLink, eth.status, eth.onEth, eth.onIp)
    BY <1>10, <1>types, LinkFields DEF Initialized
  <2>2. Running /\ Running' /\ (Running' = Running)
    BY <1>10, <2>1 DEF Initialized, Running, LinkIs
  <2> QED
    BY <1>10, <1>calm, <2>1, <2>2 DEF Initialized, LinkIs, Listening
<1>11. CASE Deinitialize
  BY <1>11, <1>calm, <1>order DEF Deinitialize, Running, Listening, EthInOrder
<1>13. CASE Unregister
  <2>1. LinkIs(eth', eth.initialized, eth.started, eth.hasLink, eth.status, FALSE, FALSE)
    BY <1>13, <1>types, LinkFields DEF Unregister
  <2> QED
    BY <1>13, <1>calm, <2>1 DEF Unregister, LinkIs, Running, Listening
<1>14. CASE Delete
  <2>1. ~eth'.initialized /\ eth'.started = eth.started
    <3>1. CASE eth.initialized
      <4>1. LinkIs(eth', FALSE, eth.started, FALSE, "down", eth.onEth, eth.onIp)
        BY <1>14, <1>types, <3>1, LinkFields DEF Delete
      <4> QED
        BY <4>1 DEF LinkIs
    <3>2. CASE ~eth.initialized
      BY <1>14, <1>types, <3>2 DEF Delete
    <3> QED
      BY <3>1, <3>2
  <2>2. ~Listening' /\ Running' = Running /\ ethTask' = ethTask /\ ethTask = "idle"
        /\ UNCHANGED <<ethLoop, phy>> /\ ethApp' = "idle"
    BY <1>14, <1>order, <2>1 DEF Delete, Running, Listening, EthInOrder
  <2>3. HandledAreTold'
    BY <2>2 DEF HandledAreTold
  <2> QED
    BY <1>quiet, <2>2, <2>3
\* The events of the driver.
<1>posted. ASSUME NEW e \in Posted, Posts(e), Running' => Running,
                  StoppedHasNone', phy' \in Phy,
                  e = "connected" => phy'.link /\ ~phy'.ip,
                  e = "gotIp" => phy'.link /\ phy'.ip,
                  e = "lostIp" => ~phy'.ip,
                  e \in {"disconnected", "stop"} => ~phy'.link,
                  ~Running' => e = "stop",
                  e \notin EthEvents => phy'.link = phy.link,
                  Listening' => Listening, eth'.hasLink = eth.hasLink,
                  ethApp' # "clearingStatus" \/ ethApp = "clearingStatus"
           PROVE  LinkInv'
  <2>1. /\ ethLoop' \in Seq(Posted) /\ ethLoop' # <<>> /\ Last(ethLoop') = e
        /\ e \in EthEvents => /\ ~NoLinkEvent'
                              /\ (e = "connected" <=> phy'.link) => LoopTellsLink'
        /\ e \notin EthEvents =>
             /\ NoLinkEvent' => NoLinkEvent
             /\ LoopTellsLink /\ phy'.link = phy.link => LoopTellsLink'
    BY <1>types, <1>posted, PostedLast DEF Posts
  <2>2. LoopTellsLast'
    BY <1>posted, <2>1 DEF LoopTellsLast
  <2>3. LoopTellsLink'
    BY <1>posted, <1>inv, <2>1 DEF EthEvents
  <2>4. HandledAreTold'
    BY <1>posted, <1>inv, <2>1 DEF HandledAreTold
  <2> QED
    BY <1>posted, <2>2, <2>3, <2>4 DEF LinkInv
<1>12. CASE ReleaseStop
  <2>1. LinkIs(eth', eth.initialized, FALSE, eth.hasLink, eth.status, eth.onEth, eth.onIp)
    BY <1>12, <1>types, LinkFields DEF ReleaseStop
  <2>2. CASE eth.started
    <3>1. PhyIs(phy', FALSE, FALSE, FALSE) /\ Posts("stop")
      BY <1>12, <1>types, <2>2, PhyFields DEF ReleaseStop
    <3>2. ethApp = "release" /\ ethApp' = "unregister"
      BY <1>12 DEF ReleaseStop
    <3>3. StoppedHasNone'
      BY <3>1 DEF StoppedHasNone, PhyIs
    <3>4. Listening' => Listening
      BY <2>1, <3>2 DEF Listening, LinkIs
    <3>5. Running
      BY <2>2 DEF Running
    <3> QED
      BY <1>posted, <2>1, <3>1, <3>2, <3>3, <3>4, <3>5 DEF Posted, EthEvents, PhyIs, LinkIs
  <2>3. CASE ~eth.started
    BY <1>12, <1>calm, <2>1, <2>3 DEF ReleaseStop, LinkIs, Running, Listening
  <2> QED
    BY <2>2, <2>3
<1>15. CASE LinkUp
  <2>1. PhyIs(phy', TRUE, phy.ip, phy.lost)
    BY <1>15, <1>types, PhyFields DEF LinkUp
  <2>2. Running /\ (Running' = Running) /\ (Listening' = Listening) /\ Posts("connected")
        /\ eth' = eth /\ ethApp' = ethApp
    BY <1>15 DEF LinkUp, Running, Listening
  <2>3. ~phy.ip
    BY <1>15, <1>inv DEF LinkUp, StoppedHasNone
  <2>4. StoppedHasNone'
    BY <2>1, <2>2, <2>3 DEF StoppedHasNone, PhyIs
  <2> QED
    BY <1>posted, <2>1, <2>2, <2>3, <2>4 DEF Posted, EthEvents, PhyIs
<1>16. CASE LinkDown
  <2>1. PhyIs(phy', FALSE, FALSE, phy.lost \/ phy.ip)
    BY <1>16, <1>types, PhyFields DEF LinkDown
  <2>2. Running /\ (Running' = Running) /\ (Listening' = Listening) /\ Posts("disconnected")
        /\ eth' = eth /\ ethApp' = ethApp
    BY <1>16 DEF LinkDown, Running, Listening
  <2>3. StoppedHasNone'
    BY <2>1, <2>2 DEF StoppedHasNone, PhyIs
  <2> QED
    BY <1>posted, <2>1, <2>2, <2>3 DEF Posted, EthEvents, PhyIs
<1>17. CASE GotIp
  <2>1. PhyIs(phy', phy.link, TRUE, FALSE)
    BY <1>17, <1>types, PhyFields DEF GotIp
  <2>2. Running /\ (Running' = Running) /\ (Listening' = Listening) /\ Posts("gotIp")
        /\ eth' = eth /\ ethApp' = ethApp /\ phy.link
    BY <1>17 DEF GotIp, Running, Listening
  <2>3. StoppedHasNone'
    BY <2>1, <2>2 DEF StoppedHasNone, PhyIs
  <2> QED
    BY <1>posted, <2>1, <2>2, <2>3 DEF Posted, EthEvents, IpEvents, PhyIs
<1>18. CASE LostIp
  <2>1. PhyIs(phy', phy.link, FALSE, FALSE)
    BY <1>18, <1>types, PhyFields DEF LostIp
  <2>2. Running /\ (Running' = Running) /\ (Listening' = Listening) /\ Posts("lostIp")
        /\ eth' = eth /\ ethApp' = ethApp
    BY <1>18 DEF LostIp, Running, Listening
  <2>3. StoppedHasNone'
    BY <2>1, <2>2 DEF StoppedHasNone, PhyIs
  <2> QED
    BY <1>posted, <2>1, <2>2, <2>3 DEF Posted, EthEvents, IpEvents, PhyIs
<1>19. CASE HandleEvent
  <2> DEFINE event == Head(ethLoop)
             handled == (event \in EthEvents /\ eth.onEth) \/ (event \in IpEvents /\ eth.onIp)
  <2>0. /\ ethTask = "idle" /\ ethLoop # <<>> /\ ethLoop' = Tail(ethLoop)
        /\ UNCHANGED <<ethApp, ethRing, ethTaken, ethLost, phy>>
    BY <1>19 DEF HandleEvent
  <2>1. /\ ethLoop' \in Seq(Posted) /\ event \in Posted
        /\ ethLoop' # <<>> => Last(ethLoop') = Last(ethLoop)
        /\ ethLoop' = <<>> => Last(ethLoop) = event
        /\ NoLinkEvent' /\ event \notin EthEvents => NoLinkEvent
        /\ NoLinkEvent' /\ event \in EthEvents => (event = "connected" <=> phy.link)
        /\ LoopTellsLink'
    BY <1>types, <1>inv, <2>0, TakenFirst
  <2>2. ethLoop' = <<>> => NoLinkEvent'
    <3>1. DOMAIN <<>> = {}
      OBVIOUS
    <3> QED
      BY <3>1 DEF NoLinkEvent
  <2> HIDE DEF event
  <2>3. eth'.initialized = eth.initialized /\ eth'.started = eth.started
        /\ (event \in EthEvents /\ handled => eth'.hasLink = (event = "connected"))
        /\ (event \notin EthEvents => eth' = eth)
    <3>1. CASE event \in EthEvents /\ handled
      <4> DEFINE b == event = "connected"
      <4>1. b \in BOOLEAN /\ eth' = [eth EXCEPT !.hasLink = b]
        BY <1>19, <3>1 DEF HandleEvent, event
      <4> HIDE DEF b
      <4>2. LinkIs(eth', eth.initialized, eth.started, b, eth.status, eth.onEth, eth.onIp)
        BY <1>types, <4>1, LinkFields
      <4> QED
        BY <3>1, <4>2 DEF LinkIs, b
    <3>2. CASE ~(event \in EthEvents /\ handled)
      <4>1. eth' = eth
        BY <1>19, <3>2 DEF HandleEvent, event
      <4> QED
        BY <3>2, <4>1
    <3> QED
      BY <3>1, <3>2
  <2>4. Running' = Running /\ Listening' = Listening
    BY <2>0, <2>3 DEF Running, Listening
  <2>5. StoppedHasNone' /\ LoopTellsLast'
    BY <1>inv, <2>0, <2>1, <2>4 DEF StoppedHasNone, LoopTellsLast
  <2>6. Listening \/ ethApp = "clearingStatus" => eth.onEth /\ eth.onIp /\ handled
    <3>1. event \in EthEvents \/ event \in IpEvents
      BY <2>1 DEF Posted
    <3>2. Listening \/ ethApp = "clearingStatus" => eth.onEth /\ eth.onIp
      BY <1>order DEF Listening, EthInOrder
    <3> QED
      BY <3>1, <3>2
  <2>7. handled => ethTask' = StatusOf(event, eth.hasLink)
    BY <1>19 DEF HandleEvent, event
  <2>8. ~handled => ethTask' = "idle"
    BY <1>19, <2>0 DEF HandleEvent, event
  <2>9. handled => ethTask' # "idle"
    <3>1. event \in {"connected", "disconnected", "stop", "gotIp", "lostIp"}
      BY <2>1 DEF Posted, EthEvents, IpEvents
    <3> QED
      BY <1>types, <2>7, <3>1, StatusValues
  <2>10. Listening /\ NoLinkEvent' => eth'.hasLink = phy.link
    BY <1>types, <1>inv, <2>1, <2>3, <2>6 DEF HandledAreTold
  <2>11. ethLoop' = <<>> /\ handled => Matches(ethTask)'
    <3> SUFFICES ASSUME ethLoop' = <<>>, handled
                 PROVE  Matches(ethTask)'
      OBVIOUS
    <3>0. Last(ethLoop) = event /\ phy' = phy
      BY <2>0, <2>1 DEF event
    <3>1. event \in {"connected", "disconnected", "stop", "gotIp", "lostIp"}
      BY <2>1 DEF Posted, EthEvents, IpEvents
    <3>2. CASE event = "connected"
      <4>1. phy.link /\ ~phy.ip
        BY <1>inv, <2>0, <3>0, <3>2 DEF LoopTellsLast
      <4>2. ethTask' = "connected"
        BY <2>7, <3>2, StatusValues
      <4> QED
        BY <3>0, <4>1, <4>2 DEF Matches
    <3>3. CASE event = "gotIp"
      <4>1. phy.link /\ phy.ip
        BY <1>inv, <2>0, <3>0, <3>3 DEF LoopTellsLast
      <4>2. ethTask' = "up"
        BY <2>7, <3>3, StatusValues
      <4> QED
        BY <3>0, <4>1, <4>2 DEF Matches
    <3>4. CASE event \in {"disconnected", "stop"}
      <4>1. ~phy.link
        BY <1>inv, <2>0, <3>0, <3>4 DEF LoopTellsLast
      <4>2. ethTask' = "down"
        BY <2>7, <3>4, StatusValues
      <4> QED
        BY <3>0, <4>1, <4>2 DEF Matches
    <3>5. CASE event = "lostIp"
      <4>1. Running /\ ~phy.ip
        BY <1>inv, <2>0, <3>0, <3>5 DEF LoopTellsLast
      <4>2. CASE Listening
        <5>1. eth.hasLink = phy.link
          BY <2>2, <2>3, <2>10, <3>5, <4>2 DEF EthEvents
        <5>2. ethTask' = IF phy.link THEN "noIp" ELSE "down"
          BY <1>types, <2>7, <3>5, <5>1, StatusValues
        <5> QED
          BY <3>0, <4>1, <5>2 DEF Matches
      <4>3. CASE ~Listening
        <5>1. FALSE
          BY <1>order, <1>types, <4>1, <4>3, <2>8, <3>5
             DEF Running, Listening, EthInOrder, AppStates, EthEvents
        <5> QED
          BY <5>1
      <4> QED
        BY <4>2, <4>3
    <3> QED
      BY <3>1, <3>2, <3>3, <3>4, <3>5
  <2>12. HandledAreTold'
    BY <2>0, <2>4, <2>6, <2>8, <2>9, <2>10, <2>11 DEF HandledAreTold
  <2> QED
    BY <2>1, <2>5, <2>12 DEF LinkInv
<1>20. CASE QueueState
  <2>1. LinkIs(eth', eth.initialized, eth.started, eth.hasLink, ethTask, eth.onEth, eth.onIp)
    BY <1>20, <1>types, LinkFields DEF QueueState
  <2>2. /\ ethTask # "idle" /\ ethTask' = "idle" /\ UNCHANGED <<ethApp, ethLoop, phy, ethTaken>>
    BY <1>20 DEF QueueState
  <2>3. ~ethLost' => LastTold' = ethTask
    <3> HAVE ~ethLost'
    <3>1. ethTask \in Statuses
      BY <1>types, <2>2
    <3>2. /\ Append(ethRing, ethTask) # <<>> /\ Last(Append(ethRing, ethTask)) = ethTask
          /\ Len(ethRing) \in Nat
      BY <1>types, <3>1, Reported
    <3>3. Len(ethRing) < EthCapacity
      <4>1. ~(Len(ethRing) >= EthCapacity)
        BY <1>20 DEF QueueState
      <4> QED
        BY <3>2, <4>1, EthAssumption
    <3>4. ethRing' = Append(ethRing, ethTask)
      BY <1>20, <3>3 DEF QueueState
    <3> QED
      BY <3>2, <3>4 DEF LastTold
  <2>4. Running' = Running /\ Listening' = Listening
    BY <2>1, <2>2 DEF Running, Listening, LinkIs
  <2>5. NoLinkEvent' = NoLinkEvent
    BY <2>2 DEF NoLinkEvent
  <2>6. ethApp = "clearingStatus" /\ ethLoop = <<>> => ethTask = "down"
    BY <1>inv, <1>order, <2>2 DEF HandledAreTold, Matches, StoppedHasNone, Running, EthInOrder
  <2>7. HandledAreTold'
    BY <1>inv, <2>1, <2>2, <2>3, <2>4, <2>5, <2>6 DEF HandledAreTold, Matches, LinkIs
  <2> QED
    BY <1>quiet, <2>2, <2>4, <2>7
<1>21. CASE TakeEvent
  <2>1. UNCHANGED <<eth, ethApp, ethLost, ethLoop, ethTask, phy>> /\ ethRing # <<>>
        /\ ethTaken' = Head(ethRing) /\ ethRing' = Tail(ethRing)
    BY <1>21 DEF TakeEvent
  <2>2. LastTold' = LastTold
    BY <1>types, <2>1, Reported DEF LastTold
  <2>3. Running' = Running /\ Listening' = Listening /\ NoLinkEvent' = NoLinkEvent
    BY <2>1 DEF Running, Listening, NoLinkEvent
  <2>4. HandledAreTold'
    BY <1>inv, <2>1, <2>2, <2>3 DEF HandledAreTold, Matches
  <2> QED
    BY <1>quiet, <2>1, <2>3, <2>4
<1>22. CASE UNCHANGED ethVars
  <2>1. UNCHANGED <<eth, ethApp, ethLost, ethLoop, ethTask, phy, ethRing, ethTaken>>
    BY <1>22 DEF ethVars
  <2>2. Running' = Running /\ Listening' = Listening /\ NoLinkEvent' = NoLinkEvent
        /\ LastTold' = LastTold
    BY <2>1 DEF Running, Listening, NoLinkEvent, LastTold
  <2>3. HandledAreTold'
    BY <1>inv, <2>1, <2>2 DEF HandledAreTold, Matches
  <2> QED
    BY <1>quiet, <2>1, <2>2, <2>3
<1> QED
  BY <1>1, <1>2, <1>3, <1>4, <1>5, <1>6, <1>7, <1>8, <1>9, <1>10, <1>11, <1>12, <1>13,
     <1>14, <1>15, <1>16, <1>17, <1>18, <1>19, <1>20, <1>21, <1>22 DEF EthNext

LEMMA LinkPromises ==
  ASSUME EthInv, LinkInv
  PROVE  LinkTold
<1> SUFFICES ASSUME eth.initialized, ethApp = "idle", ethTask = "idle", ethLoop = <<>>
             PROVE  /\ CASE ~phy.link -> eth.status = "down"
                         [] phy.link /\ phy.ip -> eth.status = "up"
                         [] OTHER -> eth.status \in {"connected", "noIp"}
                    /\ ~ethLost =>
                         eth.status = IF ethRing = <<>> THEN ethTaken ELSE Last(ethRing)
  BY DEF LinkTold
<1>1. Listening
  BY DEF Listening
<1>2. Matches(eth.status) /\ (~ethLost => eth.status = LastTold)
  BY <1>1 DEF LinkInv, HandledAreTold
<1>3. phy.link \in BOOLEAN /\ phy.ip \in BOOLEAN
  BY DEF EthInv, EthTypes, Phy
<1>4. CASE ~phy.link
  BY <1>2, <1>4, Zenon DEF Matches, LastTold
<1>5. CASE phy.link /\ phy.ip
  BY <1>2, <1>5, Zenon DEF Matches, LastTold
<1>6. CASE phy.link /\ ~phy.ip
  BY <1>2, <1>6, Zenon DEF Matches, LastTold
<1> QED
  BY <1>3, <1>4, <1>5, <1>6

----------------------------------------------------------------------------
(* The calendar: a day has one year, month and day of the month.           *)

\* The leap years up to this one.
Leaps(y) == y \div 4 - y \div 100 + y \div 400

LEMMA LeapYears ==
  ASSUME NEW y \in Int
  PROVE  /\ Leaps(y) \in Int
         /\ Leaps(y) = Leaps(y - 1) + (IF IsLeap(y) THEN 1 ELSE 0)
BY DEF Leaps, IsLeap

LEMMA LeapsGrow ==
  ASSUME NEW x \in Int, NEW y \in Int, x <= y
  PROVE  Leaps(x) <= Leaps(y)
<1>1. \A z \in Int : z \div 100 = (z \div 4) \div 25 /\ z \div 400 = ((z \div 4) \div 25) \div 4
  OBVIOUS
<1>2. x \div 4 \in Int /\ y \div 4 \in Int /\ x \div 4 <= y \div 4
  OBVIOUS
<1>3. ASSUME NEW a \in Int, NEW b \in Int, a <= b
      PROVE  a - a \div 25 + (a \div 25) \div 4 <= b - b \div 25 + (b \div 25) \div 4
  <2>1. a \div 25 \in Int /\ b \div 25 \in Int /\ a \div 25 <= b \div 25
        /\ b \div 25 - a \div 25 <= b - a
    BY <1>3
  <2> QED
    BY <1>3, <2>1
<1> QED
  BY <1>1, <1>2, <1>3 DEF Leaps

\* The first day of a month.
First(y, m) == TimegmDays([year |-> y, month |-> m, day |-> 1])

Before(y, m) ==
  IF m = 1 THEN 0 ELSE IF m = 2 THEN 31
  ELSE (IF m = 3 THEN 59 ELSE IF m = 4 THEN 90 ELSE IF m = 5 THEN 120
        ELSE IF m = 6 THEN 151 ELSE IF m = 7 THEN 181 ELSE IF m = 8 THEN 212
        ELSE IF m = 9 THEN 243 ELSE IF m = 10 THEN 273 ELSE IF m = 11 THEN 304 ELSE 334)
       + (IF IsLeap(y) THEN 1 ELSE 0)

\* The days before a year.
NewYear(y) == 365 * (y - 1970) + Leaps(y - 1) - 477

LEMMA NewYearIsInt ==
  \A y \in Int : NewYear(y) \in Int
BY LeapYears DEF NewYear

LEMMA DaysOfDate ==
  ASSUME NEW date, date.year \in Int, date.month \in 1 .. 12, date.day \in Int
  PROVE  TimegmDays(date)
         = NewYear(date.year) + Before(date.year, date.month) + date.day - 1
<1> DEFINE before == <<0, 31, 59, 90, 120, 151, 181, 212, 243, 273, 304, 334>>
<1>1. /\ before[1] = 0 /\ before[2] = 31 /\ before[3] = 59 /\ before[4] = 90
      /\ before[5] = 120 /\ before[6] = 151 /\ before[7] = 181 /\ before[8] = 212
      /\ before[9] = 243 /\ before[10] = 273 /\ before[11] = 304 /\ before[12] = 334
  OBVIOUS
<1> DEFINE extra == IF date.month > 2 /\ IsLeap(date.year) THEN 1 ELSE 0
<1>2. TimegmDays(date)
      = 365 * (date.year - 1970) + (Leaps(date.year - 1) - 477) + before[date.month] + extra
        + date.day - 1
  BY DEF TimegmDays, Leaps
<1> HIDE DEF before
<1>3. Leaps(date.year - 1) \in Int
  BY LeapYears
<1>4. before[date.month] \in Int /\ extra \in Int
      /\ before[date.month] + extra = Before(date.year, date.month)
  BY <1>1 DEF Before
<1> HIDE DEF extra
<1>5. NewYear(date.year) = 365 * (date.year - 1970) + (Leaps(date.year - 1) - 477)
      /\ NewYear(date.year) \in Int
  BY <1>3 DEF NewYear
<1> QED
  BY <1>2, <1>4, <1>5

LEMMA Months ==
  ASSUME NEW y \in Int, NEW m \in 1 .. 12, NEW d \in 1 .. DaysInMonth(y, m)
  PROVE  /\ DaysInMonth(y, m) \in Int
         /\ m < 12 => Before(y, m) + DaysInMonth(y, m) = Before(y, m + 1)
         /\ m = 12 => Before(y, m) + DaysInMonth(y, m) = 365 + (IF IsLeap(y) THEN 1 ELSE 0)
<1> DEFINE long == <<31, 28, 31, 30, 31, 30, 31, 31, 30, 31, 30, 31>>
           extra == IF m = 2 /\ IsLeap(y) THEN 1 ELSE 0
<1>1. /\ long[1] = 31 /\ long[2] = 28 /\ long[3] = 31 /\ long[4] = 30 /\ long[5] = 31
      /\ long[6] = 30 /\ long[7] = 31 /\ long[8] = 31 /\ long[9] = 30 /\ long[10] = 31
      /\ long[11] = 30 /\ long[12] = 31
  OBVIOUS
<1>2. DaysInMonth(y, m) = long[m] + extra
  BY DEF DaysInMonth
<1> HIDE DEF long
<1> QED
  BY <1>1, <1>2 DEF Before

\* Later months start later.
LEMMA MonthsGrow ==
  ASSUME NEW y \in Int, NEW m \in 1 .. 12, NEW n \in 1 .. 12, m < n
  PROVE  Before(y, m + 1) \in Int /\ Before(y, m + 1) <= Before(y, n)
BY DEF Before

LEMMA FirstDays ==
  ASSUME NEW y \in Int, NEW m \in 1 .. 12
  PROVE  /\ First(y, m) \in Int /\ Before(y, m) \in Nat
         /\ First(y, m) = NewYear(y) + Before(y, m)
         /\ First(y, m) = First(y, 1) + Before(y, m)
<1> DEFINE date(n) == [year |-> y, month |-> n, day |-> 1]
<1>1. ASSUME NEW n \in 1 .. 12
      PROVE  First(y, n) = NewYear(y) + Before(y, n)
  <2>1. date(n).year = y /\ date(n).month = n /\ date(n).day = 1
    OBVIOUS
  <2>2. First(y, n) = TimegmDays(date(n))
    BY DEF First
  <2> HIDE DEF date
  <2>3. First(y, n) = NewYear(y) + Before(y, n) + 1 - 1
    BY <2>1, <2>2, DaysOfDate
  <2>4. NewYear(y) \in Int /\ Before(y, n) \in Int
    BY NewYearIsInt DEF Before
  <2> QED
    BY <2>3, <2>4
<1>2. NewYear(y) \in Int /\ Before(y, m) \in Nat /\ Before(y, 1) = 0
  BY NewYearIsInt DEF Before
<1> QED
  BY <1>1, <1>2

LEMMA FirstInYear ==
  \A y \in Int : /\ First(y, 1) \in Int
                 /\ \A n \in 1 .. 12 : /\ Before(y, n) \in Nat
                                       /\ First(y, n) = First(y, 1) + Before(y, n)
BY FirstDays

LEMMA YearsGrow ==
  ASSUME NEW x \in Int, NEW y \in Int, x < y
  PROVE  First(x + 1, 1) <= First(y, 1)
<1>1. Leaps(x) <= Leaps(y - 1) /\ Leaps(x) \in Int /\ Leaps(y - 1) \in Int
  BY LeapsGrow, LeapYears
<1>2. Before(x + 1, 1) = 0 /\ Before(y, 1) = 0
  BY DEF Before
<1>3. First(x + 1, 1) = 365 * (x + 1 - 1970) + Leaps(x + 1 - 1) - 477
      /\ First(y, 1) = 365 * (y - 1970) + Leaps(y - 1) - 477
  <2>1. /\ First(x + 1, 1) = NewYear(x + 1) + Before(x + 1, 1)
        /\ First(y, 1) = NewYear(y) + Before(y, 1)
    BY FirstDays
  <2>2. NewYear(x + 1) \in Int /\ NewYear(y) \in Int
    BY NewYearIsInt
  <2>3. First(x + 1, 1) = NewYear(x + 1) /\ First(y, 1) = NewYear(y)
    BY <1>2, <2>1, <2>2
  <2> QED
    BY <2>3 DEF NewYear
<1>4. x + 1 - 1 = x
  OBVIOUS
<1> QED
  BY <1>1, <1>3, <1>4

LEMMA NextYear ==
  ASSUME NEW y \in Int
  PROVE  First(y + 1, 1) = First(y, 1) + 365 + (IF IsLeap(y) THEN 1 ELSE 0)
<1>1. Leaps(y) = Leaps(y - 1) + (IF IsLeap(y) THEN 1 ELSE 0)
      /\ Leaps(y) \in Int /\ Leaps(y - 1) \in Int
  BY LeapYears
<1>2. Before(y + 1, 1) = 0 /\ Before(y, 1) = 0 /\ y + 1 - 1 = y
  BY DEF Before
<1>3. First(y + 1, 1) = 365 * (y + 1 - 1970) + Leaps(y + 1 - 1) - 477
      /\ First(y, 1) = 365 * (y - 1970) + Leaps(y - 1) - 477
  <2>1. First(y + 1, 1) = NewYear(y + 1) + Before(y + 1, 1)
        /\ First(y, 1) = NewYear(y) + Before(y, 1)
    BY FirstDays
  <2>2. NewYear(y + 1) = 365 * (y + 1 - 1970) + Leaps(y + 1 - 1) - 477
        /\ NewYear(y) = 365 * (y - 1970) + Leaps(y - 1) - 477
    BY DEF NewYear
  <2> QED
    BY <1>1, <1>2, <2>1, <2>2
<1> QED
  BY <1>1, <1>2, <1>3

\* The calendar shows the day that a date's days are.
InYear(days, y) == days \in First(y, 1) .. First(y + 1, 1) - 1
InMonth(days, y, m) == First(y, m) <= days /\ (m < 12 => days < First(y, m + 1))
OnDay(days, y, m, d) == d \in 1 .. DaysInMonth(y, m) /\ days = First(y, m) + d - 1

\* Every day is in one year.
LEMMA OneYear ==
  ASSUME NEW days \in Int, NEW y \in Int, NEW z \in Int, InYear(days, y), InYear(days, z)
  PROVE  y = z
<1>0. \A x \in Int : First(x, 1) \in Int
  BY FirstInYear
<1>1. First(y, 1) \in Int /\ First(y + 1, 1) \in Int /\ First(z, 1) \in Int /\ First(z + 1, 1) \in Int
  BY <1>0
<1>2. /\ First(y, 1) <= days /\ days < First(y + 1, 1)
      /\ First(z, 1) <= days /\ days < First(z + 1, 1)
  BY <1>1 DEF InYear
<1>3. y < z => First(y + 1, 1) <= First(z, 1)
  BY YearsGrow
<1>4. z < y => First(z + 1, 1) <= First(y, 1)
  BY YearsGrow
<1> QED
  BY <1>1, <1>2, <1>3, <1>4

\* And in one month of it.
LEMMA OneMonth ==
  ASSUME NEW days \in Int, NEW y \in Int, NEW m \in 1 .. 12, NEW n \in 1 .. 12,
         InMonth(days, y, m), InMonth(days, y, n)
  PROVE  m = n
<1>1. ASSUME NEW j \in 1 .. 12, NEW k \in 1 .. 12, InMonth(days, y, j), InMonth(days, y, k),
             j < k
      PROVE  FALSE
  <2> DEFINE i == j + 1
  <2>0. i \in 1 .. 12 /\ j < 12 /\ k \in Int
    BY <1>1
  <2>1. Before(y, i) <= Before(y, k) /\ Before(y, i) \in Int
    BY <1>1, MonthsGrow
  <2>2. days < First(y, i) /\ First(y, k) <= days
    BY <1>1, <2>0 DEF InMonth
  <2> HIDE DEF i
  <2>3. First(y, i) = First(y, 1) + Before(y, i)
    BY <2>0, FirstInYear
  <2>4. First(y, k) = First(y, 1) + Before(y, k)
    BY <1>1, FirstInYear
  <2>5. Before(y, i) \in Int /\ Before(y, k) \in Int /\ First(y, 1) \in Int
    BY <2>0, <1>1, FirstInYear DEF Before
  <2> QED
    BY <2>1, <2>2, <2>3, <2>4, <2>5
<1>2. m < n \/ n < m \/ m = n
  OBVIOUS
<1> QED
  BY <1>1, <1>2

\* A valid date is in its month and in its year.
LEMMA DayIsIn ==
  ASSUME NEW days \in Int, NEW y \in Int, NEW m \in 1 .. 12, NEW d \in Int,
         OnDay(days, y, m, d)
  PROVE  InYear(days, y) /\ InMonth(days, y, m) /\ days - First(y, m) + 1 = d
<1>1. First(y, m) = First(y, 1) + Before(y, m)
  BY FirstInYear
<1>2. First(y, 1) \in Int /\ First(y + 1, 1) \in Int
  BY FirstInYear
<1>3. Before(y, m) \in Int /\ Before(y, m) >= 0
  BY DEF Before
<1>4. /\ d >= 1 /\ d <= DaysInMonth(y, m) /\ DaysInMonth(y, m) \in Int
      /\ days = First(y, m) + d - 1
      /\ m < 12 => Before(y, m) + DaysInMonth(y, m) = Before(y, m + 1)
      /\ m = 12 => Before(y, m) + DaysInMonth(y, m) = 365 + (IF IsLeap(y) THEN 1 ELSE 0)
  <2>1. d \in 1 .. DaysInMonth(y, m) /\ days = First(y, m) + d - 1
    BY DEF OnDay
  <2>2. DaysInMonth(y, m) \in Int
    BY <2>1, Months
  <2> QED
    BY <2>1, <2>2, Months
<1>5. First(y + 1, 1) = First(y, 1) + 365 + (IF IsLeap(y) THEN 1 ELSE 0)
  BY NextYear
<1>6. m < 12 => Before(y, m + 1) \in Int /\ Before(y, m + 1) <= 365
  BY DEF Before
<1>7. days < First(y + 1, 1)
  BY <1>1, <1>2, <1>3, <1>4, <1>5, <1>6
<1>8. InYear(days, y)
  BY <1>1, <1>2, <1>3, <1>4, <1>7 DEF InYear
<1>9. ASSUME m < 12
      PROVE  days < First(y, m + 1)
  <2> DEFINE i == m + 1
  <2>1. i \in 1 .. 12
    BY <1>9
  <2>2. Before(y, m) + DaysInMonth(y, m) = Before(y, i) /\ Before(y, i) \in Int
    BY <1>4, <1>6, <1>9
  <2> HIDE DEF i
  <2>3. First(y, i) = First(y, 1) + Before(y, i)
    BY <2>1, FirstInYear
  <2>4. days < First(y, i)
    BY <1>1, <1>2, <1>3, <1>4, <2>2, <2>3
  <2> QED
    BY <2>4 DEF i
<1>10. First(y, m) <= days /\ days - First(y, m) + 1 = d
  BY <1>1, <1>2, <1>3, <1>4
<1> QED
  BY <1>8, <1>9, <1>10 DEF InMonth

\* The day that a time is on.
DayOf(t) == t \div 1440

\* The calendar shows the day that a date's days are.
LEMMA GmtimeShows ==
  ASSUME CalendarYears \subseteq Int, NEW time \in Int,
         NEW y \in Int, y \in CalendarYears, NEW m \in 1 .. 12, NEW d \in Int,
         OnDay(DayOf(time), y, m, d)
  PROVE  Gmtime(time) = [year |-> y, month |-> m, day |-> d]
<1> DEFINE days == DayOf(time)
           year == CHOOSE z \in CalendarYears : InYear(days, z)
           month(z) == CHOOSE n \in 1 .. 12 : InMonth(days, z, n)
<1>1. days \in Int
  BY DEF DayOf
<1>2. Gmtime(time) = [year |-> year, month |-> month(year),
                      day |-> days - First(year, month(year)) + 1]
  BY DEF Gmtime, First, InYear, InMonth, DayOf
<1>0. OnDay(days, y, m, d)
  OBVIOUS
<1> HIDE DEF days
<1>3. InYear(days, y) /\ InMonth(days, y, m) /\ days - First(y, m) + 1 = d
  BY <1>0, <1>1, DayIsIn
<1>4. year = y
  <2>1. \A z \in CalendarYears : InYear(days, z) => z = y
    BY <1>1, <1>3, OneYear
  <2> QED
    BY <1>3, <2>1
<1>5. month(y) = m
  <2>1. \A n \in 1 .. 12 : InMonth(days, y, n) => n = m
    BY <1>1, <1>3, OneMonth
  <2> QED
    BY <1>3, <2>1
<1> HIDE DEF year, month
<1> QED
  BY <1>2, <1>3, <1>4, <1>5

----------------------------------------------------------------------------
(* The calendar's alarm, and the sleep that it ends. *)

Alarm == [stopped : BOOLEAN, events : 0 .. AlarmsMax, wakes : BOOLEAN]
Sleep == [at : WakeSources, source : WakeSources]

DateTime == [year : Int, month : Int, day : Int, minute : Int, utc : BOOLEAN,
             offset : Int, dst : BOOLEAN]

\* The clock, when it runs, is at the date last accepted.
ClockIsAsked ==
  /\ calAsked \in DateTime /\ ValidDate(calAsked) /\ calAsked.year \in CalendarYears
  /\ calClock >= 0 => calClock = ToTimeval(calAsked)

\* What wake_delay_us reports is still to come, outside set_alarm and disable_alarm.
WakesAreToCome ==
  calApp \in {"idle", "sleepy", "asleep"} /\ cal.wakes =>
    calTimer = "armed" \/ calFiring = 1

\* On core 0 the callback finds the program between two calls, or about to sleep,
\* and the alarm that went off neither counted nor replaced.
FiringStopsProgram ==
  /\ calFiring = 1 => calApp \in {"idle", "sleepy"} /\ calTimer = "off"
  /\ calApp \in {"setReset", "setWakes", "setStart", "stopping", "disabling"} =>
       calTimer # "armed"
  /\ calApp \in {"setWakes", "setStart"} => ~calDue
  /\ calApp = "setStart" => cal.wakes = calWake
  /\ calTimer = "armed" => cal.wakes = calWake
  /\ calTimer = "armed" \/ calFiring = 1 => ~calDue
  /\ cal.events = IF calDue THEN 1 ELSE 0
  /\ calApp \in {"sleepy", "asleep"} /\ calTimer = "armed" /\ calWake => slp.at = "alarm"

\* The source that is enabled is the one chosen, and only asleep.
SleepIsChosen ==
  /\ calApp = "asleep" => slp.source = slp.at
  /\ calApp # "asleep" => slp.source = "none"

CalInv ==
  /\ CalendarTypeOK /\ calWake \in BOOLEAN
  /\ ClockIsAsked /\ WakesAreToCome /\ SleepIsChosen
  /\ calCore = 0 => FiringStopsProgram

\* A valid date has a time, however odd its time zone.
LEMMA TimevalIsInt ==
  ASSUME NEW date \in DateTime, ValidDate(date)
  PROVE  /\ TimegmDays(date) \in Int /\ ToTimeval(date) \in Int
         /\ date.minute \in 0 .. 1439
         /\ OnDay(TimegmDays(date), date.year, date.month, date.day)
<1>1. /\ date.year \in Int /\ date.month \in 1 .. 12 /\ date.day \in Int
      /\ date.minute \in 0 .. 1439 /\ date.offset \in Int
      /\ date.day \in 1 .. DaysInMonth(date.year, date.month)
  <2>1. date.year \in Int /\ date.day \in Int /\ date.offset \in Int
    BY DEF DateTime
  <2>2. /\ date.month \in 1 .. 12 /\ date.minute \in 0 .. 1439
        /\ date.day \in 1 .. DaysInMonth(date.year, date.month)
    BY DEF ValidDate
  <2> QED
    BY <2>1, <2>2
<1>0. date.minute \in Int
  BY DEF DateTime
<1>2. TimegmDays(date)
      = NewYear(date.year) + Before(date.year, date.month) + date.day - 1
  BY <1>1, DaysOfDate
<1>3. First(date.year, date.month) = NewYear(date.year) + Before(date.year, date.month)
      /\ NewYear(date.year) \in Int
  <2>1. date.year \in Int /\ date.month \in 1 .. 12
    BY <1>1
  <2> QED
    BY <2>1, FirstDays, NewYearIsInt, Zenon
<1>4. Before(date.year, date.month) \in Nat
  <2>1. date.year \in Int /\ date.month \in 1 .. 12
    BY <1>1
  <2> QED
    BY <2>1, FirstDays, Zenon
<1>5. /\ TimegmDays(date) \in Int
      /\ TimegmDays(date) = First(date.year, date.month) + date.day - 1
  BY <1>1, <1>2, <1>3, <1>4
<1>6. ToTimeval(date) \in Int
  <2> DEFINE ahead == IF date.utc THEN 0 ELSE date.offset + (IF date.dst THEN 60 ELSE 0)
  <2>1. ahead \in Int
    BY <1>1
  <2>2. ToTimeval(date) = 1440 * TimegmDays(date) + date.minute - ahead
    BY DEF ToTimeval
  <2> HIDE DEF ahead
  <2> QED
    BY <1>0, <1>5, <2>1, <2>2
<1> QED
  BY <1>1, <1>5, <1>6 DEF OnDay

\* The first day is the one the clock starts at.
LEMMA EpochIsZero ==
  ASSUME calAsked = [year |-> 1970, month |-> 1, day |-> 1, minute |-> 0,
                     utc |-> TRUE, offset |-> 0, dst |-> FALSE]
  PROVE  calAsked \in DateTime /\ ValidDate(calAsked) /\ ToTimeval(calAsked) = 0
<1>1. /\ calAsked \in DateTime /\ calAsked.year = 1970 /\ calAsked.month = 1
      /\ calAsked.day = 1 /\ calAsked.minute = 0 /\ calAsked.utc = TRUE
  BY DEF DateTime
<1>2. DaysInMonth(1970, 1) = 31
  BY DEF DaysInMonth
<1>3. ValidDate(calAsked)
  BY <1>1, <1>2 DEF ValidDate
<1>4. Leaps(1969) = 477 /\ Before(1970, 1) = 0
  BY DEF Leaps, Before
<1>5. TimegmDays(calAsked) = NewYear(1970) + Before(1970, 1) + 1 - 1
  BY <1>1, DaysOfDate
<1>6. TimegmDays(calAsked) = 0
  BY <1>4, <1>5 DEF NewYear
<1>7. ToTimeval(calAsked) = 0
  BY <1>1, <1>6 DEF ToTimeval
<1> QED
  BY <1>1, <1>3, <1>7

\* A time is on a day, at a minute of it.
At(t, day, minute) == t \in Int /\ DayOf(t) = day /\ t % 1440 = minute

Minutes == 0 .. 1439
Moment(day, minute) == 1440 * day + minute - 0

\* The moment that a day and a minute make is on that day, at that minute.
LEMMA MomentShows ==
  \A day \in Int, minute \in Minutes : At(Moment(day, minute), day, minute)
<1> SUFFICES ASSUME NEW day \in Int, NEW minute \in Minutes
             PROVE  At(Moment(day, minute), day, minute)
  OBVIOUS
<1>1. minute \in Int /\ 0 <= minute /\ minute < 1440
  BY DEF Minutes
<1>2. Moment(day, minute) = 1440 * day + minute
  BY <1>1 DEF Moment
<1> QED
  BY <1>1, <1>2 DEF At, DayOf

LEMMA CalPromises ==
  ASSUME CalInv
  PROVE  CalendarTypeOK /\ DateShown /\ AlarmTold /\ SleepCovered
<1>1. CalendarTypeOK
  BY DEF CalInv
<1>2. AlarmTold
  BY DEF CalInv, WakesAreToCome, FiringStopsProgram, AlarmTold
<1>3. SleepCovered
  BY DEF CalInv, SleepIsChosen, FiringStopsProgram, SleepCovered
<1>4. DateShown
  <2> DEFINE asked == [calAsked EXCEPT !.utc = TRUE]
             time == calClock + ToTimeval(asked) - ToTimeval(calAsked)
             days == TimegmDays(calAsked)
  <2> SUFFICES ASSUME CalendarIsRunning
               PROVE  /\ Gmtime(time) = [year |-> calAsked.year, month |-> calAsked.month,
                                         day |-> calAsked.day]
                      /\ time % 1440 = calAsked.minute
    BY DEF DateShown
  <2>1. /\ calAsked \in DateTime /\ ValidDate(calAsked) /\ calAsked.year \in CalendarYears
        /\ calClock = ToTimeval(calAsked) /\ calClock \in Int
    BY <1>1 DEF CalInv, ClockIsAsked, CalendarIsRunning, CalendarTypeOK
  <2>2. /\ asked.year = calAsked.year /\ asked.month = calAsked.month
        /\ asked.day = calAsked.day /\ asked.minute = calAsked.minute /\ asked.utc = TRUE
    BY <2>1 DEF DateTime
  <2>3. /\ days \in Int /\ ToTimeval(calAsked) \in Int /\ calAsked.minute \in 0 .. 1439
        /\ OnDay(days, calAsked.year, calAsked.month, calAsked.day)
    BY <2>1, TimevalIsInt
  <2>4. /\ calAsked.year \in Int /\ calAsked.month \in 1 .. 12 /\ calAsked.day \in Int
    <3>1. calAsked.year \in Int /\ calAsked.day \in Int
      BY <2>1 DEF DateTime
    <3>2. calAsked.month \in 1 .. 12
      BY <2>1 DEF ValidDate
    <3> QED
      BY <3>1, <3>2
  <2>5. TimegmDays(asked) = days
    BY <2>2 DEF TimegmDays
  <2> HIDE DEF asked, days
  <2>6. ToTimeval(asked) = 1440 * days + calAsked.minute - 0
    BY <2>2, <2>5 DEF ToTimeval
  <2>7. At(time, days, calAsked.minute)
    <3> DEFINE t == ToTimeval(asked)
               minute == calAsked.minute
               clock == ToTimeval(calAsked)
    <3>1. t = Moment(days, minute)
      BY <2>6 DEF Moment
    <3>2. time = clock + t - clock /\ clock \in Int /\ days \in Int /\ minute \in Minutes
      BY <2>1, <2>3 DEF Minutes
    <3> HIDE DEF t, minute, clock, time
    <3>3. At(Moment(days, minute), days, minute)
      BY <3>2, MomentShows
    <3>4. t \in Int
      BY <3>1, <3>3 DEF At
    <3>5. time = t
      BY <3>2, <3>4
    <3> QED
      BY <3>1, <3>3, <3>5 DEF minute
  <2> HIDE DEF time
  <2>8. time \in Int /\ DayOf(time) = days /\ time % 1440 = calAsked.minute
    BY <2>7 DEF At
  <2>9. /\ CalendarYears \subseteq Int
        /\ OnDay(DayOf(time), calAsked.year, calAsked.month, calAsked.day)
    BY <2>3, <2>8, CalendarAssumption
  <2>10. Gmtime(time) = [year |-> calAsked.year, month |-> calAsked.month,
                         day |-> calAsked.day]
    <3> DEFINE y == calAsked.year
               m == calAsked.month
               d == calAsked.day
    <3>1. /\ y \in Int /\ m \in 1 .. 12 /\ d \in Int /\ y \in CalendarYears
          /\ OnDay(DayOf(time), y, m, d)
      BY <2>1, <2>4, <2>9
    <3> HIDE DEF y, m, d
    <3>2. time \in Int /\ CalendarYears \subseteq Int
      BY <2>8, <2>9
    <3>3. Gmtime(time) = [year |-> y, month |-> m, day |-> d]
      BY <3>1, <3>2, GmtimeShows
    <3> QED
      BY <3>3 DEF y, m, d
  <2> QED
    BY <2>8, <2>10
<1> QED
  BY <1>1, <1>2, <1>3, <1>4

LEMMA CalStarts ==
  ASSUME CalendarInit
  PROVE  CalInv
<1>1. cal.events = 0 /\ cal.wakes = FALSE /\ cal \in Alarm
  BY CalendarAssumption DEF CalendarInit, Alarm
<1>2. slp \in Sleep /\ slp.source = "none"
  BY DEF CalendarInit, Sleep, WakeSources
<1>3. /\ calCore \in {0, 1} /\ calClock = 0 /\ calApp = "idle" /\ calWake = FALSE
      /\ calTimer = "none" /\ calFiring = 0 /\ calDue = FALSE
  BY DEF CalendarInit
<1>4. calClock \in Int /\ calClock >= -1
  BY <1>3
<1>5. calFiring \in {0, 1} /\ calDue \in BOOLEAN /\ calWake \in BOOLEAN
  BY <1>3
<1>6. CalendarTypeOK
  BY <1>1, <1>2, <1>3, <1>4, <1>5 DEF CalendarTypeOK, Alarm, Sleep
<1>7. WakesAreToCome /\ SleepIsChosen
  BY <1>1, <1>2, <1>3 DEF WakesAreToCome, SleepIsChosen
<1>8. FiringStopsProgram
  BY <1>1, <1>2, <1>3 DEF FiringStopsProgram
<1>9. ClockIsAsked
  BY <1>3, EpochIsZero, CalendarAssumption DEF ClockIsAsked, CalendarInit
<1> QED
  BY <1>5, <1>6, <1>7, <1>8, <1>9 DEF CalInv

\* The fields of the alarm and of the sleep after an update of one.
AlarmIs(a, stopped, events, wakes) ==
  a \in Alarm /\ a.stopped = stopped /\ a.events = events /\ a.wakes = wakes

SleepIs(s, at, source) == s \in Sleep /\ s.at = at /\ s.source = source

LEMMA AlarmFields ==
  ASSUME cal \in Alarm, NEW b \in BOOLEAN, NEW c \in BOOLEAN, NEW n \in 0 .. AlarmsMax
  PROVE  /\ AlarmIs([cal EXCEPT !.stopped = b], b, cal.events, cal.wakes)
         /\ AlarmIs([cal EXCEPT !.events = n], cal.stopped, n, cal.wakes)
         /\ AlarmIs([cal EXCEPT !.wakes = b], cal.stopped, cal.events, b)
         /\ AlarmIs([cal EXCEPT !.events = n, !.wakes = b], cal.stopped, n, b)
         /\ AlarmIs([stopped |-> b, events |-> n, wakes |-> c], b, n, c)
BY DEF AlarmIs, Alarm

LEMMA SleepFields ==
  ASSUME slp \in Sleep, NEW w \in WakeSources, NEW v \in WakeSources
  PROVE  /\ SleepIs([slp EXCEPT !.at = w], w, slp.source)
         /\ SleepIs([slp EXCEPT !.source = w], slp.at, w)
         /\ SleepIs([at |-> w, source |-> v], w, v)
BY DEF SleepIs, Sleep

LEMMA CalStep ==
  ASSUME CalInv, [CalendarNext]_calVars
  PROVE  CalInv'
<1> DEFINE AppStep == {"idle", "setReset", "setWakes", "setStart", "stopping", "disabling",
                       "sleepy", "asleep"}
           CalTypes == /\ calCore \in {0, 1} /\ calClock \in Int /\ calClock >= -1
                       /\ calApp \in AppStep /\ calTimer \in {"none", "off", "armed"}
                       /\ calFiring \in {0, 1} /\ calDue \in BOOLEAN /\ calWake \in BOOLEAN
                       /\ cal \in Alarm /\ slp \in Sleep
<1>types. CalTypes
  BY DEF CalInv, CalendarTypeOK, Alarm, Sleep
<1>fields. /\ cal.stopped \in BOOLEAN /\ cal.events \in 0 .. AlarmsMax /\ cal.wakes \in BOOLEAN
           /\ slp.at \in WakeSources /\ slp.source \in WakeSources
           /\ "none" \in WakeSources /\ 0 \in 0 .. AlarmsMax /\ 1 \in 0 .. AlarmsMax
  BY <1>types, CalendarAssumption DEF Alarm, Sleep, WakeSources
<1>inv. /\ ClockIsAsked /\ WakesAreToCome /\ SleepIsChosen
        /\ calCore = 0 => FiringStopsProgram
  BY DEF CalInv
<1>done. ASSUME CalTypes', ClockIsAsked', WakesAreToCome', SleepIsChosen',
                calCore' = 0 => FiringStopsProgram'
         PROVE  CalInv'
  BY <1>done DEF CalInv, CalendarTypeOK, Alarm, Sleep
<1>clock. ASSUME UNCHANGED <<calClock, calAsked>>
          PROVE  ClockIsAsked'
  BY <1>clock, <1>inv DEF ClockIsAsked
<1> USE DEF calTime, calAlarm
<1>1. ASSUME NEW date \in Dates, CalendarStart(date),
             calCore = 0 => calFiring = 0
      PROVE  CalInv'
  <2>1. AlarmIs(cal', FALSE, cal.events, cal.wakes)
    BY <1>1, <1>types, <1>fields, AlarmFields DEF CalendarStart
  <2>0. date \in DateTime /\ ValidDate(date) /\ date.year \in CalendarYears
    BY <1>1, CalendarAssumption DEF DateTime, CalendarStart
  <2>2. calClock' \in Int /\ calClock' >= -1
    <3>1. ToTimeval(date) \in Int
      BY <2>0, TimevalIsInt
    <3> QED
      BY <1>1, <3>1 DEF CalendarStart
  <2>clock. ClockIsAsked'
    <3>1. calAsked' = date /\ (calClock' >= 0 => calClock' = ToTimeval(calAsked'))
      BY <1>1 DEF CalendarStart
    <3> QED
      BY <2>0, <3>1 DEF ClockIsAsked
  <2>types. CalTypes'
    BY <1>1, <1>types, <2>1, <2>2 DEF CalendarStart, AlarmIs
  <2>wakes. WakesAreToCome'
    BY <1>1, <1>types, <1>inv, <2>1, <2>2 DEF CalendarStart, AlarmIs, WakesAreToCome
  <2>sleep. SleepIsChosen'
    BY <1>1, <1>types, <1>inv, <2>1, <2>2 DEF CalendarStart, AlarmIs, SleepIsChosen
  <2>core. calCore' = 0 => FiringStopsProgram'
    BY <1>1, <1>types, <1>inv, <2>1, <2>2 DEF CalendarStart, AlarmIs, FiringStopsProgram
  <2> QED
    BY <1>done, <2>clock, <2>types, <2>wakes, <2>sleep, <2>core
<1>2. ASSUME NEW wake \in BOOLEAN, SetAlarm(wake),
             calCore = 0 => calFiring = 0
      PROVE  CalInv'
  <2>clock. ClockIsAsked'
    BY <1>2, <1>clock DEF SetAlarm
  <2>types. CalTypes'
    BY <1>2, <1>types DEF SetAlarm
  <2>wakes. WakesAreToCome'
    BY <1>2, <1>types, <1>inv DEF SetAlarm, WakesAreToCome
  <2>sleep. SleepIsChosen'
    BY <1>2, <1>types, <1>inv DEF SetAlarm, SleepIsChosen
  <2>core. calCore' = 0 => FiringStopsProgram'
    BY <1>2, <1>types, <1>inv DEF SetAlarm, FiringStopsProgram
  <2> QED
    BY <1>done, <2>clock, <2>types, <2>wakes, <2>sleep, <2>core
<1>3. ASSUME SetReset,
             calCore = 0 => calFiring = 0
      PROVE  CalInv'
  <2>1. AlarmIs(cal', cal.stopped, 0, cal.wakes)
    BY <1>3, <1>types, <1>fields, AlarmFields DEF SetReset
  <2>clock. ClockIsAsked'
    BY <1>3, <1>clock DEF SetReset
  <2>types. CalTypes'
    BY <1>3, <1>types, <2>1 DEF SetReset, AlarmIs
  <2>wakes. WakesAreToCome'
    BY <1>3, <1>types, <1>inv, <2>1 DEF SetReset, AlarmIs, WakesAreToCome
  <2>sleep. SleepIsChosen'
    BY <1>3, <1>types, <1>inv, <2>1 DEF SetReset, AlarmIs, SleepIsChosen
  <2>core. calCore' = 0 => FiringStopsProgram'
    BY <1>3, <1>types, <1>inv, <2>1 DEF SetReset, AlarmIs, FiringStopsProgram
  <2> QED
    BY <1>done, <2>clock, <2>types, <2>wakes, <2>sleep, <2>core
<1>4. ASSUME SetWakes,
             calCore = 0 => calFiring = 0
      PROVE  CalInv'
  <2>1. AlarmIs(cal', cal.stopped, cal.events, calWake)
    BY <1>4, <1>types, <1>fields, AlarmFields DEF SetWakes
  <2>clock. ClockIsAsked'
    BY <1>4, <1>clock DEF SetWakes
  <2>types. CalTypes'
    BY <1>4, <1>types, <2>1 DEF SetWakes, AlarmIs
  <2>wakes. WakesAreToCome'
    BY <1>4, <1>types, <1>inv, <2>1 DEF SetWakes, AlarmIs, WakesAreToCome
  <2>sleep. SleepIsChosen'
    BY <1>4, <1>types, <1>inv, <2>1 DEF SetWakes, AlarmIs, SleepIsChosen
  <2>core. calCore' = 0 => FiringStopsProgram'
    BY <1>4, <1>types, <1>inv, <2>1 DEF SetWakes, AlarmIs, FiringStopsProgram
  <2> QED
    BY <1>done, <2>clock, <2>types, <2>wakes, <2>sleep, <2>core
<1>5. ASSUME SetStart,
             calCore = 0 => calFiring = 0
      PROVE  CalInv'
  <2>clock. ClockIsAsked'
    BY <1>5, <1>clock DEF SetStart
  <2>types. CalTypes'
    BY <1>5, <1>types DEF SetStart
  <2>wakes. WakesAreToCome'
    BY <1>5, <1>types, <1>inv DEF SetStart, WakesAreToCome
  <2>sleep. SleepIsChosen'
    BY <1>5, <1>types, <1>inv DEF SetStart, SleepIsChosen
  <2>core. calCore' = 0 => FiringStopsProgram'
    BY <1>5, <1>types, <1>inv DEF SetStart, FiringStopsProgram
  <2> QED
    BY <1>done, <2>clock, <2>types, <2>wakes, <2>sleep, <2>core
<1>6. ASSUME SetStartFails,
             calCore = 0 => calFiring = 0
      PROVE  CalInv'
  <2>1. AlarmIs(cal', cal.stopped, cal.events, FALSE)
    BY <1>6, <1>types, <1>fields, AlarmFields DEF SetStartFails
  <2>clock. ClockIsAsked'
    BY <1>6, <1>clock DEF SetStartFails
  <2>types. CalTypes'
    BY <1>6, <1>types, <2>1 DEF SetStartFails, AlarmIs
  <2>wakes. WakesAreToCome'
    BY <1>6, <1>types, <1>inv, <2>1 DEF SetStartFails, AlarmIs, WakesAreToCome
  <2>sleep. SleepIsChosen'
    BY <1>6, <1>types, <1>inv, <2>1 DEF SetStartFails, AlarmIs, SleepIsChosen
  <2>core. calCore' = 0 => FiringStopsProgram'
    BY <1>6, <1>types, <1>inv, <2>1 DEF SetStartFails, AlarmIs, FiringStopsProgram
  <2> QED
    BY <1>done, <2>clock, <2>types, <2>wakes, <2>sleep, <2>core
<1>7. ASSUME NEW stops \in BOOLEAN, DisableAlarm(stops),
             calCore = 0 => calFiring = 0
      PROVE  CalInv'
  <2>clock. ClockIsAsked'
    BY <1>7, <1>clock DEF DisableAlarm
  <2>types. CalTypes'
    BY <1>7, <1>types DEF DisableAlarm
  <2>wakes. WakesAreToCome'
    BY <1>7, <1>types, <1>inv DEF DisableAlarm, WakesAreToCome
  <2>sleep. SleepIsChosen'
    BY <1>7, <1>types, <1>inv DEF DisableAlarm, SleepIsChosen
  <2>core. calCore' = 0 => FiringStopsProgram'
    BY <1>7, <1>types, <1>inv DEF DisableAlarm, FiringStopsProgram
  <2> QED
    BY <1>done, <2>clock, <2>types, <2>wakes, <2>sleep, <2>core
<1>8. ASSUME DisableReset,
             calCore = 0 => calFiring = 0
      PROVE  CalInv'
  <2>1. AlarmIs(cal', cal.stopped \/ calApp = "stopping", 0, FALSE)
    BY <1>8, <1>types, <1>fields, AlarmFields DEF DisableReset
  <2>clock. ClockIsAsked'
    BY <1>8, <1>clock DEF DisableReset
  <2>types. CalTypes'
    BY <1>8, <1>types, <2>1 DEF DisableReset, AlarmIs
  <2>wakes. WakesAreToCome'
    BY <1>8, <1>types, <1>inv, <2>1 DEF DisableReset, AlarmIs, WakesAreToCome
  <2>sleep. SleepIsChosen'
    BY <1>8, <1>types, <1>inv, <2>1 DEF DisableReset, AlarmIs, SleepIsChosen
  <2>core. calCore' = 0 => FiringStopsProgram'
    BY <1>8, <1>types, <1>inv, <2>1 DEF DisableReset, AlarmIs, FiringStopsProgram
  <2> QED
    BY <1>done, <2>clock, <2>types, <2>wakes, <2>sleep, <2>core
<1>9. ASSUME TakeAlarmEvents,
             calCore = 0 => calFiring = 0
      PROVE  CalInv'
  <2>1. AlarmIs(cal', cal.stopped, 0, cal.wakes)
    BY <1>9, <1>types, <1>fields, AlarmFields DEF TakeAlarmEvents
  <2>clock. ClockIsAsked'
    BY <1>9, <1>clock DEF TakeAlarmEvents
  <2>types. CalTypes'
    BY <1>9, <1>types, <2>1 DEF TakeAlarmEvents, AlarmIs
  <2>wakes. WakesAreToCome'
    BY <1>9, <1>types, <1>inv, <2>1 DEF TakeAlarmEvents, AlarmIs, WakesAreToCome
  <2>sleep. SleepIsChosen'
    BY <1>9, <1>types, <1>inv, <2>1 DEF TakeAlarmEvents, AlarmIs, SleepIsChosen
  <2>core. calCore' = 0 => FiringStopsProgram'
    BY <1>9, <1>types, <1>inv, <2>1 DEF TakeAlarmEvents, AlarmIs, FiringStopsProgram
  <2> QED
    BY <1>done, <2>clock, <2>types, <2>wakes, <2>sleep, <2>core
<1>10. ASSUME NEW timed \in BOOLEAN, LightSleep(timed),
             calCore = 0 => calFiring = 0
      PROVE  CalInv'
  <2>0. WakeAt(timed) \in WakeSources
    BY <1>10, <1>fields DEF WakeAt, WakeSources
  <2>1. SleepIs(slp', WakeAt(timed), slp.source)
    BY <1>10, <2>0, <1>types, <1>fields, SleepFields DEF LightSleep
  <2>clock. ClockIsAsked'
    BY <1>10, <1>clock DEF LightSleep
  <2>types. CalTypes'
    BY <1>10, <1>types, <2>1 DEF LightSleep, SleepIs
  <2>wakes. WakesAreToCome'
    BY <1>10, <1>types, <1>inv, <2>1 DEF LightSleep, SleepIs, WakesAreToCome
  <2>sleep. SleepIsChosen'
    BY <1>10, <1>types, <1>inv, <2>1 DEF LightSleep, SleepIs, SleepIsChosen
  <2>core. calCore' = 0 => FiringStopsProgram'
    BY <1>10, <1>types, <1>inv, <2>1 DEF LightSleep, SleepIs, WakeAt, FiringStopsProgram
  <2> QED
    BY <1>done, <2>clock, <2>types, <2>wakes, <2>sleep, <2>core
<1>11. ASSUME SleepFails,
             calCore = 0 => calFiring = 0
      PROVE  CalInv'
  <2>1. SleepIs(slp', "none", slp.source)
    BY <1>11, <1>types, <1>fields, SleepFields DEF SleepFails
  <2>clock. ClockIsAsked'
    BY <1>11, <1>clock DEF SleepFails
  <2>types. CalTypes'
    BY <1>11, <1>types, <2>1 DEF SleepFails, SleepIs
  <2>wakes. WakesAreToCome'
    BY <1>11, <1>types, <1>inv, <2>1 DEF SleepFails, SleepIs, WakesAreToCome
  <2>sleep. SleepIsChosen'
    BY <1>11, <1>types, <1>inv, <2>1 DEF SleepFails, SleepIs, SleepIsChosen
  <2>core. calCore' = 0 => FiringStopsProgram'
    BY <1>11, <1>types, <1>inv, <2>1 DEF SleepFails, SleepIs, FiringStopsProgram
  <2> QED
    BY <1>done, <2>clock, <2>types, <2>wakes, <2>sleep, <2>core
<1>12. ASSUME SleepStart,
             calCore = 0 => calFiring = 0
      PROVE  CalInv'
  <2>1. SleepIs(slp', slp.at, slp.at)
    BY <1>12, <1>types, <1>fields, SleepFields DEF SleepStart
  <2>clock. ClockIsAsked'
    BY <1>12, <1>clock DEF SleepStart
  <2>types. CalTypes'
    BY <1>12, <1>types, <2>1 DEF SleepStart, SleepIs
  <2>wakes. WakesAreToCome'
    BY <1>12, <1>types, <1>inv, <2>1 DEF SleepStart, SleepIs, WakesAreToCome
  <2>sleep. SleepIsChosen'
    BY <1>12, <1>types, <1>inv, <2>1 DEF SleepStart, SleepIs, SleepIsChosen
  <2>core. calCore' = 0 => FiringStopsProgram'
    BY <1>12, <1>types, <1>inv, <2>1 DEF SleepStart, SleepIs, FiringStopsProgram
  <2> QED
    BY <1>done, <2>clock, <2>types, <2>wakes, <2>sleep, <2>core
<1>13. ASSUME SleepEnds,
             calCore = 0 => calFiring = 0
      PROVE  CalInv'
  <2>1. SleepIs(slp', "none", "none")
    BY <1>13, <1>types, <1>fields, SleepFields DEF SleepEnds
  <2>clock. ClockIsAsked'
    BY <1>13, <1>clock DEF SleepEnds
  <2>types. CalTypes'
    BY <1>13, <1>types, <2>1 DEF SleepEnds, SleepIs
  <2>wakes. WakesAreToCome'
    BY <1>13, <1>types, <1>inv, <2>1 DEF SleepEnds, SleepIs, WakesAreToCome
  <2>sleep. SleepIsChosen'
    BY <1>13, <1>types, <1>inv, <2>1 DEF SleepEnds, SleepIs, SleepIsChosen
  <2>core. calCore' = 0 => FiringStopsProgram'
    BY <1>13, <1>types, <1>inv, <2>1 DEF SleepEnds, SleepIs, FiringStopsProgram
  <2> QED
    BY <1>done, <2>clock, <2>types, <2>wakes, <2>sleep, <2>core
<1>14. ASSUME TimerExpires
      PROVE  CalInv'
  <2>clock. ClockIsAsked'
    BY <1>14, <1>clock DEF TimerExpires
  <2>types. CalTypes'
    BY <1>14, <1>types DEF TimerExpires
  <2>wakes. WakesAreToCome'
    BY <1>14, <1>types, <1>inv DEF TimerExpires, WakesAreToCome
  <2>sleep. SleepIsChosen'
    BY <1>14, <1>types, <1>inv DEF TimerExpires, SleepIsChosen
  <2>core. calCore' = 0 => FiringStopsProgram'
    BY <1>14, <1>types, <1>inv DEF TimerExpires, FiringStopsProgram
  <2> QED
    BY <1>done, <2>clock, <2>types, <2>wakes, <2>sleep, <2>core
<1>15. CASE AlarmCallback
  <2> DEFINE n == IF cal.events # AlarmsMax THEN cal.events + 1 ELSE cal.events
  <2>0. n \in 0 .. AlarmsMax
    BY <1>fields, CalendarAssumption
  <2>1. AlarmIs(cal', cal.stopped, n, FALSE)
    <3>1. cal' = [cal EXCEPT !.events = n, !.wakes = FALSE]
      BY <1>15 DEF AlarmCallback
    <3> HIDE DEF n
    <3> QED
      BY <1>types, <2>0, <3>1, AlarmFields
  <2>2. cal.events = 0 => n = 1
    BY CalendarAssumption
  <2> HIDE DEF n
  <2>clock. ClockIsAsked'
    BY <1>15, <1>clock DEF AlarmCallback
  <2>types. CalTypes'
    BY <1>15, <1>types, <2>1 DEF AlarmCallback, AlarmIs
  <2>wakes. WakesAreToCome'
    BY <1>15, <2>1 DEF AlarmCallback, AlarmIs, WakesAreToCome
  <2>sleep. SleepIsChosen'
    BY <1>15, <1>inv DEF AlarmCallback, SleepIsChosen
  <2>3. calCore = 0 => calApp \in {"idle", "sleepy"} /\ calTimer = "off" /\ cal.events = 0
    BY <1>15, <1>types, <1>inv DEF AlarmCallback, FiringStopsProgram
  <2>4. /\ calCore' = calCore /\ calApp' = calApp /\ calTimer' = calTimer /\ calDue' = TRUE
        /\ calFiring' = 0
    BY <1>15 DEF AlarmCallback
  <2>core. calCore' = 0 => FiringStopsProgram'
    BY <2>1, <2>2, <2>3, <2>4 DEF AlarmIs, FiringStopsProgram
  <2> QED
    BY <1>done, <2>clock, <2>types, <2>wakes, <2>sleep, <2>core
<1>16. CASE UNCHANGED calVars
  BY <1>16, <1>types, <1>inv, <1>clock, <1>done
     DEF calVars, WakesAreToCome, SleepIsChosen, FiringStopsProgram
<1> QED
  BY <1>1, <1>2, <1>3, <1>4, <1>5, <1>6, <1>7, <1>8, <1>9, <1>10, <1>11, <1>12, <1>13,
     <1>14, <1>15, <1>16 DEF CalendarNext, CalendarCall

----------------------------------------------------------------------------
(* All of them.                                                            *)

PlatformInv ==
  used \in Parts /\ FsInv /\ OtaInv /\ CtxInv /\ EthInv /\ LinkInv /\ CalInv

LEMMA PlatformStep ==
  ASSUME PlatformInv, [Next]_vars
  PROVE  PlatformInv'
<1>inv. used \in Parts /\ FsInv /\ OtaInv /\ CtxInv /\ EthInv /\ LinkInv /\ CalInv
  BY DEF PlatformInv
<1>1. /\ used' = used /\ [EthNext]_ethVars /\ [CalendarNext]_calVars /\ [ContextNext]_ctxVars
      /\ [OtaNext]_otaVars /\ [FsNext]_fsVars
  BY DEF Next, vars
<1> QED
  BY <1>inv, <1>1, FsStep, OtaStep, CtxStep, EthStep, LinkStep, CalStep DEF PlatformInv, Parts

\* Every reachable state has every part's invariant, whichever part the program
\* uses: what each has to keep so that its promises last.
THEOREM PlatformAlways == Spec => []PlatformInv
<1>1. Init => PlatformInv
  BY FsStarts, OtaStarts, CtxStarts, EthStarts, CalStarts DEF Init, PlatformInv
<1>2. PlatformInv /\ [Next]_vars => PlatformInv'
  BY PlatformStep
<1> QED
  BY <1>1, <1>2, PTL DEF Spec

\* The state is of the types the modules declare, and a counter or ring within its
\* size (the statics of esp32_ethernet.c, esp32_calendar.c, esp32_runtime.c,
\* esp32_ota.c and esp32_filesystem.c).
THEOREM PlatformTypes == Spec => []TypeOK
<1>1. ASSUME PlatformInv
      PROVE  TypeOK
  <2>1. EthTypeOK /\ CalendarTypeOK /\ OtaTypeOK
    BY <1>1, EthPromises, CalPromises, OtaPromises DEF PlatformInv
  <2>2. ContextTypeOK /\ FsTypeOK /\ used \in Parts
    BY <1>1 DEF PlatformInv, CtxInv, FsInv
  <2> QED
    BY <2>1, <2>2 DEF TypeOK
<1> QED
  BY <1>1, PlatformAlways, PTL

\* Whenever the chip is restarted, and wherever an update or a mount has failed,
\* there is a whole image to boot and no data was erased; an update's handle keeps
\* the size it was given, and the default volume is one that is mounted
\* (esp32_ota.c, esp32_filesystem.c).
THEOREM KeptIsWhole == Spec => []KeptWhole
<1>1. ASSUME PlatformInv
      PROVE  KeptWhole
  <2>1. AlwaysBoots /\ SizesKept
    BY <1>1, OtaPromises DEF PlatformInv
  <2>2. NeverFormatsData /\ DefaultMounted
    BY <1>1 DEF PlatformInv, FsInv
  <2> QED
    BY <2>1, <2>2 DEF KeptWhole
<1> QED
  BY <1>1, PlatformAlways, PTL

\* The Ethernet callback never runs over a driver that was deleted, everything made
\* is deleted, and a worker is bound to the arena of a context that is initialised
\* by its owner (bmx_ethernet_release, bmx_esp32_managed_gc_worker_start and
\* bmx_esp32_managed_worker_trampoline).
THEOREM LifetimesAreRespected == Spec => []LifetimesRespected
<1>1. ASSUME PlatformInv
      PROVE  LifetimesRespected
  <2>1. EthReleased
    BY <1>1, EthPromises DEF PlatformInv
  <2>2. ContextKept /\ WorkerKept
    BY <1>1, ContextPromises DEF PlatformInv
  <2> QED
    BY <2>1, <2>2 DEF LifetimesRespected
<1> QED
  BY <1>1, PlatformAlways, PTL

\* What happened is what the program is told.  When the event loop has nothing left,
\* the link's status is what the driver last said, in this session or late from the
\* one before, and the last report says so unless the ring refused it.  The calendar
\* shows every date that it accepted, in any year and any time zone.  A deadline is
\* reported only of an alarm that is still to come; where program and callback share
\* a core an alarm is told once and the chip does not sleep past one that is to wake
\* it (esp32_ethernet.c, esp32_calendar.c, esp32_power.c).
THEOREM EventsAreTold == Spec => []EventsTold
<1>1. PlatformInv => EventsTold
  BY LinkPromises, CalPromises DEF PlatformInv, EventsTold
<1> QED
  BY <1>1, PlatformAlways, PTL
=============================================================================
