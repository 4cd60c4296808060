------------------------- MODULE DeferredEventsProofs -------------------------
(***************************************************************************)
(* Proofs about DeferredEvents, for every number of posters and network    *)
(* tasks, every ring size that divides the range of its counters, and      *)
(* every saturation bound.  The last part shows that the ring implements   *)
(* the channel of EventFifo: the queue is what lies between get and put,   *)
(* read modulo the ring size.                                              *)
(***************************************************************************)
EXTENDS DeferredEvents, Sequences, SequenceTheorems, TLAPS

----------------------------------------------------------------------------
(* The counters. *)

\* Advancing a counter stays within uint32_t.
LEMMA SuccType ==
  ASSUME NEW n \in Counter
  PROVE  Succ(n) \in Counter
  BY RingAssumption DEF Succ, Counter

\* Storing advances put: one more event is in the ring.
LEMMA UsedAfterStore ==
  ASSUME put \in Counter, get \in Counter, Used < Capacity,
         put' = Succ(put), get' = get
  PROVE  Used' = Used + 1
  BY RingAssumption DEF Succ, Counter, Used

\* Taking advances get: one event fewer.
LEMMA UsedAfterTake ==
  ASSUME put \in Counter, get \in Counter, get # put,
         get' = Succ(get), put' = put
  PROVE  Used' = Used - 1
  BY RingAssumption DEF Succ, Counter, Used

LEMMA UsedType ==
  ASSUME put \in Counter, get \in Counter
  PROVE  /\ Used \in Nat
         /\ Used = 0 <=> get = put
  BY RingAssumption DEF Counter, Used

----------------------------------------------------------------------------
(* Type correctness. *)

LEMMA GiveType ==
  ASSUME TypeOK, Give
  PROVE  /\ created' \in BOOLEAN
         /\ recreated' \in BOOLEAN
         /\ given' \in BOOLEAN
         /\ listed' \in BOOLEAN
         /\ owner' \in OwnerStates
  BY DEF TypeOK, Give, OwnerStates

\* The counters of the ring stay within uint32_t and at most Capacity apart,
\* and no step gives any variable a value outside its type.
THEOREM TypeCorrect == Spec => []TypeOK
<1>1. Init => TypeOK
  <2> SUFFICES ASSUME Init
               PROVE  TypeOK
    OBVIOUS
  <2>1. slots \in [Index -> Events \cup {NoEvent}]
    BY DEF Init
  <2>2. /\ put \in Counter
        /\ get \in Counter
        /\ Used <= Capacity
        /\ dropped \in 0 .. MaxDropped
        /\ native \in 0 .. NativeCapacity
    BY RingAssumption DEF Init, Counter, Used
  <2>3. QED
    BY <2>1, <2>2 DEF Init, TypeOK, OwnerStates, PosterStates, WakerStates
<1>2. TypeOK /\ [Next]_vars => TypeOK'
  <2> SUFFICES ASSUME TypeOK, [Next]_vars
               PROVE  TypeOK'
    OBVIOUS
  <2>0. ASSUME UNCHANGED ring
        PROVE  /\ slots' \in [Index -> Events \cup {NoEvent}]
               /\ put' \in Counter
               /\ get' \in Counter
               /\ Used' <= Capacity
               /\ dropped' \in 0 .. MaxDropped
    BY <2>0 DEF TypeOK, ring, Used
  <2>1. ASSUME NEW p \in Posters, NEW e \in Events, Post(p, e)
        PROVE  TypeOK'
    <3>1. UNCHANGED <<created, recreated, given, listed, owner, waker, native>>
      BY <2>1 DEF Post, signal
    <3>2. poster' \in [Posters -> PosterStates]
      BY <2>1 DEF Post, TypeOK, PosterStates
    <3>3. CASE Store(e)
      <4>1. slots' \in [Index -> Events \cup {NoEvent}]
        BY <3>3 DEF Store, TypeOK
      <4>2. /\ put' \in Counter
            /\ get' \in Counter
            /\ dropped' \in 0 .. MaxDropped
        BY <3>3, SuccType DEF Store, TypeOK
      <4>3. Used' <= Capacity
        BY <3>3, UsedAfterStore, UsedType, RingAssumption DEF Store, TypeOK, IsFull
      <4>4. QED
        BY <3>1, <3>2, <4>1, <4>2, <4>3 DEF TypeOK
    <3>4. CASE Drop
      <4>1. dropped' \in 0 .. MaxDropped
        BY <3>4, RingAssumption DEF Drop, TypeOK
      <4>2. QED
        BY <3>1, <3>2, <3>4, <4>1 DEF Drop, TypeOK, Used
    <3>5. QED
      BY <2>1, <3>3, <3>4 DEF Post
  <2>2. ASSUME NEW p \in Posters, PostGive(p)
        PROVE  TypeOK'
    <3>1. poster' \in [Posters -> PosterStates]
      BY <2>2 DEF PostGive, TypeOK, PosterStates
    <3>2. QED
      BY <2>2, <2>0, <3>1, GiveType DEF PostGive, TypeOK
  <2>3. ASSUME NEW w \in Wakers, WakerStep(w)
        PROVE  TypeOK'
    <3>1. CASE NativeQueue(w)
      BY <3>1, <2>0, RingAssumption
      DEF NativeQueue, TypeOK, signal, WakerStates
    <3>2. CASE WakeCheck(w)
      BY <3>2, <2>0 DEF WakeCheck, TypeOK, signal, WakerStates
    <3>3. CASE WakeCreate(w)
      BY <3>3, <2>0 DEF WakeCreate, CreateSignal, TypeOK, WakerStates
    <3>4. CASE WakeGive(w)
      <4>1. waker' \in [Wakers -> WakerStates]
        BY <3>4 DEF WakeGive, TypeOK, WakerStates
      <4>2. QED
        BY <3>4, <2>0, <4>1, GiveType DEF WakeGive, TypeOK
    <3>5. QED
      BY <2>3, <3>1, <3>2, <3>3, <3>4 DEF WakerStep
  <2>4. CASE Take
    <3>1. get' \in Counter
      BY <2>4, SuccType DEF Take, TypeOK
    <3>2. Used' <= Capacity
      BY <2>4, UsedAfterTake, UsedType, RingAssumption DEF Take, TypeOK, IsEmpty
    <3>3. QED
      BY <2>4, <3>1, <3>2 DEF Take, TypeOK, signal
  <2>5. CASE TakeNative
    BY <2>5, <2>0, RingAssumption DEF TakeNative, TypeOK, signal
  <2>6. CASE CallWait
    BY <2>6, <2>0 DEF CallWait, TypeOK, signal, OwnerStates
  <2>7. CASE WaitStep
    BY <2>7, <2>0
    DEF WaitStep, WaitEntry, WaitCreate, WaitCheck, WaitTake, CreateSignal,
        TypeOK, signal, OwnerStates
  <2>8. CASE UNCHANGED vars
    BY <2>8, <2>0 DEF vars, ring, TypeOK
  <2>9. QED
    BY <2>1, <2>2, <2>3, <2>4, <2>5, <2>6, <2>7, <2>8
    DEF Next, PosterStep, OwnerStep
<1>3. QED
  BY <1>1, <1>2, PTL DEF Spec

----------------------------------------------------------------------------
(***************************************************************************)
(* No lost wake-up.  The invariant of the run is not inductive: that a     *)
(* sleeping owner still has a give to come depends on what was true when   *)
(* it read the ring (WaitCheck) and when a poster read the semaphore's     *)
(* handle (Post), and on nobody having used the semaphore before the one   *)
(* initialisation that counts.                                             *)
(***************************************************************************)

\* Before it is initialised nobody uses the semaphore.
CreatedFirst ==
  /\ owner \in {"check", "take", "blocked"} => created
  /\ \A p \in Posters : poster[p] = "give" => created
  /\ \A w \in Wakers : waker[w] = "give" => created
  /\ given => created

\* The owner is on the list exactly while it is blocked, and nothing is given
\* then.
ListedIffBlocked ==
  /\ listed <=> owner = "blocked"
  /\ owner = "blocked" => ~given

\* From the check of the ring on, an event in the ring has its give to come.
RingSignalled ==
  owner \in {"take", "blocked"} /\ ~IsEmpty => given \/ GiveUnderWay

\* From the moment the owner found the network rings empty, so has an event there.
NativeSignalled ==
  owner # "run" /\ native > 0 => given \/ GiveUnderWay

WakeInv ==
  ~recreated =>
    /\ CreatedFirst
    /\ ListedIffBlocked
    /\ RingSignalled
    /\ NativeSignalled

LEMMA WakeInvInit == Init => WakeInv
  BY DEF Init, WakeInv, CreatedFirst, ListedIffBlocked, RingSignalled,
         NativeSignalled, IsEmpty

LEMMA WakeInvStep ==
  ASSUME TypeOK, WakeInv, Next
  PROVE  WakeInv'
<1> USE DEF WakeInv, CreatedFirst, ListedIffBlocked, RingSignalled,
            NativeSignalled, IsEmpty, GiveUnderWay
<1>1. ASSUME NEW p \in Posters, NEW e \in Events, Post(p, e)
      PROVE  WakeInv'
  <2>1. UNCHANGED <<created, recreated, given, listed, owner, waker, native>>
    BY <1>1 DEF Post, signal
  <2>2. CASE Store(e)
    <3>1. poster' = [poster EXCEPT ![p] = IF created THEN "give" ELSE "idle"]
      BY <1>1, <2>2 DEF Post, Store, Drop
    <3>2. created => GiveUnderWay'
      BY <3>1 DEF TypeOK
    <3>3. GiveUnderWay => GiveUnderWay'
      BY <1>1, <2>1, <3>1 DEF Post, TypeOK
    <3>4. \A q \in Posters : poster'[q] = "give" => created \/ poster[q] = "give"
      BY <3>1 DEF TypeOK
    <3>5. QED
      BY <2>1, <3>2, <3>3, <3>4
  <2>3. CASE Drop
    <3>1. UNCHANGED <<put, get, poster>>
      BY <1>1, <2>3 DEF Post, Store, Drop
    <3>2. QED
      BY <2>1, <3>1
  <2>4. QED
    BY <1>1, <2>2, <2>3 DEF Post
<1>2. ASSUME NEW p \in Posters, PostGive(p)
      PROVE  WakeInv'
  <2>1. /\ given'
        /\ ~listed'
        /\ owner' = IF listed THEN "take" ELSE owner
        /\ UNCHANGED <<put, get, created, recreated, waker, native>>
    BY <1>2 DEF PostGive, Give, ring
  <2>2. /\ poster[p] = "give"
        /\ poster' = [poster EXCEPT ![p] = "idle"]
    BY <1>2 DEF PostGive
  <2>3. QED
    BY <2>1, <2>2 DEF TypeOK
<1>3. ASSUME NEW w \in Wakers, WakerStep(w)
      PROVE  WakeInv'
  <2>1. CASE NativeQueue(w)
    <3>1. UNCHANGED <<put, get, created, recreated, given, listed, owner, poster>>
      BY <2>1 DEF NativeQueue, ring, signal
    <3>2. waker' = [waker EXCEPT ![w] = "wake"]
      BY <2>1 DEF NativeQueue
    <3>3. GiveUnderWay'
      BY <3>2 DEF TypeOK
    <3>4. QED
      BY <3>1, <3>2, <3>3 DEF TypeOK
  <2>2. CASE WakeCheck(w)
    <3>1. UNCHANGED <<put, get, created, recreated, given, listed, owner, poster,
                      native>>
      BY <2>2 DEF WakeCheck, ring, signal
    <3>2. /\ waker[w] = "wake"
          /\ waker' = [waker EXCEPT ![w] = IF created THEN "give" ELSE "create"]
      BY <2>2 DEF WakeCheck
    <3>3. GiveUnderWay'
      BY <3>2 DEF TypeOK
    <3>4. QED
      BY <3>1, <3>2, <3>3 DEF TypeOK
  <2>3. CASE WakeCreate(w)
    <3>1. /\ recreated' = (recreated \/ created)
          /\ created' /\ ~given' /\ ~listed'
          /\ UNCHANGED <<put, get, owner, poster, native>>
      BY <2>3 DEF WakeCreate, CreateSignal, ring
    <3>2. waker' = [waker EXCEPT ![w] = "give"]
      BY <2>3 DEF WakeCreate
    <3>3. GiveUnderWay'
      BY <3>2 DEF TypeOK
    <3>4. QED
      BY <3>1, <3>3
  <2>4. CASE WakeGive(w)
    <3>1. /\ given'
          /\ ~listed'
          /\ owner' = IF listed THEN "take" ELSE owner
          /\ UNCHANGED <<put, get, created, recreated, poster, native>>
      BY <2>4 DEF WakeGive, Give, ring
    <3>2. /\ waker[w] = "give"
          /\ waker' = [waker EXCEPT ![w] = "idle"]
      BY <2>4 DEF WakeGive
    <3>3. QED
      BY <3>1, <3>2 DEF TypeOK
  <2>5. QED
    BY <1>3, <2>1, <2>2, <2>3, <2>4 DEF WakerStep
<1>4. CASE Take
  BY <1>4 DEF Take, signal
<1>5. CASE TakeNative
  BY <1>5 DEF TakeNative, ring, signal, TypeOK
<1>6. CASE CallWait
  BY <1>6 DEF CallWait, ring, signal
<1>7. CASE WaitEntry
  BY <1>7 DEF WaitEntry, ring, signal
<1>8. CASE WaitCreate
  BY <1>8 DEF WaitCreate, CreateSignal, ring
<1>9. CASE WaitCheck
  BY <1>9 DEF WaitCheck, ring, signal
<1>10. CASE WaitTake
  BY <1>10 DEF WaitTake, ring
<1>11. QED
  BY <1>1, <1>2, <1>3, <1>4, <1>5, <1>6, <1>7, <1>8, <1>9, <1>10
  DEF Next, PosterStep, OwnerStep, WaitStep

\* While the owner sleeps in bmx_embedded_system_wait with an event queued, a
\* give is under way that will find it on the semaphore's list, unless the
\* semaphore was created twice: for any number of tasks and interrupt handlers.
THEOREM NoWakeupIsLost == Spec => []NoLostWakeup
<1>1. TypeOK /\ WakeInv /\ [Next]_vars => WakeInv'
  <2> SUFFICES ASSUME TypeOK, WakeInv, [Next]_vars
               PROVE  WakeInv'
    OBVIOUS
  <2>1. CASE Next
    BY <2>1, WakeInvStep
  <2>2. CASE UNCHANGED vars
    BY <2>2 DEF vars, WakeInv, CreatedFirst, ListedIffBlocked, RingSignalled,
                NativeSignalled, IsEmpty, GiveUnderWay
  <2>3. QED
    BY <2>1, <2>2
<1>2. TypeOK /\ WakeInv => NoLostWakeup
  BY DEF TypeOK, WakeInv, ListedIffBlocked, RingSignalled, NativeSignalled,
         NoLostWakeup, Stranded, WorkQueued
<1>3. QED
  BY <1>1, <1>2, WakeInvInit, TypeCorrect, PTL DEF Spec

----------------------------------------------------------------------------
(* Arithmetic modulo the ring size. *)

\* Division with remainder.
LEMMA Divide ==
  ASSUME NEW n \in Nat, NEW c \in Nat \ {0}
  PROVE  /\ n = c * (n \div c) + (n % c)
         /\ n \div c \in Nat
         /\ n % c \in 0 .. c - 1
  OBVIOUS

\* The only multiple of c between -c and c is 0.
LEMMA NoMultipleBetween ==
  ASSUME NEW k \in Int, NEW c \in Nat \ {0}, c * k < c, -c < c * k
  PROVE  k = 0
  OBVIOUS

\* Two numbers that differ by a multiple of c leave the same remainder.
LEMMA SameRemainder ==
  ASSUME NEW c \in Nat \ {0}, NEW x \in Int, NEW m \in Int,
         NEW a \in Int, NEW b \in Int, NEW e \in Int,
         NEW r \in 0 .. c - 1, NEW s \in 0 .. c - 1,
         x + m = c * a + r, x = c * b + s, m = c * e
  PROVE  r = s
<1>1. c * (a - b - e) = s - r
  OBVIOUS
<1>2. a - b - e = 0
  BY <1>1, NoMultipleBetween
<1>3. QED
  BY <1>1, <1>2

\* Numbers less than a ring apart lie in different slots.
LEMMA SlotsApart ==
  ASSUME NEW n \in Nat, NEW d \in Nat, 0 < d, d < Capacity
  PROVE  SlotOf(n + d) # SlotOf(n)
<1> SUFFICES ASSUME NEW c \in Nat \ {0}, c = Capacity, (n + d) % c = n % c
             PROVE  FALSE
  BY RingAssumption DEF SlotOf
<1> DEFINE k == ((n + d) \div c) - (n \div c)
<1>1. k \in Int
  BY Divide
<1>2. c * k = c * ((n + d) \div c) - c * (n \div c)
  BY Divide
<1>3. c * k = d
  BY <1>2, Divide
<1>4. k = 0
  BY <1>1, <1>3, NoMultipleBetween
<1>5. QED
  BY <1>3, <1>4

\* Adding the range of a counter does not change the slot: this is where the
\* ring size has to divide it.
LEMMA SlotWraps ==
  ASSUME NEW n \in Nat, NEW y \in Nat, y = n + Modulus
  PROVE  SlotOf(y) = SlotOf(n)
<1> SUFFICES ASSUME NEW c \in Nat \ {0}, c = Capacity
             PROVE  y % c = n % c
  BY RingAssumption DEF SlotOf
<1>1. y = c * (y \div c) + (y % c) /\ y \div c \in Nat /\ y % c \in 0 .. c - 1
  BY Divide
<1>2. n = c * (n \div c) + (n % c) /\ n \div c \in Nat /\ n % c \in 0 .. c - 1
  BY Divide
<1>3. /\ Modulus = c * (Modulus \div c) + (Modulus % c)
      /\ Modulus % c = 0
      /\ Modulus \div c \in Nat
  BY Divide, RingAssumption
<1> DEFINE a == y \div c
           b == n \div c
           e == Modulus \div c
           r == y % c
           s == n % c
<1>4. /\ a \in Int /\ b \in Int /\ e \in Int
      /\ r \in 0 .. c - 1 /\ s \in 0 .. c - 1
      /\ n + Modulus = c * a + r /\ n = c * b + s /\ Modulus = c * e
  BY <1>1, <1>2, <1>3
<1>5. r = s
  <2> HIDE DEF a, b, e, r, s
  <2>1. QED
    BY <1>4, RingAssumption, SameRemainder
<1>6. QED
  BY <1>5

\* A remainder is a slot of the ring.
LEMMA SlotType ==
  ASSUME NEW n \in Nat
  PROVE  SlotOf(n) \in Index
  BY RingAssumption, Divide DEF SlotOf, Index

----------------------------------------------------------------------------
(* The steps. *)

\* A function on 1..n is a sequence of length n.
LEMMA FunctionIsSequence ==
  ASSUME NEW S, NEW n \in Nat, NEW f \in [1 .. n -> S]
  PROVE  f \in Seq(S) /\ Len(f) = n
  OBVIOUS

\* The abstract queue.
Queue == [i \in 1 .. Used |-> slots[SlotOf(get + i - 1)]]

\* put is Used slots after get, also when it has wrapped.
LEMMA PutSlot ==
  ASSUME TypeOK
  PROVE  SlotOf(put) = SlotOf(get + Used)
<1>1. /\ put \in Nat /\ get \in Nat /\ Used \in Nat /\ get + Used \in Nat
      /\ get + Used = put \/ get + Used = put + Modulus
  BY RingAssumption, UsedType DEF TypeOK, Counter, Used
<1>2. QED
  BY <1>1, SlotWraps

\* The queue is a sequence, of length Used.
LEMMA QueueType ==
  ASSUME TypeOK
  PROVE  /\ Queue \in Seq(Events \cup {NoEvent})
         /\ Len(Queue) = Used
         /\ \A i \in 1 .. Used : Queue[i] = slots[SlotOf(get + i - 1)]
<1>1. Used \in Nat /\ get \in Nat
  BY UsedType DEF TypeOK, Counter
<1>2. \A i \in 1 .. Used : slots[SlotOf(get + i - 1)] \in Events \cup {NoEvent}
  BY <1>1, SlotType DEF TypeOK
<1>3. QED
  BY <1>1, <1>2 DEF Queue

\* Storing an event appends it to the queue.
LEMMA StoreAccepts ==
  ASSUME TypeOK, TypeOK', NEW e \in Events, Store(e)
  PROVE  Fifo!Accept(e)
<1>1. /\ Used \in Nat /\ get \in Nat /\ Used < Capacity /\ Used' = Used + 1
      /\ get' = get
  BY UsedType, UsedAfterStore, RingAssumption DEF TypeOK, Store, IsFull, Counter
<1>2. slots' = [slots EXCEPT ![SlotOf(get + Used)] = e]
  BY PutSlot DEF Store
<1>3. SlotOf(get + Used) \in Index
  BY <1>1, SlotType
<1>4. slots'[SlotOf(get + Used)] = e
  BY <1>2, <1>3 DEF TypeOK
<1>5. ASSUME NEW i \in 1 .. Used
      PROVE  slots'[SlotOf(get + i - 1)] = slots[SlotOf(get + i - 1)]
  <2> DEFINE n == get + i - 1
             d == Used - i + 1
  <2>1. /\ n \in Nat /\ d \in Nat /\ n + d = get + Used
        /\ 0 < d /\ d < Capacity
    BY <1>1, RingAssumption
  <2>2. SlotOf(n + d) # SlotOf(n)
    <3> HIDE DEF n, d
    <3>1. QED
      BY <2>1, SlotsApart
  <2>3. SlotOf(n) \in Index /\ SlotOf(n) # SlotOf(get + Used)
    BY <2>1, <2>2, SlotType
  <2>4. QED
    BY <1>2, <2>3 DEF TypeOK
<1>6. Queue' = [i \in 1 .. Used + 1 |-> slots'[SlotOf(get + i - 1)]]
  BY <1>1 DEF Queue, SlotOf
<1>7. Queue' = Append(Queue, e)
  <2> DEFINE S == Events \cup {NoEvent}
             A == Append(Queue, e)
  <2>1. /\ A \in Seq(S) /\ Len(A) = Used + 1 /\ A[Used + 1] = e
        /\ \A i \in 1 .. Used : A[i] = Queue[i]
    BY <1>1, QueueType, AppendProperties
  <2>2. ASSUME NEW i \in 1 .. Used + 1
        PROVE  slots'[SlotOf(get + i - 1)] = A[i] /\ A[i] \in S
    <3>1. CASE i = Used + 1
      BY <3>1, <1>1, <1>4, <2>1
    <3>2. CASE i # Used + 1
      <4>1. i \in 1 .. Used
        BY <3>2, <1>1
      <4>2. A[i] = slots'[SlotOf(get + i - 1)]
        BY <4>1, <1>5, <2>1, QueueType
      <4>3. A[i] \in S
        BY <2>1, <1>1
      <4>4. QED
        BY <4>2, <4>3
    <3>3. QED
      BY <3>1, <3>2
  <2>3. Queue' \in Seq(S) /\ Len(Queue') = Used + 1
    <3>1. \A i \in 1 .. Used + 1 : slots'[SlotOf(get + i - 1)] \in S
      BY <2>2
    <3>2. Queue' \in [1 .. Used + 1 -> S]
      BY <1>6, <3>1
    <3>3. QED
      BY <1>1, <3>2, FunctionIsSequence
  <2>4. \A i \in 1 .. Used + 1 : Queue'[i] = A[i]
    BY <1>6, <2>2
  <2>5. QED
    BY <2>1, <2>3, <2>4, SeqEqual
<1>8. Len(Queue) < Capacity
  BY <1>1, QueueType
<1>9. QED
  BY <1>7, <1>8 DEF Store, Fifo!Accept, Queue

\* A full ring drops the event: the channel refuses it, or stutters when the
\* count of refused events is at its limit.
LEMMA DropRefuses ==
  ASSUME TypeOK, Drop
  PROVE  Fifo!Refuse \/ UNCHANGED Fifo!vars
<1>1. Used = Capacity
  BY UsedType, RingAssumption DEF TypeOK, Drop, IsFull
<1>2. Queue' = Queue
  BY DEF Drop, Queue, Used, SlotOf
<1>3. dropped < MaxDropped \/ dropped = MaxDropped
  BY RingAssumption DEF TypeOK
<1>4. QED
  BY <1>1, <1>2, <1>3, QueueType DEF Drop, Fifo!Refuse, Fifo!vars, Queue

\* Taking an event removes the head of the queue.
LEMMA TakeDelivers ==
  ASSUME TypeOK, Take
  PROVE  Fifo!Deliver
<1>1. /\ get # put /\ get' = Succ(get) /\ put' = put /\ slots' = slots
      /\ dropped' = dropped
  BY DEF Take, IsEmpty
<1>2. /\ Used \in Nat /\ get \in Nat /\ Used # 0 /\ Used' = Used - 1
  BY <1>1, UsedType, UsedAfterTake DEF TypeOK, Counter
<1>3. ASSUME NEW i \in 1 .. Used - 1
      PROVE  SlotOf(get' + i - 1) = SlotOf(get + i)
  <2>1. CASE get = Modulus - 1
    <3>1. get' = 0
      BY <1>1, <2>1 DEF Succ
    <3>2. /\ i - 1 \in Nat /\ get + i \in Nat /\ get + i = (i - 1) + Modulus
          /\ get' + i - 1 = i - 1
      BY <3>1, <2>1, <1>2, RingAssumption
    <3>3. QED
      BY <3>2, SlotWraps
  <2>2. CASE get # Modulus - 1
    BY <1>1, <1>2, <2>2 DEF Succ
  <2>3. QED
    BY <2>1, <2>2
<1>4. Queue' = [i \in 1 .. Used - 1 |-> slots[SlotOf(get' + i - 1)]]
  BY <1>1, <1>2 DEF Queue, SlotOf
<1>5. Queue # <<>>
  BY <1>2, QueueType
<1>6. Queue' = Tail(Queue)
  <2> DEFINE S == Events \cup {NoEvent}
             T == Tail(Queue)
  <2>1. /\ T \in Seq(S) /\ Len(T) = Used - 1
        /\ \A i \in 1 .. Used - 1 : T[i] = Queue[i + 1]
    BY <1>2, <1>5, QueueType, HeadTailProperties
  <2>2. ASSUME NEW i \in 1 .. Used - 1
        PROVE  slots[SlotOf(get' + i - 1)] = T[i] /\ T[i] \in S
    <3>1. i + 1 \in 1 .. Used /\ get + (i + 1) - 1 = get + i
      BY <1>2
    <3>2. QED
      BY <1>2, <1>3, <2>1, <3>1, QueueType
  <2>3. Queue' \in Seq(S) /\ Len(Queue') = Used - 1
    <3>1. \A i \in 1 .. Used - 1 : slots[SlotOf(get' + i - 1)] \in S
      BY <2>2
    <3>2. Queue' \in [1 .. Used - 1 -> S]
      BY <1>4, <3>1
    <3>3. Used - 1 \in Nat
      BY <1>2
    <3>4. QED
      BY <3>2, <3>3, FunctionIsSequence
  <2>4. \A i \in 1 .. Used - 1 : Queue'[i] = T[i]
    BY <1>4, <2>2
  <2>5. QED
    BY <2>1, <2>3, <2>4, SeqEqual
<1>7. QED
  BY <1>1, <1>5, <1>6 DEF Fifo!Deliver, Queue

\* No other step is seen by the channel.
LEMMA OthersStutter ==
  ASSUME UNCHANGED ring
  PROVE  UNCHANGED Fifo!vars
  BY DEF ring, Fifo!vars, Used, SlotOf

\* Events leave the deferred ring in the order in which they were accepted, none
\* twice, none overwritten, and every refusal is counted: for every ring size,
\* also when the counters wrap.
THEOREM RingImplementsFifo == Spec => DeliversInOrder
<1>1. Init => Fifo!Init
  BY RingAssumption DEF Init, Fifo!Init, Used
<1>2. TypeOK /\ TypeOK' /\ [Next]_vars => [Fifo!Next]_(Fifo!vars)
  <2> SUFFICES ASSUME TypeOK, TypeOK', [Next]_vars
               PROVE  Fifo!Next \/ UNCHANGED Fifo!vars
    OBVIOUS
  <2>1. ASSUME NEW p \in Posters, NEW e \in Events, Post(p, e)
        PROVE  Fifo!Next \/ UNCHANGED Fifo!vars
    <3>1. CASE Store(e)
      BY <3>1, StoreAccepts DEF Fifo!Next
    <3>2. CASE Drop
      BY <3>2, DropRefuses DEF Fifo!Next
    <3>3. QED
      BY <2>1, <3>1, <3>2 DEF Post
  <2>2. CASE Take
    BY <2>2, TakeDelivers DEF Fifo!Next
  <2>3. CASE UNCHANGED ring
    BY <2>3, OthersStutter
  <2>4. UNCHANGED ring \/ Take \/ \E p \in Posters : \E e \in Events : Post(p, e)
    BY DEF Next, PosterStep, WakerStep, OwnerStep, WaitStep, vars, ring,
           PostGive, NativeQueue, WakeCheck, WakeCreate, WakeGive, TakeNative,
           CallWait, WaitEntry, WaitCreate, WaitCheck, WaitTake
  <2>5. QED
    BY <2>1, <2>2, <2>3, <2>4
<1>3. QED
  BY <1>1, <1>2, TypeCorrect, PTL DEF Spec, DeliversInOrder, Fifo!Spec
=============================================================================
