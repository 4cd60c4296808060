------------------------------ MODULE EventFifo ------------------------------
(***************************************************************************)
(* What the deferred-event queue of esp32_events.c promises to the rest of *)
(* the platform: a bounded first-in first-out channel from any task or     *)
(* interrupt handler to the managed owner task.  An event that does not    *)
(* fit is refused and counted; one that was accepted is delivered exactly  *)
(* once, in order.  How the ring is laid out, how its counters wrap and    *)
(* how the owner is put to sleep and woken is left to DeferredEvents.      *)
(***************************************************************************)
EXTENDS Naturals, Sequences

CONSTANTS
  Events,      \* the events that may be posted
  Capacity,    \* how many undelivered events the channel holds
  MaxDropped   \* where the count of refused events saturates

VARIABLES
  queue,       \* accepted and not yet delivered, oldest first
  lost         \* refused so far, saturating at MaxDropped

vars == <<queue, lost>>

Init ==
  /\ queue = <<>>
  /\ lost = 0

Accept(e) ==
  /\ Len(queue) < Capacity
  /\ queue' = Append(queue, e)
  /\ UNCHANGED lost

Refuse ==
  /\ Len(queue) = Capacity
  /\ lost < MaxDropped
  /\ lost' = lost + 1
  /\ UNCHANGED queue

Deliver ==
  /\ queue # <<>>
  /\ queue' = Tail(queue)
  /\ UNCHANGED lost

Next ==
  \/ \E e \in Events : Accept(e)
  \/ Refuse
  \/ Deliver

Spec == Init /\ [][Next]_vars

\* The owner keeps taking events, so the oldest one is always delivered.
Fairness == WF_vars(Deliver)

FairSpec == Spec /\ Fairness
=============================================================================
