----------------------------- MODULE ReceiveStream -----------------------------
(***************************************************************************)
(* What the buffered mode of esp32_uart.c promises of the bytes that       *)
(* arrive: they are read once, in order, and one that is not read was      *)
(* counted when it found Capacity bytes waiting, or was among the oldest   *)
(* Capacity when the stream was closed.  The driver, the worker task and   *)
(* the ring, through which the bytes go, are left to UartAsync.            *)
(***************************************************************************)
EXTENDS Integers, Sequences

CONSTANTS
  Capacity,   \* how many bytes wait without loss
  MaxLost     \* where the count of lost bytes saturates

VARIABLES
  open,       \* the stream can be read
  queue,      \* the bytes that have arrived and are still to be read
  arrived,    \* how many have arrived; they are numbered
  read,       \* the last one read
  lost        \* how many were lost since the stream was opened

vars == <<open, queue, arrived, read, lost>>

From(n) == SubSeq(queue, n, Len(queue))

Init ==
  /\ open = FALSE
  /\ queue = <<>>
  /\ arrived = 0 /\ read = 0 /\ lost = 0

\* Whether or not anybody listens.
Arrive ==
  /\ arrived' = arrived + 1
  /\ queue' = Append(queue, arrived + 1)
  /\ UNCHANGED <<open, read, lost>>

\* Counting begins anew, also when the stream could not be opened.
Open ==
  /\ ~open
  /\ open' \in BOOLEAN
  /\ lost' = 0
  /\ UNCHANGED <<queue, arrived, read>>

Close ==
  /\ open
  /\ open' = FALSE
  /\ UNCHANGED <<queue, arrived, read, lost>>

Read(n) ==
  /\ open
  /\ read' = queue[n]
  /\ queue' = From(n + 1)
  /\ UNCHANGED <<open, arrived, lost>>

\* n bytes find Capacity others before them.
Overflow(n) ==
  /\ Capacity + n <= Len(queue)
  /\ queue' = SubSeq(queue, 1, Capacity) \o From(Capacity + n + 1)
  /\ lost' = IF lost + n < MaxLost THEN lost + n ELSE MaxLost
  /\ UNCHANGED <<open, arrived, read>>

\* What waited for a stream that is closed.
Discard(n) ==
  /\ ~open
  /\ n <= Capacity
  /\ queue' = From(n + 1)
  /\ UNCHANGED <<open, arrived, read, lost>>

Next ==
  \/ Arrive \/ Open \/ Close
  \/ \E n \in 1 .. Len(queue) : Read(n) \/ Overflow(n) \/ Discard(n)

Spec == Init /\ [][Next]_vars
=============================================================================
