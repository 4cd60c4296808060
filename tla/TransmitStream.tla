----------------------------- MODULE TransmitStream -----------------------------
(***************************************************************************)
(* What the buffered mode of esp32_uart.c promises of the bytes that       *)
(* async_write accepts: they go out once, in order, but for a chunk the    *)
(* driver does not take, of which the program is told, and the last        *)
(* Capacity bytes when the stream is closed.                               *)
(***************************************************************************)
EXTENDS Integers, Sequences

CONSTANTS
  Capacity,   \* how many bytes are accepted at once
  Chunk       \* how many are lost at once

VARIABLES
  open,       \* the stream can be written
  queue,      \* the bytes accepted that are not on the wire
  accepted,   \* how many were accepted; they are numbered
  sent,       \* the last one on the wire
  told        \* the program has an error to learn of

vars == <<open, queue, accepted, sent, told>>

Init ==
  /\ open = FALSE
  /\ queue = <<>>
  /\ accepted = 0 /\ sent = 0
  /\ told = FALSE

Open ==
  /\ ~open
  /\ open' = TRUE
  /\ told' = FALSE
  /\ UNCHANGED <<queue, accepted, sent>>

Close ==
  /\ open
  /\ open' = FALSE
  /\ UNCHANGED <<queue, accepted, sent, told>>

Accept(n) ==
  /\ open
  /\ queue' = queue \o [i \in 1 .. n |-> accepted + i]
  /\ accepted' = accepted + n
  /\ UNCHANGED <<open, sent, told>>

Send ==
  /\ queue # <<>>
  /\ sent' = Head(queue)
  /\ queue' = Tail(queue)
  /\ UNCHANGED <<open, accepted, told>>

\* The driver does not take n bytes, of which first others are ahead.
Lose(first, n) ==
  /\ n <= Chunk
  /\ queue' = SubSeq(queue, 1, first) \o SubSeq(queue, first + n + 1, Len(queue))
  /\ told' = TRUE
  /\ UNCHANGED <<open, accepted, sent>>

\* The program learns of an error; and others, those of the line, come.
Tell ==
  /\ told' \in BOOLEAN
  /\ UNCHANGED <<open, queue, accepted, sent>>

\* What was still to be sent for a stream that is closed.
Discard(n) ==
  /\ ~open
  /\ n <= Capacity
  /\ queue' = SubSeq(queue, 1, Len(queue) - n)
  /\ UNCHANGED <<open, accepted, sent, told>>

Next ==
  \/ Open \/ Close \/ Send \/ Tell
  \/ \E n \in 1 .. Capacity : Accept(n)
  \/ \E n \in 1 .. Len(queue) :
       Discard(n) \/ \E first \in 0 .. Len(queue) - n : Lose(first, n)

Spec == Init /\ [][Next]_vars
=============================================================================
