------------------------------ MODULE RmtChannels ------------------------------
(***************************************************************************)
(* hardware.mod/rmt.mod/native/esp32_rmt.c: a transmitter and a receiver,  *)
(* each made of several things of the driver and of the heap, and the      *)
(* hand-over of a capture from the driver's interrupt to the program.      *)
(*                                                                         *)
(* One task calls the functions; the interrupt may run between, or beside  *)
(* them on the other core, so that a step is an access to what they share. *)
(* Where they share nothing a function is a step.  What the driver made it *)
(* disables and deletes without fail; to make or to start may fail.        *)
(***************************************************************************)
EXTENDS Integers, Sequences, SequencesExt

CONSTANTS
  RmtCapacity,  \* the symbols a receiver has room for
  RmtLengths    \* the lengths of captures, in symbols

ASSUME RmtAssumption ==
  /\ RmtCapacity \in Nat \ {0}
  /\ RmtLengths \subseteq Nat

VARIABLES
  rmtTx, rmtRx, \* the program holds a transmitter, a receiver
  rmtHeld,      \* what the driver and the heap have given out
  rmt,          \* the receiver: receiving, ready, count
  rmtApp,       \* the program: "idle", "starting" or "reading"
  rmtIsr,       \* the interrupt: "idle", or "counted" between its two stores
  rmtDriver,    \* the driver: "idle", "armed", or "done" until it is read
  rmtCaptured   \* the symbols of the driver's last capture

rmtVars == <<rmtTx, rmtRx, rmtHeld, rmt, rmtApp, rmtIsr, rmtDriver, rmtCaptured>>
rmtCapture == <<rmt, rmtIsr, rmtDriver, rmtCaptured>>

Fresh == [receiving |-> FALSE, ready |-> FALSE, count |-> 0]

\* In the order in which they are made; the last of each is to enable the
\* channel, or for a transmission to send.
TxParts == <<"txState", "txChannel", "txEncoder">>
RxParts == <<"rxState", "rxSymbols", "rxChannel">>
BytesParts == <<"payload", "bytesEncoder">>

\* What is there when the step after the first n fails.
Made(parts, n) == ToSet(SubSeq(parts, 1, n))

----------------------------------------------------------------------------
(* Channels made and deleted. *)

\* bmx_esp32_rmt_new_tx
NewTx ==
  /\ rmtApp = "idle" /\ ~rmtTx
  /\ rmtTx' = TRUE
  /\ rmtHeld' = rmtHeld \cup ToSet(TxParts)
  /\ UNCHANGED <<rmtRx, rmtApp, rmtCapture>>

\* Fault: the encoder of a transmitter that could not be enabled is kept.
Fault_NewTxFails(n) ==
  /\ rmtApp = "idle" /\ ~rmtTx
  /\ rmtHeld' = (rmtHeld \cup Made(TxParts, n)) \ {"txState", "txChannel"}
  /\ UNCHANGED <<rmtTx, rmtRx, rmtApp, rmtCapture>>

NewTxFails(n) ==
  /\ rmtApp = "idle" /\ ~rmtTx
  /\ rmtHeld' = (rmtHeld \cup Made(TxParts, n)) \
                {"txEncoder", "txChannel", "txState"}
  /\ UNCHANGED <<rmtTx, rmtRx, rmtApp, rmtCapture>>

\* bmx_esp32_rmt_delete_tx
DeleteTx ==
  /\ rmtApp = "idle" /\ rmtTx
  /\ rmtTx' = FALSE
  /\ rmtHeld' = rmtHeld \ {"txChannel", "txEncoder", "txState"}
  /\ UNCHANGED <<rmtRx, rmtApp, rmtCapture>>

\* bmx_esp32_rmt_transmit_bytes, after n of its parts were made: it fails, or
\* has sent everything when n is all of them.
TransmitBytes(n) ==
  /\ rmtApp = "idle" /\ rmtTx
  /\ rmtHeld' = (rmtHeld \cup Made(BytesParts, n)) \ {"bytesEncoder", "payload"}
  /\ UNCHANGED <<rmtTx, rmtRx, rmtApp, rmtCapture>>

\* bmx_esp32_rmt_transmit_symbols, which copies the symbols, and refuses those
\* that end a transmission.
TransmitSymbols(n) ==
  /\ rmtApp = "idle" /\ rmtTx
  /\ rmtHeld' = (rmtHeld \cup Made(<<"symbols">>, n)) \ {"symbols"}
  /\ UNCHANGED <<rmtTx, rmtRx, rmtApp, rmtCapture>>

\* bmx_esp32_rmt_new_rx
NewRx ==
  /\ rmtApp = "idle" /\ ~rmtRx
  /\ rmtRx' = TRUE
  /\ rmtHeld' = rmtHeld \cup ToSet(RxParts)
  /\ rmt' = Fresh
  /\ UNCHANGED <<rmtTx, rmtApp, rmtIsr, rmtDriver, rmtCaptured>>

NewRxFails(n) ==
  /\ rmtApp = "idle" /\ ~rmtRx
  /\ rmtHeld' = (rmtHeld \cup Made(RxParts, n)) \
                {"rxChannel", "rxSymbols", "rxState"}
  /\ UNCHANGED <<rmtTx, rmtRx, rmtApp, rmtCapture>>

\* bmx_esp32_rmt_delete_rx, which the driver makes wait for its interrupt.
DeleteRx ==
  /\ rmtApp = "idle" /\ rmtRx
  /\ rmtIsr = "idle"
  /\ rmtRx' = FALSE
  /\ rmtHeld' = rmtHeld \ {"rxChannel", "rxSymbols", "rxState"}
  /\ rmtDriver' = "idle"
  /\ UNCHANGED <<rmtTx, rmt, rmtApp, rmtIsr, rmtCaptured>>

----------------------------------------------------------------------------
(* A capture. *)

\* bmx_esp32_rmt_start_receive up to the call of the driver.
StartReceive ==
  /\ rmtApp = "idle" /\ rmtRx
  /\ ~rmt.receiving
  /\ rmt' = [receiving |-> TRUE, ready |-> FALSE, count |-> 0]
  /\ rmtApp' = "starting"
  /\ UNCHANGED <<rmtTx, rmtRx, rmtHeld, rmtIsr, rmtDriver, rmtCaptured>>

\* rmt_receive
Armed ==
  /\ rmtApp = "starting" /\ rmtDriver # "armed"
  /\ rmtDriver' = "armed"
  /\ rmtApp' = "idle"
  /\ UNCHANGED <<rmtTx, rmtRx, rmtHeld, rmt, rmtIsr, rmtCaptured>>

ArmFails ==
  /\ rmtApp = "starting"
  /\ rmt' = [rmt EXCEPT !.receiving = FALSE]
  /\ rmtApp' = "idle"
  /\ UNCHANGED <<rmtTx, rmtRx, rmtHeld, rmtIsr, rmtDriver, rmtCaptured>>

Least(a, b) == IF a < b THEN a ELSE b

\* Fault: the capture is announced before its length is stored.
Fault_ReceiveDone(n) ==
  /\ rmtDriver = "armed" /\ rmtIsr = "idle"
  /\ rmtDriver' = "done"
  /\ rmtCaptured' = n
  /\ rmt' = [rmt EXCEPT !.ready = TRUE]
  /\ rmtIsr' = "counted"
  /\ UNCHANGED <<rmtTx, rmtRx, rmtHeld, rmtApp>>

\* Fault: a capture longer than the receiver's room is not cut.
Fault_Uncut(n) ==
  /\ rmtDriver = "armed" /\ rmtIsr = "idle"
  /\ rmtDriver' = "done"
  /\ rmtCaptured' = n
  /\ rmt' = [rmt EXCEPT !.count = n]
  /\ rmtIsr' = "counted"
  /\ UNCHANGED <<rmtTx, rmtRx, rmtHeld, rmtApp>>

\* bmx_rmt_receive_done: the driver has a capture of n symbols.
ReceiveDone(n) ==
  /\ rmtDriver = "armed" /\ rmtIsr = "idle"
  /\ rmtDriver' = "done"
  /\ rmtCaptured' = n
  /\ rmt' = [rmt EXCEPT !.count = Least(n, RmtCapacity)]
  /\ rmtIsr' = "counted"
  /\ UNCHANGED <<rmtTx, rmtRx, rmtHeld, rmtApp>>

\* Its second store, a release.
ReceiveReady ==
  /\ rmtIsr = "counted"
  /\ rmt' = [rmt EXCEPT !.ready = TRUE]
  /\ rmtIsr' = "idle"
  /\ UNCHANGED <<rmtTx, rmtRx, rmtHeld, rmtApp, rmtDriver, rmtCaptured>>

\* bmx_esp32_rmt_receive_ready, by which received_count and read_received
\* begin.
ReceiveIsReady == rmtRx /\ rmt.ready

\* bmx_esp32_rmt_read_received into a buffer with room for so many symbols,
\* up to the first of the two stores that give the receiver back.  A capture
\* the buffer has no room for stays.
ReadReceived(room) ==
  /\ rmtApp = "idle" /\ ReceiveIsReady
  /\ rmt.count <= RmtCapacity /\ rmt.count <= room
  /\ rmt' = [rmt EXCEPT !.receiving = FALSE]
  /\ rmtApp' = "reading"
  /\ rmtDriver' = "idle"
  /\ UNCHANGED <<rmtTx, rmtRx, rmtHeld, rmtIsr, rmtCaptured>>

ReadDone ==
  /\ rmtApp = "reading"
  /\ rmt' = [rmt EXCEPT !.ready = FALSE]
  /\ rmtApp' = "idle"
  /\ UNCHANGED <<rmtTx, rmtRx, rmtHeld, rmtIsr, rmtDriver, rmtCaptured>>

----------------------------------------------------------------------------
RmtInit ==
  /\ rmtTx = FALSE /\ rmtRx = FALSE
  /\ rmtHeld = {}
  /\ rmt = Fresh
  /\ rmtApp = "idle" /\ rmtIsr = "idle" /\ rmtDriver = "idle"
  /\ rmtCaptured = 0

RmtNext ==
  \/ NewTx \/ DeleteTx \/ NewRx \/ DeleteRx
  \/ \E n \in 0 .. Len(TxParts) : NewTxFails(n)
  \/ \E n \in 0 .. Len(RxParts) : NewRxFails(n)
  \/ \E n \in 0 .. Len(BytesParts) : TransmitBytes(n)
  \/ \E n \in 0 .. 1 : TransmitSymbols(n)
  \/ StartReceive \/ Armed \/ ArmFails
  \/ \E n \in RmtLengths : ReceiveDone(n) \/ ReadReceived(n)
  \/ ReceiveReady \/ ReadDone

----------------------------------------------------------------------------
(* Properties. *)

\* The receiver's fields are of the types the code declares.
RmtTypeOK ==
  /\ rmtTx \in BOOLEAN /\ rmtRx \in BOOLEAN
  /\ rmtHeld \subseteq ToSet(TxParts) \cup ToSet(RxParts) \cup ToSet(BytesParts)
  /\ rmt \in [receiving : BOOLEAN, ready : BOOLEAN, count : 0 .. RmtCapacity]
  /\ rmtApp \in {"idle", "starting", "reading"}
  /\ rmtIsr \in {"idle", "counted"}
  /\ rmtDriver \in {"idle", "armed", "done"}
  /\ rmtCaptured \in {0} \cup RmtLengths

\* Everything given out belongs to the transmitter or the receiver the program
\* holds, whichever step of making one has failed (the unwinding of
\* bmx_esp32_rmt_new_tx, new_rx and transmit_bytes).
NothingLeaks ==
  rmtHeld = (IF rmtTx THEN ToSet(TxParts) ELSE {}) \cup
            (IF rmtRx THEN ToSet(RxParts) ELSE {})

\* A capture is handed over once and whole: a receiver that is ready has the
\* number of symbols of the driver's capture, cut to its room; one that is not
\* receives nothing the program has not asked for; and one that is receiving
\* will be ready, since the driver is capturing, or is about to say so.
CaptureKept ==
  rmtRx =>
    /\ rmt.ready /\ rmtApp = "idle" =>
         /\ rmt.receiving /\ rmtDriver = "done"
         /\ rmt.count = Least(rmtCaptured, RmtCapacity)
    /\ rmtDriver # "idle" => rmt.receiving
    /\ rmt.receiving => \/ rmtApp = "starting" \/ rmtDriver = "armed"
                        \/ rmtIsr = "counted" \/ rmt.ready
=============================================================================
