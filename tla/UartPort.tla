-------------------------------- MODULE UartPort --------------------------------
(***************************************************************************)
(* runtime.mod/native/esp32_uart.c, one controller as it is used without   *)
(* the buffered mode: its pin, which set_break takes from the UART to hold *)
(* it low; the line's errors, which arrive as events of the driver; and    *)
(* what is written, with its line ends translated.  Of the buffered mode,  *)
(* which UartAsync describes, there is what touches these.                 *)
(*                                                                         *)
(* One task calls these functions, so that each is a step.  Any call of    *)
(* the driver may fail, and then changes nothing.                          *)
(***************************************************************************)
EXTENDS Integers, Sequences, FiniteSets, SequencesExt

CONSTANTS
  Texts,            \* what is written: sequences of "nl" and others
  UartErrors,       \* the kinds of error: framing, parity, break, overrun
  UartQueueLength   \* BMX_ESP32_UART_EVENT_CAPACITY

ASSUME UartPortAssumption ==
  /\ UartQueueLength \in Nat
  /\ Texts \subseteq Seq({"a", "nl"})

VARIABLES
  uart,       \* initialized, pins_configured, break_asserted, translate_crlf,
              \* async_open, errors
  uartPad,    \* the tx pin: not configured, the "uart"'s, held "low", or "off"
  uartTorn,   \* a failed set_break could not give the pin back
  uartQueue,  \* the driver's event queue: errors and "data"
  uartRaised, \* the errors queued since the program last cleared them
  uartWire    \* the last write: the text, whether translated, what was sent
              \* and the result

uartVars == <<uart, uartPad, uartTorn, uartQueue, uartRaised, uartWire>>
uartEvents == <<uartQueue, uartRaised>>

Fields == [initialized : BOOLEAN, pinned : BOOLEAN, breaking : BOOLEAN,
           crlf : BOOLEAN, async : BOOLEAN, errors : SUBSET UartErrors]

ResetPort == [uart EXCEPT !.errors = {}, !.crlf = FALSE, !.breaking = FALSE]

----------------------------------------------------------------------------
(* The controller and its pin. *)

\* bmx_esp32_uart_configure_pins
UartConfigurePins ==
  /\ ~uart.breaking
  /\ uart' = [uart EXCEPT !.pinned = TRUE]
  /\ uartPad' = "uart"
  /\ uartTorn' = FALSE
  /\ UNCHANGED <<uartEvents, uartWire>>

\* bmx_esp32_uart_init
UartInitialize ==
  /\ ~uart.initialized
  /\ uart' = [ResetPort EXCEPT !.initialized = TRUE]
  /\ uartQueue' = <<>> /\ uartRaised' = {}
  /\ UNCHANGED <<uartPad, uartTorn, uartWire>>

\* Fault: a break that is asserted is forgotten.
Fault_UartDeinitialize ==
  /\ uart.initialized /\ ~uart.async
  /\ uart' = [ResetPort EXCEPT !.initialized = FALSE]
  /\ uartQueue' = <<>> /\ uartRaised' = {}
  /\ UNCHANGED <<uartPad, uartTorn, uartWire>>

\* bmx_esp32_uart_deinit, which ends a break first.
UartDeinitialize ==
  /\ uart.initialized /\ ~uart.async
  /\ uart' = [ResetPort EXCEPT !.initialized = FALSE]
  /\ uartPad' = IF uart.breaking THEN "uart" ELSE uartPad
  /\ uartTorn' = (uartTorn /\ ~uart.breaking)
  /\ uartQueue' = <<>> /\ uartRaised' = {}
  /\ UNCHANGED uartWire

\* The break is ended, but the driver does not go.
UartDeinitializeFails ==
  /\ uart.initialized /\ ~uart.async
  /\ uart' = [uart EXCEPT !.breaking = FALSE]
  /\ uartPad' = IF uart.breaking THEN "uart" ELSE uartPad
  /\ uartTorn' = (uartTorn /\ ~uart.breaking)
  /\ UNCHANGED <<uartEvents, uartWire>>

\* bmx_esp32_uart_set_break
AssertBreak ==
  /\ uart.initialized /\ uart.pinned /\ ~uart.breaking
  /\ uart' = [uart EXCEPT !.breaking = TRUE]
  /\ uartPad' = "low"
  /\ UNCHANGED <<uartTorn, uartEvents, uartWire>>

\* The pin is off the UART and cannot be held low: it is given back, and if
\* that fails as well nothing remembers it.
AssertBreakFails ==
  /\ uart.initialized /\ uart.pinned /\ ~uart.breaking
  /\ uartPad' \in {"uart", "off"}
  /\ uartTorn' = (uartPad' = "off")
  /\ UNCHANGED <<uart, uartEvents, uartWire>>

EndBreak ==
  /\ uart.initialized /\ uart.pinned /\ uart.breaking
  /\ uart' = [uart EXCEPT !.breaking = FALSE]
  /\ uartPad' = "uart"
  /\ uartTorn' = FALSE
  /\ UNCHANGED <<uartEvents, uartWire>>

\* bmx_embedded_uart_async_open and async_close, as far as they show here.
UartStream(open) ==
  /\ uart.initialized
  /\ uart' = [uart EXCEPT !.async = open]
  /\ UNCHANGED <<uartPad, uartTorn, uartEvents, uartWire>>

----------------------------------------------------------------------------
(* Errors. *)

\* The driver: an event that finds the queue full is lost.
UartEvent(kind) ==
  /\ uart.initialized
  /\ Len(uartQueue) < UartQueueLength
  /\ uartQueue' = Append(uartQueue, kind)
  /\ uartRaised' = uartRaised \cup ({kind} \cap UartErrors)
  /\ UNCHANGED <<uart, uartPad, uartTorn, uartWire>>

\* Fault: an event that is no error ends the collection, and drops the rest.
Fault_Collected ==
  uart.errors \cup
    {uartQueue[i] : i \in {j \in DOMAIN uartQueue :
                             \A k \in 1 .. j : uartQueue[k] \in UartErrors}}

\* bmx_esp32_uart_collect_events; while the stream is open its worker does it.
Collected == uart.errors \cup (ToSet(uartQueue) \cap UartErrors)

CollectEvents ==
  /\ uart.initialized
  /\ uart' = [uart EXCEPT !.errors = IF uart.async THEN @ ELSE Collected]
  /\ uartQueue' = IF uart.async THEN uartQueue ELSE <<>>
  /\ UNCHANGED <<uartPad, uartTorn, uartRaised, uartWire>>

\* bmx_esp32_uart_async_worker, its part in this.
WorkerCollects ==
  /\ uart.async /\ uartQueue # <<>>
  /\ uart' = [uart EXCEPT !.errors = @ \cup ({Head(uartQueue)} \cap UartErrors)]
  /\ uartQueue' = Tail(uartQueue)
  /\ UNCHANGED <<uartPad, uartTorn, uartRaised, uartWire>>

\* bmx_esp32_uart_get_errors, read_available, read_blocking, read_timeout_us
\* and flush_input: what they take from the driver is not described.
GetErrors == CollectEvents
ReadAvailable == CollectEvents
ReadBlocking == CollectEvents
ReadTimeout == CollectEvents
FlushInput == CollectEvents

\* bmx_esp32_uart_clear_errors
ClearErrors ==
  /\ uart.initialized
  /\ uart' = [uart EXCEPT !.errors = {}]
  /\ uartQueue' = IF uart.async THEN uartQueue ELSE <<>>
  /\ uartRaised' = IF uart.async THEN ToSet(uartQueue) \cap UartErrors ELSE {}
  /\ UNCHANGED <<uartPad, uartTorn, uartWire>>

----------------------------------------------------------------------------
(* Writing. *)

LineEnd == <<"cr", "lf">>

\* The characters from one place to another in one piece, if there are any.
Span(text, first, last) ==
  IF first > last THEN <<>> ELSE <<SubSeq(text, first, last)>>

\* Fault: the newline itself is sent as well.
Fault_Piece(s, i, text) ==
  IF text[i] # "nl" THEN s
  ELSE [start |-> i + 1, out |-> s.out \o Span(text, s.start, i) \o <<LineEnd>>]

\* The loop of bmx_esp32_uart_write_blocking at the character i: what was
\* before a newline is sent as it is, and then the line end.
Piece(s, i, text) ==
  IF text[i] # "nl" THEN s
  ELSE [start |-> i + 1, out |-> s.out \o Span(text, s.start, i - 1) \o <<LineEnd>>]

\* The pieces, from where the loop is after each character.
Pieced(text) ==
  LET loop[i \in 0 .. Len(text)] ==
        IF i = 0 THEN [start |-> 1, out |-> <<>>] ELSE Piece(loop[i - 1], i, text)
      last == loop[Len(text)]
  IN last.out \o Span(text, last.start, Len(text))

\* bmx_esp32_uart_write_raw takes nothing while a break is asserted, and the
\* driver may fail at any piece.
WriteBlocking(text) ==
  LET pieces == IF uart.crlf THEN Pieced(text) ELSE Span(text, 1, Len(text))
  IN /\ uart.initialized
     /\ \E n \in IF uart.breaking THEN {0} ELSE 0 .. Len(pieces) :
          uartWire' = [text |-> text, crlf |-> uart.crlf,
                       sent |-> FlattenSeq(SubSeq(pieces, 1, n)),
                       result |-> IF n = Len(pieces) THEN Len(text) ELSE -1]
     /\ UNCHANGED <<uart, uartPad, uartTorn, uartEvents>>

\* bmx_esp32_uart_set_translate_crlf
SetTranslate(crlf) ==
  /\ uart.initialized
  /\ uart' = [uart EXCEPT !.crlf = crlf]
  /\ UNCHANGED <<uartPad, uartTorn, uartEvents, uartWire>>

----------------------------------------------------------------------------
UartPortInit ==
  /\ uart = [initialized |-> FALSE, pinned |-> FALSE, breaking |-> FALSE,
             crlf |-> FALSE, async |-> FALSE, errors |-> {}]
  /\ uartPad = "none"
  /\ uartTorn = FALSE
  /\ uartQueue = <<>> /\ uartRaised = {}
  /\ uartWire = [text |-> <<>>, crlf |-> FALSE, sent |-> <<>>, result |-> 0]

UartPortNext ==
  \/ UartConfigurePins \/ UartInitialize
  \/ UartDeinitialize \/ UartDeinitializeFails
  \/ AssertBreak \/ AssertBreakFails \/ EndBreak
  \/ \E open \in BOOLEAN : UartStream(open)
  \/ \E kind \in UartErrors \cup {"data"} : UartEvent(kind)
  \/ GetErrors \/ ReadAvailable \/ ReadBlocking \/ ReadTimeout \/ FlushInput
  \/ WorkerCollects \/ ClearErrors
  \/ \E text \in Texts : WriteBlocking(text)
  \/ \E crlf \in BOOLEAN : SetTranslate(crlf)

----------------------------------------------------------------------------
(* Properties. *)

\* The controller's fields are of the types the code declares, and the event
\* queue is no longer than it was made.
UartPortTypeOK ==
  /\ uart \in Fields
  /\ uartPad \in {"none", "uart", "low", "off"}
  /\ uartTorn \in BOOLEAN
  /\ Len(uartQueue) <= UartQueueLength
  /\ uartRaised \subseteq UartErrors

\* The pin is held low exactly while a break is asserted, which only an
\* initialised controller has; otherwise, once configured, it is the UART's,
\* unless set_break could neither hold it nor give it back.
BreakReleased ==
  /\ uart.breaking => uart.initialized /\ uart.pinned
  /\ uartPad = "low" <=> uart.breaking
  /\ uart.pinned /\ ~uart.breaking => uartPad = "uart" \/ uartTorn

\* Every error the driver had room to report is kept until the program clears
\* it, whoever collects it (collect_events and the worker).
ErrorsKept == uartRaised \subseteq uart.errors \cup ToSet(uartQueue)

\* What is to be sent of a text.
Translated(text, crlf) ==
  FlattenSeq([i \in DOMAIN text |->
                IF crlf /\ text[i] = "nl" THEN LineEnd ELSE <<text[i]>>])

\* A write that reports success has sent the text with every newline, and
\* nothing else, turned into a carriage return and a line feed; one that fails
\* has sent the beginning of that.
LinesTranslated ==
  LET whole == Translated(uartWire.text, uartWire.crlf)
  IN /\ IsPrefix(uartWire.sent, whole)
     /\ uartWire.result \in {-1, Len(uartWire.text)}
     /\ uartWire.result >= 0 <=> uartWire.sent = whole
=============================================================================
