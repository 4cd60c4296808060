------------------------------- MODULE UartAsync -------------------------------
(***************************************************************************)
(* runtime.mod/native/esp32_uart.c, the interrupt-buffered mode of one     *)
(* controller: two byte rings shared, under one spinlock, by the           *)
(* application and a worker task that async_open creates and async_close   *)
(* waits for.  The ESP-IDF driver is external: its receive buffer, its     *)
(* event queue and its transmit buffer, which may stay full for ever.      *)
(*                                                                         *)
(* Bytes are numbered in the order in which they reach the driver's        *)
(* receive buffer, or are accepted by async_write.  Each critical section, each driver call   *)
(* and each post of a deferred event is a step.                            *)
(***************************************************************************)
EXTENDS Integers, Sequences, SequencesExt

CONSTANTS
  RxCapacity, TxCapacity, \* the sizes of the rings, given to async_open
  Chunk,          \* bytes moved between a ring and the driver at once (64)
  EventCapacity,  \* BMX_ESP32_UART_EVENT_CAPACITY, the driver's event queue
  DriverCapacity, \* BMX_ESP32_UART_BUFFER_SIZE, the driver's transmit buffer
  MaxDropped,     \* UINT32_MAX
  Loads,          \* bounds: pairs of bytes that arrive and that are written
  MaxOpens        \* bound: how often the application opens the stream

ASSUME UartAssumption ==
  /\ RxCapacity \in Nat \ {0, 1}
  /\ TxCapacity \in Nat \ {0, 1}
  /\ Chunk \in Nat \ {0}
  /\ EventCapacity \in Nat
  /\ DriverCapacity \in Nat
  /\ Chunk <= DriverCapacity
  /\ MaxDropped \in Nat
  /\ Loads \subseteq Nat \X Nat
  /\ MaxOpens \in Nat

VARIABLES
  setting,   \* never changes.  multicore: the application and the worker run
             \* in parallel; paced: the application writes one chunk at most,
             \* when the stream is idle; load: a member of Loads
  app,       \* the application task: "run", or "closing" in async_close
  open,      \* async_open
  buffers,   \* the two ring buffers are allocated
  opens,     \* how often the stream was opened
  rx,        \* ring: async_rx_buffer from get to put
  dropped,   \* async_rx_dropped
  tx,        \* ring: async_tx_buffer from get to put
  txActive,  \* async_tx_active
  worker,    \* the worker: where it is, its local buffer and flag
  note,      \* deferred events posted and not yet taken, by kind
  reading,   \* the application is reading the ring empty after an event
  waiting,   \* the application waits for a transmit event to write more
  hw,        \* driver: bytes received and not yet read
  dataEvents, errorEvents, \* driver: UART_DATA and error events queued
  missed,    \* driver: it holds bytes of which no event tells, because theirs
             \* found the queue full of errors or was collected while closed
  driver,    \* driver: bytes accepted and not yet on the wire
  arrived, written, \* bytes arrived, bytes accepted by async_write
  base,      \* bytes written in earlier sessions
  seen, sent \* the last byte the application read, the last on the wire

ringVars == <<open, buffers, opens, rx, dropped, tx, txActive, base>>
driverVars == <<hw, dataEvents, errorEvents, missed, driver, arrived,
                sent>>
appVars == <<app, reading, waiting, written, seen>>
vars == <<setting, ringVars, driverVars, appVars, worker, note>>

WorkerSteps == {"none", "top", "queue", "read", "push", "postRx", "drain",
                "write", "postTx", "active", "done", "clear", "postIdle",
                "postError"}

\* Pacing is of interest on one core only.
Settings ==
  {s \in [multicore : BOOLEAN, paced : BOOLEAN, load : Loads] :
     s.paced => ~s.multicore}

\* async_task is NULL
NoWorker == [at |-> "none", bytes |-> <<>>, flag |-> FALSE]

Notes == {"rx", "tx", "error"}

----------------------------------------------------------------------------
(* Helpers. *)

Least(a, b) == IF a < b THEN a ELSE b

Take(s, n) == SubSeq(s, 1, Least(n, Len(s)))
Rest(s, n) == SubSeq(s, n + 1, Len(s))

Increasing(s) == \A i \in 1 .. Len(s) - 1 : s[i] < s[i + 1]

Post(kind) == note' = note \cup {kind}

WorkerAt(step) == worker.at = step
WorkerGoto(step) == worker' = [worker EXCEPT !.at = step]

\* The worker has the higher priority: on a single core the application runs
\* only while the worker is blocked in xQueueReceive or uart_write_bytes.
AppRuns == setting.multicore \/ worker.at \in {"none", "queue", "write"}

\* bmx_embedded_uart_async_tx_idle
TxIdle == ~open \/ (tx = <<>> /\ ~txActive)

----------------------------------------------------------------------------
(* The ESP-IDF driver, external. *)

\* An event that finds the queue full is lost.  The next one that finds room
\* tells of all the bytes that wait.
Arrive ==
  /\ arrived < setting.load[1]
  /\ arrived' = arrived + 1
  /\ hw' = Append(hw, arrived + 1)
  /\ IF dataEvents + errorEvents < EventCapacity
       THEN dataEvents' = dataEvents + 1 /\ missed' = FALSE
       ELSE /\ missed' = (missed \/ dataEvents = 0)
            /\ UNCHANGED dataEvents
  /\ UNCHANGED <<setting, ringVars, appVars, worker, note, errorEvents, driver,
                 sent>>

\* Any number of errors may wait: the queue may hold nothing else.
LineError ==
  /\ dataEvents + errorEvents < EventCapacity
  /\ errorEvents' = errorEvents + 1
  /\ UNCHANGED <<setting, ringVars, appVars, worker, note, hw, dataEvents,
                 missed, driver, arrived, sent>>

\* Nothing obliges the line to take a byte: with flow control the other end
\* holds CTS back for as long as it likes.
Transmit ==
  /\ driver # <<>>
  /\ sent' = Head(driver)
  /\ driver' = Tail(driver)
  /\ UNCHANGED <<setting, ringVars, appVars, worker, note, hw, dataEvents,
                 errorEvents, missed, arrived>>

\* The chunk the worker sends fits in the driver's transmit buffer.
Room == Len(driver) + Len(worker.bytes) <= DriverCapacity

----------------------------------------------------------------------------
(* The application task. *)

\* bmx_embedded_uart_async_open
AsyncOpen ==
  /\ app = "run" /\ ~open
  /\ opens < MaxOpens
  /\ opens' = opens + 1
  /\ open' = TRUE
  /\ buffers' = TRUE
  /\ rx' = <<>> /\ tx' = <<>>
  /\ dropped' = 0
  /\ txActive' = FALSE
  /\ base' = written
  /\ worker' = [NoWorker EXCEPT !.at = "top"]
  /\ note' = {}
  /\ reading' = FALSE /\ waiting' = FALSE
  /\ UNCHANGED <<setting, driverVars, app, written, seen>>

\* xTaskCreate fails: the counters are reset, all else is as it was.  When an
\* allocation fails nothing has happened yet.
AsyncOpenFails ==
  /\ app = "run" /\ ~open
  /\ dropped' = 0
  /\ txActive' = FALSE
  /\ base' = written
  /\ UNCHANGED <<setting, open, buffers, opens, rx, tx, driverVars, appVars,
                 worker, note>>

\* bmx_esp32_uart_collect_events, for get_errors and clear_errors: while the
\* stream is closed they empty the queue, of UART_DATA events too, and leave the
\* bytes where they are.
CollectEvents ==
  /\ app = "run" /\ ~open
  /\ dataEvents' = 0 /\ errorEvents' = 0
  /\ missed' = (missed \/ hw # <<>>)
  /\ UNCHANGED <<setting, ringVars, appVars, worker, note, hw, driver, arrived,
                 sent>>

\* async_close, the first critical section.
AsyncClose ==
  /\ AppRuns /\ app = "run" /\ open
  /\ open' = FALSE
  /\ app' = "closing"
  /\ UNCHANGED <<setting, buffers, opens, rx, dropped, tx, txActive, base,
                 driverVars, reading, waiting, written, seen, worker, note>>

\* Fault: the buffers are freed without waiting for the worker.
Fault_FreeAtOnce ==
  /\ AppRuns /\ app = "closing"
  /\ buffers' = FALSE
  /\ app' = "run"
  /\ UNCHANGED <<setting, open, opens, rx, dropped, tx, txActive, base,
                 driverVars, reading, waiting, written, seen, worker, note>>

\* async_close once async_task is NULL: what the rings held is discarded.
CloseDone ==
  /\ AppRuns /\ app = "closing" /\ WorkerAt("none")
  /\ buffers' = FALSE
  /\ rx' = <<>> /\ tx' = <<>>
  /\ app' = "run"
  /\ UNCHANGED <<setting, open, opens, dropped, txActive, base, driverVars,
                 reading, waiting, written, seen, worker, note>>

\* bmx_embedded_uart_async_read.  A short count tells the application that the
\* ring was empty, so that it waits for the next event.
AsyncRead(n) ==
  /\ AppRuns /\ app = "run" /\ open /\ reading
  /\ seen' = IF rx = <<>> THEN seen ELSE Last(Take(rx, n))
  /\ rx' = Rest(rx, n)
  /\ reading' = (Len(rx) >= n)
  /\ UNCHANGED <<setting, open, buffers, opens, dropped, tx, txActive, base,
                 driverVars, app, waiting, written, worker, note>>

\* bmx_embedded_uart_async_write of n bytes: the ring takes what fits.  After a
\* short count the application waits for a transmit event.
AsyncWrite(n) ==
  LET count == Least(n, TxCapacity - Len(tx)) IN
  /\ AppRuns /\ app = "run" /\ open /\ ~waiting
  /\ setting.paced => TxIdle /\ n <= Chunk
  /\ written + count <= setting.load[2]
  /\ tx' = tx \o [i \in 1 .. count |-> written + i]
  /\ written' = written + count
  /\ txActive' = (txActive \/ count > 0)
  /\ waiting' = (count < n)
  /\ UNCHANGED <<setting, open, buffers, opens, rx, dropped, base, driverVars,
                 app, reading, seen, worker, note>>

\* The program takes a deferred event and reacts to it.
TakeNote(kind) ==
  /\ AppRuns /\ app = "run" /\ kind \in note
  /\ note' = note \ {kind}
  /\ reading' = (reading \/ kind = "rx")
  /\ waiting' = (waiting /\ kind = "rx")
  /\ UNCHANGED <<setting, ringVars, driverVars, app, written, seen, worker>>

----------------------------------------------------------------------------
(* The worker: bmx_esp32_uart_async_worker. *)

\* Fault: the loop does not look at async_open.
Fault_TopStays ==
  /\ WorkerAt("top")
  /\ WorkerGoto("queue")
  /\ UNCHANGED <<setting, ringVars, driverVars, appVars, note>>

\* The check of async_open; leaving the loop clears async_task.
WorkerTop ==
  /\ WorkerAt("top")
  /\ worker' = IF open THEN [worker EXCEPT !.at = "queue"] ELSE NoWorker
  /\ UNCHANGED <<setting, ringVars, driverVars, appVars, note>>

\* xQueueReceive(event_queue, &event, 1): an event, or the timeout.
WorkerQueue ==
  /\ WorkerAt("queue")
  /\ \/ /\ dataEvents > 0
        /\ dataEvents' = dataEvents - 1
        /\ WorkerGoto("read")
        /\ UNCHANGED errorEvents
     \/ /\ errorEvents > 0
        /\ errorEvents' = errorEvents - 1
        /\ WorkerGoto("postError")
        /\ UNCHANGED dataEvents
     \/ /\ dataEvents + errorEvents = 0
        /\ WorkerGoto("drain")
        /\ UNCHANGED <<dataEvents, errorEvents>>
  /\ UNCHANGED <<setting, ringVars, appVars, note, hw, missed, driver, arrived,
                 sent>>

\* state->errors is updated and the error event posted.
WorkerPostError ==
  /\ WorkerAt("postError")
  /\ Post("error")
  /\ WorkerGoto("drain")
  /\ UNCHANGED <<setting, ringVars, driverVars, appVars>>

\* Fault: a full chunk is taken for the last one.
Fault_ReadOnce ==
  /\ WorkerAt("read")
  /\ hw' = Rest(hw, Chunk)
  /\ missed' = FALSE
  /\ worker' = [at |-> IF hw = <<>> THEN "drain" ELSE "push",
                bytes |-> Take(hw, Chunk),
                flag |-> FALSE]
  /\ UNCHANGED <<setting, ringVars, appVars, note, dataEvents, errorEvents,
                 driver, arrived, sent>>

\* async_receive: uart_read_bytes without waiting; flag: the chunk was full.
WorkerRead ==
  /\ WorkerAt("read")
  /\ hw' = Rest(hw, Chunk)
  /\ missed' = FALSE
  /\ worker' = [at |-> IF hw = <<>> THEN "drain" ELSE "push",
                bytes |-> Take(hw, Chunk),
                flag |-> Len(hw) >= Chunk]
  /\ UNCHANGED <<setting, ringVars, appVars, note, dataEvents, errorEvents,
                 driver, arrived, sent>>

AfterPush(flag) == IF flag THEN "read" ELSE "drain"

\* Fault: when the ring is full the oldest byte is overwritten by the newest.
Fault_PushReverse ==
  /\ WorkerAt("push")
  /\ rx' = Take(Reverse(worker.bytes) \o rx, RxCapacity)
  /\ worker' = [at |-> AfterPush(worker.flag), bytes |-> <<>>, flag |-> FALSE]
  /\ UNCHANGED <<setting, open, buffers, opens, dropped, tx, txActive, base,
                 driverVars, appVars, note>>

\* Fault: the ring takes one byte more than it holds.
Fault_PushPastEnd ==
  /\ WorkerAt("push")
  /\ rx' = rx \o Take(worker.bytes, RxCapacity + 1 - Len(rx))
  /\ worker' = [worker EXCEPT
       !.at = IF rx = <<>> THEN "postRx" ELSE AfterPush(worker.flag),
       !.bytes = <<>>]
  /\ UNCHANGED <<setting, open, buffers, opens, dropped, tx, txActive, base,
                 driverVars, appVars, note>>

\* Fault: the receive event is forgotten.
Fault_PushSilently ==
  /\ WorkerAt("push")
  /\ rx' = Take(rx \o worker.bytes, RxCapacity)
  /\ worker' = [at |-> AfterPush(worker.flag), bytes |-> <<>>, flag |-> FALSE]
  /\ UNCHANGED <<setting, open, buffers, opens, dropped, tx, txActive, base,
                 driverVars, appVars, note>>

\* Fault: bytes that do not fit are dropped and not counted.
Fault_PushUncounted ==
  /\ WorkerAt("push")
  /\ rx' = rx \o Take(worker.bytes, RxCapacity - Len(rx))
  /\ worker' = [worker EXCEPT
       !.at = IF rx = <<>> THEN "postRx" ELSE AfterPush(worker.flag),
       !.bytes = <<>>]
  /\ UNCHANGED <<setting, open, buffers, opens, dropped, tx, txActive, base,
                 driverVars, appVars, note>>

\* async_receive: bytes that do not fit are dropped and counted; the event is
\* posted when the ring was empty.
WorkerPush ==
  LET free == RxCapacity - Len(rx)
      surplus == Len(worker.bytes) - free
  IN
  /\ WorkerAt("push")
  /\ rx' = rx \o Take(worker.bytes, free)
  /\ dropped' = IF surplus > 0 THEN Least(dropped + surplus, MaxDropped)
                ELSE dropped
  /\ worker' = [worker EXCEPT
       !.at = IF rx = <<>> THEN "postRx" ELSE AfterPush(worker.flag),
       !.bytes = <<>>]
  /\ UNCHANGED <<setting, open, buffers, opens, tx, txActive, base, driverVars,
                 appVars, note>>

WorkerPostRx ==
  /\ WorkerAt("postRx")
  /\ Post("rx")
  /\ WorkerGoto(AfterPush(worker.flag))
  /\ UNCHANGED <<setting, ringVars, driverVars, appVars>>

\* async_transmit, the first critical section; flag: the ring became empty.
WorkerDrain ==
  /\ WorkerAt("drain")
  /\ tx' = Rest(tx, Chunk)
  /\ worker' = [at |-> IF tx = <<>> THEN "active" ELSE "write",
                bytes |-> Take(tx, Chunk),
                flag |-> Len(tx) <= Chunk]
  /\ UNCHANGED <<setting, open, buffers, opens, rx, dropped, txActive, base,
                 driverVars, appVars, note>>

\* Fault: nobody is told that the ring became empty.
Fault_WriteSilently ==
  /\ WorkerAt("write") /\ Room
  /\ driver' = driver \o worker.bytes
  /\ worker' = [worker EXCEPT !.at = "active", !.bytes = <<>>]
  /\ UNCHANGED <<setting, ringVars, appVars, note, hw, dataEvents, errorEvents,
                 missed, arrived, sent>>

\* Fault: nobody is told that the driver took nothing.
Fault_WriteUntold ==
  /\ WorkerAt("write")
  /\ \/ Room /\ driver' = driver \o worker.bytes
     \/ UNCHANGED driver
  /\ worker' = [worker EXCEPT !.at = IF worker.flag THEN "postTx" ELSE "active",
                              !.bytes = <<>>]
  /\ UNCHANGED <<setting, ringVars, appVars, note, hw, dataEvents, errorEvents,
                 missed, arrived, sent>>

\* uart_write_bytes waits without limit for room in the driver; when it fails
\* an error event takes the place of the transmit event.
WorkerWrite ==
  /\ WorkerAt("write")
  /\ \/ /\ Room
        /\ driver' = driver \o worker.bytes
        /\ worker' = [worker EXCEPT
             !.at = IF worker.flag THEN "postTx" ELSE "active",
             !.bytes = <<>>]
        /\ UNCHANGED note
     \/ /\ Post("error")
        /\ worker' = [worker EXCEPT !.at = "active", !.bytes = <<>>]
        /\ UNCHANGED driver
  /\ UNCHANGED <<setting, ringVars, appVars, hw, dataEvents, errorEvents,
                 missed, arrived, sent>>

\* The worker is blocked in uart_write_bytes.
Held == WorkerAt("write") /\ ~Room

WorkerPostTx ==
  /\ WorkerAt("postTx")
  /\ Post("tx")
  /\ WorkerGoto("active")
  /\ UNCHANGED <<setting, ringVars, driverVars, appVars>>

\* The critical section that reads async_tx_active.
WorkerActive ==
  /\ WorkerAt("active")
  /\ WorkerGoto(IF txActive THEN "done" ELSE "top")
  /\ UNCHANGED <<setting, ringVars, driverVars, appVars, note>>

\* Fault: the transmitter is not asked.
Fault_DoneAtOnce ==
  /\ WorkerAt("done")
  /\ WorkerGoto("clear")
  /\ UNCHANGED <<setting, ringVars, driverVars, appVars, note>>

\* uart_wait_tx_done(controller, 0)
WorkerDone ==
  /\ WorkerAt("done")
  /\ WorkerGoto(IF driver = <<>> THEN "clear" ELSE "top")
  /\ UNCHANGED <<setting, ringVars, driverVars, appVars, note>>

WorkerClear ==
  /\ WorkerAt("clear")
  /\ txActive' = FALSE
  /\ WorkerGoto("postIdle")
  /\ UNCHANGED <<setting, open, buffers, opens, rx, dropped, tx, base,
                 driverVars, appVars, note>>

WorkerPostIdle ==
  /\ WorkerAt("postIdle")
  /\ Post("tx")
  /\ WorkerGoto("top")
  /\ UNCHANGED <<setting, ringVars, driverVars, appVars>>

----------------------------------------------------------------------------
Init ==
  /\ setting \in Settings
  /\ app = "run"
  /\ open = FALSE /\ buffers = FALSE /\ opens = 0
  /\ rx = <<>> /\ dropped = 0
  /\ tx = <<>> /\ txActive = FALSE
  /\ worker = NoWorker
  /\ note = {}
  /\ reading = FALSE /\ waiting = FALSE
  /\ hw = <<>> /\ dataEvents = 0 /\ errorEvents = 0 /\ missed = FALSE
  /\ driver = <<>>
  /\ arrived = 0 /\ written = 0 /\ base = 0
  /\ seen = 0 /\ sent = 0

DriverStep == Arrive \/ LineError \/ Transmit

AppStep ==
  \/ AsyncOpen \/ AsyncOpenFails \/ AsyncClose \/ CloseDone
  \/ CollectEvents
  \/ \E n \in 1 .. RxCapacity : AsyncRead(n)
  \/ \E n \in 1 .. TxCapacity : AsyncWrite(n)
  \/ \E kind \in Notes : TakeNote(kind)

WorkerStep ==
  \/ WorkerTop \/ WorkerQueue \/ WorkerPostError
  \/ WorkerRead \/ WorkerPush \/ WorkerPostRx
  \/ WorkerDrain \/ WorkerWrite \/ WorkerPostTx
  \/ WorkerActive \/ WorkerDone \/ WorkerClear \/ WorkerPostIdle

Next == DriverStep \/ AppStep \/ WorkerStep

Spec == Init /\ [][Next]_vars

\* The worker is a task of its own and is scheduled, but no step is expected of
\* one that the full driver holds: the line may never move, and the driver need
\* not fail.  async_close polls every tick until the worker is gone.
Fairness ==
  /\ WF_vars(WorkerStep /\ ~Held)
  /\ WF_vars(CloseDone)

FairSpec == Spec /\ Fairness

----------------------------------------------------------------------------
(* Properties. *)

TypeOK ==
  /\ setting \in Settings
  /\ app \in {"run", "closing"}
  /\ open \in BOOLEAN /\ buffers \in BOOLEAN /\ opens \in 0 .. MaxOpens
  /\ rx \in Seq(1 .. arrived) /\ Len(rx) <= RxCapacity
  /\ dropped \in 0 .. MaxDropped
  /\ tx \in Seq(1 .. written) /\ Len(tx) <= TxCapacity
  /\ txActive \in BOOLEAN
  /\ worker.at \in WorkerSteps /\ Len(worker.bytes) <= Chunk
  /\ note \subseteq Notes
  /\ dataEvents + errorEvents \in 0 .. EventCapacity /\ missed \in BOOLEAN
  /\ Len(driver) <= DriverCapacity

\* What the worker has taken from the driver, and from the transmit ring.
Received == IF worker.at = "push" THEN worker.bytes ELSE <<>>
Sending == IF worker.at = "write" THEN worker.bytes ELSE <<>>

\* Bytes keep their order, and none is duplicated, through both rings, the
\* worker's buffer and the driver, over every close and reopen.
InOrder ==
  /\ Increasing(<<seen>> \o rx \o Received \o hw)
  /\ Increasing(<<sent>> \o driver \o Sending \o tx)

\* The rings stay within their sizes, and their bytes in order.
RingsInOrder == TypeOK /\ InOrder

\* The worker only runs while the ring buffers are allocated: async_close frees
\* them after the worker's last access.
BuffersOutliveWorker == worker.at # "none" => buffers

\* No receive event is lost between the worker and the application: while the
\* ring holds bytes the application is reading, or an event is on its way,
\* although the worker posts one only when the ring was empty.
ReaderNotified ==
  open /\ rx # <<>> => reading \/ "rx" \in note \/ worker.at = "postRx"

\* An application that found the transmit ring full is told to go on.
WriterNotified ==
  open /\ waiting =>
    \/ tx # <<>>
    \/ note \cap {"tx", "error"} # {}
    \/ worker.at = "postTx"
    \/ worker.at = "write" /\ worker.flag

\* Bytes in the driver are never stranded there: the worker is reading, or an
\* UART_DATA event will make it read, also when the bytes came while the stream
\* was closed or fill several chunks.  Two mishaps strand them, and only until
\* the next event that finds room: a queue full of errors, and events collected
\* while the stream is closed.
InputAnnounced ==
  /\ hw # <<>> => \/ dataEvents > 0
                  \/ worker.at = "read"
                  \/ worker.at \in {"push", "postRx"} /\ worker.flag
                  \/ missed
  /\ missed => hw # <<>>

\* Nobody waits for an event that is not on its way: the reader, the writer, the
\* worker.
AllNotified == ReaderNotified /\ WriterNotified /\ InputAnnounced

\* tx_idle means that everything is on the wire, on one core, for a program
\* that writes one chunk at most, and only when the stream is idle.  A longer
\* write, or the second core, lets the worker clear async_tx_active although
\* the ring holds bytes.
TxIdleMeansSent ==
  open /\ TxIdle /\ AppRuns /\ setting.paced =>
    \A b \in (base + 1) .. written : b \notin ToSet(driver \o worker.bytes)

\* Every byte that arrives is read, in its turn, or is counted in
\* async_rx_dropped because the ring was full when the worker came with it, or
\* goes with the ring at async_close: none is lost on its way through the
\* driver, the worker and the ring.
Incoming == INSTANCE ReceiveStream WITH
  queue <- rx \o Received \o hw,
  read <- seen, lost <- dropped,
  Capacity <- RxCapacity, MaxLost <- MaxDropped

InputAccounted == Incoming!Spec

\* Every byte async_write accepts goes out, in its turn, or is in a chunk the
\* driver refused, for which an error event is posted, or is in the ring at
\* async_close.
Outgoing == INSTANCE TransmitStream WITH
  queue <- driver \o Sending \o tx,
  accepted <- written, told <- "error" \in note,
  Capacity <- TxCapacity

OutputAccounted == Outgoing!Spec

\* async_close returns, unless the line holds the worker in uart_write_bytes
\* for ever: then the worker never looks at async_open again, and async_close
\* waits with it.
CloseReturns == <>[]Held \/ (app = "closing" ~> app = "run")
=============================================================================
