# TLA+ models of esp32.mod

esp32.mod runs BlitzMax NG programs on ESP32 microcontrollers: C code against ESP-IDF and
FreeRTOS (`src/**/native/*.c`), and thin BlitzMax facades over it. The managed runtime (garbage
collector, event sources, `TBufferedUARTStream`) is in embedded.mod, another repository, and is
modelled only as far as the C code here is called by it.

One *owner* task runs the managed program. Interrupt handlers, ESP-IDF tasks (esp_timer, the
system event task, the NimBLE host) and the runtime's own helper tasks may never enter managed
code (`docs/runtime-integration.md:23-32`): they leave events in native queues and wake the
owner, which drains them. Nearly everything hard in this code is in those hand-overs.

## Inventory

| Component (source) | State | Operations | Interacts with | Hard because | Correct when |
| --- | --- | --- | --- | --- | --- |
| deferred events (`esp32_events.c`) | ring of 32, two free-running counters, drop count, binary semaphore created on demand | post (task, ISR), take, wait, wake | called by every callback of the others | posts race with the owner's decision to sleep; unlocked creation; wrap-around | FIFO, nothing accepted is lost, the owner always wakes |
| alarms (`esp32_time.c`) | 8 slots with state, generation, pending count; an esp_timer each | schedule, cancel, take_events, callback | esp_timer task | operations in several critical sections; expiry in between | slot and timer stay paired, one-shots count once, releases return |
| buffered UART (`esp32_uart.c` 560-874) | two byte rings, active flag, worker handle | open, close, read, write, tx_idle; worker loop; collecting of events while closed | driver queue and buffers, deferred events | two tasks on the rings; edge-triggered notifications; close against a worker the line may hold | bytes in order, no lost notification, no use after free |
| UART controller (`esp32_uart.c` 1-560) | pins, break state, error flags | configure, init, blocking transfers, break | driver | unlocked error flags; break takes the pin away | break always restored |
| WiFi (`esp32_wifi.c`) | ring of 64, link status, scan/AP flags, interfaces, handlers | initialize, deinitialize, scan, connect, disconnect, access point, take_event | event task, deferred-event wake-up | flags set after the call that triggers their event; partial initialisation | scan flag matches the driver; retries possible |
| Ethernet (`esp32_ethernet.c`) | ring, link state, eight resources | initialize, deinitialize, make_default, take_event | event task | unwinding; callbacks during teardown | all or nothing |
| BLE (`esp32_ble.c`) | ring, connection table, scan/advertise/connect flags, GATT registry and client reads | initialize, scan, advertise, connect, read, write, notify, take_event | NimBLE host task | flags on both sides; resets; handle reuse | flags match the host; results go to the right connection |
| managed context, worker (`esp32_runtime.c`) | arena owner, bound task, worker handle | acquire arena, bind, unbind, start, join, dispatch | every entry point checks the context | first acquire from two tasks; join against exit | at most one owner per arena |
| GPIO (`esp32_gpio.c`) | directions, interrupt masks, pending events, tokens | init, set, set_irq_enabled, set_event_token, take | interrupt handler, deferred events | the handler reads the mask unlocked | no event of a disabled pin, none lost while enabled |
| RMT (`esp32_rmt.c`) | channel handle, receiving/ready flags | transmit, start_receive, read_received | receive interrupt | flags shared with the interrupt | one capture per start |
| PWM (`esp32_pwm.c`) | channels, timers with reference counts | init_pin, deinit_pin, set_frequency, duty, polarity, enabled | - | sharing, half-failed init | a timer is used by channels of one frequency, released with the last |
| ADC, entropy (`esp32_adc.c`, `esp32_random.c`) | unit, calibration, channel counts; entropy source flag | init_pin, deinit_pin, read; enable, disable, fill | each other | mutual exclusion, partial failure | never both; released when unused |
| I2C, SPI (`esp32_i2c.c`, `esp32_spi.c`) | bus and device handle | init, deinit, transfer, reconfigure | driver | device replaced on the fly | device matches the configuration |
| watchdog (`esp32_watchdog.c`) | active, subscribed | enable, disable, feed | task watchdog | partial failure | subscribed whenever active |
| OTA (`esp32_ota.c`) | update handle, boot selection | begin, write, finish, activate, abort, mark valid/invalid | flash, boot loader | restarts; two updates on one slot | only a verified image boots |
| NVS (`esp32_nvs.c`) | open handles | open, set, get, commit, erase, close | flash | power loss | commit is durable |
| file systems (`esp32_filesystem.c`, `filesystem.bmx`) | mounts, default volume | mount, unmount, format, open | VFS | format and unmount with open files | one mount per path |
| calendar (`esp32_calendar.c`) | clock, one alarm slot | set, get, set_alarm, disable, take | esp_timer | in-flight callback of the old alarm; calendar arithmetic | an alarm fires once, for its own time |
| power (`esp32_power.c`) | wake-up sources of the chip | light sleep, deep sleep, idle | calendar's alarm, deferred events | sources left enabled by a failed sleep | sleep ends in time for the alarm |
| partition, device | none kept | raw flash access, identification | driver | - | - |
| facades, boards, CMake, examples, tests | none | - | - | - | - |

`PROJECT.json` lists under `hazards` what is hard to test, each at its line, with the properties
that would catch it going wrong.

## Modules

| Module | Models | Notes |
| --- | --- | --- |
| `EventFifo` | what the deferred-event queue promises | abstract: a bounded channel that refuses, counts and delivers |
| `DeferredEvents` | `esp32_events.c` | posters, network tasks, the owner; implements `EventFifo` |
| `DeferredEventsProofs` | | types, the wake-up invariant, and that the ring implements `EventFifo` |
| `AlarmSlots` | `esp32_time.c`, alarms | owner, optional worker on the second core, esp_timer task |
| `AlarmProofs` | | slots and their timers, counts, events, for all instances |
| `ReceiveStream`, `TransmitStream` | what the buffered UART promises of the bytes that arrive and of those written | abstract: one queue each, and the only ways in which a byte may leave it |
| `UartAsync` | `esp32_uart.c`, buffered mode | application, worker task, driver; implements both streams |
| `UartProofs` | | order of bytes, the worker's life, notifications, `tx_idle`, and that both streams are implemented |
| `WifiStation` | `esp32_wifi.c` | owner, event task, driver |
| `WifiProofs` | | types, the scan flag and results, the link, the causes of disconnections |
| `PwmChannels` | `esp32_pwm.c` | channels, timers and what the pins show |
| `AdcUnits` | `esp32_adc.c`, `esp32_random.c` | units, calibrations, the entropy source |
| `Peripherals` | | the two above, of which a program uses one |
| `PeripheralsProofs` | | reference counts, outputs, what the pins show, exclusion and calibrations |
| `BleHost` | `esp32_ble.c` but its GATT server | owner and NimBLE host task |
| `BleProofs` | | types, tables, the reported end of a scan, flags |
| `SpiBus` | `esp32_spi.c` | one controller, its bus and device, the cutting of transfers |
| `UartPort` | `esp32_uart.c` 1-560 | one controller's pin, break, errors and blocking writes |
| `GpioPins` | `esp32_gpio.c` | one pin and its interrupt handler |
| `RmtChannels` | `esp32_rmt.c` | a transmitter, a receiver and its interrupt |
| `Watchdog` | `esp32_watchdog.c` | the module and the task watchdog it borrows |
| `Buses` | | the five above, of which a program uses one |
| `BusesProofs` | | types, what is remembered of the hardware, what is reported, what is sent |
| `EthernetLink` | `esp32_ethernet.c` | program, event loop and driver |
| `CalendarAlarm` | `esp32_calendar.c`, light sleep of `esp32_power.c` | dates, clock, alarm; esp_timer task, either core |
| `ManagedContext` | `esp32_runtime.c` | arena owner, contexts, worker life cycle, as built for two cores |
| `OtaUpdate` | `esp32_ota.c` | updates, slots, boot loader, restarts |
| `FileSystems` | `esp32_filesystem.c`, mounting and routing of `filesystem.bmx` | both volumes, restarts |
| `Platform` | | the five above, of which a program uses one |
| `PlatformProofs` | | types and the promises of the five parts |
| `MC*` | | the instances TLC checks |

Operators named `Fault_...` are not part of the models. Each is a plausible mistake in the
definition that follows it, and is used to confirm that a property notices it.

A property that a run checks may be a conjunction of named parts, each with a comment of its own:
`RingsInOrder`, for example, is the types of `UartAsync` and `InOrder`. Every part has its own
mistakes beside it that break it:

| Property | Parts | Mistakes that break them |
| --- | --- | --- |
| `SlotsMatchTimers` (`alarms`) | `TypeOK`, `NoStrayTimer`, `ArmedWillFire` | `Fault_UnboundedGeneration`, `Fault_LeaveRunning`, `Fault_FailKeepsSlot` |
| `RingsInOrder` (`uart_async`) | `TypeOK`, `InOrder` | `Fault_PushPastEnd`, `Fault_PushReverse` |
| `AllNotified` (`uart_async`) | `ReaderNotified`, `WriterNotified`, `InputAnnounced` | `Fault_PushSilently`, `Fault_WriteSilently`, `Fault_ReadOnce` |
| `SettingsShown` (`peripherals`) | `PwmTypeOK`, `PinsShowSettings`, `AdcTypeOK`, `ConfiguredReadable` | `Fault_FullScale`, `Fault_OldLevel`, `Fault_DefaultAttenuation`, `Fault_LastOnUnit` |
| `ChannelsOwn` (`peripherals`) | `TimersCounted`, `NoOrphanOutput` | `Fault_KeepTimer`, `Fault_ReleaseFails` |
| `AdcHonest` (`peripherals`) | `EntropyExclusive`, `CalibrationMatches` | `Fault_MayInit`, `Fault_KeepCalibration` |
| `LinkHonest` (`wifi_station`) | `NoStaleLink`, `TornDown`, `NoHiddenAccessPoint` | `Fault_OnlyFailures`, `Fault_Unregister`, `Fault_NoRollback` |
| `TablesMatchHost` (`ble_host`) | `TableMatchesLinks`, `ReadsMatchSlots` | `Fault_Reset`, `Fault_ReadFails` |
| `HardwareMatches` (`buses`) | `DeviceMatches`, `BreakReleased`, `PadRemembered`, `MaskHasHandler`, `WatchdogRestored`, `NothingLeaks` | `Fault_Reconfigured` and `Fault_SpiDeinitializeFails`, `Fault_UartDeinitialize`, `Fault_GpioInitialize`, `Fault_DriverFails`, `Fault_Enable` and `Fault_DisableFails`, `Fault_NewTxFails` |
| `ReportsKept` (`buses`) | `CaptureKept`, `InterruptsAnnounced`, `ErrorsKept` | `Fault_ReceiveDone`, `Fault_InterruptPosts`, `Fault_Collected` |
| `SentWhole` (`buses`) | `TransfersWhole`, `LinesTranslated` | `Fault_Chunks`, `Fault_Piece` |
| `EventsTold` (`platform`) | `LinkTold`, `DateShown`, `AlarmTold`, `SleepCovered` | `Fault_StatusOf`, `Fault_DaysInMonth`, `Fault_SetStartFails` and `Fault_AlarmCallback`, `Fault_WakeAt` and `Fault_SleepEnds` |
| `KeptWhole` (`platform`) | `AlwaysBoots`, `SizesKept`, `NeverFormatsData`, `DefaultMounted` | `Fault_UpdateSlot` and `Fault_Complete`, `Fault_Fits`, `Fault_MayFormat`, `Fault_StillChosen` and `Fault_FormatFails` |
| `LifetimesRespected` (`platform`) | `EthReleased`, `ContextKept`, `WorkerKept` | `Fault_MakeFails` and `Fault_Unregister`, `Fault_ArenaFails` and `Fault_CallbackDispatch`, `Fault_Unbind` and `Fault_WorkerJoin` |

### DeferredEvents

A step is one critical section, one semaphore call or one unlocked test. `slots`, `put`, `get`
and `dropped` are the static variables of the file; counters live in `0..Modulus-1` and wrap.
`created` is "the handle is not NULL". FreeRTOS is external: `given` is the semaphore's count
and `listed` says that the owner is on its list of waiting tasks. `CreateSignal` empties both, as
`xSemaphoreCreateBinaryStatic` does to its storage. The rings of WiFi, Ethernet and BLE, which
have the same shape, are a count of queued events; their tasks end each callback with
`bmx_embedded_system_wake`. Tokens equal to 0, which post nothing, are left out.

The history variable `recreated` records that the semaphore was initialised twice. The code
creates it lazily in both `system_wait` and `system_wake`, after an unlocked test for NULL, so two
tasks can both see NULL; the second initialisation removes the sleeping owner from the list.
`deferred_lazy_signal` shows the consequence: the owner sleeps while an event is queued and no
give is under way. The other properties say what holds as long as that does not happen.

### AlarmSlots

`slot` holds state, pending count, generation and whether the alarm repeats; `timer` and
`startedFor` are the esp_timer of a slot, external, and the alarm it was started for; `inFlight`
is the callback in progress; `call` is where each caller is in schedule, cancel or take_events.
The variable `multicore` is chosen initially and never changes. In the default build
`bmx_esp32_managed_context_valid` admits one task, on the core of the esp_timer task, whose
priority is higher: a caller runs only when no callback is in progress. In the multicore build a
worker on core 1 may run beside it, and `esp_timer_is_active` does not wait for a one-shot
callback that has begun. `OwnEventsOnly` therefore speaks of the default build; what still holds
with two cores is `OneShotOnce` and the pairing invariants.

### UartAsync

`rx` and `tx` are the rings from get to put, `worker` the worker's program counter, local buffer
and flag, `note` the deferred events it posted, `hw`, `dataEvents`, `errorEvents` and `driver`
the driver's receive buffer, event queue and transmit buffer, the last of `DriverCapacity` bytes. Bytes are numbers in the order of
arrival or acceptance, so order and duplication are visible as inequalities. The application
follows the protocol of an event-driven stream: it reads until a short count, then waits for a
receive event; after a short write it waits for a transmit or error event. Posts are assumed to
find room in the deferred ring; a refused receive event is a listed hazard without a property.
So is the race of the error flags, which `clear_errors` and the worker update under no common lock:
it loses an error the program was about to clear anyway, or repeats it.

Line errors are as many as they like and may take every place of the driver's queue. The UART_DATA
event of bytes that arrive then is lost, and `get_errors` and `clear_errors`, called while the stream is
closed, take queued events of either kind and leave the bytes (`CollectEvents`). The history variable
`missed` records that bytes wait in the driver after one of these two, until the next data event that
finds room makes the worker read them all; `InputAnnounced`, a part of `AllNotified`, makes exactly that
exception and says that it ends when the bytes are read. Nothing in the repository promises that
such bytes are read without more input.

`uart_write_bytes` waits for room in the driver's transmit buffer, without limit. The line, which with
flow control may withhold CTS as long as it likes, therefore holds the worker in `WorkerWrite`
(`Held`), and with it `async_close`, which polls until the worker is gone. `CloseReturns` says that
`async_close` returns unless the worker is held for ever. The driver may also refuse a chunk, but is
never obliged to. A chunk passes to the driver at once when all of it fits.

A program that uses the stream is taken to leave the driver's bytes to it: the controller's own reads,
`write_blocking` and `flush_input`, which take or send bytes beside the worker, are not in this module.

`AsyncOpenFails` is an open whose `xTaskCreate` fails: the counters are already reset, and the
buffers are gone again. A failed allocation comes before that and changes nothing.

The rings, the worker's buffer and the driver are three places a byte passes through in each
direction, and a byte may be lost between any two. `InputAccounted` and `OutputAccounted` say that
`UartAsync` implements `ReceiveStream` and `TransmitStream`, in which the three are one queue: the abstract
`queue` is `rx \o Received \o hw`, and `driver \o Sending \o tx`, where `Received` and `Sending`
are the bytes in the worker's hands. `RingsInOrder` allows gaps in the numbers; the streams say what each
gap is: a byte counted in `async_rx_dropped` because a full ring was ahead of it, a chunk the driver
refused and of which an error event tells, or what the rings held at a close. A byte arrives when it
reaches the driver's receive buffer: what the driver has no room for it reports as an overrun, an
error of the line.

`TxIdleMeansSent` is stated for one core and writes of at most one 64-byte chunk. The worker asks
`uart_wait_tx_done` and clears `async_tx_active` without looking at the ring again
(`esp32_uart.c:660-666`), so with a longer write, or a write on the other core in between,
`tx_idle` may be true with bytes unsent.

### WifiStation

`app` is the step the owner has reached in a function that calls the driver more than once;
`handler` the same for the event handler. `initialized`, `scanActive`, `explicit`, `apActive`,
`link` and `ring` are the static variables of the file; `held` is what `initialize` created or
registered. External are `radio`, the driver, and `posted`, the event loop: the driver posts in
the order in which things happen, and unregistering a handler waits for it to return. Events
whose handler is gone are discarded. Ring events are their kinds only, since no property is about
addresses or networks, and every reason for a lost connection is "failed".

A disconnection carries its cause, so that `CauseReported` can compare it with the status the
handler derives from a flag. `mishaps` records what the properties make exceptions for: `early`
is a scan that ended before `start_scan` set its flag, which then stays set for good
(`esp32_wifi.c:262-263`); `unfinished` an `initialize` that failed half way;
`overlap` a disconnect called with an earlier disconnection still unhandled.
`wifi_failed_initialize` shows that after `unfinished` the interfaces stay, so that the next
`initialize` is refused at its first step; that refusal changes nothing and is no action.

### PwmChannels, AdcUnits and Peripherals

Both are called by one task, so a function is a step; what makes them hard is that any call of
the driver may fail, between two assignments, in any sequence of calls. A failed driver call is
taken to change nothing.

`channel` and `timer` are the arrays of the file, with the fields of an unconfigured channel,
which are never read, at fixed values. `out` and `tone` are the LEDC driver: what each channel puts on which
pin, and each timer's frequency. `init_pin` on a pin that is already driven calls four of the other
functions and stops at the first that fails; `todo` holds the calls it has left. `faults` counts
the operations in which the driver failed: `PinsShowSettings` speaks of the behaviours without,
the other properties of all. `Waveform` is what a neighbour can see of a pin.

`pwm_shared_timer` shows that `set_pin_frequency` retunes a pin's own timer without looking for
one that has the frequency, which the facade's documentation promises.

In `AdcUnits` a pin is its unit and channel; `native` is the attenuation the driver uses. A
calibration is the attenuation it was made for. `adc_unit_cleanup` shows the unit that stays open
when its first channel cannot be configured.

`Peripherals` lets a program use either: they share no state and do not enable or disable one
another, so their product would show nothing new.

### BleHost

`app` is where the owner is in a function; the flags, `table` and `reads` are the static variables;
`host` is NimBLE: whether it runs, scans, advertises and connects, its links and its procedures in
progress. A callback is one step with the change in the host it reports, since the host task has
the higher priority; only the restart of advertising, which waits for the controller, is two. The
flags are set after the calls they describe, so an operation that ends first leaves its flag
set. `mishaps` records these races, and the one where a handle is given out again inside
`client_read`; `FlagsMatchHost` and `ReadsMatchSlots` say that there are no others. `ScanReported`
and `TableMatchesLinks` hold without exception. The GATT server's attribute tables, discovery and
notifications, which move data and keep no state across calls but the registry built before the
host starts, are left out.

### Buses: SpiBus, UartPort, GpioPins, RmtChannels, Watchdog

Each is called by one task, and any driver call may fail and then change nothing. The driver frees
an SPI bus exactly when no device is on it; removing a GPIO handler, disabling and deleting RMT
channels do not fail.

- `SpiBus`: `spi` is the module's entry, `spiBus` the driver's. Changing the clock or the format
  removes the device and adds a new one; `DeviceMatches` follows what was configured through every
  failure and rollback. `spiWire` is the last transfer, cut into chunks.
- `UartPort`: `set_break` takes the pin away from the UART and gives it back; errors arrive in the
  driver's queue and are collected into flags. `uartTorn` records a break that could not be ended,
  the exception of `BreakReleased`. Baud rate, format and flow control are single driver calls and
  left out.
- `GpioPins`: `irq` holds mask, events and token of a pin. The handler reads the mask outside the
  lock, so it may run between any two steps of `set_irq_enabled`.
  `MaskHasHandler` speaks of the state after it, with any of its driver calls refused. The deferred ring is taken to have
  room; that it refuses when full is `DeferredEvents`' matter.
- `RmtChannels`: `rmtHeld` lists what driver and heap have given out, for the unwinding of
  constructors; the capture is handed over by flags the interrupt and the program both write.
- `Watchdog`: the task watchdog may have been running, and the task subscribed, before `enable`;
  `WatchdogRestored` says that `disable` returns it as it was.

### Platform: EthernetLink, CalendarAlarm, ManagedContext, OtaUpdate, FileSystems

- `EthernetLink`: the parts `initialize` makes, in their order, and what `release` deletes. Events
  wait in `ethLoop` and are handled by the callback in two steps, status and ring. `LinkTold`, which
  compares driver, status and last report, is stated when the event loop is empty: an event of an
  earlier session, handled between the clearing of the ring and of the status in `deinitialize`,
  makes the two disagree until the "stop" behind it is handled. That an address is obtained only while
  the link is up is taken from ESP-IDF.
- `CalendarAlarm`: dates are converted as the code does and compared with the definition of a date
  (`DateShown`). The alarm is three flags between program and callback. On core 0 the callback has
  ended before the program runs on; on core 1 a callback already under way can clear the wake-up of
  the alarm set after it, or deliver an event after `disable_alarm`, so `AlarmTold` and
  `SleepCovered` speak of core 0, where the default build runs.
- `ManagedContext`: `main` acquires the arena, which nothing releases again, starts and joins the worker and
  dispatches callbacks; the worker binds and unbinds itself; tasks of ESP-IDF only dispatch. The
  first acquire comes from main, as the runtime's start-up has it, so two tasks racing for an
  arena nobody owns do not occur.
- `OtaUpdate`: the boot loader, the otadata and what `esp_ota_*` refuses are external, with
  rollback enabled, as in every board's sdkconfig. The chip restarts after any step. Two handles
  may write the same slot; `AlwaysBoots` says that there is nevertheless an image to boot.
- `FileSystems`: the native mounts and the facade's own idea of them. A format cut short leaves a
  medium that is neither blank nor a file system, which mount never formats on its own. When the
  unmount with which `bmx_esp32_littlefs_format` begins fails, the facade shows a volume unmounted that is
  still mounted; `DefaultMounted` requires the converse only. `NeverFormatsData` speaks of LittleFS: a card
  that cannot be mounted is formatted when the program consents.

`Buses` and `Platform` choose one part with `used`, as `Peripherals` does and for the same reason:
the parts share no state.

## Runs

| Run | Shows | Bounds |
| --- | --- | --- |
| `deferred_events` | `TypeOK`, `NoLostWakeup`, `DeliversInOrder` (refinement of `EventFifo`), `Delivers`, `OwnerWakes` | 2 posters, 2 network tasks, 2 payloads, ring of 2, counters modulo 4, network ring of 2 |
| `deferred_lazy_signal` | a counterexample to `WaitSystemDrains` | the same |
| `alarms` | `SlotsMatchTimers`, `OneOperationPerSlot`, `OneShotOnce`, `OwnEventsOnly`, `ReleaseCompletes` | 2 slots, 2 generations, pending saturates at 2, 2 callers |
| `uart_async` | `RingsInOrder`, `AllNotified`, `BuffersOutliveWorker`, `TxIdleMeansSent`, `CloseReturns`, `InputAccounted` (refinement of `ReceiveStream`), `OutputAccounted` (of `TransmitStream`) | rings of 2, chunk of 1, 3 bytes in one direction and 1 or 0 in the other, 2 opens, driver queue of 2, transmit buffer of 1 |
| `wifi_station` | `TypeOK`, `ScanFlagHonest`, `ResultsOfOneScan`, `LinkHonest`, `CauseReported`, `ScanFinishes` | 2 networks found, ring of 1, 2 events waiting when another is posted, the end of a scan excepted |
| `wifi_failed_initialize` | a counterexample to `InitializeRepeatable` | the same |
| `peripherals` | `SettingsShown`, `ChannelsOwn`, `NeighboursUndisturbed`, `AdcHonest` | 3 pins, 2 channels, 2 timers, 4 frequencies of which one has no resolution, 2 duties, 1 operation with a failing driver; 2 ADC units of 2 channels, 2 attenuations |
| `pwm_shared_timer` | a counterexample to `SameFrequencySharesTimer` | the same |
| `adc_unit_cleanup` | a counterexample to `UnitsCleanedUp` | the same |
| `ble_host` | `TypeOK`, `TablesMatchHost`, `ScanReported`, `FlagsMatchHost`, `ReadsEnd` | 2 connection handles, a table of 2, 1 read slot, ring of 1 |
| `buses` | `TypeOK`, `HardwareMatches`, `ReportsKept`, `SentWhole` | SPI: 2 wirings, 2 clocks, 2 formats, 2 devices a bus, chunks of 4 bytes filled from 2, transfers of 0 to 5 words; UART: 6 texts, 2 kinds of error, a queue of 2; GPIO: 2 masks; RMT: room for 2 symbols, captures of 0, 1 and 3; watchdog: 2 timeouts |
| `platform` | `TypeOK`, `EventsTold`, `KeptWhole`, `LifetimesRespected` | Ethernet: ring of 2, 3 events waiting; calendar: 6 dates about the edges of months, leap years and 1970, counts up to 3; 2 entries of a worker; 2 updates, slots of 3 units, images of 2 |

Why these bounds are enough for the cases of interest: two posters and two network tasks are the
least that race with each other and the owner; a ring of two fills and wraps, and counters modulo
four wrap within six posts. Two slots and two callers let a slot be reused while an operation on
it is in progress; two generations wrap at once. A ring of two with a chunk of one has writes
longer than a chunk, overflows, and a ring refilled after it was read empty; two opens include
a reopen with bytes left in the driver. Two errors fill the driver's queue, and one byte its transmit
buffer, so that data events are lost and the worker is held. In `peripherals` two channels share a timer or have one each,
a third pin finds no channel, and frequencies differ in resolution; running out of timers before
channels, which only refuses a call, does not occur in it and is covered by the proofs.
Two BLE handles and one read slot let a read meet a disconnection, a second link and the reuse of its
handle; a ring of one is full after one event. An SPI transfer is shorter than, as long as and
longer than a chunk, and repeated data goes out in more than one piece of the fill buffer. An RMT capture is empty, fits or does not. Two OTA handles write one slot in any order,
an image leaves room for a write past the slot, and the expected size is none, right or too large.
In `wifi_station` a ring of one lets a result push out the report of completion, and two waiting events let one overtake a
call; after a failed `initialize` the module stops, so deadlock is not checked.
`uart_async` does not check for deadlock: the bytes and
opens run out. `deferred_events` needs no such exemption.

## Fairness

- `DeferredEvents`: a task inside `system_wait`, `system_wake` or a post continues (FreeRTOS runs
  ready tasks; the calls do not block except in the modelled take), and the owner drains what it
  finds before it waits again, as the event loop does. Nothing obliges anybody to post.
- `AlarmSlots`: a caller finishes its operation although expiring timers interrupt it again and
  again (strong fairness; it runs between callbacks); esp_timer serves deadlines in order, so no
  timer is starved by another; a callback that has begun ends.
- `UartAsync`: the worker is scheduled (it has the higher priority) and goes on as long as the full
  driver does not hold it, and `async_close`, which polls once a tick, notices that the worker is gone.
  Nothing is assumed of the line, neither that it brings a byte nor that it takes one, and no refusal
  of the driver is counted on. Without flow control the transmitter always drains and the worker is
  not held for long.
- `WifiStation`: the event task is scheduled and a scan takes a bounded time. Nothing is assumed
  of the owner, the network or the lease.
- `BleHost`: a procedure of the host ends with an answer or a failure, also when its link goes
  down (strong fairness: a reset may interrupt it), and the host task runs. Of the
  owner it is assumed only that `client_read`, once begun, goes on; of the peers, nothing.
- `Buses` and `Platform` state no liveness and assume no fairness.

## Proofs

Every safety invariant and action property that a passing run checks is a theorem of the same
specification, for every value of the constants, and so are the three refinements. Few of them are
inductive: each proof module states the strengthening it needs, shows that the initial states have
it and every action keeps it, and derives the properties from it. TLC has checked each
strengthening on the component's instance. Where a component is many devices or
parts (`Buses`, `Platform`, `Peripherals`), each has an invariant of its own that the others' steps leave
alone.

The constants are assumed to be what the modules' `ASSUME`s say: mostly that sizes are numbers, rings hold at
least one, inputs have the types the code gives them, and placeholders are not values. Five say more:
`RingAssumption` (the ring size divides the range of the counters, as 32 divides 2^32), `UartAssumption`
(the driver's transmit buffer, 256 bytes, has room for a chunk, 64), `BleAssumption` (the host has no more handles than the
connection table entries), `SpiAssumption` (the longest transfer, 4092 bytes, and the fill buffer, 64, are even, without which
a chunk could end inside a word of two bytes) and `ResolutionAssumption`, which is arithmetic: 2 to
the power of a resolution is a positive number, which the provers cannot compute.

`DeferredEventsProofs`, for any sets of posters, network tasks and payloads:

- `TypeCorrect`: `Spec => []TypeOK`, of which `Used <= Capacity` is the part that is not typing. It
  rests on lemmas about wrapping counters (`SuccType`, `UsedAfterStore`, `UsedAfterTake`).
- `NoWakeupIsLost`: `Spec => []NoLostWakeup`. The property is not inductive. `WakeInv` adds what
  each task knew when it decided: nobody used the semaphore before it was initialised
  (`CreatedFirst`), the owner is listed exactly while blocked (`ListedIffBlocked`), and once the
  owner has checked the deferred ring (`RingSignalled`), or found the network rings empty
  (`NativeSignalled`), any event queued since has left the semaphore given or somebody on the way
  to give it. All parts hold only while the semaphore was created once.
- `RingImplementsFifo`: `Spec => DeliversInOrder`, the safety of
  `EventFifo` under the mapping of `Fifo`. The initial state maps to the empty channel; a store to
  `Accept`, a take to `Deliver`, a drop to `Refuse` or, once the count is saturated, to a stutter,
  everything else to a stutter. The argument is about slots: numbers less than a ring apart lie in
  different slots (`SlotsApart`), so a store changes no queued event; adding the counters' range
  changes no slot (`SlotWraps`, which needs the ring size to divide it), so the
  mapping does not jump when a counter wraps.

`AlarmProofs` (`AlarmInv`): `OneOperationPerSlotAlways`, `SlotsMatchTimersAlways`, `OneShotCountedOnce`
and `EventsAreOwn`, on one core and two. The invariant says what a caller may rely on between its
critical sections. In schedule the slot still has the generation it was given, the program has not
got that handle yet, so nobody can release it, and the timer stands still (`ScheduleOwns`);
in a release the slot stays `RELEASING` and once the wait is over its timer stands still (`ReleaseOwns`).
A repeating alarm that is armed has its periodic timer running, whatever the callback does
(`RepeatingRuns`). `EventsAreOwn`, an action property, needs `CallbackOfItsAlarm`: on one core no
slot is reused under its callback.

`UartProofs` (`UartInv`): `StreamsKeepOrder`, `WorkerHasBuffers`, `NobodyIsForgotten`,
`IdleStreamsAreSent`, and the refinements `ReceivedIsAccounted` and `AcceptedIsAccounted`. In each direction the bytes that are anywhere, in the driver, the worker's
buffer or a ring, form one chain of increasing numbers between the last delivered and the last
accepted (`Input`, `Output`); lemmas say that appending, taking and passing on parts of it keep it a
chain. `OneWorker` ties the worker's life to open, close and the buffers. The three parts of `AllNotified` are
inductive together with these, because an empty ring says which edge comes next.
`FlagCoversBytes` is what `IdleStreamsAreSent` rests on: with one core and writes of one
chunk to an idle stream, the worker empties the ring at once, so the flag that it clears covers everything.

For the refinements each action maps to one step of the abstract stream or to a stutter: a read of
the ring takes a beginning of the queue; the worker's read and its drain only move the border between two
of the three parts; a push is an `Overflow` of the bytes that did not fit, with the ring's capacity ahead of
them; an open or a failed one begins the count anew. The lemmas say where a place in
the joined sequence lies in its parts, and that cutting the joined one is cutting a part
(`JoinAssociates`, `TakeAndRest`, `CutJoined`). `UartInv` is needed for the size of the rings at a push and at a close, and, by
`OneWorker`, for a reopen to find both rings empty and no worker with bytes in hand.

`WifiProofs`, for any ring size, number of networks found and length of the event queue:

- `TypeCorrect`, `ScanFlagIsHonest`, `ResultsAreOfOneScan`. Whether
  the flag may be cleared, or a scan started, depends on where the end of the last scan has got to.
  `ScanInv` says that there is one scan at a time, in the driver, posted or being read (`Busy`),
  that it is one `start_scan` has claimed by the flag or is about to claim, and that the claim will
  be given back because the handler stays registered while the driver is started; the last needs
  to know where `initialize` and `deinitialize` are. The event queue appears only as the positions
  at which ends of scans are posted (`ScanDones`), with lemmas for what posting, handling and
  overtaking do to them.
- `LinkIsHonest`, from `OffInv` (what initialize holds at each of its steps, and that deinitialize gives
  it back in the other order) and `StationInv` (behind every waiting event that says the
  station is joined there is one that says it is not, unless it is).
- `CausesAreReported`, from `CauseInv`: the flag of `disconnect` is set exactly while
  the event it is for is under way, and no event it is not for can come first.

`PeripheralsProofs`, for the specification the runs check, with any number of pins, channels, timers,
units and driver failures:

- `ChannelsOwnTheirs`, from `PwmInv`: types, one channel per pin, outputs of
  their channels' pins, counts. The counts change by one because
  a new channel was on no timer and a removed one was on its own.
- `SettingsAreShown` and the action property `NeighboursAreUndisturbed`, from `TunedInv`: a
  channel's output is on the channel's timer; and until the driver fails, a timer in use runs at the frequency and
  resolution recorded for it and each channel shows what was set. A frequency
  is changed in place only on a timer of one reference, and by the counts that
  timer has no other channel (`Alone`).
- `AdcIsHonest`, from `AdcInv`, the four ADC invariants, which need each
  other: closing a unit is safe for calibrations only because its last pin goes with it.

`BleProofs` (`BleInv`), for any finite set of handles, number of read slots and ring size: `BleTypes`,
`TablesAreTheHosts`, `ScanEndIsReported`, `FlagsAreTheHosts`. A read slot that is
active waits for an answer of the host or for `client_read` to ask (`SlotsAwaitAnswers`), the
host reads only over links it has, and unless a handle was given out again inside `client_read` a slot
has one read (`OneReadPerSlot`). A report of the end of scanning that is owed is known to the flag or
to the call that will set it (`OwedIsRemembered`); `ScanFlagTrue`, `AdvFlagTrue`
and `ConnFlagTrue` say when a flag is the host's, and at which steps of a call, and after which of
the recorded races, it need not be.

`BusesProofs`: `BusesTypes`, `HardwareIsRemembered`, `ReportsReachTheProgram`, `AllIsSent`. SPI, UART and
watchdog need little more than their properties: the devices on the bus are the one held and those
the driver refused to remove (`Occupied`), and while the watchdog is active its flags say what `enable`
found (`WatchdogBorrowed`). For GPIO, `IrqInOrder` follows `set_irq_enabled` from step to step, and `EventsTracked` says
that recorded events are announced, or that there was nobody to tell. For RMT, `CaptureInOrder` says
that the driver, its interrupt and the program never use the capture at once.

`AllIsSent` compares the cutting of a transfer, and the translation of a text, with the whole, for
transfers and texts of any length. This is induction over data, for which the library's theorems
take an operator. `Induction` states it for a set of numbers instead, from the least element
that a well-founded order gives (`LeastNumber`); `Recursion` derives from it that a function defined
from each number to the next exists, which `FlattenIs` and `PiecedWhole` need to open the recursive definitions.
Then the chunks of a loop cover its bytes without gap or overlap (`ChunksCover`, over the integer division
that counts them), the chunks of successive pieces cover them together (`FlattenCover`,
`PiecesCover`), and any beginning of a cover covers a beginning (`CoverBegun`). For the UART the
invariant of the loop over the text (`PieceKeeps`) is that what is out, with the characters since `start`, is
the translation of what has been passed.

`PlatformProofs`: `PlatformTypes`, `KeptIsWhole`, `LifetimesAreRespected`, `EventsAreTold`.

- `OtaInv`: an image that is not confirmed runs only while the other slot has a confirmed one and nothing
  else is to boot (`SlotsSafe`), and an open update goes to the slot that does not run, within the
  size it was promised (`HandleSafe`). From the two, `AlwaysBoots`.
- `CtxInv`: who may own the arena, and which of the worker's handles exist at each step of
  start and join (`OwnersAreTheirs`, `OwnerIsNew`, `WorkerIsRecorded`).
- `EthInv` and `LinkInv`: the parts made are those up to where `initialize` has come, and the last
  event in the loop says what the driver does (`LoopTellsLast`, `LoopTellsLink`).
- `CalInv`: a date converted to a time and back is the same date, for every year and time zone.
  The lemmas count days: leap years before a year (`LeapsGrow`), first days of years and months
  (`FirstInYear`, `YearsGrow`, `MonthsGrow`), of which exactly one fits (`OneYear`, `OneMonth`).
  `FiringStopsProgram` says where the program can be when the alarm's callback runs on its core.
- `FsInv` is the properties and their types.

Only model-checked: liveness (`Delivers`, `OwnerWakes`, `ReleaseCompletes`, `CloseReturns`,
`ScanFinishes`, `ReadsEnd`), which needs ENABLED and is beyond the proof system.

## Plan

Modelling is complete but for what the next section names, and every safety property a passing run
checks is proved. What is left: the two hazards of the buffered UART without a property, which need a
full deferred ring and torn error flags in `UartAsync`, and a promise of the code about
them, of which it makes none; and shorter proofs where an action's step repeats another's. The rings of WiFi,
Ethernet and BLE are sequences in their models already, so an abstract channel would restate them.

## Not modelled, and why

- I2C: nothing is kept but a driver handle; every transfer adds or keeps the device of its address and
  returns the driver's result.
- NVS: each function opens, makes one driver call, commits and closes; what survives power loss is the
  driver's promise, not this code's.
- BLE's GATT server, discovery and notifications: tables of attributes copied once and data passed on.
- Open files and directories: handles of the C library, each function one call of it.
- Deep sleep, which ends the program, and idle, which waits for one interrupt.
- Partition table and device information: stateless. Facades: declarations and registrations with
  embedded.mod. Boards, build files, examples and tests: no state of their own.
- Argument checks without effect on state, data copied unchanged and read-only queries.

embedded.mod and ESP-IDF are not in this repository; they appear as external actions.
