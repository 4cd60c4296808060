-------------------------------- MODULE SpiBus --------------------------------
(***************************************************************************)
(* runtime.mod/native/esp32_spi.c, one controller: a bus of the driver and *)
(* the one device on it through which everything is transferred.  Neither  *)
(* clock nor mode of a device can be changed: it is removed and added      *)
(* again, and put back as it was when that fails.                          *)
(*                                                                         *)
(* One task calls these functions, so that each is a step.  Any call of    *)
(* the driver may fail, and then changes nothing; but it frees a bus       *)
(* exactly when there is no device on it.                                  *)
(***************************************************************************)
EXTENDS Integers, Sequences, FiniteSets, SequencesExt

CONSTANTS
  Wirings,     \* the triples of pins a bus can be put on
  NoWiring,
  Baudrates,   \* the clock rates asked for
  SpiFormats,  \* the formats asked for: records of bits and mode
  SpiSlots,    \* the devices the driver has room for on a bus
  SpiChunk,    \* 4092, the longest transfer, in bytes
  SpiFill,     \* 64, the size of the buffer of repeated data, in bytes
  SpiLengths   \* the lengths of transfers, in words

ASSUME SpiAssumption ==
  /\ NoWiring \notin Wirings
  /\ Baudrates \subseteq Nat \ {0}
  /\ SpiFormats \subseteq [bits : {8, 16}, mode : Nat]
  /\ SpiSlots \in Nat \ {0}
  /\ SpiChunk \in Nat \ {0} /\ SpiChunk % 2 = 0
  /\ SpiFill \in Nat \ {0} /\ SpiFill % 2 = 0
  /\ SpiLengths \subseteq Nat

VARIABLES
  spi,         \* the controller's entry of bmx_esp32_spi
  spiBus,      \* the driver: the pins the bus is on and the devices on it
  spiRefused,  \* the devices the driver once refused to remove
  spiWire      \* the last transfer: words asked for, bytes a word, chunks sent
               \* and the result

spiVars == <<spi, spiBus, spiRefused, spiWire>>

\* mode stands for the polarity, the phase and the bit order.
Settings == [baud : Baudrates, bits : {8, 16},
             mode : {0} \cup {f.mode : f \in SpiFormats}]
DefaultSettings(baud) == [baud |-> baud, bits |-> 8, mode |-> 0]

\* What bmx_esp32_spi_add_device tells the driver of the settings s.
Clocking(s) == [baud |-> s.baud, mode |-> s.mode]

FreeSlot == [baud |-> 0, mode |-> 0]
Slots == 1 .. SpiSlots
Nobody == [d \in Slots |-> FreeSlot]

----------------------------------------------------------------------------
(* The calls that may fail, as the sets of their outcomes: the handle that *)
(* is held (0: none), the devices on the bus, those that were refused, and *)
(* whether the call succeeded.                                             *)

Now == [ok |-> TRUE, device |-> spi.device, devices |-> spiBus.devices,
        refused |-> spiRefused]
Failing(n) == [n EXCEPT !.ok = FALSE]

\* bmx_esp32_spi_add_device overwrites the handle.
Added(n, s) ==
  {Failing(n)} \cup
  {[n EXCEPT !.ok = TRUE, !.device = d, !.devices[d] = Clocking(s),
             !.refused = @ \ {d}] :
     d \in {e \in Slots : n.devices[e] = FreeSlot}}

Removed(n) ==
  IF n.device = 0 THEN {n}
  ELSE {[n EXCEPT !.device = 0, !.devices[n.device] = FreeSlot],
        Failing([n EXCEPT !.refused = @ \cup {n.device}])}

\* Fault: the device is not removed before it is added again.
Fault_Reconfigured(n, s) == Added(n, s)

\* bmx_esp32_spi_reconfigure
Reconfigured(n, s) ==
  UNION {IF r.ok THEN Added(r, s) ELSE {r} : r \in Removed(n)}

\* The tail of set_baudrate and set_format: s, or else the settings as they
\* were, and whatever adding the device again comes to.
Change(s) ==
  \E r \in Reconfigured(Now, s) :
    \E q \in IF r.ok THEN {r} ELSE Added(r, spi.settings) :
      /\ spi' = [spi EXCEPT !.device = q.device,
                            !.settings = IF r.ok THEN s ELSE @]
      /\ spiBus' = [spiBus EXCEPT !.devices = q.devices]
      /\ spiRefused' = q.refused
      /\ UNCHANGED spiWire

----------------------------------------------------------------------------
(* The operations. *)

\* bmx_embedded_spi_configure_pins
SpiConfigurePins(w) ==
  /\ ~spi.initialized
  /\ spi' = [spi EXCEPT !.wiring = w]
  /\ UNCHANGED <<spiBus, spiRefused, spiWire>>

\* bmx_embedded_spi_init
SpiInitialize(baud) ==
  /\ ~spi.initialized /\ spi.wiring # NoWiring
  /\ spiBus.wiring = NoWiring
  /\ \E r \in Added(Now, DefaultSettings(baud)) :
       /\ r.ok
       /\ spi' = [spi EXCEPT !.initialized = TRUE, !.settings = DefaultSettings(baud),
                             !.device = r.device]
       /\ spiBus' = [wiring |-> spi.wiring, devices |-> r.devices]
       /\ UNCHANGED <<spiRefused, spiWire>>

\* The bus is taken but the device cannot be added: the bus is given back.
\* The settings stay.
SpiInitializeFails(baud) ==
  /\ ~spi.initialized /\ spi.wiring # NoWiring
  /\ spiBus.wiring = NoWiring
  /\ spi' = [spi EXCEPT !.settings = DefaultSettings(baud)]
  /\ UNCHANGED <<spiBus, spiRefused, spiWire>>

\* bmx_embedded_spi_deinit
SpiDeinitialize ==
  /\ spi.initialized
  /\ \E r \in Removed(Now) :
       /\ r.ok
       /\ r.devices = Nobody
       /\ spi' = [spi EXCEPT !.device = 0, !.initialized = FALSE,
                             !.settings.baud = 0]
       /\ spiBus' = [wiring |-> NoWiring, devices |-> r.devices]
       /\ UNCHANGED <<spiRefused, spiWire>>

\* Fault: the controller counts as deinitialised although its bus is taken.
Fault_SpiDeinitializeFails ==
  /\ spi.initialized
  /\ \E r \in Removed(Now) :
       /\ r.ok => r.devices # Nobody
       /\ spi' = [spi EXCEPT !.device = r.device, !.initialized = FALSE]
       /\ spiBus' = [spiBus EXCEPT !.devices = r.devices]
       /\ spiRefused' = r.refused
       /\ UNCHANGED spiWire

\* The device stays, or it is gone but the bus cannot be freed.
SpiDeinitializeFails ==
  /\ spi.initialized
  /\ \E r \in Removed(Now) :
       /\ r.ok => r.devices # Nobody
       /\ spi' = [spi EXCEPT !.device = r.device]
       /\ spiBus' = [spiBus EXCEPT !.devices = r.devices]
       /\ spiRefused' = r.refused
       /\ UNCHANGED spiWire

\* bmx_embedded_spi_set_baudrate
SpiSetBaudrate(baud) ==
  /\ spi.initialized
  /\ Change([spi.settings EXCEPT !.baud = baud])

\* bmx_embedded_spi_set_format
SpiSetFormat(f) ==
  /\ spi.initialized
  /\ Change([spi.settings EXCEPT !.bits = f.bits, !.mode = f.mode])

----------------------------------------------------------------------------
(* Transfers. *)

Smaller(a, b) == IF a < b THEN a ELSE b

\* Fault: the last chunk is as long as the others.
Fault_Chunks(first, n, size) ==
  [i \in 1 .. (n + size - 1) \div size |-> [from |-> first + (i - 1) * size, size |-> size]]

\* The loop that moves n bytes of the caller's, beginning with the byte first,
\* size of them at a time.
Chunks(first, n, size) ==
  [i \in 1 .. (n + size - 1) \div size |->
     [from |-> first + (i - 1) * size, size |-> Smaller(size, n - (i - 1) * size)]]

\* bmx_esp32_spi_transfer of each piece the caller makes: a write or a
\* write_read is one piece, a read is cut to the buffer of repeated data.
Pieces(bytes, repeated) ==
  LET parts == IF repeated THEN Chunks(0, bytes, SpiFill)
               ELSE <<[from |-> 0, size |-> bytes]>>
  IN FlattenSeq([i \in DOMAIN parts |-> Chunks(parts[i].from, parts[i].size, SpiChunk)])

\* write, read and write_read for words of a byte, and for words of two; the
\* driver may fail at any chunk.
SpiTransfer(length, bits, repeated) ==
  LET pieces == Pieces(length * (bits \div 8), repeated) IN
  /\ spi.device # 0
  /\ spi.settings.bits = bits
  /\ \E sent \in 0 .. Len(pieces) :
       spiWire' = [asked |-> length, width |-> bits \div 8,
                   chunks |-> SubSeq(pieces, 1, sent),
                   result |-> IF sent = Len(pieces) THEN length ELSE -1]
  /\ UNCHANGED <<spi, spiBus, spiRefused>>

----------------------------------------------------------------------------
SpiInit ==
  /\ spi = [initialized |-> FALSE, wiring |-> NoWiring, device |-> 0,
            settings |-> [baud |-> 0, bits |-> 0, mode |-> 0]]
  /\ spiBus = [wiring |-> NoWiring, devices |-> Nobody]
  /\ spiRefused = {}
  /\ spiWire = [asked |-> 0, width |-> 1, chunks |-> <<>>, result |-> 0]

SpiNext ==
  \/ \E w \in Wirings : SpiConfigurePins(w)
  \/ \E baud \in Baudrates :
       SpiInitialize(baud) \/ SpiInitializeFails(baud) \/ SpiSetBaudrate(baud)
  \/ SpiDeinitialize \/ SpiDeinitializeFails
  \/ \E f \in SpiFormats : SpiSetFormat(f)
  \/ \E length \in SpiLengths, bits \in {8, 16}, repeated \in BOOLEAN :
       SpiTransfer(length, bits, repeated)

----------------------------------------------------------------------------
(* Properties. *)

\* The controller's state and the driver's are of the types the code declares.
SpiTypeOK ==
  /\ spi.initialized \in BOOLEAN
  /\ spi.wiring \in Wirings \cup {NoWiring}
  /\ spi.device \in {0} \cup Slots
  /\ spi.initialized => spi.settings \in Settings
  /\ spiBus.wiring \in Wirings \cup {NoWiring}
  /\ spiRefused \subseteq Slots
  /\ spiWire.asked \in {0} \cup SpiLengths /\ spiWire.width \in {1, 2}

\* The bus is taken while and only while the controller is initialised, on the
\* pins that are configured; the device the controller holds has the clock and
\* mode that were last set with success, whatever failed on the way; and any
\* other device on the bus is one the driver refused to remove
\* (bmx_esp32_spi_reconfigure and the two functions that undo it).
DeviceMatches ==
  /\ spi.initialized <=> spiBus.wiring # NoWiring
  /\ spi.initialized => spiBus.wiring = spi.wiring
  /\ spi.device # 0 =>
       /\ spi.initialized
       /\ spiBus.devices[spi.device] = Clocking(spi.settings)
  /\ \A d \in Slots :
       spiBus.devices[d] # FreeSlot => d = spi.device \/ d \in spiRefused

\* A transfer moves each byte once and in order, and none beyond those asked
\* for; it reports success exactly when it has moved them all; and no chunk ends
\* in the middle of a word (the loops of bmx_esp32_spi_transfer and of the
\* functions that read).
TransfersWhole ==
  LET chunks == spiWire.chunks
      bytes == spiWire.asked * spiWire.width
      End(i) == IF i = 0 THEN 0 ELSE chunks[i].from + chunks[i].size
  IN /\ \A i \in DOMAIN chunks :
          /\ chunks[i].from = End(i - 1)
          /\ chunks[i].size \in 1 .. SpiChunk
          /\ chunks[i].size % spiWire.width = 0
     /\ End(Len(chunks)) <= bytes
     /\ spiWire.result \in {-1, spiWire.asked}
     /\ spiWire.result >= 0 <=> End(Len(chunks)) = bytes
=============================================================================
