--------------------------------- MODULE Buses ---------------------------------
(***************************************************************************)
(* The devices on the pins: SPI, the UART, GPIO and its interrupt, RMT,    *)
(* and the watchdog.  They share no state in this code, and what one does  *)
(* neither enables nor disables another: a program that uses one of them   *)
(* shows all that any of them does.                                        *)
(***************************************************************************)
EXTENDS SpiBus, UartPort, GpioPins, RmtChannels, Watchdog

VARIABLE used  \* the device the program uses

vars == <<used, spiVars, uartVars, gpioVars, rmtVars, wdtVars>>

Init ==
  /\ used \in {"spi", "uart", "gpio", "rmt", "watchdog"}
  /\ SpiInit /\ UartPortInit /\ GpioInit /\ RmtInit
  /\ WatchdogInit
  /\ used # "watchdog" => ~wdtHome.running

Next ==
  \/ /\ used = "spi" /\ SpiNext
     /\ UNCHANGED <<used, uartVars, gpioVars, rmtVars, wdtVars>>
  \/ /\ used = "uart" /\ UartPortNext
     /\ UNCHANGED <<used, spiVars, gpioVars, rmtVars, wdtVars>>
  \/ /\ used = "gpio" /\ GpioNext
     /\ UNCHANGED <<used, spiVars, uartVars, rmtVars, wdtVars>>
  \/ /\ used = "rmt" /\ RmtNext
     /\ UNCHANGED <<used, spiVars, uartVars, gpioVars, wdtVars>>
  \/ /\ used = "watchdog" /\ WatchdogNext
     /\ UNCHANGED <<used, spiVars, uartVars, gpioVars, rmtVars>>

Spec == Init /\ [][Next]_vars

----------------------------------------------------------------------------
(* Properties. *)

\* Each device's state is of the types its code declares.
TypeOK ==
  /\ used \in {"spi", "uart", "gpio", "rmt", "watchdog"}
  /\ SpiTypeOK /\ UartPortTypeOK /\ GpioTypeOK /\ RmtTypeOK /\ WatchdogTypeOK

\* What the modules remember is what the driver has, after every sequence of
\* calls and every failure on the way: the SPI bus and its device, the UART's
\* pin, the GPIO pad and its interrupt, the watchdog, and all that RMT was given.
HardwareMatches ==
  DeviceMatches /\ BreakReleased /\ PadRemembered /\ MaskHasHandler
  /\ WatchdogRestored /\ NothingLeaks

\* What an interrupt or the driver reports reaches the program: an RMT capture,
\* a GPIO interrupt, an error on the UART's line.
ReportsKept == CaptureKept /\ InterruptsAnnounced /\ ErrorsKept

\* What is sent is what was asked for, cut into the driver's pieces: SPI
\* transfers and text on the UART.
SentWhole == TransfersWhole /\ LinesTranslated
=============================================================================
