-------------------------------- MODULE Platform --------------------------------
(***************************************************************************)
(* What the program takes from the platform: the managed context, the      *)
(* Ethernet link, the calendar with its alarm, updates of the firmware and *)
(* the file systems.  They share no state in this code, and what one does  *)
(* neither enables nor disables another: a program that uses one of them   *)
(* shows all that any of them does.                                        *)
(***************************************************************************)
EXTENDS EthernetLink, CalendarAlarm, ManagedContext, OtaUpdate, FileSystems

VARIABLE used  \* the part the program uses

vars == <<used, ethVars, calVars, ctxVars, otaVars, fsVars>>

Parts == {"ethernet", "calendar", "context", "ota", "files"}

Init ==
  /\ used \in Parts
  /\ EthInit /\ CalendarInit /\ ContextInit /\ OtaInit /\ FsInit
  /\ used # "calendar" => calCore = 0
  /\ used # "files" => \A volume \in Volumes : fsMedium[volume] = "blank"

Next ==
  \/ /\ used = "ethernet" /\ EthNext
     /\ UNCHANGED <<used, calVars, ctxVars, otaVars, fsVars>>
  \/ /\ used = "calendar" /\ CalendarNext
     /\ UNCHANGED <<used, ethVars, ctxVars, otaVars, fsVars>>
  \/ /\ used = "context" /\ ContextNext
     /\ UNCHANGED <<used, ethVars, calVars, otaVars, fsVars>>
  \/ /\ used = "ota" /\ OtaNext
     /\ UNCHANGED <<used, ethVars, calVars, ctxVars, fsVars>>
  \/ /\ used = "files" /\ FsNext
     /\ UNCHANGED <<used, ethVars, calVars, ctxVars, otaVars>>

Spec == Init /\ [][Next]_vars

----------------------------------------------------------------------------
(* Properties. *)

\* Each part's state is of the types its code declares.
TypeOK ==
  /\ used \in Parts
  /\ EthTypeOK /\ CalendarTypeOK /\ ContextTypeOK /\ OtaTypeOK /\ FsTypeOK

\* What happened is what the program is told, and when it is told to sleep it
\* wakes for it: the link's status, the date, the alarm.
EventsTold == LinkTold /\ DateShown /\ AlarmTold /\ SleepCovered

\* What the flash holds survives: an image that boots, the sizes an update was
\* given, files that nobody asked to erase; and paths lead to them.
KeptWhole == AlwaysBoots /\ SizesKept /\ NeverFormatsData /\ DefaultMounted

\* What is used is there: the driver under its callback, the owner behind the
\* arena and the worker, the worker that is bound; and it goes when it should.
LifetimesRespected == EthReleased /\ ContextKept /\ WorkerKept
=============================================================================
