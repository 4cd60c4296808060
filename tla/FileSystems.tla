------------------------------ MODULE FileSystems ------------------------------
(***************************************************************************)
(* storage.mod: the native mounts of LittleFS and of the SD card, and the  *)
(* routing of plain paths to a default volume in filesystem.bmx, which     *)
(* keeps its own idea of what is mounted.                                  *)
(*                                                                         *)
(* One task mounts, unmounts and formats, so that each call is a step; any *)
(* call of ESP-IDF may fail, a format also half way, and the chip may      *)
(* restart.  A medium is blank, has a file system of the volume's kind     *)
(* ("files"), or something else ("foreign").                               *)
(***************************************************************************)
EXTENDS Naturals

VARIABLES
  fsMounted, \* by volume, bmx_fs_mounted
  fsVfs,     \* external: by volume, whether the VFS has it
  fsMedium,  \* external: by volume, what the medium has
  fsShown,   \* _esp32LittleFSMounted and _esp32SDMounted
  fsDefault, \* the default backend, or "none"
  fsChosen,  \* _esp32StorageDefaultExplicit
  fsErased   \* volumes that lost what was there without being asked to

fsVars == <<fsMounted, fsVfs, fsMedium, fsShown, fsDefault, fsChosen, fsErased>>

Volumes == {"littlefs", "sd"}
Media == {"blank", "files", "foreign"}

----------------------------------------------------------------------------
(* _ESP32StorageMountChanged *)

\* Fault: the choice of a volume outlives its mount.
Fault_StillChosen(volume, mounted) == fsChosen

StillChosen(volume, mounted) == fsChosen /\ (mounted \/ fsDefault # volume)

MountChanged(volume, mounted) ==
  /\ fsShown' = [fsShown EXCEPT ![volume] = mounted]
  /\ fsChosen' = StillChosen(volume, mounted)
  /\ fsDefault' = IF fsChosen' THEN fsDefault
                  ELSE IF fsShown'["littlefs"] THEN "littlefs"
                  ELSE IF fsShown'["sd"] THEN "sd" ELSE "none"

\* The native state of the volume after a call that had this result.
Mounting(volume, ok) ==
  /\ fsMounted' = [fsMounted EXCEPT ![volume] = ok]
  /\ fsVfs' = [fsVfs EXCEPT ![volume] = ok]
  /\ MountChanged(volume, ok)

----------------------------------------------------------------------------
(* Mounting. *)

\* Fault: whatever cannot be mounted is formatted.
Fault_MayFormat(volume, asked) == asked

\* LittleFS formats only what bmx_littlefs_blank finds blank; a card, anything.
MayFormat(volume, asked) ==
  asked /\ (volume = "littlefs" => fsMedium[volume] = "blank")

MountedAlready(volume) ==
  /\ fsMounted[volume]
  /\ MountChanged(volume, TRUE)
  /\ UNCHANGED <<fsMounted, fsVfs, fsMedium, fsErased>>

MountFiles(volume) ==
  /\ ~fsMounted[volume] /\ fsMedium[volume] = "files"
  /\ Mounting(volume, TRUE)
  /\ UNCHANGED <<fsMedium, fsErased>>

\* format_if_mount_failed.  What is not blank is lost, for a card with consent.
MountFormats(volume, asked) ==
  /\ ~fsMounted[volume] /\ fsMedium[volume] # "files"
  /\ MayFormat(volume, asked)
  /\ Mounting(volume, TRUE)
  /\ fsMedium' = [fsMedium EXCEPT ![volume] = "files"]
  /\ fsErased' = IF volume = "littlefs" /\ fsMedium[volume] = "foreign"
                 THEN fsErased \cup {volume} ELSE fsErased

\* Nothing mounted; the format did not come, or not to its end.
MountFails(volume, asked) ==
  /\ ~fsMounted[volume]
  /\ MountChanged(volume, FALSE)
  /\ \/ UNCHANGED fsMedium
     \/ /\ fsMedium[volume] # "files" /\ MayFormat(volume, asked)
        /\ fsMedium' = [fsMedium EXCEPT ![volume] = "foreign"]
  /\ UNCHANGED <<fsMounted, fsVfs, fsErased>>

----------------------------------------------------------------------------
(* Unmounting: a call that fails changes nothing. *)

Unmount(volume) ==
  /\ Mounting(volume, FALSE)
  /\ UNCHANGED <<fsMedium, fsErased>>

----------------------------------------------------------------------------
(* bmx_esp32_littlefs_format, bmx_esp32_sdcard_format. *)

Formatted(volume, as) == fsMedium' = [fsMedium EXCEPT ![volume] = as]

\* Fault: the facade is told nothing of a format that failed.
Fault_FormatFails ==
  /\ \E as \in {"foreign", fsMedium["littlefs"]} : Formatted("littlefs", as)
  /\ fsMounted' = [fsMounted EXCEPT !["littlefs"] = FALSE]
  /\ fsVfs' = [fsVfs EXCEPT !["littlefs"] = FALSE]
  /\ UNCHANGED <<fsShown, fsDefault, fsChosen, fsErased>>

\* After the unmount, which has succeeded: format fails, half way or before, or
\* the mount that follows does.
FormatFails ==
  /\ \E as \in {"files", "foreign", fsMedium["littlefs"]} : Formatted("littlefs", as)
  /\ Mounting("littlefs", FALSE)
  /\ UNCHANGED fsErased

FormatLittleFs ==
  /\ Formatted("littlefs", "files")
  /\ Mounting("littlefs", TRUE)
  /\ UNCHANGED fsErased

\* The unmount before it fails: the volume stays, and the facade drops it.
FormatUnmountFails ==
  /\ fsMounted["littlefs"]
  /\ MountChanged("littlefs", FALSE)
  /\ UNCHANGED <<fsMounted, fsVfs, fsMedium, fsErased>>

\* In place, and only while mounted.
FormatCard ==
  /\ fsMounted["sd"]
  /\ \E as \in {"files", "foreign"} : Formatted("sd", as)
  /\ UNCHANGED <<fsMounted, fsVfs, fsShown, fsDefault, fsChosen, fsErased>>

----------------------------------------------------------------------------
\* SetDefaultStorageVolume
SetDefaultVolume(volume) ==
  /\ fsShown[volume]
  /\ fsDefault' = volume
  /\ fsChosen' = TRUE
  /\ UNCHANGED <<fsMounted, fsVfs, fsMedium, fsShown, fsErased>>

NoVolume == [volume \in Volumes |-> FALSE]

\* A restart, in a format too; external: another card, or a partition erased or
\* written by other means.
FsRestart ==
  /\ fsMounted' = NoVolume /\ fsVfs' = NoVolume /\ fsShown' = NoVolume
  /\ fsDefault' = "none" /\ fsChosen' = FALSE
  /\ \E volume \in Volumes, as \in Media : Formatted(volume, as)
  /\ UNCHANGED fsErased

FsInit ==
  /\ fsMounted = NoVolume /\ fsVfs = NoVolume /\ fsShown = NoVolume
  /\ fsMedium \in [Volumes -> Media]
  /\ fsDefault = "none" /\ fsChosen = FALSE
  /\ fsErased = {}

FsNext ==
  \/ \E volume \in Volumes :
       MountedAlready(volume) \/ MountFiles(volume) \/ Unmount(volume)
  \/ \E volume \in Volumes, asked \in BOOLEAN :
       MountFormats(volume, asked) \/ MountFails(volume, asked)
  \/ FormatLittleFs \/ FormatFails \/ FormatUnmountFails \/ FormatCard
  \/ \E volume \in Volumes : SetDefaultVolume(volume)
  \/ FsRestart

----------------------------------------------------------------------------
(* Properties. *)

\* The state is of the types the code declares.
FsTypeOK ==
  /\ fsMounted \in [Volumes -> BOOLEAN] /\ fsVfs \in [Volumes -> BOOLEAN]
  /\ fsShown \in [Volumes -> BOOLEAN] /\ fsMedium \in [Volumes -> Media]
  /\ fsDefault \in Volumes \cup {"none"} /\ fsChosen \in BOOLEAN

\* Plain paths go to a volume that is mounted, through every mount, unmount and
\* format that succeeded or failed, as long as the facade shows one at all; and
\* what the program chose stays while it is mounted (MountChanged).
DefaultMounted ==
  /\ fsMounted = fsVfs
  /\ \A volume \in Volumes : fsShown[volume] => fsMounted[volume]
  /\ IF fsDefault = "none" THEN fsShown = NoVolume /\ ~fsChosen
     ELSE fsShown[fsDefault]

\* No mount of LittleFS erases what it does not know: "nonblank unrecognised
\* data is preserved" (littlefs.bmx).
NeverFormatsData == fsErased = {}
=============================================================================
