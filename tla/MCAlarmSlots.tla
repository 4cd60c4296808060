----------------------------- MODULE MCAlarmSlots -----------------------------
(* Instance of AlarmSlots for TLC. *)
EXTENDS AlarmSlots
=============================================================================
