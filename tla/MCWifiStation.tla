----------------------------- MODULE MCWifiStation -----------------------------
(* Instance of WifiStation for TLC. *)
EXTENDS WifiStation
=============================================================================
