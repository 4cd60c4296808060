------------------------------ MODULE MCUartAsync ------------------------------
(* Instance of UartAsync for TLC. *)
EXTENDS UartAsync

\* Three bytes one way and one or none the other: enough to fill and to overflow
\* a ring of two, and to refill one that was read empty.
MCLoads == {<<3, 1>>, <<0, 3>>}
=============================================================================
