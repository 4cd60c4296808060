--------------------------- MODULE MCDeferredEvents ---------------------------
(***************************************************************************)
(* Instances of DeferredEvents for TLC: a ring of two slots whose counters *)
(* wrap after four posts, so that every behaviour wraps them, two posters, *)
(* two network tasks and a network ring of two.                            *)
(***************************************************************************)
EXTENDS DeferredEvents
=============================================================================
