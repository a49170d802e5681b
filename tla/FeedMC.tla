------------------------------- MODULE FeedMC -------------------------------
(***************************************************************************)
(* An instance of Feed for TLC: two requests, a ring of two events and a   *)
(* channel of two, so that both overflow within the bound on events.       *)
(***************************************************************************)
EXTENDS Feed

CONSTANTS a, b
=============================================================================
