----------------------------- MODULE TrackerMC -----------------------------
(***************************************************************************)
(* Instances of Tracker for TLC.  seat is a probed tensor-parallel seat on *)
(* two nodes, ext an unprobed nodeless external that shares its listing    *)
(* base.                                                                   *)
(***************************************************************************)
EXTENDS Tracker

CONSTANTS n1, n2, seat, ext

MCModelNodes == [m \in Models |-> IF m = seat THEN {n1, n2} ELSE {}]
MCHead == [m \in Models |-> n1]
MCBases == {Registered}
=============================================================================
