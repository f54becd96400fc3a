-------------------------- MODULE MCRideLifecycle --------------------------
(***************************************************************************)
(* Instances of RideLifecycle for TLC.  Drivers and requests are           *)
(* interchangeable, so the runs without liveness use their permutations.   *)
(***************************************************************************)
EXTENDS RideLifecycle, TLC

Symmetry == Permutations(Drivers) \cup Permutations(Requests)
=============================================================================
