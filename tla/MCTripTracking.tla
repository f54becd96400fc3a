--------------------------- MODULE MCTripTracking ---------------------------
(***************************************************************************)
(* Instances of TripTracking for TLC, by what may overlap.                 *)
(***************************************************************************)
EXTENDS TripTracking

\* Flushes run beside everything; the rest is handled one at a time.
FlushOverlaps == {{"driver", "flush"}, {"rider", "flush"}, {"complete", "flush"}}

\* Everything overlaps, but the driver's phone waits for each answer.
DriverInOrder ==
  {{k, l} : k \in Kinds, l \in Kinds \ {"driver", "complete"}}
=============================================================================
