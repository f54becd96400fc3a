--------------------------- MODULE RideOwnership ---------------------------
(***************************************************************************)
(* What the handlers of a ride promise its drivers, without rows, handlers *)
(* or statements: the ride belongs to one driver at a time, a driver who   *)
(* lost it or turned it down is out for good, and the ride ends once.      *)
(* RideLifecycle implements this specification.                            *)
(***************************************************************************)
CONSTANTS
  Drivers,   \* the drivers invited to the ride
  NoDriver   \* nobody has the ride

VARIABLES
  holder,    \* the driver the ride belongs to
  answer,    \* where each driver stands
  outcome    \* how the ride ended, if it did

vars == <<holder, answer, outcome>>

Init ==
  /\ holder = NoDriver
  /\ answer = [d \in Drivers |-> "open"]
  /\ outcome = "open"

\* A driver who is neither engaged nor out takes a ride that nobody has.
Claim(d) ==
  /\ outcome = "open"
  /\ holder = NoDriver
  /\ answer[d] = "open"
  /\ holder' = d
  /\ UNCHANGED <<answer, outcome>>

\* The holder, and nobody else, becomes engaged.
Engage ==
  /\ outcome = "open"
  /\ holder # NoDriver
  /\ answer[holder] = "open"
  /\ answer' = [answer EXCEPT ![holder] = "engaged"]
  /\ UNCHANGED <<holder, outcome>>

\* A driver declines, is turned down, or comes too late.
Withdraw(d) ==
  /\ answer' = [answer EXCEPT ![d] = "out"]
  /\ UNCHANGED <<holder, outcome>>

\* A holder who is out loses the ride.
Release ==
  /\ outcome = "open"
  /\ holder # NoDriver
  /\ answer[holder] = "out"
  /\ holder' = NoDriver
  /\ UNCHANGED <<answer, outcome>>

\* Only a ride that somebody has can be completed.
Complete ==
  /\ outcome = "open"
  /\ holder # NoDriver
  /\ outcome' = "completed"
  /\ UNCHANGED <<holder, answer>>

Cancel ==
  /\ outcome = "open"
  /\ outcome' = "canceled"
  /\ UNCHANGED <<holder, answer>>

Next ==
  \/ \E d \in Drivers : Claim(d) \/ Withdraw(d)
  \/ Engage
  \/ Release
  \/ Complete
  \/ Cancel

Spec == Init /\ [][Next]_vars
=============================================================================
