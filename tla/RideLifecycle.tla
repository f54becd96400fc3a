--------------------------- MODULE RideLifecycle ---------------------------
(***************************************************************************)
(* The life of one ride once createRide has committed it: the `rides' row, *)
(* its `ride_driver_candidates' rows and its `ride_status_history' rows,   *)
(* shared by the HTTP handlers of RidesManagementService and               *)
(* RidesTrackingService.                                                   *)
(*                                                                         *)
(* No handler runs in a transaction (only claimDriver opens one), so every *)
(* database access is an action of its own and any two handlers may        *)
(* interleave between accesses.  A handler works on the entity it last     *)
(* read: `row' below is that entity, and writing it back overwrites the    *)
(* columns it carries whatever happened to them in between.                *)
(*                                                                         *)
(* A guard that makes a handler throw or return before it changed anything *)
(* ends the request; from the outside that is a stuttering step, so the    *)
(* actions below carry the opposite guard.                                 *)
(***************************************************************************)
EXTENDS Naturals, Sequences, FiniteSets

CONSTANTS
  Drivers,      \* the drivers invited when the ride was created
  NoDriver,     \* driver_id IS NULL
  Requests,     \* handler executions that can be in flight at the same time
  Overlapping,  \* the operations the callers may run at the same time
  MaxFailures,  \* bound: handlers that die between two database accesses
  MaxHistory    \* bound: no request arrives once the history is this long

Operations ==
  {"cancel", "accept", "reject", "confirm", "riderReject", "start", "complete"}

\* The operations that never take the driver from the ride.
KeepDriver == {"accept", "confirm", "start", "complete"}

ASSUME ConstantsAssumption ==
  /\ NoDriver \notin Drivers
  /\ Overlapping \subseteq Operations
  /\ MaxFailures \in Nat
  /\ MaxHistory \in Nat

VARIABLES
  ride,        \* the row of `rides': status, driver, final fare
  candidates,  \* the row of `ride_driver_candidates' of each driver
  history,     \* the rows of `ride_status_history', in insertion order
  req,         \* the handler executions in flight
  failures     \* handlers that died so far

vars == <<ride, candidates, history, req, failures>>

(***************************************************************************)
(* Data.  A final fare is not set, the '0.00' of a cancelled ride, or the  *)
(* amount that completing the ride computed.                               *)
(***************************************************************************)
RideStatus ==
  {"requested", "candidates_computed", "assigned", "accepted", "enroute",
   "trip_started", "completed", "canceled"}

CandidateStatus == {"invited", "accepted", "declined", "confirmed", "canceled"}

\* The statuses no handler means to leave.
Terminal == {"completed", "canceled"}

Fare == {"unset", "zero", "due"}

Ride ==
  [status : RideStatus, driver : Drivers \cup {NoDriver}, fare : Fare]

(***************************************************************************)
(* The calls of transitionRideStatus, by the stage of the handler that     *)
(* makes them, with the statuses each allows and the one it sets.          *)
(***************************************************************************)
Transitions ==
  {"assign", "accept", "cancel", "revert", "confirm", "start", "complete"}

\* The calls of updateRide made outside transitionRideStatus.
Updates == {"zeroFare", "release", "settle"}

AllowedStatuses ==
  [assign   |-> {"requested", "candidates_computed"},
   accept   |-> {"assigned", "candidates_computed"},
   cancel   |-> {"requested", "candidates_computed", "assigned", "accepted",
                 "enroute"},
   revert   |-> {"accepted", "assigned"},
   confirm  |-> {"accepted"},
   start    |-> {"enroute", "trip_started"},
   complete |-> {"enroute", "accepted", "assigned", "trip_started"}]

NextStatus ==
  [assign   |-> "assigned",
   accept   |-> "accepted",
   cancel   |-> "canceled",
   revert   |-> "candidates_computed",
   confirm  |-> "enroute",
   start    |-> "trip_started",
   complete |-> "completed"]

PC ==
  {"idle", "candidate", "supersede", "claim", "save", "read", "merge",
   "write", "reload", "history", "list", "each"}

Request ==
  [op     : Operations,
   pc     : PC,
   stage  : Transitions \cup Updates,
   driver : Drivers \cup {NoDriver},
   row    : Ride,
   from   : RideStatus,
   todo   : SUBSET Drivers]

\* What createRideWithDetails commits.
InitialRide ==
  [status |-> "candidates_computed", driver |-> NoDriver, fare |-> "unset"]

InitialHistory ==
  << [from |-> "null", to |-> "requested"],
     [from |-> "requested", to |-> "candidates_computed"] >>

\* A slot in which no handler runs.
Idle ==
  [op |-> "cancel", pc |-> "idle", stage |-> "cancel", driver |-> NoDriver,
   row |-> InitialRide, from |-> "requested", todo |-> {}]

Init ==
  /\ ride = InitialRide
  /\ candidates = [d \in Drivers |-> "invited"]
  /\ history = InitialHistory
  /\ req = [r \in Requests |-> Idle]
  /\ failures = 0

InFlight == {r \in Requests : req[r].pc # "idle"}

AtRest == InFlight = {}

(***************************************************************************)
(* A request arrives.  Requests of operations outside Overlapping are      *)
(* handled one at a time.                                                  *)
(***************************************************************************)
Begin(r, op, d, pc, stage) ==
  /\ req[r].pc = "idle"
  /\ \A q \in Requests :
       req[q].pc # "idle" => {op, req[q].op} \subseteq Overlapping
  /\ Len(history) < MaxHistory
  /\ req' = [req EXCEPT ![r] =
               [Idle EXCEPT !.op = op, !.pc = pc, !.stage = stage,
                            !.driver = d, !.row = ride]]
  /\ UNCHANGED <<ride, candidates, history, failures>>

CancelRide(r) ==
  /\ ride.status \notin {"completed", "canceled"}
  /\ Begin(r, "cancel", NoDriver, "read", "cancel")

AcceptRideByDriver(r, d) ==
  /\ ride.status \notin {"canceled", "completed"}
  /\ Begin(r, "accept", d, "candidate", "assign")

RejectRideByDriver(r, d) ==
  /\ ride.status \notin {"canceled", "completed", "enroute"}
  /\ Begin(r, "reject", d, "candidate", "release")

\* Mutant: the rider confirms although no driver is assigned.
ConfirmUnassigned(r) ==
  /\ ride.status \notin
       {"canceled", "completed", "assigned", "requested", "enroute"}
  /\ Begin(r, "confirm", ride.driver, "candidate", "confirm")

ConfirmDriverAcceptance(r) ==
  /\ ride.driver # NoDriver
  /\ ride.status \notin
       {"canceled", "completed", "assigned", "requested", "enroute"}
  /\ Begin(r, "confirm", ride.driver, "candidate", "confirm")

RejectDriverAcceptance(r) ==
  /\ ride.driver # NoDriver
  /\ ride.status \notin
       {"canceled", "completed", "enroute", "assigned", "requested"}
  /\ Begin(r, "riderReject", ride.driver, "candidate", "release")

\* The driver calls, and the locations pass the proximity checks.
StartRide(r) ==
  /\ ride.driver # NoDriver
  /\ ride.status \in {"enroute", "trip_started"}
  /\ Begin(r, "start", ride.driver, "read", "start")

\* The driver calls, and the locations pass the proximity checks.
CompleteRide(r) ==
  /\ ride.driver # NoDriver
  /\ ride.status \notin {"canceled", "completed"}
  /\ Begin(r, "complete", ride.driver, "read", "complete")

(***************************************************************************)
(* The candidate of the driver: findByRideAndDriver and the guards on it.  *)
(***************************************************************************)
Finish(r) == req' = [req EXCEPT ![r] = Idle]

Goto(r, pc) == req' = [req EXCEPT ![r].pc = pc]

\* Mutant: the candidate is saved as accepted without claimDriver.
AcceptUnclaimed(r) ==
  LET row == req[r].row IN
  /\ req[r].pc = "candidate" /\ req[r].op = "accept"
  /\ IF candidates[req[r].driver] \in {"canceled", "declined", "confirmed"}
       THEN Finish(r)
       ELSE Goto(r, IF row.driver \in {NoDriver, req[r].driver} THEN "save"
                    ELSE "supersede")
  /\ UNCHANGED <<ride, candidates, history, failures>>

AcceptCandidate(r) ==
  LET d == req[r].driver
      row == req[r].row
      again == /\ candidates[d] = "accepted"
               /\ row.driver = d
               /\ row.status \in {"accepted", "enroute"}
  IN /\ req[r].pc = "candidate" /\ req[r].op = "accept"
     /\ \/ /\ \/ candidates[d] \in {"canceled", "declined", "confirmed"}
              \/ again
           /\ Finish(r)
        \/ /\ candidates[d] \in {"invited", "accepted"}
           /\ ~again
           /\ Goto(r, IF row.driver = NoDriver THEN "claim"
                      ELSE IF row.driver = d THEN "save" ELSE "supersede")
     /\ UNCHANGED <<ride, candidates, history, failures>>

RejectCandidate(r) ==
  /\ req[r].pc = "candidate" /\ req[r].op = "reject"
  /\ IF candidates[req[r].driver] \in {"declined", "canceled"}
       THEN Finish(r)
       ELSE Goto(r, "save")
  /\ UNCHANGED <<ride, candidates, history, failures>>

ConfirmCandidate(r) ==
  /\ req[r].pc = "candidate" /\ req[r].op = "confirm"
  /\ IF candidates[req[r].driver] # "accepted"
       THEN Finish(r)
       ELSE Goto(r, "read")
  /\ UNCHANGED <<ride, candidates, history, failures>>

RiderRejectCandidate(r) ==
  /\ req[r].pc = "candidate" /\ req[r].op = "riderReject"
  /\ Goto(r, "save")
  /\ UNCHANGED <<ride, candidates, history, failures>>

\* Another driver holds the ride: markCandidateSuperseded, then Conflict.
MarkCandidateSuperseded(r) ==
  /\ req[r].pc = "supersede"
  /\ candidates' = [candidates EXCEPT ![req[r].driver] = "canceled"]
  /\ Finish(r)
  /\ UNCHANGED <<ride, history, failures>>

(***************************************************************************)
(* claimDriver: SELECT ... FOR UPDATE and UPDATE in one transaction.  It   *)
(* throws when driver_id is set, which ends the request.                   *)
(***************************************************************************)
\* Mutant: claimDriver trusts the driver_id that was read before the lock.
ClaimUnchecked(r) ==
  /\ req[r].pc = "claim"
  /\ ride' = [ride EXCEPT !.driver = req[r].driver]
  /\ Goto(r, "save")
  /\ UNCHANGED <<candidates, history, failures>>

ClaimDriver(r) ==
  /\ req[r].pc = "claim"
  /\ \/ /\ ride.driver = NoDriver
        /\ ride' = [ride EXCEPT !.driver = req[r].driver]
        /\ Goto(r, "save")
     \/ /\ ride.driver # NoDriver
        /\ Finish(r)
        /\ UNCHANGED ride
  /\ UNCHANGED <<candidates, history, failures>>

\* Mutant: a driver whom the rider rejects is invited again.
InvitedAgain == [accept |-> "accepted", reject |-> "declined",
                 riderReject |-> "invited"]

\* The answer of the driver, or the rider's rejection, saved in the candidate.
AnswerOf == [accept |-> "accepted", reject |-> "declined",
             riderReject |-> "canceled"]

SaveCandidate(r) ==
  LET q == req[r] IN
  /\ q.pc = "save"
  /\ q.op \in {"accept", "reject", "riderReject"}
  /\ candidates' = [candidates EXCEPT ![q.driver] = AnswerOf[q.op]]
  /\ IF q.op = "accept"
       THEN Goto(r, "read")
       ELSE IF q.op = "riderReject" \/ q.row.driver = q.driver
         THEN req' = [req EXCEPT ![r].row.driver = NoDriver,
                                 ![r].pc = "merge"]
         ELSE Finish(r)
  /\ UNCHANGED <<ride, history, failures>>

(***************************************************************************)
(* Where a handler goes once a transition or an update of its ended, with  *)
(* `row' the entity that it returned.  Whether the transition changed the  *)
(* ride is not looked at.                                                  *)
(***************************************************************************)
\* Mutant: accepting stops after the transition to assigned.
StopAtAssigned(q, row) ==
  CASE q.stage = "release" -> [q EXCEPT !.stage = "revert", !.pc = "read"]
    [] q.stage = "cancel" ->
         [q EXCEPT !.stage = "zeroFare", !.pc = "merge",
                   !.row = [row EXCEPT !.fare = "zero"]]
    [] q.stage = "complete" ->
         [q EXCEPT !.stage = "settle", !.pc = "merge",
                   !.row = [row EXCEPT !.fare = "due"]]
    [] q.stage \in {"zeroFare", "confirm"} -> [q EXCEPT !.pc = "list"]
    [] OTHER -> Idle

Continue(q, row) ==
  CASE q.stage = "assign" -> [q EXCEPT !.stage = "accept", !.pc = "read"]
    [] q.stage = "release" -> [q EXCEPT !.stage = "revert", !.pc = "read"]
    [] q.stage = "cancel" ->
         [q EXCEPT !.stage = "zeroFare", !.pc = "merge",
                   !.row = [row EXCEPT !.fare = "zero"]]
    [] q.stage = "complete" ->
         [q EXCEPT !.stage = "settle", !.pc = "merge",
                   !.row = [row EXCEPT !.fare = "due"]]
    [] q.stage \in {"zeroFare", "confirm"} -> [q EXCEPT !.pc = "list"]
    [] q.stage \in {"accept", "revert", "start", "settle"} -> Idle

\* transitionRideStatus up to its call of updateRide.
TransitionRideStatus(r) ==
  LET stage == req[r].stage IN
  /\ req[r].pc = "read"
  /\ stage \in Transitions
  /\ IF ride.status \in AllowedStatuses[stage] \ {NextStatus[stage]}
       THEN req' = [req EXCEPT ![r].row =
                                 [ride EXCEPT !.status = NextStatus[stage]],
                               ![r].from = ride.status,
                               ![r].pc = "merge"]
       ELSE req' = [req EXCEPT ![r] = Continue(@, ride)]
  /\ UNCHANGED <<ride, candidates, history, failures>>

(***************************************************************************)
(* updateRide: read the row, merge the entity into it, write every column, *)
(* read the row again.  mapRideRow gives a NULL driver as null, which the  *)
(* merge keeps, and a NULL fare as undefined, which it skips.              *)
(***************************************************************************)
\* Mutant: the merge leaves out the final fare.
MergeWithoutFare(current, changes) == [changes EXCEPT !.fare = current.fare]

MergeRideData(current, changes) ==
  [changes EXCEPT !.fare = IF @ = "unset" THEN current.fare ELSE @]

UpdateRideMerge(r) ==
  /\ req[r].pc = "merge"
  /\ req' = [req EXCEPT ![r].row = MergeRideData(ride, @), ![r].pc = "write"]
  /\ UNCHANGED <<ride, candidates, history, failures>>

UpdateRideWrite(r) ==
  /\ req[r].pc = "write"
  /\ ride' = req[r].row
  /\ Goto(r, "reload")
  /\ UNCHANGED <<candidates, history, failures>>

UpdateRideReload(r) ==
  /\ req[r].pc = "reload"
  /\ IF req[r].stage \in Transitions
       THEN req' = [req EXCEPT ![r].row = ride, ![r].pc = "history"]
       ELSE req' = [req EXCEPT ![r] = Continue(@, ride)]
  /\ UNCHANGED <<ride, candidates, history, failures>>

\* Mutant: `from' is taken from the entity after it was updated.
RecordFromUpdated(r) ==
  /\ req[r].pc = "history"
  /\ req[r].stage \in Transitions
  /\ history' = Append(history, [from |-> req[r].row.status,
                                 to |-> NextStatus[req[r].stage]])
  /\ req' = [req EXCEPT ![r] = Continue(@, @.row)]
  /\ UNCHANGED <<ride, candidates, failures>>

RecordStatusChange(r) ==
  /\ req[r].pc = "history"
  /\ req[r].stage \in Transitions
  /\ history' = Append(history, [from |-> req[r].from,
                                 to |-> NextStatus[req[r].stage]])
  /\ req' = [req EXCEPT ![r] = Continue(@, @.row)]
  /\ UNCHANGED <<ride, candidates, failures>>

(***************************************************************************)
(* findByRideId and saveMany at the end of cancelRide and                  *)
(* confirmDriverAcceptance.  The candidates were inserted by one           *)
(* transaction and are ordered by created_at only: any order is possible.  *)
(***************************************************************************)
\* Mutant: confirming a driver leaves the other invitations open.
UpdateDriverOnly(q) ==
  IF q.op = "cancel" THEN {d \in Drivers : candidates[d] # "canceled"}
                     ELSE {q.driver}

ToUpdate(q) ==
  IF q.op = "cancel"
    THEN {d \in Drivers : candidates[d] # "canceled"}
    ELSE {d \in Drivers : d = q.driver
                          \/ candidates[d] \in {"invited", "accepted"}}

ListCandidates(r) ==
  /\ req[r].pc = "list"
  /\ IF ToUpdate(req[r]) = {}
       THEN Finish(r)
       ELSE req' = [req EXCEPT ![r].todo = ToUpdate(req[r]), ![r].pc = "each"]
  /\ UNCHANGED <<ride, candidates, history, failures>>

SaveMany(r) ==
  LET q == req[r] IN
  /\ q.pc = "each"
  /\ \E d \in q.todo :
       /\ candidates' = [candidates EXCEPT ![d] =
            IF q.op = "confirm" /\ d = q.driver THEN "confirmed"
                                                ELSE "canceled"]
       /\ IF q.todo = {d}
            THEN Finish(r)
            ELSE req' = [req EXCEPT ![r].todo = @ \ {d}]
  /\ UNCHANGED <<ride, history, failures>>

\* A database access fails, or the process dies: the rest is not done.
Fail(r) ==
  /\ req[r].pc # "idle"
  /\ failures < MaxFailures
  /\ failures' = failures + 1
  /\ Finish(r)
  /\ UNCHANGED <<ride, candidates, history>>

Arrive(r) ==
  \/ CancelRide(r)
  \/ \E d \in Drivers : AcceptRideByDriver(r, d)
  \/ \E d \in Drivers : RejectRideByDriver(r, d)
  \/ ConfirmDriverAcceptance(r)
  \/ RejectDriverAcceptance(r)
  \/ StartRide(r)
  \/ CompleteRide(r)

\* The next database access of a handler in flight.
Step(r) ==
  \/ AcceptCandidate(r)
  \/ RejectCandidate(r)
  \/ ConfirmCandidate(r)
  \/ RiderRejectCandidate(r)
  \/ MarkCandidateSuperseded(r)
  \/ ClaimDriver(r)
  \/ SaveCandidate(r)
  \/ TransitionRideStatus(r)
  \/ UpdateRideMerge(r)
  \/ UpdateRideWrite(r)
  \/ UpdateRideReload(r)
  \/ RecordStatusChange(r)
  \/ ListCandidates(r)
  \/ SaveMany(r)

Next == \E r \in Requests : Arrive(r) \/ Step(r) \/ Fail(r)

Spec == Init /\ [][Next]_vars

\* A handler that was started runs to its end; callers promise nothing.
FairSpec == Spec /\ \A r \in Requests : WF_vars(Step(r))

-----------------------------------------------------------------------------
(***************************************************************************)
(* Properties.                                                             *)
(***************************************************************************)

\* The variables keep their types, and a handler that saves or claims for a
\* driver has one.
TypeOK ==
  /\ ride \in Ride
  /\ candidates \in [Drivers -> CandidateStatus]
  /\ history \in Seq([from : RideStatus \cup {"null"}, to : RideStatus])
  /\ req \in [Requests -> Request]
  /\ failures \in 0 .. MaxFailures
  /\ \A r \in Requests :
       req[r].pc \in {"candidate", "supersede", "claim", "save"} =>
         req[r].driver \in Drivers

\* Only the driver in driver_id can have an accepted or a confirmed
\* candidate row: claimDriver comes before the candidate is saved as
\* accepted, and a rejection changes the candidate before it clears
\* driver_id.  So at no moment, and after no failure, do two drivers both
\* believe that they have the ride.
HolderHasRide ==
  \A d \in Drivers :
    candidates[d] \in {"accepted", "confirmed"} => ride.driver = d

\* A ride is never handed from one driver to another in one step: it is
\* released first.  claimDriver locks the row, and every stale entity that
\* updateRide writes back names the driver the row still has.
NoHandover ==
  [][ ride'.driver # ride.driver => NoDriver \in {ride.driver, ride'.driver} ]_vars

\* Once every handler has ended, and none failed, the ride and the answers of
\* its drivers tell the same story: an unassigned ride has no driver and no
\* accepted candidate, an accepted one the candidate of its driver, a ride
\* under way a confirmed driver and nobody else still invited, and nobody
\* can answer the invitation of a cancelled ride.
HandshakeAgrees ==
  AtRest /\ failures = 0 =>
    /\ ride.status # "assigned"
    /\ ride.status = "candidates_computed" =>
         /\ ride.driver = NoDriver
         /\ \A d \in Drivers : candidates[d] \notin {"accepted", "confirmed"}
    /\ ride.status = "accepted" =>
         /\ ride.driver # NoDriver
         /\ candidates[ride.driver] = "accepted"
    /\ ride.status = "enroute" =>
         /\ ride.driver # NoDriver
         /\ candidates[ride.driver] = "confirmed"
         /\ \A d \in Drivers \ {ride.driver} :
              candidates[d] \in {"declined", "canceled"}
    /\ ride.status = "canceled" =>
         \A d \in Drivers : candidates[d] = "canceled"

\* The history accounts for the ride: once the handlers have ended, and none
\* failed, every row starts in a status that another row led to, and some row
\* leads to the status of the ride.  transitionRideStatus writes the two in
\* separate statements; when a driver's accept is sent twice, the rows can be
\* repeated or swapped, but none is missing.
HistoryIsConnected ==
  AtRest /\ failures = 0 =>
    /\ \E i \in DOMAIN history : history[i].to = ride.status
    /\ \A i \in DOMAIN history :
         \/ history[i].from = "null"
         \/ \E j \in DOMAIN history \ {i} : history[j].to = history[i].from

\* A ride at rest owes the computed fare exactly when it is completed, and a
\* cancelled ride owes nothing; a fare zeroed by a cancellation that came too
\* late is computed again on completion.
FareMatchesOutcome ==
  AtRest /\ failures = 0 =>
    /\ ride.fare = "due" <=> ride.status = "completed"
    /\ ride.status = "canceled" => ride.fare = "zero"

\* A driver whose claim was committed while the ride still shows
\* candidates_computed ends up with an accepted ride, unless a handler died:
\* the two transitions of an acceptance are made even when other drivers
\* lose the race for the claim in between.
ClaimLeadsToAccepted ==
  (ride.driver # NoDriver /\ ride.status = "candidates_computed")
     ~> (ride.status = "accepted" \/ failures > 0)

(***************************************************************************)
(* The abstract specification of the same ride: driver_id is the holder, a *)
(* candidate is open while it is invited, engaged while it is accepted or  *)
(* confirmed and out otherwise, and a terminal status is the outcome.      *)
(***************************************************************************)
StandingOf ==
  [invited |-> "open", accepted |-> "engaged", confirmed |-> "engaged",
   declined |-> "out", canceled |-> "out"]

Ownership == INSTANCE RideOwnership WITH
  holder  <- ride.driver,
  answer  <- [d \in Drivers |-> StandingOf[candidates[d]]],
  outcome <- IF ride.status \in Terminal THEN ride.status ELSE "open"

\* The handlers implement RideOwnership as long as only accepts overlap: every
\* database access either changes nothing for the drivers or is one of its
\* steps.  No driver gets a ride that it lost before, a ride is released only
\* by a driver who is out, and nobody gets a ride that is over.
ImplementsOwnership == Ownership!Spec

(***************************************************************************)
(* What the messages and tests of the repository say, and the code does    *)
(* not keep.                                                               *)
(***************************************************************************)

\* 'Ride already in progress': neither the driver's rejection nor the rider's
\* takes the driver from a ride whose trip has started.
DriverKeptDuringTrip ==
  [][ ride.status = "trip_started" => ride'.driver = ride.driver ]_vars

\* 'Cancelled ride cannot be accepted'.
CanceledRideStaysCanceled ==
  [][ ride.status = "canceled" => ride'.status = "canceled" ]_vars
=============================================================================
