---------------------------- MODULE RideCreation ----------------------------
(***************************************************************************)
(* RidesManagementService.createRide: the check that the rider has no      *)
(* unfinished ride, the route estimate that goes through a queue while the *)
(* drivers nearby are looked up, the transaction that stores the ride, and *)
(* the offers to the drivers.                                              *)
(*                                                                         *)
(* Each await is an action.  The two promises of Promise.all are           *)
(* concurrent: `pc' is the request, `route' its promise of an estimate,    *)
(* which goes on when the request has already failed.  The queue and its   *)
(* events are BullMQ's (external).  The handlers that a stored ride meets  *)
(* are those of RideLifecycle; here each of them reads the row, finds its  *)
(* status allowed and writes the whole row later, which may be too late.   *)
(* The candidate limit only bounds how many drivers are nearby.            *)
(***************************************************************************)
EXTENDS FareEngine, Sequences, FiniteSets

CONSTANTS
  Riders,
  Drivers,
  Nearby,      \* the sets of drivers that can be found nearby
  Requests,    \* calls of createRide, each with its own pickup and dropoff
  Nothing,     \* no rider, no estimate, the drivers are not known yet
  Handlers,    \* handlers of stored rides that can be in flight
  Distances,   \* distances tracked or, without any, estimated: tenths of a metre
  Discounts,   \* discounts that drivers enter, in cents
  Concurrency, \* jobs that the processor runs at a time
  MaxClock,    \* bound: milliseconds at which requests arrive
  MaxCalls,    \* bound: calls of handlers of stored rides
  MaxFaults    \* bound: calls that fail and processes that stop

ASSUME CreationAssumption ==
  /\ Nothing \notin Riders \cup Requests
  /\ Nearby \subseteq SUBSET Drivers
  /\ Distances \subseteq Nat /\ Discounts \subseteq Nat
  /\ Concurrency \in Nat \ {0} /\ MaxClock \in Nat
  /\ MaxCalls \in Nat /\ MaxFaults \in Nat

VARIABLES
  rides,     \* the committed rows of rides with those of the candidates
  request,   \* the requests
  jobs,      \* the ride queue
  handler,   \* the handlers: the ride that was read and the status to write
  calls,     \* calls of handlers so far
  clock,     \* the last value of Date.now()
  faults     \* faults so far

vars == <<rides, request, jobs, handler, calls, clock, faults>>

NoBill == [base |-> 0, discount |-> 0, percent |-> 0, fee |-> 0, final |-> 0]

NoRequest ==
  [pc |-> "idle", route |-> "idle", rider |-> Nothing, stamp |-> 0, seen |-> 0,
   estimate |-> Nothing, drivers |-> Nothing, answer |-> "none"]

NoJob == [state |-> "none", of |-> Nothing]

NoHandler == [ride |-> 0, to |-> "none"]

Init ==
  /\ rides = << >>
  /\ request = [q \in Requests |-> NoRequest]
  /\ jobs = [id \in Riders \X (0 .. MaxClock) |-> NoJob]
  /\ handler = [h \in Handlers |-> NoHandler]
  /\ calls = 0
  /\ clock = 0
  /\ faults = 0

Fault == faults < MaxFaults /\ faults' = faults + 1

Finished(status) == status \in {"completed", "canceled"}

\* findUnfinishedRideByRiderId.  Mutant: only rides that no driver has.
AwaitingDriver(i, r) ==
  rides[i].rider = r /\ rides[i].status = "candidates_computed"

Unfinished(i, r) ==
  rides[i].rider = r /\ ~Finished(rides[i].status)

\* buildRouteEstimationJobId: from the rider and the time.
\* Mutant: from the rider alone.
JobIdOfRider(q) == <<request[q].rider, 0>>

JobId(q) == <<request[q].rider, request[q].stamp>>

\* createRide up to Promise.all, which starts both promises.
CreateRide(q, r, now) ==
  /\ request[q].pc = "idle"
  /\ now \in {clock, clock + 1} /\ now <= MaxClock
  /\ clock' = now
  /\ request' = [request EXCEPT ![q] =
       IF \E i \in DOMAIN rides : Unfinished(i, r)
         THEN [NoRequest EXCEPT !.pc = "done", !.rider = r, !.stamp = now,
                                !.seen = Len(rides), !.answer = "conflict"]
         ELSE [NoRequest EXCEPT !.pc = "both", !.rider = r, !.stamp = now,
                                !.seen = Len(rides), !.route = "remove"]]
  /\ UNCHANGED <<rides, jobs, handler, calls, faults>>

-----------------------------------------------------------------------------
(* requestRouteEstimatesThroughQueue and the queue.                        *)

\* Queue.remove, with its error ignored: a job that runs is locked.
Remove(id) ==
  jobs' = [jobs EXCEPT ![id] = IF @.state = "active" THEN @ ELSE NoJob]

\* The promise of an estimate rejects.  The first rejection ends Promise.all.
Rejected(x, answer) ==
  IF x.pc = "both" THEN [x EXCEPT !.route = "ended", !.pc = "catch", !.answer = answer]
                   ELSE [x EXCEPT !.route = "ended"]

RemoveOldJob(q) ==
  /\ request[q].route = "remove"
  /\ Remove(JobId(q))
  /\ request' = [request EXCEPT ![q].route = "events"]
  /\ UNCHANGED <<rides, handler, calls, clock, faults>>

CreateQueueEvents(q) ==
  /\ request[q].route = "events"
  /\ request' = [request EXCEPT ![q].route = "add"]
  /\ UNCHANGED <<rides, jobs, handler, calls, clock, faults>>

\* The queue keeps a job that has this id already.
AddJob(q) ==
  /\ request[q].route = "add"
  /\ jobs' = [jobs EXCEPT ![JobId(q)] =
                IF @.state \in {"none", "gone"} THEN [state |-> "waiting", of |-> q]
                                                ELSE @]
  /\ request' = [request EXCEPT ![q].route = "listen"]
  /\ UNCHANGED <<rides, handler, calls, clock, faults>>

\* Neither error is a BadRequestException.
QueueFails(q) ==
  /\ request[q].route \in {"events", "add"}
  /\ Fault
  /\ request' = [request EXCEPT ![q] = Rejected(@, "internal")]
  /\ UNCHANGED <<rides, jobs, handler, calls, clock>>

\* waitUntilFinished listens for the job's events and then looks at the job.
\* The events of a job that is gone by now may still come, or have been missed.
Listen(q) ==
  LET job == jobs[JobId(q)] IN
  /\ request[q].route = "listen"
  /\ \/ /\ job.state \in {"waiting", "active"}
        /\ request' = [request EXCEPT ![q].route = "wait"]
     \/ /\ job.state = "gone"
        /\ request' = [request EXCEPT ![q].route = "ended", ![q].estimate = job.of]
     \/ /\ job.state \in {"none", "gone", "failed"}
        /\ request' = [request EXCEPT ![q] = Rejected(@, "badRequest")]
  /\ UNCHANGED <<rides, jobs, handler, calls, clock, faults>>

\* Mutant: waitUntilFinished without the timeout.
NoTimeout(q) == FALSE /\ UNCHANGED vars

Timeout(q) ==
  /\ request[q].route = "wait"
  /\ request' = [request EXCEPT ![q] = Rejected(@, "badRequest")]
  /\ UNCHANGED <<rides, jobs, handler, calls, clock, faults>>

\* RideProcessor takes a job, up to its concurrency.
TakeJob(id) ==
  /\ jobs[id].state = "waiting"
  /\ Cardinality({i \in DOMAIN jobs : jobs[i].state = "active"}) < Concurrency
  /\ jobs' = [jobs EXCEPT ![id].state = "active"]
  /\ UNCHANGED <<rides, request, handler, calls, clock, faults>>

\* fetchRouteEstimates gets a summary.  removeOnComplete drops the job, and
\* whoever listens for its id has the estimate of the job's route.
EstimateRoute(id) ==
  /\ jobs[id].state = "active"
  /\ jobs' = [jobs EXCEPT ![id].state = "gone"]
  /\ request' = [q \in Requests |->
       IF request[q].route = "wait" /\ JobId(q) = id
         THEN [request[q] EXCEPT !.route = "ended", !.estimate = jobs[id].of]
         ELSE request[q]]
  /\ UNCHANGED <<rides, handler, calls, clock, faults>>

\* handleRouteEstimationError: the service does not answer, or not with a
\* summary.  removeOnFail keeps the job.
EstimateFails(id) ==
  /\ jobs[id].state = "active"
  /\ Fault
  /\ jobs' = [jobs EXCEPT ![id].state = "failed"]
  /\ request' = [q \in Requests |->
       IF request[q].route = "wait" /\ JobId(q) = id
         THEN Rejected(request[q], "badRequest") ELSE request[q]]
  /\ UNCHANGED <<rides, handler, calls, clock>>

-----------------------------------------------------------------------------
(* The request.                                                            *)

GetNearbyDrivers(q, drivers) ==
  /\ request[q].pc = "both" /\ request[q].drivers = Nothing
  /\ request' = [request EXCEPT ![q].drivers = drivers]
  /\ UNCHANGED <<rides, jobs, handler, calls, clock, faults>>

NearbyDriversFail(q) ==
  /\ request[q].pc = "both" /\ request[q].drivers = Nothing
  /\ Fault
  /\ request' = [request EXCEPT ![q].pc = "catch", ![q].answer = "internal"]
  /\ UNCHANGED <<rides, jobs, handler, calls, clock>>

\* Promise.all has both results.
BothKnown(q) ==
  request[q].pc = "both" /\ request[q].estimate # Nothing /\ request[q].drivers # Nothing

NoDriverNearby(q) ==
  /\ BothKnown(q) /\ request[q].drivers = {}
  /\ request' = [request EXCEPT ![q].pc = "catch", ![q].answer = "noDriver"]
  /\ UNCHANGED <<rides, jobs, handler, calls, clock, faults>>

\* createRideWithDetails up to the commit: the ride, a candidate for each
\* driver and the two history rows, or nothing.
\* Mutant: the ride is stored before it is known who could drive it.
CreateWithoutDrivers(q) ==
  /\ request[q].pc = "both" /\ request[q].estimate # Nothing
  /\ \A i \in DOMAIN rides : rides[i].of # q
  /\ rides' = Append(rides, [of |-> q, rider |-> request[q].rider,
                             status |-> "candidates_computed",
                             estimate |-> request[q].estimate,
                             candidates |-> {}, offered |-> {}, bill |-> NoBill, revived |-> FALSE])
  /\ UNCHANGED <<request, jobs, handler, calls, clock, faults>>

CreateRideWithDetails(q) ==
  /\ BothKnown(q) /\ request[q].drivers # {}
  /\ rides' = Append(rides, [of |-> q, rider |-> request[q].rider,
                             status |-> "candidates_computed",
                             estimate |-> request[q].estimate,
                             candidates |-> request[q].drivers,
                             offered |-> {}, bill |-> NoBill, revived |-> FALSE])
  /\ request' = [request EXCEPT ![q].pc = "load"]
  /\ UNCHANGED <<jobs, handler, calls, clock, faults>>

CreateFails(q) ==
  /\ BothKnown(q) /\ request[q].drivers # {}
  /\ Fault
  /\ request' = [request EXCEPT ![q].pc = "catch", ![q].answer = "internal"]
  /\ UNCHANGED <<rides, jobs, handler, calls, clock>>

\* findById after the commit.
LoadRide(q) ==
  /\ request[q].pc = "load"
  /\ request' = [request EXCEPT ![q].pc = "offer"]
  /\ UNCHANGED <<rides, jobs, handler, calls, clock, faults>>

\* The same, or the commit itself, without an answer: the ride is there.
LoadFails(q) ==
  /\ request[q].pc = "load"
  /\ Fault
  /\ request' = [request EXCEPT ![q].pc = "catch", ![q].answer = "internal"]
  /\ UNCHANGED <<rides, jobs, handler, calls, clock>>

\* notifyRideOffered, for all candidates at once.  emit never throws.
NotifyRideOffered(q, d) ==
  /\ request[q].pc = "offer"
  /\ \E i \in DOMAIN rides :
       /\ rides[i].of = q /\ d \in rides[i].candidates \ rides[i].offered
       /\ rides' = [rides EXCEPT ![i].offered = @ \cup {d}]
  /\ UNCHANGED <<request, jobs, handler, calls, clock, faults>>

\* The request is answered.  Its results are dropped with it.
Answered(q, answer) ==
  request' = [request EXCEPT ![q].pc = "done", ![q].answer = answer,
                             ![q].estimate = Nothing, ![q].drivers = Nothing]

\* notifyRideMatched and the answer.
NotifyRideMatched(q) ==
  /\ request[q].pc = "offer"
  /\ \E i \in DOMAIN rides : rides[i].of = q /\ rides[i].offered = rides[i].candidates
  /\ Answered(q, "created")
  /\ UNCHANGED <<rides, jobs, handler, calls, clock, faults>>

\* The catch block: the job is removed and the answer is an error.
CreateRideCatch(q) ==
  /\ request[q].pc = "catch"
  /\ Remove(JobId(q))
  /\ Answered(q, request[q].answer)
  /\ UNCHANGED <<rides, handler, calls, clock, faults>>

\* The process stops: its requests are never answered, and the queue gives
\* the jobs it ran to the next one.
Crash ==
  /\ Fault
  /\ request' = [q \in Requests |->
       [request[q] EXCEPT !.pc = IF @ \in {"idle", "done"} THEN @ ELSE "dead",
                          !.route = IF @ = "idle" THEN @ ELSE "ended"]]
  /\ jobs' = [id \in DOMAIN jobs |->
       [jobs[id] EXCEPT !.state = IF @ = "active" THEN "waiting" ELSE @]]
  /\ handler' = [h \in Handlers |-> NoHandler]
  /\ UNCHANGED <<rides, calls, clock>>

-----------------------------------------------------------------------------
(* What becomes of a ride.                                                 *)

\* The statuses in which a handler goes on, by the status it writes; `accepted'
\* stands for assigned, accepted and enroute.  A rejection also writes back the
\* status that it read.
AllowedStatuses ==
  [candidates_computed |-> {"candidates_computed", "accepted"},
   accepted            |-> {"candidates_computed", "accepted"},
   trip_started        |-> {"accepted", "trip_started"},
   canceled            |-> {"candidates_computed", "accepted"},
   completed           |-> {"accepted", "trip_started"}]

\* findById of transitionRideStatus, and its check.
ReadRide(h, i, to) ==
  /\ handler[h] = NoHandler /\ calls < MaxCalls
  /\ calls' = calls + 1
  /\ rides[i].status \in AllowedStatuses[to]
  /\ handler' = [handler EXCEPT ![h] = [ride |-> i, to |-> to]]
  /\ UNCHANGED <<rides, request, jobs, clock, faults>>

\* updateRide writes every column: a ride that was finished since it was read is
\* open again, which `revived' remembers.
UpdateRide(h, to, bill) ==
  LET i == handler[h].ride IN
  /\ handler[h].to = to
  /\ handler' = [handler EXCEPT ![h] = NoHandler]
  /\ rides' = [rides EXCEPT ![i].status = to, ![i].bill = bill,
                            ![i].revived = @ \/ (Finished(rides[i].status) /\ ~Finished(to))]
  /\ UNCHANGED <<request, jobs, calls, clock, faults>>

\* Accepting, confirming, rejecting, starting the trip.
MoveRide(h) ==
  \E to \in {"candidates_computed", "accepted", "trip_started"} : UpdateRide(h, to, NoBill)

CancelRide(h) == UpdateRide(h, "canceled", NoBill)

\* completeRide with the fare of the distance.  It writes the status and then
\* the fare, as cancelRide does; what can come between is in RideLifecycle.
CompleteRide(h, distance, discount) ==
  /\ DiscountAccepted(BaseFare(distance), discount)
  /\ UpdateRide(h, "completed", CalculateFare(distance, discount))

RequestStep(q) ==
  \/ RemoveOldJob(q) \/ CreateQueueEvents(q) \/ AddJob(q) \/ Listen(q) \/ Timeout(q)
  \/ \E drivers \in Nearby : GetNearbyDrivers(q, drivers)
  \/ NoDriverNearby(q) \/ CreateRideWithDetails(q) \/ LoadRide(q)
  \/ \E d \in Drivers : NotifyRideOffered(q, d)
  \/ NotifyRideMatched(q) \/ CreateRideCatch(q)

Next ==
  \/ \E q \in Requests :
       \/ \E r \in Riders, now \in 0 .. MaxClock : CreateRide(q, r, now)
       \/ RequestStep(q)
       \/ QueueFails(q) \/ NearbyDriversFail(q) \/ CreateFails(q) \/ LoadFails(q)
  \/ \E id \in DOMAIN jobs : TakeJob(id) \/ EstimateRoute(id) \/ EstimateFails(id)
  \/ Crash
  \/ \E h \in Handlers :
       \/ \E i \in DOMAIN rides, to \in DOMAIN AllowedStatuses : ReadRide(h, i, to)
       \/ MoveRide(h) \/ CancelRide(h)
       \/ \E distance \in Distances, discount \in Discounts :
            CompleteRide(h, distance, discount)

Spec == Init /\ [][Next]_vars

\* Redis and the database answer, and the timer of waitUntilFinished fires.
\* The processor need not: nothing bounds the call of the routing service.
FairSpec == Spec /\ \A q \in Requests : WF_vars(RequestStep(q))

-----------------------------------------------------------------------------
(* Properties.                                                             *)

Bill ==
  [base : Nat, discount : Nat, percent : 0 .. 10000, fee : Nat, final : Nat]

Ride ==
  [of : Requests, rider : Riders,
   status : DOMAIN AllowedStatuses, estimate : Requests, candidates : Nearby \ {{}},
   offered : SUBSET Drivers, bill : Bill, revived : BOOLEAN]

Request ==
  [pc : {"idle", "both", "catch", "load", "offer", "done", "dead"},
   route : {"idle", "remove", "events", "add", "listen", "wait", "ended"},
   rider : Riders \cup {Nothing}, stamp : 0 .. MaxClock, seen : Nat,
   estimate : Requests \cup {Nothing}, drivers : Nearby \cup {Nothing},
   answer : {"none", "conflict", "badRequest", "noDriver", "internal", "created"}]

Job ==
  [state : {"none", "waiting", "active", "failed", "gone"}, of : Requests \cup {Nothing}]

Handler == [ride : Nat, to : DOMAIN AllowedStatuses \cup {"none"}]

\* The variables keep their types: a stored ride has an estimate and at least
\* one candidate.
CreationTypeOK ==
  /\ rides \in Seq(Ride)
  /\ request \in [Requests -> Request]
  /\ jobs \in [Riders \X (0 .. MaxClock) -> Job]
  /\ handler \in [Handlers -> Handler]
  /\ calls \in 0 .. MaxCalls
  /\ clock \in 0 .. MaxClock
  /\ faults \in 0 .. MaxFaults

\* A rider has two unfinished rides only if the later request looked for an
\* unfinished ride before the earlier one was committed, since the check of
\* createRide is not part of the transaction, or if the earlier ride was
\* finished and a handler that had read it before wrote it back.
OneRideUnlessOverlapping ==
  \A i, j \in {k \in DOMAIN rides : ~Finished(rides[k].status)} :
    i < j /\ rides[i].rider = rides[j].rider =>
      request[rides[j].of].seen < i \/ rides[i].revived

\* A ride is stored with the estimate of its own route, however late the job
\* of an earlier request ends and whatever it left in the queue.  Only two
\* requests of one rider in the same millisecond can share a job.
EstimateIsOwn ==
  \A i \in DOMAIN rides :
    LET q == rides[i].of IN
    rides[i].estimate # q =>
      /\ request[rides[i].estimate].rider = request[q].rider
      /\ request[rides[i].estimate].stamp = request[q].stamp

\* A request that was refused (an active ride, no route, no driver) has left
\* no ride behind: only a request that ended in an internal error or with its
\* process may have, and then the rider must cancel a ride he was not told of.
RefusalLeavesNothing ==
  \A i \in DOMAIN rides :
    request[rides[i].of].answer \in {"none", "internal", "created"}

\* The final fare of a completed ride, rounded twice, is the exact one up to
\* the rounding error, except where rounding to cents decides which app fee is
\* due: there it is one of the two fares that meet at the threshold.  The stored
\* percentage is that of the discount.
FareIsExact ==
  \A i \in DOMAIN rides :
    rides[i].status = "completed" =>
      FinalIsExact(rides[i].bill) /\ PercentIsExact(rides[i].bill)

\* Every request is answered, whether or not the processor ever runs its job.
EveryRequestIsAnswered ==
  \A q \in Requests : request[q].pc = "both" ~> request[q].pc \in {"done", "dead"}
=============================================================================
